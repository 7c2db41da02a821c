-------------------------- MODULE LineReaderProofs --------------------------
(***************************************************************************)
(* How long a command can take (LineReader), for every timeout and every   *)
(* patience of the buffered reader, however many pieces lines come in.     *)
(***************************************************************************)
EXTENDS LineReader, TLAPS

(* Ticks that the pieces of one read may have cost.                        *)
Spent(p) == p * MaxEmptyReads

(* A read begins before the deadline and in a loop that is not cancelled,  *)
(* so what has gone by since is no more than its pieces and its empty reads*)
(* have cost.                                                              *)
ReadInv ==
    reading =>
        /\ got < Expected
        /\ elapsed <= CmdTimeout + Spent(pieces) + empty
        /\ waited <= Spent(pieces) + empty

(* The parts of TypeOK: what is counted, what is true or false, what is named. *)
Counts ==
    /\ elapsed \in Nat /\ waited \in Nat
    /\ empty \in 0..MaxEmptyReads-1
    /\ pieces \in 0..MaxPieces
    /\ got \in 0..Expected

Flags == reading \in BOOLEAN /\ closed \in BOOLEAN /\ canceled \in BOOLEAN

Names ==
    /\ piece \in {"none", "start", "rest"}
    /\ outcome \in {"none", "ok", "timeout", "error", "canceled"}

IInv ==
    /\ TypeOK
    /\ ReadInv
    /\ ~canceled => waited = 0
    /\ CommandBounded
    /\ StopBounded

-----------------------------------------------------------------------------
(* A piece costs one full patience, and the read that is going on has one  *)
(* more.                                                                   *)
LEMMA PatienceLeft ==
    ASSUME NEW p \in Nat
    PROVE  /\ Spent(p) \in Nat
           /\ Spent(p + 1) = Spent(p) + MaxEmptyReads
           /\ (p + 1) * MaxEmptyReads = Spent(p) + MaxEmptyReads
<1>1. MaxEmptyReads \in Nat
  BY ReaderAssumption
<1>2. p * MaxEmptyReads \in Nat
  BY <1>1
<1>3. (p + 1) * MaxEmptyReads = p * MaxEmptyReads + MaxEmptyReads
  BY <1>1
<1> QED BY <1>2, <1>3 DEF Spent

(* So the two bounds are about what a read has spent, before and after.    *)
LEMMA Bounds ==
    ASSUME pieces \in Nat
    PROVE  /\ CommandBounded <=> elapsed <= CmdTimeout + (Spent(pieces) + MaxEmptyReads)
           /\ StopBounded <=> waited <= Spent(pieces) + MaxEmptyReads
BY PatienceLeft DEF CommandBounded, StopBounded, Patience

LEMMA BoundsNext ==
    ASSUME pieces' \in Nat
    PROVE  /\ CommandBounded' <=> elapsed' <= CmdTimeout + (Spent(pieces') + MaxEmptyReads)
           /\ StopBounded' <=> waited' <= Spent(pieces') + MaxEmptyReads
<1>1. (pieces' + 1) * MaxEmptyReads = Spent(pieces') + MaxEmptyReads
  BY PatienceLeft
<1>2. Patience' = Spent(pieces') + MaxEmptyReads
  BY <1>1 DEF Patience
<1> QED BY <1>2 DEF CommandBounded, StopBounded

LEMMA TypeParts == TypeOK <=> (Counts /\ Flags /\ Names)
BY Zenon DEF TypeOK, Counts, Flags, Names

LEMMA TypePartsNext == TypeOK' <=> (Counts' /\ Flags' /\ Names')
BY Zenon DEF TypeOK, Counts, Flags, Names

LEMMA InitIInv == Init => IInv
<1> SUFFICES ASSUME Init PROVE IInv
  OBVIOUS
<1>1. pieces = 0 /\ Spent(0) \in Nat /\ MaxEmptyReads \in Nat /\ CmdTimeout \in Nat
  BY ReaderAssumption, PatienceLeft DEF Init
<1>2. TypeOK
  <2>1. Counts
    BY ReaderAssumption DEF Init, Counts
  <2>2. Flags
    BY Zenon DEF Init, Flags
  <2>3. Names
    BY DEF Init, Names
  <2> QED BY <2>1, <2>2, <2>3, TypeParts
<1>3. ReadInv /\ (~canceled => waited = 0)
  BY DEF Init, ReadInv
<1>4. elapsed = 0 /\ waited = 0
  BY DEF Init
<1>5. CommandBounded /\ StopBounded
  BY <1>1, <1>4, Bounds
<1> QED BY <1>2, <1>3, <1>5 DEF IInv

(* Nothing in the invariant depends on how the command ended.              *)
LEMMA StepIInv == IInv /\ [Next]_vars => IInv'
<1> SUFFICES ASSUME IInv, [Next]_vars PROVE IInv'
  OBVIOUS
<1> USE ReaderAssumption
<1>1. TypeOK /\ ReadInv /\ (~canceled => waited = 0)
  BY DEF IInv
<1>2. pieces \in Nat /\ CommandBounded /\ StopBounded
  BY DEF IInv, TypeOK
<1>3. /\ elapsed <= CmdTimeout + (Spent(pieces) + MaxEmptyReads)
      /\ waited <= Spent(pieces) + MaxEmptyReads
  BY <1>2, Bounds
<1>4. Spent(pieces) \in Nat /\ Spent(pieces + 1) = Spent(pieces) + MaxEmptyReads /\ Spent(0) = 0
  <2>1. 0 * MaxEmptyReads = 0
    OBVIOUS
  <2> QED BY <1>2, <2>1, PatienceLeft DEF Spent
<1>5. ASSUME TypeOK', ReadInv', (~canceled => waited = 0)',
             elapsed' <= CmdTimeout + (Spent(pieces') + MaxEmptyReads),
             waited' <= Spent(pieces') + MaxEmptyReads
      PROVE  IInv'
  <2>1. pieces' \in Nat
    BY <1>5 DEF TypeOK
  <2> QED BY <1>5, <2>1, BoundsNext DEF IInv
<1>6. CASE CheckAndRead
  <2>1. CASE elapsed > CmdTimeout \/ canceled
    <3>1. ~reading /\ UNCHANGED <<elapsed, reading, empty, piece, pieces, got, closed, canceled, waited>>
      BY <1>6, <2>1, Zenon DEF CheckAndRead
    <3>2. outcome' \in {"timeout", "canceled"}
      BY <1>6, <2>1 DEF CheckAndRead
    <3>3. TypeOK'
      <4>1. Counts'
        BY <1>1, <3>1 DEF TypeOK, Counts
      <4>2. Flags'
        BY <1>1, <3>1, TypeParts, Zenon DEF Flags
      <4>3. Names'
        BY <1>1, <3>1, <3>2, TypeParts DEF Names
      <4> QED BY <4>1, <4>2, <4>3, TypePartsNext
    <3> QED BY <1>1, <1>3, <1>5, <3>1, <3>3 DEF ReadInv
  <2>2. CASE ~(elapsed > CmdTimeout \/ canceled)
    <3>1. /\ reading' = TRUE /\ empty' = 0 /\ pieces' = 0 /\ got < Expected
          /\ UNCHANGED <<elapsed, piece, got, closed, canceled, waited, outcome>>
      BY <1>6, <2>2 DEF CheckAndRead
    <3>2. elapsed <= CmdTimeout /\ waited = 0
      BY <1>1, <2>2 DEF TypeOK
    <3>3. TypeOK'
      BY <1>1, <3>1 DEF TypeOK
    <3>4. ReadInv'
      BY <1>1, <1>4, <3>1, <3>2 DEF TypeOK, ReadInv
    <3>5. /\ elapsed' <= CmdTimeout + (Spent(pieces') + MaxEmptyReads)
          /\ waited' <= Spent(pieces') + MaxEmptyReads
      BY <1>1, <1>4, <3>1, <3>2 DEF TypeOK
    <3> QED BY <1>1, <1>5, <3>1, <3>3, <3>4, <3>5
  <2> QED BY <2>1, <2>2
<1>7. CASE EmptyRead
  <2>1. /\ reading /\ elapsed' = elapsed + 1 /\ waited' = IF canceled THEN waited + 1 ELSE waited
        /\ UNCHANGED <<pieces, got, closed, canceled, outcome>>
    BY <1>7 DEF EmptyRead, Tick
  <2>2. TypeOK'
    <3>1. Counts'
      <4>1. empty' \in 0..MaxEmptyReads-1
        <5>1. CASE empty + 1 < MaxEmptyReads
          BY <1>1, <1>7, <5>1 DEF EmptyRead, TypeOK
        <5>2. CASE ~(empty + 1 < MaxEmptyReads)
          <6>1. empty' = 0
            BY <1>7, <5>2, Zenon DEF EmptyRead
          <6> QED BY <6>1
        <5> QED BY <5>1, <5>2
      <4> QED BY <1>1, <2>1, <4>1 DEF TypeOK, Counts
    <3>2. Flags'
      BY <1>1, <1>7, TypeParts, Zenon DEF EmptyRead, Tick, Flags
    <3>3. Names'
      BY <1>1, <1>7, TypeParts DEF EmptyRead, Tick, Names
    <3> QED BY <3>1, <3>2, <3>3, TypePartsNext
  <2>3. ReadInv'
    BY <1>1, <1>4, <1>7 DEF EmptyRead, Tick, TypeOK, ReadInv
  <2>4. /\ elapsed' <= CmdTimeout + (Spent(pieces') + MaxEmptyReads)
        /\ waited' <= Spent(pieces') + MaxEmptyReads
    BY <1>1, <1>4, <2>1 DEF TypeOK, ReadInv
  <2> QED BY <1>1, <1>5, <2>1, <2>2, <2>3, <2>4
<1>8. CASE PieceArrives
  <2>1. /\ reading /\ pieces' = pieces + 1 /\ empty' = 0
        /\ elapsed' \in {elapsed, elapsed + 1}
        /\ waited' \in {waited, waited + 1}
        /\ ~canceled => waited' = waited
        /\ UNCHANGED <<reading, got, closed, canceled, outcome>>
    BY <1>8 DEF PieceArrives, Tick
  <2>2. TypeOK'
    BY <1>1, <1>8, <2>1 DEF PieceArrives, TypeOK, ReadInv
  <2>3. ReadInv'
    BY <1>1, <1>4, <2>1 DEF TypeOK, ReadInv
  <2>4. /\ elapsed' <= CmdTimeout + (Spent(pieces') + MaxEmptyReads)
        /\ waited' <= Spent(pieces') + MaxEmptyReads
    BY <1>1, <1>4, <2>1 DEF TypeOK, ReadInv
  <2> QED BY <1>1, <1>5, <2>1, <2>2, <2>3, <2>4
<1>9. CASE LineArrives
  <2>1. /\ reading /\ ~reading' /\ empty' = 0
        /\ waited' \in {waited, waited + 1}
        /\ ~canceled => waited' = waited
        /\ UNCHANGED <<pieces, closed, canceled>>
    BY <1>9, Zenon DEF LineArrives, Tick
  <2>2. elapsed' \in {elapsed, elapsed + 1}
    BY <1>9 DEF LineArrives, Tick
  <2>3. TypeOK'
    <3>1. Counts'
      BY <1>1, <1>9, <2>1, <2>2 DEF LineArrives, TypeOK, ReadInv, Counts
    <3>2. Flags'
      BY <1>1, <1>9, TypeParts, Zenon DEF LineArrives, Tick, Flags
    <3>3. Names'
      BY <1>1, <1>9, TypeParts DEF LineArrives, Tick, Names
    <3> QED BY <3>1, <3>2, <3>3, TypePartsNext
  <2>4. /\ elapsed' <= CmdTimeout + (Spent(pieces') + MaxEmptyReads)
        /\ waited' <= Spent(pieces') + MaxEmptyReads
    BY <1>1, <1>4, <2>1, <2>2 DEF TypeOK, ReadInv
  <2> QED BY <1>1, <1>5, <2>1, <2>3, <2>4 DEF ReadInv
<1>10. CASE ReadFails
  <2>1. /\ reading /\ ~reading' /\ elapsed' = elapsed + 1
        /\ waited' = IF canceled THEN waited + 1 ELSE waited
        /\ UNCHANGED <<piece, pieces, got, closed, canceled, outcome>>
    BY <1>10 DEF ReadFails, Tick
  <2>2. TypeOK'
    <3>1. Counts'
      BY <1>1, <1>10, <2>1 DEF ReadFails, TypeOK, Counts
    <3>2. Flags'
      BY <1>1, <1>10, <2>1, TypeParts, Zenon DEF ReadFails, Flags
    <3>3. Names'
      BY <1>1, <2>1, TypeParts DEF Names
    <3> QED BY <3>1, <3>2, <3>3, TypePartsNext
  <2>3. /\ elapsed' <= CmdTimeout + (Spent(pieces') + MaxEmptyReads)
        /\ waited' <= Spent(pieces') + MaxEmptyReads
    BY <1>1, <1>4, <2>1 DEF TypeOK, ReadInv
  <2> QED BY <1>1, <1>5, <2>1, <2>2, <2>3 DEF ReadInv
<1>11. CASE Complete \/ PortCloses \/ PortOpens \/ UNCHANGED vars
  <2>1. UNCHANGED <<elapsed, reading, empty, pieces, got, canceled, waited>>
    BY <1>11 DEF Complete, PortCloses, PortOpens, vars
  <2>2. TypeOK'
    BY <1>1, <1>11 DEF Complete, PortCloses, PortOpens, vars, TypeOK
  <2>3. ReadInv' /\ (~canceled => waited = 0)'
    BY <1>1, <2>1 DEF ReadInv
  <2> QED BY <1>3, <1>5, <2>1, <2>2, <2>3
<1>12. CASE Cancel
  <2>1. /\ canceled'
        /\ UNCHANGED <<elapsed, reading, empty, piece, pieces, got, closed, waited, outcome>>
    BY <1>12 DEF Cancel
  <2>2. TypeOK' /\ ReadInv'
    BY <1>1, <1>12 DEF Cancel, TypeOK, ReadInv
  <2> QED BY <1>3, <1>5, <2>1, <2>2
<1> QED BY <1>6, <1>7, <1>8, <1>9, <1>10, <1>11, <1>12 DEF Next

THEOREM ReaderInvariant == Spec => []IInv
<1>1. Init => IInv
  BY InitIInv
<1>2. IInv /\ [Next]_vars => IInv'
  BY StepIInv
<1> QED BY <1>1, <1>2, PTL DEF Spec

(* A command that was written is over when its timeout has passed and the  *)
(* read it was in by then has returned, which takes one patience of the    *)
(* buffered reader for each piece of that line.                            *)
THEOREM CommandEndsInTime == Spec => []CommandBounded
<1>1. IInv => CommandBounded
  BY DEF IInv
<1> QED BY <1>1, ReaderInvariant, PTL

(* A loop that was cancelled leaves its command with the read it is in, so *)
(* Stop does not wait for a second one.                                    *)
THEOREM LoopStopsInTime == Spec => []StopBounded
<1>1. IInv => StopBounded
  BY DEF IInv
<1> QED BY <1>1, ReaderInvariant, PTL

(* Every variable keeps its type: no more zones are read than were asked   *)
(* for, and bufio never counts beyond its limit.                           *)
THEOREM ReaderTypeCorrect == Spec => []TypeOK
<1>1. IInv => TypeOK
  BY DEF IInv
<1> QED BY <1>1, ReaderInvariant, PTL

=============================================================================
