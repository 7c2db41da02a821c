--------------------------- MODULE EventLogProofs ---------------------------
(***************************************************************************)
(* The ring buffer keeps the last Size events, for every Size.             *)
(***************************************************************************)
EXTENDS EventLog, SequenceTheorems, TLAPS

(* While the buffer is not full nothing has wrapped.                       *)
IInv == TypeOK /\ (count < Size => pos = count)

LEMMA NextPos ==
    ASSUME NEW p \in 0..Size-1
    PROVE  (p + 1) % Size = IF p + 1 = Size THEN 0 ELSE p + 1
<1>1. CASE p + 1 = Size
  BY <1>1, SizeAssumption
<1>2. CASE p + 1 < Size
  BY <1>2, SizeAssumption
<1> QED
  BY <1>1, <1>2, SizeAssumption

LEMMA InitIInv == Init => IInv
BY SizeAssumption DEF Init, IInv, TypeOK

LEMMA NextIInv == IInv /\ [Next]_vars => IInv'
<1> SUFFICES ASSUME IInv, [Next]_vars PROVE IInv'
  OBVIOUS
<1>1. ASSUME NEW e \in Events, Add(e) PROVE IInv'
  <2>1. pos' = IF pos + 1 = Size THEN 0 ELSE pos + 1
    BY <1>1, NextPos DEF Add, IInv, TypeOK
  <2> QED
    BY <1>1, <2>1, SizeAssumption DEF Add, IInv, TypeOK
<1>2. CASE UNCHANGED vars
  BY <1>2 DEF vars, IInv, TypeOK
<1> QED
  BY <1>1, <1>2 DEF Next

LEMMA IInvHolds == Spec => []IInv
BY InitIInv, NextIInv, PTL DEF Spec

Entries == Events \cup {NoEvent}

LEMMA SliceElements ==
    ASSUME NEW ev \in [0..Size-1 -> Entries], NEW a \in 0..Size, NEW b \in 0..Size, a <= b
    PROVE  /\ Slice(ev, a, b) \in Seq(Entries)
           /\ Len(Slice(ev, a, b)) = b - a
           /\ \A i \in 1..(b - a) : Slice(ev, a, b)[i] = ev[a + i - 1]
<1>1. b - a \in Nat
  BY SizeAssumption
<1>2. \A i \in 1..(b - a) : ev[a + i - 1] \in Entries
  BY SizeAssumption
<1> QED
  BY <1>1, <1>2 DEF Slice

(* The i-th oldest event is i-1 slots after the oldest one, around the     *)
(* ring.                                                                   *)
LEMMA OrderElements ==
    ASSUME NEW ev \in [0..Size-1 -> Entries], NEW p \in 0..Size-1, NEW n \in 0..Size
    PROVE  /\ InOrder(ev, p, n) \in Seq(Entries)
           /\ Len(InOrder(ev, p, n)) = n
           /\ \A i \in 1..n :
                InOrder(ev, p, n)[i] = IF n < Size THEN ev[i - 1]
                                       ELSE IF p + i <= Size THEN ev[p + i - 1]
                                       ELSE ev[p + i - 1 - Size]
<1>0. ASSUME NEW a \in 0..Size, NEW b \in 0..Size, a <= b
      PROVE  /\ Slice(ev, a, b) \in Seq(Entries)
             /\ Len(Slice(ev, a, b)) = b - a
             /\ \A i \in 1..(b - a) : Slice(ev, a, b)[i] = ev[a + i - 1]
  BY <1>0, SliceElements
<1>1. CASE n < Size
  <2> DEFINE s == Slice(ev, 0, n)
  <2>1. 0 \in 0..Size /\ 0 <= n
    BY SizeAssumption
  <2>2. s \in Seq(Entries) /\ Len(s) = n - 0 /\ \A i \in 1..(n - 0) : s[i] = ev[0 + i - 1]
    BY <1>0, <2>1
  <2>3. InOrder(ev, p, n) = s
    BY <1>1 DEF InOrder
  <2> HIDE DEF s
  <2> QED
    BY <1>1, <2>2, <2>3
<1>2. CASE n = Size
  <2> DEFINE s == Slice(ev, p, Size)
             t == Slice(ev, 0, p)
  <2>0. 0 \in 0..Size /\ 0 <= p /\ p \in 0..Size /\ p <= Size /\ Size \in 0..Size
    BY SizeAssumption
  <2>1. /\ s \in Seq(Entries) /\ Len(s) = Size - p
        /\ \A i \in 1..(Size - p) : s[i] = ev[p + i - 1]
    BY <1>0, <2>0
  <2>2. t \in Seq(Entries) /\ Len(t) = p - 0 /\ \A i \in 1..(p - 0) : t[i] = ev[0 + i - 1]
    BY <1>0, <2>0
  <2>3. InOrder(ev, p, n) = s \o t
    BY <1>2, SizeAssumption DEF InOrder
  <2> HIDE DEF s, t
  <2>4. /\ s \o t \in Seq(Entries)
        /\ Len(s \o t) = Len(s) + Len(t)
        /\ \A i \in 1..Len(s) + Len(t) :
             (s \o t)[i] = IF i <= Len(s) THEN s[i] ELSE t[i - Len(s)]
    BY <2>1, <2>2, ConcatProperties
  <2> DEFINE u == s \o t
  <2>5. /\ u \in Seq(Entries) /\ Len(u) = Size
        /\ \A i \in 1..Size : u[i] = IF i <= Size - p THEN s[i] ELSE t[i - (Size - p)]
    <3>1. Len(s) = Size - p /\ Len(t) = p /\ Len(s) + Len(t) = Size
      BY <2>1, <2>2, SizeAssumption
    <3> QED
      BY <2>4, <3>1
  <2> HIDE DEF u
  <2>6. ASSUME NEW i \in 1..Size
        PROVE  u[i] = IF p + i <= Size THEN ev[p + i - 1] ELSE ev[p + i - 1 - Size]
    <3>1. CASE i <= Size - p
      <4>1. i \in 1..(Size - p) /\ p + i <= Size
        BY <3>1, SizeAssumption
      <4> QED
        BY <3>1, <4>1, <2>1, <2>5
    <3>2. CASE i > Size - p
      <4>1. /\ i - (Size - p) \in 1..(p - 0)
            /\ 0 + (i - (Size - p)) - 1 = p + i - 1 - Size
            /\ ~(p + i <= Size) /\ ~(i <= Size - p)
        BY <3>2, SizeAssumption
      <4> QED
        BY <4>1, <2>2, <2>5
    <3>3. i \in Int /\ Size - p \in Int
      BY SizeAssumption
    <3> QED
      BY <3>1, <3>2, <3>3
  <2> QED
    BY <1>2, <2>3, <2>5, <2>6, SizeAssumption DEF u
<1> QED
  BY <1>1, <1>2, SizeAssumption

(* A step of the ring is a step of the log it stands for.                  *)
LEMMA AddHappens ==
    ASSUME IInv, IInv', NEW e \in Events, Add(e)
    PROVE  Log!Happen(e)
<1> DEFINE s == Append(All, e)
<1>1. /\ All \in Seq(Entries) /\ Len(All) = count
      /\ \A i \in 1..count :
           All[i] = IF count < Size THEN events[i - 1]
                    ELSE IF pos + i <= Size THEN events[pos + i - 1]
                    ELSE events[pos + i - 1 - Size]
  BY OrderElements DEF All, IInv, TypeOK, Entries
<1>2. /\ All' \in Seq(Entries) /\ Len(All') = count'
      /\ \A i \in 1..count' :
           All'[i] = IF count' < Size THEN events'[i - 1]
                     ELSE IF pos' + i <= Size THEN events'[pos' + i - 1]
                     ELSE events'[pos' + i - 1 - Size]
  BY OrderElements DEF All, IInv, TypeOK, Entries
<1> HIDE DEF All
<1>3. /\ s \in Seq(Entries) /\ Len(s) = count + 1 /\ s[count + 1] = e
      /\ \A i \in 1..count : s[i] = All[i]
  BY <1>1 DEF IInv, TypeOK, Entries
<1> HIDE DEF s
<1>4. /\ events' = [events EXCEPT ![pos] = e]
      /\ pos' = IF pos + 1 = Size THEN 0 ELSE pos + 1
      /\ count' = IF count < Size THEN count + 1 ELSE count
  BY NextPos DEF Add, IInv, TypeOK
<1>5. CASE count < Size
  <2>1. Log!Last(s) = s
    BY <1>5, <1>3, SizeAssumption DEF Log!Last, IInv, TypeOK
  <2>2. Len(All') = count + 1 /\ count' = count + 1
    BY <1>2, <1>4, <1>5
  <2>3. ASSUME NEW i \in 1..(count + 1) PROVE All'[i] = s[i]
    <3>1. pos = count
      BY <1>5 DEF IInv
    <3>2. All'[i] = events'[i - 1]
      BY <1>2, <1>4, <1>5, <2>2, <3>1, SizeAssumption DEF IInv, TypeOK
    <3>3. CASE i = count + 1
      BY <3>1, <3>2, <3>3, <1>3, <1>4 DEF IInv, TypeOK
    <3>4. CASE i < count + 1
      BY <3>1, <3>2, <3>4, <1>1, <1>3, <1>4, <1>5 DEF IInv, TypeOK
    <3> QED
      BY <3>3, <3>4 DEF IInv, TypeOK
  <2>4. All' = s
    BY <1>2, <1>3, <2>2, <2>3
  <2> QED
    BY <2>1, <2>4 DEF Log!Happen, s
<1>6. CASE count = Size
  <2>1. Log!Last(s) = SubSeq(s, 2, Size + 1)
    BY <1>6, <1>3, SizeAssumption DEF Log!Last
  <2>2. /\ SubSeq(s, 2, Size + 1) \in Seq(Entries) /\ Len(SubSeq(s, 2, Size + 1)) = Size
        /\ \A i \in 1..Size : SubSeq(s, 2, Size + 1)[i] = s[i + 1]
    BY <1>6, <1>3, SizeAssumption
  <2>3. ASSUME NEW i \in 1..Size PROVE All'[i] = s[i + 1]
    <3>1. All'[i] = IF pos' + i <= Size THEN events'[pos' + i - 1]
                    ELSE events'[pos' + i - 1 - Size]
      BY <1>2, <1>4, <1>6, SizeAssumption
    <3>2. CASE i = Size
      BY <3>1, <3>2, <1>3, <1>4, <1>6, SizeAssumption DEF IInv, TypeOK
    <3>3. CASE i < Size
      <4>1. s[i + 1] = All[i + 1]
        BY <1>3, <1>6, <3>3, SizeAssumption
      <4>2. All[i + 1] = IF pos + i + 1 <= Size THEN events[pos + i]
                         ELSE events[pos + i - Size]
        BY <1>1, <1>6, <3>3, SizeAssumption DEF IInv, TypeOK
      <4> QED
        BY <3>1, <3>3, <4>1, <4>2, <1>4, SizeAssumption DEF IInv, TypeOK
    <3> QED
      BY <3>2, <3>3, SizeAssumption
  <2>4. All' = SubSeq(s, 2, Size + 1)
    BY <1>2, <1>4, <1>6, <2>2, <2>3, SizeAssumption
  <2> QED
    BY <2>1, <2>4 DEF Log!Happen, s
<1> QED
  BY <1>5, <1>6, SizeAssumption DEF IInv, TypeOK

(* Every variable of the ring keeps its type: the position never leaves    *)
(* the slice.                                                              *)
THEOREM EventLogTypeCorrect == Spec => []TypeOK
<1>1. IInv => TypeOK
  BY DEF IInv
<1> QED
  BY IInvHolds, <1>1, PTL

(* What All returns is, at every moment, the last Size events in the order *)
(* in which they were added.                                               *)
THEOREM RingKeepsLastEvents == Spec => KeepsLastEvents
<1>1. Init => Log!Init
  BY SizeAssumption DEF Init, Log!Init, All, InOrder, Slice
<1>2. IInv /\ IInv' /\ [Next]_vars => [Log!Next]_All
  <2> SUFFICES ASSUME IInv, IInv', [Next]_vars PROVE [Log!Next]_All
    OBVIOUS
  <2>1. CASE Next
    BY <2>1, AddHappens DEF Next, Log!Next
  <2>2. CASE UNCHANGED vars
    BY <2>2 DEF vars, All
  <2> QED
    BY <2>1, <2>2
<1> QED
  BY <1>1, <1>2, IInvHolds, PTL DEF Spec, KeepsLastEvents, Log!Spec

=============================================================================
