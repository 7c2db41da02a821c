----------------------------- MODULE LineReader -----------------------------
(***************************************************************************)
(* One command in executeCommand of internal/serial/queue.go, against the  *)
(* clock: the loop that checks the deadline and its context and then calls *)
(* ReadLine of port.go.  ReadLine is bufio's ReadString over a device whose*)
(* Read gives up after 200 ms.  Such a read returns no bytes and no error, *)
(* and bufio tries it MaxEmptyReads times before it returns an error of    *)
(* its own, so the loop is not back after 200 ms.                          *)
(*                                                                         *)
(* A tick is 200 ms.                                                       *)
(***************************************************************************)
EXTENDS Naturals

CONSTANTS
    CmdTimeout,     \* the command's timeout in ticks (10)
    MaxEmptyReads,  \* empty reads in a row that bufio puts up with (100)
    Expected,       \* zone lines to wait for (6)
    MaxPieces       \* bound of the model on the pieces of one read; bufio has none

ASSUME ReaderAssumption ==
    /\ CmdTimeout \in Nat
    /\ MaxEmptyReads \in Nat \ {0}
    /\ Expected \in Nat \ {0}
    /\ MaxPieces \in Nat

VARIABLES
    elapsed,    \* ticks since the command was written
    reading,    \* inside ReadLine
    empty,      \* empty reads in a row of the read that is going on
    piece,      \* the start of a line is in the buffer, or it was thrown away
    pieces,     \* pieces that came to the last read
    got,        \* zone lines read
    closed,     \* somebody has closed the port
    canceled,   \* the loop's context is done
    waited,     \* ticks since it is
    outcome     \* how the command ended

vars == <<elapsed, reading, empty, piece, pieces, got, closed, canceled, waited, outcome>>

TypeOK ==
    /\ elapsed \in Nat
    /\ reading \in BOOLEAN
    /\ empty \in 0..MaxEmptyReads-1
    /\ piece \in {"none", "start", "rest"}
    /\ pieces \in 0..MaxPieces
    /\ got \in 0..Expected
    /\ closed \in BOOLEAN
    /\ canceled \in BOOLEAN
    /\ waited \in Nat
    /\ outcome \in {"none", "ok", "timeout", "error", "canceled"}

(* The command has just been written, by a loop that may have been         *)
(* cancelled before it took it.                                            *)
Init ==
    /\ elapsed = 0
    /\ reading = FALSE
    /\ empty = 0
    /\ piece = "none"
    /\ pieces = 0
    /\ got = 0
    /\ closed = FALSE
    /\ canceled \in BOOLEAN
    /\ waited = 0
    /\ outcome = "none"

Tick ==
    /\ elapsed' = elapsed + 1
    /\ waited' = IF canceled THEN waited + 1 ELSE waited

Running == outcome = "none"

(* Mutant of CheckAndRead: only the context is looked at.                  *)
ReadAnyway ==
    /\ Running
    /\ ~reading
    /\ got < Expected
    /\ IF canceled
       THEN outcome' = "canceled" /\ UNCHANGED <<reading, empty, pieces>>
       ELSE reading' = TRUE /\ empty' = 0 /\ pieces' = 0 /\ UNCHANGED outcome
    /\ UNCHANGED <<elapsed, piece, got, closed, canceled, waited>>

(* Mutant of CheckAndRead: the loop does not look at its context.          *)
ReadOnCancel ==
    /\ Running
    /\ ~reading
    /\ got < Expected
    /\ IF elapsed > CmdTimeout
       THEN outcome' = "timeout" /\ UNCHANGED <<reading, empty, pieces>>
       ELSE reading' = TRUE /\ empty' = 0 /\ pieces' = 0 /\ UNCHANGED outcome
    /\ UNCHANGED <<elapsed, piece, got, closed, canceled, waited>>

(* The top of the loop.                                                    *)
CheckAndRead ==
    /\ Running
    /\ ~reading
    /\ got < Expected
    /\ IF elapsed > CmdTimeout
       THEN outcome' = "timeout" /\ UNCHANGED <<reading, empty, pieces>>
       ELSE IF canceled
       THEN outcome' = "canceled" /\ UNCHANGED <<reading, empty, pieces>>
       ELSE reading' = TRUE /\ empty' = 0 /\ pieces' = 0 /\ UNCHANGED outcome
    /\ UNCHANGED <<elapsed, piece, got, closed, canceled, waited>>

(* Mutant of EmptyRead: one read more.                                     *)
EmptyReadOneMore ==
    /\ Running
    /\ reading
    /\ ~closed
    /\ Tick
    /\ IF empty < MaxEmptyReads
       THEN empty' = empty + 1 /\ UNCHANGED <<reading, piece>>
       ELSE /\ reading' = FALSE
            /\ empty' = 0
            /\ piece' = IF piece = "start" THEN "rest" ELSE piece
    /\ UNCHANGED <<pieces, got, closed, canceled, outcome>>

(* Nothing arrives for a tick.  After the last of these reads ReadString   *)
(* returns an error and with it what it had of the line, which the loop    *)
(* throws away.                                                            *)
EmptyRead ==
    /\ Running
    /\ reading
    /\ ~closed
    /\ Tick
    /\ IF empty + 1 < MaxEmptyReads
       THEN empty' = empty + 1 /\ UNCHANGED <<reading, piece>>
       ELSE /\ reading' = FALSE
            /\ empty' = 0
            /\ piece' = IF piece = "start" THEN "rest" ELSE piece
    /\ UNCHANGED <<pieces, got, closed, canceled, outcome>>

(* A part of a line arrives, and bufio reads on with a count from zero.    *)
PieceArrives ==
    /\ Running
    /\ reading
    /\ ~closed
    /\ pieces < MaxPieces
    /\ Tick \/ UNCHANGED <<elapsed, waited>>
    /\ pieces' = pieces + 1
    /\ empty' = 0
    /\ piece' = IF piece = "none" THEN "start" ELSE piece
    /\ UNCHANGED <<reading, got, closed, canceled, outcome>>

(* A line is complete: one more zone, an error, or neither, like the rest  *)
(* of a line whose start was thrown away.  It may have taken up to a tick; *)
(* the meaningless lines of one tick are taken for one.                    *)
LineArrives ==
    /\ Running
    /\ reading
    /\ ~closed
    /\ Tick \/ UNCHANGED <<elapsed, waited>>
    /\ reading' = FALSE
    /\ empty' = 0
    /\ piece' = "none"
    /\ \/ piece # "rest" /\ got' = got + 1 /\ UNCHANGED outcome
       \/ piece # "rest" /\ outcome' = "error" /\ UNCHANGED got
       \/ elapsed' = elapsed + 1 /\ UNCHANGED <<got, outcome>>
    /\ UNCHANGED <<pieces, closed, canceled>>

(* Mutant of Complete: it waits for one line too many.                     *)
CompleteLate ==
    /\ Running
    /\ got > Expected
    /\ outcome' = "ok"
    /\ UNCHANGED <<elapsed, reading, empty, piece, pieces, got, closed, canceled, waited>>

(* All the zones are there.                                                *)
Complete ==
    /\ Running
    /\ got = Expected
    /\ outcome' = "ok"
    /\ UNCHANGED <<elapsed, reading, empty, piece, pieces, got, closed, canceled, waited>>

(* On a closed port every read fails at once, a tick is many of them.      *)
ReadFails ==
    /\ Running
    /\ reading
    /\ closed
    /\ Tick
    /\ reading' = FALSE
    /\ empty' = 0
    /\ UNCHANGED <<piece, pieces, got, closed, canceled, outcome>>

Cancel ==
    /\ Running
    /\ ~canceled
    /\ canceled' = TRUE
    /\ UNCHANGED <<elapsed, reading, empty, piece, pieces, got, closed, waited, outcome>>

(* The probe of a recovery that does not know of this loop (Recovery).     *)
PortCloses ==
    /\ Running
    /\ ~closed
    /\ closed' = TRUE
    /\ UNCHANGED <<elapsed, reading, empty, piece, pieces, got, canceled, waited, outcome>>

(* The probe opens it again.  A read of the old port has to fail first, the*)
(* next one takes the new reader, which may begin in the middle of a line. *)
PortOpens ==
    /\ Running
    /\ ~reading
    /\ closed
    /\ closed' = FALSE
    /\ piece' \in {"none", "rest"}
    /\ UNCHANGED <<elapsed, reading, empty, pieces, got, canceled, waited, outcome>>

Next ==
    \/ CheckAndRead \/ EmptyRead \/ PieceArrives \/ LineArrives \/ Complete \/ ReadFails
    \/ Cancel \/ PortCloses \/ PortOpens

Spec == Init /\ [][Next]_vars

(* Time passes and the loop runs.                                          *)
FairSpec ==
    Spec /\ WF_vars(CheckAndRead \/ EmptyRead \/ LineArrives \/ Complete \/ ReadFails)

-----------------------------------------------------------------------------
(* How long one call of ReadLine lasts: bufio's patience, once more for    *)
(* every piece that comes.  Bytes without a newline make it last for ever. *)
Patience == (pieces + 1) * MaxEmptyReads

(* A command is over when its deadline has passed and the call of ReadLine *)
(* that was going on by then has returned: there is never a second one,    *)
(* whatever lines have come, complete or not, and whoever closed the port. *)
CommandBounded == elapsed <= CmdTimeout + Patience

(* And a loop that was cancelled is back in its select, where Stop waits   *)
(* for it, after no more than the one call it was in.                      *)
StopBounded == waited <= Patience

(* Every command that was written is answered, if every line comes to an   *)
(* end after at most MaxPieces pieces.                                     *)
Answered == <>(outcome # "none")

(* "ReadLine returns within 200ms even with no data, letting us check the  *)
(* deadline and context" (queue.go:186-188, and port.go:54-56): a command  *)
(* is over one tick after its deadline, or after it was cancelled.  With   *)
(* bufio in between it is not.                                             *)
ChecksEveryTick == elapsed <= CmdTimeout + 1 /\ waited <= 1

=============================================================================
