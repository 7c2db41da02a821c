---------------------------- MODULE RecentEvents ----------------------------
(***************************************************************************)
(* What the event log promises: the last Size events, oldest first.        *)
(***************************************************************************)
EXTENDS Integers, Sequences

CONSTANTS Events, Size

VARIABLE recent

(* The last Size elements of s.                                            *)
Last(s) == IF Len(s) <= Size THEN s ELSE SubSeq(s, Len(s) - Size + 1, Len(s))

Init == recent = <<>>

Happen(e) == recent' = Last(Append(recent, e))

Next == \E e \in Events : Happen(e)

Spec == Init /\ [][Next]_recent

=============================================================================
