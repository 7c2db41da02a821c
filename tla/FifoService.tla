---------------------------- MODULE FifoService -----------------------------
(***************************************************************************)
(* What the command queue promises its callers, with no goroutine, context *)
(* or shutdown in sight: commands are served one at a time in the order in *)
(* which they arrived, each is answered once, and a command is refused     *)
(* unserved only while none is being served.  A caller may leave at any    *)
(* time; its command is then served, or refused, for nobody.               *)
(***************************************************************************)
EXTENDS Naturals, Sequences

CONSTANTS Callers, Nobody, Kinds, Replies, Refusal, Returns

VARIABLES
    line,       \* commands that wait, oldest first
    serving,    \* the command being served, as a sequence of at most one
    answered    \* the reply each caller has not picked up yet, or "none"

vars == <<line, serving, answered>>

Absent(c) ==
    /\ \A i \in 1..Len(line) : line[i].owner # c
    /\ \A i \in 1..Len(serving) : serving[i].owner # c
    /\ answered[c] = "none"

Init ==
    /\ line = <<>>
    /\ serving = <<>>
    /\ answered = [c \in Callers |-> "none"]

Arrive(c) ==
    /\ Absent(c)
    /\ \E k \in Kinds : line' = Append(line, [owner |-> c, kind |-> k])
    /\ UNCHANGED <<serving, answered>>

Serve ==
    /\ serving = <<>>
    /\ line # <<>>
    /\ serving' = <<Head(line)>>
    /\ line' = Tail(line)
    /\ UNCHANGED answered

(* An answer may go only to a caller that has none yet.                    *)
Answer(x, r) ==
    IF x.owner = Nobody
    THEN UNCHANGED answered
    ELSE /\ answered[x.owner] = "none"
         /\ answered' = [answered EXCEPT ![x.owner] = r]

Complete ==
    /\ serving # <<>>
    /\ \E r \in Replies \ {Refusal} : Answer(Head(serving), r)
    /\ serving' = <<>>
    /\ UNCHANGED line

Refuse ==
    /\ serving = <<>>
    /\ line # <<>>
    /\ Answer(Head(line), Refusal)
    /\ line' = Tail(line)
    /\ UNCHANGED serving

Disown(s, c) ==
    [i \in 1..Len(s) |-> IF s[i].owner = c THEN [s[i] EXCEPT !.owner = Nobody] ELSE s[i]]

(* The caller leaves, with a reply it picks up or with an error of its own.*)
Leave(c) ==
    /\ line' = Disown(line, c)
    /\ serving' = Disown(serving, c)
    /\ \E r \in Returns \cup {"none"} : answered' = [answered EXCEPT ![c] = r]

Next ==
    \/ \E c \in Callers : Arrive(c) \/ Leave(c)
    \/ Serve
    \/ Complete
    \/ Refuse

Spec == Init /\ [][Next]_vars

=============================================================================
