------------------------------ MODULE EventLog ------------------------------
(***************************************************************************)
(* The ring buffer of internal/amp/events.go, which the state machine and  *)
(* the controller write to and the health endpoint reads.  Add and All run *)
(* under one mutex, so each is a single step.                              *)
(***************************************************************************)
EXTENDS Integers, Sequences

CONSTANTS
    Events,     \* what an event says
    NoEvent,    \* the zero Event that make() fills the slice with
    Size        \* NewEventLog(size), 100 in main

ASSUME SizeAssumption == Size \in Nat \ {0}

VARIABLES
    events,     \* the slice, indexed from 0
    pos,        \* where the next event goes
    count       \* how many slots are filled

vars == <<events, pos, count>>

TypeOK ==
    /\ events \in [0..Size-1 -> Events \cup {NoEvent}]
    /\ pos \in 0..Size-1
    /\ count \in 0..Size

Init ==
    /\ events = [i \in 0..Size-1 |-> NoEvent]
    /\ pos = 0
    /\ count = 0

(* Mutants of Add: a count that goes on past the size, and one that stops  *)
(* one short of it, as if the size were the last index.                    *)
AddUncapped(e) ==
    /\ events' = [events EXCEPT ![pos] = e]
    /\ pos' = (pos + 1) % Size
    /\ count' = IF count <= Size THEN count + 1 ELSE count

AddShort(e) ==
    /\ events' = [events EXCEPT ![pos] = e]
    /\ pos' = (pos + 1) % Size
    /\ count' = IF count < Size - 1 THEN count + 1 ELSE count

Add(e) ==
    /\ events' = [events EXCEPT ![pos] = e]
    /\ pos' = (pos + 1) % Size
    /\ count' = IF count < Size THEN count + 1 ELSE count

(* ev[a:b]                                                                 *)
Slice(ev, a, b) == [i \in 1..(b - a) |-> ev[a + i - 1]]

(* What All builds from a slice, its next position and its count.          *)
InOrder(ev, p, n) == IF n < Size THEN Slice(ev, 0, n) ELSE Slice(ev, p, Size) \o Slice(ev, 0, p)

All == InOrder(events, pos, count)

Next == \E e \in Events : Add(e)

Spec == Init /\ [][Next]_vars

(* All returns the last Size events, oldest first, before the buffer is    *)
(* full, when it becomes full and across every wrap.                       *)
Log == INSTANCE RecentEvents WITH recent <- All
KeepsLastEvents == Log!Spec

=============================================================================
