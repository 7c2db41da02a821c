----------------------------- MODULE ZoneReads ------------------------------
(***************************************************************************)
(* ZoneService with a memory of what the amplifiers have held since each   *)
(* request was let through to them, and what src/README.md says of the     *)
(* answer a client gets.  The code does not keep that promise: the answer  *)
(* to a query is whatever zone lines come next from the reader, and        *)
(* nothing empties it of older ones.                                       *)
(***************************************************************************)
EXTENDS ZoneService

VARIABLE since      \* values each cell has held since a request went on

readVars == <<vars, since>>

Under(c) == at[c] \notin {"idle", "checked", "done"}

Held == [x \in Cells |-> {GetAttribute(amps[x[1]], x[2])}]

ReadInit == Init /\ since = [c \in Requests |-> [x \in Cells |-> {}]]

Remembers ==
    since' = [c \in Requests |-> [x \in Cells |->
                IF Under(c)' THEN since[c][x] \cup Held'[x] ELSE {}]]

ReadNext == Next /\ Remembers

ReadSpec == ReadInit /\ [][ReadNext]_readVars

-----------------------------------------------------------------------------
LiveRead(c) == at[c] = "read" /\ req[c].what = "zone"

(* A live read returns a value that the amplifier held after the request   *)
(* had reached it: "bypass the cache on any GET to query the amp directly" *)
(* (src/README.md:11 and 55).                                              *)
LiveReadsCurrent ==
    \A c \in Requests : LiveRead(c) =>
        LET q == req[c]
            s == allZones[c]
        IN q.zone \in Shown(s) =>
             GetAttribute(s[First(s, q.zone)].attrs, q.attr) \in since[c][<<q.zone, q.attr>>]

=============================================================================
