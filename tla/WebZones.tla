------------------------------ MODULE WebZones ------------------------------
(***************************************************************************)
(* One zone in the web client: the hook useZones.ts that polls the API and *)
(* keeps optimistic values, and the sliders of ZoneCard.tsx, which share   *)
(* one timer of useDebounce.ts.  The browser runs one callback at a time;  *)
(* what interleaves are timers, the user, and requests that the network    *)
(* and the server may answer in any order.                                 *)
(*                                                                         *)
(* Of the server there is what GET returns, which a POST changes, and which*)
(* changes for other reasons too (a keypad, another client, a poll of the  *)
(* amplifier that was overtaken by a set: ZoneService).                    *)
(***************************************************************************)
EXTENDS Naturals

CONSTANTS
    Attrs,      \* attributes with a slider or a selector
    Values,
    Sets,       \* calls of setZoneAttribute, bounded by their number
    Fetches,    \* calls of fetchZones that may be in flight
    MaxChanges  \* bound on changes the server makes for other reasons

ASSUME MaxChangesAssumption == MaxChanges \in Nat

VARIABLES
    server,     \* what GET /api/zones returns of the zone
    shown,      \* the zone in the component's state
    guard,      \* pendingUpdates: the value that is protected, and its age
    timer,      \* the call that useDebounce has put off
    post,       \* each call of setZoneAttribute, and its request
    fetch,      \* each call of fetchZones, and its request
    protect,    \* history: the set whose 8 seconds have not passed
    changes

clientVars == <<shown, guard, timer>>
vars == <<server, clientVars, post, fetch, protect, changes>>

Nothing == "nothing"
NoSet == "no set"
Zone == [Attrs -> Values]
NoGuard == [value |-> Nothing, age |-> "none"]

TypeOK ==
    /\ server \in Zone
    /\ shown \in Zone
    /\ guard \in [Attrs -> [value : Values, age : {"young", "expired"}] \cup {NoGuard}]
    /\ timer.attr = Nothing \/ timer \in [attr : Attrs, value : Values]
    /\ \A s \in Sets : post[s].at \in {"unused", "sent", "done", "failed", "over", "lost"}
    /\ \A f \in Fetches : fetch[f].at \in {"idle", "sent", "answered"}
    /\ \A f \in Fetches : fetch[f].at = "answered" => fetch[f].zone \in Zone
    /\ protect \in [Attrs -> Sets \cup {NoSet}]
    /\ changes \in 0..MaxChanges

NoTimer == [attr |-> Nothing, value |-> Nothing]
Unused == [at |-> "unused", attr |-> Nothing, value |-> Nothing]
IdleFetch == [at |-> "idle", zone |-> <<>>]

(* The first fetch has been answered: before it there is no zone to show.  *)
Init ==
    /\ \E v \in Values : server = [a \in Attrs |-> v]
    /\ shown = server
    /\ guard = [a \in Attrs |-> NoGuard]
    /\ timer = NoTimer
    /\ post = [s \in Sets |-> Unused]
    /\ fetch = [f \in Fetches |-> IdleFetch]
    /\ protect = [a \in Attrs |-> NoSet]
    /\ changes = 0

-----------------------------------------------------------------------------
(* The user.                                                               *)

(* setZoneAttribute, up to its await: a pending update of the attribute is *)
(* replaced.                                                               *)
SetZoneAttribute(s, a, v) ==
    /\ post[s] = Unused
    /\ post' = [post EXCEPT ![s] = [at |-> "sent", attr |-> a, value |-> v]]
    /\ guard' = [guard EXCEPT ![a] = [value |-> v, age |-> "young"]]
    /\ shown' = [shown EXCEPT ![a] = v]
    /\ protect' = [protect EXCEPT ![a] = s]

(* A selector or a button sets at once, whatever the timer holds.          *)
Pick(s) ==
    /\ \E a \in Attrs, v \in Values : SetZoneAttribute(s, a, v)
    /\ UNCHANGED <<server, timer, fetch, changes>>

(* A slider puts its call off, and drops the one that was put off before,  *)
(* another slider's as well.                                               *)
Slide ==
    /\ \E s \in Sets : post[s] = Unused
    /\ timer' \in [attr : Attrs, value : Values]
    /\ UNCHANGED <<server, shown, guard, post, fetch, protect, changes>>

TimerFires(s) ==
    /\ timer # NoTimer
    /\ SetZoneAttribute(s, timer.attr, timer.value)
    /\ timer' = NoTimer
    /\ UNCHANGED <<server, fetch, changes>>

-----------------------------------------------------------------------------
(* The server, and time.                                                   *)

ServerSets(s) ==
    /\ post[s].at = "sent"
    /\ server' = [server EXCEPT ![post[s].attr] = post[s].value]
    /\ post' = [post EXCEPT ![s].at = "done"]
    /\ UNCHANGED <<clientVars, fetch, protect, changes>>

(* A set that fails may have been done: 500 for a zone that is not cached, *)
(* a connection that broke.                                                *)
ServerFails(s) ==
    /\ post[s].at = "sent"
    /\ \/ UNCHANGED server
       \/ server' = [server EXCEPT ![post[s].attr] = post[s].value]
    /\ post' = [post EXCEPT ![s].at = "failed"]
    /\ UNCHANGED <<clientVars, fetch, protect, changes>>

ServerChanges ==
    /\ changes < MaxChanges
    /\ changes' = changes + 1
    /\ \E a \in Attrs, v \in Values : server' = [server EXCEPT ![a] = v]
    /\ UNCHANGED <<clientVars, post, fetch, protect>>

ServerAnswers(f) ==
    /\ fetch[f].at = "sent"
    /\ fetch' = [fetch EXCEPT ![f] = [at |-> "answered", zone |-> server]]
    /\ UNCHANGED <<server, clientVars, post, protect, changes>>

(* Mutant of GuardExpires: only the history knows.                         *)
GuardStays(a) ==
    /\ guard[a].age = "young" \/ protect[a] # NoSet
    /\ protect' = [protect EXCEPT ![a] = NoSet]
    /\ UNCHANGED <<server, clientVars, post, fetch, changes>>

(* OPTIMISTIC_GUARD_MS after a set.                                        *)
GuardExpires(a) ==
    /\ guard[a].age = "young" \/ protect[a] # NoSet
    /\ guard' = [guard EXCEPT ![a] = IF @ = NoGuard THEN @ ELSE [@ EXCEPT !.age = "expired"]]
    /\ protect' = [protect EXCEPT ![a] = NoSet]
    /\ UNCHANGED <<server, shown, timer, post, fetch, changes>>

-----------------------------------------------------------------------------
(* What comes back to the client.                                          *)

(* The interval does not wait for the fetch before.                        *)
FetchStarts(f) ==
    /\ fetch[f].at = "idle"
    /\ fetch' = [fetch EXCEPT ![f].at = "sent"]
    /\ UNCHANGED <<server, clientVars, post, protect, changes>>

(* Mutants of Merged: what was fetched is taken as it is; what has not     *)
(* expired is kept, where there is no guard as well.                       *)
MergedRaw(zone) == zone

MergedUnexpired(zone) ==
    [a \in Attrs |-> IF guard[a].age # "expired" THEN guard[a].value ELSE zone[a]]

Merged(zone) == [a \in Attrs |-> IF guard[a].age = "young" THEN guard[a].value ELSE zone[a]]

Pruned == [a \in Attrs |-> IF guard[a].age = "young" THEN guard[a] ELSE NoGuard]

(* mergeZones: updates that have expired are dropped, the others overlay   *)
(* what was fetched, which may be older than what is shown.                *)
FetchReturns(f) ==
    /\ fetch[f].at = "answered"
    /\ shown' = Merged(fetch[f].zone)
    /\ guard' = Pruned
    /\ fetch' = [fetch EXCEPT ![f] = IdleFetch]
    /\ UNCHANGED <<server, timer, post, protect, changes>>

FetchFails(f) ==
    /\ fetch[f].at # "idle"
    /\ fetch' = [fetch EXCEPT ![f] = IdleFetch]
    /\ UNCHANGED <<server, clientVars, post, protect, changes>>

(* After the await: the response of a set that worked is not looked at; one*)
(* that failed clears the attribute's guard, whichever set that belongs to.*)
PostReturns(s) ==
    /\ post[s].at \in {"done", "failed"}
    /\ post' = [post EXCEPT ![s].at = IF @ = "done" THEN "over" ELSE "lost"]
    /\ LET a == post[s].attr
       IN IF post[s].at = "done"
          THEN UNCHANGED <<guard, protect>>
          ELSE /\ guard' = [guard EXCEPT ![a] = NoGuard]
               /\ protect' = IF protect[a] = s THEN [protect EXCEPT ![a] = NoSet] ELSE protect
    /\ UNCHANGED <<server, shown, timer, fetch, changes>>

-----------------------------------------------------------------------------
Next ==
    \/ Slide
    \/ \E s \in Sets : Pick(s) \/ TimerFires(s) \/ ServerSets(s) \/ ServerFails(s) \/ PostReturns(s)
    \/ \E f \in Fetches : FetchStarts(f) \/ ServerAnswers(f) \/ FetchReturns(f) \/ FetchFails(f)
    \/ \E a \in Attrs : GuardExpires(a)
    \/ ServerChanges

Spec == Init /\ [][Next]_vars

(* Time passes, the interval fires, requests are answered, and a fetch     *)
(* works again and again.                                                  *)
Fairness ==
    /\ \A f \in Fetches :
         /\ WF_vars(FetchStarts(f))
         /\ SF_vars(ServerAnswers(f))
         /\ SF_vars(FetchReturns(f))
    /\ \A s \in Sets :
         /\ WF_vars(ServerSets(s) \/ ServerFails(s))
         /\ WF_vars(PostReturns(s))
         /\ WF_vars(TimerFires(s))
    /\ \A a \in Attrs : WF_vars(GuardExpires(a))

FairSpec == Spec /\ Fairness

-----------------------------------------------------------------------------
(* For the eight seconds after a set its value is on the screen, whichever *)
(* answers come in meanwhile, if no set of the attribute has failed.  (One *)
(* that fails late clears the guard of a newer one as well.)               *)
Lost(a) == \E s \in Sets : post[s].attr = a /\ post[s].at = "lost"
OptimisticProtected ==
    \A a \in Attrs : protect[a] # NoSet /\ ~Lost(a) => shown[a] = post[protect[a]].value

(* When the user and the server come to rest, what is shown is what the    *)
(* server has: no guard, failed set or late answer leaves the client wrong.*)
ShownConverges == <>[](shown = server)

=============================================================================
