--------------------------- MODULE WebZonesProofs ---------------------------
(***************************************************************************)
(* What the web client shows of a value that the user has just set, for    *)
(* any number of attributes, values, sets and fetches in flight.           *)
(***************************************************************************)
EXTENDS WebZones, TLAPS

PostStates == {"unused", "sent", "done", "failed", "over", "lost"}
Guards == [value : Values, age : {"young", "expired"}]

(* The types of the client's and the server's copies ...                   *)
CopiesTyped ==
    /\ server \in Zone
    /\ shown \in Zone
    /\ guard \in [Attrs -> Guards \cup {NoGuard}]
    /\ timer \in [attr : Attrs, value : Values] \cup {NoTimer}
    /\ protect \in [Attrs -> Sets \cup {NoSet}]
    /\ changes \in 0..MaxChanges

(* ... and of what is under way: a set that has been made says of what.    *)
PostsTyped ==
    /\ post \in [Sets -> [at : PostStates, attr : Attrs \cup {Nothing}, value : Values \cup {Nothing}]]
    /\ \A s \in Sets : post[s].at # "unused" => post[s].attr \in Attrs /\ post[s].value \in Values

FetchesTyped ==
    /\ fetch \in [Fetches -> [at : {"idle", "sent", "answered"}, zone : Zone \cup {<<>>}]]
    /\ \A f \in Fetches : fetch[f].at = "answered" => fetch[f].zone \in Zone

Typed == CopiesTyped /\ PostsTyped /\ FetchesTyped

(* The set that protects an attribute is one of that attribute, and while  *)
(* no set of the attribute has failed, the guard holds its value, not only *)
(* the screen: that is what keeps the next answer from replacing it.       *)
Holds(a) ==
    protect[a] # NoSet =>
        /\ post[protect[a]].attr = a
        /\ post[protect[a]].at # "unused"
        /\ Lost(a) \/ /\ guard[a] = [value |-> post[protect[a]].value, age |-> "young"]
                      /\ shown[a] = post[protect[a]].value

Guarded == \A a \in Attrs : Holds(a)

IInv == Typed /\ Guarded

LEMMA InitIInv == Init => IInv
<1> SUFFICES ASSUME Init PROVE IInv
  OBVIOUS
<1>1. CopiesTyped
  BY MaxChangesAssumption DEF Init, CopiesTyped, Zone
<1>2. PostsTyped /\ FetchesTyped
  BY DEF Init, PostsTyped, FetchesTyped, PostStates, Unused, IdleFetch
<1>3. Guarded
  BY DEF Init, Guarded, Holds
<1> QED
  BY <1>1, <1>2, <1>3 DEF IInv, Typed

-----------------------------------------------------------------------------
(* The user.                                                               *)

LEMMA SetKeeps ==
    ASSUME IInv, NEW s \in Sets, NEW a \in Attrs, NEW v \in Values, SetZoneAttribute(s, a, v),
           UNCHANGED <<server, fetch, changes>>,
           timer' \in [attr : Attrs, value : Values] \cup {NoTimer}
    PROVE  IInv'
<1> USE DEF IInv, Typed, SetZoneAttribute
<1>1. CopiesTyped'
  BY DEF CopiesTyped, Zone, Guards
<1>2. PostsTyped'
  BY DEF PostsTyped, PostStates
<1>3. FetchesTyped'
  BY DEF FetchesTyped
<1>4. Holds(a)'
  BY DEF CopiesTyped, PostsTyped, Zone, Holds
<1>5. ASSUME NEW b \in Attrs \ {a} PROVE Holds(b)'
  <2>1. protect'[b] = protect[b] /\ guard'[b] = guard[b] /\ shown'[b] = shown[b]
    BY DEF CopiesTyped, Zone
  <2>2. protect[b] # NoSet => post'[protect[b]] = post[protect[b]]
    BY DEF CopiesTyped, PostsTyped, Guarded, Holds, Unused
  <2>3. Lost(b) => Lost(b)'
    BY DEF Lost, PostsTyped, Unused
  <2> QED
    BY <2>1, <2>2, <2>3 DEF Guarded, Holds
<1> QED
  BY <1>1, <1>2, <1>3, <1>4, <1>5 DEF Guarded

(* What touches neither a guard nor what is shown nor what a set is of.    *)
LEMMA HoldsStill ==
    ASSUME IInv, UNCHANGED <<shown, guard, protect>>,
           \A s \in Sets : /\ post'[s].attr = post[s].attr /\ post'[s].value = post[s].value
                           /\ post[s].at # "unused" => post'[s].at # "unused"
                           /\ post[s].at = "lost" => post'[s].at = "lost"
    PROVE  Guarded'
<1> SUFFICES ASSUME NEW a \in Attrs, protect[a] # NoSet PROVE Holds(a)'
  BY DEF Guarded, Holds
<1>1. protect[a] \in Sets
  BY DEF IInv, Typed, CopiesTyped
<1>2. Lost(a) => Lost(a)'
  BY DEF Lost
<1> QED
  BY <1>1, <1>2 DEF IInv, Guarded, Holds

LEMMA UserKeeps ==
    ASSUME IInv, Slide \/ \E s \in Sets : Pick(s) \/ TimerFires(s)
    PROVE  IInv'
<1>1. CASE Slide
  BY <1>1, HoldsStill DEF Slide, IInv, Typed, CopiesTyped, PostsTyped, FetchesTyped
<1>2. ASSUME NEW s \in Sets, Pick(s) PROVE IInv'
  BY <1>2, SetKeeps DEF Pick, IInv, Typed, CopiesTyped
<1>3. ASSUME NEW s \in Sets, TimerFires(s) PROVE IInv'
  <2>1. timer.attr \in Attrs /\ timer.value \in Values
    BY <1>3 DEF TimerFires, IInv, Typed, CopiesTyped
  <2> QED
    BY <1>3, <2>1, SetKeeps DEF TimerFires
<1> QED
  BY <1>1, <1>2, <1>3

-----------------------------------------------------------------------------
(* The server, and time.                                                   *)

LEMMA ServerKeeps ==
    ASSUME IInv, NEW s \in Sets, ServerSets(s) \/ ServerFails(s)
    PROVE  IInv'
<1>1. post[s].at = "sent" /\ post[s].attr \in Attrs /\ post[s].value \in Values
  BY DEF ServerSets, ServerFails, IInv, Typed, PostsTyped
<1>2. CopiesTyped' /\ FetchesTyped'
  BY <1>1 DEF ServerSets, ServerFails, clientVars, IInv, Typed, CopiesTyped, FetchesTyped, Zone
<1>3. PostsTyped'
  BY DEF ServerSets, ServerFails, IInv, Typed, PostsTyped, PostStates
<1>4. Guarded'
  BY <1>1, HoldsStill DEF ServerSets, ServerFails, clientVars, IInv, Typed, PostsTyped
<1> QED
  BY <1>2, <1>3, <1>4 DEF IInv, Typed

LEMMA OthersKeep ==
    ASSUME IInv,
           \/ ServerChanges
           \/ \E f \in Fetches : FetchStarts(f) \/ ServerAnswers(f) \/ FetchFails(f)
    PROVE  IInv'
<1>1. UNCHANGED <<clientVars, post, protect>>
  BY DEF ServerChanges, FetchStarts, ServerAnswers, FetchFails
<1>2. CopiesTyped'
  BY MaxChangesAssumption
  DEF ServerChanges, FetchStarts, ServerAnswers, FetchFails, clientVars,
      IInv, Typed, CopiesTyped, Zone
<1>3. FetchesTyped'
  BY DEF ServerChanges, FetchStarts, ServerAnswers, FetchFails, IdleFetch,
         IInv, Typed, CopiesTyped, FetchesTyped
<1>4. PostsTyped' /\ Guarded'
  BY <1>1, HoldsStill DEF clientVars, IInv, Typed, PostsTyped
<1> QED
  BY <1>2, <1>3, <1>4 DEF IInv, Typed

LEMMA GuardExpiresKeeps ==
    ASSUME IInv, NEW a \in Attrs, GuardExpires(a)
    PROVE  IInv'
<1> USE DEF IInv, Typed, GuardExpires
<1>1. CopiesTyped'
  BY DEF CopiesTyped, Guards, NoGuard
<1>2. PostsTyped' /\ FetchesTyped'
  BY DEF PostsTyped, FetchesTyped
<1>3. Guarded'
  BY DEF CopiesTyped, Guarded, Holds, Lost
<1> QED
  BY <1>1, <1>2, <1>3

-----------------------------------------------------------------------------
(* What comes back to the client.                                          *)

LEMMA FetchReturnsKeeps ==
    ASSUME IInv, NEW f \in Fetches, FetchReturns(f)
    PROVE  IInv'
<1> USE DEF IInv, Typed, FetchReturns
<1>1. fetch[f].zone \in Zone
  BY DEF FetchesTyped
<1>2. \A a \in Attrs : guard[a].age = "young" => guard[a].value \in Values /\ guard[a] \in Guards
  BY DEF CopiesTyped, Guards, NoGuard
<1>3. shown' \in Zone /\ guard' \in [Attrs -> Guards \cup {NoGuard}]
  BY <1>1, <1>2 DEF Merged, Pruned, Zone
<1>4. CopiesTyped' /\ PostsTyped'
  BY <1>3 DEF CopiesTyped, PostsTyped
<1>5. FetchesTyped'
  BY DEF FetchesTyped, IdleFetch
<1>6. Guarded'
  BY DEF Guarded, Holds, Lost, Merged, Pruned
<1> QED
  BY <1>4, <1>5, <1>6

LEMMA PostReturnsKeeps ==
    ASSUME IInv, NEW s \in Sets, PostReturns(s)
    PROVE  IInv'
<1> DEFINE a == post[s].attr
<1> USE DEF IInv, Typed
<1>1. /\ post[s].at \in {"done", "failed"} /\ a \in Attrs
      /\ post' = [post EXCEPT ![s].at = IF @ = "done" THEN "over" ELSE "lost"]
      /\ UNCHANGED <<server, shown, timer, fetch, changes>>
  BY DEF PostReturns, PostsTyped
<1>2. PostsTyped' /\ FetchesTyped'
  BY <1>1 DEF PostsTyped, FetchesTyped, PostStates
<1>3. CASE post[s].at = "done"
  <2>1. UNCHANGED <<guard, protect>>
    BY <1>3 DEF PostReturns
  <2>2. CopiesTyped'
    BY <1>1, <2>1 DEF CopiesTyped
  <2>3. Guarded'
    BY <1>1, <1>3, <2>1, HoldsStill DEF PostsTyped
  <2> QED
    BY <1>2, <2>2, <2>3
<1>4. CASE post[s].at = "failed"
  <2>1. /\ guard' = [guard EXCEPT ![a] = NoGuard]
        /\ protect' = IF protect[a] = s THEN [protect EXCEPT ![a] = NoSet] ELSE protect
    BY <1>4 DEF PostReturns
  <2>2. CopiesTyped'
    BY <1>1, <2>1 DEF CopiesTyped
  <2>3. \A t \in Sets : /\ post'[t].attr = post[t].attr /\ post'[t].value = post[t].value
                        /\ post[t].at # "unused" => post'[t].at # "unused"
                        /\ post[t].at = "lost" => post'[t].at = "lost"
    BY <1>1 DEF PostsTyped
  <2>4. Lost(a)'
    BY <1>1, <1>4, <2>3 DEF PostsTyped, Lost
  <2>5. ASSUME NEW b \in Attrs, protect'[b] # NoSet PROVE Holds(b)'
    <3>1. protect'[b] = protect[b] /\ protect[b] \in Sets
      BY <2>1, <2>5 DEF CopiesTyped
    <3>2. b # a => guard'[b] = guard[b]
      BY <2>1 DEF CopiesTyped
    <3>3. Lost(b) => Lost(b)'
      BY <2>3 DEF Lost
    <3> QED
      BY <1>1, <2>3, <2>4, <3>1, <3>2, <3>3 DEF Guarded, Holds
  <2>6. Guarded'
    BY <2>5 DEF Guarded, Holds
  <2> QED
    BY <1>2, <2>2, <2>6
<1> QED
  BY <1>1, <1>3, <1>4

-----------------------------------------------------------------------------
LEMMA NextKeeps == IInv /\ [Next]_vars => IInv'
<1> SUFFICES ASSUME IInv, [Next]_vars PROVE IInv'
  OBVIOUS
<1>1. CASE UNCHANGED vars
  BY <1>1, HoldsStill
  DEF vars, clientVars, IInv, Typed, CopiesTyped, PostsTyped, FetchesTyped
<1> QED
  BY <1>1, UserKeeps, ServerKeeps, OthersKeep, GuardExpiresKeeps, FetchReturnsKeeps,
     PostReturnsKeeps DEF Next

LEMMA IInvHolds == Spec => []IInv
BY InitIInv, NextKeeps, PTL DEF Spec

(* Every variable keeps its type, whatever comes back and in which order.  *)
THEOREM WebTypeCorrect == Spec => []TypeOK
<1>1. IInv => TypeOK
  BY DEF IInv, Typed, CopiesTyped, PostsTyped, FetchesTyped, PostStates, Guards, NoTimer, TypeOK
<1> QED
  BY IInvHolds, <1>1, PTL

(* For the eight seconds after a set its value stays on the screen,        *)
(* whichever answers come in, unless a set of the attribute has failed.    *)
THEOREM SetStaysOnScreen == Spec => []OptimisticProtected
<1>1. IInv => OptimisticProtected
  BY DEF IInv, Guarded, Holds, OptimisticProtected
<1> QED
  BY IInvHolds, <1>1, PTL

=============================================================================
