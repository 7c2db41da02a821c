------------------------ MODULE QueueLifecycleProofs ------------------------
(***************************************************************************)
(* Start and Stop, alternating, leave at most one processLoop and a free   *)
(* serial port, for any number of callers and any capacity.                *)
(***************************************************************************)
EXTENDS QueueLifecycle, QueueProofs

Typed == QueueTyped /\ owner \in {"stopped", "running", "stopping"}

(* A loop exists only between a Start and the return of the next Stop, and *)
(* q.cancel belongs to it; a loop holds a command only while it executes.  *)
LoopOwned ==
    /\ owner = "stopped" => Alive = {}
    /\ SingleLoop
    /\ \A l \in Loops : loop[l] # "execute" => held[l] = NoCommand

IInv == Typed /\ LoopOwned /\ Placed /\ PendingCounted

LEMMA InitIInv == Init => IInv
<1> SUFFICES ASSUME Init PROVE IInv
  OBVIOUS
<1>1. Typed
  BY QueueInitTyped DEF Init, Typed
<1>2. LoopOwned
  BY DEF Init, QueueInit, LoopOwned, SingleLoop, Alive
<1>3. Placed /\ PendingCounted
  BY QueueInitPlaced, QueueInitCounted DEF Init
<1> QED
  BY <1>1, <1>2, <1>3 DEF IInv

LEMMA NextTyped == Typed /\ [Next]_vars => Typed'
<1> SUFFICES ASSUME Typed, [Next]_vars PROVE Typed'
  OBVIOUS
<1> USE DEF Typed
<1>1. CASE OwnerStarts
  BY <1>1, StartLoopTyped DEF OwnerStarts
<1>2. CASE OwnerCancels
  BY <1>2, CancelLoopTyped DEF OwnerCancels
<1>3. CASE OwnerWaits
  BY <1>3, QueueUnchanged DEF OwnerWaits
<1>4. ASSUME NEW c \in Callers, Caller(c) PROVE Typed'
  BY <1>4, CallerStepTyped, ConsumeTyped, CallTyped DEF Caller
<1>5. ASSUME NEW l \in Loops, Process(l) PROVE Typed'
  BY <1>5, LoopStepTyped DEF Process
<1>6. CASE UNCHANGED vars
  BY <1>6, QueueUnchanged DEF vars
<1> QED
  BY <1>1, <1>2, <1>3, <1>4, <1>5, <1>6 DEF Next, OwnerStep

(* Whether a loop holds a command survives whatever a caller does: giving  *)
(* up only takes the caller's name off it.                                 *)
LEMMA CallerKeepsLoops ==
    ASSUME Typed, NEW c \in Callers, Caller(c)
    PROVE  /\ UNCHANGED <<loop, owner>>
           /\ \A l \in Loops : held[l] = NoCommand => held'[l] = NoCommand
<1>1. Abandoned(NoCommand, c) = NoCommand
  BY NobodyAssumption DEF Abandoned, NoCommand
<1>2. CASE GiveUp(c) /\ UNCHANGED owner
  BY <1>1, <1>2 DEF GiveUp
<1> QED
  BY <1>2 DEF Caller, CallerStep, Send, Receive, Consume, Call

LEMMA ProcessKeepsOwned ==
    ASSUME IInv, NEW l \in Loops, Process(l)
    PROVE  LoopOwned'
<1> USE DEF IInv, Typed, QueueTyped, QueueTypeOK, LoopOwned, SingleLoop, Alive, Process
<1>1. CASE Take(l)
  BY <1>1 DEF Take
<1>2. CASE Finish(l)
  BY <1>2 DEF Finish
<1>3. CASE BeginDrain(l)
  BY <1>3 DEF BeginDrain
<1>4. CASE DrainOne(l)
  BY <1>4 DEF DrainOne
<1>5. CASE EndDrain(l)
  BY <1>5 DEF EndDrain
<1> QED
  BY <1>1, <1>2, <1>3, <1>4, <1>5 DEF LoopStep

LEMMA NextOwned == IInv /\ [Next]_vars => LoopOwned'
<1> SUFFICES ASSUME IInv, [Next]_vars PROVE LoopOwned'
  OBVIOUS
<1>1. CASE OwnerStarts
  BY <1>1 DEF OwnerStarts, StartLoop, IInv, Typed, QueueTyped, QueueTypeOK,
              LoopOwned, SingleLoop, Alive
<1>2. CASE OwnerCancels
  BY <1>2 DEF OwnerCancels, CancelLoop, IInv, LoopOwned, SingleLoop, Alive
<1>3. CASE OwnerWaits
  BY <1>3 DEF OwnerWaits, AllLoopsGone, queueVars, IInv, LoopOwned, SingleLoop, Alive
<1>4. ASSUME NEW c \in Callers, Caller(c) PROVE LoopOwned'
  BY <1>4, CallerKeepsLoops DEF IInv, LoopOwned, SingleLoop, Alive
<1>5. ASSUME NEW l \in Loops, Process(l) PROVE LoopOwned'
  BY <1>5, ProcessKeepsOwned
<1>6. CASE UNCHANGED vars
  BY <1>6 DEF vars, queueVars, IInv, LoopOwned, SingleLoop, Alive
<1> QED
  BY <1>1, <1>2, <1>3, <1>4, <1>5, <1>6 DEF Next, OwnerStep

LEMMA NextPlaced == IInv /\ [Next]_vars => Placed' /\ PendingCounted'
<1> SUFFICES ASSUME IInv, [Next]_vars PROVE Placed' /\ PendingCounted'
  OBVIOUS
<1> USE DEF IInv, Typed
<1>1. CASE OwnerStarts
  BY <1>1, StartLoopPlaced, StayCounted DEF OwnerStarts, StartLoop, Inside
<1>2. CASE OwnerCancels
  BY <1>2, PlacedUnmoved, StayCounted DEF OwnerCancels, CancelLoop, Inside
<1>3. CASE OwnerWaits \/ UNCHANGED vars
  BY <1>3, PlacedUnmoved, StayCounted DEF OwnerWaits, vars, queueVars, Inside
<1>4. ASSUME NEW c \in Callers, Caller(c) PROVE Placed' /\ PendingCounted'
  BY <1>4, CallerStepPlaced, ConsumePlaced, CallPlaced,
           CallerStepCounted, ConsumeCounted, EnterCounted DEF Caller
<1>5. ASSUME NEW l \in Loops, Process(l) PROVE Placed' /\ PendingCounted'
  BY <1>5, LoopStepPlaced, LoopStepCounted DEF Process
<1> QED
  BY <1>1, <1>2, <1>3, <1>4, <1>5 DEF Next, OwnerStep

LEMMA IInvHolds == Spec => []IInv
<1>1. IInv /\ [Next]_vars => IInv'
  BY NextTyped, NextOwned, NextPlaced DEF IInv
<1> QED
  BY InitIInv, <1>1, PTL DEF Spec

(* Every variable keeps its type, through every call, loop and Stop.       *)
THEOREM LifecycleTypeCorrect == Spec => []TypeOK
<1>1. IInv => TypeOK
  BY DEF IInv, Typed, QueueTyped, TypeOK
<1> QED
  BY IInvHolds, <1>1, PTL

(* As long as one owner calls Start and Stop in turn, no two processLoop   *)
(* goroutines ever share the serial port.                                  *)
THEOREM AtMostOneLoop == Spec => []SingleLoop
<1>1. IInv => SingleLoop
  BY DEF IInv, LoopOwned
<1> QED
  BY IInvHolds, <1>1, PTL

(* Once Stop has returned nobody executes a command until the next Start.  *)
THEOREM PortIsFree == Spec => []PortFreeWhenStopped
<1>1. IInv => PortFreeWhenStopped
  BY DEF IInv, Typed, QueueTyped, QueueTypeOK, LoopOwned, PortFreeWhenStopped, Alive
<1> QED
  BY IInvHolds, <1>1, PTL

(* A call that waits has its command in exactly one place, and nobody else *)
(* has one, so each is answered once, through every stop and restart.      *)
THEOREM CommandsPlacedOnce == Spec => []EachCommandInOnePlace
<1>1. IInv => EachCommandInOnePlace
  BY PlacedOnce DEF IInv
<1> QED
  BY IInvHolds, <1>1, PTL

(* The pending count never leaks, whichever way a call ends.               *)
THEOREM PendingIsExact == Spec => []PendingExact
<1>1. IInv => PendingExact
  BY DEF IInv, PendingCounted, Inside, PendingExact
<1> QED
  BY IInvHolds, <1>1, PTL

-----------------------------------------------------------------------------
(* The refinement: every step of the queue is a step of FifoService or     *)
(* leaves it as it is.  Serving and Answered are what the mapping of       *)
(* Service substitutes for serving and answered.                           *)
ServedBy(H, h) == IF H = {} THEN <<>> ELSE <<h[CHOOSE l \in H : TRUE]>>
Serving == ServedBy(Held, held)
Answered == [c \in Callers |-> Unread(c)]

LEMMA ServedByOnly ==
    ASSUME NEW H, NEW h, NEW l \in H, \A k \in H : k = l
    PROVE  ServedBy(H, h) = <<h[l]>>
<1>1. (CHOOSE k \in H : TRUE) \in H
  BY Zenon
<1> QED
  BY <1>1 DEF ServedBy

LEMMA ServedByNone ==
    ASSUME NEW h
    PROVE  ServedBy({}, h) = <<>>
BY DEF ServedBy

(* What IInv says of the abstract state.                                   *)
LEMMA ServingOne ==
    ASSUME IInv
    PROVE  /\ \A l \in Held : Serving = <<held[l]>> /\ Held = {l}
           /\ Held = {} => Serving = <<>>
           /\ \A k, l \in Loops : loop[k] # "none" /\ loop[l] # "none" => k = l
<1>1. \A k, l \in Loops : loop[k] # "none" /\ loop[l] # "none" => k = l
  BY DEF IInv, LoopOwned, SingleLoop, Alive
<1>2. ASSUME NEW l \in Held PROVE Serving = <<held[l]>> /\ Held = {l}
  <2>1. \A k \in Held : k = l
    BY <1>1 DEF Held
  <2> QED
    BY <2>1, ServedByOnly DEF Serving
<1> QED
  BY <1>1, <1>2, ServedByNone DEF Serving

(* A caller that does not wait owns nothing, and what it may still have to *)
(* read is the reply it got.                                               *)
LEMMA NotWaiting ==
    ASSUME IInv, NEW c \in Callers, ~Waits(c)
    PROVE  /\ \A i \in 1..Len(cmdCh) : cmdCh[i].owner # c
           /\ \A l \in Loops : held[l].owner # c
BY DEF IInv, Placed, PlacedFor, InChannel, HeldFor

LEMMA AnswersUnread ==
    ASSUME IInv
    PROVE  Answered = answer
<1>1. \A c \in Callers : Unread(c) = answer[c]
  BY DEF IInv, Placed, PlacedFor, Unread
<1>2. answer = [c \in Callers |-> answer[c]]
  BY Zenon DEF IInv, Typed, QueueTyped, QueueTypeOK
<1> QED
  BY <1>1, <1>2, Zenon DEF Answered

Mapped ==
    /\ Answered = answer
    /\ \A l \in Held : Serving = <<held[l]>> /\ Held = {l}
    /\ Held = {} => Serving = <<>>

LEMMA InvMapped == IInv => Mapped
BY ServingOne, AnswersUnread DEF Mapped

(* A step that moves none of the three abstract variables is a stutter.    *)
LEMMA MapsToStutter ==
    ASSUME Mapped, Mapped', UNCHANGED <<cmdCh, answer, Held>>, Held # {} => UNCHANGED held
    PROVE  UNCHANGED Service!vars
<1>1. Answered' = Answered
  BY DEF Mapped
<1>2. Serving' = Serving
  BY DEF Mapped
<1> QED
  BY <1>1, <1>2 DEF Service!vars, Answered, Serving, ServedBy

LEMMA SendMaps ==
    ASSUME IInv, Mapped, Mapped', NEW c \in Callers, Send(c)
    PROVE  Service!Arrive(c)
<1>1. call[c] = "sending" /\ UNCHANGED <<answer, Held, held>>
  BY DEF Send, Held
<1>2. answer[c] = "none" /\ ~Waits(c)
  BY <1>1 DEF IInv, Placed, PlacedFor, Waits
<1>3. \A i \in 1..Len(Serving) : Serving[i].owner # c
  <2>1. CASE Held = {}
    BY <2>1 DEF Mapped
  <2>2. ASSUME NEW l \in Held PROVE \A i \in 1..Len(Serving) : Serving[i].owner # c
    <3>1. Serving = <<held[l]>> /\ held[l].owner # c
      BY <1>2, NotWaiting DEF Mapped, Held
    <3> QED
      BY <3>1
  <2> QED
    BY <2>1, <2>2
<1>4. Answered[c] = "none" /\ Answered' = Answered /\ Serving' = Serving
  BY <1>1, <1>2 DEF Mapped
<1>5. \A i \in 1..Len(cmdCh) : cmdCh[i].owner # c
  BY <1>2, NotWaiting
<1>6. \E k \in Kinds : cmdCh' = Append(cmdCh, [owner |-> c, kind |-> k])
  BY <1>1 DEF Send, IInv, Typed, QueueTyped
<1> QED
  BY <1>3, <1>4, <1>5, <1>6 DEF Service!Arrive, Service!Absent, Answered, Serving, ServedBy

LEMMA GiveUpMaps ==
    ASSUME IInv, Mapped, Mapped', NEW c \in Callers, GiveUp(c)
    PROVE  Service!Leave(c)
<1>1. cmdCh' = Service!Disown(cmdCh, c)
  BY DEF GiveUp, Service!Disown, Abandoned
<1>2. Serving' = Service!Disown(Serving, c)
  <2>1. Held' = Held /\ \A l \in Loops : held'[l] = Abandoned(held[l], c)
    BY DEF GiveUp, Held
  <2>2. CASE Held = {}
    BY <2>1, <2>2 DEF Mapped, Service!Disown
  <2>3. ASSUME NEW l \in Held PROVE Serving' = Service!Disown(Serving, c)
    <3>1. Serving = <<held[l]>> /\ Serving' = <<Abandoned(held[l], c)>>
      BY <2>1 DEF Mapped, Held
    <3>2. Service!Disown(<<held[l]>>, c) = <<Abandoned(held[l], c)>>
      BY DEF Service!Disown, Abandoned
    <3> QED
      BY <3>1, <3>2
  <2> QED
    BY <2>2, <2>3
<1>3. Answered' = [Answered EXCEPT ![c] = "ctxDone"]
  BY DEF GiveUp, Mapped
<1> QED
  BY <1>1, <1>2, <1>3 DEF Service!Leave, Answered, Serving, ServedBy, Returns

LEMMA ConsumeMaps ==
    ASSUME IInv, Mapped, Mapped', NEW c \in Callers, Consume(c)
    PROVE  Service!Leave(c)
<1>1. ~Waits(c) /\ UNCHANGED <<cmdCh, held, Held>> /\ answer' = [answer EXCEPT ![c] = "none"]
  BY DEF Consume, Waits, Held
<1>2. cmdCh' = Service!Disown(cmdCh, c)
  BY <1>1, NotWaiting DEF Service!Disown, IInv, Typed, QueueTyped, QueueTypeOK
<1>3. Serving' = Service!Disown(Serving, c)
  <2>1. CASE Held = {}
    BY <1>1, <2>1 DEF Mapped, Service!Disown
  <2>2. ASSUME NEW l \in Held PROVE Serving' = Service!Disown(Serving, c)
    <3>1. Serving = <<held[l]>> /\ Serving' = <<held[l]>> /\ held[l].owner # c
      BY <1>1, NotWaiting DEF Mapped, Held
    <3> QED
      BY <3>1 DEF Service!Disown
  <2> QED
    BY <2>1, <2>2
<1>4. Answered' = [Answered EXCEPT ![c] = "none"]
  BY <1>1 DEF Mapped
<1> QED
  BY <1>2, <1>3, <1>4 DEF Service!Leave, Answered, Serving, ServedBy

LEMMA TakeMaps ==
    ASSUME IInv, Mapped, Mapped', NEW l \in Loops, Take(l)
    PROVE  Service!Serve
<1>1. Held = {} /\ Held' = {l} /\ held'[l] = Head(cmdCh)
  BY ServingOne DEF Take, Held, IInv, Typed, QueueTyped, QueueTypeOK
<1>2. Serving = <<>> /\ Serving' = <<Head(cmdCh)>>
  BY <1>1 DEF Mapped
<1>3. Answered' = Answered
  BY DEF Take, Mapped
<1> QED
  BY <1>2, <1>3 DEF Take, Service!Serve, Answered, Serving, ServedBy

(* A reply lands in an empty slot, and only one caller's.                  *)
LEMMA ReplyMaps ==
    ASSUME IInv, Mapped, Mapped', NEW x \in Commands \cup {NoCommand}, NEW r, Reply(x, r),
           x.owner # Nobody => Waits(x.owner)
    PROVE  Service!Answer(x, r)
<1>1. CASE x.owner = Nobody
  BY <1>1 DEF Reply, Service!Answer, Mapped, Answered
<1>2. CASE x.owner # Nobody
  <2>1. Answered[x.owner] = "none" /\ Answered' = [Answered EXCEPT ![x.owner] = r]
    BY <1>2 DEF Reply, Mapped, Waits
  <2> QED
    BY <1>2, <2>1 DEF Service!Answer, Answered
<1> QED
  BY <1>1, <1>2

LEMMA FinishMaps ==
    ASSUME IInv, Mapped, Mapped', NEW l \in Loops, Finish(l)
    PROVE  Service!Complete
<1>1. Held = {l} /\ Held' = {} /\ Serving = <<held[l]>> /\ Serving' = <<>>
  BY DEF Finish, Held, Mapped, IInv, Typed, QueueTyped, QueueTypeOK
<1>2. held[l] \in Commands \cup {NoCommand} /\ held[l].owner \in Callers \cup {Nobody}
  BY DEF IInv, Typed, QueueTyped, QueueTypeOK, Commands, NoCommand
<1>3. held[l].owner # Nobody => Waits(held[l].owner)
  BY <1>2, NotWaiting
<1>4. \E r \in Replies \ {"shutdown"} : Service!Answer(held[l], r)
  BY <1>2, <1>3, ReplyMaps DEF Finish
<1>5. Head(Serving) = held[l] /\ Serving # <<>>
  BY <1>1
<1> QED
  BY <1>1, <1>4, <1>5 DEF Finish, Service!Complete, Serving, ServedBy

(* Only the loop that serves drains, so it serves nothing meanwhile.       *)
LEMMA DrainOneMaps ==
    ASSUME IInv, Mapped, Mapped', NEW l \in Loops, DrainOne(l)
    PROVE  Service!Refuse
<1>1. Held = {} /\ Held' = {} /\ Serving = <<>> /\ Serving' = <<>>
  BY ServingOne DEF DrainOne, Held, Mapped
<1>2. /\ Head(cmdCh) = cmdCh[1] /\ 1 \in 1..Len(cmdCh) /\ cmdCh[1] \in Commands
      /\ cmdCh[1].owner \in Callers \cup {Nobody}
  BY HeadTail DEF DrainOne, IInv, Typed, Commands
<1>3. cmdCh[1].owner # Nobody => Waits(cmdCh[1].owner)
  BY <1>2, NotWaiting
<1>4. Service!Answer(Head(cmdCh), "shutdown")
  BY <1>2, <1>3, ReplyMaps DEF DrainOne
<1> QED
  BY <1>1, <1>4 DEF DrainOne, Service!Refuse, Serving, ServedBy

LEMMA NextMaps == IInv /\ Mapped /\ Mapped' /\ [Next]_vars => [Service!Next]_(Service!vars)
<1> SUFFICES ASSUME IInv, Mapped, Mapped', [Next]_vars PROVE [Service!Next]_(Service!vars)
  OBVIOUS
<1>1. CASE OwnerStep \/ UNCHANGED vars
  <2>1. UNCHANGED <<cmdCh, answer, Held, held>>
    BY <1>1 DEF OwnerStep, OwnerStarts, OwnerCancels, OwnerWaits, StartLoop, CancelLoop, Alive,
                vars, queueVars, Held, IInv, Typed, QueueTyped, QueueTypeOK
  <2> QED
    BY <2>1, MapsToStutter
<1>2. ASSUME NEW c \in Callers, Caller(c) PROVE [Service!Next]_(Service!vars)
  <2>1. CASE Receive(c) \/ \E k \in Kinds : Call(c, k)
    <3>1. UNCHANGED <<cmdCh, answer, Held, held>>
      BY <2>1 DEF Receive, Call, Held
    <3> QED
      BY <3>1, MapsToStutter
  <2> QED
    BY <1>2, <2>1, SendMaps, GiveUpMaps, ConsumeMaps DEF Caller, CallerStep, Service!Next
<1>3. ASSUME NEW l \in Loops, Process(l) PROVE [Service!Next]_(Service!vars)
  <2>1. CASE BeginDrain(l) \/ EndDrain(l)
    <3>1. UNCHANGED <<cmdCh, answer, Held, held>>
      BY <2>1 DEF BeginDrain, EndDrain, Held, IInv, Typed, QueueTyped, QueueTypeOK
    <3> QED
      BY <3>1, MapsToStutter
  <2> QED
    BY <1>3, <2>1, TakeMaps, FinishMaps, DrainOneMaps DEF Process, LoopStep, Service!Next
<1> QED
  BY <1>1, <1>2, <1>3 DEF Next

LEMMA InitMaps == Init => Service!Init
<1> SUFFICES ASSUME Init PROVE Service!Init
  OBVIOUS
<1>1. Held = {}
  BY DEF Init, QueueInit, Held
<1>2. \A c \in Callers : Unread(c) = "none"
  BY DEF Init, QueueInit, Unread
<1> QED
  BY <1>1, <1>2 DEF Init, QueueInit, Service!Init

(* The queue serves commands one at a time, in the order in which they     *)
(* reached the channel, refuses them only while none is being served, and  *)
(* answers each at most once, through every Stop and Start.                *)
THEOREM QueueServesInOrder == Spec => ServesInOrder
<1>1. IInv => Mapped
  BY InvMapped
<1> QED
  BY IInvHolds, InitMaps, NextMaps, <1>1, PTL DEF Spec, ServesInOrder, Service!Spec

=============================================================================
