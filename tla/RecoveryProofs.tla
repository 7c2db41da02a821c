--------------------------- MODULE RecoveryProofs ---------------------------
(***************************************************************************)
(* The state machine's state is a lock, for any number of requests,        *)
(* monitors, pollers, connecting goroutines, loops and amplifiers, any     *)
(* capacity and any threshold.                                             *)
(***************************************************************************)
EXTENDS Recovery, QueueProofs

ContextTyped ==
    /\ connCtx \in [Conns -> Contexts]
    /\ loopCtx \in [Loops -> Contexts \ {Over}]

(* A caller is inside Enqueue or busy elsewhere, never both, and while it  *)
(* is in Enqueue or about to be it has a command left.                     *)
CallerTyped ==
    /\ state \in States
    /\ consecutiveErrors \in 0..Threshold
    /\ job \in [Callers -> Jobs]
    /\ left \in [Callers -> 0..AmpCount]
    /\ conn \in [Conns -> Steps]
    /\ \A c \in Callers : /\ job[c] # "none" => call[c] = "idle"
                          /\ call[c] # "idle" \/ job[c] = "poll" => left[c] > 0

(* Until main goes on, it is the only goroutine.                           *)
MainAlone ==
    ~Booted => /\ \A c \in Callers : job[c] = "none" /\ call[c] = "idle"
               /\ \A k \in Conns \ {Main} : conn[k] = "none"

Typed == QueueTyped /\ CallerTyped /\ ContextTyped

IInv == Typed /\ MainAlone /\ RecoveryToken

LEMMA InitIInv == Init => IInv
<1> SUFFICES ASSUME Init PROVE IInv
  OBVIOUS
<1>1. QueueTyped
  BY QueueInitTyped DEF Init
<1>2. CallerTyped /\ ContextTyped
  BY CountAssumption, ContextAssumption
  DEF Init, QueueInit, CallerTyped, ContextTyped, States, Jobs, Steps, Contexts
<1>3. MainAlone
  BY MainAssumption DEF Init, QueueInit, MainAlone, Booted
<1>4. RecoveryToken
  BY MainAssumption
  DEF Init, RecoveryToken, AtMostOne, Recoverers, Probers, Negotiators
<1> QED
  BY <1>1, <1>2, <1>3, <1>4 DEF IInv, Typed

-----------------------------------------------------------------------------
(* Steps that a caller takes inside the queue, and steps of the loops.     *)

LEMMA InQueueKeeps ==
    ASSUME IInv, NEW c \in Callers, InQueue(c)
    PROVE  IInv'
<1>1. QueueTyped'
  BY CallerStepTyped DEF InQueue, IInv, Typed
<1>2. /\ UNCHANGED <<recVars>>
      /\ call[c] \in {"sending", "waiting"}
      /\ call' = [call EXCEPT ![c] = call'[c]]
  BY DEF InQueue, CallerStep, Send, Receive, GiveUp, IInv, Typed, QueueTyped, QueueTypeOK
<1>3. CallerTyped' /\ ContextTyped'
  BY <1>2 DEF recVars, IInv, Typed, CallerTyped, ContextTyped, QueueTyped, QueueTypeOK
<1>4. MainAlone'
  BY <1>2 DEF recVars, IInv, MainAlone, Booted
<1>5. RecoveryToken'
  BY <1>2 DEF recVars, IInv, RecoveryToken, AtMostOne, Recoverers, Probers, Negotiators
<1> QED
  BY <1>1, <1>3, <1>4, <1>5 DEF IInv, Typed

LEMMA ProcessKeeps ==
    ASSUME IInv, NEW l \in Loops, Process(l)
    PROVE  IInv'
<1>1. QueueTyped'
  BY LoopStepTyped DEF Process, IInv, Typed
<1>2. UNCHANGED <<recVars>> /\ call' = call
  BY DEF Process, LoopStep, Take, Finish, BeginDrain, DrainOne, EndDrain
<1>3. CallerTyped' /\ ContextTyped'
  BY <1>2 DEF recVars, IInv, Typed, CallerTyped, ContextTyped
<1>4. MainAlone' /\ RecoveryToken'
  BY <1>2 DEF recVars, IInv, MainAlone, Booted,
              RecoveryToken, AtMostOne, Recoverers, Probers, Negotiators
<1> QED
  BY <1>1, <1>3, <1>4 DEF IInv, Typed

-----------------------------------------------------------------------------
(* Steps of a caller before and after its commands: none of them touches   *)
(* the state or a connecting goroutine, nor takes a caller into or out of  *)
(* the part of TriggerRecovery that holds the lock.                        *)

Outside == {"none", "poll", "check", "transition", "end"}

LEMMA OutsideKeepsToken ==
    ASSUME IInv, NEW c \in Callers, UNCHANGED <<state, conn>>,
           job' = [job EXCEPT ![c] = job'[c]], job[c] \in Outside, job'[c] \in Outside
    PROVE  RecoveryToken'
BY DEF IInv, Typed, CallerTyped, Outside,
       RecoveryToken, AtMostOne, Recoverers, Probers, Negotiators

LEMMA BeginKeeps ==
    ASSUME IInv, NEW c \in Callers,
           Request(c) \/ HealthTick(c) \/ PollTick(c) \/ PollYields(c) \/ PollEnqueues(c)
    PROVE  IInv'
<1>1. QueueTyped'
  BY CallTyped, QueueUnchanged
  DEF IInv, Typed, Request, HealthTick, PollTick, PollYields, PollEnqueues, Kinds
<1>2. CallerTyped' /\ ContextTyped'
  <2> USE DEF IInv, Typed, CallerTyped, ContextTyped, QueueTyped, QueueTypeOK
  <2>1. CASE Request(c)
    <3>1. PICK n \in {1, AmpCount} : left' = [left EXCEPT ![c] = n]
      BY <2>1 DEF Request
    <3>2. n \in 0..AmpCount /\ n > 0
      BY CountAssumption
    <3>3. UNCHANGED <<state, consecutiveErrors, job, conn, connCtx, loopCtx>>
      BY <2>1 DEF Request
    <3>4. job[c] = "none" /\ call' = [call EXCEPT ![c] = "sending"]
      BY <2>1 DEF Request, Free, Call
    <3> QED
      BY <3>1, <3>2, <3>3, <3>4
  <2>2. CASE HealthTick(c)
    BY <2>2, CountAssumption DEF HealthTick, Free, Call
  <2>3. CASE PollTick(c)
    BY <2>3, CountAssumption DEF PollTick, Free, queueVars, Jobs
  <2>4. CASE PollYields(c)
    BY <2>4, CountAssumption DEF PollYields, queueVars, Jobs
  <2>5. CASE PollEnqueues(c)
    BY <2>5, CountAssumption DEF PollEnqueues, Call, Jobs
  <2> QED
    BY <2>1, <2>2, <2>3, <2>4, <2>5
<1>3. MainAlone'
  BY DEF IInv, MainAlone, Booted, Free,
         Request, HealthTick, PollTick, PollYields, PollEnqueues
<1>4. /\ UNCHANGED <<state, conn>>
      /\ job' = [job EXCEPT ![c] = job'[c]] /\ job[c] \in Outside /\ job'[c] \in Outside
  BY DEF IInv, Typed, CallerTyped, Free, Outside,
         Request, HealthTick, PollTick, PollYields, PollEnqueues
<1> QED
  BY <1>1, <1>2, <1>3, <1>4, OutsideKeepsToken DEF IInv, Typed

LEMMA ReturnKeeps ==
    ASSUME IInv, NEW c \in Callers, Succeeds(c) \/ Fails(c)
    PROVE  IInv'
<1>1. QueueTyped'
  BY ConsumeTyped, ConsumeAndCallTyped DEF IInv, Typed, Succeeds, Fails, Kinds
<1>2. left[c] > 0 /\ job[c] = "none" /\ call[c] = "returned"
  BY DEF IInv, Typed, CallerTyped, Succeeds, Fails, Jobs
<1>3. consecutiveErrors' \in 0..Threshold
  BY CountAssumption DEF IInv, Typed, CallerTyped, Succeeds, Fails, Counted
<1>4. left' \in [Callers -> 0..AmpCount]
  BY <1>2, CountAssumption DEF IInv, Typed, CallerTyped, Succeeds, Fails
<1>5. job' = [job EXCEPT ![c] = job'[c]] /\ job'[c] \in {"none", "poll", "check"}
  BY <1>2 DEF IInv, Typed, CallerTyped, Succeeds, Fails
<1>6. \A d \in Callers : /\ job'[d] # "none" => call'[d] = "idle"
                         /\ call'[d] # "idle" \/ job'[d] = "poll" => left'[d] > 0
  <2>1. CASE Fails(c)
    BY <2>1, <1>2 DEF Fails, Consume, IInv, Typed, CallerTyped, QueueTyped, QueueTypeOK
  <2>2. CASE Succeeds(c)
    <3>1. CASE c \in Users /\ left[c] > 1
      BY <2>2, <3>1, <1>2, CallersAssumption
      DEF Succeeds, ConsumeAndCall, IInv, Typed, CallerTyped, QueueTyped, QueueTypeOK
    <3>2. CASE ~(c \in Users /\ left[c] > 1)
      BY <2>2, <3>2, <1>2
      DEF Succeeds, Consume, IInv, Typed, CallerTyped, QueueTyped, QueueTypeOK
    <3> QED
      BY <3>1, <3>2
  <2> QED
    BY <2>1, <2>2
<1>7. UNCHANGED <<state, conn, connCtx, loopCtx>>
  BY DEF Succeeds, Fails
<1>8. CallerTyped' /\ ContextTyped'
  BY <1>3, <1>4, <1>5, <1>6, <1>7 DEF IInv, Typed, CallerTyped, ContextTyped, Jobs
<1>9. MainAlone'
  BY <1>2, <1>7 DEF IInv, MainAlone, Booted
<1>10. RecoveryToken'
  BY <1>2, <1>5, <1>7, OutsideKeepsToken DEF Outside
<1> QED
  BY <1>1, <1>8, <1>9, <1>10 DEF IInv, Typed

-----------------------------------------------------------------------------
(* TriggerRecovery.                                                        *)

LEMMA TriggerOutsideKeeps ==
    ASSUME IInv, NEW c \in Callers,
           TriggerCheck(c) \/ RequestEnds(c)
    PROVE  IInv'
<1>1. QueueTyped'
  BY QueueUnchanged
  DEF IInv, Typed, QueueTyped, QueueTypeOK, Alive, TriggerCheck, RequestEnds
<1>2. /\ UNCHANGED <<state, conn, call, left, consecutiveErrors>>
      /\ job' = [job EXCEPT ![c] = job'[c]]
      /\ job[c] \in {"check", "end"} /\ job'[c] \in {"none", "end", "transition"}
  BY DEF TriggerCheck, RequestEnds, Job, Done, queueVars, IInv, Typed, CallerTyped
<1>3. ContextTyped'
  BY ContextAssumption DEF TriggerCheck, RequestEnds, IInv, Typed, ContextTyped, Contexts
<1>4. CallerTyped'
  BY <1>2 DEF IInv, Typed, CallerTyped, Jobs
<1>5. MainAlone'
  BY <1>2 DEF IInv, MainAlone, Booted
<1>6. RecoveryToken'
  BY <1>2, OutsideKeepsToken DEF Outside
<1> QED
  BY <1>1, <1>3, <1>4, <1>5, <1>6 DEF IInv, Typed

(* The only way into Recovering: the state was Ready, so nobody held the   *)
(* lock.                                                                   *)
LEMMA TriggerTransitionKeeps ==
    ASSUME IInv, NEW c \in Callers, TriggerTransition(c)
    PROVE  IInv'
<1>1. QueueTyped' /\ ContextTyped'
  BY QueueUnchanged DEF IInv, Typed, ContextTyped, TriggerTransition
<1>2. /\ UNCHANGED <<conn, call, left, consecutiveErrors>>
      /\ job' = [job EXCEPT ![c] = job'[c]] /\ job[c] = "transition"
  BY DEF TriggerTransition, Job, queueVars, IInv, Typed, CallerTyped
<1>3. CASE state = "Ready"
  <2>1. state' = "Recovering" /\ job'[c] = "cancel"
    BY <1>3 DEF TriggerTransition, Job, Transition, Valid, Successors, IInv, Typed, CallerTyped
  <2>2. CallerTyped' /\ MainAlone'
    BY <1>2, <2>1 DEF IInv, Typed, CallerTyped, MainAlone, Booted, Jobs, States
  <2>3. RecoveryToken'
    BY <1>2, <1>3, <2>1
    DEF IInv, Typed, CallerTyped, RecoveryToken, AtMostOne, Recoverers, Probers, Negotiators
  <2> QED
    BY <1>1, <2>2, <2>3 DEF IInv, Typed
<1>4. CASE state # "Ready"
  <2>1. state' = state /\ job'[c] \in {"none", "end"}
    BY <1>4 DEF TriggerTransition, Job, Done, Transition, Valid, Successors, States,
                IInv, Typed, CallerTyped
  <2>2. CallerTyped' /\ MainAlone'
    BY <1>2, <2>1 DEF IInv, Typed, CallerTyped, MainAlone, Booted, Jobs
  <2>3. RecoveryToken'
    BY <1>2, <2>1, OutsideKeepsToken DEF Outside
  <2> QED
    BY <1>1, <2>2, <2>3 DEF IInv, Typed
<1> QED
  BY <1>3, <1>4

LEMMA TriggerStopKeeps ==
    ASSUME IInv, NEW c \in Callers, TriggerCancel(c) \/ TriggerWait(c)
    PROVE  IInv'
<1>1. QueueTyped' /\ ContextTyped'
  BY QueueUnchanged, CancelLoopTyped DEF IInv, Typed, ContextTyped, TriggerCancel, TriggerWait
<1>2. /\ UNCHANGED <<state, conn, call, left, consecutiveErrors>>
      /\ job' = [job EXCEPT ![c] = job'[c]]
      /\ job[c] \in {"cancel", "wait"} /\ job'[c] \in {"wait", "toProbing"}
  BY DEF TriggerCancel, TriggerWait, CancelLoop, Job, queueVars, IInv, Typed, CallerTyped
<1>3. CallerTyped' /\ MainAlone'
  BY <1>2 DEF IInv, Typed, CallerTyped, MainAlone, Booted, Jobs
<1>4. RecoveryToken'
  BY <1>2
  DEF IInv, Typed, CallerTyped, RecoveryToken, AtMostOne, Recoverers, Probers, Negotiators
<1> QED
  BY <1>1, <1>3, <1>4 DEF IInv, Typed

(* The lock passes from the caller to the goroutine it launches.           *)
LEMMA TriggerProbeKeeps ==
    ASSUME IInv, NEW c \in Callers, TriggerProbe(c)
    PROVE  IInv'
<1>1. job[c] = "toProbing" /\ job' = [job EXCEPT ![c] = Done(c)] /\ Done(c) \in {"none", "end"}
  BY DEF TriggerProbe, Job, Done
<1>2. state = "Recovering" /\ Recoverers = {c}
  BY <1>1 DEF IInv, RecoveryToken, AtMostOne, Recoverers
<1>3. state' = "Probing" /\ Valid("Probing")
  BY <1>2 DEF TriggerProbe, Transition, Valid, Successors
<1>4. PICK k \in Conns \ {Main} :
        /\ conn[k] = "none"
        /\ conn' = [conn EXCEPT ![k] = "enter"]
        /\ connCtx' = [connCtx EXCEPT ![k] = IF c \in Users THEN c ELSE App]
  BY <1>3 DEF TriggerProbe
<1>5. UNCHANGED <<queueVars, consecutiveErrors, left, loopCtx>>
  BY DEF TriggerProbe
<1>6. QueueTyped' /\ ContextTyped'
  BY <1>4, <1>5, QueueUnchanged, ContextAssumption DEF IInv, Typed, ContextTyped, Contexts
<1>7. CallerTyped'
  BY <1>1, <1>3, <1>4, <1>5 DEF queueVars, IInv, Typed, CallerTyped, Jobs, Steps, States
<1>8. Booted
  BY <1>1 DEF IInv, MainAlone
<1>9. MainAlone'
  BY <1>4, <1>8, MainAssumption DEF MainAlone, Booted, IInv, Typed, CallerTyped
<1>10. Probers = {} /\ Negotiators = {}
  BY <1>2 DEF IInv, RecoveryToken
<1>11. Recoverers' = {} /\ Probers' = {k} /\ Negotiators' = {}
  <2>1. Recoverers' = {}
    BY <1>1, <1>2 DEF Recoverers, IInv, Typed, CallerTyped
  <2>2. Probers' = {k} /\ Negotiators' = {}
    BY <1>4, <1>10 DEF Probers, Negotiators, IInv, Typed, CallerTyped
  <2> QED
    BY <2>1, <2>2
<1>12. RecoveryToken'
  BY <1>3, <1>11 DEF RecoveryToken, AtMostOne
<1> QED
  BY <1>6, <1>7, <1>9, <1>12 DEF IInv, Typed

-----------------------------------------------------------------------------
(* connect.                                                                *)

(* Where a goroutine is inside connect tells the state.                    *)
LEMMA StateOfConn ==
    ASSUME IInv, NEW k \in Conns
    PROVE  /\ conn[k] = "probe" => state = "Probing"
           /\ conn[k] = "negotiate" => state = "Negotiating"
           /\ conn[k] = "enter" => state = "Probing" \/ (state = "Disconnected" /\ k = Main)
BY MainAssumption DEF IInv, RecoveryToken, AtMostOne, Probers, Negotiators

(* Every step of connect leaves the caller side alone, and main alone.     *)
LEMMA ConnLocal ==
    ASSUME IInv, NEW k \in Conns, conn[k] # "none", NEW s \in Steps,
           conn' = [conn EXCEPT ![k] = s], s = "none" => k # Main,
           state' \in States,
           UNCHANGED <<queueVars, consecutiveErrors, job, left, connCtx, loopCtx>>
    PROVE  Typed' /\ MainAlone' /\ Recoverers' = Recoverers
<1>1. QueueTyped'
  BY QueueUnchanged DEF IInv, Typed
<1>2. CallerTyped' /\ ContextTyped'
  BY DEF queueVars, IInv, Typed, CallerTyped, ContextTyped
<1>3. MainAlone'
  BY MainAssumption DEF queueVars, IInv, Typed, CallerTyped, MainAlone, Booted
<1>4. Recoverers' = Recoverers
  BY DEF Recoverers
<1> QED
  BY <1>1, <1>2, <1>3, <1>4 DEF Typed

(* From one place in connect to the next, and from the state that goes with*)
(* it to its successor.                                                    *)
LEMMA ConnectKeeps ==
    ASSUME IInv, NEW k \in Conns,
           \/ ConnectEnter(k) \/ FoundAtTarget(k) \/ FoundElsewhere(k) \/ ProbeFails(k)
           \/ StepUpDone(k) \/ StepUpFails(k)
    PROVE  IInv'
<1> DEFINE moves(from, to, s, next) ==
             /\ conn[k] = from /\ conn' = [conn EXCEPT ![k] = next]
             /\ state = s /\ state' = to
<1>1. UNCHANGED <<queueVars, consecutiveErrors, job, left, connCtx, loopCtx>>
  BY DEF ConnectEnter, FoundAtTarget, FoundElsewhere, ProbeFails, StepUpDone, StepUpFails, MoveOn
<1>2. \/ moves("enter", "Probing", "Probing", "probe")
      \/ moves("enter", "Probing", "Disconnected", "probe") /\ k = Main
      \/ moves("probe", "Ready", "Probing", "connected")
      \/ moves("probe", "Negotiating", "Probing", "negotiate")
      \/ moves("probe", "Disconnected", "Probing", "failed")
      \/ moves("negotiate", "Ready", "Negotiating", "connected")
      \/ moves("negotiate", "Probing", "Negotiating", "enter")
  BY StateOfConn
  DEF ConnectEnter, FoundAtTarget, FoundElsewhere, ProbeFails, StepUpDone, StepUpFails,
      MoveOn, Transition, Valid, Successors
<1>3. Typed' /\ MainAlone' /\ Recoverers' = Recoverers
  BY <1>1, <1>2, ConnLocal DEF Steps, States
<1>4. RecoveryToken'
  BY <1>2, <1>3, MainAssumption
  DEF IInv, Typed, CallerTyped, RecoveryToken, AtMostOne, Probers, Negotiators
<1> QED
  BY <1>3, <1>4 DEF IInv

(* Outside connect a goroutine does not hold the lock.                     *)
LEMMA AfterConnectToken ==
    ASSUME IInv, NEW k \in Conns, NEW s \in {"none", "reset"},
           conn[k] \in {"connected", "failed", "reset"}, conn' = [conn EXCEPT ![k] = s],
           UNCHANGED <<state, job>>
    PROVE  RecoveryToken'
<1>1. Recoverers' = Recoverers /\ Probers' = Probers /\ Negotiators' = Negotiators
  BY DEF Recoverers, Probers, Negotiators, IInv, Typed, CallerTyped
<1>2. conn[Main] = "enter" => conn'[Main] = "enter"
  BY DEF IInv, Typed, CallerTyped
<1> QED
  BY <1>1, <1>2 DEF IInv, RecoveryToken, AtMostOne

LEMMA RestartQueueKeeps ==
    ASSUME IInv, NEW k \in Conns, RestartQueue(k)
    PROVE  IInv'
<1>1. PICK l \in Loops : /\ StartLoop(l, connCtx[k] = Over)
                         /\ loopCtx' = [loopCtx EXCEPT ![l] =
                                          IF connCtx[k] = Over THEN App ELSE connCtx[k]]
  BY DEF RestartQueue
<1>2. QueueTyped' /\ call' = call
  BY <1>1, StartLoopTyped DEF IInv, Typed, StartLoop
<1>3. /\ k # Main /\ conn[k] \in {"connected", "failed"}
      /\ conn' = [conn EXCEPT ![k] = IF @ = "connected" THEN "reset" ELSE "none"]
      /\ connCtx' = [connCtx EXCEPT ![k] = App]
      /\ UNCHANGED <<state, consecutiveErrors, job, left>>
  BY DEF RestartQueue
<1>4. ContextTyped'
  BY <1>1, <1>3, ContextAssumption DEF IInv, Typed, ContextTyped, Contexts
<1>5. CallerTyped'
  BY <1>2, <1>3 DEF IInv, Typed, CallerTyped, Steps
<1>6. MainAlone'
  BY <1>2, <1>3 DEF IInv, Typed, CallerTyped, MainAlone, Booted
<1>7. RecoveryToken'
  BY <1>3, AfterConnectToken DEF IInv, Typed, CallerTyped
<1> QED
  BY <1>2, <1>4, <1>5, <1>6, <1>7 DEF IInv, Typed

LEMMA ResetErrorsKeeps ==
    ASSUME IInv, NEW k \in Conns, ResetErrors(k)
    PROVE  IInv'
<1>1. /\ conn[k] = "reset" /\ conn' = [conn EXCEPT ![k] = "none"]
      /\ consecutiveErrors' = 0
      /\ UNCHANGED <<queueVars, state, job, left, connCtx, loopCtx>>
  BY DEF ResetErrors
<1>2. QueueTyped' /\ ContextTyped'
  BY <1>1, QueueUnchanged DEF IInv, Typed, ContextTyped
<1>3. CallerTyped'
  BY <1>1, CountAssumption DEF queueVars, IInv, Typed, CallerTyped, Steps
<1>4. MainAlone'
  BY <1>1 DEF queueVars, IInv, Typed, CallerTyped, MainAlone, Booted
<1>5. RecoveryToken'
  BY <1>1, AfterConnectToken
<1> QED
  BY <1>2, <1>3, <1>4, <1>5 DEF IInv, Typed

LEMMA MainStepKeeps == IInv /\ MainStep => IInv'
<1> SUFFICES ASSUME IInv, MainStep PROVE IInv'
  OBVIOUS
<1>1. UNCHANGED <<queueVars, consecutiveErrors, job, left, connCtx, loopCtx>>
  BY DEF MainStep, MainGoesOn, MainRestarts
<1>2. QueueTyped' /\ ContextTyped'
  BY <1>1, QueueUnchanged DEF IInv, Typed, ContextTyped
<1>3. CASE MainGoesOn
  <2>1. conn[Main] = "connected" /\ conn' = [conn EXCEPT ![Main] = "none"] /\ state' = state
    BY <1>3 DEF MainGoesOn
  <2>2. CallerTyped' /\ MainAlone'
    BY <1>1, <2>1, MainAssumption
    DEF queueVars, IInv, Typed, CallerTyped, MainAlone, Booted, Steps
  <2>3. RecoveryToken'
    BY <1>1, <2>1, MainAssumption, AfterConnectToken
  <2> QED
    BY <1>2, <2>2, <2>3 DEF IInv, Typed
<1>4. CASE MainRestarts
  <2>1. /\ conn[Main] = "failed" /\ conn' = [conn EXCEPT ![Main] = "enter"]
        /\ state' = "Disconnected"
    BY <1>4 DEF MainRestarts
  <2>2. CallerTyped' /\ MainAlone'
    BY <1>1, <2>1, MainAssumption
    DEF queueVars, IInv, Typed, CallerTyped, MainAlone, Booted, Steps, States
  <2>3. Recoverers' = {} /\ Probers' = {Main} /\ Negotiators' = {}
    BY <1>1, <2>1, MainAssumption
    DEF IInv, Typed, CallerTyped, MainAlone, Booted, Recoverers, Probers, Negotiators
  <2>4. RecoveryToken'
    BY <2>1, <2>3, MainAssumption DEF RecoveryToken, AtMostOne, IInv, Typed, CallerTyped
  <2> QED
    BY <1>2, <2>2, <2>4 DEF IInv, Typed
<1> QED
  BY <1>3, <1>4 DEF MainStep

-----------------------------------------------------------------------------
LEMMA NextKeeps == IInv /\ [Next]_vars => IInv'
<1> SUFFICES ASSUME IInv, [Next]_vars PROVE IInv'
  OBVIOUS
<1>1. ASSUME NEW c \in Callers,
             Request(c) \/ HealthTick(c) \/ PollTick(c) \/ Works(c) \/ InQueue(c)
      PROVE  IInv'
  BY <1>1, BeginKeeps, ReturnKeeps, TriggerOutsideKeeps, TriggerTransitionKeeps,
     TriggerStopKeeps, TriggerProbeKeeps, InQueueKeeps DEF Works
<1>2. ASSUME NEW l \in Loops, Process(l) PROVE IInv'
  BY <1>2, ProcessKeeps
<1>3. ASSUME NEW k \in Conns, Connects(k) PROVE IInv'
  BY <1>3, ConnectKeeps, RestartQueueKeeps, ResetErrorsKeeps DEF Connects
<1>4. CASE MainStep
  BY <1>4, MainStepKeeps
<1>5. CASE UNCHANGED vars
  <2>1. UNCHANGED <<queueVars, recVars>>
    BY <1>5 DEF vars
  <2>2. Typed'
    BY <2>1, QueueUnchanged DEF queueVars, recVars, IInv, Typed, CallerTyped, ContextTyped
  <2>3. MainAlone' /\ RecoveryToken'
    BY <2>1 DEF queueVars, recVars, IInv, MainAlone, Booted,
                RecoveryToken, AtMostOne, Recoverers, Probers, Negotiators
  <2> QED
    BY <2>2, <2>3 DEF IInv
<1> QED
  BY <1>1, <1>2, <1>3, <1>4, <1>5 DEF Next

LEMMA IInvHolds == Spec => []IInv
BY InitIInv, NextKeeps, PTL DEF Spec

(* Every variable keeps its type, through every interleaving of requests,  *)
(* health checks, polls, recoveries and restarts.                          *)
THEOREM RecoveryTypeCorrect == Spec => []TypeOK
<1>1. IInv => TypeOK
  BY DEF IInv, Typed, QueueTyped, CallerTyped, ContextTyped, TypeOK
<1> QED
  BY IInvHolds, <1>1, PTL

(* At every moment at most one goroutine drives the connection, and it is  *)
(* the one the state machine's state says; and when the state is not at    *)
(* rest there is one.                                                      *)
THEOREM OneDriver == Spec => []RecoveryToken
<1>1. IInv => RecoveryToken
  BY DEF IInv
<1> QED
  BY IInvHolds, <1>1, PTL

-----------------------------------------------------------------------------
(* The commands in the channel, under every interleaving of a recovery: a  *)
(* loop of the queue's past and the one that replaces it may both run, and *)
(* still no command is in two places.                                      *)
Accounted == Placed /\ PendingCounted

LEMMA QueueStepAccounted ==
    ASSUME QueueTyped, Accounted,
           \/ UNCHANGED queueVars
           \/ CancelLoop
           \/ \E l \in Loops : LoopStep(l) \/ \E done \in BOOLEAN : StartLoop(l, done)
           \/ \E c \in Callers :
                \/ CallerStep(c) \/ Consume(c)
                \/ \E kind \in Kinds : Call(c, kind) \/ ConsumeAndCall(c, kind)
    PROVE  Accounted'
<1> USE DEF Accounted
<1>1. CASE UNCHANGED queueVars
  BY <1>1, PlacedUnmoved, StayCounted DEF queueVars, Inside
<1>2. CASE CancelLoop
  BY <1>2, PlacedUnmoved, StayCounted DEF CancelLoop, Inside
<1>3. ASSUME NEW l \in Loops, NEW done \in BOOLEAN, StartLoop(l, done) PROVE Accounted'
  BY <1>3, StartLoopPlaced, StayCounted DEF StartLoop, Inside
<1>4. ASSUME NEW l \in Loops, LoopStep(l) PROVE Accounted'
  BY <1>4, LoopStepPlaced, LoopStepCounted
<1>5. ASSUME NEW c \in Callers, CallerStep(c) \/ Consume(c) PROVE Accounted'
  BY <1>5, CallerStepPlaced, CallerStepCounted, ConsumePlaced, ConsumeCounted
<1>6. ASSUME NEW c \in Callers, NEW kind \in Kinds, Call(c, kind) \/ ConsumeAndCall(c, kind)
      PROVE  Accounted'
  BY <1>6, CallPlaced, ConsumeAndCallPlaced, EnterCounted
<1> QED
  BY <1>1, <1>2, <1>3, <1>4, <1>5, <1>6

LEMMA NextAccounted == Typed /\ Accounted /\ [Next]_vars => Accounted'
<1> SUFFICES ASSUME Typed, Accounted, [Next]_vars PROVE Accounted'
  OBVIOUS
<1> USE DEF Typed, Kinds
<1>1. ASSUME NEW c \in Callers, Request(c) \/ HealthTick(c) \/ PollTick(c) PROVE Accounted'
  BY <1>1, QueueStepAccounted DEF Request, HealthTick, PollTick
<1>2. ASSUME NEW c \in Callers, RequestEnds(c) PROVE Accounted'
  <2>1. UNCHANGED <<cmdCh, call, answer, loop, held, pending>>
    BY <1>2 DEF RequestEnds
  <2> QED
    BY <2>1, PlacedUnmoved, StayCounted DEF Accounted, Inside
<1>3. ASSUME NEW c \in Callers, Works(c) PROVE Accounted'
  BY <1>2, <1>3, QueueStepAccounted
  DEF Works, Succeeds, Fails, PollYields, PollEnqueues, TriggerCheck, TriggerTransition,
      TriggerCancel, TriggerWait, TriggerProbe
<1>4. ASSUME NEW c \in Callers, InQueue(c) PROVE Accounted'
  BY <1>4, QueueStepAccounted DEF InQueue
<1>5. ASSUME NEW l \in Loops, Process(l) PROVE Accounted'
  BY <1>5, QueueStepAccounted DEF Process
<1>6. ASSUME NEW k \in Conns, Connects(k) PROVE Accounted'
  <2>1. CASE RestartQueue(k)
    BY <2>1, QueueStepAccounted DEF RestartQueue
  <2> QED
    BY <1>6, <2>1, QueueStepAccounted
    DEF Connects, ConnectEnter, FoundAtTarget, FoundElsewhere, ProbeFails, StepUpDone,
        StepUpFails, MoveOn, ResetErrors
<1>7. CASE MainStep \/ UNCHANGED vars
  BY <1>7, QueueStepAccounted DEF MainStep, MainGoesOn, MainRestarts, vars
<1> QED
  BY <1>1, <1>3, <1>4, <1>5, <1>6, <1>7 DEF Next

(* Through every recovery, a call that waits has its command in exactly one*)
(* place and no other goroutine has one, and PendingCount, by which the    *)
(* poller gives way, is the number of calls inside Enqueue.                *)
THEOREM RecoveryLosesNoCommand == Spec => [](EachCommandInOnePlace /\ PendingExact)
<1>1. Init => Accounted
  BY QueueInitPlaced, QueueInitCounted DEF Init, Accounted
<1>2. IInv => Typed
  BY DEF IInv
<1>3. Accounted => EachCommandInOnePlace /\ PendingExact
  BY PlacedOnce DEF Accounted, PendingCounted, Inside, PendingExact
<1> QED
  BY IInvHolds, NextAccounted, <1>1, <1>2, <1>3, PTL DEF Spec

=============================================================================
