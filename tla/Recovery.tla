------------------------------ MODULE Recovery ------------------------------
(***************************************************************************)
(* The life of the amplifier connection: the state machine of              *)
(* internal/amp/state.go, the connect and TriggerRecovery operations of    *)
(* controller.go, and every goroutine that reaches them at the same time:  *)
(* HTTP requests, the health monitor (health.go), the poller (poller.go),  *)
(* main while it boots, and the goroutine each recovery launches to        *)
(* connect again.  All of them share the command queue of CommandQueue.    *)
(*                                                                         *)
(* The amplifier is left out: a probe finds it at the target baud rate,    *)
(* finds it elsewhere or does not find it, a step-up works or fails, and a *)
(* command ends in any of the ways it can.                                 *)
(***************************************************************************)
EXTENDS CommandQueue

CONSTANTS
    Users,      \* HTTP requests that may be served at the same time
    Monitors,   \* the health monitor's goroutine
    Pollers,    \* the poller's goroutine
    Conns,      \* goroutines that may be inside connect at the same time
    Main,       \* main's goroutine, which connects at boot
    App,        \* the context of the process
    Over,       \* a context that is done
    AmpCount,   \* configured amplifiers
    Threshold   \* consecutive errors that trigger a recovery (3 in the code)

ASSUME CallersAssumption ==
    /\ Callers = Users \cup Monitors \cup Pollers
    /\ Users \cap Monitors = {}
    /\ Users \cap Pollers = {}
    /\ Monitors \cap Pollers = {}
ASSUME MainAssumption == Main \in Conns
ASSUME ContextAssumption == App # Over /\ {App, Over} \cap Users = {}
ASSUME CountAssumption == AmpCount \in Nat \ {0} /\ Threshold \in Nat \ {0}

VARIABLES
    state,              \* the state machine's state
    consecutiveErrors,  \* the counter, which saturates at Threshold here
    job,                \* where a caller is when it is not inside Enqueue
    left,               \* commands a multi-amplifier query has left
    conn,               \* where each goroutine is inside or around connect
    connCtx,            \* the context each of them was given
    loopCtx             \* the request a processLoop was started for, or App

recVars == <<state, consecutiveErrors, job, left, conn, connCtx, loopCtx>>
vars == <<queueVars, recVars>>

States == {"Disconnected", "Probing", "Negotiating", "Ready", "Recovering"}
Contexts == Users \cup {App, Over}
Jobs == {"none", "poll", "check", "transition", "cancel", "wait", "toProbing", "end"}
Steps == {"none", "enter", "probe", "negotiate", "connected", "failed", "reset"}

TypeOK ==
    /\ QueueTypeOK
    /\ state \in States
    /\ consecutiveErrors \in 0..Threshold
    /\ job \in [Callers -> Jobs]
    /\ left \in [Callers -> 0..AmpCount]
    /\ conn \in [Conns -> Steps]
    /\ connCtx \in [Conns -> Contexts]
    /\ loopCtx \in [Loops -> Contexts \ {Over}]

(* validTransition                                                         *)
Successors ==
    [Disconnected |-> {"Probing"},
     Probing      |-> {"Negotiating", "Ready", "Disconnected"},
     Negotiating  |-> {"Ready", "Probing"},
     Ready        |-> {"Recovering"},
     Recovering   |-> {"Probing"}]

Valid(to) == to \in Successors[state]

(* Transition(to): an invalid one changes nothing and returns an error.    *)
Transition(to) == state' = IF Valid(to) THEN to ELSE state

Booted == conn[Main] = "none"

(* main: queue.Start, then controller.Start, and nothing else until that   *)
(* has returned.                                                           *)
Init ==
    /\ \E l \in Loops : QueueInit({l})
    /\ state = "Disconnected"
    /\ consecutiveErrors = 0
    /\ job = [c \in Callers |-> "none"]
    /\ left = [c \in Callers |-> 0]
    /\ conn = [k \in Conns |-> IF k = Main THEN "enter" ELSE "none"]
    /\ connCtx = [k \in Conns |-> App]
    /\ loopCtx = [l \in Loops |-> App]

-----------------------------------------------------------------------------
(* What the callers of Enqueue do before and after.                        *)

Free(c) == Booted /\ job[c] = "none" /\ call[c] = "idle"

(* QueryAllZones (AmpCount commands), QueryZone, SetAttribute: only        *)
(* IsReady is checked, and what it said may be old by the time the command *)
(* is sent.                                                                *)
Request(u) ==
    /\ u \in Users
    /\ Free(u)
    /\ state = "Ready"
    /\ \/ Call(u, "query") /\ \E n \in {1, AmpCount} : left' = [left EXCEPT ![u] = n]
       \/ Call(u, "control") /\ left' = [left EXCEPT ![u] = 1]
    /\ UNCHANGED <<state, consecutiveErrors, job, conn, connCtx, loopCtx>>

HealthTick(m) ==
    /\ m \in Monitors
    /\ Free(m)
    /\ state = "Ready"
    /\ Call(m, "query")
    /\ left' = [left EXCEPT ![m] = 1]
    /\ UNCHANGED <<state, consecutiveErrors, job, conn, connCtx, loopCtx>>

PollTick(p) ==
    /\ p \in Pollers
    /\ Free(p)
    /\ state = "Ready"
    /\ job' = [job EXCEPT ![p] = "poll"]
    /\ left' = [left EXCEPT ![p] = AmpCount]
    /\ UNCHANGED <<queueVars, state, consecutiveErrors, conn, connCtx, loopCtx>>

(* The poller gives way to other commands, before each amplifier.          *)
PollYields(p) ==
    /\ job[p] = "poll"
    /\ pending > 0
    /\ job' = [job EXCEPT ![p] = "none"]
    /\ left' = [left EXCEPT ![p] = 0]
    /\ UNCHANGED <<queueVars, state, consecutiveErrors, conn, connCtx, loopCtx>>

PollEnqueues(p) ==
    /\ job[p] = "poll"
    /\ pending = 0
    /\ Call(p, "query")
    /\ job' = [job EXCEPT ![p] = "none"]
    /\ UNCHANGED <<state, consecutiveErrors, left, conn, connCtx, loopCtx>>

(* Enqueue returned a result.  RecordCommandSuccess clears the counter,    *)
(* except after a control command and a health check; then comes the next  *)
(* amplifier, if there is one.                                             *)
Succeeds(c) ==
    /\ call[c] = "returned"
    /\ answer[c] = "ok"
    /\ consecutiveErrors' =
         IF c \in Monitors \/ sends[c] = "control" THEN consecutiveErrors ELSE 0
    /\ left' = [left EXCEPT ![c] = @ - 1]
    /\ IF c \in Users /\ left[c] > 1 THEN ConsumeAndCall(c, "query") ELSE Consume(c)
    /\ job' = [job EXCEPT ![c] = IF c \in Pollers /\ left[c] > 1 THEN "poll" ELSE @]
    /\ UNCHANGED <<state, conn, connCtx, loopCtx>>

(* Enqueue returned an error, the end of the caller's own context included.*)
(* A request counts it and turns to TriggerRecovery at the threshold, the  *)
(* health monitor turns to it at once, the poller does neither.            *)
Counted(c) == IF c \in Users /\ consecutiveErrors < Threshold
              THEN consecutiveErrors + 1 ELSE consecutiveErrors

(* Mutant of Fails: a failed health check is only logged.                  *)
FailsQuietly(c) ==
    /\ call[c] = "returned"
    /\ answer[c] # "ok"
    /\ consecutiveErrors' = Counted(c)
    /\ job' = [job EXCEPT ![c] =
         IF c \in Users /\ Counted(c) = Threshold THEN "check" ELSE "none"]
    /\ left' = [left EXCEPT ![c] = 0]
    /\ Consume(c)
    /\ UNCHANGED <<state, conn, connCtx, loopCtx>>

Fails(c) ==
    /\ call[c] = "returned"
    /\ answer[c] # "ok"
    /\ consecutiveErrors' = Counted(c)
    /\ job' = [job EXCEPT ![c] =
         IF c \in Monitors \/ (c \in Users /\ Counted(c) = Threshold) THEN "check" ELSE "none"]
    /\ left' = [left EXCEPT ![c] = 0]
    /\ Consume(c)
    /\ UNCHANGED <<state, conn, connCtx, loopCtx>>

-----------------------------------------------------------------------------
(* TriggerRecovery.                                                        *)

Job(c, from, to) == job[c] = from /\ job' = [job EXCEPT ![c] = to]

(* A request ends where the health monitor waits for its next tick.        *)
Done(c) == IF c \in Users THEN "end" ELSE "none"

TriggerCheck(c) ==
    /\ Job(c, "check", IF state \in {"Recovering", "Probing"} THEN Done(c) ELSE "transition")
    /\ UNCHANGED <<queueVars, state, consecutiveErrors, left, conn, connCtx, loopCtx>>

(* Mutant of TriggerTransition: the refused transition is not looked at.   *)
TriggerAnyway(c) ==
    /\ Job(c, "transition", "cancel")
    /\ Transition("Recovering")
    /\ UNCHANGED <<queueVars, consecutiveErrors, left, conn, connCtx, loopCtx>>

TriggerTransition(c) ==
    /\ Job(c, "transition", IF Valid("Recovering") THEN "cancel" ELSE Done(c))
    /\ Transition("Recovering")
    /\ UNCHANGED <<queueVars, consecutiveErrors, left, conn, connCtx, loopCtx>>

(* Stop, its two halves.                                                   *)
TriggerCancel(c) ==
    /\ Job(c, "cancel", "wait")
    /\ CancelLoop
    /\ UNCHANGED <<state, consecutiveErrors, left, conn, connCtx, loopCtx>>

TriggerWait(c) ==
    /\ Job(c, "wait", "toProbing")
    /\ AllLoopsGone
    /\ UNCHANGED <<queueVars, state, consecutiveErrors, left, conn, connCtx, loopCtx>>

(* The goroutine that connects gets the caller's context: the request's, or*)
(* the process's.                                                          *)
TriggerProbe(c) ==
    /\ Job(c, "toProbing", Done(c))
    /\ Transition("Probing")
    /\ IF Valid("Probing")
       THEN \E k \in Conns \ {Main} :
              /\ conn[k] = "none"
              /\ conn' = [conn EXCEPT ![k] = "enter"]
              /\ connCtx' = [connCtx EXCEPT ![k] = IF c \in Users THEN c ELSE App]
       ELSE UNCHANGED <<conn, connCtx>>
    /\ UNCHANGED <<queueVars, consecutiveErrors, left, loopCtx>>

(* The handler returns and net/http cancels the request's context, and with*)
(* it everything that was started with it.                                 *)
RequestEnds(u) ==
    /\ Job(u, "end", "none")
    /\ connCtx' = [k \in Conns |-> IF connCtx[k] = u THEN Over ELSE connCtx[k]]
    /\ loopCtx' = [l \in Loops |-> IF loopCtx[l] = u THEN App ELSE loopCtx[l]]
    /\ canceled' = canceled \cup {l \in Alive : loopCtx[l] = u}
    /\ UNCHANGED <<cmdCh, call, sends, answer, loop, held, cancelOf, pending>>
    /\ UNCHANGED <<state, consecutiveErrors, left, conn>>

-----------------------------------------------------------------------------
(* connect, and what its two callers do when it returns.                   *)

(* Transition(to), then on to next, or return the error.                   *)
MoveOn(k, to, next) ==
    /\ Transition(to)
    /\ conn' = [conn EXCEPT ![k] = IF Valid(to) THEN next ELSE "failed"]
    /\ UNCHANGED <<queueVars, consecutiveErrors, job, left, connCtx, loopCtx>>

ConnectEnter(k) ==
    /\ conn[k] = "enter"
    /\ IF state = "Probing"
       THEN /\ conn' = [conn EXCEPT ![k] = "probe"]
            /\ UNCHANGED <<queueVars, state, consecutiveErrors, job, left, connCtx, loopCtx>>
       ELSE MoveOn(k, "Probing", "probe")

FoundAtTarget(k) == conn[k] = "probe" /\ MoveOn(k, "Ready", "connected")

FoundElsewhere(k) == conn[k] = "probe" /\ MoveOn(k, "Negotiating", "negotiate")

(* Mutant of ProbeFails: the error path leaves the state as it is.         *)
ProbeGivesUp(k) ==
    /\ conn[k] = "probe"
    /\ conn' = [conn EXCEPT ![k] = "failed"]
    /\ UNCHANGED <<queueVars, state, consecutiveErrors, job, left, connCtx, loopCtx>>

(* The error of this Transition is ignored.                                *)
ProbeFails(k) == conn[k] = "probe" /\ MoveOn(k, "Disconnected", "failed")

StepUpDone(k) == conn[k] = "negotiate" /\ MoveOn(k, "Ready", "connected")

(* connect calls itself, whether or not this Transition was valid.         *)
StepUpFails(k) ==
    /\ conn[k] = "negotiate"
    /\ Transition("Probing")
    /\ conn' = [conn EXCEPT ![k] = "enter"]
    /\ UNCHANGED <<queueVars, consecutiveErrors, job, left, connCtx, loopCtx>>

(* main starts the poller, the health monitor and the HTTP server.         *)
MainGoesOn ==
    /\ conn[Main] = "connected"
    /\ conn' = [conn EXCEPT ![Main] = "none"]
    /\ UNCHANGED <<queueVars, state, consecutiveErrors, job, left, connCtx, loopCtx>>

(* main exits and systemd starts the process again (Restart=always).       *)
MainRestarts ==
    /\ conn[Main] = "failed"
    /\ conn' = [conn EXCEPT ![Main] = "enter"]
    /\ state' = "Disconnected"
    /\ UNCHANGED <<queueVars, consecutiveErrors, job, left, connCtx, loopCtx>>

(* queue.Start, after a failure too.                                       *)
RestartQueue(k) ==
    /\ k # Main
    /\ conn[k] \in {"connected", "failed"}
    /\ \E l \in Loops :
         /\ StartLoop(l, connCtx[k] = Over)
         /\ loopCtx' = [loopCtx EXCEPT ![l] = IF connCtx[k] = Over THEN App ELSE connCtx[k]]
    /\ conn' = [conn EXCEPT ![k] = IF @ = "connected" THEN "reset" ELSE "none"]
    /\ connCtx' = [connCtx EXCEPT ![k] = App]
    /\ UNCHANGED <<state, consecutiveErrors, job, left>>

ResetErrors(k) ==
    /\ conn[k] = "reset"
    /\ consecutiveErrors' = 0
    /\ conn' = [conn EXCEPT ![k] = "none"]
    /\ UNCHANGED <<queueVars, state, job, left, connCtx, loopCtx>>

-----------------------------------------------------------------------------
InQueue(c) == CallerStep(c) /\ UNCHANGED recVars

Works(c) ==
    \/ Succeeds(c) \/ Fails(c)
    \/ PollYields(c) \/ PollEnqueues(c)
    \/ TriggerCheck(c) \/ TriggerTransition(c)
    \/ TriggerCancel(c) \/ TriggerWait(c) \/ TriggerProbe(c)
    \/ RequestEnds(c)

Process(l) == LoopStep(l) /\ UNCHANGED recVars

Connects(k) ==
    \/ ConnectEnter(k) \/ FoundAtTarget(k) \/ FoundElsewhere(k) \/ ProbeFails(k)
    \/ StepUpDone(k) \/ StepUpFails(k)
    \/ RestartQueue(k) \/ ResetErrors(k)

MainStep == MainGoesOn \/ MainRestarts

Next ==
    \/ \E c \in Callers :
         Request(c) \/ HealthTick(c) \/ PollTick(c) \/ Works(c) \/ InQueue(c)
    \/ \E l \in Loops : Process(l)
    \/ \E k \in Conns : Connects(k)
    \/ MainStep

Spec == Init /\ [][Next]_vars

(* The scheduler runs every goroutine that can run, and every probe and    *)
(* step-up ends, by its deadlines.  A select with several ready cases picks*)
(* at random and blocked senders are served in FIFO order, so neither is   *)
(* passed over for ever.  The contexts of the health monitor and of the    *)
(* poller have a timeout; a request's has none.  Health ticks keep coming; *)
(* that the amplifier answers, or that a client gives up, is never assumed.*)
(* A goroutine is at one place at a time, so one condition stands for all  *)
(* the steps it takes from different places.                               *)
LeavesLoop(l) == (BeginDrain(l) \/ EndDrain(l)) /\ UNCHANGED recVars
InTime(c) == (Receive(c) \/ GiveUp(c)) /\ UNCHANGED recVars

Fairness ==
    /\ \A l \in Loops : WF_vars(Process(l)) /\ SF_vars(LeavesLoop(l))
    /\ \A u \in Users :
        /\ SF_vars(Send(u) /\ UNCHANGED recVars)
        /\ WF_vars((Receive(u) /\ UNCHANGED recVars) \/ Works(u))
    /\ \A c \in Monitors \cup Pollers : WF_vars(HealthTick(c) \/ InTime(c) \/ Works(c))
    /\ \A k \in Conns : WF_vars(Connects(k))
    /\ WF_vars(MainStep)

FairSpec == Spec /\ Fairness

-----------------------------------------------------------------------------
(* Who is driving the recovery, and through which state.                   *)
Recoverers == {c \in Callers : job[c] \in {"cancel", "wait", "toProbing"}}
Probers == {k \in Conns : conn[k] \in {"enter", "probe"}}
Negotiators == {k \in Conns : conn[k] = "negotiate"}

AtMostOne(S) == \A x, y \in S : x = y

(* The state machine's state is a lock.  Whenever it is not at rest, one   *)
(* goroutine and no other drives it on: whoever is stopping the queue while*)
(* it is Recovering, whoever is inside probe while it is Probing, inside   *)
(* stepUp while it is Negotiating.  So two recoveries never probe the port *)
(* at once, no state is left with nobody to leave it, and the returns for  *)
(* refused transitions in connect and TriggerRecovery are never taken.     *)
(* Each error path, each early return and the recursion in connect hands   *)
(* the lock on or gives it back.                                           *)
RecoveryToken ==
    /\ AtMostOne(Recoverers) /\ AtMostOne(Probers) /\ AtMostOne(Negotiators)
    /\ (state = "Recovering") <=> (Recoverers # {})
    /\ (state = "Negotiating") <=> (Negotiators # {})
    /\ state = "Probing" => Probers # {}
    /\ Probers # {} => state = "Probing" \/ (state = "Disconnected" /\ conn[Main] = "enter")

(* If the connection comes back again and again, every request comes out   *)
(* of Enqueue: one whose command was sent on the strength of an old        *)
(* IsReady, after the recovery has drained the channel, included, and one  *)
(* whose client waits for ever.                                            *)
RequestsReturn ==
    ([]<>(state = "Ready")) =>
        \A u \in Users : (call[u] \in {"sending", "waiting"}) ~> (call[u] = "returned")

(* A queue that nobody serves although the state is Ready does not stay    *)
(* so: the next health check fails and starts a recovery.                  *)
Served == Alive \ canceled # {}
DeadQueueNoticed == (Booted /\ state = "Ready" /\ ~Served) ~> (Served \/ state # "Ready")

-----------------------------------------------------------------------------
(* What comments and documentation say, and the code does not do.          *)

(* README.md:154, the last step of a recovery: "Back to READY -- the       *)
(* background poller resumes, API requests are served again".  Some loop   *)
(* is running, or about to be started, whenever the state is Ready.        *)
ServedWhenReady ==
    Booted /\ state = "Ready" => Served \/ \E k \in Conns : conn[k] = "connected"

(* queue.go:81, of Stop: "Stop gracefully shuts down the queue".           *)
StopReturns ==
    \A c \in Callers : (job[c] = "wait") ~> (job[c] # "wait")

=============================================================================
