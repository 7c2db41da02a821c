--------------------------- MODULE QueueLifecycle ---------------------------
(***************************************************************************)
(* The command queue under one owner that calls Start and Stop in turn, as *)
(* main does at startup and shutdown and as a recovery that meets no other *)
(* does, with any number of goroutines inside Enqueue meanwhile.           *)
(***************************************************************************)
EXTENDS CommandQueue

VARIABLE owner    \* where the owner is: queue stopped, running, or inside Stop

vars == <<queueVars, owner>>

TypeOK == QueueTypeOK /\ owner \in {"stopped", "running", "stopping"}

Init == QueueInit({}) /\ owner = "stopped"

OwnerStarts ==
    /\ owner = "stopped"
    /\ \E l \in Loops : StartLoop(l, FALSE)
    /\ owner' = "running"

OwnerCancels ==
    /\ owner = "running"
    /\ CancelLoop
    /\ owner' = "stopping"

OwnerWaits ==
    /\ owner = "stopping"
    /\ AllLoopsGone
    /\ owner' = "stopped"
    /\ UNCHANGED queueVars

OwnerStep == OwnerStarts \/ OwnerCancels \/ OwnerWaits

Caller(c) ==
    /\ CallerStep(c) \/ Consume(c) \/ \E k \in Kinds : Call(c, k)
    /\ UNCHANGED owner

Process(l) == LoopStep(l) /\ UNCHANGED owner

Next ==
    \/ OwnerStep
    \/ \E c \in Callers : Caller(c)
    \/ \E l \in Loops : Process(l)

Spec == Init /\ [][Next]_vars

(* The scheduler runs every goroutine that can run.  A blocked channel     *)
(* send is served in FIFO order, and the select of processLoop, which      *)
(* picks at random among its ready cases, does not pass over a done        *)
(* context for ever.  EndDrain is another matter: drainQueue takes its     *)
(* default when it finds the channel empty, and that it does so if the     *)
(* channel is empty again and again is an assumption on timing, that the   *)
(* loop is not for ever slower than the next caller.  No context is        *)
(* assumed to be ever done, and the owner need not do anything but finish  *)
(* a Stop.                                                                 *)
Fairness ==
    /\ \A l \in Loops :
        /\ WF_vars(Process(l))
        /\ SF_vars(BeginDrain(l) /\ UNCHANGED owner)
        /\ SF_vars(EndDrain(l) /\ UNCHANGED owner)
    /\ \A c \in Callers :
        /\ SF_vars(Send(c) /\ UNCHANGED owner)
        /\ WF_vars(Receive(c) /\ UNCHANGED owner)
    /\ WF_vars(OwnerWaits)

FairSpec == Spec /\ Fairness

-----------------------------------------------------------------------------
(* Stop returns, so whoever stopped the queue before a recovery gets on    *)
(* with it, although a cancelled loop goes on taking commands as long as   *)
(* its select picks them and commands keep coming.  Only callers that fill *)
(* the channel again each time before drainQueue finds it empty could keep *)
(* it there for ever.                                                      *)
StopReturns == ([]<>(cmdCh = <<>>)) => ((owner = "stopping") ~> (owner = "stopped"))

(* If the queue is started again and again, every call to Enqueue returns, *)
(* even one whose command reached the channel after the last drain, and    *)
(* even though neither Stop nor Start looks at what is in the channel.     *)
EveryCallReturns ==
    ([]<>(owner = "running")) =>
        \A c \in Callers : (call[c] \in {"sending", "waiting"}) ~> (call[c] = "returned")

(* Once a Stop has returned and until the next Start, nobody executes a    *)
(* command: the serial port is free for whoever stopped the queue.         *)
PortFreeWhenStopped ==
    owner = "stopped" => Alive = {} /\ \A l \in Loops : held[l] = NoCommand

(* The queue implements FifoService.  Two loops at once would leave no     *)
(* mapping: serving is the one command that some loop holds.               *)
Held == {l \in Loops : loop[l] = "execute"}
Unread(c) == IF call[c] \in {"waiting", "returned"} THEN answer[c] ELSE "none"

Service == INSTANCE FifoService WITH
    line <- cmdCh,
    serving <- IF Held = {} THEN <<>> ELSE <<held[CHOOSE l \in Held : TRUE]>>,
    answered <- [c \in Callers |-> Unread(c)],
    Refusal <- "shutdown"

ServesInOrder == Service!Spec

=============================================================================
