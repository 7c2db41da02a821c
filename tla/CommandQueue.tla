---------------------------- MODULE CommandQueue ----------------------------
(***************************************************************************)
(* The FIFO command queue of internal/serial/queue.go: the buffered Go     *)
(* channel cmdCh, the goroutines that call Enqueue, and the processLoop    *)
(* goroutines that Start creates and Stop cancels.                         *)
(*                                                                         *)
(* The module holds the queue's state and one action per step of its       *)
(* operations.  It has no next-state relation of its own: who calls Start, *)
(* Stop and Enqueue, and when, is decided by the modules that extend it    *)
(* (QueueLifecycle, where one owner does, and Recovery, where the          *)
(* controller's goroutines do).                                            *)
(*                                                                         *)
(* Data that the properties do not tell apart is left out: the text of a   *)
(* command is its kind (a query waits for zone lines, a control command is *)
(* fire-and-forget), and a reply is only its outcome.                      *)
(***************************************************************************)
EXTENDS Integers, Sequences, FiniteSets

CONSTANTS
    Callers,    \* goroutines that may be inside Enqueue, one call each
    Nobody,     \* the owner of a command whose caller has given up
    Loops,      \* processLoop goroutines that may be alive at the same time
    NoLoop,     \* q.cancel = nil, or the cancel of a loop that has returned
    Capacity    \* buffer of cmdCh (64 in NewQueue)

ASSUME CapacityAssumption == Capacity \in Nat \ {0}
ASSUME NobodyAssumption == Nobody \notin Callers
ASSUME NoLoopAssumption == NoLoop \notin Loops

VARIABLES
    cmdCh,      \* commands accepted and not yet taken, oldest first
    call,       \* where each caller is inside Enqueue
    sends,      \* the kind of command each call carries
    answer,     \* what lies in a call's reply channels, then what it returned
    loop,       \* where each processLoop goroutine is
    held,       \* the command each loop is executing
    canceled,   \* loops whose context has been cancelled
    cancelOf,   \* the loop that q.cancel cancels, until it has returned
    pending     \* the counter behind PendingCount

queueVars == <<cmdCh, call, sends, answer, loop, held, canceled, cancelOf, pending>>

Kinds == {"query", "control"}
Commands == [owner : Callers \cup {Nobody}, kind : Kinds]
NoCommand == [owner |-> Nobody, kind |-> "none"]

(* What executeCommand and drainQueue send on a command's channels: a      *)
(* result, an error (the write failed, no answer in time, "Command Error." *)
(* from the amplifier, the loop's context cancelled while it reads), or    *)
(* ErrShutdown.                                                            *)
Replies == {"ok", "error", "shutdown"}
(* What Enqueue returns: a reply, or the error of the caller's context.    *)
Returns == Replies \cup {"ctxDone"}

Alive == {l \in Loops : loop[l] # "none"}

QueueTypeOK ==
    /\ cmdCh \in Seq(Commands)
    /\ Len(cmdCh) <= Capacity
    /\ call \in [Callers -> {"idle", "sending", "waiting", "returned"}]
    /\ sends \in [Callers -> Kinds \cup {"none"}]
    /\ answer \in [Callers -> Returns \cup {"none"}]
    /\ loop \in [Loops -> {"none", "select", "execute", "drain"}]
    /\ held \in [Loops -> Commands \cup {NoCommand}]
    /\ canceled \subseteq Alive
    /\ cancelOf \in Alive \cup {NoLoop}
    /\ pending \in Int

(* NewQueue, then Start by main for the loops in started.                  *)
QueueInit(started) ==
    /\ cmdCh = <<>>
    /\ call = [c \in Callers |-> "idle"]
    /\ sends = [c \in Callers |-> "none"]
    /\ answer = [c \in Callers |-> "none"]
    /\ loop = [l \in Loops |-> IF l \in started THEN "select" ELSE "none"]
    /\ held = [l \in Loops |-> NoCommand]
    /\ canceled = {}
    /\ cancelOf \in IF started = {} THEN {NoLoop} ELSE started
    /\ pending = 0

-----------------------------------------------------------------------------
(* Enqueue, from the side of its caller.                                   *)

(* The call begins: pending is raised and the command is on its way to the *)
(* channel.                                                                *)
Call(c, kind) ==
    /\ call[c] = "idle"
    /\ call' = [call EXCEPT ![c] = "sending"]
    /\ sends' = [sends EXCEPT ![c] = kind]
    /\ pending' = pending + 1
    /\ UNCHANGED <<cmdCh, answer, loop, held, canceled, cancelOf>>

(* Mutants of Send: a channel without a bound, and one that serves the     *)
(* latest command first.                                                   *)
SendUnbounded(c) ==
    /\ call[c] = "sending"
    /\ cmdCh' = Append(cmdCh, [owner |-> c, kind |-> sends[c]])
    /\ call' = [call EXCEPT ![c] = "waiting"]
    /\ UNCHANGED <<sends, answer, loop, held, canceled, cancelOf, pending>>

SendToFront(c) ==
    /\ call[c] = "sending"
    /\ Len(cmdCh) < Capacity
    /\ cmdCh' = <<[owner |-> c, kind |-> sends[c]]>> \o cmdCh
    /\ call' = [call EXCEPT ![c] = "waiting"]
    /\ UNCHANGED <<sends, answer, loop, held, canceled, cancelOf, pending>>

(* The first select: the channel has room and takes the command.           *)
Send(c) ==
    /\ call[c] = "sending"
    /\ Len(cmdCh) < Capacity
    /\ cmdCh' = Append(cmdCh, [owner |-> c, kind |-> sends[c]])
    /\ call' = [call EXCEPT ![c] = "waiting"]
    /\ UNCHANGED <<sends, answer, loop, held, canceled, cancelOf, pending>>

(* The second select: a reply has arrived.  The deferred function lowers   *)
(* pending on every way out.                                               *)
Receive(c) ==
    /\ call[c] = "waiting"
    /\ answer[c] # "none"
    /\ call' = [call EXCEPT ![c] = "returned"]
    /\ pending' = pending - 1
    /\ UNCHANGED <<cmdCh, sends, answer, loop, held, canceled, cancelOf>>

(* Nobody listens to the channels of x any more if c sent it.              *)
Abandoned(x, c) == IF x.owner = c THEN [x EXCEPT !.owner = Nobody] ELSE x

(* Mutant of GiveUp: the early return does not lower pending.              *)
GiveUpLeaky(c) ==
    /\ call[c] \in {"sending", "waiting"}
    /\ call' = [call EXCEPT ![c] = "returned"]
    /\ answer' = [answer EXCEPT ![c] = "ctxDone"]
    /\ cmdCh' = [i \in 1..Len(cmdCh) |-> Abandoned(cmdCh[i], c)]
    /\ held' = [l \in Loops |-> Abandoned(held[l], c)]
    /\ UNCHANGED <<sends, loop, canceled, cancelOf, pending>>

(* Either select: the caller's context is done (timeout, client gone).     *)
(* The command itself stays where it is: Enqueue does not take it back out *)
(* of the channel, and the loop does not look at the caller's context.     *)
GiveUp(c) ==
    /\ call[c] \in {"sending", "waiting"}
    /\ call' = [call EXCEPT ![c] = "returned"]
    /\ answer' = [answer EXCEPT ![c] = "ctxDone"]
    /\ cmdCh' = [i \in 1..Len(cmdCh) |-> Abandoned(cmdCh[i], c)]
    /\ held' = [l \in Loops |-> Abandoned(held[l], c)]
    /\ pending' = pending - 1
    /\ UNCHANGED <<sends, loop, canceled, cancelOf>>

(* The caller has looked at what Enqueue returned.                         *)
Consume(c) ==
    /\ call[c] = "returned"
    /\ call' = [call EXCEPT ![c] = "idle"]
    /\ sends' = [sends EXCEPT ![c] = "none"]
    /\ answer' = [answer EXCEPT ![c] = "none"]
    /\ UNCHANGED <<cmdCh, loop, held, canceled, cancelOf, pending>>

(* The same, and the caller goes straight into its next Enqueue (the next  *)
(* amplifier of QueryAllZones or of a poll).                               *)
ConsumeAndCall(c, kind) ==
    /\ call[c] = "returned"
    /\ call' = [call EXCEPT ![c] = "sending"]
    /\ sends' = [sends EXCEPT ![c] = kind]
    /\ answer' = [answer EXCEPT ![c] = "none"]
    /\ pending' = pending + 1
    /\ UNCHANGED <<cmdCh, loop, held, canceled, cancelOf>>

-----------------------------------------------------------------------------
(* processLoop.                                                            *)

(* Both reply channels have a buffer of one, so a reply to a command whose *)
(* caller is gone is dropped with the channels and never blocks the loop.  *)
Reply(x, r) ==
    answer' = IF x.owner = Nobody THEN answer ELSE [answer EXCEPT ![x.owner] = r]

(* The select picks a command.  Go picks at random when the context is     *)
(* also done, so a cancelled loop may still take one.                      *)
Take(l) ==
    /\ loop[l] = "select"
    /\ cmdCh # <<>>
    /\ loop' = [loop EXCEPT ![l] = "execute"]
    /\ held' = [held EXCEPT ![l] = Head(cmdCh)]
    /\ cmdCh' = Tail(cmdCh)
    /\ UNCHANGED <<call, sends, answer, canceled, cancelOf, pending>>

(* Mutant of Finish: a command that failed is answered and tried again.    *)
FinishAndRetry(l) ==
    /\ loop[l] = "execute"
    /\ \E r \in Replies \ {"shutdown"} :
         /\ Reply(held[l], r)
         /\ cmdCh' = IF r = "error" /\ Len(cmdCh) < Capacity THEN Append(cmdCh, held[l]) ELSE cmdCh
    /\ loop' = [loop EXCEPT ![l] = "select"]
    /\ held' = [held EXCEPT ![l] = NoCommand]
    /\ UNCHANGED <<call, sends, canceled, cancelOf, pending>>

(* executeCommand ends in one of its ways; which, the serial line decides. *)
Finish(l) ==
    /\ loop[l] = "execute"
    /\ \E r \in Replies \ {"shutdown"} : Reply(held[l], r)
    /\ loop' = [loop EXCEPT ![l] = "select"]
    /\ held' = [held EXCEPT ![l] = NoCommand]
    /\ UNCHANGED <<cmdCh, call, sends, canceled, cancelOf, pending>>

(* Mutant of BeginDrain: commands come before the cancelled context.       *)
BeginDrainWhenEmpty(l) ==
    /\ loop[l] = "select"
    /\ l \in canceled
    /\ cmdCh = <<>>
    /\ loop' = [loop EXCEPT ![l] = "drain"]
    /\ UNCHANGED <<cmdCh, call, sends, answer, held, canceled, cancelOf, pending>>

(* The select picks the cancelled context.                                 *)
BeginDrain(l) ==
    /\ loop[l] = "select"
    /\ l \in canceled
    /\ loop' = [loop EXCEPT ![l] = "drain"]
    /\ UNCHANGED <<cmdCh, call, sends, answer, held, canceled, cancelOf, pending>>

(* Mutant of DrainOne: the command is dropped without an answer.           *)
DrainSilently(l) ==
    /\ loop[l] = "drain"
    /\ cmdCh # <<>>
    /\ cmdCh' = Tail(cmdCh)
    /\ UNCHANGED <<call, sends, answer, loop, held, canceled, cancelOf, pending>>

(* drainQueue answers what is in the channel with ErrShutdown ...          *)
DrainOne(l) ==
    /\ loop[l] = "drain"
    /\ cmdCh # <<>>
    /\ Reply(Head(cmdCh), "shutdown")
    /\ cmdCh' = Tail(cmdCh)
    /\ UNCHANGED <<call, sends, loop, held, canceled, cancelOf, pending>>

(* ... until it finds the channel empty; the loop returns and wg.Done runs.*)
EndDrain(l) ==
    /\ loop[l] = "drain"
    /\ cmdCh = <<>>
    /\ loop' = [loop EXCEPT ![l] = "none"]
    /\ canceled' = canceled \ {l}
    /\ cancelOf' = IF cancelOf = l THEN NoLoop ELSE cancelOf
    /\ UNCHANGED <<cmdCh, call, sends, answer, held, pending>>

-----------------------------------------------------------------------------
(* Start and Stop.                                                         *)

(* Start overwrites q.cancel and launches a loop, whether or not another   *)
(* one is alive.  The loop's context is a child of the one Start is given: *)
(* if that one is done already, so is the loop's.                          *)
StartLoop(l, done) ==
    /\ l \notin Alive
    /\ loop' = [loop EXCEPT ![l] = "select"]
    /\ canceled' = IF done THEN canceled \cup {l} ELSE canceled
    /\ cancelOf' = l
    /\ UNCHANGED <<cmdCh, call, sends, answer, held, pending>>

(* The first half of Stop calls q.cancel, which has no effect when the     *)
(* loop it belongs to has already returned.                                *)
CancelLoop ==
    /\ canceled' = canceled \cup ({cancelOf} \ {NoLoop})
    /\ UNCHANGED <<cmdCh, call, sends, answer, loop, held, cancelOf, pending>>

(* Mutants of AllLoopsGone: Stop does not wait, or the wait group counts   *)
(* commands instead of loops.                                              *)
NoWait == TRUE
NothingHeld == \A l \in Loops : held[l] = NoCommand

(* The second half of Stop, wg.Wait, returns when no loop is left.         *)
AllLoopsGone == Alive = {}

-----------------------------------------------------------------------------
CallerStep(c) == Send(c) \/ Receive(c) \/ GiveUp(c)
LoopStep(l) == Take(l) \/ Finish(l) \/ BeginDrain(l) \/ DrainOne(l) \/ EndDrain(l)

InChannel(c) == {i \in 1..Len(cmdCh) : cmdCh[i].owner = c}
HeldFor(c) == {l \in Loops : held[l].owner = c}

(* Every call that waits has its command in exactly one place: in the      *)
(* channel, in one loop's hands, or answered and not yet received; and no  *)
(* command of a caller that is not waiting has an owner.  So a call gets   *)
(* one reply, the one-slot reply channels never block a loop, and no reply *)
(* reaches a later call of the same goroutine.                             *)
EachCommandInOnePlace ==
    \A c \in Callers :
        /\ Cardinality(InChannel(c)) + Cardinality(HeldFor(c))
             = IF call[c] = "waiting" /\ answer[c] = "none" THEN 1 ELSE 0
        /\ answer[c] # "none" => call[c] \in {"waiting", "returned"}

(* PendingCount is the number of calls inside Enqueue: a leak would stop   *)
(* the poller, which skips its cycle while the count is not zero.          *)
PendingExact ==
    pending = Cardinality({c \in Callers : call[c] \in {"sending", "waiting"}})

(* At most one processLoop goroutine, and with it one command, has the     *)
(* serial port.                                                            *)
SingleLoop == \A k, l \in Alive : k = l

=============================================================================
