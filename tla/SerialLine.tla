----------------------------- MODULE SerialLine -----------------------------
(***************************************************************************)
(* The serial line: the port of internal/serial/port.go with its rate and  *)
(* the lines in its reader, the amplifier at the other end with a rate of  *)
(* its own and lines it has still to send, and whoever has the port, which *)
(* is one goroutine at a time: probe and stepUp of controller.go while the *)
(* service connects, executeCommand of queue.go while it is Ready.  (That  *)
(* there is one at a time is what Recovery is about.)                      *)
(*                                                                         *)
(* The amplifier hears what is written at its own rate and only what is    *)
(* sent at the port's rate arrives.  It answers a query with Lines zone    *)
(* lines, a bad command with "Command Error.", and a baud rate command by  *)
(* changing its rate, in the order in which it got them.  Of a line only   *)
(* its kind is kept.                                                       *)
(***************************************************************************)
EXTENDS BaudRates, TLC

CONSTANTS
    Target,         \* TARGET_BAUDRATE
    Lines,          \* zone lines in an answer (6)
    MaxAttempts,    \* rounds of probe (3)
    AmpRates,       \* rates the amplifier may be at when the service starts
    MaxFaults,      \* bound on faults of the amplifier, the port and the process
    MaxLines        \* bound on unread lines when a command is sent

(* validate refuses any other target.                                      *)
ASSUME TargetAssumption == Target \in Rates
ASSUME AmpAssumption == AmpRates \subseteq Rates
ASSUME BoundsAssumption ==
    /\ Lines \in Nat \ {0}
    /\ MaxAttempts \in Nat \ {0}
    /\ MaxFaults \in Nat

VARIABLES
    amp,        \* the amplifier's rate, or Off
    work,       \* what it has still to do: lines to send, a rate to change to
    open,       \* p.port is not nil
    portRate,   \* p.baudRate
    buffer,     \* lines that p.reader can return
    phase,      \* where the goroutine is that has the port
    boot,       \* it is main's: the service has not been Ready yet
    ctx,        \* the context it connects under
    probe,      \* probe's rate to start with, place in the order, and round
    steps,      \* rates stepUp has still to go through
    got,        \* zone lines the running command has read
    faults,     \* faults so far
    disturbed   \* a fault while connect runs, or one that lasted when it began

lineVars == <<work, buffer>>
portVars == <<open, portRate>>
driverVars == <<phase, boot, ctx, probe, steps, got>>
vars == <<amp, lineVars, portVars, driverVars, faults, disturbed>>

Off == 0
NoRate == 0

Line == [what : {"zone", "error"}]
Change == [what : {"change"}, rate : Rates]

Connecting == {"open", "listen", "pause", "change", "settle", "verify"}
Serving == {"ready", "health", "query"}

TypeOK ==
    /\ amp \in Rates \cup {Off}
    /\ work \in Seq(Line \cup Change)
    /\ open \in BOOLEAN
    /\ portRate \in Rates \cup {NoRate}
    /\ buffer \in Seq(Line)
    /\ ~open => buffer = <<>>
    /\ phase \in Connecting \cup Serving \cup {"failed"}
    /\ boot \in BOOLEAN
    /\ ctx \in {"process", "request", "done"}
    /\ probe \in [start : Rates, at : 1..Len(ValidBaudRates), round : 1..MaxAttempts]
    /\ steps \in Seq(Rates)
    /\ got \in 0..Lines-1
    /\ faults \in 0..MaxFaults
    /\ disturbed \in BOOLEAN

Init ==
    /\ amp \in AmpRates \cup {Off}
    /\ work = <<>>
    /\ open = FALSE
    /\ portRate = NoRate
    /\ buffer = <<>>
    /\ phase = "open"
    /\ boot = TRUE
    /\ ctx = "process"
    /\ probe = [start |-> Target, at |-> 1, round |-> 1]
    /\ steps = <<>>
    /\ got = 0
    /\ faults = 0
    /\ disturbed = (amp = Off)

-----------------------------------------------------------------------------
(* The line.                                                               *)

Changing == \E i \in DOMAIN work : work[i].what = "change"

Hears(rate) == amp = rate /\ ~Changing

(* Write(QueryCommand(1)) at a rate, with some lines in the reader, which  *)
(* stay there and are read as if they were answers.                        *)
Ask(rate, unread) ==
    /\ Hears(rate) => Len(work) + Len(unread) + Lines <= MaxLines
    /\ work' = work \o (IF Hears(rate) THEN [i \in 1..Lines |-> [what |-> "zone"]] ELSE <<>>)
    /\ buffer' = unread

(* The amplifier sends the next line, which is lost unless the port is open*)
(* at the same rate, or changes its rate.                                  *)
AmpWorks ==
    /\ work # <<>>
    /\ work' = Tail(work)
    /\ IF Head(work).what = "change"
       THEN amp' = Head(work).rate /\ UNCHANGED buffer
       ELSE /\ buffer' = IF open /\ amp = portRate THEN Append(buffer, Head(work)) ELSE buffer
            /\ UNCHANGED amp
    /\ UNCHANGED <<portVars, driverVars, faults, disturbed>>

(* A deadline or a delay passes.  Normally that is when nothing is to come *)
(* any more; that the amplifier is late, and goes on sending afterwards, is*)
(* one of the faults.                                                      *)
Passes(late) ==
    \/ ~late /\ UNCHANGED faults
    \/ late /\ faults < MaxFaults /\ faults' = faults + 1

AnswerDue == work # <<>> \/ buffer # <<>>

Fault == faults < MaxFaults /\ faults' = faults + 1

(* The amplifier is switched off, comes back at its default rate, or loses *)
(* power for a moment.                                                     *)
PowerOff ==
    /\ Fault
    /\ disturbed' = TRUE
    /\ amp' = Off
    /\ work' = <<>>
    /\ UNCHANGED <<buffer, portVars, driverVars>>

PowerOn ==
    /\ amp = Off
    /\ amp' = Default
    /\ UNCHANGED <<lineVars, portVars, driverVars, faults, disturbed>>

AmpResets ==
    /\ Fault
    /\ disturbed' = TRUE
    /\ amp' = Default
    /\ work' = <<>>
    /\ UNCHANGED <<buffer, portVars, driverVars>>

-----------------------------------------------------------------------------
(* connect and probe.                                                      *)

(* A fault that goes on when connect begins with this rate: the amplifier  *)
(* is off, or late in changing to the very rate that is tried first.       *)
Disturbed(rate) == amp = Off \/ \E i \in DOMAIN work : work[i] = [what |-> "change", rate |-> rate]

(* connect begins, with the rate the port was left at, or with the target  *)
(* in a process that has not opened it yet.                                *)
Connect(rate) ==
    /\ phase' = "open"
    /\ probe' = [start |-> IF rate = NoRate THEN Target ELSE rate, at |-> 1, round |-> 1]
    /\ steps' = <<>>
    /\ got' = 0
    /\ disturbed' = Disturbed(rate)

Order == TryOrder(probe.start)
Trying == Order[probe.at]

(* Mutant of NextRate: one more than there are.                            *)
NextRateTooFar ==
    IF probe.at <= Len(Order)
    THEN phase' = "open" /\ probe' = [probe EXCEPT !.at = @ + 1]
    ELSE IF probe.round < MaxAttempts
    THEN phase' = "pause" /\ probe' = [probe EXCEPT !.at = 1, !.round = @ + 1]
    ELSE phase' = "failed" /\ UNCHANGED probe

(* The next rate; after the last one a pause and another round; after the  *)
(* last round an error.                                                    *)
NextRate ==
    IF probe.at < Len(Order)
    THEN phase' = "open" /\ probe' = [probe EXCEPT !.at = @ + 1]
    ELSE IF probe.round < MaxAttempts
    THEN phase' = "pause" /\ probe' = [probe EXCEPT !.at = 1, !.round = @ + 1]
    ELSE phase' = "failed" /\ UNCHANGED probe

(* port.Open closes an open port, and with it goes what was not read, in   *)
(* the old reader and in the device.  Then the query is written.           *)
OpenAndAsk ==
    /\ phase = "open"
    /\ open' = TRUE
    /\ portRate' = Trying
    /\ Ask(Trying, <<>>)
    /\ phase' = "listen"
    /\ UNCHANGED <<amp, boot, ctx, probe, steps, got, faults, disturbed>>

OpenFails ==
    /\ phase = "open"
    /\ Fault
    /\ disturbed' = TRUE
    /\ open' = FALSE
    /\ buffer' = <<>>
    /\ NextRate
    /\ UNCHANGED <<amp, work, portRate, boot, ctx, steps, got>>

(* The port stays open when the query cannot be written.                   *)
ProbeWriteFails ==
    /\ phase = "open"
    /\ Fault
    /\ disturbed' = TRUE
    /\ open' = TRUE
    /\ portRate' = Trying
    /\ buffer' = <<>>
    /\ NextRate
    /\ UNCHANGED <<amp, work, boot, ctx, steps, got>>

(* The first zone line is enough: the amplifier is at this rate.  At the   *)
(* target, or with no step to take, that makes the service Ready.          *)
Found ==
    /\ phase = "listen"
    /\ buffer # <<>>
    /\ Head(buffer).what = "zone"
    /\ buffer' = Tail(buffer)
    /\ steps' = IF portRate = Target THEN <<>> ELSE BaudRateSteps(portRate, Target)
    /\ phase' = IF steps' = <<>> THEN "ready" ELSE "change"
    /\ boot' = (boot /\ phase' # "ready")
    /\ UNCHANGED <<amp, work, portVars, ctx, probe, got, faults, disturbed>>

(* Any other line is passed over, in probe and in stepUp.                  *)
SkipLine ==
    /\ phase \in {"listen", "verify"}
    /\ buffer # <<>>
    /\ Head(buffer).what = "error"
    /\ buffer' = Tail(buffer)
    /\ UNCHANGED <<amp, work, portVars, driverVars, faults, disturbed>>

NotFound ==
    /\ phase = "listen"
    /\ Passes(AnswerDue)
    /\ open' = FALSE
    /\ buffer' = <<>>
    /\ NextRate
    /\ disturbed' = (disturbed \/ AnswerDue)
    /\ UNCHANGED <<amp, work, portRate, boot, ctx, steps, got>>

(* Between two rounds, and only there, probe looks at its context.         *)
PauseEnds ==
    /\ phase = "pause"
    /\ phase' = IF ctx = "done" THEN "failed" ELSE "open"
    /\ UNCHANGED <<amp, lineVars, portVars, boot, ctx, probe, steps, got, faults, disturbed>>

-----------------------------------------------------------------------------
(* stepUp.                                                                 *)

(* The baud rate command is written at the old rate.                       *)
SendChange ==
    /\ phase = "change"
    /\ work' = IF Hears(portRate)
               THEN Append(work, [what |-> "change", rate |-> Head(steps)]) ELSE work
    /\ phase' = "settle"
    /\ UNCHANGED <<amp, buffer, portVars, boot, ctx, probe, steps, got, faults, disturbed>>

(* It is lost, or cannot even be written: then connect starts over.        *)
ChangeLost ==
    /\ phase = "change"
    /\ Fault
    /\ \/ phase' = "settle" /\ UNCHANGED <<probe, steps, got, disturbed>>
       \/ Connect(portRate)
    /\ UNCHANGED <<amp, lineVars, portVars, boot, ctx>>

(* The delay is over: the port changes its rate, through SetMode, which    *)
(* keeps the reader, or by opening the device again, and the verifying     *)
(* query is written.                                                       *)
SetBaudRate ==
    /\ phase = "settle"
    /\ ctx # "done"
    /\ Passes(work # <<>>)
    /\ portRate' = Head(steps)
    /\ Ask(Head(steps), buffer) \/ Ask(Head(steps), <<>>)
    /\ phase' = "verify"
    /\ disturbed' = (disturbed \/ work # <<>>)
    /\ UNCHANGED <<amp, open, boot, ctx, probe, steps, got>>

(* It cannot be opened again, and keeps its old rate; or it has the new    *)
(* one, at which the query cannot be written.                              *)
SetBaudRateFails ==
    /\ phase = "settle"
    /\ ctx # "done"
    /\ Fault
    /\ \/ /\ open' = FALSE
          /\ buffer' = <<>>
          /\ UNCHANGED portRate
          /\ Connect(portRate)
       \/ /\ open' = TRUE
          /\ portRate' = Head(steps)
          /\ UNCHANGED buffer
          /\ Connect(Head(steps))
    /\ UNCHANGED <<amp, work, boot, ctx>>

(* The context ends the delay at once, after the command has gone out.     *)
StepAborted ==
    /\ phase = "settle"
    /\ ctx = "done"
    /\ Connect(portRate)
    /\ UNCHANGED <<amp, lineVars, portVars, boot, ctx, faults>>

Verified ==
    /\ phase = "verify"
    /\ buffer # <<>>
    /\ Head(buffer).what = "zone"
    /\ buffer' = Tail(buffer)
    /\ steps' = Tail(steps)
    /\ phase' = IF steps' = <<>> THEN "ready" ELSE "change"
    /\ boot' = (boot /\ phase' # "ready")
    /\ UNCHANGED <<amp, work, portVars, ctx, probe, got, faults, disturbed>>

(* connect calls itself.                                                   *)
NotVerified ==
    /\ phase = "verify"
    /\ Passes(AnswerDue)
    /\ Connect(portRate)
    /\ UNCHANGED <<amp, lineVars, portVars, boot, ctx>>

-----------------------------------------------------------------------------
(* executeCommand, and the recovery that follows a failure.                *)

(* A health check, or a query of somebody else.                            *)
StartQuery(who) ==
    /\ phase = "ready"
    /\ Ask(portRate, buffer)
    /\ phase' = who
    /\ got' = 0
    /\ UNCHANGED <<amp, portVars, boot, ctx, probe, steps, faults, disturbed>>

(* A control command: nobody waits for an answer to it, but if the         *)
(* amplifier does not like it there is one.                                *)
SendControl ==
    /\ phase = "ready"
    /\ Len(work) + Len(buffer) + Lines <= MaxLines
    /\ Hears(portRate)
    /\ work' = Append(work, [what |-> "error"])
    /\ UNCHANGED <<amp, buffer, portVars, driverVars, faults, disturbed>>

(* Lines are collected until there are enough of them.                     *)
ReadZone ==
    /\ phase \in {"health", "query"}
    /\ buffer # <<>>
    /\ Head(buffer).what = "zone"
    /\ buffer' = Tail(buffer)
    /\ IF got + 1 < Lines
       THEN got' = got + 1 /\ UNCHANGED phase
       ELSE got' = 0 /\ phase' = "ready"
    /\ UNCHANGED <<amp, work, portVars, boot, ctx, probe, steps, faults, disturbed>>

(* A recovery: the health monitor's runs under the process's context, that *)
(* of a request under the request's.                                       *)
Recover(c) == Connect(portRate) /\ ctx' = c

(* A failed health check is followed by a recovery.  So may any other      *)
(* failed query be, the third in a row.                                    *)
QueryFails ==
    \/ phase = "health" /\ Recover("process")
    \/ phase = "query" /\ Recover("request")
    \/ /\ phase = "query"
       /\ phase' = "ready"
       /\ got' = 0
       /\ UNCHANGED <<ctx, probe, steps, disturbed>>

(* The query cannot be written: an error at once, with nothing read, which  *)
(* may lead to a recovery like any other.                                  *)
QueryWriteFails ==
    /\ phase = "ready"
    /\ Fault
    /\ \/ \E c \in {"process", "request"} : Recover(c)
       \/ UNCHANGED <<phase, ctx, probe, steps, got, disturbed>>
    /\ UNCHANGED <<amp, lineVars, portVars, boot>>

ReadError ==
    /\ phase \in {"health", "query"}
    /\ buffer # <<>>
    /\ Head(buffer).what = "error"
    /\ buffer' = Tail(buffer)
    /\ QueryFails
    /\ UNCHANGED <<amp, work, portVars, boot, faults>>

(* Mutant of QueryTimesOut: what has been read so far is the answer.       *)
TimesOutQuietly ==
    /\ phase \in {"health", "query"}
    /\ Passes(AnswerDue)
    /\ phase' = "ready"
    /\ got' = 0
    /\ UNCHANGED <<amp, lineVars, portVars, boot, ctx, probe, steps, disturbed>>

QueryTimesOut ==
    /\ phase \in {"health", "query"}
    /\ Passes(AnswerDue)
    /\ QueryFails
    /\ UNCHANGED <<amp, lineVars, portVars, boot>>

(* Somebody else's recovery stops the loop between two reads.              *)
Interrupted ==
    /\ phase \in {"ready", "health", "query"}
    /\ \E c \in {"process", "request"} : Recover(c)
    /\ UNCHANGED <<amp, lineVars, portVars, boot, faults>>

(* The request whose recovery this is comes to its end.                    *)
ContextEnds ==
    /\ ctx = "request"
    /\ ctx' = "done"
    /\ UNCHANGED <<amp, lineVars, portVars, phase, boot, probe, steps, got, faults, disturbed>>

-----------------------------------------------------------------------------
(* A new process, which knows nothing of the last one.                     *)
NewProcess ==
    /\ open' = FALSE
    /\ portRate' = NoRate
    /\ buffer' = <<>>
    /\ boot' = TRUE
    /\ ctx' = "process"
    /\ Connect(NoRate)
    /\ UNCHANGED <<amp, work>>

(* main exits when it does not find the amplifier, and is started again.   *)
BootFails ==
    /\ phase = "failed"
    /\ boot
    /\ NewProcess
    /\ UNCHANGED faults

(* The process is killed, or restarted for an update, at any point.        *)
Crash == Fault /\ NewProcess

-----------------------------------------------------------------------------
AmpFault == PowerOff \/ AmpResets

PortFault == OpenFails \/ ProbeWriteFails \/ ChangeLost \/ SetBaudRateFails \/ QueryWriteFails

Driver ==
    \/ OpenAndAsk \/ Found \/ SkipLine \/ NotFound \/ PauseEnds
    \/ SendChange \/ SetBaudRate \/ StepAborted \/ Verified \/ NotVerified
    \/ ReadZone \/ ReadError \/ QueryTimesOut
    \/ BootFails

Next ==
    \/ AmpWorks \/ PowerOn \/ AmpFault \/ PortFault
    \/ Driver
    \/ StartQuery("health") \/ StartQuery("query") \/ SendControl
    \/ Interrupted \/ ContextEnds \/ Crash

Spec == Init /\ [][Next]_vars

(* The goroutine that has the port runs, with deadlines on everything it   *)
(* waits for; the amplifier does what it has heard; health checks go on.   *)
Fairness ==
    /\ WF_vars(Driver)
    /\ WF_vars(AmpWorks)
    /\ SF_vars(StartQuery("health"))

FairSpec == Spec /\ Fairness

-----------------------------------------------------------------------------
(* Whenever the service is Ready, the port is open at the target rate,     *)
(* whichever way connect took and whatever failed on it, if the amplifier  *)
(* was not above the target to begin with.  (An amplifier at the fastest   *)
(* rate has no steps to take, and makes the service Ready at that rate.)   *)
ReadyAtTarget == phase \in Serving => open /\ portRate = Target

(* stepUp leaves out no rate between the one at which probe found the      *)
(* amplifier and the target, and goes through them slowest first; so the   *)
(* steps still to be taken begin where the port is, under the same         *)
(* condition.                                                              *)
Climbs(s, low) ==
    /\ \A i, j \in DOMAIN s : i < j => s[i] < s[j]
    /\ Range(s) = {r \in Rates : low <= r /\ r <= Target}
StepsBeginAtPort ==
    /\ phase \in {"change", "settle"} => Climbs(<<portRate>> \o steps, portRate)
    /\ phase = "verify" => Climbs(steps, portRate)

(* probe gives up only if something goes wrong while it runs: an amplifier *)
(* that is on and stays on is found, at whatever rate it was left by a     *)
(* power failure, by a step-up that failed or was aborted, or by a crash   *)
(* with its change of rate still on the way.                               *)
ProbeFindsAmp == phase = "failed" => disturbed

(* An amplifier that was reset does not go unnoticed: what is left of old  *)
(* answers can satisfy some health checks, but not for ever.               *)
OutOfStepNoticed ==
    (phase \in Serving /\ amp # portRate) ~> (phase \notin Serving \/ amp = portRate)

(* Once faults have ended, the service is in step with its amplifier again *)
(* and again, unless the amplifier stays off or a recovery has given up.   *)
InStep == phase \in Serving /\ amp = portRate
SelfHeals == <>[](amp = Off) \/ <>[](phase = "failed") \/ []<>InStep

=============================================================================
