---------------------------- MODULE ZoneService -----------------------------
(***************************************************************************)
(* What the clients of the API see: the handlers of internal/api/server.go *)
(* with the controller's operations behind them, the poller of poller.go,  *)
(* the zone cache, and at the other end the amplifiers, with people at     *)
(* their keypads.                                                          *)
(*                                                                         *)
(* The command queue is the service that CommandQueue is shown to          *)
(* implement (FifoService).  Of the connection (Recovery, SerialLine) only *)
(* what reaches the zones is kept: a query takes whatever zone lines come  *)
(* next from the port's reader, and probe and stepUp leave there all lines *)
(* of an answer but the first.  A caller is in Enqueue as long as it is    *)
(* "sent".                                                                 *)
(***************************************************************************)
EXTENDS ZoneCache, FiniteSets

CONSTANTS
    Requests,   \* goroutines of net/http, one request each
    Poller,     \* the poller's goroutine
    Nobody,     \* the owner of a command whose caller has given up
    AmpCount,   \* configured amplifiers
    ZonesPerAmp,\* zones of an amplifier, the lines of an answer (6)
    ZoneInputs, \* zone ids that clients send
    AttrInputs, \* attributes that clients send
    MaxEvents,  \* bound on what comes from outside: keys pressed, connections and
                \* lines lost, commands that fail, clients that leave
    MaxUnread   \* bound on what stepUp adds to the reader

ASSUME ZonesAssumption == Zones = (1..AmpCount) \X (1..ZonesPerAmp)
ASSUME InputsAssumption == \A z \in ZoneInputs : z = <<z[1], z[2]>>
ASSUME BoundsAssumption ==
    /\ AmpCount \in Nat \ {0} /\ ZonesPerAmp \in Nat \ {0}
    /\ MaxEvents \in Nat /\ MaxUnread \in Nat
ASSUME RequestsAssumption == Poller \notin Requests /\ Nobody \notin Requests \cup {Poller}

Callers == Requests \cup {Poller}

VARIABLES
    line, serving, answered,    \* the queue
    amps,       \* what the amplifiers hold
    unread,     \* lines in the port's reader, oldest first
    conn,       \* the connection's state, and whether the queue is stopped
    at,         \* where each caller is
    req,        \* what each request asks for
    ampId,      \* the amplifier each caller queries next
    allZones,   \* the lines it has read so far
    resp,       \* the response to each request
    written,    \* how often each request's command was written
    excused,    \* cells whose guard has expired, or was never set
    events      \* what has come from outside

queueVars == <<line, serving, answered>>
callerVars == <<at, req, ampId, allZones, resp>>
historyVars == <<written, excused>>
vars == <<cacheVars, queueVars, amps, unread, conn, callerVars, historyVars, events>>

Query(i) == [what |-> "query", amp |-> i]
Control(z, a, v) == [what |-> "control", zone |-> z, attr |-> a, value |-> v]
Commands ==
    {Query(i) : i \in 1..AmpCount} \cup {Control(x[1], x[2], v) : x \in Cells, v \in Values \cup Refused}

Queue == INSTANCE FifoService WITH
    Kinds <- Commands, Replies <- {"ok", "timeout", "error", "shutdown"},
    Refusal <- "shutdown", Returns <- {}

None == "none"      \* no value
NoRequest == [what |-> None]
NoResponse == [status |-> 0, value |-> None]
Statuses == {200, 400, 404, 500, 503, 504}

ZoneLine(z) == [what |-> "zone", zone |-> z, attrs |-> amps[z]]
ErrorLine == [what |-> "error"]
Lines == [what : {"zone"}, zone : Zones, attrs : Zone]

TypeOK ==
    /\ CacheTypeOK
    /\ \A i \in DOMAIN line : line[i].kind \in Commands
    /\ amps \in [Zones -> Zone]
    /\ unread \in Seq(Lines \cup {ErrorLine})
    /\ conn \in {"ready", "recovering", "probing", "negotiating"}
    /\ at \in [Callers ->
         {"idle", "checked", "next", "go", "sent", "set", "read", "failed", "stopping", "done"}]
    /\ \A c \in Requests : req[c] # NoRequest =>
         \/ req[c].what = "zones"
         \/ req[c].what \in {"set", "zone"} /\ (req[c].zone \in Zones \/ at[c] = "done")
    /\ ampId \in [Callers -> 1..AmpCount+1]
    /\ allZones \in [Callers -> Seq(Lines)]
    /\ \A c \in Requests : resp[c] # NoResponse => resp[c].status \in Statuses
    /\ events \in 0..MaxEvents

(* What an amplifier says to a query.                                      *)
Answer(i) == [k \in 1..ZonesPerAmp |-> ZoneLine(<<i, k>>)]

(* The amplifier was found at the target rate, by the first line of its    *)
(* answer; the others are still there.                                     *)
Init ==
    /\ CacheInit
    /\ Queue!Init
    /\ \E v \in Values : amps = [z \in Zones |-> [a \in Attrs |-> [value |-> v, by |-> "keypad"]]]
    /\ unread = Tail(Answer(1))
    /\ conn = "ready"
    /\ at = [c \in Callers |-> "idle"]
    /\ req = [c \in Requests |-> NoRequest]
    /\ ampId = [c \in Callers |-> 1]
    /\ allZones = [c \in Callers |-> <<>>]
    /\ resp = [c \in Requests |-> NoResponse]
    /\ written = [c \in Requests |-> 0]
    /\ excused = {}
    /\ events = 0

-----------------------------------------------------------------------------
(* The amplifiers.                                                         *)

Event == events < MaxEvents /\ events' = events + 1

AmpSets(z, a, v, who) == amps' = [amps EXCEPT ![z][a] = [value |-> v, by |-> who]]

KeypadPressed ==
    /\ Event
    /\ \E x \in Cells, v \in Values :
         /\ v # amps[x[1]][x[2]].value
         /\ AmpSets(x[1], x[2], v, "keypad")
    /\ UNCHANGED <<cacheVars, queueVars, unread, conn, callerVars, historyVars>>

-----------------------------------------------------------------------------
(* The queue.                                                              *)

Enqueue(c, cmd) ==
    /\ line' = Append(line, [owner |-> c, kind |-> cmd])
    /\ Queue!Arrive(c)

(* Between Stop and the next Start there is no loop.                       *)
Serve ==
    /\ conn \in {"ready", "recovering"}
    /\ Queue!Serve
    /\ UNCHANGED <<cacheVars, amps, unread, conn, callerVars, historyVars, events>>

Running == Head(serving).kind
Owner == Head(serving).owner

(* The command is over, with this answer for whoever waits for it.         *)
Answers(r) ==
    /\ serving # <<>>
    /\ Queue!Complete
    /\ Owner # Nobody => answered'[Owner] = r

(* A query meets what is unread and then the first n lines of its answer:  *)
(* all of them unless the rest is lost, or late.                           *)
Comes(n) == IF n = ZonesPerAmp THEN UNCHANGED events ELSE Event
Stream(n) == unread \o SubSeq(Answer(Running.amp), 1, n)
After(s, k) == SubSeq(s, k + 1, Len(s))
Errors(s) == {k \in DOMAIN s : k <= ZonesPerAmp /\ s[k].what = "error"}

QueryVars == <<cacheVars, amps, conn, at, req, ampId, resp, historyVars>>

(* The first lines are taken for the answer, whatever they answered.       *)
QueryAnswered ==
    /\ Answers("ok")
    /\ Running.what = "query"
    /\ \E n \in 0..ZonesPerAmp :
         /\ Comes(n)
         /\ Len(Stream(n)) >= ZonesPerAmp
         /\ Errors(Stream(n)) = {}
         /\ unread' = After(Stream(n), ZonesPerAmp)
         /\ allZones' = IF Owner = Nobody THEN allZones
                        ELSE [allZones EXCEPT ![Owner] = @ \o SubSeq(Stream(n), 1, ZonesPerAmp)]
    /\ UNCHANGED QueryVars

(* "Command Error." ends a query, also one that was said to another        *)
(* command; what the query had read by then is gone.                       *)
QueryMeetsError ==
    /\ Answers("error")
    /\ Running.what = "query"
    /\ \E n \in 0..ZonesPerAmp : \E k \in Errors(Stream(n)) :
         /\ Comes(n)
         /\ \A j \in Errors(Stream(n)) : k <= j
         /\ unread' = After(Stream(n), k)
    /\ UNCHANGED <<QueryVars, allZones>>

(* Too few lines in time.  They are gone, and later ones come to the next. *)
QueryTimesOut ==
    /\ Answers("timeout")
    /\ Running.what = "query"
    /\ Event
    /\ \E n \in 0..ZonesPerAmp-1 :
         /\ Len(Stream(n)) < ZonesPerAmp
         /\ Errors(Stream(n)) = {}
         /\ \E m \in n..ZonesPerAmp : unread' = SubSeq(Answer(Running.amp), n + 1, m)
    /\ UNCHANGED <<QueryVars, allZones>>

(* A control command is written; nobody waits for what the amplifier says  *)
(* to it, which is a line of its own if it refuses the value.              *)
ControlWritten ==
    /\ Answers("ok")
    /\ Running.what = "control"
    /\ written' = IF Owner = Nobody THEN written ELSE [written EXCEPT ![Owner] = @ + 1]
    /\ IF Running.value \in Values
       THEN AmpSets(Running.zone, Running.attr, Running.value, "set") /\ UNCHANGED unread
       ELSE unread' = Append(unread, ErrorLine) /\ UNCHANGED amps
    /\ UNCHANGED <<cacheVars, conn, callerVars, excused, events>>

(* A queue that is being stopped fails and refuses what it has; otherwise  *)
(* it takes a fault.                                                       *)
Stopping == IF conn = "recovering" THEN UNCHANGED events ELSE Event

(* A port that cannot be written to, or the loop's context is done when a  *)
(* query has taken k lines.                                                *)
CommandFails ==
    /\ Answers("error")
    /\ Stopping
    /\ \/ UNCHANGED unread
       \/ /\ Running.what = "query"
          /\ \E k \in 0..ZonesPerAmp-1 :
               /\ \A j \in Errors(Stream(ZonesPerAmp)) : k < j
               /\ unread' = After(Stream(ZonesPerAmp), k)
    /\ UNCHANGED <<QueryVars, allZones>>

CommandRefused ==
    /\ Stopping
    /\ Queue!Refuse
    /\ UNCHANGED <<unread, QueryVars, allZones>>

-----------------------------------------------------------------------------
(* The connection.                                                         *)

ConnVars == <<cacheVars, amps, callerVars, historyVars>>

(* TriggerRecovery, by the health monitor or somebody's third error.       *)
ConnectionLost ==
    /\ conn = "ready"
    /\ Event
    /\ conn' = "recovering"
    /\ UNCHANGED <<queueVars, unread, ConnVars>>

(* Stop waits for the loop, which leaves an empty channel.                 *)
QueueStopped ==
    /\ conn = "recovering"
    /\ line = <<>> /\ serving = <<>>
    /\ conn' = "probing"
    /\ UNCHANGED <<queueVars, unread, ConnVars, events>>

(* probe opens the port, with a new reader, and reads one zone.            *)
AmpFound ==
    /\ conn = "probing"
    /\ conn' = "negotiating"
    /\ unread' = Tail(Answer(1))
    /\ UNCHANGED <<queueVars, ConnVars, events>>

(* stepUp does the same at each rate; the reader is a new one only if the  *)
(* port had to be opened again.                                            *)
StepVerified ==
    /\ conn = "negotiating"
    /\ Len(unread) + ZonesPerAmp <= MaxUnread
    /\ unread' \in {Tail(unread \o Answer(1)), Tail(Answer(1))}
    /\ UNCHANGED <<queueVars, conn, ConnVars, events>>

StepFails ==
    /\ conn = "negotiating"
    /\ conn' = "probing"
    /\ UNCHANGED <<queueVars, unread, ConnVars, events>>

ConnectionBack ==
    /\ conn = "negotiating"
    /\ conn' = "ready"
    /\ UNCHANGED <<queueVars, unread, ConnVars, events>>

-----------------------------------------------------------------------------
(* The handlers.                                                           *)

(* Mutant of ValidZoneID: it does not know how many amplifiers there are.  *)
ValidZoneIDLoose(z) == z[1] >= 1 /\ z[2] \in 1..ZonesPerAmp

ValidZoneID(z) == z[1] \in 1..AmpCount /\ z[2] \in 1..ZonesPerAmp

(* Attributes have several names each; one of them stands for all.         *)
ResolveAttribute(a) == a \in Attrs

AmpIDForZone(z) == z[1]

Ends(c, status, value) ==
    /\ at' = [at EXCEPT ![c] = "done"]
    /\ resp' = [resp EXCEPT ![c] = [status |-> status, value |-> value]]

(* The goroutine ends after work of its own.                               *)
Returns(c, status, value) ==
    /\ Ends(c, status, value)
    /\ ampId' = [ampId EXCEPT ![c] = 1]
    /\ allZones' = [allZones EXCEPT ![c] = <<>>]

Accepts(c, q) ==
    /\ at[c] = "idle"
    /\ req' = [req EXCEPT ![c] = q]

Asked(what, live, z, a, v) == [what |-> what, live |-> live, zone |-> z, attr |-> a, value |-> v]

Asking == <<cacheVars, queueVars, amps, unread, conn, ampId, allZones, historyVars, events>>

(* handleSetZoneAttribute, up to the body of the request, which the client *)
(* has still to send.                                                      *)
PostAttribute(c) ==
    /\ \E z \in ZoneInputs, a \in AttrInputs, v \in Values \cup Refused :
         /\ Accepts(c, Asked("set", TRUE, z, a, v))
         /\ IF ~ValidZoneID(z) \/ ~ResolveAttribute(a) THEN Ends(c, 400, None)
            ELSE IF conn # "ready" THEN Ends(c, 503, None)
            ELSE at' = [at EXCEPT ![c] = "checked"] /\ UNCHANGED resp
    /\ UNCHANGED Asking

BodyUnreadable(c) ==
    /\ at[c] = "checked"
    /\ req[c].what = "set"
    /\ Event
    /\ Ends(c, 400, None)
    /\ UNCHANGED <<cacheVars, queueVars, amps, unread, conn, req, ampId, allZones, historyVars>>

(* handleGetZone and handleGetZoneAttribute, which differ in the attribute.*)
GetZone(c) ==
    /\ \E z \in ZoneInputs, a \in AttrInputs, live \in BOOLEAN :
         /\ Accepts(c, Asked("zone", live, z, a, None))
         /\ IF ~ValidZoneID(z) \/ ~ResolveAttribute(a) THEN Ends(c, 400, None)
            ELSE IF live /\ conn = "ready" THEN at' = [at EXCEPT ![c] = "checked"] /\ UNCHANGED resp
            ELSE IF live THEN Ends(c, 503, None)
            ELSE IF ~Cached(z) THEN Ends(c, 404, None)
            ELSE Ends(c, 200, GetAttribute(zones[z], a))
    /\ UNCHANGED Asking

GetZones(c) ==
    /\ \E live \in BOOLEAN :
         /\ Accepts(c, Asked("zones", live, None, None, None))
         /\ IF live /\ conn = "ready" THEN at' = [at EXCEPT ![c] = "checked"] /\ UNCHANGED resp
            ELSE IF live THEN Ends(c, 503, None)
            ELSE Ends(c, 200, None)
    /\ UNCHANGED Asking

(* SetAttribute, QueryZone and QueryAllZones look at the state again.      *)
Controller(c) ==
    /\ at[c] = "checked"
    /\ IF conn # "ready"
       THEN Ends(c, 503, None) /\ UNCHANGED <<queueVars, ampId>>
       ELSE LET q == req[c]
                first == IF q.what = "zone" THEN AmpIDForZone(q.zone) ELSE 1
            IN /\ Enqueue(c, IF q.what = "set" THEN Control(q.zone, q.attr, q.value) ELSE Query(first))
               /\ at' = [at EXCEPT ![c] = "sent"]
               /\ ampId' = [ampId EXCEPT ![c] = first]
               /\ UNCHANGED resp
    /\ UNCHANGED <<cacheVars, amps, unread, conn, req, allZones, historyVars, events>>

Status(answer) == IF answer = "timeout" THEN 504 ELSE 500

(* Enqueue returned an error, for which handleAmpError will have a status. *)
Fails(c, status, value) ==
    /\ Queue!Leave(c)
    /\ at' = [at EXCEPT ![c] = "failed"]
    /\ resp' = [resp EXCEPT ![c] = [status |-> status, value |-> value]]
    /\ ampId' = [ampId EXCEPT ![c] = 1]
    /\ allZones' = [allZones EXCEPT ![c] = <<>>]

(* Mutant of RequestFails: an answer is an answer.                         *)
RequestFailsQuietly(c) ==
    /\ at[c] = "sent"
    /\ answered[c] \notin {"none", "ok"}
    /\ Fails(c, 200, req[c].value)
    /\ UNCHANGED <<cacheVars, amps, unread, conn, req, historyVars, events>>

RequestFails(c) ==
    /\ at[c] = "sent"
    /\ answered[c] \notin {"none", "ok"}
    /\ Fails(c, Status(answered[c]), None)
    /\ UNCHANGED <<cacheVars, amps, unread, conn, req, historyVars, events>>

(* The client is gone, and with it the context.                            *)
ClientLeaves(c) ==
    /\ at[c] = "sent"
    /\ Event
    /\ Fails(c, 500, None)
    /\ excused' = excused \cup {x \in Cells : req[c].what = "set" /\ x = <<req[c].zone, req[c].attr>>}
    /\ UNCHANGED <<cacheVars, amps, unread, conn, req, written>>

(* The error is counted before the response is written.  The third in a    *)
(* row begins a recovery, and the handler waits in Stop.                   *)
RecordCommandError(c) ==
    /\ at[c] = "failed"
    /\ \/ at' = [at EXCEPT ![c] = "done"] /\ UNCHANGED conn
       \/ /\ conn = "ready"
          /\ conn' = "recovering"
          /\ at' = [at EXCEPT ![c] = "stopping"]
    /\ UNCHANGED <<cacheVars, queueVars, amps, unread, req, ampId, allZones, resp, historyVars, events>>

(* By the time it goes on another recovery may have begun.                 *)
StopEnds(c) ==
    /\ at[c] = "stopping"
    /\ at' = [at EXCEPT ![c] = "done"]
    /\ UNCHANGED <<cacheVars, queueVars, amps, unread, conn, req, ampId, allZones, resp, historyVars, events>>

SetSent(c) ==
    /\ at[c] = "sent"
    /\ answered[c] = "ok"
    /\ req[c].what = "set"
    /\ Queue!Leave(c)
    /\ OptimisticSet(req[c].zone, req[c].attr, req[c].value)
    /\ at' = [at EXCEPT ![c] = "set"]
    /\ UNCHANGED <<amps, unread, conn, req, ampId, allZones, resp, historyVars, events>>

(* The zone is read back from the cache, in a step of its own.             *)
SetResponds(c) ==
    /\ at[c] = "set"
    /\ LET q == req[c]
       IN IF Cached(q.zone) THEN Returns(c, 200, GetAttribute(zones[q.zone], q.attr)) ELSE Returns(c, 500, None)
    /\ UNCHANGED <<cacheVars, queueVars, amps, unread, conn, req, historyVars, events>>

(* The next amplifier of QueryAllZones, or the end of the query.           *)
QueryReturns(c) ==
    /\ at[c] = "sent"
    /\ answered[c] = "ok"
    /\ req[c].what # "set"
    /\ Queue!Leave(c)
    /\ at' = [at EXCEPT ![c] = IF req[c].what = "zones" /\ ampId[c] < AmpCount THEN "next" ELSE "read"]
    /\ UNCHANGED <<cacheVars, amps, unread, conn, req, ampId, allZones, resp, historyVars, events>>

NextAmp(c) ==
    /\ at[c] = "next"
    /\ Enqueue(c, Query(ampId[c] + 1))
    /\ ampId' = [ampId EXCEPT ![c] = @ + 1]
    /\ at' = [at EXCEPT ![c] = "sent"]
    /\ UNCHANGED <<cacheVars, amps, unread, conn, req, allZones, resp, historyVars, events>>

(* QueryZone looks for its zone in what was read, which need not have it.  *)
First(s, z) == CHOOSE i \in DOMAIN s : s[i].zone = z /\ \A j \in DOMAIN s : s[j].zone = z => i <= j

QueryResponds(c) ==
    /\ at[c] = "read"
    /\ LET q == req[c]
           s == allZones[c]
       IN IF q.what = "zones" THEN Returns(c, 200, None)
          ELSE IF q.zone \notin Shown(s) THEN Returns(c, 500, None)
          ELSE Returns(c, 200, GetAttribute(s[First(s, q.zone)].attrs, q.attr))
    /\ UNCHANGED <<cacheVars, queueVars, amps, unread, conn, req, historyVars, events>>

Handler(c) ==
    \/ Controller(c) \/ RequestFails(c) \/ SetSent(c) \/ SetResponds(c)
    \/ QueryReturns(c) \/ NextAmp(c) \/ QueryResponds(c)

-----------------------------------------------------------------------------
(* The poller.                                                             *)

Pending == {c \in Callers : at[c] = "sent"}

PollOver ==
    /\ at' = [at EXCEPT ![Poller] = "idle"]
    /\ ampId' = [ampId EXCEPT ![Poller] = 1]
    /\ allZones' = [allZones EXCEPT ![Poller] = <<>>]

PollTick ==
    /\ at[Poller] = "idle"
    /\ conn = "ready"
    /\ Pending = {}
    /\ at' = [at EXCEPT ![Poller] = "next"]
    /\ UNCHANGED <<cacheVars, queueVars, amps, unread, conn, req, ampId, allZones, resp, historyVars, events>>

(* Whoever comes between two amplifiers ends the poll, and what there is   *)
(* goes to the cache.  The changes are not logged then.                    *)
PollYields ==
    /\ at[Poller] = "next"
    /\ Pending # {}
    /\ IF allZones[Poller] = <<>>
       THEN UNCHANGED cacheVars
       ELSE Update(allZones[Poller])
    /\ PollOver
    /\ UNCHANGED <<queueVars, amps, unread, conn, req, resp, historyVars, events>>

PollGoesOn ==
    /\ at[Poller] = "next"
    /\ Pending = {}
    /\ at' = [at EXCEPT ![Poller] = "go"]
    /\ UNCHANGED <<cacheVars, queueVars, amps, unread, conn, req, ampId, allZones, resp, historyVars, events>>

(* By then somebody else may have come.                                    *)
PollAmp ==
    /\ at[Poller] = "go"
    /\ Enqueue(Poller, Query(ampId[Poller]))
    /\ at' = [at EXCEPT ![Poller] = "sent"]
    /\ UNCHANGED <<cacheVars, amps, unread, conn, req, ampId, allZones, resp, historyVars, events>>

PollReturns ==
    /\ at[Poller] = "sent"
    /\ answered[Poller] = "ok"
    /\ Queue!Leave(Poller)
    /\ at' = [at EXCEPT ![Poller] = IF ampId[Poller] < AmpCount THEN "next" ELSE "read"]
    /\ ampId' = [ampId EXCEPT ![Poller] = IF @ < AmpCount THEN @ + 1 ELSE @]
    /\ UNCHANGED <<cacheVars, amps, unread, conn, req, allZones, resp, historyVars, events>>

(* An error, or the poll's own timeout: what was read is thrown away.      *)
PollFails ==
    /\ at[Poller] = "sent"
    /\ \/ answered[Poller] \notin {"none", "ok"} /\ UNCHANGED events
       \/ answered[Poller] = "none" /\ Event
    /\ Queue!Leave(Poller)
    /\ PollOver
    /\ UNCHANGED <<cacheVars, amps, unread, conn, req, resp, historyVars>>

PollUpdates ==
    /\ at[Poller] = "read"
    /\ Update(allZones[Poller])
    /\ PollOver
    /\ UNCHANGED <<queueVars, amps, unread, conn, req, resp, historyVars, events>>

Poll == PollTick \/ PollYields \/ PollGoesOn \/ PollAmp \/ PollReturns \/ PollFails \/ PollUpdates

-----------------------------------------------------------------------------
GuardAges ==
    /\ \E x \in Cells : GuardExpires(x) /\ excused' = excused \cup {x}
    /\ UNCHANGED <<queueVars, amps, unread, conn, callerVars, written, events>>

Request(c) ==
    \/ PostAttribute(c) \/ BodyUnreadable(c) \/ GetZone(c) \/ GetZones(c)
    \/ Handler(c) \/ ClientLeaves(c) \/ RecordCommandError(c) \/ StopEnds(c)

Next ==
    \/ KeypadPressed \/ GuardAges
    \/ Serve \/ QueryAnswered \/ QueryMeetsError \/ QueryTimesOut
    \/ ControlWritten \/ CommandFails \/ CommandRefused
    \/ ConnectionLost \/ QueueStopped \/ AmpFound \/ StepVerified \/ StepFails \/ ConnectionBack
    \/ \E c \in Requests : Request(c)
    \/ Poll

Spec == Init /\ [][Next]_vars

(* Handlers run on once they have their answer, and the ticker ticks.      *)
Fairness ==
    /\ \A c \in Requests : WF_vars(Handler(c))
    /\ WF_vars(Poll)

FairSpec == Spec /\ Fairness

-----------------------------------------------------------------------------
(* A set that is answered with 200 has been written to the serial port     *)
(* once, whatever became of the queue meanwhile, and one that is refused   *)
(* because of the connection has not.                                      *)
SetsDoneOnce ==
    \A c \in Requests : resp[c] # NoResponse /\ req[c].what = "set" =>
        /\ resp[c].status = 200 => written[c] = 1
        /\ resp[c].status \in {400, 503} => written[c] = 0
        /\ resp[c].status # 504

(* A poll does not log as a keypad change what a client of the service has *)
(* set, though it may read it many lines late, unless the guard has        *)
(* expired by then, or the client left and there is none, or the poll is   *)
(* done before the request's goroutine goes on.                            *)
BeingSet == {<<req[c].zone, req[c].attr>> : c \in {r \in Requests : at[r] = "sent" /\ req[r].what = "set"}}
ToLog == IF at[Poller] = "read" THEN Changes(allZones[Poller]) ELSE {}
EchoesNotLogged ==
    \A x \in ToLog : LET l == allZones[Poller][x[1]] IN
        l.attrs[x[2]].by = "set" => <<l.zone, x[2]>> \in excused \cup BeingSet

(* When clients and keypads come to rest the cache shows what the          *)
(* amplifiers hold, sets that were overtaken by a poll or refused by the   *)
(* amplifier included, though every poll reads lines of an earlier one, as *)
(* long as the connection stays good and the queue is served to its end    *)
(* again and again.                                                        *)
InSync == \A x \in Cells :
    Cached(x[1]) /\ GetAttribute(zones[x[1]], x[2]) = GetAttribute(amps[x[1]], x[2])
QueueServed == line = <<>> /\ serving = <<>>

=============================================================================
