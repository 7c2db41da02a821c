------------------------- MODULE ZoneServiceProofs --------------------------
(***************************************************************************)
(* The zones, for any number of requests, amplifiers, zones, attributes    *)
(* and values: a set that is answered was written once, and own sets are   *)
(* not logged as a keypad's.                                               *)
(***************************************************************************)
EXTENDS ZoneService, SequenceTheorems, WellFoundedInduction, TLAPS

Value == Values \cup Refused
Entries == [owner : Callers \cup {Nobody}, kind : Commands]
Answered == {"none", "ok", "timeout", "error", "shutdown"}

(* Where a caller is between its first command and the end of its work.    *)
Working == {"next", "go", "sent", "set", "read"}
Ending == {"failed", "stopping", "done"}
Places == {"idle", "checked"} \cup Working \cup Ending

CacheTyped == CacheTypeOK /\ amps \in [Zones -> Zone]

QueueTyped ==
    /\ line \in Seq(Entries) /\ serving \in Seq(Entries) /\ Len(serving) <= 1
    /\ answered \in [Callers -> Answered]

(* A request that has been let through asks for a zone there is.           *)
Proper(q) ==
    \/ q.what = "zones"
    \/ /\ q.what \in {"set", "zone"} /\ q.zone \in Zones /\ q.attr \in Attrs
       /\ q.what = "set" => q.value \in Value

Isset(c) == req[c].what = "set"
Orderly(c) ==
    /\ at[c] = "idle" => req[c] = NoRequest
    /\ at[c] \in {"checked", "failed", "stopping"} \cup Working => Proper(req[c])
    /\ at[c] = "done" => req[c].what \in {"set", "zones", "zone"}
    /\ at[c] # "go"
    /\ at[c] = "set" => Isset(c)
    /\ at[c] \in {"next", "read"} => ~Isset(c)
    /\ at[c] = "next" => ampId[c] < AmpCount

CallersTyped ==
    /\ at \in [Callers -> Places] /\ ampId \in [Callers -> 1..AmpCount]
    /\ DOMAIN req = Requests
    /\ \A c \in Requests : Orderly(c)
    /\ at[Poller] \in {"idle", "next", "go", "sent", "read"}

(* Lines that were read, and lines that will be.                           *)
Spoken == Lines \cup {ErrorLine}
LinesTyped == allZones \in [Callers -> Seq(Lines)] /\ unread \in Seq(Spoken)

(* Which commands and which steps belong to which request.                 *)
Matches(c, k) ==
    IF c = Poller THEN k.what = "query"
    ELSE IF Isset(c) THEN k = Control(req[c].zone, req[c].attr, req[c].value)
    ELSE k.what = "query"

(* An entry of the queue belongs to a caller that waits for it, or it is   *)
(* nobody's, and then the guard of what it sets is excused.                *)
Standing(e) ==
    /\ e.owner = Nobody /\ e.kind.what = "control" => <<e.kind.zone, e.kind.attr>> \in excused
    /\ e.owner # Nobody =>
         at[e.owner] = "sent" /\ answered[e.owner] = "none" /\ Matches(e.owner, e.kind)
Alone(d, e) == d.owner # e.owner \/ d.owner = Nobody

InQueue ==
    /\ \A c \in Callers : at[c] # "sent" => answered[c] = "none"
    /\ \A i \in DOMAIN line : Standing(line[i])
    /\ \A i \in DOMAIN serving : Standing(serving[i])
    /\ \A i, j \in DOMAIN line : i # j => Alone(line[i], line[j])
    /\ \A i \in DOMAIN line, j \in DOMAIN serving : Alone(line[i], serving[j])

Queued == QueueTyped /\ InQueue

ResponsesTyped ==
    /\ DOMAIN resp = Requests
    /\ \A c \in Requests : resp[c] = NoResponse \/ resp[c].status \in Statuses
States == {"ready", "recovering", "probing", "negotiating"}
BoundsTyped == events \in 0..MaxEvents

Typed ==
    /\ CacheTyped /\ Queued /\ CallersTyped /\ LinesTyped
    /\ ResponsesTyped /\ BoundsTyped /\ conn \in States

(* The steps of the queue and those of the connection.                     *)
QueueSteps ==
    \/ Serve \/ QueryAnswered \/ QueryMeetsError \/ QueryTimesOut
    \/ ControlWritten \/ CommandFails \/ CommandRefused
Connection ==
    ConnectionLost \/ QueueStopped \/ AmpFound \/ StepVerified \/ StepFails \/ ConnectionBack

-----------------------------------------------------------------------------
(* The steps of the queue.                                                 *)

(* Steps that leave the queue alone.                                       *)
LEMMA QueueAlone ==
    ASSUME Queued, UNCHANGED queueVars, excused \subseteq excused',
           \A c \in Callers : (at[c] = "sent") <=> (at'[c] = "sent"),
           \A c \in Requests : at[c] = "sent" => req'[c] = req[c]
    PROVE  Queued'
<1>1. QueueTyped'
  BY DEF Queued, QueueTyped, queueVars
<1>2. ASSUME NEW e \in Entries, Standing(e) PROVE Standing(e)'
  <2>1. CASE e.owner = Nobody
    BY <1>2, <2>1 DEF Standing
  <2>2. CASE e.owner # Nobody
    <3>1. e.owner \in Callers
      BY <2>2 DEF Entries
    <3>2. e.owner = Poller \/ req'[e.owner] = req[e.owner]
      BY <1>2, <2>2, <3>1 DEF Standing, Callers
    <3>3. Matches(e.owner, e.kind)'
      BY <1>2, <2>2, <3>2 DEF Standing, Matches, Isset
    <3> QED
      BY <1>2, <2>2, <3>1, <3>3 DEF Standing, queueVars
  <2> QED
    BY <2>1, <2>2
<1>3. /\ (\A i \in DOMAIN line : Standing(line[i]))'
      /\ (\A i \in DOMAIN serving : Standing(serving[i]))'
  BY <1>2 DEF Queued, QueueTyped, InQueue, queueVars, Standing
<1> QED
  BY <1>1, <1>3 DEF Queued, InQueue, queueVars

(* Its place is all that changes when a command is served.                 *)
LEMMA ServeQueued ==
    ASSUME Queued, Queue!Serve, UNCHANGED <<at, req, excused>>
    PROVE  Queued'
<1>1. /\ line # <<>> /\ serving = <<>> /\ serving' = <<Head(line)>> /\ line' = Tail(line)
      /\ answered' = answered
  BY DEF Queue!Serve
<1>2. /\ line \in Seq(Entries) /\ Head(line) = line[1] /\ 1 \in DOMAIN line /\ line[1] \in Entries
      /\ Tail(line) \in Seq(Entries)
      /\ \A i \in DOMAIN Tail(line) : i + 1 \in DOMAIN line /\ Tail(line)[i] = line[i + 1] /\ i + 1 # 1
  BY <1>1 DEF Queued, QueueTyped
<1>3. QueueTyped'
  BY <1>1, <1>2 DEF Queued, QueueTyped
<1>4. \A e \in Entries : Standing(e) => Standing(e)'
  BY <1>1 DEF Standing, Matches, Isset
<1>5. /\ DOMAIN serving' = {1} /\ serving'[1] = line[1]
  BY <1>1, <1>2
<1>6. (\A i \in DOMAIN line : Standing(line[i]))'
  BY <1>1, <1>2, <1>4 DEF Queued, InQueue, QueueTyped, Standing, Matches, Isset
<1>7. (\A i \in DOMAIN serving : Standing(serving[i]))'
  BY <1>2, <1>4, <1>5 DEF Queued, InQueue, QueueTyped, Standing, Matches, Isset
<1>8. \A i, j \in DOMAIN line' : i # j => Alone(line'[i], line'[j])
  BY <1>1, <1>2 DEF Queued, InQueue
<1>9. \A i \in DOMAIN line', j \in DOMAIN serving' : Alone(line'[i], serving'[j])
  BY <1>1, <1>2, <1>5 DEF Queued, InQueue
<1>10. \A c \in Callers : at'[c] # "sent" => answered'[c] = "none"
  BY <1>1 DEF Queued, InQueue
<1> QED
  BY <1>3, <1>6, <1>7, <1>8, <1>9, <1>10 DEF Queued, InQueue, Alone

(* An entry leaves, and its owner, if it has one still, gets the answer.   *)
LEMMA AnswerKeeps ==
    ASSUME Queued, NEW e \in Entries, Standing(e), NEW r \in Answered, Queue!Answer(e, r),
           UNCHANGED <<at, req, excused>>
    PROVE  /\ answered' \in [Callers -> Answered]
           /\ \A c \in Callers : at'[c] # "sent" => answered'[c] = "none"
           /\ \A d \in Entries : Standing(d) /\ Alone(d, e) => Standing(d)'
           /\ e.owner # Nobody => e.owner \in Callers /\ answered' = [answered EXCEPT ![e.owner] = r]
           /\ e.owner = Nobody => answered' = answered
<1>1. CASE e.owner = Nobody
  BY <1>1 DEF Queue!Answer, Queued, QueueTyped, InQueue, Standing, Matches, Isset
<1>2. CASE e.owner # Nobody
  <2>1. e.owner \in Callers /\ at[e.owner] = "sent"
    BY <1>2 DEF Entries, Standing
  <2>2. answered' = [answered EXCEPT ![e.owner] = r]
    BY <1>2 DEF Queue!Answer
  <2>3. ASSUME NEW d \in Entries, Standing(d), Alone(d, e) PROVE Standing(d)'
    <3>1. CASE d.owner = Nobody
      BY <2>3, <3>1 DEF Standing
    <3>2. CASE d.owner # Nobody
      <4>1. d.owner \in Callers /\ d.owner # e.owner
        BY <2>3, <3>2 DEF Entries, Alone
      <4>2. answered'[d.owner] = answered[d.owner]
        BY <2>1, <2>2, <4>1 DEF Queued, QueueTyped
      <4> QED
        BY <2>3, <3>2, <4>1, <4>2 DEF Standing, Matches, Isset
    <3> QED
      BY <3>1, <3>2
  <2> QED
    BY <1>2, <2>1, <2>2, <2>3 DEF Queued, QueueTyped, InQueue
<1> QED
  BY <1>1, <1>2

LEMMA CompleteQueued ==
    ASSUME Queued, Queue!Complete, UNCHANGED <<at, req, excused>>
    PROVE  Queued'
<1>1. serving # <<>> /\ serving' = <<>> /\ line' = line
  BY DEF Queue!Complete
<1>2. /\ Head(serving) = serving[1] /\ 1 \in DOMAIN serving /\ serving[1] \in Entries
      /\ Standing(serving[1])
  BY <1>1 DEF Queued, QueueTyped, InQueue
<1>3. PICK r \in Answered : Queue!Answer(Head(serving), r)
  BY DEF Queue!Complete, Answered
<1>4. /\ answered' \in [Callers -> Answered]
      /\ \A c \in Callers : at'[c] # "sent" => answered'[c] = "none"
      /\ \A d \in Entries : Standing(d) /\ Alone(d, serving[1]) => Standing(d)'
  BY <1>2, <1>3, AnswerKeeps
<1>5. QueueTyped'
  BY <1>1, <1>4 DEF Queued, QueueTyped
<1>6. \A i \in DOMAIN line : line[i] \in Entries /\ Standing(line[i]) /\ Alone(line[i], serving[1])
  BY <1>2 DEF Queued, QueueTyped, InQueue
<1>7. (\A i \in DOMAIN line : Standing(line[i]))'
  BY <1>1, <1>4, <1>6 DEF Standing, Matches, Isset
<1>8. \A i, j \in DOMAIN line' : i # j => Alone(line'[i], line'[j])
  BY <1>1 DEF Queued, InQueue
<1>9. DOMAIN serving' = {}
  BY <1>1
<1> QED
  BY <1>4, <1>5, <1>7, <1>8, <1>9 DEF Queued, InQueue, Alone

LEMMA RefuseQueued ==
    ASSUME Queued, Queue!Refuse, UNCHANGED <<at, req, excused>>
    PROVE  Queued'
<1>1. serving = <<>> /\ line # <<>> /\ line' = Tail(line) /\ serving' = serving
  BY DEF Queue!Refuse
<1>2. /\ line \in Seq(Entries) /\ Head(line) = line[1] /\ 1 \in DOMAIN line /\ line[1] \in Entries
      /\ Tail(line) \in Seq(Entries) /\ Standing(line[1])
      /\ \A i \in DOMAIN Tail(line) : i + 1 \in DOMAIN line /\ Tail(line)[i] = line[i + 1] /\ i + 1 # 1
  BY <1>1 DEF Queued, QueueTyped, InQueue
<1>3. Queue!Answer(Head(line), "shutdown") /\ "shutdown" \in Answered
  BY DEF Queue!Refuse, Answered
<1>4. /\ answered' \in [Callers -> Answered]
      /\ \A c \in Callers : at'[c] # "sent" => answered'[c] = "none"
      /\ \A d \in Entries : Standing(d) /\ Alone(d, line[1]) => Standing(d)'
  BY <1>2, <1>3, AnswerKeeps
<1>5. QueueTyped'
  BY <1>1, <1>2, <1>4 DEF Queued, QueueTyped
<1>6. \A i \in DOMAIN Tail(line) :
        Tail(line)[i] \in Entries /\ Standing(Tail(line)[i]) /\ Alone(Tail(line)[i], line[1])
  BY <1>2 DEF Queued, QueueTyped, InQueue
<1>7. (\A i \in DOMAIN line : Standing(line[i]))'
  BY <1>1, <1>4, <1>6 DEF Standing, Matches, Isset
<1>8. \A i, j \in DOMAIN line' : i # j => Alone(line'[i], line'[j])
  BY <1>1, <1>2 DEF Queued, InQueue
<1>9. DOMAIN serving' = {}
  BY <1>1
<1> QED
  BY <1>4, <1>5, <1>7, <1>8, <1>9 DEF Queued, InQueue, Alone

(* A caller comes with its command.                                        *)
LEMMA EnqueueQueued ==
    ASSUME Queued, at \in [Callers -> Places], NEW c \in Callers, NEW k, Enqueue(c, k),
           Matches(c, k), at' = [at EXCEPT ![c] = "sent"], UNCHANGED <<req, excused>>
    PROVE  Queued'
<1> DEFINE e == [owner |-> c, kind |-> k]
<1>1. /\ line' = Append(line, e) /\ Queue!Absent(c) /\ UNCHANGED <<serving, answered>>
  BY DEF Enqueue, Queue!Arrive
<1>2. k \in Commands
  <2>1. PICK d \in Commands : Append(line, e) = Append(line, [owner |-> c, kind |-> d])
    BY <1>1 DEF Enqueue, Queue!Arrive
  <2>2. line \in Seq(Entries)
    BY DEF Queued, QueueTyped
  <2>3. e = [owner |-> c, kind |-> d]
    <3>1. \A x : Append(line, x)[Len(line) + 1] = x
      BY <2>2
    <3> QED
      BY <2>1, <3>1
  <2> QED
    BY <2>3
<1>3. /\ e \in Entries /\ c # Nobody /\ e.owner = c /\ e.kind = k
  BY <1>2, RequestsAssumption DEF Entries, Callers
<1>4. answered[c] = "none" /\ \A i \in DOMAIN line : line[i].owner # c
  BY <1>1 DEF Queue!Absent, Queued, QueueTyped
<1>5. \A i \in DOMAIN serving : serving[i].owner # c
  BY <1>1 DEF Queue!Absent, Queued, QueueTyped
<1> HIDE DEF e
<1>6. /\ line' \in Seq(Entries)
      /\ \A i \in DOMAIN line' : (i \in DOMAIN line /\ line'[i] = line[i]) \/ line'[i] = e
      /\ \A i, j \in DOMAIN line' : i # j => i \in DOMAIN line \/ j \in DOMAIN line
      /\ \A i \in DOMAIN line' : i \in DOMAIN line => line'[i] = line[i]
  BY <1>1, <1>3 DEF Queued, QueueTyped
<1>7. QueueTyped'
  BY <1>1, <1>6 DEF Queued, QueueTyped
<1>8. \A d \in Entries : Standing(d) => Standing(d)'
  BY <1>1 DEF Standing, Matches, Isset, Entries
<1>9. Standing(e)'
  BY <1>1, <1>3, <1>4 DEF Standing, Matches, Isset
<1>10. (\A i \in DOMAIN line : Standing(line[i]))'
  <2>1. \A i \in DOMAIN line' : \/ line'[i] \in Entries /\ Standing(line'[i])
                               \/ line'[i] = e
    BY <1>6 DEF Queued, QueueTyped, InQueue
  <2> QED
    BY <1>8, <1>9, <2>1 DEF Standing, Matches, Isset
<1>11. (\A i \in DOMAIN serving : Standing(serving[i]))'
  BY <1>1, <1>8 DEF Queued, QueueTyped, InQueue, Standing, Matches, Isset
<1>12. \A i, j \in DOMAIN line' : i # j => Alone(line'[i], line'[j])
  BY <1>3, <1>4, <1>6 DEF Queued, InQueue, Alone
<1>13. \A i \in DOMAIN line', j \in DOMAIN serving' : Alone(line'[i], serving'[j])
  BY <1>1, <1>3, <1>5, <1>6 DEF Queued, InQueue, Alone
<1>14. \A d \in Callers : at'[d] # "sent" => answered'[d] = "none"
  BY <1>1 DEF Queued, InQueue
<1> QED
  BY <1>7, <1>10, <1>11, <1>12, <1>13, <1>14 DEF Queued, InQueue, Alone

(* A caller leaves: what it has left in the queue is nobody's from then on.*)
Disowned(x, c) == IF x.owner = c THEN [x EXCEPT !.owner = Nobody] ELSE x

LEMMA DisownedEntry ==
    ASSUME NEW x \in Entries, NEW c
    PROVE  /\ Disowned(x, c) \in Entries
           /\ x.owner = c => Disowned(x, c).owner = Nobody /\ Disowned(x, c).kind = x.kind
           /\ x.owner # c => Disowned(x, c) = x
BY DEF Disowned, Entries

LEMMA DisownEntries ==
    ASSUME NEW s \in Seq(Entries), NEW c \in Callers
    PROVE  /\ Queue!Disown(s, c) \in Seq(Entries) /\ Len(Queue!Disown(s, c)) = Len(s)
           /\ DOMAIN Queue!Disown(s, c) = DOMAIN s
           /\ \A i \in DOMAIN s :
                IF s[i].owner = c
                THEN /\ Queue!Disown(s, c)[i].owner = Nobody
                     /\ Queue!Disown(s, c)[i].kind = s[i].kind
                ELSE Queue!Disown(s, c)[i] = s[i]
<1> DEFINE t == Queue!Disown(s, c)
<1>1. t = [i \in 1..Len(s) |-> Disowned(s[i], c)]
  BY DEF Queue!Disown, Disowned
<1>2. Len(s) \in Nat /\ DOMAIN s = 1..Len(s) /\ \A i \in 1..Len(s) : s[i] \in Entries
  OBVIOUS
<1> HIDE DEF t
<1>3. DOMAIN t = 1..Len(s) /\ \A i \in 1..Len(s) : t[i] = Disowned(s[i], c)
  BY <1>1
<1>4. t \in [1..Len(s) -> Entries]
  BY <1>1, <1>2, DisownedEntry
<1>5. t \in Seq(Entries) /\ Len(t) = Len(s)
  BY <1>2, <1>3, <1>4
<1>6. \A i \in DOMAIN s : /\ s[i].owner = c => t[i].owner = Nobody /\ t[i].kind = s[i].kind
                          /\ s[i].owner # c => t[i] = s[i]
  BY <1>2, <1>3, DisownedEntry
<1> QED
  BY <1>2, <1>3, <1>5, <1>6 DEF t

LEMMA LeaveQueued ==
    ASSUME Queued, at \in [Callers -> Places], NEW c \in Callers, Queue!Leave(c), at[c] = "sent",
           NEW p \in Places \ {"sent"}, at' = [at EXCEPT ![c] = p],
           req' = req, excused \subseteq excused',
           answered[c] = "none" /\ c # Poller /\ Isset(c) => <<req[c].zone, req[c].attr>> \in excused'
    PROVE  Queued'
<1>1. /\ line' = Queue!Disown(line, c) /\ serving' = Queue!Disown(serving, c)
      /\ answered' = [answered EXCEPT ![c] = "none"]
  BY DEF Queue!Leave
<1>2. /\ line' \in Seq(Entries) /\ DOMAIN line' = DOMAIN line
      /\ \A i \in DOMAIN line : IF line[i].owner = c
                               THEN line'[i].owner = Nobody /\ line'[i].kind = line[i].kind
                               ELSE line'[i] = line[i]
  BY <1>1, DisownEntries DEF Queued, QueueTyped
<1>3. /\ serving' \in Seq(Entries) /\ Len(serving') = Len(serving) /\ DOMAIN serving' = DOMAIN serving
      /\ \A i \in DOMAIN serving : IF serving[i].owner = c
                                  THEN serving'[i].owner = Nobody /\ serving'[i].kind = serving[i].kind
                                  ELSE serving'[i] = serving[i]
  BY <1>1, DisownEntries DEF Queued, QueueTyped
<1>4. QueueTyped'
  BY <1>1, <1>2, <1>3 DEF Queued, QueueTyped, Answered
<1>5. ASSUME NEW e \in Entries, Standing(e), e.owner # c PROVE Standing(e)'
  <2>1. e.owner = Nobody \/ (e.owner \in Callers /\ at'[e.owner] = at[e.owner]
                             /\ answered'[e.owner] = answered[e.owner])
    BY <1>1, <1>5 DEF Entries, Queued, QueueTyped
  <2> QED
    BY <1>5, <2>1 DEF Standing, Matches, Isset
<1>6. ASSUME NEW e \in Entries, NEW d \in Entries, Standing(e), e.owner = c,
             d.owner = Nobody, d.kind = e.kind
      PROVE  Standing(d)'
  <2>1. answered[c] = "none" /\ Matches(c, e.kind)
    BY <1>6, RequestsAssumption DEF Standing, Callers
  <2>2. CASE e.kind.what = "control"
    <3>1. c # Poller /\ Isset(c) /\ e.kind = Control(req[c].zone, req[c].attr, req[c].value)
      BY <2>1, <2>2 DEF Matches
    <3>2. e.kind.zone = req[c].zone /\ e.kind.attr = req[c].attr
      BY <3>1 DEF Control
    <3> QED
      BY <1>6, <2>1, <3>1, <3>2 DEF Standing
  <2>3. CASE e.kind.what # "control"
    BY <1>6, <2>3 DEF Standing
  <2> QED
    BY <2>2, <2>3
<1>7. (\A i \in DOMAIN line : Standing(line[i]))'
  <2> SUFFICES ASSUME NEW i \in DOMAIN line PROVE Standing(line[i])'
    BY <1>2
  <2>1. line[i] \in Entries /\ line'[i] \in Entries /\ Standing(line[i])
    BY <1>2 DEF Queued, QueueTyped, InQueue
  <2>2. CASE line[i].owner = c
    BY <1>2, <1>6, <2>1, <2>2 DEF Standing, Matches, Isset
  <2>3. CASE line[i].owner # c
    BY <1>2, <1>5, <2>1, <2>3 DEF Standing, Matches, Isset
  <2> QED
    BY <2>2, <2>3
<1>8. (\A i \in DOMAIN serving : Standing(serving[i]))'
  <2> SUFFICES ASSUME NEW i \in DOMAIN serving PROVE Standing(serving[i])'
    BY <1>3
  <2>1. serving[i] \in Entries /\ serving'[i] \in Entries /\ Standing(serving[i])
    BY <1>3 DEF Queued, QueueTyped, InQueue
  <2>2. CASE serving[i].owner = c
    BY <1>3, <1>6, <2>1, <2>2 DEF Standing, Matches, Isset
  <2>3. CASE serving[i].owner # c
    BY <1>3, <1>5, <2>1, <2>3 DEF Standing, Matches, Isset
  <2> QED
    BY <2>2, <2>3
<1>9. \A i, j \in DOMAIN line' : i # j => Alone(line'[i], line'[j])
  BY <1>2 DEF Queued, InQueue, Alone
<1>10. \A i \in DOMAIN line', j \in DOMAIN serving' : Alone(line'[i], serving'[j])
  BY <1>2, <1>3 DEF Queued, InQueue, Alone
<1>11. \A d \in Callers : at'[d] # "sent" => answered'[d] = "none"
  BY <1>1 DEF Queued, QueueTyped, InQueue
<1> QED
  BY <1>4, <1>7, <1>8, <1>9, <1>10, <1>11 DEF Queued, InQueue, Alone

-----------------------------------------------------------------------------
(* The cache and the amplifiers.                                           *)

LEMMA ZoneSet ==
    ASSUME NEW f \in Zone, NEW a \in Attrs, NEW v \in Value, NEW who \in {"keypad", "set"}
    PROVE  [f EXCEPT ![a] = [value |-> v, by |-> who]] \in Zone
BY DEF Zone, Cell, Value

LEMMA AmpSetsTyped ==
    ASSUME CacheTyped, NEW z \in Zones, NEW a \in Attrs, NEW v \in Value, NEW who \in {"keypad", "set"},
           AmpSets(z, a, v, who), UNCHANGED cacheVars
    PROVE  CacheTyped'
<1>1. amps[z] \in Zone
  BY DEF CacheTyped
<1>2. amps' = [amps EXCEPT ![z] = [amps[z] EXCEPT ![a] = [value |-> v, by |-> who]]]
  BY DEF AmpSets
<1>3. amps' \in [Zones -> Zone]
  BY <1>1, <1>2, ZoneSet DEF CacheTyped
<1> QED
  BY <1>3 DEF CacheTyped, CacheTypeOK, cacheVars

(* Of the places of a sequence that have something, one is the last.       *)
LEMMA LastOne ==
    ASSUME NEW n \in Nat, NEW T, T \subseteq 1..n, T # {}
    PROVE  \E i \in T : \A j \in T : j <= i
<1> DEFINE back == {n - i : i \in T}
<1>1. back \subseteq Nat /\ back # {}
  <2>1. \A i \in T : n - i \in Nat
    OBVIOUS
  <2> QED
    BY <2>1
<1>2. PICK x \in back : \A y \in back : ~ <<y, x>> \in OpToRel(<, Nat)
  <2> HIDE DEF back
  <2> QED
    BY <1>1, WFMin, NatLessThanWellFounded
<1>3. \A y \in back : ~ (y < x)
  BY <1>1, <1>2 DEF OpToRel
<1>4. PICK i \in T : x = n - i
  OBVIOUS
<1>5. ASSUME NEW j \in T PROVE j <= i
  <2>1. n - j \in back
    OBVIOUS
  <2> HIDE DEF back
  <2> QED
    BY <1>3, <1>4, <2>1
<1> QED
  BY <1>5

(* So every zone in it has a newest line, which is what Update leaves.     *)
LEMMA MergedTyped ==
    ASSUME NEW s \in Seq(Lines), DOMAIN zones \subseteq Zones, \A z \in DOMAIN zones : zones[z] \in Zone
    PROVE  /\ DOMAIN Merged(s) \subseteq Zones
           /\ \A z \in DOMAIN Merged(s) : Merged(s)[z] \in Zone
<1>1. \A i \in DOMAIN s : s[i].zone \in Zones /\ s[i].attrs \in Zone
  <2>1. \A i \in DOMAIN s : s[i] \in Lines
    OBVIOUS
  <2> QED
    BY <2>1 DEF Lines
<1>2. ASSUME NEW z \in Shown(s) PROVE Newest(s, z) \in DOMAIN s
  <2> DEFINE T == {i \in DOMAIN s : s[i].zone = z}
  <2>1. T \subseteq 1..Len(s) /\ T # {} /\ Len(s) \in Nat
    BY DEF Shown
  <2>2. \E i \in T : \A j \in T : j <= i
    <3> HIDE DEF T
    <3> QED
      BY <2>1, LastOne
  <2>3. \E i \in DOMAIN s : s[i].zone = z /\ \A j \in DOMAIN s : s[j].zone = z => j <= i
    BY <2>2
  <2> QED
    BY <2>3 DEF Newest
<1>3. Shown(s) \subseteq Zones
  BY <1>1 DEF Shown
<1> QED
  BY <1>1, <1>2, <1>3 DEF Merged

LEMMA UpdateTyped ==
    ASSUME CacheTyped, NEW s \in Seq(Lines), Update(s), UNCHANGED amps
    PROVE  CacheTyped'
<1>1. DOMAIN zones \subseteq Zones /\ \A z \in DOMAIN zones : zones[z] \in Zone
  BY DEF CacheTyped, CacheTypeOK
<1>2. zones' = Merged(s)
  BY DEF Update
<1>3. DOMAIN zones' \subseteq Zones /\ \A z \in DOMAIN zones' : zones'[z] \in Zone
  BY <1>1, <1>2, MergedTyped
<1>4. recentSets' \in [Cells -> {"no", "guarded", "expired"}]
  BY DEF Update, Cleaned, CacheTyped, CacheTypeOK
<1> QED
  BY <1>3, <1>4 DEF CacheTyped, CacheTypeOK

LEMMA SetTyped ==
    ASSUME CacheTyped, NEW z \in Zones, NEW a \in Attrs, NEW v \in Value,
           OptimisticSet(z, a, v), UNCHANGED amps
    PROVE  CacheTyped'
<1>1. DOMAIN zones \subseteq Zones /\ \A y \in DOMAIN zones : zones[y] \in Zone
  BY DEF CacheTyped, CacheTypeOK
<1>2. DOMAIN zones' \subseteq Zones /\ \A y \in DOMAIN zones' : zones'[y] \in Zone
  <2>1. CASE Cached(z)
    <3>1. SetAttribute(zones[z], a, v) \in Zone
      BY <1>1, <2>1, ZoneSet DEF SetAttribute, Cached
    <3>2. zones' = [zones EXCEPT ![z] = SetAttribute(zones[z], a, v)]
      BY <2>1 DEF OptimisticSet
    <3> QED
      BY <1>1, <3>1, <3>2
  <2>2. CASE ~Cached(z)
    BY <1>1, <2>2 DEF OptimisticSet
  <2> QED
    BY <2>1, <2>2
<1>3. recentSets' \in [Cells -> {"no", "guarded", "expired"}]
  BY DEF OptimisticSet, CacheTyped, CacheTypeOK, Cells
<1> QED
  BY <1>2, <1>3 DEF CacheTyped, CacheTypeOK

(* What is being served is a command.                                      *)
LEMMA ServedIsCommand ==
    ASSUME QueueTyped, serving # <<>>
    PROVE  /\ Head(serving) = serving[1] /\ serving[1] \in Entries /\ 1 \in DOMAIN serving
           /\ Running \in Commands /\ Owner \in Callers \cup {Nobody}
<1>1. serving \in Seq(Entries)
  BY DEF QueueTyped
<1>2. Head(serving) = serving[1] /\ serving[1] \in Entries /\ 1 \in DOMAIN serving
  BY <1>1
<1> QED
  BY <1>2 DEF Entries, Running, Owner

LEMMA ControlsTyped ==
    ASSUME NEW k \in Commands, k.what = "control"
    PROVE  /\ k.zone \in Zones /\ k.attr \in Attrs /\ k.value \in Value
           /\ k = Control(k.zone, k.attr, k.value)
<1>1. PICK x \in Cells, v \in Values \cup Refused : k = Control(x[1], x[2], v)
  BY DEF Commands, Query
<1> QED
  BY <1>1 DEF Control, Cells, Value

-----------------------------------------------------------------------------
(* What each kind of step leaves alone.                                    *)

LEMMA QueueLeaves ==
    ASSUME QueueSteps
    PROVE  /\ UNCHANGED <<zones, recentSets, conn, at, req, ampId, resp, excused>>
           /\ ControlWritten \/ UNCHANGED <<amps, written>>
           /\ QueryAnswered \/ UNCHANGED allZones
           /\ Queue!Serve \/ Queue!Complete \/ Queue!Refuse
BY DEF QueueSteps, Serve, QueryAnswered, QueryMeetsError, QueryTimesOut, ControlWritten, CommandFails,
       CommandRefused, Answers, QueryVars, cacheVars, callerVars, historyVars

LEMMA ConnectionLeaves ==
    ASSUME Connection
    PROVE  UNCHANGED <<zones, recentSets, line, serving, answered, amps, at, req, ampId, allZones, resp,
                       written, excused>>
BY DEF Connection, ConnectionLost, QueueStopped, AmpFound, StepVerified, StepFails, ConnectionBack,
       ConnVars, cacheVars, queueVars, callerVars, historyVars

LEMMA RequestLeaves ==
    ASSUME NEW c \in Requests, Request(c)
    PROVE  /\ UNCHANGED <<amps, unread, written>>
           /\ SetSent(c) \/ UNCHANGED <<zones, recentSets>>
           /\ ClientLeaves(c) \/ UNCHANGED excused
           /\ PostAttribute(c) \/ GetZone(c) \/ GetZones(c) \/ UNCHANGED req
           /\ allZones' = allZones \/ allZones' = [allZones EXCEPT ![c] = <<>>]
BY DEF Request, PostAttribute, BodyUnreadable, GetZone, GetZones, Handler, ClientLeaves, RecordCommandError,
       StopEnds, Controller, RequestFails, SetSent, SetResponds, QueryReturns, NextAmp, QueryResponds,
       Fails, Returns, Asking, cacheVars, historyVars

LEMMA PollLeaves ==
    ASSUME Poll
    PROVE  /\ UNCHANGED <<amps, unread, conn, req, resp, written, excused>>
           /\ PollYields \/ PollUpdates \/ UNCHANGED <<zones, recentSets>>
           /\ allZones' = allZones \/ allZones' = [allZones EXCEPT ![Poller] = <<>>]
BY DEF Poll, PollTick, PollYields, PollGoesOn, PollAmp, PollReturns, PollFails, PollUpdates, PollOver,
       cacheVars, historyVars

LEMMA CacheKeeps ==
    ASSUME Typed, Next
    PROVE  CacheTyped'
<1>1. CASE KeypadPressed
  <2>1. PICK x \in Cells, v \in Values : AmpSets(x[1], x[2], v, "keypad")
    BY <1>1 DEF KeypadPressed
  <2>2. x[1] \in Zones /\ x[2] \in Attrs /\ v \in Value
    BY DEF Cells, Value
  <2> QED
    BY <1>1, <2>1, <2>2, AmpSetsTyped DEF KeypadPressed, Typed
<1>2. CASE GuardAges
  BY <1>2 DEF GuardAges, GuardExpires, Typed, CacheTyped, CacheTypeOK
<1>3. CASE ControlWritten
  <2>1. /\ Running \in Commands /\ Running.what = "control"
    BY <1>3, ServedIsCommand DEF ControlWritten, Answers, Typed, Queued
  <2>2. Running.zone \in Zones /\ Running.attr \in Attrs /\ Running.value \in Value
    BY <2>1, ControlsTyped
  <2>3. CASE Running.value \in Values
    BY <1>3, <2>2, <2>3, AmpSetsTyped DEF ControlWritten, Typed
  <2>4. CASE Running.value \notin Values
    BY <1>3, <2>4 DEF ControlWritten, Typed, CacheTyped, CacheTypeOK, cacheVars
  <2> QED
    BY <2>3, <2>4
<1>4. CASE PollYields \/ PollUpdates
  <2>1. allZones[Poller] \in Seq(Lines)
    BY DEF Typed, LinesTyped, Callers
  <2>2. amps' = amps /\ (Update(allZones[Poller]) \/ UNCHANGED <<zones, recentSets>>)
    BY <1>4 DEF PollYields, PollUpdates, cacheVars
  <2>3. CASE UNCHANGED <<zones, recentSets>>
    BY <2>2, <2>3 DEF Typed, CacheTyped, CacheTypeOK
  <2> QED
    BY <2>1, <2>2, <2>3, UpdateTyped DEF Typed
<1>5. ASSUME NEW c \in Requests, SetSent(c) PROVE CacheTyped'
  <2>1. Proper(req[c]) /\ req[c].what = "set"
    BY <1>5 DEF SetSent, Typed, CallersTyped, Orderly, Working
  <2> QED
    BY <1>5, <2>1, SetTyped DEF SetSent, Typed, Proper
<1>6. CASE UNCHANGED <<zones, recentSets, amps>>
  BY <1>6 DEF Typed, CacheTyped, CacheTypeOK
<1>7. Next => \/ KeypadPressed \/ GuardAges \/ ControlWritten \/ PollYields \/ PollUpdates
              \/ \E c \in Requests : SetSent(c)
              \/ UNCHANGED <<zones, recentSets, amps>>
  <2>1. QueueSteps => ControlWritten \/ UNCHANGED <<zones, recentSets, amps>>
    BY QueueLeaves
  <2>2. Connection => UNCHANGED <<zones, recentSets, amps>>
    BY ConnectionLeaves
  <2>3. \A c \in Requests : Request(c) => SetSent(c) \/ UNCHANGED <<zones, recentSets, amps>>
    BY RequestLeaves
  <2>4. Poll => PollYields \/ PollUpdates \/ UNCHANGED <<zones, recentSets, amps>>
    BY PollLeaves
  <2> QED
    BY <2>1, <2>2, <2>3, <2>4 DEF Next, QueueSteps, Connection
<1> QED
  BY <1>1, <1>2, <1>3, <1>4, <1>5, <1>6, <1>7

-----------------------------------------------------------------------------
(* Lines: whatever there is to read was there before, or is what an        *)
(* amplifier says of one of its zones now, or is an error.                 *)

Heard(l) ==
    \/ l = ErrorLine
    \/ \E i \in DOMAIN unread : l = unread[i]
    \/ \E z \in Zones : l = ZoneLine(z)
OnlyHeard(s) == s \in Seq(Spoken) /\ \A i \in 1..Len(s) : Heard(s[i])

LEMMA UnreadHeard ==
    ASSUME LinesTyped
    PROVE  OnlyHeard(unread)
BY DEF LinesTyped, OnlyHeard, Heard

LEMMA AnswerHeard ==
    ASSUME CacheTyped, NEW i \in 1..AmpCount
    PROVE  OnlyHeard(Answer(i)) /\ Len(Answer(i)) = ZonesPerAmp
<1>1. \A k \in 1..ZonesPerAmp : <<i, k>> \in Zones
  BY ZonesAssumption
<1>2. \A z \in Zones : ZoneLine(z) \in Spoken
  BY DEF ZoneLine, Spoken, Lines, CacheTyped
<1>3. Answer(i) \in [1..ZonesPerAmp -> Spoken]
  BY <1>1, <1>2 DEF Answer
<1>4. Answer(i) \in Seq(Spoken) /\ Len(Answer(i)) = ZonesPerAmp
  BY <1>3, BoundsAssumption
<1>5. \A k \in 1..ZonesPerAmp : Heard(Answer(i)[k])
  BY <1>1 DEF Answer, Heard
<1> QED
  BY <1>4, <1>5 DEF OnlyHeard

LEMMA PartHeard ==
    ASSUME NEW s, OnlyHeard(s), NEW m \in Nat \ {0}, NEW n \in Nat, n <= Len(s)
    PROVE  /\ OnlyHeard(SubSeq(s, m, n)) /\ Len(SubSeq(s, m, n)) = IF m <= n THEN n - m + 1 ELSE 0
           /\ \A i \in 1..n - m + 1 : SubSeq(s, m, n)[i] = s[m + i - 1]
<1> DEFINE t == SubSeq(s, m, n)
<1>1. s \in Seq(Spoken) /\ Len(s) \in Nat /\ \A i \in 1..Len(s) : s[i] \in Spoken /\ Heard(s[i])
  BY DEF OnlyHeard
<1>2. \A i \in m..n : s[i] \in Spoken /\ Heard(s[i])
  BY <1>1
<1>3. /\ t \in Seq(Spoken) /\ Len(t) = IF m <= n THEN n - m + 1 ELSE 0
      /\ \A i \in 1..n - m + 1 : t[i] = s[m + i - 1]
  BY <1>2, SubSeqProperties
<1> HIDE DEF t
<1>4. \A i \in 1..Len(t) : t[i] = s[m + i - 1] /\ m + i - 1 \in m..n
  BY <1>3
<1>5. \A i \in 1..Len(t) : Heard(t[i])
  BY <1>2, <1>4
<1> QED
  BY <1>3, <1>5 DEF OnlyHeard, t

LEMMA JoinedHeard ==
    ASSUME NEW s, NEW t, OnlyHeard(s), OnlyHeard(t)
    PROVE  OnlyHeard(s \o t) /\ Len(s \o t) = Len(s) + Len(t)
<1> DEFINE u == s \o t
<1>1. s \in Seq(Spoken) /\ t \in Seq(Spoken) /\ Len(s) \in Nat /\ Len(t) \in Nat
  BY DEF OnlyHeard
<1>2. /\ u \in Seq(Spoken) /\ Len(u) = Len(s) + Len(t)
      /\ \A i \in 1..Len(s) + Len(t) : u[i] = IF i <= Len(s) THEN s[i] ELSE t[i - Len(s)]
  BY <1>1, ConcatProperties
<1> HIDE DEF u
<1>3. ASSUME NEW i \in 1..Len(u)
      PROVE  \/ i \in 1..Len(s) /\ u[i] = s[i]
             \/ i - Len(s) \in 1..Len(t) /\ u[i] = t[i - Len(s)]
  <2>1. i \in 1..Len(s) + Len(t)
    BY <1>2
  <2> QED
    BY <1>1, <1>2, <2>1
<1>4. /\ \A i \in 1..Len(s) : Heard(s[i])
      /\ \A i \in 1..Len(t) : Heard(t[i])
  BY DEF OnlyHeard
<1>5. \A i \in 1..Len(u) : Heard(u[i])
  BY <1>3, <1>4
<1> QED
  BY <1>2, <1>5 DEF OnlyHeard, u

LEMMA TailHeard ==
    ASSUME NEW s, OnlyHeard(s), Len(s) > 0
    PROVE  OnlyHeard(Tail(s))
<1>1. s \in Seq(Spoken) /\ s # <<>> /\ Len(s) \in Nat
  BY DEF OnlyHeard
<1>2. Tail(s) = SubSeq(s, 2, Len(s))
  BY <1>1, TailIsSubSeq
<1>3. OnlyHeard(SubSeq(s, 2, Len(s)))
  BY <1>1, PartHeard
<1> QED
  BY <1>2, <1>3

(* What a query meets.                                                     *)
LEMMA StreamHeard ==
    ASSUME Typed, serving # <<>>, Running.what = "query", NEW n \in 0..ZonesPerAmp
    PROVE  OnlyHeard(Stream(n)) /\ Len(Stream(n)) = Len(unread) + n
<1>1. PICK i \in 1..AmpCount : Running.amp = i
  <2>1. Running \in Commands
    BY ServedIsCommand DEF Typed, Queued
  <2> QED
    BY <2>1 DEF Commands, Query, Control
<1>2. OnlyHeard(Answer(i)) /\ Len(Answer(i)) = ZonesPerAmp /\ n \in Nat /\ n <= ZonesPerAmp
  BY AnswerHeard, BoundsAssumption DEF Typed
<1>3. OnlyHeard(SubSeq(Answer(i), 1, n)) /\ Len(SubSeq(Answer(i), 1, n)) = n
  BY <1>2, PartHeard
<1>4. OnlyHeard(unread)
  BY UnreadHeard DEF Typed
<1> QED
  BY <1>1, <1>3, <1>4, JoinedHeard DEF Stream

LEMMA AfterHeard ==
    ASSUME NEW s, OnlyHeard(s), NEW k \in Nat
    PROVE  OnlyHeard(After(s, k))
<1>1. Len(s) \in Nat /\ Len(s) <= Len(s) /\ k + 1 \in Nat \ {0}
  BY DEF OnlyHeard
<1>2. \A m \in Nat \ {0}, n \in Nat : n <= Len(s) => OnlyHeard(SubSeq(s, m, n))
  BY PartHeard, Zenon
<1>3. OnlyHeard(SubSeq(s, k + 1, Len(s)))
  BY <1>1, <1>2, Zenon
<1> QED
  BY <1>3, Zenon DEF After

(* The answer of a query has lines of zones only.                          *)
LEMMA AnswerTaken ==
    ASSUME NEW s, OnlyHeard(s), Len(s) >= ZonesPerAmp, Errors(s) = {}
    PROVE  /\ SubSeq(s, 1, ZonesPerAmp) \in Seq(Lines)
           /\ \A i \in DOMAIN SubSeq(s, 1, ZonesPerAmp) : Heard(SubSeq(s, 1, ZonesPerAmp)[i])
<1> DEFINE t == SubSeq(s, 1, ZonesPerAmp)
<1>1. s \in Seq(Spoken) /\ Len(s) \in Nat /\ ZonesPerAmp \in Nat /\ ZonesPerAmp >= 1
  BY BoundsAssumption DEF OnlyHeard
<1>2. OnlyHeard(t) /\ Len(t) = ZonesPerAmp /\ \A i \in 1..ZonesPerAmp : t[i] = s[i]
  BY <1>1, PartHeard
<1>3. \A i \in 1..ZonesPerAmp : s[i] \in Lines
  <2> SUFFICES ASSUME NEW i \in 1..ZonesPerAmp PROVE s[i] \in Lines
    OBVIOUS
  <2>1. i \in DOMAIN s /\ s[i] \in Spoken
    BY <1>1
  <2>2. s[i].what # "error"
    BY <1>1, <2>1 DEF Errors
  <2> QED
    BY <2>1, <2>2 DEF Spoken, ErrorLine
<1>4. \A i \in 1..ZonesPerAmp : s[i] \in Lines
  BY <1>3
<1>5. t \in Seq(Lines)
  BY <1>1, <1>4, SubSeqProperties
<1> HIDE DEF t
<1>6. DOMAIN t = 1..Len(t)
  BY <1>5
<1> QED
  BY <1>2, <1>5, <1>6 DEF OnlyHeard, t

(* What is in the reader after a step is what could be heard before it.    *)
LEMMA ReaderHears ==
    ASSUME Typed, Next
    PROVE  OnlyHeard(unread')
<1>1. OnlyHeard(unread) /\ CacheTyped
  BY UnreadHeard DEF Typed
<1>2. OnlyHeard(Answer(1)) /\ Len(Answer(1)) > 0
  BY <1>1, AnswerHeard, BoundsAssumption
<1>3. CASE QueryAnswered
  <2>1. serving # <<>> /\ Running.what = "query"
    BY <1>3 DEF QueryAnswered, Answers
  <2>2. PICK n \in 0..ZonesPerAmp : unread' = After(Stream(n), ZonesPerAmp)
    BY <1>3 DEF QueryAnswered
  <2> QED
    BY <2>1, <2>2, StreamHeard, AfterHeard, BoundsAssumption
<1>4. CASE QueryMeetsError
  <2>1. serving # <<>> /\ Running.what = "query"
    BY <1>4 DEF QueryMeetsError, Answers
  <2>2. PICK n \in 0..ZonesPerAmp : \E k \in Errors(Stream(n)) : unread' = After(Stream(n), k)
    BY <1>4 DEF QueryMeetsError
  <2>3. OnlyHeard(Stream(n))
    BY <2>1, StreamHeard
  <2>4. \A k \in Errors(Stream(n)) : k \in Nat
    BY <2>3 DEF Errors, OnlyHeard
  <2> QED
    BY <2>2, <2>3, <2>4, AfterHeard
<1>5. CASE QueryTimesOut
  <2>1. PICK i \in 1..AmpCount : Running.amp = i
    <3>1. Running \in Commands /\ Running.what = "query"
      BY <1>5, ServedIsCommand DEF QueryTimesOut, Answers, Typed, Queued
    <3> QED
      BY <3>1 DEF Commands, Query, Control
  <2>2. PICK n \in 0..ZonesPerAmp-1 : \E m \in n..ZonesPerAmp : unread' = SubSeq(Answer(i), n + 1, m)
    BY <1>5, <2>1 DEF QueryTimesOut
  <2>3. PICK m \in n..ZonesPerAmp : unread' = SubSeq(Answer(i), n + 1, m)
    BY <2>2
  <2>4. n + 1 \in Nat \ {0} /\ m \in Nat /\ m <= ZonesPerAmp
    BY BoundsAssumption
  <2> QED
    BY <1>1, <2>3, <2>4, AnswerHeard, PartHeard
<1>6. CASE CommandFails
  <2>1. CASE unread' = unread
    BY <1>1, <2>1
  <2>2. CASE unread' # unread
    <3>1. serving # <<>> /\ Running.what = "query"
      BY <1>6, <2>2 DEF CommandFails, Answers
    <3>2. PICK k \in 0..ZonesPerAmp-1 : unread' = After(Stream(ZonesPerAmp), k)
      BY <1>6, <2>2 DEF CommandFails
    <3>3. ZonesPerAmp \in 0..ZonesPerAmp /\ k \in Nat
      BY BoundsAssumption
    <3> QED
      BY <3>1, <3>2, <3>3, StreamHeard, AfterHeard
  <2> QED
    BY <2>1, <2>2
<1>7. CASE ControlWritten
  <2>1. unread' = unread \/ unread' = Append(unread, ErrorLine)
    BY <1>7 DEF ControlWritten
  <2>2. OnlyHeard(Append(unread, ErrorLine))
    <3>1. unread \in Seq(Spoken) /\ ErrorLine \in Spoken /\ Len(unread) \in Nat
      BY <1>1 DEF OnlyHeard, Spoken
    <3>2. /\ Append(unread, ErrorLine) \in Seq(Spoken)
          /\ Len(Append(unread, ErrorLine)) = Len(unread) + 1
          /\ \A i \in 1..Len(unread) + 1 :
               Append(unread, ErrorLine)[i] = IF i <= Len(unread) THEN unread[i] ELSE ErrorLine
      BY <3>1
    <3> QED
      BY <1>1, <3>1, <3>2 DEF OnlyHeard, Heard
  <2> QED
    BY <1>1, <2>1, <2>2
<1>8. CASE Connection
  <2>1. CASE AmpFound
    BY <1>2, <2>1, TailHeard DEF AmpFound
  <2>2. CASE StepVerified
    <3>1. OnlyHeard(unread \o Answer(1)) /\ Len(unread \o Answer(1)) > 0
      <4>1. Len(unread) \in Nat /\ Len(Answer(1)) \in Nat
        BY <1>1, <1>2 DEF OnlyHeard
      <4> QED
        BY <1>1, <1>2, <4>1, JoinedHeard
    <3>2. unread' = Tail(unread \o Answer(1)) \/ unread' = Tail(Answer(1))
      BY <2>2 DEF StepVerified
    <3> QED
      BY <1>2, <3>1, <3>2, TailHeard
  <2>3. CASE ConnectionLost \/ QueueStopped \/ StepFails \/ ConnectionBack
    <3>1. unread' = unread
      BY <2>3 DEF ConnectionLost, QueueStopped, StepFails, ConnectionBack
    <3> QED
      BY <1>1, <3>1
  <2> QED
    BY <1>8, <2>1, <2>2, <2>3 DEF Connection
<1>9. CASE KeypadPressed \/ GuardAges \/ Serve \/ CommandRefused \/ Poll \/ \E c \in Requests : Request(c)
  <2>1. unread' = unread
    BY <1>9, PollLeaves, RequestLeaves DEF KeypadPressed, GuardAges, Serve, CommandRefused
  <2> QED
    BY <1>1, <2>1
<1> QED
  BY <1>3, <1>4, <1>5, <1>6, <1>7, <1>8, <1>9 DEF Next, Connection

(* So it is with what a caller has read.                                   *)
LEMMA CallersHear ==
    ASSUME Typed, Next
    PROVE  \E c \in Callers :
             \/ allZones' = allZones
             \/ allZones' = [allZones EXCEPT ![c] = <<>>]
             \/ \E t \in Seq(Lines) : /\ \A i \in DOMAIN t : Heard(t[i])
                                      /\ allZones' = [allZones EXCEPT ![c] = @ \o t]
<1>1. CASE QueryAnswered
  <2>1. serving # <<>> /\ Running.what = "query"
    BY <1>1 DEF QueryAnswered, Answers
  <2>2. Owner \in Callers \cup {Nobody} /\ Poller \in Callers
    BY <2>1, ServedIsCommand DEF Typed, Queued, Callers
  <2>3. CASE Owner = Nobody
    BY <1>1, <2>2, <2>3 DEF QueryAnswered
  <2>4. CASE Owner # Nobody
    <3>1. PICK n \in 0..ZonesPerAmp :
            /\ Len(Stream(n)) >= ZonesPerAmp
            /\ Errors(Stream(n)) = {}
            /\ allZones' = [allZones EXCEPT ![Owner] = @ \o SubSeq(Stream(n), 1, ZonesPerAmp)]
      BY <1>1, <2>4 DEF QueryAnswered
    <3> DEFINE t == SubSeq(Stream(n), 1, ZonesPerAmp)
    <3>2. t \in Seq(Lines) /\ \A i \in DOMAIN t : Heard(t[i])
      BY <2>1, <3>1, StreamHeard, AnswerTaken
    <3>3. allZones' = [allZones EXCEPT ![Owner] = @ \o t]
      BY <3>1
    <3> HIDE DEF t
    <3> QED
      BY <2>2, <2>4, <3>2, <3>3
  <2> QED
    BY <2>3, <2>4
<1>2. CASE ~QueryAnswered
  <2>1. QueueSteps \/ Connection \/ KeypadPressed \/ GuardAges => allZones' = allZones
    BY <1>2, QueueLeaves, ConnectionLeaves DEF KeypadPressed, GuardAges, callerVars
  <2>2. \A c \in Requests : Request(c) =>
          c \in Callers /\ (allZones' = allZones \/ allZones' = [allZones EXCEPT ![c] = <<>>])
    BY RequestLeaves DEF Callers
  <2>3. Poll => allZones' = allZones \/ allZones' = [allZones EXCEPT ![Poller] = <<>>]
    BY PollLeaves
  <2>4. Poller \in Callers
    BY DEF Callers
  <2> QED
    BY <2>1, <2>2, <2>3, <2>4 DEF Next, QueueSteps, Connection
<1> QED
  BY <1>1, <1>2

LEMMA LinesKeep ==
    ASSUME Typed, Next
    PROVE  LinesTyped'
<1>1. unread' \in Seq(Spoken)
  BY ReaderHears DEF OnlyHeard
<1>2. allZones' \in [Callers -> Seq(Lines)]
  <2>1. PICK c \in Callers :
             \/ allZones' = allZones
             \/ allZones' = [allZones EXCEPT ![c] = <<>>]
             \/ \E t \in Seq(Lines) : /\ \A i \in DOMAIN t : Heard(t[i])
                                      /\ allZones' = [allZones EXCEPT ![c] = @ \o t]
    BY CallersHear
  <2>2. allZones \in [Callers -> Seq(Lines)] /\ allZones[c] \in Seq(Lines) /\ <<>> \in Seq(Lines)
    BY DEF Typed, LinesTyped
  <2>3. ASSUME NEW s \in Seq(Lines), allZones' = [allZones EXCEPT ![c] = s]
        PROVE  allZones' \in [Callers -> Seq(Lines)]
    BY <2>2, <2>3
  <2>4. ASSUME NEW t \in Seq(Lines), allZones' = [allZones EXCEPT ![c] = @ \o t]
        PROVE  allZones' \in [Callers -> Seq(Lines)]
    <3>1. allZones[c] \o t \in Seq(Lines)
      BY <2>2, ConcatProperties
    <3>2. allZones' = [allZones EXCEPT ![c] = allZones[c] \o t]
      BY <2>4
    <3> QED
      BY <2>3, <3>1, <3>2
  <2>5. allZones' = [allZones EXCEPT ![c] = <<>>] => allZones' \in [Callers -> Seq(Lines)]
    BY <2>2, <2>3
  <2>6. allZones' = allZones => allZones' \in [Callers -> Seq(Lines)]
    BY <2>2
  <2> QED
    BY <2>1, <2>4, <2>5, <2>6, Zenon
<1> QED
  BY <1>1, <1>2 DEF LinesTyped, Spoken, Lines, ErrorLine

-----------------------------------------------------------------------------
(* Where the callers are.                                                  *)

(* One caller has moved; what it asks for is as its new place wants it.    *)
LEMMA OneMoves ==
    ASSUME CallersTyped, NEW c \in Callers, NEW p \in Places, at' = [at EXCEPT ![c] = p],
           ampId' \in [Callers -> 1..AmpCount], \A d \in Callers \ {c} : ampId'[d] = ampId[d],
           DOMAIN req' = Requests, \A d \in Requests \ {c} : req'[d] = req[d],
           c \in Requests => Orderly(c)',
           c = Poller => p \in {"idle", "next", "go", "sent", "read"}
    PROVE  CallersTyped'
<1>1. at' \in [Callers -> Places] /\ at'[c] = p
  BY DEF CallersTyped
<1>2. ASSUME NEW d \in Requests, d # c PROVE Orderly(d)'
  BY <1>2 DEF CallersTyped, Orderly, Isset, Callers
<1>3. at'[Poller] \in {"idle", "next", "go", "sent", "read"}
  BY <1>1, RequestsAssumption DEF CallersTyped, Callers
<1>4. (\A d \in Requests : Orderly(d))'
  BY <1>2 DEF Orderly, Isset
<1> QED
  BY <1>1, <1>3, <1>4 DEF CallersTyped

LEMMA ValidZones ==
    ASSUME NEW z \in ZoneInputs, ValidZoneID(z)
    PROVE  z \in Zones
<1>1. z = <<z[1], z[2]>>
  BY InputsAssumption
<1> QED
  BY <1>1, ZonesAssumption DEF ValidZoneID

LEMMA RequestAccepted ==
    ASSUME CallersTyped, NEW c \in Requests, PostAttribute(c) \/ GetZone(c) \/ GetZones(c)
    PROVE  CallersTyped'
<1> USE DEF Accepts, Ends
<1>1. PICK q : /\ req' = [req EXCEPT ![c] = q] /\ q.what \in {"set", "zones", "zone"}
               /\ \/ at' = [at EXCEPT ![c] = "done"]
                  \/ at' = [at EXCEPT ![c] = "checked"] /\ Proper(q)
  <2>1. CASE PostAttribute(c)
    <3>1. PICK z \in ZoneInputs, a \in AttrInputs, v \in Values \cup Refused :
            /\ Accepts(c, Asked("set", TRUE, z, a, v))
            /\ IF ~ValidZoneID(z) \/ ~ResolveAttribute(a) THEN Ends(c, 400, None)
               ELSE IF conn # "ready" THEN Ends(c, 503, None)
               ELSE at' = [at EXCEPT ![c] = "checked"] /\ UNCHANGED resp
      BY <2>1 DEF PostAttribute
    <3>5. \/ at' = [at EXCEPT ![c] = "done"]
          \/ at' = [at EXCEPT ![c] = "checked"] /\ ValidZoneID(z) /\ ResolveAttribute(a)
      BY <3>1, Zenon
    <3>2. ValidZoneID(z) /\ ResolveAttribute(a) => z \in Zones /\ a \in Attrs
      BY ValidZones DEF ResolveAttribute
    <3>3. v \in Value
      BY DEF Value
    <3> DEFINE q == Asked("set", TRUE, z, a, v)
    <3>4. q.what = "set" /\ (z \in Zones /\ a \in Attrs => Proper(q))
      BY <3>3 DEF Asked, Proper
    <3> QED
      BY <3>1, <3>2, <3>4, <3>5
  <2>2. CASE GetZone(c)
    <3>1. PICK z \in ZoneInputs, a \in AttrInputs, live \in BOOLEAN :
            /\ Accepts(c, Asked("zone", live, z, a, None))
            /\ IF ~ValidZoneID(z) \/ ~ResolveAttribute(a) THEN Ends(c, 400, None)
               ELSE IF live /\ conn = "ready" THEN at' = [at EXCEPT ![c] = "checked"] /\ UNCHANGED resp
               ELSE IF live THEN Ends(c, 503, None)
               ELSE IF ~Cached(z) THEN Ends(c, 404, None)
               ELSE Ends(c, 200, GetAttribute(zones[z], a))
      BY <2>2 DEF GetZone
    <3>2. \/ at' = [at EXCEPT ![c] = "done"]
          \/ at' = [at EXCEPT ![c] = "checked"] /\ ValidZoneID(z) /\ ResolveAttribute(a)
      BY <3>1, Zenon
    <3>3. ValidZoneID(z) /\ ResolveAttribute(a) => z \in Zones /\ a \in Attrs
      BY ValidZones DEF ResolveAttribute
    <3> DEFINE q == Asked("zone", live, z, a, None)
    <3>4. q.what = "zone" /\ (z \in Zones /\ a \in Attrs => Proper(q))
      BY DEF Asked, Proper
    <3> QED
      BY <3>1, <3>2, <3>3, <3>4
  <2>3. CASE GetZones(c)
    <3>1. PICK live \in BOOLEAN :
            /\ Accepts(c, Asked("zones", live, None, None, None))
            /\ IF live /\ conn = "ready" THEN at' = [at EXCEPT ![c] = "checked"] /\ UNCHANGED resp
               ELSE IF live THEN Ends(c, 503, None)
               ELSE Ends(c, 200, None)
      BY <2>3 DEF GetZones
    <3>2. at' = [at EXCEPT ![c] = "done"] \/ at' = [at EXCEPT ![c] = "checked"]
      BY <3>1, Zenon
    <3> DEFINE q == Asked("zones", live, None, None, None)
    <3>3. q.what = "zones" /\ Proper(q)
      BY DEF Asked, Proper
    <3> QED
      BY <3>1, <3>2, <3>3
  <2> QED
    BY <2>1, <2>2, <2>3
<1>2. ampId' = ampId /\ c \in Callers /\ c # Poller
  BY RequestsAssumption DEF PostAttribute, GetZone, GetZones, Asking, Callers
<1>3. DOMAIN req' = Requests /\ req'[c] = q /\ \A d \in Requests \ {c} : req'[d] = req[d]
  BY <1>1 DEF CallersTyped
<1>4. \/ at'[c] = "done"
      \/ at'[c] = "checked" /\ Proper(q)
  BY <1>1, <1>2 DEF CallersTyped
<1>5. Orderly(c)'
  BY <1>1, <1>3, <1>4 DEF Orderly, Isset, Working, Proper
<1>6. at' = [at EXCEPT ![c] = "done"] \/ at' = [at EXCEPT ![c] = "checked"]
  BY <1>1
<1> QED
  BY <1>2, <1>3, <1>5, <1>6, OneMoves DEF CallersTyped, Places, Ending

(* A request has come to its end, with whatever answer.                    *)
LEMMA RequestEnds ==
    ASSUME CallersTyped, NEW c \in Requests, at[c] \in {"checked", "failed", "stopping"} \cup Working,
           NEW p \in Ending, at' = [at EXCEPT ![c] = p], req' = req,
           ampId' = ampId \/ ampId' = [ampId EXCEPT ![c] = 1]
    PROVE  CallersTyped'
<1>1. c \in Callers /\ c # Poller
  BY RequestsAssumption DEF Callers
<1>2. /\ ampId' \in [Callers -> 1..AmpCount]
      /\ \A d \in Callers \ {c} : ampId'[d] = ampId[d]
  BY <1>1, BoundsAssumption DEF CallersTyped
<1>3. at'[c] = p /\ Proper(req[c])
  BY <1>1 DEF CallersTyped, Orderly
<1>4. Orderly(c)'
  BY <1>3 DEF Orderly, Proper, Working, Ending
<1>5. p \in Places
  BY DEF Places
<1> QED
  BY <1>1, <1>2, <1>4, <1>5, OneMoves DEF CallersTyped

LEMMA RequestMoves ==
    ASSUME CallersTyped, NEW c \in Requests,
           \/ BodyUnreadable(c) \/ Handler(c) \/ ClientLeaves(c) \/ RecordCommandError(c) \/ StopEnds(c)
    PROVE  CallersTyped'
<1>1. c \in Callers /\ c # Poller
  BY RequestsAssumption DEF Callers
<1>2. Orderly(c) /\ req' = req /\ DOMAIN req = Requests
  BY DEF CallersTyped, BodyUnreadable, Handler, Controller, RequestFails, ClientLeaves, SetSent, SetResponds,
         QueryReturns, NextAmp, QueryResponds, RecordCommandError, StopEnds
<1>3. CASE Controller(c)
  <2>1. CASE conn = "ready"
    <3> DEFINE first == IF req[c].what = "zone" THEN AmpIDForZone(req[c].zone) ELSE 1
    <3>1. at[c] = "checked" /\ at' = [at EXCEPT ![c] = "sent"] /\ ampId' = [ampId EXCEPT ![c] = first]
      BY <1>3, <2>1 DEF Controller
    <3>2. Proper(req[c])
      BY <1>2, <3>1 DEF Orderly
    <3>3. first \in 1..AmpCount
      BY <3>2, ZonesAssumption, BoundsAssumption DEF Proper, AmpIDForZone
    <3> HIDE DEF first
    <3>4. ampId' \in [Callers -> 1..AmpCount] /\ \A d \in Callers \ {c} : ampId'[d] = ampId[d]
      BY <1>1, <3>1, <3>3 DEF CallersTyped
    <3>5. Orderly(c)'
      BY <1>1, <1>2, <3>1, <3>2 DEF CallersTyped, Orderly
    <3> QED
      BY <1>1, <1>2, <3>1, <3>4, <3>5, OneMoves DEF Places, Working
  <2>2. CASE conn # "ready"
    <3>1. at[c] = "checked" /\ at' = [at EXCEPT ![c] = "done"] /\ ampId' = ampId
      BY <1>3, <2>2 DEF Controller, Ends
    <3> QED
      BY <1>2, <3>1, RequestEnds DEF Ending
  <2> QED
    BY <2>1, <2>2
<1>4. CASE \/ BodyUnreadable(c) \/ RequestFails(c) \/ ClientLeaves(c) \/ SetResponds(c) \/ QueryResponds(c)
           \/ RecordCommandError(c) \/ StopEnds(c)
  <2>1. /\ at[c] \in {"checked", "failed", "stopping"} \cup Working
        /\ \E p \in Ending : at' = [at EXCEPT ![c] = p]
        /\ ampId' = ampId \/ ampId' = [ampId EXCEPT ![c] = 1]
    BY <1>4 DEF BodyUnreadable, RequestFails, ClientLeaves, SetResponds, QueryResponds, RecordCommandError,
                StopEnds, Fails, Returns, Ends, Working, Ending
  <2> QED
    BY <1>2, <2>1, RequestEnds
<1>5. CASE SetSent(c)
  <2>1. at[c] = "sent" /\ at' = [at EXCEPT ![c] = "set"] /\ ampId' = ampId /\ Isset(c)
    BY <1>5 DEF SetSent, Isset
  <2>2. Orderly(c)'
    BY <1>1, <1>2, <2>1 DEF CallersTyped, Orderly, Isset, Working
  <2> QED
    BY <1>1, <1>2, <2>1, <2>2, OneMoves DEF CallersTyped, Places, Working
<1>6. CASE QueryReturns(c)
  <2>1. PICK p \in {"next", "read"} :
          /\ at' = [at EXCEPT ![c] = p]
          /\ p = "next" => ampId[c] < AmpCount
    BY <1>6 DEF QueryReturns
  <2>2. at[c] = "sent" /\ ampId' = ampId /\ ~Isset(c)
    BY <1>6 DEF QueryReturns, Isset
  <2>3. Orderly(c)'
    BY <1>1, <1>2, <2>1, <2>2 DEF CallersTyped, Orderly, Isset, Working
  <2> QED
    BY <1>1, <1>2, <2>1, <2>2, <2>3, OneMoves DEF CallersTyped, Places, Working
<1>7. CASE NextAmp(c)
  <2>1. at[c] = "next" /\ at' = [at EXCEPT ![c] = "sent"] /\ ampId' = [ampId EXCEPT ![c] = @ + 1]
    BY <1>7 DEF NextAmp
  <2>2. ampId[c] + 1 \in 1..AmpCount
    BY <1>1, <1>2, <2>1, BoundsAssumption DEF CallersTyped, Orderly
  <2>3. ampId' \in [Callers -> 1..AmpCount] /\ \A d \in Callers \ {c} : ampId'[d] = ampId[d]
    BY <1>1, <2>1, <2>2 DEF CallersTyped
  <2>4. Orderly(c)'
    BY <1>1, <1>2, <2>1 DEF CallersTyped, Orderly, Isset, Working
  <2> QED
    BY <1>1, <1>2, <2>1, <2>3, <2>4, OneMoves DEF Places, Working
<1> QED
  BY <1>3, <1>4, <1>5, <1>6, <1>7 DEF Handler

LEMMA PollMoves ==
    ASSUME CallersTyped, Poll
    PROVE  CallersTyped'
<1>1. Poller \in Callers /\ Poller \notin Requests
  BY RequestsAssumption DEF Callers
<1>2. req' = req /\ DOMAIN req = Requests
  BY DEF CallersTyped, Poll, PollTick, PollYields, PollGoesOn, PollAmp, PollReturns, PollFails, PollUpdates
<1>3. PICK p \in {"idle", "next", "go", "sent", "read"} : at' = [at EXCEPT ![Poller] = p]
  BY DEF Poll, PollTick, PollYields, PollGoesOn, PollAmp, PollReturns, PollFails, PollUpdates, PollOver
<1>4. \/ ampId' = ampId
      \/ ampId' = [ampId EXCEPT ![Poller] = 1]
      \/ ampId' = [ampId EXCEPT ![Poller] = IF @ < AmpCount THEN @ + 1 ELSE @]
  BY DEF Poll, PollTick, PollYields, PollGoesOn, PollAmp, PollReturns, PollFails, PollUpdates, PollOver
<1>5. ampId[Poller] \in 1..AmpCount
  BY <1>1 DEF CallersTyped
<1>6. 1 \in 1..AmpCount /\ (ampId[Poller] < AmpCount => ampId[Poller] + 1 \in 1..AmpCount)
  BY <1>5, BoundsAssumption
<1>7. ampId' \in [Callers -> 1..AmpCount] /\ \A d \in Callers \ {Poller} : ampId'[d] = ampId[d]
  BY <1>1, <1>4, <1>5, <1>6 DEF CallersTyped
<1> QED
  BY <1>1, <1>2, <1>3, <1>7, OneMoves DEF Places, Working

LEMMA CallersKeep ==
    ASSUME Typed, Next
    PROVE  CallersTyped'
<1>1. CASE KeypadPressed \/ GuardAges \/ QueueSteps \/ Connection
  <2>1. UNCHANGED <<at, req, ampId>>
    BY <1>1, QueueLeaves, ConnectionLeaves DEF KeypadPressed, GuardAges, callerVars
  <2>2. (\A c \in Requests : Orderly(c))'
    BY <2>1 DEF Typed, CallersTyped, Orderly, Isset
  <2> QED
    BY <2>1, <2>2 DEF Typed, CallersTyped
<1>2. ASSUME NEW c \in Requests, Request(c) PROVE CallersTyped'
  BY <1>2, RequestAccepted, RequestMoves DEF Typed, Request
<1> QED
  BY <1>1, <1>2, PollMoves DEF Typed, Next, QueueSteps, Connection

-----------------------------------------------------------------------------
(* The rest of the types.                                                  *)

LEMMA ResponsesTouched ==
    ASSUME Next
    PROVE  \/ UNCHANGED resp
           \/ \E c \in Requests, status \in Statuses : \E v :
                resp' = [resp EXCEPT ![c] = [status |-> status, value |-> v]]
<1>1. ASSUME NEW c \in Requests, PostAttribute(c) \/ BodyUnreadable(c) \/ Controller(c)
      PROVE  UNCHANGED resp \/ \E status \in Statuses : \E v : Ends(c, status, v)
  <2>1. Ends(c, 400, None) \/ Ends(c, 503, None) \/ UNCHANGED resp
    BY <1>1 DEF PostAttribute, BodyUnreadable, Controller
  <2> QED
    BY <2>1 DEF Statuses
<1>2. ASSUME NEW c \in Requests, SetResponds(c) \/ QueryResponds(c)
      PROVE  \E status \in Statuses : \E v : Ends(c, status, v)
  BY <1>2 DEF SetResponds, QueryResponds, Returns, Statuses
<1>3. ASSUME NEW c \in Requests, GetZone(c)
      PROVE  UNCHANGED resp \/ \E status \in Statuses : \E v : Ends(c, status, v)
  <2>1. PICK z \in ZoneInputs, a \in AttrInputs, live \in BOOLEAN :
          IF ~ValidZoneID(z) \/ ~ResolveAttribute(a) THEN Ends(c, 400, None)
          ELSE IF live /\ conn = "ready" THEN at' = [at EXCEPT ![c] = "checked"] /\ UNCHANGED resp
          ELSE IF live THEN Ends(c, 503, None)
          ELSE IF ~Cached(z) THEN Ends(c, 404, None)
          ELSE Ends(c, 200, GetAttribute(zones[z], a))
    BY <1>3 DEF GetZone
  <2>2. \/ Ends(c, 400, None) \/ Ends(c, 503, None) \/ Ends(c, 404, None) \/ UNCHANGED resp
        \/ Ends(c, 200, GetAttribute(zones[z], a))
    BY <2>1, Zenon
  <2> QED
    BY <2>2 DEF Statuses
<1>4. ASSUME NEW c \in Requests, GetZones(c)
      PROVE  UNCHANGED resp \/ \E status \in Statuses : \E v : Ends(c, status, v)
  <2>1. PICK live \in BOOLEAN :
          IF live /\ conn = "ready" THEN at' = [at EXCEPT ![c] = "checked"] /\ UNCHANGED resp
          ELSE IF live THEN Ends(c, 503, None)
          ELSE Ends(c, 200, None)
    BY <1>4 DEF GetZones
  <2>2. Ends(c, 503, None) \/ Ends(c, 200, None) \/ UNCHANGED resp
    BY <2>1, Zenon
  <2> QED
    BY <2>2 DEF Statuses
<1>5. ASSUME NEW c \in Requests, RequestFails(c) \/ ClientLeaves(c)
      PROVE  \E status \in Statuses : resp' = [resp EXCEPT ![c] = [status |-> status, value |-> None]]
  <2>1. Status(answered[c]) \in Statuses
    BY DEF Status, Statuses
  <2> QED
    BY <1>5, <2>1 DEF RequestFails, ClientLeaves, Fails, Statuses
<1>6. ASSUME NEW c \in Requests,
             SetSent(c) \/ QueryReturns(c) \/ NextAmp(c) \/ RecordCommandError(c) \/ StopEnds(c)
      PROVE  UNCHANGED resp
  BY <1>6 DEF SetSent, QueryReturns, NextAmp, RecordCommandError, StopEnds
<1>7. KeypadPressed \/ GuardAges \/ QueueSteps \/ Connection \/ Poll => UNCHANGED resp
  BY QueueLeaves, ConnectionLeaves, PollLeaves DEF KeypadPressed, GuardAges, callerVars
<1>8. ASSUME NEW c \in Requests, NEW status \in Statuses, NEW v, Ends(c, status, v)
      PROVE  resp' = [resp EXCEPT ![c] = [status |-> status, value |-> v]]
  BY <1>8 DEF Ends
<1>9. ASSUME NEW c \in Requests, Request(c)
      PROVE  \/ UNCHANGED resp
             \/ \E status \in Statuses : \E v : resp' = [resp EXCEPT ![c] = [status |-> status, value |-> v]]
  BY <1>1, <1>2, <1>3, <1>4, <1>5, <1>6, <1>8, <1>9 DEF Request, Handler
<1> QED
  BY <1>7, <1>9 DEF Next, QueueSteps, Connection

LEMMA ResponsesKeep ==
    ASSUME ResponsesTyped, Next
    PROVE  ResponsesTyped'
<1>1. ASSUME NEW c \in Requests, NEW status \in Statuses, NEW v,
             resp' = [resp EXCEPT ![c] = [status |-> status, value |-> v]]
      PROVE  ResponsesTyped'
  BY <1>1 DEF ResponsesTyped
<1>2. CASE UNCHANGED resp
  BY <1>2 DEF ResponsesTyped
<1> QED
  BY <1>1, <1>2, ResponsesTouched

LEMMA EventsCounted ==
    ASSUME Next
    PROVE  UNCHANGED events \/ Event
<1>1. ASSUME NEW c \in Requests, Request(c)
      PROVE  UNCHANGED events \/ Event
  BY <1>1 DEF Request, PostAttribute, BodyUnreadable, GetZone, GetZones, Handler, ClientLeaves,
              RecordCommandError, StopEnds, Controller, RequestFails, SetSent, SetResponds, QueryReturns,
              NextAmp, QueryResponds, Asking
<1>2. KeypadPressed \/ GuardAges \/ Connection \/ Poll => UNCHANGED events \/ Event
  BY DEF KeypadPressed, GuardAges, Connection, ConnectionLost, QueueStopped, AmpFound, StepVerified, StepFails,
         ConnectionBack, Poll, PollTick, PollYields, PollGoesOn, PollAmp, PollReturns, PollFails, PollUpdates
<1>3. QueueSteps => UNCHANGED events \/ Event
  BY DEF QueueSteps, Serve, QueryAnswered, QueryMeetsError, QueryTimesOut, ControlWritten, CommandFails,
         CommandRefused, Comes, Stopping
<1> QED
  BY <1>1, <1>2, <1>3 DEF Next, QueueSteps, Connection

LEMMA BoundsKeep ==
    ASSUME BoundsTyped, Next
    PROVE  BoundsTyped'
BY EventsCounted, BoundsAssumption DEF Event, BoundsTyped

LEMMA ConnKeeps ==
    ASSUME conn \in States, Next
    PROVE  conn' \in States
<1>1. ASSUME NEW c \in Requests, Request(c)
      PROVE  UNCHANGED conn \/ conn' = "recovering"
  BY <1>1 DEF Request, PostAttribute, BodyUnreadable, GetZone, GetZones, Handler, ClientLeaves,
              RecordCommandError, StopEnds, Controller, RequestFails, SetSent, SetResponds, QueryReturns,
              NextAmp, QueryResponds, Asking
<1>2. KeypadPressed \/ GuardAges \/ QueueSteps \/ Poll => UNCHANGED conn
  BY QueueLeaves, PollLeaves DEF KeypadPressed, GuardAges
<1>3. Connection => conn' \in States
  BY DEF Connection, ConnectionLost, QueueStopped, AmpFound, StepVerified, StepFails, ConnectionBack, States
<1> QED
  BY <1>1, <1>2, <1>3 DEF Next, QueueSteps, Connection, States

-----------------------------------------------------------------------------
(* The queue, whoever takes the step.                                      *)

LEMMA QueueServes ==
    ASSUME Queued, QueueSteps
    PROVE  Queued'
BY QueueLeaves, ServeQueued, CompleteQueued, RefuseQueued

LEMMA RequestQueues ==
    ASSUME Typed, NEW c \in Requests,
           \/ BodyUnreadable(c) \/ Handler(c) \/ ClientLeaves(c) \/ RecordCommandError(c) \/ StopEnds(c)
    PROVE  Queued'
<1>1. Queued /\ CallersTyped /\ at \in [Callers -> Places] /\ c \in Callers /\ c # Poller
  BY RequestsAssumption DEF Typed, CallersTyped, Callers
<1>2. CASE Controller(c) /\ conn = "ready"
  <2> DEFINE first == IF req[c].what = "zone" THEN AmpIDForZone(req[c].zone) ELSE 1
             k == IF req[c].what = "set" THEN Control(req[c].zone, req[c].attr, req[c].value)
                  ELSE Query(first)
  <2>1. /\ Enqueue(c, k) /\ at' = [at EXCEPT ![c] = "sent"] /\ UNCHANGED <<req, excused>>
    BY <1>2 DEF Controller, historyVars
  <2>2. Matches(c, k)
    BY <1>1 DEF Matches, Isset, Query
  <2> HIDE DEF k
  <2> QED
    BY <1>1, <2>1, <2>2, EnqueueQueued
<1>3. CASE Controller(c) /\ conn # "ready"
  BY <1>1, <1>3, QueueAlone DEF Controller, Ends, CallersTyped, historyVars
<1>4. CASE NextAmp(c)
  <2>1. ~Isset(c)
    BY <1>1, <1>4 DEF NextAmp, CallersTyped, Orderly
  <2>2. Matches(c, Query(ampId[c] + 1))
    BY <1>1, <2>1 DEF Matches, Query
  <2> QED
    BY <1>1, <1>4, <2>2, EnqueueQueued DEF NextAmp, historyVars
<1>5. CASE \/ BodyUnreadable(c) \/ SetResponds(c) \/ QueryResponds(c)
           \/ RecordCommandError(c) \/ StopEnds(c)
  <2>1. /\ UNCHANGED queueVars /\ req' = req /\ excused' = excused
        /\ at[c] # "sent" /\ \E p \in Ending : at' = [at EXCEPT ![c] = p]
    BY <1>5 DEF BodyUnreadable, SetResponds, QueryResponds, RecordCommandError, StopEnds, Returns, Ends, Ending,
                historyVars
  <2>2. \A d \in Callers : (at[d] = "sent") <=> (at'[d] = "sent")
    BY <1>1, <2>1 DEF CallersTyped, Ending
  <2> QED
    BY <1>1, <2>1, <2>2, QueueAlone
<1>6. CASE RequestFails(c) \/ ClientLeaves(c) \/ SetSent(c) \/ QueryReturns(c)
  <2>1. /\ at[c] = "sent" /\ Queue!Leave(c) /\ req' = req /\ excused \subseteq excused'
    BY <1>6 DEF RequestFails, ClientLeaves, SetSent, QueryReturns, Fails, historyVars
  <2>2. PICK p \in Places \ {"sent"} : at' = [at EXCEPT ![c] = p]
    BY <1>6 DEF RequestFails, ClientLeaves, SetSent, QueryReturns, Fails, Places, Working, Ending
  <2>3. ASSUME answered[c] = "none", Isset(c) PROVE <<req[c].zone, req[c].attr>> \in excused'
    <3>1. ClientLeaves(c)
      BY <1>6, <2>3 DEF RequestFails, SetSent, QueryReturns
    <3>2. req[c].zone \in Zones /\ req[c].attr \in Attrs
      BY <1>1, <2>1, <2>3 DEF CallersTyped, Orderly, Proper, Working, Isset
    <3> QED
      BY <2>3, <3>1, <3>2 DEF ClientLeaves, Isset, Cells
  <2> QED
    BY <1>1, <2>1, <2>2, <2>3, LeaveQueued
<1> QED
  BY <1>2, <1>3, <1>4, <1>5, <1>6 DEF Handler

LEMMA PollQueues ==
    ASSUME Typed, Poll
    PROVE  Queued'
<1>1. Queued /\ CallersTyped /\ at \in [Callers -> Places] /\ Poller \in Callers
  BY DEF Typed, CallersTyped, Callers
<1>2. req' = req /\ excused' = excused
  BY DEF Poll, PollTick, PollYields, PollGoesOn, PollAmp, PollReturns, PollFails, PollUpdates, historyVars
<1>3. CASE PollTick \/ PollYields \/ PollGoesOn \/ PollUpdates
  <2>1. UNCHANGED queueVars
    BY <1>3 DEF PollTick, PollYields, PollGoesOn, PollUpdates
  <2>2. PICK p \in Places \ {"sent"} : at' = [at EXCEPT ![Poller] = p]
    BY <1>3 DEF PollTick, PollYields, PollGoesOn, PollUpdates, PollOver, Places, Working
  <2>3. at[Poller] # "sent"
    BY <1>3 DEF PollTick, PollYields, PollGoesOn, PollUpdates
  <2>4. \A d \in Callers : (at[d] = "sent") <=> (at'[d] = "sent")
    BY <1>1, <2>2, <2>3
  <2> QED
    BY <1>1, <1>2, <2>1, <2>4, QueueAlone
<1>4. CASE PollAmp
  <2>1. Matches(Poller, Query(ampId[Poller]))
    BY DEF Matches, Query
  <2> QED
    BY <1>1, <1>2, <1>4, <2>1, EnqueueQueued DEF PollAmp
<1>5. CASE PollReturns \/ PollFails
  <2>1. at[Poller] = "sent" /\ Queue!Leave(Poller)
    BY <1>5 DEF PollReturns, PollFails
  <2>2. PICK p \in Places \ {"sent"} : at' = [at EXCEPT ![Poller] = p]
    BY <1>5 DEF PollReturns, PollFails, PollOver, Places, Working
  <2> QED
    BY <1>1, <1>2, <2>1, <2>2, LeaveQueued
<1> QED
  BY <1>3, <1>4, <1>5 DEF Poll

LEMMA QueueKeeps ==
    ASSUME Typed, Next
    PROVE  Queued'
<1>1. Queued /\ CallersTyped
  BY DEF Typed
<1>2. CASE KeypadPressed \/ GuardAges \/ Connection
  <2>1. UNCHANGED <<line, serving, answered, at, req>> /\ excused \subseteq excused'
    BY <1>2, ConnectionLeaves DEF KeypadPressed, GuardAges, queueVars, callerVars, historyVars
  <2> QED
    BY <1>1, <2>1, QueueAlone DEF queueVars
<1>3. ASSUME NEW c \in Requests, PostAttribute(c) \/ GetZone(c) \/ GetZones(c) PROVE Queued'
  <2>1. UNCHANGED queueVars /\ excused' = excused
    BY <1>3 DEF PostAttribute, GetZone, GetZones, Asking, historyVars
  <2>2. at[c] = "idle" /\ \A d \in Requests \ {c} : req'[d] = req[d]
    BY <1>1, <1>3 DEF PostAttribute, GetZone, GetZones, Accepts, CallersTyped
  <2>3. at' \in [Callers -> Places] /\ at'[c] # "sent" /\ \A d \in Callers \ {c} : at'[d] = at[d]
    <3>1. CASE PostAttribute(c)
      BY <1>1, <3>1 DEF PostAttribute, Ends, CallersTyped, Places, Ending, Callers
    <3>2. CASE GetZone(c)
      BY <1>1, <3>2 DEF GetZone, Ends, CallersTyped, Places, Ending, Callers
    <3>3. CASE GetZones(c)
      BY <1>1, <3>3 DEF GetZones, Ends, CallersTyped, Places, Ending, Callers
    <3> QED
      BY <1>3, <3>1, <3>2, <3>3
  <2> QED
    BY <1>1, <2>1, <2>2, <2>3, QueueAlone
<1>4. ASSUME NEW c \in Requests, Request(c) PROVE Queued'
  BY <1>3, <1>4, RequestQueues DEF Request
<1> QED
  BY <1>1, <1>2, <1>4, QueueServes, PollQueues DEF Next, QueueSteps, Connection

-----------------------------------------------------------------------------
(* The types.                                                              *)

LEMMA InitTyped ==
    ASSUME Init
    PROVE  Typed
<1> USE DEF Init
<1>1. CacheTyped
  <2>1. PICK v \in Values : amps = [z \in Zones |-> [a \in Attrs |-> [value |-> v, by |-> "keypad"]]]
    OBVIOUS
  <2>2. amps \in [Zones -> Zone]
    BY <2>1 DEF Zone, Cell
  <2> QED
    BY <2>2 DEF CacheTyped, CacheTypeOK, CacheInit
<1>2. Queued
  <2>1. line = <<>> /\ serving = <<>> /\ answered = [c \in Callers |-> "none"]
    BY DEF Queue!Init
  <2> QED
    BY <2>1 DEF Queued, QueueTyped, InQueue, Answered
<1>3. CallersTyped
  <2>1. at = [c \in Callers |-> "idle"] /\ req = [c \in Requests |-> NoRequest] /\ ampId = [c \in Callers |-> 1]
    OBVIOUS
  <2>2. 1 \in 1..AmpCount
    BY BoundsAssumption
  <2> QED
    BY <2>1, <2>2 DEF CallersTyped, Orderly, Places, Working, Callers
<1>4. LinesTyped
  <2>1. OnlyHeard(Tail(Answer(1)))
    <3>1. OnlyHeard(Answer(1)) /\ Len(Answer(1)) > 0
      BY <1>1, AnswerHeard, BoundsAssumption
    <3> QED
      BY <3>1, TailHeard
  <2>2. unread \in Seq(Spoken)
    BY <2>1 DEF OnlyHeard
  <2> QED
    BY <2>2 DEF LinesTyped
<1>5. ResponsesTyped
  BY DEF ResponsesTyped
<1>6. BoundsTyped
  BY BoundsAssumption DEF BoundsTyped
<1>7. conn \in States
  BY DEF States
<1> QED
  BY <1>1, <1>2, <1>3, <1>4, <1>5, <1>6, <1>7 DEF Typed

LEMMA NextTyped ==
    ASSUME Typed, Next
    PROVE  Typed'
<1>1. /\ CacheTyped' /\ Queued' /\ CallersTyped' /\ LinesTyped'
      /\ ResponsesTyped' /\ BoundsTyped' /\ (conn \in States)'
  BY CacheKeeps, QueueKeeps, CallersKeep, LinesKeep, ResponsesKeep, BoundsKeep, ConnKeeps DEF Typed
<1> QED
  BY <1>1 DEF Typed

LEMMA StutterTyped ==
    ASSUME Typed, UNCHANGED vars
    PROVE  Typed'
<1>1. Queued'
  BY QueueAlone DEF Typed, vars, callerVars, historyVars
<1>2. CacheTyped'
  BY DEF Typed, vars, cacheVars, CacheTyped, CacheTypeOK
<1>3. CallersTyped'
  BY DEF Typed, vars, callerVars, CallersTyped, Orderly, Isset
<1>4. LinesTyped'
  BY DEF Typed, vars, callerVars, LinesTyped
<1>5. ResponsesTyped' /\ BoundsTyped'
  BY DEF Typed, vars, callerVars, ResponsesTyped, BoundsTyped
<1>6. (conn \in States)'
  BY DEF Typed, vars, States
<1> QED
  BY <1>1, <1>2, <1>3, <1>4, <1>5, <1>6 DEF Typed

(* Nothing the service keeps leaves its type, the commands in the queue    *)
(* and what has been read of the amplifiers included.                      *)
THEOREM AlwaysTyped == Spec => []Typed
<1>1. Init => Typed
  BY InitTyped
<1>2. Typed /\ [Next]_vars => Typed'
  BY NextTyped, StutterTyped
<1> QED
  BY <1>1, <1>2, PTL DEF Spec

LEMMA TypedIsTypeOK ==
    ASSUME Typed
    PROVE  TypeOK
<1>1. CacheTypeOK /\ amps \in [Zones -> Zone]
  BY DEF Typed, CacheTyped
<1>2. \A i \in DOMAIN line : line[i].kind \in Commands
  <2>1. \A i \in DOMAIN line : line[i] \in Entries
    BY DEF Typed, Queued, QueueTyped
  <2> QED
    BY <2>1 DEF Entries
<1>3. at \in [Callers ->
        {"idle", "checked", "next", "go", "sent", "set", "read", "failed", "stopping", "done"}]
  BY DEF Typed, CallersTyped, Places, Working, Ending
<1>4. ASSUME NEW c \in Requests, req[c] # NoRequest
      PROVE  \/ req[c].what = "zones"
             \/ req[c].what \in {"set", "zone"} /\ (req[c].zone \in Zones \/ at[c] = "done")
  <2>1. Orderly(c) /\ at[c] \in Places
    BY DEF Typed, CallersTyped, Callers
  <2> QED
    BY <1>4, <2>1 DEF Orderly, Places, Ending, Proper
<1>5. ampId \in [Callers -> 1..AmpCount+1]
  BY BoundsAssumption DEF Typed, CallersTyped
<1>6. allZones \in [Callers -> Seq(Lines)] /\ unread \in Seq(Lines \cup {ErrorLine})
  BY DEF Typed, LinesTyped, Spoken
<1>7. \A c \in Requests : resp[c] # NoResponse => resp[c].status \in Statuses
  BY DEF Typed, ResponsesTyped
<1>8. events \in 0..MaxEvents
  BY DEF Typed, BoundsTyped
<1>9. conn \in {"ready", "recovering", "probing", "negotiating"}
  BY DEF Typed, States
<1> QED
  BY <1>1, <1>2, <1>3, <1>4, <1>5, <1>6, <1>7, <1>8, <1>9, Zenon DEF TypeOK

THEOREM ZonesTypeCorrect == Spec => []TypeOK
<1>1. Typed => TypeOK
  BY TypedIsTypeOK
<1> QED
  BY <1>1, AlwaysTyped, PTL

-----------------------------------------------------------------------------
(* Sets are written once.                                                  *)

(* The count is right wherever the request is, in particular while it      *)
(* waits: one if, and only if, its answer is there and is a result.        *)
Counted(c) ==
    /\ at[c] = "idle" => written[c] = 0
    /\ at[c] \notin Ending => resp[c] = NoResponse
    /\ Isset(c) =>
         /\ at[c] = "checked" => written[c] = 0
         /\ at[c] = "sent" =>
              /\ written[c] = IF answered[c] = "ok" THEN 1 ELSE 0
              /\ answered[c] # "timeout"
         /\ at[c] = "set" => written[c] = 1
         /\ at[c] \in Ending =>
              /\ resp[c].status = 200 => written[c] = 1
              /\ resp[c].status \in {400, 503} => written[c] = 0
              /\ resp[c].status # 504

SetWritten == written \in [Requests -> Nat] /\ \A c \in Requests : Counted(c)

LEMMA CountedAlone ==
    ASSUME NEW c \in Requests, Counted(c), at'[c] = at[c], req'[c] = req[c], written'[c] = written[c],
           resp'[c] = resp[c], answered'[c] = answered[c]
    PROVE  Counted(c)'
BY DEF Counted, Isset

(* An answer changes the count of the request it goes to, if at all.       *)
LEMMA AnswerCounted ==
    ASSUME Typed, SetWritten, UNCHANGED <<at, req, resp>>,
           NEW e \in Entries, Standing(e), NEW r \in Answered, Queue!Answer(e, r),
           e.owner \in Requests /\ e.kind.what = "control" =>
             /\ r # "timeout"
             /\ written' = IF r = "ok" THEN [written EXCEPT ![e.owner] = @ + 1] ELSE written,
           ~(e.owner \in Requests /\ e.kind.what = "control") => written' = written
    PROVE  SetWritten'
<1>1. /\ written \in [Requests -> Nat] /\ answered \in [Callers -> Answered]
      /\ \A c \in Requests : Counted(c) /\ c \in Callers /\ c # Nobody
  BY RequestsAssumption DEF SetWritten, Typed, Queued, QueueTyped, Callers
<1>2. written' \in [Requests -> Nat]
  BY <1>1
<1>3. ASSUME NEW c \in Requests PROVE Counted(c)'
  <2>1. CASE e.owner # c
    <3>1. answered'[c] = answered[c] /\ written'[c] = written[c]
      BY <1>1, <2>1 DEF Queue!Answer
    <3> QED
      BY <1>1, <3>1, CountedAlone
  <2>2. CASE e.owner = c
    <3>1. answered'[c] = r /\ answered[c] = "none" /\ at[c] = "sent" /\ Matches(c, e.kind)
      BY <1>1, <2>2 DEF Queue!Answer, Standing
    <3>2. c # Poller
      BY RequestsAssumption
    <3>3. CASE Isset(c)
      <4>1. e.kind.what = "control"
        BY <3>1, <3>2, <3>3 DEF Matches, Control
      <4>2. r # "timeout" /\ written' = IF r = "ok" THEN [written EXCEPT ![c] = @ + 1] ELSE written
        BY <2>2, <4>1
      <4>3. written[c] = 0
        BY <1>1, <3>1, <3>3 DEF Counted
      <4>4. written'[c] = IF r = "ok" THEN 1 ELSE 0
        BY <1>1, <4>2, <4>3
      <4> QED
        BY <1>1, <3>1, <3>3, <4>2, <4>4 DEF Counted, Isset, Ending
    <3>4. CASE ~Isset(c)
      BY <1>1, <3>1, <3>4 DEF Counted, Isset
    <3> QED
      BY <3>3, <3>4
  <2> QED
    BY <2>1, <2>2
<1>4. (\A c \in Requests : Counted(c))'
  BY <1>3 DEF Counted, Isset
<1> QED
  BY <1>2, <1>4 DEF SetWritten

(* A request moves on; the others are as they were.                        *)
LEMMA MoveCounted ==
    ASSUME CallersTyped, SetWritten, NEW c \in Requests, NEW p, at' = [at EXCEPT ![c] = p],
           \A d \in Requests \ {c} : /\ req'[d] = req[d] /\ resp'[d] = resp[d]
                                     /\ answered'[d] = answered[d],
           written' = written, Counted(c)'
    PROVE  SetWritten'
<1>1. ASSUME NEW d \in Requests, d # c PROVE Counted(d)'
  BY <1>1, CountedAlone DEF SetWritten, CallersTyped, Callers
<1>2. (\A d \in Requests : Counted(d))'
  BY <1>1 DEF Counted, Isset
<1> QED
  BY <1>2 DEF SetWritten

LEMMA QueueCounts ==
    ASSUME Typed, SetWritten, QueueSteps
    PROVE  SetWritten'
<1>1. UNCHANGED <<at, req, resp>>
  BY QueueLeaves
<1>2. QueueTyped /\ InQueue /\ answered \in [Callers -> Answered]
  BY DEF Typed, Queued, QueueTyped
<1>3. CASE Serve
  <2>1. UNCHANGED <<at, req, resp, written, answered>>
    BY <1>1, <1>3 DEF Serve, Queue!Serve, historyVars
  <2>2. (\A c \in Requests : Counted(c))'
    BY <2>1 DEF SetWritten, Counted, Isset
  <2> QED
    BY <2>1, <2>2 DEF SetWritten
<1>4. CASE CommandRefused
  <2>1. line # <<>> /\ line \in Seq(Entries) /\ Queue!Answer(Head(line), "shutdown") /\ written' = written
    BY <1>2, <1>4 DEF CommandRefused, Queue!Refuse, QueueTyped, QueryVars, historyVars
  <2>2. Head(line) = line[1] /\ 1 \in DOMAIN line /\ line[1] \in Entries
    BY <2>1
  <2>3. Standing(line[1])
    BY <1>2, <2>2 DEF InQueue
  <2> QED
    BY <1>1, <2>1, <2>2, <2>3, AnswerCounted DEF Answered
<1>5. ASSUME NEW q \in {"ok", "error", "timeout"}, Answers(q) PROVE
        \E e \in Entries, r \in Answered :
          /\ Standing(e) /\ Running = e.kind /\ Owner = e.owner /\ Queue!Answer(e, r)
          /\ e.owner # Nobody => r = q
          /\ e.owner = Poller => e.kind.what = "query"
  <2> DEFINE e == serving[1]
  <2>1. serving # <<>> /\ Queue!Complete
    BY <1>5 DEF Answers
  <2>2. Head(serving) = e /\ e \in Entries /\ 1 \in DOMAIN serving /\ Running = e.kind /\ Owner = e.owner
    BY <1>2, <2>1, ServedIsCommand DEF Running, Owner
  <2>3. Standing(e)
    BY <1>2, <2>2 DEF InQueue
  <2>4. PICK r \in Answered : Queue!Answer(e, r)
    BY <2>1, <2>2 DEF Queue!Complete, Answered
  <2> HIDE DEF e
  <2>5. e.owner # Nobody => e.owner \in Callers /\ answered'[e.owner] = r
    BY <1>2, <2>2, <2>4 DEF Entries, Queue!Answer
  <2>6. e.owner = Poller => e.kind.what = "query"
    BY <2>3, RequestsAssumption DEF Standing, Matches
  <2>7. e.owner # Nobody => r = q
    BY <1>5, <2>2, <2>5 DEF Answers
  <2> QED
    BY <2>2, <2>3, <2>4, <2>6, <2>7
<1>6. CASE ControlWritten
  <2>1. Answers("ok") /\ Running.what = "control"
        /\ written' = IF Owner = Nobody THEN written ELSE [written EXCEPT ![Owner] = @ + 1]
    BY <1>6 DEF ControlWritten
  <2>2. PICK e \in Entries, r \in Answered :
          /\ Standing(e) /\ Running = e.kind /\ Owner = e.owner /\ Queue!Answer(e, r)
          /\ e.owner # Nobody => r = "ok"
          /\ e.owner = Poller => e.kind.what = "query"
    BY <1>5, <2>1
  <2>3. e.owner # Nobody => e.owner \in Requests
    BY <2>1, <2>2 DEF Entries, Callers
  <2>4. e.owner \in Requests => e.owner # Nobody
    BY RequestsAssumption
  <2>5. /\ e.owner \in Requests => written' = [written EXCEPT ![e.owner] = @ + 1]
        /\ e.owner \notin Requests => written' = written
    BY <2>1, <2>2, <2>3, <2>4
  <2> QED
    BY <1>1, <2>1, <2>2, <2>4, <2>5, AnswerCounted
<1>7. CASE QueryAnswered \/ QueryMeetsError \/ QueryTimesOut \/ CommandFails
  <2>1. written' = written
    BY <1>7 DEF QueryAnswered, QueryMeetsError, QueryTimesOut, CommandFails, QueryVars, historyVars
  <2>2. PICK q \in {"ok", "error", "timeout"} : Answers(q) /\ (Running.what = "query" \/ q = "error")
    BY <1>7 DEF QueryAnswered, QueryMeetsError, QueryTimesOut, CommandFails
  <2>3. PICK e \in Entries, r \in Answered :
          /\ Standing(e) /\ Running = e.kind /\ Owner = e.owner /\ Queue!Answer(e, r)
          /\ e.owner # Nobody => r = q
    BY <1>5, <2>2
  <2>4. e.owner \in Requests /\ e.kind.what = "control" => r = "error"
    BY <2>2, <2>3, RequestsAssumption
  <2> QED
    BY <1>1, <2>1, <2>3, <2>4, AnswerCounted
<1> QED
  BY <1>3, <1>4, <1>6, <1>7 DEF QueueSteps

LEMMA RequestCounts ==
    ASSUME Typed, SetWritten, NEW c \in Requests, Request(c)
    PROVE  SetWritten'
<1>1. /\ CallersTyped /\ Counted(c) /\ c \in Callers /\ answered \in [Callers -> Answered]
      /\ Orderly(c) /\ DOMAIN resp = Requests /\ DOMAIN req = Requests /\ at \in [Callers -> Places]
  BY DEF Typed, CallersTyped, SetWritten, Callers, Queued, QueueTyped, ResponsesTyped
<1>2. written' = written
  BY RequestLeaves
<1>3. CASE PostAttribute(c)
  <2>1. UNCHANGED answered /\ at[c] = "idle"
    BY <1>3 DEF PostAttribute, Asking, queueVars, Accepts
  <2>2. /\ \A d \in Requests \ {c} : req'[d] = req[d] /\ resp'[d] = resp[d]
        /\ \/ at' = [at EXCEPT ![c] = "done"] /\ resp'[c].status \in {400, 503}
           \/ at' = [at EXCEPT ![c] = "checked"] /\ resp' = resp
    <3>1. \/ Ends(c, 400, None) \/ Ends(c, 503, None)
          \/ at' = [at EXCEPT ![c] = "checked"] /\ resp' = resp
      BY <1>3 DEF PostAttribute
    <3>2. \A d \in Requests \ {c} : req'[d] = req[d]
      BY <1>1, <1>3 DEF PostAttribute, Accepts
    <3> QED
      BY <1>1, <3>1, <3>2 DEF Ends
  <2>3. Counted(c)'
    BY <1>1, <1>2, <2>1, <2>2 DEF Counted, Isset, Ending
  <2> QED
    BY <1>1, <1>2, <2>1, <2>2, <2>3, MoveCounted
<1>4. CASE GetZone(c) \/ GetZones(c)
  <2>1. UNCHANGED answered /\ at[c] = "idle"
    BY <1>4 DEF GetZone, GetZones, Asking, queueVars, Accepts
  <2>2. req'[c].what # "set" /\ \A d \in Requests \ {c} : req'[d] = req[d]
    BY <1>1, <1>4 DEF GetZone, GetZones, Accepts, Asked
  <2>3. \/ \E status, v : Ends(c, status, v)
        \/ at' = [at EXCEPT ![c] = "checked"] /\ resp' = resp
    <3>1. CASE GetZone(c)
      <4>1. PICK z \in ZoneInputs, a \in AttrInputs, live \in BOOLEAN :
              IF ~ValidZoneID(z) \/ ~ResolveAttribute(a) THEN Ends(c, 400, None)
              ELSE IF live /\ conn = "ready" THEN at' = [at EXCEPT ![c] = "checked"] /\ UNCHANGED resp
              ELSE IF live THEN Ends(c, 503, None)
              ELSE IF ~Cached(z) THEN Ends(c, 404, None)
              ELSE Ends(c, 200, GetAttribute(zones[z], a))
        BY <3>1 DEF GetZone
      <4> QED
        BY <4>1, Zenon
    <3>2. CASE GetZones(c)
      <4>1. PICK live \in BOOLEAN :
              IF live /\ conn = "ready" THEN at' = [at EXCEPT ![c] = "checked"] /\ UNCHANGED resp
              ELSE IF live THEN Ends(c, 503, None)
              ELSE Ends(c, 200, None)
        BY <3>2 DEF GetZones
      <4> QED
        BY <4>1, Zenon
    <3> QED
      BY <1>4, <3>1, <3>2
  <2>4. PICK p \in {"done", "checked"} :
          /\ at' = [at EXCEPT ![c] = p] /\ (p # "done" => resp'[c] = resp[c])
          /\ \A d \in Requests \ {c} : resp'[d] = resp[d]
    BY <1>1, <2>3 DEF Ends
  <2>5. Counted(c)'
    BY <1>1, <1>2, <2>1, <2>2, <2>4 DEF Counted, Isset, Ending
  <2> QED
    BY <1>1, <1>2, <2>1, <2>2, <2>4, <2>5, MoveCounted
<1>5. CASE Controller(c)
  <2>1. /\ UNCHANGED <<answered, req>> /\ at[c] = "checked"
        /\ \/ at' = [at EXCEPT ![c] = "sent"] /\ resp' = resp /\ answered[c] = "none"
           \/ /\ at' = [at EXCEPT ![c] = "done"]
              /\ resp' = [resp EXCEPT ![c] = [status |-> 503, value |-> None]]
    BY <1>5 DEF Controller, Ends, Enqueue, Queue!Arrive, Queue!Absent, queueVars
  <2>2. Counted(c)'
    BY <1>1, <1>2, <2>1 DEF Counted, Isset, Ending
  <2> QED
    BY <1>1, <1>2, <2>1, <2>2, MoveCounted
<1>6. CASE RequestFails(c) \/ ClientLeaves(c)
  <2>1. PICK status \in {500, 504} :
          /\ resp' = [resp EXCEPT ![c] = [status |-> status, value |-> None]]
          /\ status = 504 => answered[c] = "timeout"
    <3>1. CASE RequestFails(c)
      <4>1. resp' = [resp EXCEPT ![c] = [status |-> Status(answered[c]), value |-> None]]
        BY <3>1 DEF RequestFails, Fails
      <4>2. Status(answered[c]) = IF answered[c] = "timeout" THEN 504 ELSE 500
        BY DEF Status
      <4>3. CASE answered[c] = "timeout"
        <5>1. Status(answered[c]) = 504
          BY <4>2, <4>3
        <5> QED
          BY <4>1, <4>3, <5>1
      <4>4. CASE answered[c] # "timeout"
        <5>1. Status(answered[c]) = 500
          BY <4>2, <4>4
        <5> QED
          BY <4>1, <4>4, <5>1
      <4> QED
        BY <4>3, <4>4
    <3>2. CASE ClientLeaves(c)
      BY <3>2 DEF ClientLeaves, Fails
    <3> QED
      BY <1>6, <3>1, <3>2
  <2>2. /\ at' = [at EXCEPT ![c] = "failed"] /\ req' = req /\ at[c] = "sent"
        /\ \A d \in Callers \ {c} : answered'[d] = answered[d]
    BY <1>1, <1>6 DEF RequestFails, ClientLeaves, Fails, Queue!Leave
  <2>3. Counted(c)'
    BY <1>1, <1>2, <2>1, <2>2 DEF Counted, Isset, Ending
  <2>4. \A d \in Requests \ {c} : /\ req'[d] = req[d] /\ resp'[d] = resp[d]
                                 /\ answered'[d] = answered[d]
    BY <1>1, <2>1, <2>2 DEF Callers
  <2> QED
    BY <1>1, <1>2, <2>2, <2>3, <2>4, MoveCounted
<1>7. CASE SetSent(c) \/ QueryReturns(c)
  <2>1. PICK p \in {"set", "next", "read"} :
          /\ at' = [at EXCEPT ![c] = p] /\ UNCHANGED <<req, resp>> /\ at[c] = "sent"
          /\ answered[c] = "ok" /\ (Isset(c) => p = "set")
          /\ \A d \in Callers \ {c} : answered'[d] = answered[d]
    BY <1>1, <1>7 DEF SetSent, QueryReturns, Queue!Leave, Isset
  <2>2. Counted(c)'
    BY <1>1, <1>2, <2>1 DEF Counted, Isset, Ending
  <2> QED
    BY <1>1, <1>2, <2>1, <2>2, MoveCounted DEF Callers
<1>8. CASE NextAmp(c)
  <2>1. at' = [at EXCEPT ![c] = "sent"] /\ UNCHANGED <<req, resp, answered>> /\ ~Isset(c) /\ at[c] = "next"
    BY <1>1, <1>8 DEF NextAmp, Enqueue, Queue!Arrive, Orderly
  <2>2. Counted(c)'
    BY <1>1, <1>2, <2>1 DEF Counted, Isset, Ending
  <2> QED
    BY <1>1, <1>2, <2>1, <2>2, MoveCounted
<1>9. CASE SetResponds(c) \/ QueryResponds(c)
  <2>1. PICK status, v : /\ status \in {200, 500}
                        /\ resp' = [resp EXCEPT ![c] = [status |-> status, value |-> v]]
    BY <1>9 DEF SetResponds, QueryResponds, Returns, Ends
  <2>2. /\ at' = [at EXCEPT ![c] = "done"] /\ UNCHANGED <<req, answered>>
        /\ (Isset(c) => at[c] = "set")
    BY <1>1, <1>9 DEF SetResponds, QueryResponds, Returns, Ends, Orderly, queueVars
  <2>3. Counted(c)'
    BY <1>1, <1>2, <2>1, <2>2 DEF Counted, Isset, Ending
  <2> QED
    BY <1>1, <1>2, <2>1, <2>2, <2>3, MoveCounted
<1>10. CASE BodyUnreadable(c)
  <2>1. /\ at' = [at EXCEPT ![c] = "done"] /\ UNCHANGED <<req, answered>> /\ at[c] = "checked"
        /\ resp' = [resp EXCEPT ![c] = [status |-> 400, value |-> None]]
    BY <1>10 DEF BodyUnreadable, Ends, queueVars
  <2>2. Counted(c)'
    BY <1>1, <1>2, <2>1 DEF Counted, Isset, Ending
  <2> QED
    BY <1>1, <1>2, <2>1, <2>2, MoveCounted
<1>11. CASE RecordCommandError(c) \/ StopEnds(c)
  <2>1. PICK p \in {"stopping", "done"} : at' = [at EXCEPT ![c] = p]
    BY <1>11 DEF RecordCommandError, StopEnds
  <2>2. UNCHANGED <<req, resp, answered>> /\ at[c] \in {"failed", "stopping"}
    BY <1>11 DEF RecordCommandError, StopEnds, queueVars
  <2>3. Counted(c)'
    BY <1>1, <1>2, <2>1, <2>2 DEF Counted, Isset, Ending
  <2> QED
    BY <1>1, <1>2, <2>1, <2>2, <2>3, MoveCounted
<1> QED
  BY <1>3, <1>4, <1>5, <1>6, <1>7, <1>8, <1>9, <1>10, <1>11 DEF Request, Handler

LEMMA SetsCounted ==
    ASSUME Typed, SetWritten, Next
    PROVE  SetWritten'
<1>1. /\ CallersTyped /\ answered \in [Callers -> Answered] /\ \A c \in Requests : c \in Callers /\ c # Poller
  BY RequestsAssumption DEF Typed, Queued, QueueTyped, Callers
<1>2. CASE KeypadPressed \/ GuardAges \/ Connection
  <2>1. UNCHANGED <<at, req, resp, written, answered>>
    BY <1>2, ConnectionLeaves DEF KeypadPressed, GuardAges, queueVars, callerVars, historyVars
  <2>2. (\A c \in Requests : Counted(c))'
    BY <2>1 DEF SetWritten, Counted, Isset
  <2> QED
    BY <2>1, <2>2 DEF SetWritten
<1>3. CASE Poll
  <2>1. UNCHANGED <<req, resp, written>>
    BY <1>3, PollLeaves
  <2>2. \A c \in Requests : at'[c] = at[c]
    BY <1>1, <1>3 DEF Poll, PollTick, PollYields, PollGoesOn, PollAmp, PollReturns, PollFails, PollUpdates,
                      PollOver, CallersTyped
  <2>3. \A c \in Requests : answered'[c] = answered[c]
    BY <1>1, <1>3 DEF Poll, PollTick, PollYields, PollGoesOn, PollAmp, PollReturns, PollFails, PollUpdates,
                      Enqueue, Queue!Arrive, Queue!Leave, queueVars
  <2>4. (\A c \in Requests : Counted(c))'
    BY <2>1, <2>2, <2>3 DEF SetWritten, Counted, Isset
  <2> QED
    BY <2>1, <2>4 DEF SetWritten
<1> QED
  BY <1>2, <1>3, QueueCounts, RequestCounts DEF Next, QueueSteps, Connection

(* A set that is answered with 200 was written to the port once, one that  *)
(* is refused with 400 or 503 never, and none is answered with 504.        *)
THEOREM SetsAreWrittenOnce == Spec => []SetsDoneOnce
<1>1. Init => SetWritten
  BY DEF Init, SetWritten, Counted, Isset, NoRequest, None, Callers, Ending
<1>2. Typed /\ SetWritten /\ [Next]_vars => SetWritten'
  <2>1. ASSUME SetWritten, UNCHANGED vars PROVE SetWritten'
    <3>1. UNCHANGED <<at, req, resp, written, answered>>
      BY <2>1 DEF vars, callerVars, queueVars, historyVars
    <3>2. (\A c \in Requests : Counted(c))'
      BY <2>1, <3>1 DEF SetWritten, Counted, Isset
    <3> QED
      BY <2>1, <3>1, <3>2 DEF SetWritten
  <2> QED
    BY <2>1, SetsCounted
<1>3. Typed /\ SetWritten => SetsDoneOnce
  <2> SUFFICES ASSUME Typed, SetWritten, NEW c \in Requests, resp[c] # NoResponse, req[c].what = "set"
               PROVE  /\ resp[c].status = 200 => written[c] = 1
                      /\ resp[c].status \in {400, 503} => written[c] = 0
                      /\ resp[c].status # 504
    BY DEF SetsDoneOnce
  <2>1. Counted(c)
    BY DEF SetWritten
  <2>2. at[c] \in Ending
    BY <2>1 DEF Counted
  <2> QED
    BY <2>1, <2>2 DEF Counted, Isset
<1> QED
  BY <1>1, <1>2, <1>3, AlwaysTyped, PTL DEF Spec

-----------------------------------------------------------------------------
(* Own sets and the changes a poll logs.                                   *)

(* A set has been written, and its request does not know yet.              *)
Wrote(x) ==
    \E c \in Requests : /\ at[c] = "sent" /\ answered[c] = "ok" /\ Isset(c)
                        /\ x = <<req[c].zone, req[c].attr>>

(* A line says that a set of the service gave the cell its value.          *)
Tells(l, x) == l.what = "zone" /\ l.zone = x[1] /\ l.attrs[x[2]].by = "set"

(* A cell a set of the service has given its value, at the amplifier, in   *)
(* the port's reader or in what the poller has read.                       *)
BySet(x) ==
    \/ amps[x[1]][x[2]].by = "set"
    \/ \E i \in DOMAIN unread : Tells(unread[i], x)
    \/ \E i \in DOMAIN allZones[Poller] : Tells(allZones[Poller][i], x)

(* Every such cell has its guard, or one that ran out, or gets it soon.    *)
Guarded(x) ==
    /\ recentSets[x] = "expired" => x \in excused
    /\ BySet(x) => x \in excused \/ recentSets[x] = "guarded" \/ Wrote(x)
Covered == \A x \in Cells : Guarded(x)

(* Who has been answered stays where it is.                                *)
LEMMA WroteStays ==
    ASSUME CallersTyped, QueueTyped, NEW x \in Cells, Wrote(x),
           \A c \in Requests : at[c] = "sent" /\ answered[c] = "ok" /\ Isset(c) =>
              at'[c] = "sent" /\ answered'[c] = "ok" /\ req'[c] = req[c]
    PROVE  Wrote(x)'
BY DEF Wrote, Isset

LEMMA AnswersWrote ==
    ASSUME Typed, QueueSteps, NEW x \in Cells, Wrote(x)
    PROVE  Wrote(x)'
<1>1. UNCHANGED <<at, req>> /\ answered \in [Callers -> Answered] /\ CallersTyped /\ QueueTyped
  BY QueueLeaves DEF Typed, Queued, QueueTyped
<1>2. answered' = answered \/ \E e, r : Queue!Answer(e, r)
  BY QueueLeaves DEF Queue!Serve, Queue!Complete, Queue!Refuse
<1>3. \A c \in Callers : answered[c] = "ok" => answered'[c] = "ok"
  BY <1>1, <1>2 DEF Queue!Answer
<1> QED
  BY <1>1, <1>3, WroteStays DEF Callers

(* What could be heard tells of no set that had not been made by then.     *)
LEMMA HeardTells ==
    ASSUME CacheTyped, NEW x \in Cells, NEW l, Heard(l), Tells(l, x)
    PROVE  BySet(x)
<1>1. CASE l = ErrorLine
  BY <1>1 DEF ErrorLine, Tells
<1>2. CASE \E i \in DOMAIN unread : l = unread[i]
  BY <1>2 DEF BySet
<1>3. CASE \E z \in Zones : l = ZoneLine(z)
  BY <1>3 DEF ZoneLine, Tells, BySet
<1> QED
  BY <1>1, <1>2, <1>3 DEF Heard

(* So only a change at an amplifier makes a cell one that a set has given. *)
LEMMA LinesTell ==
    ASSUME Typed, Next, NEW x \in Cells, BySet(x)'
    PROVE  BySet(x) \/ amps'[x[1]][x[2]].by = "set"
<1>1. CASE amps'[x[1]][x[2]].by = "set"
  BY <1>1
<1>2. ASSUME NEW i \in DOMAIN unread', Tells(unread'[i], x) PROVE BySet(x)
  <2>1. OnlyHeard(unread') /\ CacheTyped
    BY ReaderHears DEF Typed
  <2>2. Heard(unread'[i])
    BY <1>2, <2>1 DEF OnlyHeard
  <2> QED
    BY <1>2, <2>1, <2>2, HeardTells
<1>3. ASSUME NEW i \in DOMAIN allZones'[Poller], Tells(allZones'[Poller][i], x) PROVE BySet(x)
  <2> DEFINE s == allZones[Poller]
  <2>1. PICK c \in Callers :
             \/ allZones' = allZones
             \/ allZones' = [allZones EXCEPT ![c] = <<>>]
             \/ \E t \in Seq(Lines) : /\ \A k \in DOMAIN t : Heard(t[k])
                                      /\ allZones' = [allZones EXCEPT ![c] = @ \o t]
    BY CallersHear
  <2>2. s \in Seq(Lines) /\ DOMAIN allZones = Callers /\ Poller \in Callers
    BY DEF Typed, LinesTyped, Callers
  <2>3. CASE allZones'[Poller] = s
    BY <1>3, <2>3 DEF BySet
  <2>4. CASE allZones'[Poller] = <<>>
    BY <1>3, <2>4
  <2>5. ASSUME NEW t \in Seq(Lines), \A k \in DOMAIN t : Heard(t[k]), allZones'[Poller] = s \o t
        PROVE  BySet(x)
    <3> HIDE DEF s
    <3>1. /\ Len(s) \in Nat /\ Len(t) \in Nat /\ Len(s \o t) = Len(s) + Len(t) /\ s \o t \in Seq(Lines)
          /\ \A k \in 1..Len(s) + Len(t) : (s \o t)[k] = IF k <= Len(s) THEN s[k] ELSE t[k - Len(s)]
      BY <2>2, ConcatProperties
    <3>2. i \in 1..Len(s) + Len(t) /\ DOMAIN s = 1..Len(s) /\ DOMAIN t = 1..Len(t)
      BY <1>3, <2>2, <2>5, <3>1
    <3>3. CASE i <= Len(s)
      <4>1. i \in DOMAIN s /\ Tells(s[i], x)
        BY <1>3, <2>5, <3>1, <3>2, <3>3
      <4> QED
        BY <4>1 DEF BySet, s
    <3>4. CASE ~(i <= Len(s))
      <4>1. i - Len(s) \in DOMAIN t /\ Tells(t[i - Len(s)], x)
        BY <1>3, <2>5, <3>1, <3>2, <3>4
      <4> QED
        BY <2>5, <4>1, HeardTells DEF Typed
    <3> QED
      BY <3>3, <3>4
  <2>6. \/ allZones'[Poller] = s \/ allZones'[Poller] = <<>>
        \/ \E t \in Seq(Lines) : (\A k \in DOMAIN t : Heard(t[k])) /\ allZones'[Poller] = s \o t
    <3>1. ASSUME NEW t \in Seq(Lines), allZones' = [allZones EXCEPT ![c] = @ \o t]
          PROVE  allZones'[Poller] = s \/ allZones'[Poller] = s \o t
      BY <2>2, <3>1
    <3>2. allZones' = [allZones EXCEPT ![c] = <<>>] => allZones'[Poller] \in {s, <<>>}
      BY <2>2
    <3> QED
      BY <2>1, <3>1, <3>2
  <2> QED
    BY <2>3, <2>4, <2>5, <2>6
<1> QED
  BY <1>1, <1>2, <1>3 DEF BySet

LEMMA OneCell ==
    ASSUME CacheTyped, NEW z \in Zones, NEW a \in Attrs, NEW v, NEW who, AmpSets(z, a, v, who)
    PROVE  \A x \in Cells : amps'[x[1]][x[2]] = IF x = <<z, a>> THEN [value |-> v, by |-> who]
                                                ELSE amps[x[1]][x[2]]
<1>1. amps[z] \in Zone /\ amps' = [amps EXCEPT ![z] = [amps[z] EXCEPT ![a] = [value |-> v, by |-> who]]]
  BY DEF CacheTyped, AmpSets
<1>2. DOMAIN amps[z] = Attrs /\ DOMAIN amps = Zones
  BY <1>1 DEF Zone, CacheTyped
<1>3. \A y \in Zones, b \in Attrs : amps'[y][b] = IF y = z /\ b = a THEN [value |-> v, by |-> who] ELSE amps[y][b]
  BY <1>1, <1>2
<1>4. \A x \in Cells : x[1] \in Zones /\ x[2] \in Attrs /\ (x = <<z, a>> <=> x[1] = z /\ x[2] = a)
  BY DEF Cells
<1> QED
  BY <1>3, <1>4

(* No cell becomes one but by a set that is written just now, and whose    *)
(* request does not know yet or is gone.                                   *)
LEMMA SetIsNew ==
    ASSUME Typed, Next, NEW x \in Cells, BySet(x)'
    PROVE  BySet(x) \/ (ControlWritten /\ (x \in excused \/ Wrote(x)'))
<1>1. CacheTyped /\ QueueTyped /\ InQueue /\ x[1] \in Zones /\ x[2] \in Attrs
  BY DEF Typed, Queued, Cells
<1>2. CASE amps' = amps
  <2>1. amps'[x[1]][x[2]].by = "set" => BySet(x)
    BY <1>2 DEF BySet
  <2> QED
    BY <2>1, LinesTell
<1>3. CASE KeypadPressed
  <2>1. PICK y \in Cells, v \in Values : AmpSets(y[1], y[2], v, "keypad")
    BY <1>3 DEF KeypadPressed
  <2>2. y[1] \in Zones /\ y[2] \in Attrs
    BY DEF Cells
  <2>3. amps'[x[1]][x[2]] = IF x = <<y[1], y[2]>> THEN [value |-> v, by |-> "keypad"] ELSE amps[x[1]][x[2]]
    BY <1>1, <2>1, <2>2, OneCell
  <2>4. amps'[x[1]][x[2]].by = "set" => amps[x[1]][x[2]].by = "set"
    BY <2>3
  <2> QED
    BY <2>4, LinesTell DEF BySet
<1>4. CASE ControlWritten
  <2>1. /\ Answers("ok") /\ Running \in Commands /\ Running.what = "control" /\ serving # <<>>
        /\ UNCHANGED <<at, req>>
    BY <1>1, <1>4, ServedIsCommand DEF ControlWritten, Answers, callerVars
  <2>2. PICK z \in Zones, a \in Attrs, v \in Value : Running = Control(z, a, v)
    BY <2>1, ControlsTyped
  <2>3. Running.zone = z /\ Running.attr = a /\ Running.value = v
    BY <2>2 DEF Control
  <2>4. amps' = amps \/ AmpSets(z, a, v, "set")
    BY <1>4, <2>3 DEF ControlWritten
  <2>5. CASE x # <<z, a>>
    <3>1. amps'[x[1]][x[2]] = amps[x[1]][x[2]]
      <4>1. CASE AmpSets(z, a, v, "set")
        <5>1. amps'[x[1]][x[2]] = IF x = <<z, a>> THEN [value |-> v, by |-> "set"] ELSE amps[x[1]][x[2]]
          BY <1>1, <4>1, OneCell
        <5> QED
          BY <2>5, <5>1
      <4> QED
        BY <2>4, <4>1
    <3> QED
      BY <3>1, LinesTell DEF BySet
  <2>6. CASE x = <<z, a>>
    <3>1. Standing(serving[1]) /\ Owner = serving[1].owner /\ Running = serving[1].kind
          /\ Owner \in Callers \cup {Nobody}
      BY <1>1, <2>1, ServedIsCommand DEF InQueue, Owner, Running
    <3>2. CASE Owner = Nobody
      BY <1>4, <2>1, <2>3, <2>6, <3>1, <3>2 DEF Standing
    <3>3. CASE Owner # Nobody
      <4>1. PICK c \in Callers : c = Owner
        BY <3>1, <3>3
      <4>2. at[c] = "sent" /\ Matches(c, Running) /\ answered'[c] = "ok"
        BY <2>1, <3>1, <3>3, <4>1 DEF Standing, Answers
      <4>3. c \in Requests /\ Isset(c) /\ Running = Control(req[c].zone, req[c].attr, req[c].value)
        BY <2>1, <4>2 DEF Matches, Callers
      <4>4. req[c].zone = z /\ req[c].attr = a
        BY <2>3, <4>3 DEF Control
      <4>5. Wrote(x)'
        BY <2>1, <2>6, <4>2, <4>3, <4>4 DEF Wrote, Isset
      <4> QED
        BY <1>4, <4>5
    <3> QED
      BY <3>2, <3>3
  <2> QED
    BY <2>5, <2>6
<1>5. KeypadPressed \/ ControlWritten \/ amps' = amps
  BY QueueLeaves, ConnectionLeaves, RequestLeaves, PollLeaves DEF Next, QueueSteps, Connection, GuardAges
<1> QED
  BY <1>2, <1>3, <1>4, <1>5

(* A step keeps a cell covered if it keeps what guards it.                 *)
LEMMA GuardKept ==
    ASSUME Typed, Next, NEW x \in Cells, Guarded(x), excused \subseteq excused',
           \/ recentSets'[x] = recentSets[x]
           \/ recentSets[x] = "expired" /\ recentSets'[x] = "no",
           Wrote(x) => Wrote(x)' \/ x \in excused'
    PROVE  Guarded(x)'
<1>1. BySet(x)' => BySet(x) \/ x \in excused \/ Wrote(x)'
  BY SetIsNew
<1> QED
  BY <1>1 DEF Guarded

(* What a request does.                                                    *)
LEMMA RequestCovered ==
    ASSUME Typed, Next, Covered, NEW c \in Requests, Request(c), NEW x \in Cells
    PROVE  Guarded(x)'
<1>1. /\ CallersTyped /\ QueueTyped /\ c \in Callers /\ at \in [Callers -> Places]
      /\ answered \in [Callers -> Answered] /\ Orderly(c) /\ Guarded(x)
      /\ recentSets \in [Cells -> {"no", "guarded", "expired"}] /\ \A d \in Requests : d \in Callers
  BY DEF Typed, CallersTyped, Queued, QueueTyped, CacheTyped, CacheTypeOK, Callers, Covered
<1>2. excused \subseteq excused'
  BY RequestLeaves DEF ClientLeaves
<1>3. \A d \in Requests \ {c} : answered'[d] = answered[d] /\ at'[d] = at[d] /\ req'[d] = req[d]
  <2>1. CASE PostAttribute(c)
    BY <1>1, <2>1 DEF PostAttribute, Ends, Accepts, Asking, queueVars, CallersTyped
  <2>2. CASE GetZone(c)
    BY <1>1, <2>2 DEF GetZone, Ends, Accepts, Asking, queueVars, CallersTyped
  <2>3. CASE GetZones(c)
    BY <1>1, <2>3 DEF GetZones, Ends, Accepts, Asking, queueVars, CallersTyped
  <2>4. CASE Controller(c) \/ NextAmp(c) \/ SetResponds(c) \/ QueryResponds(c)
    BY <1>1, <2>4 DEF Controller, NextAmp, SetResponds, QueryResponds, Returns, Ends, Enqueue, Queue!Arrive,
                      queueVars
  <2>5. CASE RequestFails(c) \/ ClientLeaves(c) \/ SetSent(c) \/ QueryReturns(c)
    BY <1>1, <2>5 DEF RequestFails, ClientLeaves, SetSent, QueryReturns, Fails, Queue!Leave
  <2>6. CASE BodyUnreadable(c) \/ RecordCommandError(c) \/ StopEnds(c)
    BY <1>1, <2>6 DEF BodyUnreadable, RecordCommandError, StopEnds, Ends, queueVars
  <2> QED
    BY <2>1, <2>2, <2>3, <2>4, <2>5, <2>6 DEF Request, Handler
<1>4. CASE SetSent(c)
  <2>1. recentSets' = [recentSets EXCEPT ![<<req[c].zone, req[c].attr>>] = "guarded"]
    BY <1>4 DEF SetSent, OptimisticSet
  <2>2. CASE x = <<req[c].zone, req[c].attr>>
    BY <1>1, <2>1, <2>2 DEF Guarded
  <2>3. CASE x # <<req[c].zone, req[c].attr>>
    <3>1. recentSets'[x] = recentSets[x]
      BY <1>1, <2>1, <2>3
    <3>2. Wrote(x) => Wrote(x)'
      BY <1>1, <1>3, <2>3 DEF Wrote, Isset
    <3> QED
      BY <1>1, <1>2, <3>1, <3>2, GuardKept
  <2> QED
    BY <2>2, <2>3
<1>5. CASE ~SetSent(c)
  <2>1. recentSets' = recentSets
    BY <1>5, RequestLeaves
  <2>2. Wrote(x) => Wrote(x)' \/ x \in excused'
    <3>1. SUFFICES ASSUME Wrote(x) PROVE Wrote(x)' \/ x \in excused'
      OBVIOUS
    <3>2. PICK d \in Requests : /\ at[d] = "sent" /\ answered[d] = "ok" /\ Isset(d)
                               /\ x = <<req[d].zone, req[d].attr>>
      BY <3>1 DEF Wrote
    <3>3. CASE d # c
      BY <1>3, <3>2, <3>3 DEF Wrote, Isset
    <3>4. CASE d = c
      <4>1. ClientLeaves(c)
        BY <1>5, <3>2, <3>4 DEF Request, PostAttribute, BodyUnreadable, GetZone, GetZones, Accepts, Handler,
              Controller, RequestFails, SetResponds, QueryReturns, NextAmp, QueryResponds,
              RecordCommandError, StopEnds, Isset
      <4> QED
        BY <3>2, <3>4, <4>1 DEF ClientLeaves, Isset
    <3> QED
      BY <3>3, <3>4
  <2> QED
    BY <1>1, <1>2, <2>1, <2>2, GuardKept
<1> QED
  BY <1>4, <1>5

(* A poll cleans up guards that ran out.                                   *)
LEMMA PollCovered ==
    ASSUME Typed, Next, Covered, Poll, NEW x \in Cells
    PROVE  Guarded(x)'
<1>1. /\ CallersTyped /\ QueueTyped /\ Poller \in Callers
      /\ answered \in [Callers -> Answered] /\ at \in [Callers -> Places] /\ Guarded(x)
      /\ recentSets \in [Cells -> {"no", "guarded", "expired"}]
      /\ \A d \in Requests : d \in Callers /\ d # Poller
  BY RequestsAssumption DEF Typed, CallersTyped, Queued, QueueTyped, CacheTyped, CacheTypeOK, Callers, Covered
<1>2. excused' = excused /\ req' = req
  BY PollLeaves
<1>3. \A d \in Requests : at'[d] = at[d] /\ answered'[d] = answered[d]
  BY <1>1 DEF Poll, PollTick, PollYields, PollGoesOn, PollAmp, PollReturns, PollFails, PollUpdates, PollOver,
              Enqueue, Queue!Arrive, Queue!Leave, queueVars
<1>4. Wrote(x) => Wrote(x)'
  BY <1>2, <1>3 DEF Wrote, Isset
<1>5. recentSets' = recentSets \/ recentSets' = Cleaned
  BY PollLeaves DEF PollYields, PollUpdates, Update, cacheVars
<1>6. recentSets'[x] = recentSets[x] \/ (recentSets[x] = "expired" /\ recentSets'[x] = "no")
  BY <1>5 DEF Cleaned
<1> QED
  BY <1>1, <1>2, <1>4, <1>6, GuardKept

LEMMA CoveredKeeps ==
    ASSUME Typed, Next, Covered
    PROVE  Covered'
<1>1. recentSets \in [Cells -> {"no", "guarded", "expired"}] /\ \A x \in Cells : Guarded(x)
  BY DEF Typed, CacheTyped, CacheTypeOK, Covered
<1>2. ASSUME GuardAges, NEW x \in Cells PROVE Guarded(x)'
  <2>1. PICK y \in Cells : GuardExpires(y) /\ excused' = excused \cup {y}
    BY <1>2 DEF GuardAges
  <2>2. UNCHANGED <<at, answered, req>>
    BY <1>2 DEF GuardAges, queueVars, callerVars
  <2>3. CASE x = y
    BY <2>1, <2>3 DEF Guarded
  <2>4. CASE x # y
    <3>1. recentSets'[x] = recentSets[x]
      BY <1>1, <2>1, <2>4 DEF GuardExpires
    <3>2. Wrote(x) => Wrote(x)'
      BY <2>2 DEF Wrote, Isset
    <3> QED
      BY <1>1, <2>1, <3>1, <3>2, GuardKept
  <2> QED
    BY <2>3, <2>4
<1>3. ASSUME QueueSteps, NEW x \in Cells PROVE Guarded(x)'
  <2>1. UNCHANGED <<recentSets, excused>> /\ (Wrote(x) => Wrote(x)')
    BY <1>3, QueueLeaves, AnswersWrote
  <2> QED
    BY <1>1, <2>1, GuardKept
<1>4. ASSUME KeypadPressed \/ Connection, NEW x \in Cells PROVE Guarded(x)'
  <2>1. UNCHANGED <<recentSets, excused, at, req, answered>>
    BY <1>4, ConnectionLeaves DEF KeypadPressed, cacheVars, queueVars, callerVars, historyVars
  <2>2. Wrote(x) => Wrote(x)'
    BY <2>1 DEF Wrote, Isset
  <2> QED
    BY <1>1, <2>1, <2>2, GuardKept
<1>5. ASSUME NEW x \in Cells PROVE Guarded(x)'
  BY <1>2, <1>3, <1>4, RequestCovered, PollCovered DEF Next, QueueSteps, Connection
<1>6. (\A x \in Cells : Guarded(x))'
  BY <1>5 DEF Guarded, BySet, Wrote, Isset
<1> QED
  BY <1>6 DEF Covered

(* A poll logs no set of a client as a change at a keypad, but for guards  *)
(* that ran out or were never set and for sets that are still going on.    *)
THEOREM OwnSetsAreNotLogged == Spec => []EchoesNotLogged
<1>1. Init => Covered
  <2> SUFFICES ASSUME Init, NEW x \in Cells PROVE Guarded(x)
    BY DEF Covered
  <2>1. recentSets[x] = "no" /\ allZones[Poller] = <<>> /\ x[1] \in Zones /\ x[2] \in Attrs
    BY DEF Init, CacheInit, Callers, Cells
  <2>2. \A z \in Zones, a \in Attrs : amps[z][a].by = "keypad"
    BY DEF Init
  <2>3. ASSUME NEW i \in DOMAIN unread, Tells(unread[i], x) PROVE FALSE
    <3>1. Typed
      BY InitTyped
    <3>2. Len(Answer(1)) = ZonesPerAmp /\ unread = Tail(Answer(1)) /\ ZonesPerAmp \in Nat \ {0}
          /\ Answer(1) \in Seq(Spoken)
      BY <3>1, AnswerHeard, BoundsAssumption DEF Typed, Init, OnlyHeard
    <3>3. i + 1 \in 1..ZonesPerAmp /\ unread[i] = Answer(1)[i + 1]
      BY <3>2
    <3>4. unread[i] = ZoneLine(<<1, i + 1>>)
      BY <3>3 DEF Answer
    <3> QED
      BY <2>1, <2>2, <2>3, <3>4 DEF ZoneLine, Tells
  <2> QED
    BY <2>1, <2>2, <2>3 DEF Guarded, BySet
<1>2. Typed /\ Covered /\ [Next]_vars => Covered'
  <2>1. ASSUME Covered, UNCHANGED vars PROVE Covered'
    BY <2>1 DEF vars, cacheVars, queueVars, callerVars, historyVars, Covered, Guarded, BySet, Tells, Wrote, Isset
  <2> QED
    BY <2>1, CoveredKeeps
<1>3. Typed /\ Covered => EchoesNotLogged
  <2> SUFFICES ASSUME Typed, Covered, NEW y \in ToLog, allZones[Poller][y[1]].attrs[y[2]].by = "set"
               PROVE  <<allZones[Poller][y[1]].zone, y[2]>> \in excused \cup BeingSet
    BY DEF EchoesNotLogged
  <2> DEFINE l == allZones[Poller][y[1]]
             x == <<l.zone, y[2]>>
  <2>1. /\ y[1] \in DOMAIN allZones[Poller] /\ y[2] \in Attrs /\ Cleaned[x] = "no"
    BY DEF ToLog, Changes
  <2>2. l \in Lines
    BY <2>1 DEF Typed, LinesTyped, Callers
  <2>3. x \in Cells /\ Tells(l, x)
    BY <2>1, <2>2 DEF Lines, Cells, Tells
  <2>4. BySet(x)
    BY <2>1, <2>3 DEF BySet
  <2> HIDE DEF x
  <2>5. recentSets[x] # "guarded"
    BY <2>1, <2>3 DEF Cleaned
  <2>6. x \in excused \/ Wrote(x)
    BY <2>3, <2>4, <2>5 DEF Covered, Guarded
  <2>7. x \in excused \cup BeingSet
    BY <2>6 DEF Wrote, BeingSet, Isset
  <2> QED
    BY <2>7 DEF x
<1> QED
  BY <1>1, <1>2, <1>3, AlwaysTyped, PTL DEF Spec

=============================================================================
