---------------------------- MODULE QueueProofs -----------------------------
(***************************************************************************)
(* What every step of the command queue preserves, whoever takes it: one   *)
(* lemma per action of CommandQueue, cited by the proofs about the modules *)
(* that extend it.                                                         *)
(***************************************************************************)
EXTENDS CommandQueue, FiniteSetTheorems, TLAPS

(* The types, and the one fact about the data they rest on: whoever is     *)
(* inside Enqueue carries a command.                                       *)
QueueTyped ==
    /\ QueueTypeOK
    /\ \A c \in Callers : call[c] # "idle" => sends[c] \in Kinds

LEMMA ReplyTyped ==
    ASSUME QueueTypeOK, NEW x \in Commands \cup {NoCommand}, NEW r \in Returns, Reply(x, r)
    PROVE  answer' \in [Callers -> Returns \cup {"none"}]
BY NobodyAssumption DEF QueueTypeOK, Reply, Commands, NoCommand

LEMMA CallTyped ==
    ASSUME QueueTyped, NEW c \in Callers, NEW k \in Kinds, Call(c, k)
    PROVE  QueueTyped'
BY DEF QueueTyped, QueueTypeOK, Call, Kinds, Alive

LEMMA SendTyped ==
    ASSUME QueueTyped, NEW c \in Callers, Send(c)
    PROVE  QueueTyped'
<1>1. [owner |-> c, kind |-> sends[c]] \in Commands
  BY DEF QueueTyped, QueueTypeOK, Send, Commands
<1>2. cmdCh' \in Seq(Commands) /\ Len(cmdCh') <= Capacity
  BY <1>1, CapacityAssumption DEF QueueTyped, QueueTypeOK, Send
<1> QED
  BY <1>2 DEF QueueTyped, QueueTypeOK, Send, Alive

LEMMA ReceiveTyped ==
    ASSUME QueueTyped, NEW c \in Callers, Receive(c)
    PROVE  QueueTyped'
BY DEF QueueTyped, QueueTypeOK, Receive, Alive

LEMMA AbandonedTyped ==
    ASSUME NEW c \in Callers, NEW x \in Commands \cup {NoCommand}
    PROVE  /\ Abandoned(x, c) \in Commands \cup {NoCommand}
           /\ x \in Commands => Abandoned(x, c) \in Commands
BY NobodyAssumption DEF Abandoned, Commands, NoCommand

LEMMA GiveUpTyped ==
    ASSUME QueueTyped, NEW c \in Callers, GiveUp(c)
    PROVE  QueueTyped'
<1>1. \A i \in 1..Len(cmdCh) : Abandoned(cmdCh[i], c) \in Commands
  BY AbandonedTyped DEF QueueTyped, QueueTypeOK
<1>2. cmdCh' \in Seq(Commands) /\ Len(cmdCh') = Len(cmdCh)
  BY <1>1 DEF QueueTyped, QueueTypeOK, GiveUp
<1>3. \A l \in Loops : Abandoned(held[l], c) \in Commands \cup {NoCommand}
  BY AbandonedTyped DEF QueueTyped, QueueTypeOK
<1>4. held' \in [Loops -> Commands \cup {NoCommand}]
  BY <1>3 DEF GiveUp
<1>5. answer' \in [Callers -> Returns \cup {"none"}]
  BY DEF QueueTyped, QueueTypeOK, GiveUp, Returns
<1> QED
  BY <1>2, <1>4, <1>5 DEF QueueTyped, QueueTypeOK, GiveUp, Alive

LEMMA ConsumeTyped ==
    ASSUME QueueTyped, NEW c \in Callers, Consume(c)
    PROVE  QueueTyped'
BY DEF QueueTyped, QueueTypeOK, Consume, Alive

LEMMA ConsumeAndCallTyped ==
    ASSUME QueueTyped, NEW c \in Callers, NEW k \in Kinds, ConsumeAndCall(c, k)
    PROVE  QueueTyped'
BY DEF QueueTyped, QueueTypeOK, ConsumeAndCall, Kinds, Alive

LEMMA TakeTyped ==
    ASSUME QueueTyped, NEW l \in Loops, Take(l)
    PROVE  QueueTyped'
<1>1. Head(cmdCh) \in Commands /\ Tail(cmdCh) \in Seq(Commands) /\ Len(Tail(cmdCh)) <= Capacity
  BY CapacityAssumption DEF QueueTyped, QueueTypeOK, Take
<1> QED
  BY <1>1 DEF QueueTyped, QueueTypeOK, Take, Alive

LEMMA FinishTyped ==
    ASSUME QueueTyped, NEW l \in Loops, Finish(l)
    PROVE  QueueTyped'
<1>1. answer' \in [Callers -> Returns \cup {"none"}]
  BY ReplyTyped DEF QueueTyped, QueueTypeOK, Finish, Replies, Returns
<1> QED
  BY <1>1 DEF QueueTyped, QueueTypeOK, Finish, Alive

LEMMA DrainOneTyped ==
    ASSUME QueueTyped, NEW l \in Loops, DrainOne(l)
    PROVE  QueueTyped'
<1>1. Head(cmdCh) \in Commands /\ Tail(cmdCh) \in Seq(Commands) /\ Len(Tail(cmdCh)) <= Capacity
  BY CapacityAssumption DEF QueueTyped, QueueTypeOK, DrainOne
<1>2. answer' \in [Callers -> Returns \cup {"none"}]
  BY <1>1, ReplyTyped DEF QueueTyped, DrainOne, Replies, Returns
<1> QED
  BY <1>1, <1>2 DEF QueueTyped, QueueTypeOK, DrainOne, Alive

LEMMA BeginDrainTyped ==
    ASSUME QueueTyped, NEW l \in Loops, BeginDrain(l)
    PROVE  QueueTyped'
BY DEF QueueTyped, QueueTypeOK, BeginDrain, Alive

LEMMA EndDrainTyped ==
    ASSUME QueueTyped, NEW l \in Loops, EndDrain(l)
    PROVE  QueueTyped'
BY NoLoopAssumption DEF QueueTyped, QueueTypeOK, EndDrain, Alive

LEMMA StartLoopTyped ==
    ASSUME QueueTyped, NEW l \in Loops, NEW done \in BOOLEAN, StartLoop(l, done)
    PROVE  QueueTyped'
BY DEF QueueTyped, QueueTypeOK, StartLoop, Alive

LEMMA CancelLoopTyped ==
    ASSUME QueueTyped, CancelLoop
    PROVE  QueueTyped'
BY DEF QueueTyped, QueueTypeOK, CancelLoop, Alive

LEMMA CallerStepTyped ==
    ASSUME QueueTyped, NEW c \in Callers, CallerStep(c)
    PROVE  QueueTyped'
BY SendTyped, ReceiveTyped, GiveUpTyped DEF CallerStep

LEMMA LoopStepTyped ==
    ASSUME QueueTyped, NEW l \in Loops, LoopStep(l)
    PROVE  QueueTyped'
BY TakeTyped, FinishTyped, BeginDrainTyped, DrainOneTyped, EndDrainTyped DEF LoopStep

LEMMA QueueUnchanged ==
    ASSUME QueueTyped, UNCHANGED queueVars
    PROVE  QueueTyped'
BY DEF QueueTyped, QueueTypeOK, queueVars, Alive

LEMMA QueueInitTyped ==
    ASSUME NEW started \in SUBSET Loops, QueueInit(started)
    PROVE  QueueTyped
BY CapacityAssumption DEF QueueTyped, QueueTypeOK, QueueInit, Alive

-----------------------------------------------------------------------------
(* Where commands are.  A caller that waits for a reply has one command, in*)
(* the channel or in a loop's hands, and nobody else has any.              *)

Waits(c) == call[c] = "waiting" /\ answer[c] = "none"

PlacedFor(c) ==
    /\ \A i, j \in InChannel(c) : i = j
    /\ \A k, l \in HeldFor(c) : k = l
    /\ InChannel(c) = {} \/ HeldFor(c) = {}
    /\ Waits(c) <=> (InChannel(c) # {} \/ HeldFor(c) # {})
    /\ answer[c] # "none" => call[c] \in {"waiting", "returned"}

Placed ==
    /\ \A c \in Callers : PlacedFor(c)
    /\ \A l \in Loops : loop[l] # "execute" => held[l] = NoCommand

LEMMA PlacedOnce == Placed => EachCommandInOnePlace
<1> SUFFICES ASSUME Placed, NEW c \in Callers
             PROVE  Cardinality(InChannel(c)) + Cardinality(HeldFor(c)) = IF Waits(c) THEN 1 ELSE 0
  BY Zenon DEF EachCommandInOnePlace, Placed, PlacedFor, Waits
<1>1. ASSUME NEW S, \A x, y \in S : x = y, S # {}
      PROVE  Cardinality(S) = 1
  <2>1. PICK x : S = {x}
    BY <1>1
  <2> QED
    BY <2>1, FS_Singleton
<1>2. Cardinality({}) = 0
  BY FS_EmptySet
<1>3. CASE Waits(c)
  <2>1. CASE InChannel(c) # {}
    BY <1>1, <1>2, <1>3, <2>1 DEF Placed, PlacedFor
  <2>2. CASE HeldFor(c) # {}
    BY <1>1, <1>2, <1>3, <2>2 DEF Placed, PlacedFor
  <2> QED
    BY <1>3, <2>1, <2>2 DEF Placed, PlacedFor
<1>4. CASE ~Waits(c)
  BY <1>2, <1>4 DEF Placed, PlacedFor
<1> QED
  BY <1>3, <1>4

(* What neither moves a command nor wakes a caller.                        *)
LEMMA PlacedUnmoved ==
    ASSUME Placed, UNCHANGED <<cmdCh, held, call, answer>>,
           \A l \in Loops : loop'[l] # "execute" => loop[l] # "execute"
    PROVE  Placed'
BY DEF Placed, PlacedFor, Waits, InChannel, HeldFor

LEMMA CallPlaced ==
    ASSUME QueueTyped, Placed, NEW c \in Callers, NEW k \in Kinds, Call(c, k)
    PROVE  Placed'
BY DEF QueueTyped, QueueTypeOK, Placed, PlacedFor, Waits, InChannel, HeldFor, Call

LEMMA SendPlaced ==
    ASSUME QueueTyped, Placed, NEW c \in Callers, Send(c)
    PROVE  Placed'
<1>1. /\ Len(cmdCh') = Len(cmdCh) + 1
      /\ cmdCh'[Len(cmdCh) + 1].owner = c
      /\ \A i \in 1..Len(cmdCh) : cmdCh'[i] = cmdCh[i]
      /\ Len(cmdCh) \in Nat
  BY DEF QueueTyped, QueueTypeOK, Send
<1>2. InChannel(c) = {} /\ HeldFor(c) = {}
  BY DEF Placed, PlacedFor, Waits, Send
<1>3. InChannel(c)' = {Len(cmdCh) + 1}
  BY <1>1, <1>2 DEF InChannel
<1>4. \A d \in Callers \ {c} : InChannel(d)' = InChannel(d)
  BY <1>1 DEF InChannel
<1>5. \A d \in Callers : HeldFor(d)' = HeldFor(d)
  BY DEF Send, HeldFor
<1>6. UNCHANGED <<answer, loop, held>> /\ call' = [call EXCEPT ![c] = "waiting"] /\ call[c] = "sending"
  BY DEF Send
<1>7. PlacedFor(c)'
  <2>1. Waits(c)'
    BY <1>6 DEF Placed, PlacedFor, Waits, QueueTyped, QueueTypeOK
  <2>2. answer'[c] = "none"
    BY <1>6 DEF Placed, PlacedFor
  <2> QED
    BY <1>2, <1>3, <1>5, <2>1, <2>2 DEF PlacedFor
<1>8. ASSUME NEW d \in Callers \ {c} PROVE PlacedFor(d)'
  <2>1. call'[d] = call[d] /\ answer'[d] = answer[d]
    BY <1>6 DEF QueueTyped, QueueTypeOK
  <2> QED
    BY <1>4, <1>5, <2>1 DEF Placed, PlacedFor, Waits
<1> QED
  BY <1>6, <1>7, <1>8 DEF Placed

LEMMA ReceivePlaced ==
    ASSUME QueueTyped, Placed, NEW c \in Callers, Receive(c)
    PROVE  Placed'
<1>1. UNCHANGED <<cmdCh, answer, loop, held>> /\ call' = [call EXCEPT ![c] = "returned"]
  BY DEF Receive
<1>2. ASSUME NEW d \in Callers PROVE PlacedFor(d)'
  <2>1. InChannel(d)' = InChannel(d) /\ HeldFor(d)' = HeldFor(d)
    BY <1>1 DEF InChannel, HeldFor
  <2>2. Waits(d)' <=> Waits(d)
    BY <1>1 DEF Waits, Receive, QueueTyped, QueueTypeOK
  <2>3. answer'[d] # "none" => call'[d] \in {"waiting", "returned"}
    BY <1>1 DEF Placed, PlacedFor, QueueTyped, QueueTypeOK
  <2> QED
    BY <2>1, <2>2, <2>3 DEF Placed, PlacedFor
<1> QED
  BY <1>1, <1>2 DEF Placed

LEMMA GiveUpPlaced ==
    ASSUME QueueTyped, Placed, NEW c \in Callers, GiveUp(c)
    PROVE  Placed'
<1>1. ASSUME NEW x \in Commands \cup {NoCommand}
      PROVE  /\ Abandoned(x, c).owner # c
             /\ \A d \in Callers \ {c} : Abandoned(x, c).owner = d <=> x.owner = d
  BY NobodyAssumption DEF Abandoned, Commands, NoCommand
<1>2. /\ Len(cmdCh') = Len(cmdCh)
      /\ \A i \in 1..Len(cmdCh) : cmdCh'[i] = Abandoned(cmdCh[i], c) /\ cmdCh[i] \in Commands
  BY DEF QueueTyped, QueueTypeOK, GiveUp
<1>3. \A l \in Loops : held'[l] = Abandoned(held[l], c) /\ held[l] \in Commands \cup {NoCommand}
  BY DEF QueueTyped, QueueTypeOK, GiveUp
<1>4. InChannel(c)' = {} /\ HeldFor(c)' = {}
  BY <1>1, <1>2, <1>3 DEF InChannel, HeldFor
<1>5. ASSUME NEW d \in Callers \ {c}
      PROVE  InChannel(d)' = InChannel(d) /\ HeldFor(d)' = HeldFor(d) /\ (Waits(d)' <=> Waits(d))
  <2>1. InChannel(d)' = InChannel(d)
    BY <1>1, <1>2 DEF InChannel
  <2>2. HeldFor(d)' = HeldFor(d)
    BY <1>1, <1>3 DEF HeldFor
  <2>3. Waits(d)' <=> Waits(d)
    BY DEF Waits, GiveUp, QueueTyped, QueueTypeOK
  <2> QED BY <2>1, <2>2, <2>3
<1>6. ~Waits(c)'
  BY DEF Waits, GiveUp, QueueTyped, QueueTypeOK
<1>7. \A d \in Callers : answer'[d] # "none" => call'[d] \in {"waiting", "returned"}
  BY DEF Placed, PlacedFor, GiveUp, QueueTyped, QueueTypeOK
<1>8. \A l \in Loops : loop'[l] # "execute" => held'[l] = NoCommand
  BY <1>3, NobodyAssumption DEF Placed, GiveUp, Abandoned, NoCommand
<1> QED
  BY <1>4, <1>5, <1>6, <1>7, <1>8 DEF Placed, PlacedFor

LEMMA ConsumePlaced ==
    ASSUME QueueTyped, Placed, NEW c \in Callers, Consume(c)
    PROVE  Placed'
BY DEF QueueTyped, QueueTypeOK, Placed, PlacedFor, Waits, InChannel, HeldFor, Consume

LEMMA ConsumeAndCallPlaced ==
    ASSUME QueueTyped, Placed, NEW c \in Callers, NEW k \in Kinds, ConsumeAndCall(c, k)
    PROVE  Placed'
BY DEF QueueTyped, QueueTypeOK, Placed, PlacedFor, Waits, InChannel, HeldFor, ConsumeAndCall

(* A command that a loop takes moves from the channel into its hands.      *)
LEMMA HeadTail ==
    ASSUME QueueTyped, cmdCh # <<>>, cmdCh' = Tail(cmdCh)
    PROVE  /\ Head(cmdCh) = cmdCh[1] /\ 1 \in 1..Len(cmdCh) /\ cmdCh[1] \in Commands
           /\ \A d \in Callers : InChannel(d)' = {i - 1 : i \in InChannel(d) \ {1}}
<1>1. /\ Head(cmdCh) = cmdCh[1] /\ Len(cmdCh) \in Nat /\ Len(cmdCh) > 0 /\ cmdCh[1] \in Commands
      /\ Len(Tail(cmdCh)) = Len(cmdCh) - 1
      /\ \A i \in 1..Len(cmdCh) - 1 : Tail(cmdCh)[i] = cmdCh[i + 1]
  BY DEF QueueTyped, QueueTypeOK
<1>2. ASSUME NEW d \in Callers
      PROVE  InChannel(d)' = {i - 1 : i \in InChannel(d) \ {1}}
  <2>1. ASSUME NEW j \in InChannel(d)' PROVE j \in {i - 1 : i \in InChannel(d) \ {1}}
    <3>1. j + 1 \in InChannel(d) \ {1} /\ j = (j + 1) - 1
      BY <1>1, <2>1 DEF InChannel
    <3> QED
      BY <3>1
  <2>2. ASSUME NEW i \in InChannel(d) \ {1} PROVE i - 1 \in InChannel(d)'
    BY <1>1, <2>2 DEF InChannel
  <2> QED
    BY <2>1, <2>2
<1> QED
  BY <1>1, <1>2

LEMMA TakePlaced ==
    ASSUME QueueTyped, Placed, NEW l \in Loops, Take(l)
    PROVE  Placed'
<1>1. /\ loop[l] = "select" /\ cmdCh # <<>> /\ cmdCh' = Tail(cmdCh)
      /\ loop' = [loop EXCEPT ![l] = "execute"] /\ held' = [held EXCEPT ![l] = Head(cmdCh)]
      /\ UNCHANGED <<call, answer>>
  BY DEF Take
<1>2. /\ Head(cmdCh) = cmdCh[1] /\ 1 \in 1..Len(cmdCh)
      /\ \A d \in Callers : InChannel(d)' = {i - 1 : i \in InChannel(d) \ {1}}
  BY <1>1, HeadTail
<1>3. held[l] = NoCommand
  BY <1>1 DEF Placed
<1>4. ASSUME NEW d \in Callers PROVE PlacedFor(d)'
  <2>1. Waits(d)' <=> Waits(d)
    BY <1>1 DEF Waits
  <2>2. CASE cmdCh[1].owner = d
    <3>1. InChannel(d) = {1}
      BY <1>2, <2>2 DEF Placed, PlacedFor, InChannel
    <3>2. InChannel(d)' = {}
      BY <1>2, <3>1
    <3>3. HeldFor(d) = {}
      BY <3>1 DEF Placed, PlacedFor
    <3>4. HeldFor(d)' = {l}
      BY <1>1, <1>2, <2>2, <3>3 DEF HeldFor, QueueTyped, QueueTypeOK
    <3> QED
      BY <1>1, <2>1, <3>1, <3>2, <3>4 DEF Placed, PlacedFor
  <2>3. CASE cmdCh[1].owner # d
    <3>1. 1 \notin InChannel(d)
      BY <2>3 DEF InChannel
    <3>2. InChannel(d)' = {i - 1 : i \in InChannel(d)} /\ InChannel(d) \subseteq Int
      BY <1>2, <3>1 DEF InChannel
    <3>3. HeldFor(d)' = HeldFor(d)
      BY <1>1, <1>2, <1>3, <2>3, NobodyAssumption DEF HeldFor, QueueTyped, QueueTypeOK, NoCommand
    <3>4. (InChannel(d)' = {}) <=> (InChannel(d) = {})
      BY <3>2
    <3>5. \A i, j \in InChannel(d)' : i = j
      BY <3>2 DEF Placed, PlacedFor
    <3> QED
      BY <1>1, <2>1, <3>3, <3>4, <3>5 DEF Placed, PlacedFor
  <2> QED
    BY <2>2, <2>3
<1>5. \A k \in Loops : loop'[k] # "execute" => held'[k] = NoCommand
  BY <1>1 DEF Placed, QueueTyped, QueueTypeOK
<1> QED
  BY <1>4, <1>5 DEF Placed

(* A reply goes to the caller that waits for it.                           *)
LEMMA ReplyWaits ==
    ASSUME QueueTyped, NEW x \in Commands \cup {NoCommand}, NEW r \in Replies, Reply(x, r),
           UNCHANGED call, x.owner # Nobody => Waits(x.owner)
    PROVE  \A d \in Callers :
             /\ Waits(d)' <=> Waits(d) /\ d # x.owner
             /\ d = x.owner => answer'[d] # "none" /\ call'[d] = "waiting"
             /\ d # x.owner => answer'[d] = answer[d]
BY NobodyAssumption DEF QueueTyped, QueueTypeOK, Reply, Waits, Replies, Commands, NoCommand

LEMMA FinishPlaced ==
    ASSUME QueueTyped, Placed, NEW l \in Loops, Finish(l)
    PROVE  Placed'
<1>1. /\ loop[l] = "execute" /\ held' = [held EXCEPT ![l] = NoCommand]
      /\ loop' = [loop EXCEPT ![l] = "select"] /\ UNCHANGED <<cmdCh, call>>
  BY DEF Finish
<1>2. PICK r \in Replies : Reply(held[l], r)
  BY DEF Finish
<1>3. held[l] \in Commands \cup {NoCommand}
  BY DEF QueueTyped, QueueTypeOK
<1>4. held[l].owner \in Callers \cup {Nobody}
  BY <1>3 DEF Commands, NoCommand
<1>5. held[l].owner # Nobody => Waits(held[l].owner) /\ HeldFor(held[l].owner) = {l}
  BY <1>4 DEF Placed, PlacedFor, HeldFor
<1>6. \A d \in Callers :
             /\ Waits(d)' <=> Waits(d) /\ d # held[l].owner
             /\ d = held[l].owner => answer'[d] # "none" /\ call'[d] = "waiting"
             /\ d # held[l].owner => answer'[d] = answer[d]
  BY <1>1, <1>2, <1>3, <1>5, ReplyWaits
<1>7. ASSUME NEW d \in Callers PROVE PlacedFor(d)'
  <2>1. InChannel(d)' = InChannel(d)
    BY <1>1 DEF InChannel
  <2>2. HeldFor(d)' = HeldFor(d) \ {l}
    BY <1>1, NobodyAssumption DEF HeldFor, QueueTyped, QueueTypeOK, NoCommand
  <2>3. d # held[l].owner => l \notin HeldFor(d)
    BY DEF HeldFor
  <2>4. CASE d = held[l].owner
    BY <1>5, <1>6, <2>1, <2>2, <2>4, NobodyAssumption DEF Placed, PlacedFor
  <2>5. CASE d # held[l].owner
    BY <1>1, <1>6, <2>1, <2>2, <2>3, <2>5 DEF Placed, PlacedFor
  <2> QED
    BY <2>4, <2>5
<1>8. \A k \in Loops : loop'[k] # "execute" => held'[k] = NoCommand
  BY <1>1 DEF Placed, QueueTyped, QueueTypeOK
<1> QED
  BY <1>7, <1>8 DEF Placed

LEMMA DrainOnePlaced ==
    ASSUME QueueTyped, Placed, NEW l \in Loops, DrainOne(l)
    PROVE  Placed'
<1>1. /\ cmdCh # <<>> /\ cmdCh' = Tail(cmdCh) /\ UNCHANGED <<call, loop, held>>
      /\ Reply(Head(cmdCh), "shutdown")
  BY DEF DrainOne
<1>2. /\ Head(cmdCh) = cmdCh[1] /\ 1 \in 1..Len(cmdCh) /\ cmdCh[1] \in Commands
      /\ \A d \in Callers : InChannel(d)' = {i - 1 : i \in InChannel(d) \ {1}}
  BY <1>1, HeadTail
<1>3. cmdCh[1].owner \in Callers \cup {Nobody}
  BY <1>2 DEF Commands
<1>4. cmdCh[1].owner # Nobody =>
        Waits(cmdCh[1].owner) /\ InChannel(cmdCh[1].owner) = {1} /\ HeldFor(cmdCh[1].owner) = {}
  BY <1>2, <1>3 DEF Placed, PlacedFor, InChannel
<1>5. \A d \in Callers :
             /\ Waits(d)' <=> Waits(d) /\ d # cmdCh[1].owner
             /\ d = cmdCh[1].owner => answer'[d] # "none" /\ call'[d] = "waiting"
             /\ d # cmdCh[1].owner => answer'[d] = answer[d]
  BY <1>1, <1>2, <1>4, ReplyWaits DEF Replies
<1>6. ASSUME NEW d \in Callers PROVE PlacedFor(d)'
  <2>1. HeldFor(d)' = HeldFor(d)
    BY <1>1 DEF HeldFor
  <2>2. CASE d = cmdCh[1].owner
    <3>1. InChannel(d)' = {} /\ HeldFor(d)' = {}
      BY <1>2, <1>4, <2>1, <2>2, NobodyAssumption
    <3> QED
      BY <1>5, <2>2, <3>1 DEF PlacedFor
  <2>3. CASE d # cmdCh[1].owner
    <3>1. 1 \notin InChannel(d)
      BY <2>3 DEF InChannel
    <3>2. InChannel(d)' = {i - 1 : i \in InChannel(d)} /\ InChannel(d) \subseteq Int
      BY <1>2, <3>1 DEF InChannel
    <3>3. (InChannel(d)' = {}) <=> (InChannel(d) = {})
      BY <3>2
    <3>4. \A i, j \in InChannel(d)' : i = j
      BY <3>2 DEF Placed, PlacedFor
    <3> QED
      BY <1>1, <1>5, <2>1, <2>3, <3>3, <3>4 DEF Placed, PlacedFor
  <2> QED
    BY <2>2, <2>3
<1> QED
  BY <1>1, <1>6 DEF Placed

LEMMA CallerStepPlaced ==
    ASSUME QueueTyped, Placed, NEW c \in Callers, CallerStep(c)
    PROVE  Placed'
BY SendPlaced, ReceivePlaced, GiveUpPlaced DEF CallerStep

LEMMA LoopStepPlaced ==
    ASSUME QueueTyped, Placed, NEW l \in Loops, LoopStep(l)
    PROVE  Placed'
<1>1. CASE BeginDrain(l)
  BY <1>1, PlacedUnmoved DEF BeginDrain, QueueTyped, QueueTypeOK
<1>2. CASE EndDrain(l)
  BY <1>2, PlacedUnmoved DEF EndDrain, QueueTyped, QueueTypeOK
<1> QED
  BY <1>1, <1>2, TakePlaced, FinishPlaced, DrainOnePlaced DEF LoopStep

LEMMA StartLoopPlaced ==
    ASSUME QueueTyped, Placed, NEW l \in Loops, NEW done \in BOOLEAN, StartLoop(l, done)
    PROVE  Placed'
BY PlacedUnmoved DEF StartLoop, Alive, QueueTyped, QueueTypeOK

LEMMA QueueInitPlaced ==
    ASSUME NEW started \in SUBSET Loops, QueueInit(started)
    PROVE  Placed
BY NobodyAssumption DEF QueueInit, Placed, PlacedFor, Waits, InChannel, HeldFor, NoCommand

-----------------------------------------------------------------------------
(* The counter behind PendingCount.                                        *)

Inside == {c \in Callers : call[c] \in {"sending", "waiting"}}

PendingCounted == IsFiniteSet(Inside) /\ pending = Cardinality(Inside)

LEMMA EnterCounted ==
    ASSUME QueueTyped, PendingCounted, NEW c \in Callers, NEW k \in Kinds,
           Call(c, k) \/ ConsumeAndCall(c, k)
    PROVE  PendingCounted'
<1>1. c \notin Inside /\ Inside' = Inside \cup {c} /\ pending' = pending + 1
  BY DEF QueueTyped, QueueTypeOK, Call, ConsumeAndCall, Inside
<1> QED
  BY <1>1, FS_AddElement DEF PendingCounted

LEMMA LeaveCounted ==
    ASSUME QueueTyped, PendingCounted, NEW c \in Callers, Receive(c) \/ GiveUp(c)
    PROVE  PendingCounted'
<1>1. c \in Inside /\ Inside' = Inside \ {c} /\ pending' = pending - 1
  BY DEF QueueTyped, QueueTypeOK, Receive, GiveUp, Inside
<1> QED
  BY <1>1, FS_RemoveElement DEF PendingCounted

LEMMA StayCounted ==
    ASSUME PendingCounted, pending' = pending, Inside' = Inside
    PROVE  PendingCounted'
BY DEF PendingCounted

LEMMA CallerStepCounted ==
    ASSUME QueueTyped, PendingCounted, NEW c \in Callers, CallerStep(c)
    PROVE  PendingCounted'
<1>1. CASE Send(c)
  <2>1. pending' = pending /\ Inside' = Inside
    BY <1>1 DEF QueueTyped, QueueTypeOK, Send, Inside
  <2> QED
    BY <2>1, StayCounted
<1> QED
  BY <1>1, LeaveCounted DEF CallerStep

LEMMA ConsumeCounted ==
    ASSUME QueueTyped, PendingCounted, NEW c \in Callers, Consume(c)
    PROVE  PendingCounted'
<1>1. pending' = pending /\ Inside' = Inside
  BY DEF QueueTyped, QueueTypeOK, Consume, Inside
<1> QED
  BY <1>1, StayCounted

LEMMA LoopStepCounted ==
    ASSUME PendingCounted, NEW l \in Loops, LoopStep(l)
    PROVE  PendingCounted'
<1>1. pending' = pending /\ Inside' = Inside
  BY DEF LoopStep, Take, Finish, BeginDrain, DrainOne, EndDrain, Inside
<1> QED
  BY <1>1, StayCounted

LEMMA QueueInitCounted ==
    ASSUME NEW started \in SUBSET Loops, QueueInit(started)
    PROVE  PendingCounted
<1>1. Inside = {} /\ pending = 0
  BY DEF QueueInit, Inside
<1> QED
  BY <1>1, FS_EmptySet DEF PendingCounted

=============================================================================
