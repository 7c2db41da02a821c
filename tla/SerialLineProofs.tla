-------------------------- MODULE SerialLineProofs --------------------------
(***************************************************************************)
(* The serial line, for any list of rates, any number of lines in an       *)
(* answer and any number of faults: its types, where the port is when the  *)
(* service is Ready, and that probe finds an amplifier that stays on.      *)
(***************************************************************************)
EXTENDS SerialLine, SequenceTheorems, TLAPS

(* Lists of rates that probe and stepUp go through.                        *)
Distinct(s) == \A i, j \in DOMAIN s : i # j => s[i] # s[j]

LEMMA PlaceOf ==
    ASSUME NEW s, NEW i \in DOMAIN s, Distinct(s)
    PROVE  Place(s, s[i]) = i
<1>1. \E j \in DOMAIN s : s[j] = s[i]
  OBVIOUS
<1>2. Place(s, s[i]) \in DOMAIN s /\ s[Place(s, s[i])] = s[i]
  BY <1>1 DEF Place
<1> QED
  BY <1>2 DEF Distinct

LEMMA RatesListed ==
    /\ ValidBaudRates \in Seq(Nat \ {0})
    /\ DOMAIN ValidBaudRates = 1..Len(ValidBaudRates)
    /\ Len(ValidBaudRates) \in Nat \ {0}
    /\ ValidBaudRates \in Seq(Rates)
    /\ Distinct(ValidBaudRates)
    /\ Rates \subseteq Nat \ {0}
<1>1. ValidBaudRates \in Seq(Nat \ {0}) /\ DOMAIN ValidBaudRates = 1..Len(ValidBaudRates)
  BY RatesAssumption
<1>2. Len(ValidBaudRates) \in Nat \ {0}
  BY <1>1, RatesAssumption DEF Rates
<1>3. \A i \in 1..Len(ValidBaudRates) : ValidBaudRates[i] \in Rates /\ ValidBaudRates[i] \in Nat \ {0}
  BY <1>1 DEF Rates
<1>4. ValidBaudRates \in Seq(Rates)
  BY <1>1, <1>3
<1>5. Distinct(ValidBaudRates)
  <2> SUFFICES ASSUME NEW i \in 1..Len(ValidBaudRates), NEW j \in 1..Len(ValidBaudRates), i # j
               PROVE  ValidBaudRates[i] # ValidBaudRates[j]
    BY <1>1 DEF Distinct
  <2>1. i < j \/ j < i
    BY <1>2
  <2> QED
    BY <1>1, <1>3, <2>1, RatesAssumption
<1>6. Rates \subseteq Nat \ {0}
  BY <1>1, <1>3 DEF Rates
<1> QED
  BY <1>1, <1>2, <1>4, <1>5, <1>6

(* The place of a rate, and how it compares with another's.                *)
At(r) == Place(ValidBaudRates, r)

LEMMA RateAt ==
    ASSUME NEW r \in Rates
    PROVE  At(r) \in 1..Len(ValidBaudRates) /\ ValidBaudRates[At(r)] = r
<1>1. PICK i \in DOMAIN ValidBaudRates : r = ValidBaudRates[i]
  BY DEF Rates
<1> QED
  BY <1>1, PlaceOf, RatesListed DEF At

LEMMA SlowerFirst ==
    ASSUME NEW r \in Rates, NEW t \in Rates
    PROVE  (At(r) < At(t)) <=> (r < t)
<1>1. At(r) < At(t) => r < t
  BY RateAt, RatesListed, RatesAssumption
<1>2. At(t) < At(r) => t < r
  BY RateAt, RatesListed, RatesAssumption
<1> QED
  BY <1>1, <1>2, RateAt, RatesListed

(* A part of a sequence, after i and up to n.                              *)
LEMMA PartOf ==
    ASSUME NEW S, NEW s \in Seq(S), NEW i \in 0..Len(s), NEW n \in i..Len(s)
    PROVE  /\ SubSeq(s, i + 1, n) \in Seq(S)
           /\ Len(SubSeq(s, i + 1, n)) = n - i
           /\ DOMAIN SubSeq(s, i + 1, n) = 1..n-i
           /\ \A j \in 1..n-i : SubSeq(s, i + 1, n)[j] = s[i + j]
<1>1. \A j \in 1..n-i : (i + 1) + j - 1 = i + j
  OBVIOUS
<1>2. /\ SubSeq(s, i + 1, n) \in Seq(S) /\ Len(SubSeq(s, i + 1, n)) = n - i
      /\ DOMAIN SubSeq(s, i + 1, n) = 1..n-i
      /\ \A j \in 1..n-i : SubSeq(s, i + 1, n)[j] = s[(i + 1) + j - 1]
  OBVIOUS
<1> QED
  BY <1>1, <1>2

(* What is left on both sides when the i-th element is taken out.          *)
LEMMA SidesOf ==
    ASSUME NEW S, NEW s \in Seq(S), NEW i \in 1..Len(s)
    PROVE  /\ /\ SubSeq(s, 1, i - 1) \in Seq(S) /\ Len(SubSeq(s, 1, i - 1)) = i - 1
              /\ \A j \in 1..i-1 : SubSeq(s, 1, i - 1)[j] = s[j]
           /\ /\ SubSeq(s, i + 1, Len(s)) \in Seq(S) /\ Len(SubSeq(s, i + 1, Len(s))) = Len(s) - i
              /\ \A j \in 1..Len(s)-i : SubSeq(s, i + 1, Len(s))[j] = s[i + j]
<1>1. i \in 0..Len(s) /\ Len(s) \in i..Len(s)
  OBVIOUS
<1> QED
  BY <1>1, PartOf

LEMMA WithoutOne ==
    ASSUME NEW S, NEW s \in Seq(S), Distinct(s), NEW i \in 1..Len(s)
    PROVE  /\ Without(s, s[i]) \in Seq(S)
           /\ Len(Without(s, s[i])) = Len(s) - 1
           /\ Distinct(Without(s, s[i]))
           /\ Range(Without(s, s[i])) = Range(s) \ {s[i]}
<1> DEFINE w == Without(s, s[i])
           old(j) == IF j < i THEN j ELSE j + 1
<1>1. Len(s) \in Nat /\ DOMAIN s = 1..Len(s)
  OBVIOUS
<1>2. w = SubSeq(s, 1, i - 1) \o SubSeq(s, i + 1, Len(s))
  BY <1>1, PlaceOf DEF Without, RemoveAt
<1>3. /\ SubSeq(s, 1, i - 1) \in Seq(S) /\ Len(SubSeq(s, 1, i - 1)) = i - 1
      /\ \A j \in 1..i-1 : SubSeq(s, 1, i - 1)[j] = s[j]
  BY SidesOf
<1>4. /\ SubSeq(s, i + 1, Len(s)) \in Seq(S) /\ Len(SubSeq(s, i + 1, Len(s))) = Len(s) - i
      /\ \A j \in 1..Len(s)-i : SubSeq(s, i + 1, Len(s))[j] = s[i + j]
  BY SidesOf
<1>5. /\ w \in Seq(S) /\ Len(w) = Len(s) - 1
      /\ \A j \in 1..Len(s)-1 : w[j] = IF j <= i - 1 THEN SubSeq(s, 1, i - 1)[j]
                                                     ELSE SubSeq(s, i + 1, Len(s))[j - (i - 1)]
  <2>1. (i - 1) + (Len(s) - i) = Len(s) - 1
    BY <1>1
  <2> HIDE DEF w
  <2>2. /\ w \in Seq(S)
        /\ Len(w) = Len(SubSeq(s, 1, i - 1)) + Len(SubSeq(s, i + 1, Len(s)))
        /\ \A j \in 1..Len(SubSeq(s, 1, i - 1)) + Len(SubSeq(s, i + 1, Len(s))) :
             w[j] = IF j <= Len(SubSeq(s, 1, i - 1))
                    THEN SubSeq(s, 1, i - 1)[j]
                    ELSE SubSeq(s, i + 1, Len(s))[j - Len(SubSeq(s, 1, i - 1))]
    BY <1>2, <1>3, <1>4, ConcatProperties, Zenon
  <2> QED
    BY <1>3, <1>4, <2>1, <2>2, Zenon
<1>6. \A j \in 1..Len(s)-1 : w[j] = s[old(j)] /\ old(j) \in 1..Len(s) /\ old(j) # i
  <2> HIDE DEF w
  <2> TAKE j \in 1..Len(s)-1
  <2>1. CASE j < i
    <3>1. j \in 1..i-1 /\ j <= i - 1 /\ old(j) = j /\ j \in 1..Len(s)
      BY <1>1, <2>1
    <3> QED
      BY <1>3, <1>5, <2>1, <3>1
  <2>2. CASE ~(j < i)
    <3>1. /\ j - (i - 1) \in 1..Len(s)-i /\ i + (j - (i - 1)) = j + 1
          /\ ~(j <= i - 1) /\ old(j) = j + 1 /\ j + 1 \in 1..Len(s) /\ j + 1 # i
      BY <1>1, <2>2
    <3> HIDE DEF old
    <3>2. w[j] = SubSeq(s, i + 1, Len(s))[j - (i - 1)]
      BY <1>5, <3>1
    <3>3. SubSeq(s, i + 1, Len(s))[j - (i - 1)] = s[i + (j - (i - 1))]
      BY <1>4, <3>1
    <3> QED
      BY <3>1, <3>2, <3>3
  <2> QED
    BY <2>1, <2>2
<1>7. DOMAIN w = 1..Len(s)-1
  BY <1>5
<1>8. Distinct(w)
  <2> SUFFICES ASSUME NEW j \in 1..Len(s)-1, NEW k \in 1..Len(s)-1, j # k
               PROVE  w[j] # w[k]
    BY <1>7 DEF Distinct
  <2>1. old(j) # old(k)
    OBVIOUS
  <2> HIDE DEF w, old
  <2> QED
    BY <1>1, <1>6, <2>1 DEF Distinct
<1>9. Range(w) = Range(s) \ {s[i]}
  <2>1. ASSUME NEW j \in 1..Len(s)-1 PROVE w[j] \in Range(s) \ {s[i]}
    <3> HIDE DEF w, old
    <3> QED
      BY <1>1, <1>6 DEF Range, Distinct
  <2>2. ASSUME NEW k \in 1..Len(s), k # i PROVE \E j \in 1..Len(s)-1 : w[j] = s[k]
    <3>1. CASE k < i
      <4>1. k \in 1..Len(s)-1 /\ old(k) = k
        BY <1>1, <3>1
      <4> QED
        BY <1>6, <4>1
    <3>2. CASE ~(k < i)
      <4>1. k - 1 \in 1..Len(s)-1 /\ old(k - 1) = k
        BY <1>1, <2>2, <3>2
      <4> QED
        BY <1>6, <4>1
    <3> QED
      BY <3>1, <3>2
  <2> HIDE DEF w, old
  <2>3. Range(w) \subseteq Range(s) \ {s[i]}
    BY <1>7, <2>1 DEF Range
  <2>4. Range(s) \ {s[i]} \subseteq Range(w)
    BY <1>1, <1>7, <2>2 DEF Range
  <2> QED
    BY <2>3, <2>4
<1> QED
  BY <1>5, <1>8, <1>9

(* stepUp: the rates above the one where it begins, up to the target.      *)
LEMMA StepsUp ==
    ASSUME NEW r \in Rates
    PROVE  /\ BaudRateSteps(r, Target) \in Seq(Rates)
           /\ r < Target => BaudRateSteps(r, Target) = SubSeq(ValidBaudRates, At(r) + 1, At(Target))
<1>1. At(r) \in 1..Len(ValidBaudRates) /\ At(Target) \in 1..Len(ValidBaudRates)
  BY RateAt, TargetAssumption
<1>2. BaudRateSteps(r, Target) =
        SubSeq(ValidBaudRates, At(r) + 1, IF r < Target THEN At(Target) ELSE Len(ValidBaudRates))
  BY TargetAssumption DEF BaudRateSteps, At
<1>3. CASE r < Target
  <2>1. At(r) \in 0..Len(ValidBaudRates) /\ At(Target) \in At(r)..Len(ValidBaudRates)
    BY <1>1, <1>3, SlowerFirst, TargetAssumption, RatesListed
  <2>2. BaudRateSteps(r, Target) = SubSeq(ValidBaudRates, At(r) + 1, At(Target))
    BY <1>2, <1>3
  <2>3. SubSeq(ValidBaudRates, At(r) + 1, At(Target)) \in Seq(Rates)
    BY <2>1, RatesListed, PartOf
  <2> QED
    BY <2>2, <2>3
<1>4. CASE ~(r < Target)
  <2>1. At(r) \in 0..Len(ValidBaudRates) /\ Len(ValidBaudRates) \in At(r)..Len(ValidBaudRates)
    BY <1>1, RatesListed
  <2> QED
    BY <1>2, <1>4, <2>1, RatesListed, PartOf
<1> QED
  BY <1>3, <1>4

(* probe: every rate once, the given one first.                            *)
LEMMA OrderOf ==
    ASSUME NEW r \in Rates
    PROVE  /\ TryOrder(r) \in Seq(Rates)
           /\ Len(TryOrder(r)) = Len(ValidBaudRates)
           /\ DOMAIN TryOrder(r) = 1..Len(ValidBaudRates)
           /\ TryOrder(r)[1] = r
           /\ \A t \in Rates : \E i \in 1..Len(ValidBaudRates) : TryOrder(r)[i] = t
<1> DEFINE once == Without(ValidBaudRates, r)
           twice == Without(once, Default)
<1>1. /\ once \in Seq(Rates) /\ Len(once) = Len(ValidBaudRates) - 1 /\ Distinct(once)
      /\ Range(once) = Rates \ {r}
  <2>1. At(r) \in 1..Len(ValidBaudRates) /\ ValidBaudRates[At(r)] = r
    BY RateAt
  <2>2. Rates = Range(ValidBaudRates)
    BY DEF Rates, Range
  <2> HIDE DEF once
  <2>3. once = Without(ValidBaudRates, ValidBaudRates[At(r)])
    BY <2>1, Zenon DEF once
  <2>4. /\ once \in Seq(Rates) /\ Len(once) = Len(ValidBaudRates) - 1 /\ Distinct(once)
        /\ Range(once) = Range(ValidBaudRates) \ {ValidBaudRates[At(r)]}
    BY <2>1, <2>3, RatesListed, WithoutOne, Zenon
  <2> QED
    BY <2>1, <2>2, <2>4, Zenon
<1>2. CASE r = Default
  <2>1. TryOrder(r) = <<r>> \o once
    BY <1>2 DEF TryOrder
  <2> HIDE DEF once
  <2>2. /\ TryOrder(r) \in Seq(Rates) /\ Len(TryOrder(r)) = Len(ValidBaudRates)
        /\ TryOrder(r)[1] = r
        /\ \A i \in 1..Len(once) : TryOrder(r)[i + 1] = once[i]
    BY <1>1, <2>1, RatesListed
  <2>3. ASSUME NEW t \in Rates PROVE \E i \in 1..Len(ValidBaudRates) : TryOrder(r)[i] = t
    <3>1. CASE t = r
      BY <2>2, <3>1, RatesListed
    <3>2. CASE t # r
      <4>1. PICK i \in 1..Len(once) : once[i] = t
        BY <1>1, <3>2 DEF Range
      <4>2. i + 1 \in 1..Len(ValidBaudRates) /\ TryOrder(r)[i + 1] = t
        BY <1>1, <2>2, <4>1, RatesListed
      <4> QED
        BY <4>2
    <3> QED
      BY <3>1, <3>2
  <2> QED
    BY <2>2, <2>3
<1>3. CASE r # Default
  <2>1. TryOrder(r) = <<r, Default>> \o twice
    BY <1>3 DEF TryOrder
  <2>2. PICK d \in 1..Len(once) : once[d] = Default
    BY <1>1, <1>3, RatesAssumption DEF Range
  <2> HIDE DEF once
  <2>3. /\ twice \in Seq(Rates) /\ Len(twice) = Len(once) - 1
        /\ Range(twice) = Range(once) \ {Default}
    BY <1>1, <2>2, WithoutOne
  <2> HIDE DEF twice
  <2>4. Len(once) \in Nat /\ Len(once) >= 1
    BY <1>1, <2>2
  <2>5. /\ TryOrder(r) \in Seq(Rates) /\ Len(TryOrder(r)) = Len(ValidBaudRates)
        /\ TryOrder(r)[1] = r /\ TryOrder(r)[2] = Default
        /\ \A i \in 1..Len(twice) : TryOrder(r)[i + 2] = twice[i]
    BY <1>1, <2>1, <2>3, <2>4, RatesListed, RatesAssumption
  <2>6. ASSUME NEW t \in Rates PROVE \E i \in 1..Len(ValidBaudRates) : TryOrder(r)[i] = t
    <3>1. CASE t \in {r, Default}
      <4>1. 1 \in 1..Len(ValidBaudRates) /\ 2 \in 1..Len(ValidBaudRates)
        BY <1>1, <2>4, RatesListed
      <4> QED
        BY <2>5, <3>1, <4>1
    <3>2. CASE t \notin {r, Default}
      <4>1. PICK i \in 1..Len(twice) : twice[i] = t
        BY <1>1, <2>3, <3>2 DEF Range
      <4>2. i + 2 \in 1..Len(ValidBaudRates) /\ TryOrder(r)[i + 2] = t
        <5>1. Len(twice) = Len(ValidBaudRates) - 2 /\ Len(ValidBaudRates) \in Nat
          BY <1>1, <2>3, RatesListed
        <5>2. i + 2 \in 1..Len(ValidBaudRates)
          BY <5>1
        <5> QED
          BY <2>5, <4>1, <5>2
      <4> QED
        BY <4>2
    <3> QED
      BY <3>1, <3>2
  <2> QED
    BY <2>5, <2>6
<1> QED
  BY <1>2, <1>3

-----------------------------------------------------------------------------
(* Types, and where the port is known to be.                               *)

Items == Line \cup Change

FlagsTyped == open \in BOOLEAN /\ boot \in BOOLEAN /\ disturbed \in BOOLEAN

LineTyped ==
    /\ amp \in Rates \cup {Off}
    /\ work \in Seq(Items)
    /\ buffer \in Seq(Line)
    /\ ~open => buffer = <<>>

DriverTyped ==
    /\ portRate \in Rates \cup {NoRate}
    /\ phase \in Connecting \cup Serving \cup {"failed"}
    /\ ctx \in {"process", "request", "done"}
    /\ probe \in [start : Rates, at : 1..Len(ValidBaudRates), round : 1..MaxAttempts]
    /\ steps \in Seq(Rates)
    /\ got \in 0..Lines-1
    /\ faults \in 0..MaxFaults

(* Whoever listens or changes the rate has opened the port, and has a rate *)
(* to go to; probe listens at the rate it tries.                           *)
AtPort == {"listen", "change", "settle", "verify"} \cup Serving
PortKnown ==
    /\ phase \in AtPort => open /\ portRate \in Rates
    /\ phase = "listen" => portRate = Trying
    /\ phase \in {"change", "settle", "verify"} => steps # <<>>

Typed == FlagsTyped /\ LineTyped /\ DriverTyped /\ PortKnown

LEMMA TryingRate ==
    ASSUME DriverTyped
    PROVE  Trying \in Rates /\ Order \in Seq(Rates) /\ Len(Order) = Len(ValidBaudRates)
<1>1. probe.start \in Rates /\ probe.at \in 1..Len(ValidBaudRates)
  BY DEF DriverTyped
<1>2. Order \in Seq(Rates) /\ Len(Order) = Len(ValidBaudRates)
  BY <1>1, OrderOf DEF Order
<1> QED
  BY <1>1, <1>2 DEF Trying

LEMMA ConnectTyped ==
    ASSUME NEW rate \in Rates \cup {NoRate}, Connect(rate)
    PROVE  /\ phase' = "open" /\ steps' = <<>> /\ got' = 0
           /\ probe' \in [start : Rates, at : 1..Len(ValidBaudRates), round : 1..MaxAttempts]
BY TargetAssumption, BoundsAssumption, RatesListed DEF Connect

LEMMA NextRateTyped ==
    ASSUME DriverTyped, NextRate
    PROVE  /\ phase' \in {"open", "pause", "failed"}
           /\ probe' \in [start : Rates, at : 1..Len(ValidBaudRates), round : 1..MaxAttempts]
<1> USE DEF DriverTyped
<1>1. Len(Order) = Len(ValidBaudRates) /\ Len(ValidBaudRates) \in Nat \ {0}
  BY TryingRate, RatesListed
<1>2. probe.at \in 1..Len(ValidBaudRates) /\ probe.round \in 1..MaxAttempts /\ MaxAttempts \in Nat
  BY BoundsAssumption
<1>3. CASE probe.at < Len(Order)
  <2>1. probe.at + 1 \in 1..Len(ValidBaudRates)
    BY <1>1, <1>2, <1>3
  <2> QED
    BY <1>3, <2>1 DEF NextRate
<1>4. CASE ~(probe.at < Len(Order)) /\ probe.round < MaxAttempts
  <2>1. 1 \in 1..Len(ValidBaudRates) /\ probe.round + 1 \in 1..MaxAttempts
    BY <1>1, <1>2, <1>4
  <2> QED
    BY <1>4, <2>1 DEF NextRate
<1>5. CASE ~(probe.at < Len(Order)) /\ ~(probe.round < MaxAttempts)
  BY <1>5 DEF NextRate
<1> QED
  BY <1>3, <1>4, <1>5

LEMMA PassesTyped ==
    ASSUME DriverTyped, NEW late, Passes(late)
    PROVE  faults' \in 0..MaxFaults
BY BoundsAssumption DEF DriverTyped, Passes

LEMMA ConnectedTyped ==
    ASSUME NEW rate \in Rates \cup {NoRate}, Connect(rate), portRate' \in Rates \cup {NoRate},
           ctx' \in {"process", "request", "done"}, faults' \in 0..MaxFaults
    PROVE  DriverTyped'
<1>1. /\ phase' = "open" /\ steps' = <<>> /\ got' = 0
      /\ probe' \in [start : Rates, at : 1..Len(ValidBaudRates), round : 1..MaxAttempts]
  BY ConnectTyped
<1> QED
  BY <1>1, BoundsAssumption DEF DriverTyped, Connecting

LEMMA FaultTyped ==
    ASSUME DriverTyped, Fault
    PROVE  faults' \in 0..MaxFaults
BY BoundsAssumption DEF DriverTyped, Fault

LEMMA BufferHead ==
    ASSUME LineTyped, buffer # <<>>
    PROVE  Head(buffer) \in Line /\ Tail(buffer) \in Seq(Line)
BY DEF LineTyped

ZoneLines == [i \in 1..Lines |-> [what |-> "zone"]]

LEMMA ZoneLinesTyped == ZoneLines \in Seq(Items)
<1>1. Lines \in Nat /\ [what |-> "zone"] \in Items
  BY BoundsAssumption DEF Line, Items
<1> QED
  BY <1>1 DEF ZoneLines

LEMMA AskTyped ==
    ASSUME LineTyped, NEW rate, NEW unread \in Seq(Line), Ask(rate, unread)
    PROVE  work' \in Seq(Items) /\ buffer' = unread
<1>1. work' = work \o IF Hears(rate) THEN ZoneLines ELSE <<>>
  BY DEF Ask, ZoneLines
<1>2. work \in Seq(Items) /\ <<>> \in Seq(Items) /\ buffer' = unread
  BY DEF LineTyped, Ask
<1> QED
  BY <1>1, <1>2, ZoneLinesTyped, ConcatProperties

LEMMA StepsHead ==
    ASSUME DriverTyped, steps # <<>>
    PROVE  Head(steps) \in Rates /\ Tail(steps) \in Seq(Rates)
BY DEF DriverTyped

LEMMA DisturbedTyped == AnswerDue \in BOOLEAN /\ \A rate : Connect(rate) => disturbed' \in BOOLEAN
BY Zenon DEF Connect, Disturbed, AnswerDue

LEMMA FlagsKept == Typed /\ [Next]_vars => FlagsTyped'
<1> SUFFICES ASSUME Typed, [Next]_vars PROVE FlagsTyped'
  OBVIOUS
<1> USE DEF Typed, FlagsTyped, portVars, driverVars
<1>1. CASE AmpWorks \/ PowerOn \/ AmpFault \/ SendControl \/ ContextEnds
  BY <1>1, Zenon DEF AmpWorks, PowerOn, AmpFault, PowerOff, AmpResets, Fault, SendControl, ContextEnds
<1>2. CASE PortFault
  <2>1. CASE OpenFails \/ ProbeWriteFails
    BY <2>1, Zenon DEF OpenFails, ProbeWriteFails
  <2>2. CASE ChangeLost
    BY <2>2, DisturbedTyped, Zenon DEF ChangeLost
  <2>3. CASE SetBaudRateFails
    BY <2>3, DisturbedTyped, Zenon DEF SetBaudRateFails
  <2>4. CASE QueryWriteFails
    BY <2>4, DisturbedTyped, Zenon DEF QueryWriteFails, Recover
  <2> QED
    BY <1>2, <2>1, <2>2, <2>3, <2>4 DEF PortFault
<1>3. CASE StartQuery("health") \/ StartQuery("query") \/ ReadZone \/ OpenAndAsk \/ SkipLine \/ PauseEnds
           \/ SendChange
  BY <1>3, Zenon DEF StartQuery, ReadZone, OpenAndAsk, SkipLine, PauseEnds, SendChange
<1>4. CASE Found \/ Verified
  BY <1>4, Zenon DEF Found, Verified
<1>5. CASE NotFound \/ SetBaudRate \/ StepAborted \/ NotVerified
  BY <1>5, DisturbedTyped, Zenon DEF NotFound, SetBaudRate, StepAborted, NotVerified
<1>6. CASE ReadError \/ QueryTimesOut \/ Interrupted
  BY <1>6, DisturbedTyped, Zenon DEF ReadError, QueryTimesOut, Interrupted, QueryFails, Recover
<1>7. CASE BootFails \/ Crash
  BY <1>7, DisturbedTyped, Zenon DEF BootFails, Crash, NewProcess
<1>8. CASE UNCHANGED vars
  BY <1>8, Zenon DEF vars
<1> QED
  BY <1>1, <1>2, <1>3, <1>4, <1>5, <1>6, <1>7, <1>8 DEF Next, Driver

LEMMA WorkHead ==
    ASSUME LineTyped, work # <<>>
    PROVE  /\ Tail(work) \in Seq(Items)
           /\ Head(work).what = "change" => Head(work) \in Change /\ Head(work).rate \in Rates
           /\ Head(work).what # "change" => Head(work) \in Line
<1>1. Head(work) \in Items /\ Tail(work) \in Seq(Items)
  BY DEF LineTyped
<1> QED
  BY <1>1 DEF Items, Line, Change

LEMMA ItemsTyped ==
    /\ [what |-> "error"] \in Items
    /\ \A r \in Rates : [what |-> "change", rate |-> r] \in Items
BY DEF Items, Line, Change

LEMMA AmpWorksLine ==
    ASSUME LineTyped, AmpWorks
    PROVE  LineTyped'
<1>1. work # <<>> /\ work' = Tail(work) /\ open' = open
  BY DEF AmpWorks, portVars
<1>2. CASE Head(work).what = "change"
  BY <1>1, <1>2, WorkHead DEF AmpWorks, LineTyped
<1>3. CASE Head(work).what # "change"
  <2>1. Head(work) \in Line
    BY <1>1, <1>3, WorkHead
  <2>2. /\ buffer' = IF open /\ amp = portRate THEN Append(buffer, Head(work)) ELSE buffer
        /\ amp' = amp
    BY <1>3 DEF AmpWorks
  <2>3. buffer' \in Seq(Line)
    BY <2>1, <2>2 DEF LineTyped
  <2>4. ~open' => buffer' = <<>>
    BY <1>1, <2>2 DEF LineTyped
  <2> QED
    BY <1>1, <2>2, <2>3, <2>4, WorkHead DEF LineTyped
<1> QED
  BY <1>2, <1>3

(* What gives the line no new item.                                        *)
LEMMA LineEmptied ==
    ASSUME LineTyped, amp' \in Rates \cup {Off}, work' \in {work, <<>>},
           \/ buffer' = <<>>
           \/ buffer' = buffer /\ (open' = open \/ open' = TRUE)
    PROVE  LineTyped'
<1>1. <<>> \in Seq(Items) /\ <<>> \in Seq(Line)
  OBVIOUS
<1> QED
  BY <1>1, Zenon DEF LineTyped

LEMMA LineKept == Typed /\ [Next]_vars => LineTyped'
<1> SUFFICES ASSUME Typed, [Next]_vars PROVE LineTyped'
  OBVIOUS
<1> USE DEF Typed
<1>1. CASE AmpWorks
  BY <1>1, AmpWorksLine
<1>2. CASE PowerOn \/ AmpFault \/ ContextEnds
  <2>1. amp' \in Rates \cup {Off} /\ work' \in {work, <<>>} /\ UNCHANGED <<buffer, open>>
    BY <1>2, RatesAssumption
    DEF PowerOn, AmpFault, PowerOff, AmpResets, ContextEnds, LineTyped, lineVars, portVars
  <2> QED
    BY <2>1, LineEmptied
<1>3. CASE OpenFails \/ ProbeWriteFails \/ NotFound
  <2>1. amp' = amp /\ amp \in Rates \cup {Off} /\ work' = work /\ buffer' = <<>>
    BY <1>3 DEF OpenFails, ProbeWriteFails, NotFound, LineTyped
  <2> QED
    BY <2>1, LineEmptied
<1>4. CASE ChangeLost \/ SetBaudRateFails \/ StepAborted \/ NotVerified
  <2>1. /\ amp' = amp /\ amp \in Rates \cup {Off} /\ work' = work
        /\ \/ buffer' = <<>>
           \/ buffer' = buffer /\ (open' = open \/ open' = TRUE)
    BY <1>4 DEF ChangeLost, SetBaudRateFails, StepAborted, NotVerified, LineTyped, lineVars, portVars
  <2> QED
    BY <2>1, LineEmptied
<1>5. CASE OpenAndAsk
  <2>1. open' = TRUE /\ amp' = amp /\ Ask(Trying, <<>>) /\ <<>> \in Seq(Line)
    BY <1>5 DEF OpenAndAsk
  <2> QED
    BY <2>1, AskTyped DEF LineTyped
<1>6. CASE SetBaudRate
  <2>1. open' = open /\ amp' = amp /\ buffer \in Seq(Line) /\ <<>> \in Seq(Line)
    BY <1>6 DEF SetBaudRate, LineTyped
  <2>2. work' \in Seq(Items) /\ buffer' \in {buffer, <<>>}
    BY <1>6, <2>1, AskTyped DEF SetBaudRate
  <2> QED
    BY <2>1, <2>2 DEF LineTyped
<1>7. CASE StartQuery("health") \/ StartQuery("query")
  <2>1. open' = open /\ amp' = amp /\ buffer \in Seq(Line) /\ Ask(portRate, buffer)
    BY <1>7 DEF StartQuery, portVars, LineTyped
  <2> QED
    BY <2>1, AskTyped DEF LineTyped
<1>8. CASE SendControl \/ SendChange
  <2>1. open' = open /\ amp' = amp /\ buffer' = buffer
    BY <1>8 DEF SendControl, SendChange, portVars
  <2>2. work' \in Seq(Items)
    <3>1. CASE SendControl
      BY <3>1, ItemsTyped DEF SendControl, LineTyped
    <3>2. CASE SendChange
      <4>1. [what |-> "change", rate |-> Head(steps)] \in Items
        BY <3>2, StepsHead, ItemsTyped DEF SendChange, PortKnown
      <4> QED
        BY <3>2, <4>1 DEF SendChange, LineTyped
    <3> QED
      BY <1>8, <3>1, <3>2
  <2> QED
    BY <2>1, <2>2 DEF LineTyped
<1>9. CASE Found \/ SkipLine \/ Verified \/ ReadZone \/ ReadError
  <2>1. open' = open /\ amp' = amp /\ work' = work /\ buffer # <<>> /\ buffer' = Tail(buffer)
    BY <1>9 DEF Found, SkipLine, Verified, ReadZone, ReadError, portVars
  <2> QED
    BY <2>1, BufferHead DEF LineTyped
<1>10. CASE QueryTimesOut \/ QueryWriteFails \/ Interrupted \/ PauseEnds \/ UNCHANGED vars
  BY <1>10 DEF QueryTimesOut, QueryWriteFails, Interrupted, PauseEnds, LineTyped, vars, lineVars, portVars
<1>11. CASE BootFails \/ Crash
  <2>1. amp' = amp /\ amp \in Rates \cup {Off} /\ work' = work /\ buffer' = <<>>
    BY <1>11 DEF BootFails, Crash, NewProcess, LineTyped
  <2> QED
    BY <2>1, LineEmptied
<1> QED
  BY <1>1, <1>2, <1>3, <1>4, <1>5, <1>6, <1>7, <1>8, <1>9, <1>10, <1>11
  DEF Next, Driver, PortFault

(* connect is left where it was, started over, or at its next rate.        *)
LEMMA DriverKept == Typed /\ [Next]_vars => DriverTyped'
<1> SUFFICES ASSUME Typed, [Next]_vars PROVE DriverTyped'
  OBVIOUS
<1> USE DEF Typed
<1>1. CASE AmpWorks \/ PowerOn \/ AmpFault \/ SendControl \/ SkipLine
  BY <1>1, FaultTyped
  DEF AmpWorks, PowerOn, AmpFault, PowerOff, AmpResets, SendControl, SkipLine,
      portVars, driverVars, DriverTyped
<1>2. CASE ContextEnds \/ UNCHANGED vars
  BY <1>2 DEF ContextEnds, vars, lineVars, portVars, driverVars, DriverTyped
<1>3. CASE OpenAndAsk \/ PauseEnds \/ SendChange
  BY <1>3, TryingRate
  DEF OpenAndAsk, PauseEnds, SendChange, portVars, DriverTyped, Connecting, Serving
<1>4. CASE OpenFails \/ ProbeWriteFails \/ NotFound
  <2>1. faults' \in 0..MaxFaults
    BY <1>4, FaultTyped, PassesTyped DEF OpenFails, ProbeWriteFails, NotFound
  <2>2. NextRate /\ portRate' \in {portRate, Trying} /\ UNCHANGED <<ctx, steps, got>>
    BY <1>4 DEF OpenFails, ProbeWriteFails, NotFound
  <2> QED
    BY <2>1, <2>2, NextRateTyped, TryingRate DEF DriverTyped, Connecting
<1>5. CASE Found \/ Verified
  <2>1. /\ steps' \in Seq(Rates) /\ phase' \in {"ready", "change"}
        /\ UNCHANGED <<portRate, ctx, probe, got, faults>>
    <3>1. CASE Found
      <4>1. BaudRateSteps(portRate, Target) \in Seq(Rates)
        BY <3>1, StepsUp DEF Found, PortKnown, AtPort
      <4> QED
        BY <3>1, <4>1 DEF Found, portVars
    <3>2. CASE Verified
      BY <3>2, StepsHead DEF Verified, PortKnown, portVars
    <3> QED
      BY <1>5, <3>1, <3>2
  <2> QED
    BY <2>1 DEF DriverTyped, Connecting, Serving
<1>6. CASE SetBaudRate
  BY <1>6, StepsHead, PassesTyped DEF SetBaudRate, PortKnown, DriverTyped, Connecting
<1>7. CASE ChangeLost \/ StepAborted \/ NotVerified
  <2>1. faults' \in 0..MaxFaults
    BY <1>7, FaultTyped, PassesTyped DEF ChangeLost, StepAborted, NotVerified, DriverTyped
  <2>2. /\ Connect(portRate) \/ (phase' = "settle" /\ UNCHANGED <<probe, steps, got>>)
        /\ UNCHANGED <<portRate, ctx>>
    BY <1>7 DEF ChangeLost, StepAborted, NotVerified, portVars
  <2> QED
    <3>1. CASE Connect(portRate)
      BY <2>1, <2>2, <3>1, ConnectedTyped DEF DriverTyped
    <3>2. CASE phase' = "settle" /\ UNCHANGED <<probe, steps, got>>
      BY <2>1, <2>2, <3>2 DEF DriverTyped, Connecting
    <3> QED
      BY <2>2, <3>1, <3>2
<1>8. CASE SetBaudRateFails
  <2>1. portRate' \in Rates \cup {NoRate} /\ Connect(portRate') /\ ctx' = ctx
    BY <1>8, StepsHead DEF SetBaudRateFails, PortKnown, DriverTyped
  <2>2. faults' \in 0..MaxFaults
    BY <1>8, FaultTyped DEF SetBaudRateFails
  <2> QED
    BY <2>1, <2>2, ConnectedTyped DEF DriverTyped
<1>9. CASE StartQuery("health") \/ StartQuery("query") \/ ReadZone
  BY <1>9, BoundsAssumption DEF StartQuery, ReadZone, portVars, DriverTyped, Serving
<1>10. CASE ReadError \/ QueryTimesOut \/ QueryWriteFails \/ Interrupted
  <2>1. faults' \in 0..MaxFaults /\ portRate' = portRate
    BY <1>10, PassesTyped, FaultTyped
    DEF ReadError, QueryTimesOut, QueryWriteFails, Interrupted, portVars, DriverTyped
  <2>2. \/ Connect(portRate) /\ ctx' \in {"process", "request"}
        \/ phase' = "ready" /\ got' \in {0, got} /\ UNCHANGED <<ctx, probe, steps>>
    BY <1>10 DEF ReadError, QueryTimesOut, QueryWriteFails, Interrupted, QueryFails, Recover
  <2> QED
    <3>1. CASE Connect(portRate) /\ ctx' \in {"process", "request"}
      BY <2>1, <3>1, ConnectedTyped DEF DriverTyped
    <3>2. CASE phase' = "ready" /\ got' \in {0, got} /\ UNCHANGED <<ctx, probe, steps>>
      BY <2>1, <3>2, BoundsAssumption DEF DriverTyped, Serving
    <3> QED
      BY <2>2, <3>1, <3>2
<1>11. CASE BootFails \/ Crash
  <2>1. NewProcess /\ faults' \in 0..MaxFaults
    BY <1>11, FaultTyped DEF BootFails, Crash, DriverTyped
  <2>2. Connect(NoRate) /\ portRate' = NoRate /\ ctx' = "process"
    BY <2>1 DEF NewProcess
  <2> QED
    BY <2>1, <2>2, ConnectedTyped
<1> QED
  BY <1>1, <1>2, <1>3, <1>4, <1>5, <1>6, <1>7, <1>8, <1>9, <1>10, <1>11
  DEF Next, Driver, PortFault

LEMMA PortKept == Typed /\ [Next]_vars => PortKnown'
<1> SUFFICES ASSUME Typed, [Next]_vars PROVE PortKnown'
  OBVIOUS
<1> USE DEF Typed, PortKnown, AtPort, Serving
<1>1. CASE AmpWorks \/ PowerOn \/ AmpFault \/ SendControl \/ SkipLine
  BY <1>1 DEF AmpWorks, PowerOn, AmpFault, PowerOff, AmpResets, SendControl, SkipLine,
              portVars, driverVars, Trying, Order
<1>2. CASE ContextEnds \/ UNCHANGED vars
  BY <1>2 DEF ContextEnds, vars, lineVars, portVars, driverVars, Trying, Order
<1>3. CASE OpenAndAsk
  BY <1>3, TryingRate DEF OpenAndAsk, Trying, Order
<1>4. CASE PauseEnds \/ SendChange
  BY <1>4 DEF PauseEnds, SendChange, portVars
<1>5. CASE OpenFails \/ ProbeWriteFails \/ NotFound
  BY <1>5, NextRateTyped DEF OpenFails, ProbeWriteFails, NotFound
<1>6. CASE Found \/ Verified
  BY <1>6 DEF Found, Verified, portVars
<1>7. CASE SetBaudRate
  BY <1>7, StepsHead DEF SetBaudRate
<1>8. CASE ChangeLost \/ SetBaudRateFails \/ StepAborted \/ NotVerified
  BY <1>8 DEF ChangeLost, SetBaudRateFails, StepAborted, NotVerified, Connect, portVars
<1>9. CASE StartQuery("health") \/ StartQuery("query") \/ ReadZone
  BY <1>9 DEF StartQuery, ReadZone, portVars
<1>10. CASE ReadError \/ QueryTimesOut \/ QueryWriteFails \/ Interrupted
  BY <1>10 DEF ReadError, QueryTimesOut, QueryWriteFails, Interrupted, QueryFails, Recover, Connect,
               portVars
<1>11. CASE BootFails \/ Crash
  BY <1>11 DEF BootFails, Crash, NewProcess, Connect
<1> QED
  BY <1>1, <1>2, <1>3, <1>4, <1>5, <1>6, <1>7, <1>8, <1>9, <1>10, <1>11
  DEF Next, Driver, PortFault

LEMMA InitTyped == Init => Typed
<1> SUFFICES ASSUME Init PROVE Typed
  OBVIOUS
<1>1. FlagsTyped
  BY Zenon DEF Init, FlagsTyped
<1>2. LineTyped
  BY AmpAssumption DEF Init, LineTyped
<1>3. DriverTyped
  BY TargetAssumption, BoundsAssumption, RatesListed DEF Init, DriverTyped, Connecting
<1>4. PortKnown
  BY DEF Init, PortKnown, AtPort, Serving
<1> QED
  BY <1>1, <1>2, <1>3, <1>4 DEF Typed

LEMMA TypedHolds == Spec => []Typed
<1>1. Typed /\ [Next]_vars => Typed'
  BY FlagsKept, LineKept, DriverKept, PortKept DEF Typed
<1> QED
  BY InitTyped, <1>1, PTL DEF Spec

(* Every variable keeps its type, through every fault of the amplifier, the*)
(* port and the process; in particular probe never tries a rate beyond the *)
(* last of its order.                                                      *)
THEOREM LineTypeCorrect == Spec => []TypeOK
<1>1. Typed => TypeOK
  BY Zenon DEF Typed, FlagsTyped, LineTyped, DriverTyped, Items, TypeOK
<1> QED
  BY TypedHolds, <1>1, PTL

-----------------------------------------------------------------------------
(* Where the port is while stepUp works, and when the service is Ready.    *)

(* The amplifier was not faster than the target when the service started.  *)
(* One that was would make it Ready at that rate.                          *)
AmpBelowTarget == AmpRates \subseteq {r \in Rates : r <= Target}

(* Then it never is: it changes only to rates that stepUp asks for, and    *)
(* falls back only to the slowest.  So whatever it sends arrives at a rate *)
(* from which there are steps to the target.                               *)
SlowItem(item) == item.what = "change" => item.rate <= Target
NeverAbove ==
    /\ amp <= Target
    /\ \A i \in DOMAIN work : SlowItem(work[i])
    /\ buffer # <<>> => portRate <= Target

(* The rates above r, up to the target, as a part of the list.             *)
Above(r) == SubSeq(ValidBaudRates, At(r) + 1, At(Target))

(* The steps that are left are all the rates above the port's.             *)
StepsKnown ==
    /\ phase \in {"change", "settle"} =>
         portRate < Target /\ steps = Above(portRate)
    /\ phase = "verify" =>
         portRate <= Target /\ steps = <<portRate>> \o Above(portRate)
    /\ phase \in Serving => portRate = Target

LEMMA AboveOf ==
    ASSUME NEW r \in Rates, r <= Target
    PROVE  /\ At(r) \in 1..Len(ValidBaudRates) /\ At(Target) \in At(r)..Len(ValidBaudRates)
           /\ Len(ValidBaudRates) \in Nat
           /\ Above(r) \in Seq(Rates) /\ Len(Above(r)) = At(Target) - At(r)
           /\ DOMAIN Above(r) = 1..At(Target)-At(r)
           /\ \A j \in 1..At(Target)-At(r) : Above(r)[j] = ValidBaudRates[At(r) + j]
           /\ Above(r) = <<>> <=> r = Target
<1>1. /\ At(r) \in 1..Len(ValidBaudRates) /\ At(Target) \in 1..Len(ValidBaudRates)
      /\ At(r) <= At(Target) /\ Len(ValidBaudRates) \in Nat
      /\ At(r) = At(Target) <=> r = Target
  BY RateAt, SlowerFirst, TargetAssumption, RatesListed
<1>2. At(r) \in 0..Len(ValidBaudRates) /\ At(Target) \in At(r)..Len(ValidBaudRates)
  BY <1>1
<1>3. /\ Above(r) \in Seq(Rates) /\ Len(Above(r)) = At(Target) - At(r)
      /\ DOMAIN Above(r) = 1..At(Target)-At(r)
      /\ \A j \in 1..At(Target)-At(r) : Above(r)[j] = ValidBaudRates[At(r) + j]
  <2>1. ValidBaudRates \in Seq(Rates)
    BY RatesListed
  <2> QED
    BY <1>2, <2>1, PartOf DEF Above
<1>4. Above(r) = <<>> <=> r = Target
  BY <1>1, <1>3
<1> QED
  BY <1>1, <1>2, <1>3, <1>4

LEMMA NextStep ==
    ASSUME NEW r \in Rates, r < Target
    PROVE  /\ Above(r) # <<>> /\ Head(Above(r)) \in Rates /\ Head(Above(r)) <= Target
           /\ At(Head(Above(r))) = At(r) + 1
<1>1. /\ At(r) \in 1..Len(ValidBaudRates) /\ At(Target) \in At(r)..Len(ValidBaudRates)
      /\ Len(ValidBaudRates) \in Nat /\ Above(r) # <<>>
      /\ Above(r) \in Seq(Rates) /\ Len(Above(r)) = At(Target) - At(r)
      /\ \A j \in 1..At(Target)-At(r) : Above(r)[j] = ValidBaudRates[At(r) + j]
  BY AboveOf, RatesListed, TargetAssumption
<1>2. Head(Above(r)) = ValidBaudRates[At(r) + 1] /\ Head(Above(r)) \in Rates
  BY <1>1
<1>3. At(r) + 1 \in DOMAIN ValidBaudRates /\ At(r) + 1 <= At(Target)
  BY <1>1, RatesListed
<1>4. At(Head(Above(r))) = At(r) + 1
  BY <1>2, <1>3, PlaceOf, RatesListed DEF At
<1>5. Head(Above(r)) <= Target
  BY <1>1, <1>2, <1>3, <1>4, SlowerFirst, TargetAssumption, RatesListed
<1> QED
  BY <1>1, <1>2, <1>4, <1>5

(* With one step taken, the rest of the steps are those above the new rate.*)
LEMMA StepsFrom ==
    ASSUME NEW r \in Rates, r < Target
    PROVE  Above(r) = <<Head(Above(r))>> \o Above(Head(Above(r)))
<1>1. /\ At(r) + 1 \in 1..Len(ValidBaudRates) /\ At(Target) \in At(r)+1..Len(ValidBaudRates)
      /\ At(Head(Above(r))) = At(r) + 1
  <2>1. r # Target /\ r <= Target
    BY RatesListed, TargetAssumption
  <2>2. /\ At(r) \in 1..Len(ValidBaudRates) /\ At(Target) \in At(r)..Len(ValidBaudRates)
        /\ Len(ValidBaudRates) \in Nat
    BY <2>1, AboveOf
  <2>3. At(r) < At(Target)
    BY SlowerFirst, TargetAssumption
  <2> QED
    BY <2>2, <2>3, NextStep
<1>2. Head(Above(r)) \in Rates /\ ValidBaudRates[At(r) + 1] = Head(Above(r))
  BY <1>1, NextStep, RateAt
<1>3. SubSeq(ValidBaudRates, At(r) + 1, At(Target))
        = <<ValidBaudRates[At(r) + 1]>> \o SubSeq(ValidBaudRates, At(r) + 1 + 1, At(Target))
  BY <1>1, RatesListed, SubSeqRecursiveFirst
<1> QED
  BY <1>1, <1>2, <1>3 DEF Above

LEMMA RestOf ==
    ASSUME NEW S, NEW s \in Seq(S), NEW r \in S
    PROVE  Head(<<r>> \o s) = r /\ Tail(<<r>> \o s) = s /\ <<r>> \o s # <<>>
OBVIOUS

(* Work stays slow if what is added to it is.                              *)
LEMMA SlowTail ==
    ASSUME NEW s \in Seq(Items), s # <<>>, \A i \in DOMAIN s : SlowItem(s[i])
    PROVE  SlowItem(Head(s)) /\ \A i \in DOMAIN Tail(s) : SlowItem(Tail(s)[i])
<1>1. Head(s) = s[1] /\ 1 \in DOMAIN s
  OBVIOUS
<1>2. \A i \in DOMAIN Tail(s) : Tail(s)[i] = s[i + 1] /\ i + 1 \in DOMAIN s
  OBVIOUS
<1> QED
  BY <1>1, <1>2

LEMMA SlowAppend ==
    ASSUME NEW s \in Seq(Items), NEW e \in Items,
           \A i \in DOMAIN s : SlowItem(s[i]), SlowItem(e)
    PROVE  \A i \in DOMAIN Append(s, e) : SlowItem(Append(s, e)[i])
<1>1. \A i \in DOMAIN Append(s, e) :
        Append(s, e)[i] = e \/ (i \in DOMAIN s /\ Append(s, e)[i] = s[i])
  OBVIOUS
<1> QED
  BY <1>1

LEMMA ConcatAt ==
    ASSUME NEW S, NEW s \in Seq(S), NEW t \in Seq(S)
    PROVE  \A i \in DOMAIN (s \o t) :
             \/ i \in DOMAIN s /\ (s \o t)[i] = s[i]
             \/ i - Len(s) \in DOMAIN t /\ (s \o t)[i] = t[i - Len(s)]
OBVIOUS

LEMMA SlowConcat ==
    ASSUME NEW s \in Seq(Items), NEW t \in Seq(Items),
           \A i \in DOMAIN s : SlowItem(s[i]), \A i \in DOMAIN t : SlowItem(t[i])
    PROVE  \A i \in DOMAIN (s \o t) : SlowItem((s \o t)[i])
BY ConcatAt

LEMMA SlowAsk ==
    ASSUME LineTyped, NeverAbove, NEW rate, NEW unread, Ask(rate, unread)
    PROVE  \A i \in DOMAIN work' : SlowItem(work'[i])
<1>1. CASE Hears(rate)
  <2>1. work' = work \o ZoneLines
    BY <1>1 DEF Ask, ZoneLines
  <2>2. \A i \in DOMAIN ZoneLines : SlowItem(ZoneLines[i])
    BY DEF ZoneLines, SlowItem
  <2> QED
    BY <2>1, <2>2, ZoneLinesTyped, SlowConcat DEF LineTyped, NeverAbove
<1>2. CASE ~Hears(rate)
  <2>1. work' = work
    BY <1>2 DEF Ask, LineTyped
  <2> QED
    BY <2>1 DEF NeverAbove
<1> QED
  BY <1>1, <1>2

Stepping == NeverAbove /\ StepsKnown

LEMMA HeadBelow ==
    ASSUME Typed, StepsKnown, phase \in {"change", "settle"}
    PROVE  /\ portRate \in Rates /\ portRate < Target /\ steps = Above(portRate)
           /\ Head(steps) \in Rates /\ Head(steps) <= Target
           /\ steps = <<Head(steps)>> \o Above(Head(steps))
<1>1. portRate \in Rates /\ portRate < Target /\ steps = Above(portRate)
  BY DEF Typed, PortKnown, AtPort, StepsKnown
<1> QED
  BY <1>1, NextStep, StepsFrom

LEMMA WorkKept ==
    ASSUME Typed, Stepping, [Next]_vars
    PROVE  \A i \in DOMAIN work' : SlowItem(work'[i])
<1> USE DEF Stepping
<1>1. work \in Seq(Items) /\ \A i \in DOMAIN work : SlowItem(work[i])
  BY DEF Typed, LineTyped, NeverAbove
<1>2. CASE work' = work
  BY <1>1, <1>2
<1>3. CASE work' = <<>>
  BY <1>3
<1>4. CASE work # <<>> /\ work' = Tail(work)
  BY <1>1, <1>4, SlowTail
<1>5. CASE OpenAndAsk \/ SetBaudRate \/ StartQuery("health") \/ StartQuery("query")
  BY <1>5, SlowAsk DEF Typed, OpenAndAsk, SetBaudRate, StartQuery
<1>6. CASE SendControl
  <2>1. SlowItem([what |-> "error"])
    BY DEF SlowItem
  <2> QED
    BY <1>1, <1>6, <2>1, ItemsTyped, SlowAppend DEF SendControl
<1>7. CASE SendChange
  <2>1. Head(steps) \in Rates /\ Head(steps) <= Target
    BY <1>7, HeadBelow DEF SendChange
  <2>2. SlowItem([what |-> "change", rate |-> Head(steps)])
    BY <2>1 DEF SlowItem
  <2>3. [what |-> "change", rate |-> Head(steps)] \in Items
    BY <2>1, ItemsTyped
  <2> QED
    BY <1>1, <1>2, <1>7, <2>2, <2>3, SlowAppend DEF SendChange
<1>8. \/ work' = work \/ work' = <<>> \/ (work # <<>> /\ work' = Tail(work))
      \/ OpenAndAsk \/ SetBaudRate \/ StartQuery("health") \/ StartQuery("query")
      \/ SendControl \/ SendChange
  BY Zenon
  DEF Next, Driver, PortFault, AmpFault, vars, lineVars, AmpWorks, PowerOn, PowerOff, AmpResets,
      OpenFails, ProbeWriteFails, ChangeLost, SetBaudRateFails, QueryWriteFails, Found, SkipLine, NotFound,
      PauseEnds, StepAborted, Verified, NotVerified, ReadZone, ReadError, QueryTimesOut,
      BootFails, NewProcess, Interrupted, ContextEnds, Crash
<1> QED
  BY <1>2, <1>3, <1>4, <1>5, <1>6, <1>7, <1>8

(* What arrives is sent at the port's rate, and the port changes its rate  *)
(* with lines unread only to one of the steps.                             *)
LEMMA AmpAndPortKept ==
    ASSUME Typed, Stepping, [Next]_vars
    PROVE  amp' <= Target /\ (buffer' # <<>> => portRate' <= Target)
<1> USE DEF Stepping, NeverAbove
<1>1. Default <= Target /\ 0 <= Target
  BY RatesAssumption, TargetAssumption, RatesListed
<1>2. CASE AmpWorks
  <2>1. work # <<>> /\ portRate' = portRate
    BY <1>2 DEF AmpWorks, portVars
  <2>2. CASE Head(work).what = "change"
    <3>1. Head(work).rate <= Target
      BY <2>1, <2>2, SlowTail DEF Typed, LineTyped, SlowItem
    <3> QED
      BY <1>2, <2>1, <2>2, <3>1 DEF AmpWorks
  <2>3. CASE Head(work).what # "change"
    BY <1>2, <2>1, <2>3 DEF AmpWorks
  <2> QED
    BY <2>2, <2>3
<1>3. CASE PowerOn \/ AmpFault
  BY <1>1, <1>3 DEF PowerOn, AmpFault, PowerOff, AmpResets, Off, lineVars, portVars
<1>4. CASE amp' = amp /\ (buffer' = <<>> \/ (buffer' = buffer /\ portRate' = portRate))
  BY <1>4
<1>5. CASE Found \/ SkipLine \/ Verified \/ ReadZone \/ ReadError
  BY <1>5 DEF Found, SkipLine, Verified, ReadZone, ReadError, portVars
<1>6. CASE SetBaudRate \/ SetBaudRateFails
  <2>1. amp' = amp /\ phase = "settle"
    BY <1>6 DEF SetBaudRate, SetBaudRateFails
  <2>2. buffer' = <<>> \/ portRate' = Head(steps)
    BY <1>6 DEF SetBaudRate, SetBaudRateFails
  <2>3. Head(steps) <= Target
    BY <2>1, HeadBelow
  <2> QED
    BY <2>1, <2>2, <2>3
<1>7. \/ AmpWorks \/ PowerOn \/ AmpFault
      \/ amp' = amp /\ (buffer' = <<>> \/ (buffer' = buffer /\ portRate' = portRate))
      \/ Found \/ SkipLine \/ Verified \/ ReadZone \/ ReadError \/ SetBaudRate \/ SetBaudRateFails
  BY Zenon
  DEF Next, Driver, PortFault, vars, lineVars, portVars, Ask,
      OpenFails, ProbeWriteFails, ChangeLost, QueryWriteFails, NotFound, OpenAndAsk,
      PauseEnds, SendChange, StepAborted, NotVerified, QueryTimesOut,
      BootFails, NewProcess, Interrupted, ContextEnds, Crash, StartQuery, SendControl
<1> QED
  BY <1>2, <1>3, <1>4, <1>5, <1>6, <1>7

LEMMA StepsKept ==
    ASSUME Typed, Stepping, [Next]_vars
    PROVE  StepsKnown'
<1> USE DEF Stepping
<1>1. CASE UNCHANGED <<phase, portRate, steps>>
  BY <1>1 DEF StepsKnown, Above, At
<1>2. CASE phase' \in {"open", "listen", "pause", "failed"}
  BY <1>2 DEF StepsKnown, Serving
<1>3. CASE Found
  <2>1. portRate \in Rates /\ portRate <= Target /\ portRate' = portRate
    BY <1>3 DEF Found, Typed, PortKnown, AtPort, NeverAbove, portVars
  <2>2. CASE portRate = Target
    <3>1. phase' = "ready"
      BY <1>3, <2>2 DEF Found
    <3> QED
      BY <2>1, <2>2, <3>1 DEF StepsKnown
  <2>3. CASE portRate # Target
    <3>1. portRate < Target
      BY <2>1, <2>3, RatesListed, TargetAssumption
    <3>2. steps' = Above(portRate) /\ Above(portRate) # <<>>
      BY <1>3, <2>1, <2>3, <3>1, StepsUp, NextStep DEF Found, Above
    <3>3. phase' = "change"
      BY <1>3, <3>2 DEF Found
    <3> QED
      BY <2>1, <3>1, <3>2, <3>3 DEF StepsKnown, Serving, Above, At
  <2> QED
    BY <2>2, <2>3
<1>4. CASE phase = "change" /\ phase' = "settle" /\ UNCHANGED <<portRate, steps>>
  BY <1>4 DEF StepsKnown, Serving, Above, At
<1>5. CASE SetBaudRate
  <2>1. phase' = "verify" /\ portRate' = Head(steps) /\ steps' = steps /\ phase = "settle"
    BY <1>5 DEF SetBaudRate
  <2>2. Head(steps) <= Target /\ steps = <<Head(steps)>> \o Above(Head(steps))
    BY <2>1, HeadBelow
  <2> QED
    BY <2>1, <2>2 DEF StepsKnown, Serving, Above, At
<1>6. CASE Verified
  <2>1. /\ portRate \in Rates /\ portRate <= Target /\ portRate' = portRate
        /\ steps = <<portRate>> \o Above(portRate)
    BY <1>6 DEF Verified, Typed, PortKnown, AtPort, StepsKnown, portVars
  <2>2. Above(portRate) \in Seq(Rates) /\ (Above(portRate) = <<>> <=> portRate = Target)
    BY <2>1, AboveOf
  <2>3. Tail(steps) = Above(portRate)
    BY <2>1, <2>2, RestOf
  <2>4. CASE portRate = Target
    <3>1. phase' = "ready"
      BY <1>6, <2>2, <2>3, <2>4 DEF Verified
    <3> QED
      BY <2>1, <2>4, <3>1 DEF StepsKnown
  <2>5. CASE portRate # Target
    <3>1. phase' = "change" /\ steps' = Above(portRate)
      BY <1>6, <2>2, <2>3, <2>5 DEF Verified
    <3>2. portRate < Target
      BY <2>1, <2>5, RatesListed, TargetAssumption
    <3> QED
      BY <2>1, <3>1, <3>2 DEF StepsKnown, Serving, Above, At
  <2> QED
    BY <2>4, <2>5
<1>7. CASE phase \in Serving /\ phase' \in Serving /\ portRate' = portRate
  BY <1>7 DEF StepsKnown, Serving
<1>8. \/ UNCHANGED <<phase, portRate, steps>>
      \/ phase' \in {"open", "listen", "pause", "failed"}
      \/ Found
      \/ phase = "change" /\ phase' = "settle" /\ UNCHANGED <<portRate, steps>>
      \/ SetBaudRate \/ Verified
      \/ phase \in Serving /\ phase' \in Serving /\ portRate' = portRate
  <2>1. NextRate => phase' \in {"open", "pause", "failed"}
    BY Zenon DEF NextRate
  <2>2. QueryFails => phase' = "open" \/ phase' = "ready"
    BY Zenon DEF QueryFails, Recover, Connect
  <2>3. CASE AmpWorks \/ PowerOn \/ AmpFault \/ SendControl \/ SkipLine \/ ContextEnds \/ UNCHANGED vars
    BY <2>3, Zenon DEF AmpWorks, PowerOn, AmpFault, PowerOff, AmpResets, SendControl, SkipLine,
                       ContextEnds, vars, portVars, driverVars
  <2>4. CASE OpenAndAsk \/ PauseEnds \/ SendChange
    BY <2>4 DEF OpenAndAsk, PauseEnds, SendChange, portVars
  <2>5. CASE OpenFails \/ ProbeWriteFails \/ NotFound
    BY <2>1, <2>5 DEF OpenFails, ProbeWriteFails, NotFound
  <2>6. CASE ChangeLost \/ SetBaudRateFails \/ StepAborted \/ NotVerified
    BY <2>6 DEF ChangeLost, SetBaudRateFails, StepAborted, NotVerified, Connect, portVars
  <2>7. CASE StartQuery("health") \/ StartQuery("query") \/ ReadZone
    BY <2>7 DEF StartQuery, ReadZone, Serving, portVars
  <2>8. CASE ReadError \/ QueryTimesOut \/ QueryWriteFails \/ Interrupted
    BY <2>2, <2>8
    DEF ReadError, QueryTimesOut, QueryWriteFails, Interrupted, Recover, Connect, Serving, portVars
  <2>9. CASE BootFails \/ Crash
    BY <2>9 DEF BootFails, Crash, NewProcess, Connect
  <2> QED
    BY <2>3, <2>4, <2>5, <2>6, <2>7, <2>8, <2>9 DEF Next, Driver, PortFault
<1> QED
  BY <1>1, <1>2, <1>3, <1>4, <1>5, <1>6, <1>7, <1>8

LEMMA SteppingInit == AmpBelowTarget /\ Init => Stepping
<1>1. 0 <= Target
  BY TargetAssumption, RatesListed
<1> QED
  BY <1>1 DEF AmpBelowTarget, Init, Stepping, NeverAbove, StepsKnown, Serving, Off

LEMMA SteppingHolds == AmpBelowTarget /\ Spec => [](Typed /\ Stepping)
<1>1. Typed /\ Stepping /\ [Next]_vars => Stepping'
  BY WorkKept, AmpAndPortKept, StepsKept DEF Stepping, NeverAbove
<1> QED
  BY TypedHolds, SteppingInit, <1>1, PTL DEF Spec

(* The service is never Ready at another rate than the target, whichever   *)
(* way connect took and whatever failed on it, if the amplifier was not    *)
(* above the target to begin with.                                         *)
THEOREM ReadyOnlyAtTarget == AmpBelowTarget /\ Spec => []ReadyAtTarget
<1>1. Typed /\ Stepping => ReadyAtTarget
  BY DEF Typed, PortKnown, AtPort, Stepping, StepsKnown, ReadyAtTarget
<1> QED
  BY SteppingHolds, <1>1, PTL

(* A rate and those above it are the list from there to the target.        *)
LEMMA FromHere ==
    ASSUME NEW r \in Rates, r <= Target
    PROVE  Climbs(<<r>> \o Above(r), r)
<1> DEFINE s == SubSeq(ValidBaudRates, At(r), At(Target))
<1>1. /\ At(r) \in 1..Len(ValidBaudRates) /\ At(Target) \in At(r)..Len(ValidBaudRates)
      /\ Len(ValidBaudRates) \in Nat /\ ValidBaudRates[At(r)] = r
  BY AboveOf, RateAt
<1>2. s = <<r>> \o Above(r)
  BY <1>1, RatesListed, SubSeqRecursiveFirst DEF Above
<1>3. /\ DOMAIN s = 1..At(Target)-At(r)+1
      /\ \A j \in DOMAIN s : s[j] = ValidBaudRates[At(r) + j - 1]
  BY <1>1, RatesListed
<1>4. \A j \in DOMAIN s : /\ At(r) + j - 1 \in At(r)..At(Target)
                          /\ At(r) + j - 1 \in DOMAIN ValidBaudRates
  BY <1>1, <1>3, RatesListed
<1>5. \A t \in Rates : t \in Nat /\ At(t) \in 1..Len(ValidBaudRates) /\ At(t) \in Nat
  BY RateAt, RatesListed
<1> HIDE DEF s
<1>6. ASSUME NEW i \in DOMAIN s, NEW j \in DOMAIN s, i < j
      PROVE  s[i] < s[j]
  <2>1. At(r) + i - 1 < At(r) + j - 1
    BY <1>1, <1>3, <1>6
  <2> QED
    BY <1>3, <1>4, <2>1, RatesAssumption
<1>7. ASSUME NEW j \in DOMAIN s PROVE s[j] \in Rates /\ r <= s[j] /\ s[j] <= Target
  <2>1. s[j] \in Rates /\ At(s[j]) = At(r) + j - 1
    BY <1>3, <1>4, PlaceOf, RatesListed DEF At, Rates
  <2>2. At(r) <= At(s[j]) /\ At(s[j]) <= At(Target)
    BY <1>4, <2>1
  <2>3. /\ At(s[j]) \in Nat /\ At(r) \in Nat /\ At(Target) \in Nat
        /\ s[j] \in Nat /\ r \in Nat /\ Target \in Nat
    BY <1>5, <2>1, TargetAssumption, Zenon
  <2>4. ~(At(s[j]) < At(r)) /\ ~(At(Target) < At(s[j]))
    BY <2>2, <2>3
  <2>5. ~(s[j] < r) /\ ~(Target < s[j])
    BY <2>1, <2>4, SlowerFirst, TargetAssumption, Zenon
  <2>6. r <= s[j] /\ s[j] <= Target
    BY <2>3, <2>5
  <2> QED
    BY <2>1, <2>6
<1>8. ASSUME NEW t \in Rates, r <= t, t <= Target PROVE \E j \in DOMAIN s : s[j] = t
  <2>1. ~(t < r) /\ ~(Target < t)
    BY <1>8, RatesListed, TargetAssumption
  <2>2. ~(At(t) < At(r)) /\ ~(At(Target) < At(t))
    BY <2>1, SlowerFirst, TargetAssumption
  <2>3. At(t) \in 1..Len(ValidBaudRates) /\ ValidBaudRates[At(t)] = t
    BY RateAt
  <2>4. At(t) \in Nat /\ At(r) \in Nat /\ At(Target) \in Nat
    BY <1>5, TargetAssumption, Zenon
  <2>5. At(t) - At(r) + 1 \in DOMAIN s /\ At(r) + (At(t) - At(r) + 1) - 1 = At(t)
    BY <1>3, <2>2, <2>4
  <2> QED
    BY <1>3, <2>3, <2>5
<1>9. Range(s) \subseteq {t \in Rates : r <= t /\ t <= Target}
  BY <1>7 DEF Range
<1>10. {t \in Rates : r <= t /\ t <= Target} \subseteq Range(s)
  BY <1>8 DEF Range
<1> QED
  BY <1>2, <1>6, <1>9, <1>10 DEF Climbs

(* stepUp leaves out no rate between the port's and the target, and goes   *)
(* through them slowest first, if the amplifier was not above the target   *)
(* to begin with.                                                          *)
THEOREM StepsAreComplete == AmpBelowTarget /\ Spec => []StepsBeginAtPort
<1>1. Typed /\ Stepping => StepsBeginAtPort
  <2> SUFFICES ASSUME Typed, Stepping PROVE StepsBeginAtPort
    OBVIOUS
  <2>1. ASSUME phase \in {"change", "settle"} PROVE Climbs(<<portRate>> \o steps, portRate)
    <3>1. portRate \in Rates /\ portRate < Target /\ steps = Above(portRate)
      BY <2>1, HeadBelow DEF Stepping
    <3>2. portRate <= Target
      BY <3>1, RatesListed, TargetAssumption
    <3> QED
      BY <3>1, <3>2, FromHere
  <2>2. ASSUME phase = "verify" PROVE Climbs(steps, portRate)
    BY <2>2, FromHere DEF Typed, PortKnown, AtPort, Stepping, StepsKnown
  <2> QED
    BY <2>1, <2>2 DEF StepsBeginAtPort
<1> QED
  BY SteppingHolds, <1>1, PTL

-----------------------------------------------------------------------------
(* What probe can count on, as long as nothing disturbs it.                *)

Probing == {"open", "listen", "pause"}

(* A change of rate is the last thing the amplifier has to do: it does not *)
(* hear what comes after it.                                               *)
OneChange == \A i \in DOMAIN work : work[i].what = "change" => i = Len(work)
Pending == work[Len(work)].rate

ZoneComing ==
    \/ \E i \in DOMAIN work : work[i].what = "zone"
    \/ \E i \in DOMAIN buffer : buffer[i].what = "zone"

(* There is another round, which no context ends.                          *)
NextRound == ctx = "process" /\ probe.round < MaxAttempts

(* The amplifier's rate is still to be tried in this round.                *)
ToTry(first) == \E k \in first..Len(Order) : Order[k] = amp

(* A change on its way is done by the end of the first attempt, and leads  *)
(* to another rate than the one tried there, unless there is time for one  *)
(* more round.                                                             *)
StillChanging ==
    Changing =>
      /\ phase # "pause" /\ probe.at = 1
      /\ Pending # Order[1] \/ NextRound

StillThere ==
    ~Changing =>
      \/ NextRound
      \/ phase # "listen" /\ ToTry(probe.at)
      \/ phase = "listen" /\ ToTry(probe.at + 1)
      \/ phase = "listen" /\ amp = Trying /\ ZoneComing

Expected == phase \in Probing => StillChanging /\ StillThere

Hopeful ==
    /\ amp # Off
    /\ Expected
    /\ phase = "pause" => ctx = "process"
    /\ phase # "failed"

Findable == OneChange /\ (~disturbed => Hopeful)

LEMMA ChangeIsLast ==
    ASSUME LineTyped, OneChange, Changing
    PROVE  /\ work # <<>> /\ Len(work) \in DOMAIN work
           /\ work[Len(work)].what = "change" /\ Pending \in Rates
           /\ work[Len(work)] = [what |-> "change", rate |-> Pending]
<1>1. PICK i \in DOMAIN work : work[i].what = "change"
  BY DEF Changing
<1>2. i = Len(work)
  BY <1>1 DEF OneChange
<1>3. work[i] \in Items
  BY DEF LineTyped
<1>4. work[i] \in Change
  BY <1>1, <1>3 DEF Items, Line, Change
<1> QED
  BY <1>1, <1>2, <1>4 DEF Pending, Change

LEMMA QuietZones ==
    ASSUME LineTyped, OneChange, NEW rate, NEW unread, Ask(rate, unread)
    PROVE  OneChange' /\ (Changing => work' = work) /\ (~Changing => ~Changing')
<1>1. CASE Hears(rate)
  <2>1. work' = work \o ZoneLines /\ ~Changing
    BY <1>1 DEF Ask, ZoneLines, Hears
  <2>2. Lines \in Nat /\ work \in Seq(Items)
    BY BoundsAssumption DEF LineTyped
  <2>3. \A i \in DOMAIN ZoneLines : ZoneLines[i].what = "zone"
    BY DEF ZoneLines
  <2>4. \A i \in DOMAIN work' :
          \/ i \in DOMAIN work /\ work'[i] = work[i]
          \/ i - Len(work) \in DOMAIN ZoneLines /\ work'[i] = ZoneLines[i - Len(work)]
    BY <2>1, <2>2, ZoneLinesTyped, ConcatAt, Zenon
  <2>5. \A i \in DOMAIN work' : work'[i].what # "change"
    BY <2>1, <2>3, <2>4 DEF Changing
  <2> QED
    BY <2>1, <2>5 DEF OneChange, Changing
<1>2. CASE ~Hears(rate)
  <2>1. work' = work
    BY <1>2 DEF Ask, LineTyped
  <2> QED
    BY <2>1 DEF OneChange, Changing
<1> QED
  BY <1>1, <1>2

LEMMA OneChangeTail ==
    ASSUME LineTyped, OneChange, work # <<>>, work' = Tail(work)
    PROVE  /\ OneChange'
           /\ Head(work).what = "change" => work' = <<>>
           /\ Head(work).what # "change" => (Changing' <=> Changing)
           /\ Changing' => Changing /\ Pending' = Pending
<1>1. /\ work \in Seq(Items) /\ Len(work) \in Nat \ {0}
      /\ DOMAIN work = 1..Len(work) /\ DOMAIN work' = 1..Len(work)-1 /\ Len(work') = Len(work) - 1
      /\ Head(work) = work[1]
      /\ \A i \in DOMAIN work' : work'[i] = work[i + 1] /\ i + 1 \in DOMAIN work
  BY DEF LineTyped
<1>2. OneChange'
  BY <1>1 DEF OneChange
<1>3. ASSUME Head(work).what = "change" PROVE work' = <<>>
  BY <1>1, <1>3 DEF OneChange
<1>4. Changing' => Changing
  BY <1>1 DEF Changing
<1>5. ASSUME Changing' PROVE Pending' = Pending
  <2>1. Len(work') \in DOMAIN work'
    <3>1. DOMAIN work' # {}
      BY <1>5 DEF Changing
    <3> QED
      BY <1>1, <3>1
  <2>2. Len(work') + 1 = Len(work)
    BY <1>1
  <2> QED
    BY <1>1, <2>1, <2>2 DEF Pending
<1>6. ASSUME Head(work).what # "change", Changing PROVE Changing'
  <2>1. PICK i \in DOMAIN work : work[i].what = "change"
    BY <1>6 DEF Changing
  <2>2. i # 1 /\ i - 1 \in DOMAIN work' /\ (i - 1) + 1 = i
    BY <1>1, <1>6, <2>1
  <2> QED
    BY <1>1, <2>1, <2>2 DEF Changing
<1> QED
  BY <1>2, <1>3, <1>4, <1>5, <1>6

LEMMA OneChangeKept ==
    ASSUME Typed, OneChange, [Next]_vars
    PROVE  OneChange'
<1>1. CASE work' = work \/ work' = <<>>
  BY <1>1 DEF OneChange
<1>2. CASE work # <<>> /\ work' = Tail(work)
  BY <1>2, OneChangeTail DEF Typed
<1>3. CASE OpenAndAsk \/ SetBaudRate \/ StartQuery("health") \/ StartQuery("query")
  BY <1>3, QuietZones DEF Typed, OpenAndAsk, SetBaudRate, StartQuery
<1>4. CASE SendControl \/ SendChange
  <2>1. PICK e : work' = work \/ (~Changing /\ work' = Append(work, e))
    BY <1>4 DEF SendControl, SendChange, Hears
  <2>2. work \in Seq(Items)
    BY DEF Typed, LineTyped
  <2>3. CASE ~Changing /\ work' = Append(work, e)
    <3>1. \A i \in DOMAIN work' : i = Len(work') \/ (i \in DOMAIN work /\ work'[i] = work[i])
      BY <2>2, <2>3
    <3> QED
      BY <2>3, <3>1 DEF OneChange, Changing
  <2> QED
    BY <1>1, <2>1, <2>3
<1>5. \/ work' = work \/ work' = <<>> \/ (work # <<>> /\ work' = Tail(work))
      \/ OpenAndAsk \/ SetBaudRate \/ StartQuery("health") \/ StartQuery("query")
      \/ SendControl \/ SendChange
  BY Zenon
  DEF Next, Driver, PortFault, AmpFault, vars, lineVars, AmpWorks, PowerOn, PowerOff, AmpResets,
      OpenFails, ProbeWriteFails, ChangeLost, SetBaudRateFails, QueryWriteFails, Found, SkipLine, NotFound,
      PauseEnds, StepAborted, Verified, NotVerified, ReadZone, ReadError, QueryTimesOut,
      BootFails, NewProcess, Interrupted, ContextEnds, Crash
<1> QED
  BY <1>1, <1>2, <1>3, <1>4, <1>5

(* Every rate is tried in a round.                                         *)
LEMMA WholeRound ==
    ASSUME DriverTyped, amp # Off, LineTyped
    PROVE  /\ ToTry(1) /\ Len(Order) \in Nat \ {0} /\ Order[1] = probe.start
           /\ \A r \in Rates : r # Order[1] => \E k \in 2..Len(Order) : Order[k] = r
<1>1. probe.start \in Rates /\ amp \in Rates
  BY DEF DriverTyped, LineTyped
<1>2. /\ Len(Order) = Len(ValidBaudRates) /\ Order[1] = probe.start
      /\ \A r \in Rates : \E k \in 1..Len(ValidBaudRates) : Order[k] = r
  BY <1>1, OrderOf DEF Order
<1>3. ASSUME NEW r \in Rates, r # Order[1] PROVE \E k \in 2..Len(Order) : Order[k] = r
  <2>1. PICK k \in 1..Len(ValidBaudRates) : Order[k] = r
    BY <1>2
  <2>2. k \in 2..Len(Order)
    BY <1>2, <1>3, <2>1, RatesListed
  <2> QED
    BY <2>1, <2>2
<1> QED
  BY <1>1, <1>2, <1>3, RatesListed DEF ToTry

(* connect begins at the port's rate; a change on its way is to another.   *)
LEMMA ConnectHopeful ==
    ASSUME Typed, OneChange, NEW rate \in Rates, Connect(rate), UNCHANGED <<amp, work>>, ~disturbed'
    PROVE  Hopeful'
<1>0. ~Disturbed(rate)
  BY DEF Connect
<1>1. amp # Off /\ amp' # Off
  BY <1>0 DEF Disturbed
<1>2. /\ phase' = "open" /\ probe'.start = rate /\ probe'.at = 1
  BY RatesListed DEF Connect, NoRate
<1>3. ToTry(1)' /\ Order'[1] = rate
  <2>1. Order' = TryOrder(rate) /\ amp' \in Rates
    BY <1>1, <1>2 DEF Order, Typed, LineTyped
  <2>2. /\ Len(TryOrder(rate)) = Len(ValidBaudRates) /\ TryOrder(rate)[1] = rate
        /\ \E k \in 1..Len(ValidBaudRates) : TryOrder(rate)[k] = amp'
    BY <2>1, OrderOf
  <2> QED
    BY <2>1, <2>2 DEF ToTry
<1>4. ASSUME Changing' PROVE Pending' # Order'[1]
  <2>1. Changing /\ Pending' = Pending
    BY <1>4 DEF Changing, Pending
  <2>2. Len(work) \in DOMAIN work /\ work[Len(work)] = [what |-> "change", rate |-> Pending]
    BY <2>1, ChangeIsLast DEF Typed
  <2> QED
    BY <1>0, <1>3, <2>1, <2>2 DEF Disturbed
<1> QED
  BY <1>1, <1>2, <1>3, <1>4 DEF Hopeful, Expected, StillChanging, StillThere

(* What the amplifier sends at the rate that is tried arrives; a change it *)
(* makes leaves it at a rate that is still to be tried.                    *)
LEMMA AmpWorksHopeful ==
    ASSUME Typed, OneChange, Hopeful, AmpWorks
    PROVE  Hopeful'
<1>1. /\ work # <<>> /\ work' = Tail(work)
      /\ UNCHANGED <<open, portRate, phase, probe, ctx>>
  BY DEF AmpWorks, portVars, driverVars
<1>2. /\ Head(work).what = "change" => work' = <<>>
      /\ Head(work).what # "change" => (Changing' <=> Changing)
      /\ Changing' => Changing /\ Pending' = Pending
  BY <1>1, OneChangeTail DEF Typed
<1>3. Order' = Order /\ Trying' = Trying
  BY <1>1 DEF Order, Trying
<1>4. CASE Head(work).what = "change"
  <2>1. amp' = Head(work).rate /\ amp' \in Rates /\ ~Changing'
    BY <1>1, <1>2, <1>4, WorkHead DEF AmpWorks, Typed, Changing
  <2>2. amp' # Off
    BY <2>1, RatesListed DEF Off
  <2>3. Changing /\ Pending = amp'
    <3>1. work \in Seq(Items) /\ 1 \in DOMAIN work /\ Head(work) = work[1]
      BY <1>1 DEF Typed, LineTyped
    <3>2. 1 = Len(work)
      BY <1>4, <3>1 DEF OneChange
    <3> QED
      BY <1>4, <2>1, <3>1, <3>2 DEF Changing, Pending
  <2>4. ASSUME phase \in Probing, ~NextRound PROVE ToTry(probe.at)' /\ ToTry(probe.at + 1)'
    <3>1. probe.at = 1 /\ amp' # Order[1]
      BY <2>3, <2>4 DEF Hopeful, Expected, StillChanging
    <3>2. PICK k \in 2..Len(Order) : Order[k] = amp'
      BY <2>1, <3>1, WholeRound DEF Typed, Hopeful
    <3>3. k \in 1..Len(Order)
      BY <3>2, TryingRate, RatesListed DEF Typed
    <3>4. probe'.at = 1 /\ probe'.at + 1 = 2
      BY <1>1, <3>1
    <3> QED
      BY <1>3, <3>2, <3>3, <3>4 DEF ToTry
  <2> QED
    BY <1>1, <2>1, <2>2, <2>4
    DEF Hopeful, Expected, StillChanging, StillThere, NextRound, Probing
<1>5. CASE Head(work).what # "change"
  <2>1. amp' = amp
    BY <1>5 DEF AmpWorks
  <2>2. ASSUME phase = "listen", amp = Trying, ZoneComing PROVE ZoneComing'
    <3>1. open /\ portRate = amp /\ buffer' = Append(buffer, Head(work))
      BY <1>5, <2>2 DEF Typed, PortKnown, AtPort, AmpWorks
    <3>2. CASE \E i \in DOMAIN buffer : buffer[i].what = "zone"
      <4>1. PICK i \in DOMAIN buffer : buffer[i].what = "zone"
        BY <3>2
      <4>2. i \in DOMAIN buffer' /\ buffer'[i] = buffer[i]
        BY <3>1, <4>1 DEF Typed, LineTyped
      <4> QED
        BY <4>1, <4>2 DEF ZoneComing
    <3>3. CASE \E i \in DOMAIN work : work[i].what = "zone"
      <4>1. PICK i \in DOMAIN work : work[i].what = "zone"
        BY <3>3
      <4>2. work \in Seq(Items) /\ buffer \in Seq(Line)
        BY DEF Typed, LineTyped
      <4>3. CASE i = 1
        <5>1. Len(buffer) + 1 \in DOMAIN buffer' /\ buffer'[Len(buffer) + 1] = work[1]
          BY <3>1, <4>2
        <5> QED
          BY <4>1, <4>3, <5>1 DEF ZoneComing
      <4>4. CASE i # 1
        <5>1. i - 1 \in DOMAIN work' /\ work'[i - 1] = work[i]
          BY <1>1, <4>1, <4>2, <4>4
        <5> QED
          BY <4>1, <5>1 DEF ZoneComing
      <4> QED
        BY <4>3, <4>4
    <3> QED
      BY <2>2, <3>2, <3>3 DEF ZoneComing
  <2>3. (ToTry(probe.at)' <=> ToTry(probe.at)) /\ (ToTry(probe.at + 1)' <=> ToTry(probe.at + 1))
    BY <1>1, <1>3, <2>1 DEF ToTry
  <2> QED
    BY <1>1, <1>2, <1>3, <1>5, <2>1, <2>2, <2>3
    DEF Hopeful, Expected, StillChanging, StillThere, NextRound
<1> QED
  BY <1>4, <1>5

(* Asked at its own rate, the amplifier answers.                           *)
LEMMA AskHopeful ==
    ASSUME Typed, OneChange, Hopeful, OpenAndAsk
    PROVE  Hopeful'
<1>1. /\ phase = "open" /\ phase' = "listen" /\ Ask(Trying, <<>>)
      /\ UNCHANGED <<amp, probe, ctx>>
  BY DEF OpenAndAsk
<1>2. (Changing => work' = work) /\ (~Changing => ~Changing')
  BY <1>1, QuietZones DEF Typed
<1>3. Order' = Order /\ Trying' = Trying
  BY <1>1 DEF Order, Trying
<1>4. CASE Changing
  <2>1. Changing' /\ Pending' = Pending
    BY <1>2, <1>4 DEF Changing, Pending
  <2> QED
    BY <1>1, <1>3, <1>4, <2>1
    DEF Hopeful, Expected, StillChanging, StillThere, Probing, NextRound
<1>5. CASE ~Changing /\ NextRound
  BY <1>1, <1>2, <1>5 DEF Hopeful, Expected, StillChanging, StillThere, NextRound
<1>6. CASE ~Changing /\ ~NextRound
  <2>1. PICK k \in probe.at..Len(Order) : Order[k] = amp
    BY <1>1, <1>6 DEF Hopeful, Expected, StillThere, Probing, ToTry
  <2>2. CASE k = probe.at
    <3>1. amp = Trying /\ Hears(Trying)
      BY <1>6, <2>1, <2>2 DEF Trying, Hears
    <3>2. work' = work \o ZoneLines
      BY <1>1, <3>1 DEF Ask, ZoneLines
    <3>3. work \in Seq(Items) /\ Lines \in Nat \ {0}
      BY BoundsAssumption DEF Typed, LineTyped
    <3>4. Len(ZoneLines) = Lines /\ ZoneLines[1].what = "zone"
      BY <3>3 DEF ZoneLines
    <3>5. Len(work) + 1 \in DOMAIN (work \o ZoneLines)
          /\ (work \o ZoneLines)[Len(work) + 1] = ZoneLines[1]
      <4>1. ZoneLines \in Seq(Items)
        BY ZoneLinesTyped
      <4> QED
        BY <3>3, <3>4, <4>1
    <3>6. ZoneComing'
      BY <3>2, <3>4, <3>5 DEF ZoneComing
    <3> QED
      BY <1>1, <1>2, <1>3, <1>6, <3>1, <3>6
      DEF Hopeful, Expected, StillChanging, StillThere
  <2>3. CASE k # probe.at
    <3>1. k \in probe.at+1..Len(Order)
      BY <2>1, <2>3, TryingRate, RatesListed DEF Typed, DriverTyped
    <3>2. ToTry(probe.at + 1)'
      BY <1>1, <1>3, <2>1, <3>1 DEF ToTry
    <3> QED
      BY <1>1, <1>2, <1>6, <3>2 DEF Hopeful, Expected, StillChanging, StillThere
  <2> QED
    BY <2>2, <2>3
<1> QED
  BY <1>4, <1>5, <1>6

LEMMA SkipHopeful ==
    ASSUME Typed, Hopeful, SkipLine
    PROVE  Hopeful'
<1>1. /\ buffer # <<>> /\ Head(buffer).what = "error" /\ buffer' = Tail(buffer)
      /\ UNCHANGED <<amp, work, phase, probe, ctx>>
  BY DEF SkipLine, driverVars
<1>2. ZoneComing => ZoneComing'
  <2>1. CASE \E i \in DOMAIN work : work[i].what = "zone"
    BY <1>1, <2>1 DEF ZoneComing
  <2>2. CASE \E i \in DOMAIN buffer : buffer[i].what = "zone"
    <3>1. PICK i \in DOMAIN buffer : buffer[i].what = "zone"
      BY <2>2
    <3>2. i # 1 /\ i - 1 \in DOMAIN buffer' /\ buffer'[i - 1] = buffer[i]
      BY <1>1, <3>1 DEF Typed, LineTyped
    <3> QED
      BY <3>1, <3>2 DEF ZoneComing
  <2> QED
    BY <2>1, <2>2 DEF ZoneComing
<1> QED
  BY <1>1, <1>2
  DEF Hopeful, Expected, StillChanging, StillThere, Changing, Pending, NextRound, ToTry, Trying, Order

(* When nothing is to come any more, the amplifier was not at this rate.   *)
LEMMA NotFoundHopeful ==
    ASSUME Typed, Hopeful, NotFound, ~AnswerDue
    PROVE  Hopeful'
<1>1. /\ phase = "listen" /\ NextRate /\ UNCHANGED <<amp, work, ctx>>
      /\ work = <<>> /\ buffer = <<>>
  BY DEF NotFound, AnswerDue
<1>2. ~Changing /\ ~Changing' /\ ~ZoneComing
  BY <1>1 DEF Changing, ZoneComing
<1>3. NextRound \/ ToTry(probe.at + 1)
  BY <1>1, <1>2 DEF Hopeful, Expected, StillThere, Probing
<1>4. /\ Len(Order) \in Nat /\ probe.at \in Nat /\ probe.start \in Rates
  BY TryingRate, RatesListed DEF Typed, DriverTyped
<1>5. CASE probe.at < Len(Order)
  <2>1. phase' = "open" /\ probe' = [probe EXCEPT !.at = @ + 1]
    BY <1>1, <1>5 DEF NextRate
  <2>2. probe'.start = probe.start /\ probe'.at = probe.at + 1 /\ probe'.round = probe.round
    BY <2>1 DEF Typed, DriverTyped
  <2>3. NextRound' \/ ToTry(probe.at)'
    BY <1>1, <1>3, <2>2 DEF NextRound, ToTry, Order
  <2> QED
    BY <1>1, <1>2, <2>1, <2>3 DEF Hopeful, Expected, StillChanging, StillThere
<1>6. CASE ~(probe.at < Len(Order))
  <2>1. NextRound
    BY <1>3, <1>4, <1>6 DEF ToTry
  <2>2. phase' = "pause" /\ probe' = [probe EXCEPT !.at = 1, !.round = @ + 1] /\ ctx' = "process"
    BY <1>1, <1>6, <2>1 DEF NextRate, NextRound
  <2>3. probe'.start = probe.start /\ probe'.at = 1
    BY <2>2 DEF Typed, DriverTyped
  <2>4. ToTry(1)
    BY WholeRound DEF Typed, Hopeful
  <2>5. ToTry(probe.at)'
    BY <1>1, <2>3, <2>4 DEF ToTry, Order
  <2> QED
    BY <1>1, <1>2, <2>2, <2>5 DEF Hopeful, Expected, StillChanging, StillThere
<1> QED
  BY <1>5, <1>6

(* What does not belong to probe leaves it alone.                          *)
LEMMA SameHopeful ==
    ASSUME Hopeful, UNCHANGED <<amp, work, buffer, phase, probe>>, ctx' = ctx \/ ctx = "request"
    PROVE  Hopeful'
BY DEF Hopeful, Expected, StillChanging, StillThere, Changing, Pending, NextRound, ToTry, Trying,
       Order, ZoneComing

LEMMA BeyondHopeful ==
    ASSUME Hopeful, amp' = amp, phase' \notin Probing \cup {"failed"}
    PROVE  Hopeful'
BY DEF Hopeful, Expected, Probing

LEMMA PauseHopeful ==
    ASSUME Hopeful, PauseEnds
    PROVE  Hopeful'
<1>1. /\ phase = "pause" /\ phase' = "open" /\ UNCHANGED <<amp, work, probe, ctx>>
  BY DEF Hopeful, PauseEnds, lineVars
<1>2. ~Changing
  BY <1>1 DEF Hopeful, Expected, StillChanging, Probing
<1> QED
  BY <1>1, <1>2
  DEF Hopeful, Expected, StillChanging, StillThere, Changing, NextRound, ToTry, Order, Probing

(* A new process does not know the port's rate, but has time to try twice. *)
SecondRound == MaxAttempts > 1

LEMMA NewProcessHopeful ==
    ASSUME SecondRound, NewProcess, ~disturbed'
    PROVE  Hopeful'
<1>1. /\ phase' = "open" /\ ctx' = "process" /\ probe'.at = 1 /\ probe'.round = 1
      /\ amp' = amp /\ amp # Off
  BY DEF NewProcess, Connect, Disturbed
<1>2. NextRound'
  BY <1>1 DEF NextRound, SecondRound
<1> QED
  BY <1>1, <1>2 DEF Hopeful, Expected, StillChanging, StillThere

LEMMA HopefulKept ==
    ASSUME SecondRound, Typed, Findable, [Next]_vars, ~disturbed'
    PROVE  Hopeful'
<1> USE DEF Findable
<1>0. disturbed \in BOOLEAN /\ disturbed' \in BOOLEAN
  BY FlagsKept DEF Typed, FlagsTyped
<1>1. CASE AmpWorks
  BY <1>1, AmpWorksHopeful DEF AmpWorks
<1>2. CASE PowerOn
  BY <1>2 DEF PowerOn, Hopeful
<1>3. CASE AmpFault \/ OpenFails \/ ProbeWriteFails
  BY <1>3 DEF AmpFault, PowerOff, AmpResets, OpenFails, ProbeWriteFails
<1>4. CASE OpenAndAsk
  BY <1>4, AskHopeful DEF OpenAndAsk
<1>5. CASE SkipLine
  BY <1>5, SkipHopeful DEF SkipLine
<1>6. CASE NotFound
  <2>1. ~disturbed /\ ~AnswerDue
    BY <1>0, <1>6 DEF NotFound
  <2> QED
    BY <1>6, <2>1, NotFoundHopeful
<1>7. CASE PauseEnds
  BY <1>7, PauseHopeful DEF PauseEnds
<1>8. CASE Found \/ SendChange \/ SetBaudRate \/ Verified \/ ReadZone
           \/ StartQuery("health") \/ StartQuery("query") \/ SendControl
  <2>1. amp' = amp /\ phase' \notin Probing \cup {"failed"} /\ ~disturbed
    BY <1>0, <1>8 DEF Found, SendChange, SetBaudRate, Verified, ReadZone, StartQuery, SendControl,
                      driverVars, Probing
  <2> QED
    BY <2>1, BeyondHopeful
<1>9. CASE StepAborted \/ NotVerified \/ Interrupted \/ ChangeLost \/ ReadError \/ QueryTimesOut
           \/ QueryWriteFails
  <2>1. UNCHANGED <<amp, work>> /\ phase \in AtPort
        /\ \/ Connect(portRate)
           \/ phase' \in {"settle", "ready"} /\ disturbed' = disturbed
    BY <1>9 DEF StepAborted, NotVerified, Interrupted, ChangeLost, ReadError, QueryTimesOut,
                QueryWriteFails, QueryFails, Recover, lineVars, AtPort, Serving
  <2>2. CASE Connect(portRate)
    BY <2>1, <2>2, ConnectHopeful DEF Typed, PortKnown
  <2>3. CASE phase' \in {"settle", "ready"} /\ disturbed' = disturbed
    BY <1>0, <2>1, <2>3, BeyondHopeful DEF Probing
  <2> QED
    BY <2>1, <2>2, <2>3
<1>10. CASE SetBaudRateFails
  <2>1. UNCHANGED <<amp, work>> /\ portRate' \in {portRate, Head(steps)} /\ Connect(portRate')
    BY <1>10 DEF SetBaudRateFails
  <2>2. portRate' \in Rates
    BY <1>10, <2>1, StepsHead DEF SetBaudRateFails, Typed, PortKnown, AtPort
  <2> QED
    BY <2>1, <2>2, ConnectHopeful
<1>11. CASE BootFails \/ Crash
  BY <1>11, NewProcessHopeful DEF BootFails, Crash
<1>12. CASE ContextEnds \/ UNCHANGED vars
  <2>1. /\ UNCHANGED <<amp, work, buffer, phase, probe>> /\ (ctx' = ctx \/ ctx = "request")
        /\ ~disturbed
    BY <1>12 DEF ContextEnds, vars, lineVars, portVars, driverVars
  <2> QED
    BY <2>1, SameHopeful
<1> QED
  BY <1>1, <1>2, <1>3, <1>4, <1>5, <1>6, <1>7, <1>8, <1>9, <1>10, <1>11, <1>12 DEF Next, Driver, PortFault

LEMMA FindableInit == Init => Findable
<1> SUFFICES ASSUME Init PROVE Findable
  OBVIOUS
<1>1. OneChange /\ ~Changing
  BY DEF Init, OneChange, Changing
<1>2. Typed
  BY InitTyped
<1>3. ASSUME ~disturbed PROVE Hopeful
  <2>1. amp # Off /\ phase = "open" /\ probe.at = 1
    BY <1>3 DEF Init
  <2>2. ToTry(1)
    BY <1>2, <2>1, WholeRound DEF Typed
  <2> QED
    BY <1>1, <2>1, <2>2 DEF Hopeful, Expected, StillChanging, StillThere
<1> QED
  BY <1>1, <1>3 DEF Findable

(* probe gives up only if something goes wrong while it runs: with at least*)
(* two rounds, an amplifier that is on and stays on is found, at whatever  *)
(* rate it was left by a power failure, by a step-up that failed or was    *)
(* aborted, or by a crash with its change of rate still on the way.        *)
THEOREM AmpIsFound ==
    ASSUME SecondRound
    PROVE  Spec => []ProbeFindsAmp
<1>1. Typed /\ Findable /\ [Next]_vars => Findable'
  BY OneChangeKept, HopefulKept DEF Findable
<1>2. Typed /\ Findable => ProbeFindsAmp
  BY Zenon DEF Findable, Hopeful, ProbeFindsAmp
<1> QED
  BY TypedHolds, FindableInit, <1>1, <1>2, PTL DEF Spec

=============================================================================
