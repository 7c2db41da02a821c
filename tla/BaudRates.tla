----------------------------- MODULE BaudRates ------------------------------
(***************************************************************************)
(* The arithmetic of baud rates: which rates there are                     *)
(* (internal/config/config.go), which ones stepUp goes through             *)
(* (BaudRateSteps in internal/serial/protocol.go) and in which order probe *)
(* tries them (internal/amp/controller.go).  The two loops are given by    *)
(* what they return; BaudRateLoops has them as loops, and compares.        *)
(***************************************************************************)
EXTENDS Integers, Sequences, SequencesExt

CONSTANTS
    ValidBaudRates,     \* the rates, slowest first
    Default             \* the amplifier's rate when it is switched on (9600)

Rates == {ValidBaudRates[i] : i \in DOMAIN ValidBaudRates}

ASSUME RatesAssumption ==
    /\ ValidBaudRates \in Seq(Nat \ {0})
    /\ \A i, j \in DOMAIN ValidBaudRates : i < j => ValidBaudRates[i] < ValidBaudRates[j]
    /\ Default \in Rates
    /\ \A r \in Rates : Default <= r

(* Where a rate is in a list.                                              *)
Place(s, r) == CHOOSE i \in DOMAIN s : s[i] = r
Without(s, r) == RemoveAt(s, Place(s, r))

(* Mutant of BaudRateSteps: it stops before the target, not at it.         *)
StepsShort(current, target) ==
    SubSeq(ValidBaudRates, Place(ValidBaudRates, current) + 1, Place(ValidBaudRates, target) - 1)

(* Mutant of BaudRateSteps: straight to the target.                        *)
StepsAtOnce(current, target) == IF current = target THEN <<>> ELSE <<target>>

(* The rates after current in the list, up to and with target.  The loop   *)
(* stops at the target only once it has seen current, so a target that is  *)
(* not above current does not stop it.                                     *)
BaudRateSteps(current, target) ==
    LET last == IF target \in Rates /\ current < target
                THEN Place(ValidBaudRates, target)
                ELSE Len(ValidBaudRates)
    IN IF current \in Rates
       THEN SubSeq(ValidBaudRates, Place(ValidBaudRates, current) + 1, last)
       ELSE <<>>

(* Mutant of TryOrder: only the two likely rates are tried.                *)
TryLikely(start) == IF start = Default THEN <<start>> ELSE <<start, Default>>

(* The given rate, then 9600, then every other, each of them once.         *)
TryOrder(start) ==
    IF start = Default
    THEN <<start>> \o Without(ValidBaudRates, start)
    ELSE <<start, Default>> \o Without(Without(ValidBaudRates, start), Default)

=============================================================================
