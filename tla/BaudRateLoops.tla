--------------------------- MODULE BaudRateLoops ----------------------------
(***************************************************************************)
(* The loops of BaudRateSteps (internal/serial/protocol.go) and of probe   *)
(* (internal/amp/controller.go) as the code has them, over its list of     *)
(* rates.  BaudRates gives what they return in closed form, which can be   *)
(* proved about; here the two are compared.                                *)
(***************************************************************************)
EXTENDS Integers, Sequences, SequencesExt

SixRates == <<9600, 19200, 38400, 57600, 115200, 230400>>

BaudRateSteps(current, target) ==
    LET Visit(s, r) ==
          IF s.stop THEN s
          ELSE IF r = current THEN [s EXCEPT !.started = TRUE]
          ELSE IF s.started THEN [s EXCEPT !.steps = Append(@, r), !.stop = (r = target)]
          ELSE s
    IN FoldLeft(Visit, [steps |-> <<>>, started |-> FALSE, stop |-> FALSE], SixRates).steps

(* 9600 may be there twice, and is taken once.                             *)
TryOrder(start) ==
    LET likely == <<start, 9600>>
        tryOrder == likely \o SelectSeq(SixRates, LAMBDA r : r \notin Range(likely))
        Keep(unique, r) == IF Contains(unique, r) THEN unique ELSE Append(unique, r)
    IN FoldLeft(Keep, <<>>, tryOrder)

ClosedForm == INSTANCE BaudRates WITH ValidBaudRates <- SixRates, Default <- 9600

(* For every pair of rates, and for one that is not in the list, the closed*)
(* forms are what the loops return.                                        *)
ASSUME LoopsAssumption ==
    LET rates == Range(SixRates)
    IN /\ \A r \in rates : ClosedForm!TryOrder(r) = TryOrder(r)
       /\ \A r, t \in rates \cup {0} : ClosedForm!BaudRateSteps(r, t) = BaudRateSteps(r, t)

=============================================================================
