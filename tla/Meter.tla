------------------------------- MODULE Meter --------------------------------
(***************************************************************************)
(* What the controller promises its user, without interrupts, flags, bytes *)
(* in flight or steps: it observes measurements one at a time, each judged *)
(* as a whole; a fault is reported with the measurement of the highest     *)
(* current in memory, a healthy state with the measurement itself; what is *)
(* remembered is forgotten only while the state is healthy; and a report   *)
(* is always one verdict with the values that belong to it.                *)
(***************************************************************************)
EXTENDS Metering

CONSTANT Measurements       \* what can be measured

VARIABLES peak,             \* the measurement of highest current in memory
          verdict,          \* the last verdict and the values it is shown with
          report            \* the last report sent, <<>> before the first

vars == <<peak, verdict, report>>

Init == /\ peak = Zero
        /\ verdict = [trip |-> PowerOK, values |-> Zero]
        /\ report = <<>>

\* Bug...: a plausible mistake in the definition after it, used by no other:
\* the values of a fault are the last ones measured
BugObserve(m) ==
  /\ peak' = Peak(peak, m)
  /\ verdict' = [trip |-> Verdict(m), values |-> m]
  /\ UNCHANGED report

Observe(m) ==
  /\ peak' = Peak(peak, m)
  /\ verdict' = [trip   |-> Verdict(m),
                 values |-> IF Verdict(m) = PowerOK THEN m ELSE peak']
  /\ UNCHANGED report

Forget == /\ verdict.trip = PowerOK
          /\ peak' = verdict.values
          /\ UNCHANGED <<verdict, report>>

Send == /\ report' = Frame(verdict.trip, verdict.values)
        /\ UNCHANGED <<peak, verdict>>

Next == (\E m \in Measurements : Observe(m)) \/ Forget \/ Send

Spec == Init /\ [][Next]_vars
=============================================================================
