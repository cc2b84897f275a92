---------------------------- MODULE FaultBudget -----------------------------
(* The failures of a behaviour - a call refused, a message lost, a deadline *)
(* passed - are bounded: each one an action suffers is a Fault.            *)
EXTENDS Naturals

CONSTANT MaxFaults      \* bound on the faults of a behaviour

VARIABLE faults         \* the faults so far

Fault == faults < MaxFaults /\ faults' = faults + 1

=============================================================================
