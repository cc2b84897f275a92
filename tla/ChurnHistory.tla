---------------------------- MODULE ChurnHistory ----------------------------
(***************************************************************************)
(* The lease manager together with the complete history of its             *)
(* reclamations, which the code does not keep: Manager.reclaims is pruned  *)
(* on every call.  The properties compare what the manager decides from    *)
(* the pruned history with what happened.                                  *)
(***************************************************************************)
EXTENDS LeaseManager

VARIABLE history  \* every instant this process recorded a reclamation at

historyVars == <<vars, history>>

HistoryInit == Init /\ history = <<>>

HistoryNext ==
  \/ QuietStep /\ UNCHANGED history
  \/ Crash /\ history' = <<>>
  \/ \E t \in Stamps : ReclaimStep(t) /\ history' = Append(history, t)

HistorySpec == HistoryInit /\ [][HistoryNext]_historyVars

-----------------------------------------------------------------------------
(***************************************************************************)
(* Pruning forgets nothing a decision needs (retention: "keeping only the  *)
(* churn window would let a short window silently discard the record the   *)
(* cooldown needs"): from the pruned history the manager counts the same   *)
(* churn, and refuses a grant for cooldown whenever it would have from the *)
(* complete one.  Timestamps taken before the lock may reach it out of     *)
(* order, which is why the second part is not an equivalence.              *)
(***************************************************************************)
PruningLosesNothing ==
  /\ Churning(reclaims, now) = Churning(history, now)
  /\ InCooldown(history, now) => InCooldown(reclaims, now)

(***************************************************************************)
(* Capacity is never lent again too soon after it was taken back: a grant  *)
(* stamped t comes at least MinTerm after every reclamation of this        *)
(* process and finds fewer than ChurnBudget of them in the churn window,   *)
(* up to the Lag by which callers' timestamps may be out of order.         *)
(***************************************************************************)
LendingBacksOff ==
  [][\A r \in Requests, t \in Stamps : AcceptGranted(r, t) =>
       /\ \A i \in DOMAIN history : history[i] + MinTerm <= t + Lag
       /\ ChurnBudget > 0 /\ ChurnWindow > 0 =>
            CountAfter(history, t + Lag - ChurnWindow) < ChurnBudget]_historyVars
=============================================================================
