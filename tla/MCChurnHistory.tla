--------------------------- MODULE MCChurnHistory ---------------------------
(* Small instances of ChurnHistory for TLC.                                *)
EXTENDS ChurnHistory, TLC

CONSTANTS TenantA, Node, Unnamed

MCTenants == {TenantA, Node, Unnamed}

(* n leases no expiry touches, so that n reclamations can follow one       *)
(* another without a grant in between.                                     *)
LongRequests(n) ==
  {[id |-> id, tenant |-> TenantA, class |-> Opportunistic, size |-> 1,
    term |-> MaxClock + 1] : id \in 1..n}
TwoLong == LongRequests(2)
ThreeLong == LongRequests(3)
=============================================================================
