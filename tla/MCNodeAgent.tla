---------------------------- MODULE MCNodeAgent ----------------------------
(* Small instances of NodeAgent for TLC.                                   *)
EXTENDS NodeAgent, TLC

CONSTANTS TenantA, Node, Unnamed

MCTenants == {TenantA, Node, Unnamed}

(* Two leases that fit together; the first expires within a behaviour, the *)
(* second may be asked for as one a reclaim takes or as one it may not.    *)
TwoRequests ==
  { [id |-> 1, tenant |-> TenantA, class |-> Opportunistic, size |-> 1, term |-> 1],
    [id |-> 2, tenant |-> TenantA, class |-> Elastic, size |-> 1, term |-> 9] }
OneRequest == {r \in TwoRequests : r.id = 2}
EitherRequest ==
  TwoRequests \cup
    { [id |-> 2, tenant |-> TenantA, class |-> Guaranteed, size |-> 1, term |-> 9] }
=============================================================================
