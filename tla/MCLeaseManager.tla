--------------------------- MODULE MCLeaseManager ---------------------------
(* Small instances of LeaseManager for TLC.                                *)
EXTENDS LeaseManager, TLC

CONSTANTS TenantA, TenantB, Node, Unnamed

MCTenants == {TenantA, TenantB, Node, Unnamed}

Ask(id, tenant, class, size, term) ==
  [id |-> id, tenant |-> tenant, class |-> class, size |-> size, term |-> term]

(* Two tenants with leases of every class that press on both quotas, on    *)
(* the guaranteed cap and on the device; the node itself, which has no     *)
(* quota; an unnamed tenant; and proposals the manager must refuse.        *)
MCRequests ==
  { Ask(1, TenantA, Opportunistic, 2, 2),
    Ask(2, TenantA, Elastic, 1, 2),
    Ask(3, TenantB, Guaranteed, 2, 2),
    Ask(4, TenantB, Opportunistic, 1, 1),
    Ask(5, TenantA, Guaranteed, 2, 2),
    Ask(6, Unnamed, Opportunistic, 1, 2),
    Ask(7, Node, Opportunistic, 4, 2),
    Ask(8, TenantB, Guaranteed + 1, 1, 2),
    Ask(9, TenantB, Opportunistic, -1, 2),
    Ask(10, TenantB, Opportunistic, 1, 0) }

(* A guarantee and a cheaper lease of the same size.                       *)
ShrinkRequests ==
  { Ask(1, TenantA, Guaranteed, 2, 3), Ask(2, TenantB, Opportunistic, 2, 3) }
=============================================================================
