-------------------------- MODULE MCPressureWatch ---------------------------
(***************************************************************************)
(* One pod that can be met, one there already whose request could not be,  *)
(* one volume, and two leases on a filesystem of three units, with the     *)
(* pods on it, on a second drive of the same model that the agent can see  *)
(* or cannot, or on one of another size that it cannot see.                *)
(***************************************************************************)
EXTENDS PressureWatch, TLC

CONSTANTS p, q, v

Of(kind, ask) == [kind |-> kind, ask |-> ask]

MCContainers ==
    p :> << Of("app", 1), Of("init", 2) >>
    @@ q :> << Of("app", FsSize), Of("sidecar", 1), Of("init", 1) >>

At(same, seeing, size) == [same |-> same, seen |-> seeing, known |-> TRUE, size |-> size]

MCLayouts == {At(TRUE, TRUE, FsSize), At(FALSE, TRUE, FsSize),
              At(FALSE, FALSE, FsSize), At(FALSE, FALSE, FsSize - 2)}

Sizes == v :> 1

=============================================================================
