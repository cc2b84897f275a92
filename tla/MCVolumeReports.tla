-------------------------- MODULE MCVolumeReports ---------------------------
(***************************************************************************)
(* Two pods on one node, each with a volume of its own (Apart) or sharing  *)
(* one dataset (Together).                                                 *)
(***************************************************************************)
EXTENDS VolumeReports, TLC

CONSTANTS p, q

Apart == p :> "a" @@ q :> "b"

Together == p :> "a" @@ q :> "a"

Sizes == [v \in {"a", "b"} |-> IF v = "a" THEN 1 ELSE 2]

=============================================================================
