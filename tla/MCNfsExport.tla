---------------------------- MODULE MCNfsExport -----------------------------
(* A small instance of NfsExport. *)
EXTENDS NfsExport, TLC

Sizes == 1 :> 3
TwoBuffers == <<2, 2>>

=============================================================================
