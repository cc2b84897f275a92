------------------------- MODULE MCResidencyLabels --------------------------
(* A small instance of ResidencyLabels for TLC.                            *)
EXTENDS ResidencyLabels, TLC

CONSTANTS n1, n2

TwoNodes == <<n1, n2>>
=============================================================================
