------------------------- MODULE MCDatasetControl -------------------------
(* A small instance of DatasetControl. *)
EXTENDS DatasetControl

CONSTANTS x, y, a, b

TwoDatasets == <<x, y>>
Bytes == a :> 2 @@ b :> 1

(* One declaration asks for the tier; the other for more durability than   *)
(* the backend declares.                                                   *)
MCDeclarations ==
    {[object |-> a, intent |-> [durability |-> 0, cached |-> TRUE]],
     [object |-> b, intent |-> [durability |-> 2, cached |-> FALSE]]}

=============================================================================
