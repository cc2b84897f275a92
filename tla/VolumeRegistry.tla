--------------------------- MODULE VolumeRegistry ---------------------------
(***************************************************************************)
(* The agent's memory of which volumes the node has been asked to serve    *)
(* (internal/volumes).  A registry is a function from the volumes it knows *)
(* to the bytes each one names; the operators are the registry's methods.  *)
(***************************************************************************)
EXTENDS Collections, FiniteSetsExt, Functions

(* A registry as the agent starts with one: in memory only, and empty. *)
NewRegistry == <<>>

(* Published overwrites: a repeated publish of a volume is one volume. *)
Published(registry, id, bytes) ==
    [v \in DOMAIN registry \cup {id} |->
        IF v = id THEN IF bytes < 0 THEN 0 ELSE bytes ELSE registry[v]]

(* Unpublished deletes by volume, whatever else may still use it. *)
Unpublished(registry, id) ==
    Restrict(registry, DOMAIN registry \ {id})

(* What the volumes served here name in total. *)
Requested(registry) ==
    SumOver(registry, DOMAIN registry)

=============================================================================
