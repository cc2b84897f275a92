---------------------------- MODULE MCCheckpoint ----------------------------
(* Small instances of checkpoint staging.                                  *)
EXTENDS Checkpoint, TLC

(* A checkpoint sent twice under one id, which is what a writer that heard *)
(* a failure does, and another one.                                        *)
Call(id, object, content, ack, repeats) ==
  [id |-> id, object |-> object, content |-> content, bytes |-> 1, ack |-> ack, repeats |-> repeats]
MCRequest ==
  "first" :> Call("A", "o1", "v1", "durable", {})
  @@ "again" :> Call("A", "o1", "v1", "durable", {"first"})
  @@ "other" :> Call("B", "o2", "v2", "staged", {})
MCCalls == DOMAIN MCRequest
=============================================================================
