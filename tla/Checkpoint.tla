----------------------------- MODULE Checkpoint -----------------------------
(***************************************************************************)
(* Checkpoint staging (internal/checkpoint) on one agent: a call reserves  *)
(* a guaranteed lease, writes the checkpoint into its extent, uploads it   *)
(* to the durable backend and gives the lease back.  The two backends of   *)
(* driver/ differ in how an upload can end half way: the file driver       *)
(* creates an object with O_EXCL and fills it, the S3 driver repeats a PUT *)
(* until it hears an answer.  The agent may crash and start again.         *)
(*                                                                         *)
(* The agent's Grant and Release are one step each here: LeaseManager and  *)
(* NodeAgent take them apart.  What they tell the read path is not left    *)
(* out: OnGranted hands every extent to the fast tier, which then puts     *)
(* cached blocks in it (cmd/forebay-agent/serve.go).                       *)
(***************************************************************************)
EXTENDS Integers, FaultBudget, FiniteSets, FiniteSetsExt, Functions

CONSTANTS
  Calls,           \* the calls of Stage
  Request,         \* per call: id, object, content, bytes, ack ("durable" or "staged"),
                   \* and the calls it repeats, each of which ended or was given up
  GuaranteedShare, \* what the node may promise
  Term,            \* how long a staging lease runs
  Attempts,        \* of the S3 driver
  Backends,        \* the backends a node may have: "file", "s3"
  CachedIds,       \* bound: the extents the fast tier happens to fill
  Nothing,         \* no content
  MaxCrashes       \* bound: of crashes

Partial == "partial"
Cached == "cached blocks"

(* A checkpoint is none of the other things a file can hold.               *)
ASSUME CheckpointConfig ==
  /\ Term > 0 /\ Attempts > 0
  /\ Backends \subseteq {"file", "s3"}
  /\ Nothing \notin {Partial, Cached}
  /\ \A c \in Calls : Request[c].content \notin {Nothing, Partial, Cached}

VARIABLES
  backend,
  leases,     \* the staging leases: id -> its age, up to its term
  extent,     \* per id, what its extent holds
  tier,       \* the ids whose extents the fast tier was given
  store,      \* per object, what the durable backend holds
  step,       \* per call, where it is
  answer,     \* per call, what the writer was told
  gaveUp,     \* the calls whose writer went away
  tries,      \* per call, PUTs sent
  crashes,
  outlived,   \* history: the ids a restart dropped because their term was over
  overwritten \* history: the ids whose extents the fast tier wrote in

stagingVars == <<backend, leases, extent, tier, store, step, answer, gaveUp, tries,
                 faults, crashes, outlived, overwritten>>

Ids == {Request[c].id : c \in Calls}
Objects == {Request[c].object : c \in Calls}
Id(c) == Request[c].id

Init ==
  /\ backend \in Backends
  /\ leases = <<>> /\ extent = [i \in Ids |-> Nothing] /\ tier = {}
  /\ store = [o \in Objects |-> Nothing]
  /\ step = [c \in Calls |-> "idle"]
  /\ answer = [c \in Calls |-> "none"]
  /\ gaveUp = {} /\ tries = [c \in Calls |-> 0]
  /\ faults = 0 /\ crashes = 0 /\ outlived = {} /\ overwritten = {}

Fine == UNCHANGED faults

-----------------------------------------------------------------------------
(* What the node does for a call.                                          *)

BytesOf(id) == LET c == CHOOSE d \in Calls : Id(d) = id IN Request[c].bytes
GuaranteedFree == GuaranteedShare - MapThenSumSet(BytesOf, DOMAIN leases)

(* Grant: the lease, a fresh extent, and OnGranted.                        *)
Grantable(id) == id \notin DOMAIN leases /\ BytesOf(id) <= GuaranteedFree
Granted(id) ==
  /\ Grantable(id)
  /\ leases' = [i \in DOMAIN leases \cup {id} |-> IF i = id THEN 0 ELSE leases[i]]
  /\ extent' = [extent EXCEPT ![id] = Nothing]
  /\ tier' = tier \cup {id}

(* Release: OnReleasing, the extent, the lease.                            *)
Released(id) ==
  /\ leases' = Restrict(leases, DOMAIN leases \ {id})
  /\ extent' = [extent EXCEPT ![id] = Nothing]
  /\ tier' = tier \ {id}

(* release in stage.go: a failure is reported and nothing more; the tier   *)
(* has been told by then.                                                  *)
release(id) ==
  \/ Released(id) /\ Fine
  \/ Fault /\ tier' = tier \ {id} /\ UNCHANGED <<leases, extent>>

-----------------------------------------------------------------------------
(* Stage.                                                                  *)

Goto(c, s) == step' = [step EXCEPT ![c] = s]
Say(c, a) == answer' = [answer EXCEPT ![c] = a]
Over(c, a) == Goto(c, "over") /\ Say(c, a)

(* Request.check, Survives and Check: refused before anything is reserved. *)
Check(c) ==
  /\ step[c] = "idle"
  /\ \A d \in Request[c].repeats : step[d] = "over" \/ d \in gaveUp
  /\ IF Request[c].ack \in {"durable", "staged"} /\ Request[c].bytes \in 1 .. GuaranteedFree
       THEN Goto(c, "reserve") /\ UNCHANGED answer
       ELSE Over(c, "refused")
  /\ UNCHANGED <<backend, leases, extent, tier, store, gaveUp, tries, faults, crashes, outlived, overwritten>>

(* The node grants, or does not: a duplicate, a share promised to another  *)
(* meanwhile, a cooldown, a quota, a full device.                          *)
Reserve(c) ==
  /\ step[c] = "reserve"
  /\ \/ Granted(Id(c)) /\ Goto(c, "write") /\ Fine /\ UNCHANGED answer
     \/ /\ ~ Grantable(Id(c))
        /\ Over(c, "failed") /\ Fine /\ UNCHANGED <<leases, extent, tier>>
     \/ Fault /\ Over(c, "failed") /\ UNCHANGED <<leases, extent, tier>>
  /\ UNCHANGED <<backend, store, gaveUp, tries, crashes, outlived, overwritten>>

(* stageTo: the bytes flushed; a staged acknowledgement is given here.     *)
StageTo(c) ==
  /\ step[c] = "write"
  /\ extent' = [extent EXCEPT ![Id(c)] = Request[c].content]
  /\ Goto(c, "open")
  /\ IF Request[c].ack = "staged" THEN Say(c, "staged") ELSE UNCHANGED answer
  /\ UNCHANGED <<backend, leases, tier, store, gaveUp, tries, faults, crashes, outlived, overwritten>>

(* The writer stops half way, sends too much or nothing, or the device     *)
(* fails: nothing worth keeping.                                           *)
StageToFails(c) ==
  /\ step[c] = "write" /\ Fault
  /\ extent' = [extent EXCEPT ![Id(c)] = Partial]
  /\ Goto(c, "undo")
  /\ UNCHANGED <<backend, leases, tier, store, answer, gaveUp, tries, crashes, outlived, overwritten>>

Undo(c) ==
  /\ step[c] = "undo"
  /\ release(Id(c))
  /\ Over(c, "failed")
  /\ UNCHANGED <<backend, store, gaveUp, tries, crashes, outlived, overwritten>>

-----------------------------------------------------------------------------
(* upload and durable.  A staged upload runs without the writer's context. *)

(* Mutant: the staged upload keeps the writer's context.                   *)
CancelledEither(c) == c \in gaveUp
Cancelled(c) == c \in gaveUp /\ Request[c].ack = "durable"

(* The upload failed: the lease stays, since it holds the only copy.       *)
(* Mutant: the capacity goes back whatever became of the upload.           *)
UploadFailedReleases(c) ==
  /\ Released(Id(c))
  /\ IF answer[c] = "none" THEN Over(c, "failed") ELSE Goto(c, "over") /\ UNCHANGED answer
(* Mutant: Wait returns without the error.                                 *)
UploadFailedUnsaid(c) ==
  /\ UNCHANGED <<leases, extent, tier>>
  /\ IF answer[c] = "none" THEN Over(c, "durable") ELSE Goto(c, "over") /\ UNCHANGED answer
UploadFailed(c) ==
  /\ UNCHANGED <<leases, extent, tier>>
  /\ IF answer[c] = "none" THEN Over(c, "failed") ELSE Goto(c, "over") /\ UNCHANGED answer

(* The staged file is opened again.                                        *)
Open(c) ==
  /\ step[c] = "open"
  /\ \/ /\ Id(c) \in DOMAIN leases
        /\ Goto(c, "put") /\ UNCHANGED <<answer, leases, extent, tier, faults>>
     \/ Fault /\ UploadFailed(c)
  /\ UNCHANGED <<backend, store, gaveUp, tries, crashes, outlived, overwritten>>

(* filedriver.WriteObjectFrom: O_EXCL, then the copy.                      *)
Create(c) ==
  LET o == Request[c].object
  IN  /\ step[c] = "put" /\ backend = "file"
      /\ \/ /\ store[o] = Nothing
            /\ store' = [store EXCEPT ![o] = Partial]
            /\ Goto(c, "copy") /\ UNCHANGED <<answer, leases, extent, tier>>
         \/ store[o] # Nothing /\ UploadFailed(c) /\ UNCHANGED store
      /\ UNCHANGED <<backend, gaveUp, tries, faults, crashes, outlived, overwritten>>

(* Mutant: what failed half way is left under the object's name.           *)
CopyFailedLeaves(c) == Fault /\ UploadFailed(c) /\ UNCHANGED store
CopyFailed(c) ==
  /\ Fault /\ UploadFailed(c)
  /\ store' = [store EXCEPT ![Request[c].object] = Nothing]

(* The copy, the flush, and the context's own error after both.            *)
Copy(c) ==
  /\ step[c] = "copy"
  /\ \/ /\ store' = [store EXCEPT ![Request[c].object] = extent[Id(c)]]
        /\ IF Cancelled(c) THEN UploadFailed(c)
             ELSE Goto(c, "release") /\ UNCHANGED <<answer, leases, extent, tier>>
        /\ Fine
     \/ CopyFailed(c)
  /\ UNCHANGED <<backend, gaveUp, tries, crashes, outlived, overwritten>>

(* s3driver.WriteObjectFrom: the object is replaced whole or not at all;   *)
(* an answer lost or transient is asked for again, a refusal is final.     *)
PutUnanswered(c) ==
  IF tries[c] + 1 < Attempts /\ ~ Cancelled(c)
    THEN /\ tries' = [tries EXCEPT ![c] = @ + 1]
         /\ UNCHANGED <<step, answer, leases, extent, tier>>
    ELSE UploadFailed(c) /\ UNCHANGED tries

Put(c) ==
  LET o == Request[c].object
      sent == [store EXCEPT ![o] = extent[Id(c)]]
  IN  /\ step[c] = "put" /\ backend = "s3"
      /\ \/ /\ ~ Cancelled(c) /\ store' = sent /\ Goto(c, "release")
            /\ Fine /\ UNCHANGED <<answer, leases, extent, tier, tries>>
         \/ Fault /\ store' \in {store, sent} /\ PutUnanswered(c)
         \/ Fault /\ UploadFailed(c) /\ UNCHANGED <<store, tries>>
         \/ Cancelled(c) /\ UploadFailed(c) /\ Fine /\ UNCHANGED <<store, tries>>
      /\ UNCHANGED <<backend, gaveUp, crashes, outlived, overwritten>>

(* Released once durable.                                                  *)
ReleaseDurable(c) ==
  /\ step[c] = "release"
  /\ release(Id(c))
  /\ Goto(c, "wait")
  /\ UNCHANGED <<backend, store, answer, gaveUp, tries, crashes, outlived, overwritten>>

(* Wait: both the end of the upload and the end of the context may be      *)
(* ready, and select takes either.                                         *)
Wait(c) ==
  /\ step[c] = "wait"
  /\ \/ Request[c].ack = "durable" /\ Over(c, "durable")
     \/ Cancelled(c) /\ Over(c, "failed")
     \/ Request[c].ack = "staged" /\ Goto(c, "over") /\ UNCHANGED answer
  /\ UNCHANGED <<backend, leases, extent, tier, store, gaveUp, tries, faults, crashes, outlived, overwritten>>

-----------------------------------------------------------------------------
(* The writer goes away; the fast tier fills a slot of an extent it was    *)
(* given; time passes.                                                     *)
GiveUp(c) ==
  /\ step[c] \notin {"idle", "over"} /\ c \notin gaveUp
  /\ gaveUp' = gaveUp \cup {c}
  /\ UNCHANGED <<backend, leases, extent, tier, store, step, answer, tries, faults, crashes, outlived, overwritten>>

CacheBlock(id) ==
  /\ id \in (tier \cap CachedIds) \ overwritten
  /\ extent' = [extent EXCEPT ![id] = Cached]
  /\ overwritten' = overwritten \cup {id}
  /\ UNCHANGED <<backend, leases, tier, store, step, answer, gaveUp, tries, faults, crashes, outlived>>

Age ==
  /\ \E i \in DOMAIN leases : leases[i] < Term
  /\ leases' = [i \in DOMAIN leases |-> Min({leases[i] + 1, Term})]
  /\ UNCHANGED <<backend, extent, tier, store, step, answer, gaveUp, tries, faults, crashes, outlived, overwritten>>

(* The agent dies and starts: no call survives, a lease whose term is over *)
(* is dropped with its extent, the others are kept with theirs, and none   *)
(* is handed to the tier again.                                            *)
Restart ==
  LET over == {i \in DOMAIN leases : leases[i] = Term}
  IN  /\ crashes < MaxCrashes
      /\ crashes' = crashes + 1
      /\ leases' = Restrict(leases, DOMAIN leases \ over)
      /\ extent' = [i \in Ids |-> IF i \in over THEN Nothing ELSE extent[i]]
      /\ outlived' = outlived \cup over
      /\ tier' = {}
      /\ step' = [c \in Calls |-> IF step[c] = "idle" THEN "idle" ELSE "over"]
      /\ answer' = [c \in Calls |-> IF step[c] # "idle" /\ answer[c] = "none" THEN "failed"
                                      ELSE answer[c]]
      /\ UNCHANGED <<backend, store, gaveUp, tries, faults, overwritten>>

Work(c) ==
  \/ Reserve(c) \/ StageTo(c) \/ StageToFails(c) \/ Undo(c) \/ Open(c)
  \/ Create(c) \/ Copy(c) \/ Put(c) \/ ReleaseDurable(c) \/ Wait(c)

Next ==
  \/ \E c \in Calls : Check(c) \/ Work(c) \/ GiveUp(c)
  \/ \E id \in Ids : CacheBlock(id)
  \/ Age \/ Restart

(* A call is a goroutine, so it is scheduled.                              *)
Spec == Init /\ [][Next]_stagingVars /\ \A c \in Calls : WF_stagingVars(Work(c))

-----------------------------------------------------------------------------

(* "Durable means the backend has the bytes": a call answered durable has  *)
(* its whole checkpoint in the backend from then on, whatever attempts     *)
(* failed, writers left and agents died on the way (Stage, durable,        *)
(* WriteObjectFrom).                                                       *)
DurableIsDurable ==
  \A c \in Calls : answer[c] = "durable" => store[Request[c].object] = Request[c].content

(* "They survive the process and a restart of the agent": a checkpoint     *)
(* acknowledged as staged is whole in the backend or whole in an extent    *)
(* under a lease, unless a restart found its term over or the fast tier    *)
(* wrote in its extent.                                                    *)
StagedIsKept ==
  \A c \in Calls : answer[c] = "staged" =>
    \/ store[Request[c].object] = Request[c].content
    \/ Id(c) \in DOMAIN leases /\ extent[Id(c)] = Request[c].content
    \/ Id(c) \in outlived \cup overwritten

(* "A partial object under the name the caller asked for is worse than     *)
(* none": short of a crash, a partial object is one being written.         *)
NoPartialObject ==
  crashes = 0 => \A o \in Objects : store[o] = Partial =>
    \E c \in Calls : step[c] = "copy" /\ Request[c].object = o

(* A staged checkpoint becomes durable and gives its capacity back when    *)
(* nothing failed, even though its writer stopped waiting (the upload of   *)
(* a staged acknowledgement runs without the writer's context).            *)
StagedSettles ==
  \A c \in {d \in Calls : Request[d].ack = "staged"} :
    answer[c] = "staged" ~> \/ store[Request[c].object] = Request[c].content /\ Id(c) \notin DOMAIN leases
                            \/ faults + crashes > 0 \/ Id(c) \in overwritten

(* "Not released. The bytes are still the only copy" (stage.go:244): a     *)
(* staging lease at rest holds bytes the backend does not have.            *)
HeldOnlyForTheOnlyCopy ==
  \A c \in Calls :
    /\ step[c] = "over" /\ Id(c) \in DOMAIN leases /\ crashes + faults = 0
    /\ \A d \in Calls : Id(d) = Id(c) => step[d] \in {"idle", "over"}
    => store[Request[c].object] # Request[c].content
=============================================================================
