------------------------------ MODULE NodeAgent ------------------------------
(***************************************************************************)
(* The node agent (internal/agent) around the lease manager: the extent    *)
(* files that make a lease's bytes real, the holder (the fast tier) that   *)
(* opens them, and the start-up that makes journal and disk agree.         *)
(*                                                                         *)
(* The agent itself takes no lock, so its methods interleave at every      *)
(* system call and every call into the manager: a Grant and a Release are  *)
(* several steps of a caller (an HTTP handler of the lease API, the        *)
(* checkpoint stager), ReclaimCapacity several steps of the one pressure   *)
(* watch.  Open runs alone, before anything else can reach the agent, and  *)
(* a process started to drain its node only gives back what it lent.       *)
(***************************************************************************)
EXTENDS LeaseManager

CONSTANTS
  Callers,       \* concurrent callers of Grant and Release
  Faults,        \* whether file operations may fail
  PromptReclaim  \* whether discarding what was reclaimed outpaces the clock

VARIABLES
  phase,    \* of the process: "down", then Open's "reconcile" and "probe", then
            \*   "up", or "drain" and what comes of it; "failed" if Open gave up
  extent,   \* the file at a lease's extent path: "none", "empty" or "whole"
  used,     \* the extents whose bytes the holder has had open
  invalid,  \* the leases with a file under the .invalid name
  probe,    \* whether the residual-data probe's file is in the pool
  held,     \* where the file is that the holder has open for a lease:
            \*   "no", at its "path", at its "invalid" name, or unlinked ("gone")
  op,       \* per caller: the call in progress
  sweep,    \* the watch's ReclaimCapacity in progress
  scan      \* reconcile in progress: the entries and the leases left to visit

extentVars == <<extent, used, invalid, held>>
fileVars == <<extentVars, probe>>
agentVars == <<vars, phase, fileVars, op, sweep, scan>>

-----------------------------------------------------------------------------
(* A caller's call: its step, its lease and whether the file at the extent *)
(* path is still the one this call created (it holds a descriptor of it).  *)
Call(step, id, own) == [step |-> step, id |-> id, own |-> own]
NoCall == Call("idle", 0, FALSE)
GrantSteps == {"create", "reserve", "unmake", "undo", "tell"}
ReleaseSteps == {"invalidate", "unlink", "free"}

(* The watch's sweep: the dropped leases not yet discarded, and the one    *)
(* whose extent is renamed and not yet unlinked.                           *)
NoSweep == [step |-> "idle", ids |-> {}, id |-> 0]

Advance(c, step) == op' = [op EXCEPT ![c].step = step]
Return(c) == op' = [op EXCEPT ![c] = NoCall]

(* The calls in progress once the file at id's extent path is another one. *)
Disowned(id) ==
  [c \in Callers |-> IF op[c].id = id THEN [op[c] EXCEPT !.own = FALSE] ELSE op[c]]

-----------------------------------------------------------------------------
(* The file operations of discard.                                         *)

(* os.Rename onto the .invalid name, which overwrites a file already there. *)
RenameExtent(id) ==
  /\ extent' = [extent EXCEPT ![id] = "none"]
  /\ used' = used \ {id}
  /\ invalid' = invalid \cup {id}
  /\ held' = [held EXCEPT ![id] = CASE @ = "path" -> "invalid"
                                    [] @ = "invalid" -> "gone"
                                    [] OTHER -> @]
  /\ UNCHANGED probe

UnlinkInvalid(id) ==
  /\ invalid' = invalid \ {id}
  /\ held' = [held EXCEPT ![id] = IF @ = "invalid" THEN "gone" ELSE @]
  /\ UNCHANGED <<extent, used, probe>>

(* os.Remove of the extent path, whichever file is there by now.           *)
RemoveExtent(id) ==
  /\ extent' = [extent EXCEPT ![id] = "none"]
  /\ used' = used \ {id}
  /\ held' = [held EXCEPT ![id] = IF @ = "path" THEN "gone" ELSE @]
  /\ UNCHANGED <<invalid, probe>>

(* The releasing callback: the tier closes the descriptors it has.         *)
TellReleasing(S) ==
  held' = [id \in Ids |-> IF id \in S THEN "no" ELSE held[id]]

-----------------------------------------------------------------------------
(* Grant.                                                                  *)

GrantAccept(c, r, t) ==
  /\ phase = "up" /\ op[c] = NoCall
  /\ AcceptGranted(r, t)
  /\ op' = [op EXCEPT ![c] = Call("create", r.id, FALSE)]
  /\ UNCHANGED <<phase, fileVars, sweep, scan>>

(* The manager said no, or could not journal the lease: the call is over.  *)
GrantRefused(c, r, t) ==
  /\ phase = "up" /\ op[c] = NoCall
  /\ AcceptRefused(r, t) \/ \E s \in Saves : AcceptUnsaved(r, t, s)
  /\ UNCHANGED <<phase, fileVars, op, sweep, scan>>

(* Mutant: without O_EXCL.                                                 *)
GrantAdopt(c) ==
  /\ op[c].step = "create"
  /\ extent' = [extent EXCEPT ![op[c].id] = IF @ = "none" THEN "empty" ELSE @]
  /\ op' = [op EXCEPT ![c] = Call("reserve", op[c].id, TRUE)]
  /\ UNCHANGED <<vars, phase, used, invalid, held, probe, sweep, scan>>

(* O_EXCL: a file already at the path fails the grant.                     *)
GrantCreate(c) ==
  /\ op[c].step = "create"
  /\ extent[op[c].id] = "none"
  /\ extent' = [extent EXCEPT ![op[c].id] = "empty"]
  /\ op' = [op EXCEPT ![c] = Call("reserve", op[c].id, TRUE)]
  /\ UNCHANGED <<vars, phase, used, invalid, held, probe, sweep, scan>>

GrantCreateFails(c) ==
  /\ op[c].step = "create"
  /\ extent[op[c].id] # "none" \/ Faults
  /\ Advance(c, "undo")
  /\ UNCHANGED <<vars, phase, fileVars, sweep, scan>>

(* fallocate and close act on the descriptor; the bytes are under the path *)
(* only while the path still names the file this call created.  A close    *)
(* that fails leaves the file and fails the grant.                         *)
GrantReserve(c) ==
  /\ op[c].step = "reserve"
  /\ extent' = [extent EXCEPT ![op[c].id] = IF op[c].own THEN "whole" ELSE @]
  /\ \/ Advance(c, "tell")
     \/ Faults /\ Advance(c, "undo")
  /\ UNCHANGED <<vars, phase, used, invalid, held, probe, sweep, scan>>

GrantReserveFails(c) ==
  /\ op[c].step = "reserve"
  /\ Faults
  /\ Advance(c, "unmake")
  /\ UNCHANGED <<vars, phase, fileVars, sweep, scan>>

(* The half-made extent is removed; a failure to is only reported.         *)
GrantUnmake(c) ==
  LET id == op[c].id
  IN  /\ op[c].step = "unmake"
      /\ \/ /\ extent[id] # "none"
            /\ RemoveExtent(id)
            /\ op' = [Disowned(id) EXCEPT ![c].step = "undo"]
         \/ /\ extent[id] = "none" \/ Faults
            /\ Advance(c, "undo")
            /\ UNCHANGED fileVars
      /\ UNCHANGED <<vars, phase, sweep, scan>>

GrantUndo(c) ==
  LET id == op[c].id
  IN  /\ op[c].step = "undo"
      /\ \/ \E s \in Saves : Release(id, s)
         \/ id \notin DOMAIN leases /\ UNCHANGED vars
      /\ Return(c)
      /\ UNCHANGED <<phase, fileVars, sweep, scan>>

(***************************************************************************)
(* The granted callback: the tier opens the extent path and keeps it.  It  *)
(* cannot when the path is gone or holds no whole block, and will not when *)
(* it already holds an extent of that lease; the grant stands either way.  *)
(***************************************************************************)
GrantTell(c) ==
  LET id == op[c].id
      opens == extent[id] = "whole" /\ held[id] = "no"
  IN  /\ op[c].step = "tell"
      /\ held' = [held EXCEPT ![id] = IF opens THEN "path" ELSE @]
      /\ used' = IF opens THEN used \cup {id} ELSE used
      /\ Return(c)
      /\ UNCHANGED <<vars, phase, extent, invalid, probe, sweep, scan>>

-----------------------------------------------------------------------------
(* Release: the holder, the extent, then the accounting.                   *)

ReleaseTell(c, id) ==
  /\ phase = "up" /\ op[c] = NoCall
  /\ TellReleasing({id})
  /\ op' = [op EXCEPT ![c] = Call("invalidate", id, FALSE)]
  /\ UNCHANGED <<vars, phase, extent, used, invalid, probe, sweep, scan>>

(* Mutant: the renamed extent is left to the next start.                   *)
ReleaseLeavesInvalid(c) ==
  LET id == op[c].id
  IN  /\ op[c].step = "invalidate"
      /\ extent[id] # "none"
      /\ RenameExtent(id)
      /\ op' = [Disowned(id) EXCEPT ![c].step = "free"]
      /\ UNCHANGED <<vars, phase, sweep, scan>>

ReleaseInvalidate(c) ==
  LET id == op[c].id
  IN  /\ op[c].step = "invalidate"
      /\ extent[id] # "none"
      /\ RenameExtent(id)
      /\ op' = [Disowned(id) EXCEPT ![c].step = "unlink"]
      /\ UNCHANGED <<vars, phase, sweep, scan>>

(* ErrNoExtent, which the lease API answers as done.                       *)
ReleaseNoExtent(c) ==
  /\ op[c].step = "invalidate"
  /\ extent[op[c].id] = "none"
  /\ Return(c)
  /\ UNCHANGED <<vars, phase, fileVars, sweep, scan>>

ReleaseUnlink(c) ==
  /\ op[c].step = "unlink"
  /\ op[c].id \in invalid
  /\ UnlinkInvalid(op[c].id)
  /\ Advance(c, "free")
  /\ UNCHANGED <<vars, phase, sweep, scan>>

(* A rename or an unlink that fails ends the call with the lease counted.  *)
ReleaseFails(c) ==
  /\ \/ op[c].step = "invalidate" /\ Faults
     \/ op[c].step = "unlink" /\ (op[c].id \notin invalid \/ Faults)
  /\ Return(c)
  /\ UNCHANGED <<vars, phase, fileVars, sweep, scan>>

ReleaseFree(c) ==
  /\ op[c].step = "free"
  /\ \/ \E s \in Saves : Release(op[c].id, s)
     \/ op[c].id \notin DOMAIN leases /\ UNCHANGED vars
  /\ Return(c)
  /\ UNCHANGED <<phase, fileVars, sweep, scan>>

-----------------------------------------------------------------------------
(* ReclaimCapacity: the accounting, the holder, then each extent.          *)

SweepReclaim(need, t, s) ==
  /\ phase = "up" /\ sweep = NoSweep
  /\ Reclaim(need, t, s)
  /\ sweep' = [step |-> "tell", ids |-> Dropped(need, t), id |-> 0]
  /\ UNCHANGED <<phase, fileVars, op, scan>>

SweepTell ==
  /\ sweep.step = "tell"
  /\ TellReleasing(sweep.ids)
  /\ sweep' = [sweep EXCEPT !.step = "discard"]
  /\ UNCHANGED <<vars, phase, extent, used, invalid, probe, op, scan>>

(* An extent that could not be discarded, which a drain has to report.     *)
Spoil == phase' = IF phase = "draining" THEN "spoilt" ELSE phase

(* The next extent to discard, in whatever order the manager dropped them. *)
SweepInvalidate(id) ==
  /\ sweep.step = "discard" /\ id \in sweep.ids
  /\ extent[id] # "none"
  /\ RenameExtent(id)
  /\ op' = Disowned(id)
  /\ sweep' = [step |-> "unlink", ids |-> sweep.ids \ {id}, id |-> id]
  /\ UNCHANGED <<vars, phase, scan>>

(* No extent, or a rename that failed: on to the next lease.               *)
SweepSkip(id) ==
  /\ sweep.step = "discard" /\ id \in sweep.ids
  /\ \/ extent[id] = "none" /\ UNCHANGED phase
     \/ Faults /\ Spoil
  /\ sweep' = [sweep EXCEPT !.ids = @ \ {id}]
  /\ UNCHANGED <<vars, fileVars, op, scan>>

SweepUnlink ==
  /\ sweep.step = "unlink"
  /\ \/ sweep.id \in invalid /\ UnlinkInvalid(sweep.id) /\ UNCHANGED phase
     \/ (sweep.id \notin invalid \/ Faults) /\ Spoil /\ UNCHANGED fileVars
  /\ sweep' = [step |-> "discard", ids |-> sweep.ids, id |-> 0]
  /\ UNCHANGED <<vars, op, scan>>

SweepDone ==
  /\ phase = "up"
  /\ sweep.step = "discard" /\ sweep.ids = {}
  /\ sweep' = NoSweep
  /\ UNCHANGED <<vars, phase, fileVars, op, scan>>

-----------------------------------------------------------------------------
(* Open.                                                                   *)

(* The pool's directory entries: extents, and what discard renamed.        *)
Entries ==
  {<<id, "extent">> : id \in {i \in Ids : extent[i] # "none"}}
    \cup {<<id, "invalid">> : id \in invalid}
    \cup {e \in {<<0, "probe">>} : probe}
NoScan == [todo |-> {}, lost |-> {}]

(***************************************************************************)
(* Replay the journal, then list the pool and the leases it has no extent  *)
(* for.  A journal that does not parse is recovered from, even when        *)
(* resetting it failed; a read error, and a replay that could not be       *)
(* journalled, end the process.                                            *)
(***************************************************************************)
OpenReplay(s) ==
  /\ phase = "down"
  /\ \/ Restore(s) /\ phase' = IF restored' THEN "reconcile" ELSE "failed"
     \/ /\ ~journal.readable \/ Faults
        /\ RestoreUnreadable(s)
        /\ phase' = IF journal.readable THEN "failed" ELSE "reconcile"
  /\ scan' = [todo |-> Entries,
              lost |-> {id \in DOMAIN leases' : <<id, "extent">> \notin Entries}]
  /\ UNCHANGED <<fileVars, op, sweep>>

(* Mutant: a start overlooks what an interrupted discard left.             *)
ReconcileExtentsOnly(id, kind) ==
  /\ phase = "reconcile" /\ <<id, kind>> \in scan.todo
  /\ IF kind # "extent" \/ id \in DOMAIN leases THEN UNCHANGED fileVars
     ELSE RemoveExtent(id)
  /\ scan' = [scan EXCEPT !.todo = @ \ {<<id, kind>>}]
  /\ UNCHANGED <<vars, phase, op, sweep>>

(* An entry a live lease claims stays; any other is removed.               *)
ReconcileEntry(id, kind) ==
  /\ phase = "reconcile" /\ <<id, kind>> \in scan.todo
  /\ CASE kind = "probe" -> probe' = FALSE /\ UNCHANGED extentVars
       [] kind = "invalid" -> UnlinkInvalid(id)
       [] OTHER -> IF id \in DOMAIN leases THEN UNCHANGED fileVars ELSE RemoveExtent(id)
  /\ scan' = [scan EXCEPT !.todo = @ \ {<<id, kind>>}]
  /\ UNCHANGED <<vars, phase, op, sweep>>

(* Then the leases without an extent are dropped, up to the first failure. *)
ReconcileLease(id, s) ==
  /\ phase = "reconcile" /\ scan.todo = {} /\ id \in scan.lost
  /\ Release(id, s)
  /\ phase' = IF s = "saved" THEN "reconcile" ELSE "failed"
  /\ scan' = [scan EXCEPT !.lost = @ \ {id}]
  /\ UNCHANGED <<fileVars, op, sweep>>

(* The residual-data probe: a file under a name no lease can have, made    *)
(* anew, reserved as an extent is and read back.                           *)
ProbePool ==
  /\ phase = "reconcile" /\ scan = NoScan
  /\ phase' = "probe"
  /\ probe' = TRUE
  /\ UNCHANGED <<vars, extentVars, op, sweep, scan>>

(* It read as zeros.  Nobody hears of a probe that could not be removed.   *)
OpenDone ==
  /\ phase = "probe"
  /\ phase' \in {"up", "drain"}
  /\ \/ probe' = FALSE
     \/ Faults /\ UNCHANGED probe
  /\ UNCHANGED <<vars, extentVars, op, sweep, scan>>

(* A removal, the heartbeat or the residual-data probe failed.             *)
OpenFails ==
  /\ phase \in {"reconcile", "probe"} /\ Faults
  /\ phase' = "failed"
  /\ \/ probe' = FALSE
     \/ UNCHANGED probe
  /\ UNCHANGED <<vars, extentVars, op, sweep, scan>>

-----------------------------------------------------------------------------
(* drainNode: all that is lent is asked back, and the process ends.        *)

DrainReclaim(s) ==
  /\ phase = "drain" /\ sweep = NoSweep
  /\ Reclaim(borrowed, now, s)
  /\ sweep' = [step |-> "tell", ids |-> Dropped(borrowed, now), id |-> 0]
  /\ phase' = IF s = "saved" THEN "draining" ELSE "spoilt"
  /\ UNCHANGED <<fileVars, op, scan>>

(* Nothing lent, or nothing that may be taken.                             *)
DrainNothing ==
  /\ phase = "drain"
  /\ borrowed = 0 \/ Dropped(borrowed, now) = {}
  /\ phase' = IF borrowed = 0 THEN "drained" ELSE "undrained"
  /\ UNCHANGED <<vars, fileVars, op, sweep, scan>>

(* Mutant: what was reclaimed is reported as drained, gone or not.         *)
DrainDoneAnyway ==
  /\ phase \in {"draining", "spoilt"}
  /\ sweep.step = "discard" /\ sweep.ids = {}
  /\ phase' = IF Total(leases, DOMAIN leases) = 0 THEN "drained" ELSE "undrained"
  /\ sweep' = NoSweep
  /\ UNCHANGED <<vars, fileVars, op, scan>>

(* drainOutcome and stillHeld: drained means no failure and no bytes held. *)
DrainDone ==
  /\ phase \in {"draining", "spoilt"}
  /\ sweep.step = "discard" /\ sweep.ids = {}
  /\ phase' = IF phase = "draining" /\ Total(leases, DOMAIN leases) = 0
              THEN "drained" ELSE "undrained"
  /\ sweep' = NoSweep
  /\ UNCHANGED <<vars, fileVars, op, scan>>

(* The process ends, at any point; its descriptors are closed.             *)
AgentCrash ==
  /\ phase # "down"
  /\ Crash
  /\ phase' = "down"
  /\ held' = [id \in Ids |-> "no"]
  /\ op' = [c \in Callers |-> NoCall]
  /\ sweep' = NoSweep /\ scan' = NoScan
  /\ UNCHANGED <<extent, used, invalid, probe>>

AgentTick ==
  /\ PromptReclaim => sweep = NoSweep
  /\ Tick
  /\ UNCHANGED <<phase, fileVars, op, sweep, scan>>

JournalDamaged ==
  /\ Faults /\ CorruptJournal
  /\ UNCHANGED <<phase, fileVars, op, sweep, scan>>

-----------------------------------------------------------------------------
AgentInit ==
  /\ Init
  /\ phase = "down"
  /\ extent = [id \in Ids |-> "none"]
  /\ used = {} /\ invalid = {} /\ probe = FALSE
  /\ held = [id \in Ids |-> "no"]
  /\ op = [c \in Callers |-> NoCall]
  /\ sweep = NoSweep /\ scan = NoScan

GrantStep(c) ==
  \/ GrantCreate(c) \/ GrantCreateFails(c)
  \/ GrantReserve(c) \/ GrantReserveFails(c)
  \/ GrantUnmake(c) \/ GrantUndo(c) \/ GrantTell(c)

ReleaseStep(c) ==
  \/ ReleaseInvalidate(c) \/ ReleaseNoExtent(c)
  \/ ReleaseUnlink(c) \/ ReleaseFails(c) \/ ReleaseFree(c)

SweepStep ==
  \/ SweepTell \/ SweepUnlink \/ SweepDone
  \/ \E id \in Ids : SweepInvalidate(id) \/ SweepSkip(id)

OpenStep ==
  \/ \E s \in Saves : OpenReplay(s)
  \/ \E entry \in scan.todo : ReconcileEntry(entry[1], entry[2])
  \/ \E id \in Ids, s \in Saves : ReconcileLease(id, s)
  \/ ProbePool \/ OpenDone \/ OpenFails

DrainStep == DrainNothing \/ DrainDone \/ \E s \in Saves : DrainReclaim(s)

AgentNext ==
  \/ \E c \in Callers, r \in Requests, t \in Stamps :
       GrantAccept(c, r, t) \/ GrantRefused(c, r, t)
  \/ \E c \in Callers : GrantStep(c) \/ ReleaseStep(c)
  \/ \E c \in Callers, id \in Ids : ReleaseTell(c, id)
  \/ \E need \in Needs, t \in Stamps, s \in Saves : SweepReclaim(need, t, s)
  \/ SweepStep \/ OpenStep \/ DrainStep
  \/ AgentCrash \/ AgentTick \/ JournalDamaged

AgentSpec == AgentInit /\ [][AgentNext]_agentVars

(* What the agent does without being asked goes on: the clock, the rest of *)
(* a call, of a sweep and of a start once begun.                           *)
FairAgentSpec ==
  /\ AgentSpec
  /\ WF_agentVars(AgentTick) /\ WF_agentVars(SweepStep) /\ WF_agentVars(OpenStep)
  /\ \A c \in Callers : WF_agentVars(GrantStep(c) \/ ReleaseStep(c))

-----------------------------------------------------------------------------
(* Properties.                                                             *)

(***************************************************************************)
(* An agent whose start succeeds has journal and disk in agreement: one     *)
(* file per lease, no lease without one, nothing left of an interrupted    *)
(* discard, wherever earlier processes died, in the middle of a grant, a   *)
(* release, a sweep or an earlier reconcile (reconcile: "makes the journal *)
(* and the disk agree").                                                   *)
(***************************************************************************)
ReconciledAtOpen ==
  [][phase = "probe" /\ phase' \in {"up", "drain"} =>
       /\ DOMAIN leases' = {id \in Ids : extent'[id] # "none"}
       /\ invalid' = {}]_agentVars

(***************************************************************************)
(* What the holder opens for a new grant is a file it never had open       *)
(* before, so no bytes of an earlier lease can be in it (allocate:         *)
(* "silently adopting it would hand a new tenant whatever the last one     *)
(* left there").                                                           *)
(***************************************************************************)
FreshExtent ==
  [][\A id \in Ids : held[id] = "no" /\ held'[id] = "path" => id \notin used]_agentVars

(***************************************************************************)
(* A lease that is counted, and that no call is busy with, has its extent: *)
(* no interleaving of grants, releases and sweeps on the same identifiers  *)
(* takes the file from under it.  A sweep discards by name long after the  *)
(* manager forgot the lease; only the cooldown keeps that name from being  *)
(* granted again before the sweep gets to it.                              *)
(***************************************************************************)
LeaseAtRestHasExtent ==
  phase = "up" =>
    \A id \in DOMAIN leases :
      extent[id] # "none" \/ \E c \in Callers : op[c].id = id

(***************************************************************************)
(* Capacity a release gives back to the accounting is capacity the disk    *)
(* has back: when the lease stops being counted, none of its bytes are     *)
(* under either name nor in the holder's descriptor, whatever a sweep of   *)
(* the same lease, a failed unlink or an earlier process did in between    *)
(* (Release: "the node never reports capacity as available while the bytes *)
(* are still on disk").  One caller at a time; see the README for two.     *)
(***************************************************************************)
FreedAfterGone ==
  [][\A c \in Callers :
       ReleaseFree(c) /\ op[c].id \in DOMAIN leases =>
         LET id == op[c].id
         IN  extent[id] = "none" /\ id \notin invalid /\ held[id] = "no"]_agentVars

(***************************************************************************)
(* A drain that reports success left nothing behind: no borrowed byte is   *)
(* counted, and every file in the pool is that of a lease of no bytes,     *)
(* whatever the journal, a rename or an unlink did meanwhile and whatever  *)
(* earlier processes left (drainOutcome).                                  *)
(***************************************************************************)
DrainedHoldsNothing ==
  phase = "drained" =>
    /\ borrowed = 0
    /\ \A id \in Ids : extent[id] # "none" => id \in DOMAIN leases
    /\ invalid = {}

-----------------------------------------------------------------------------
(* Statements of the repository that the code does not keep.               *)

AtRest == phase = "up" /\ sweep = NoSweep /\ \A c \in Callers : op[c] = NoCall

(***************************************************************************)
(* ReclaimCapacity: the holder is "Told before the unlink, not after: an   *)
(* open descriptor keeps the blocks, so the space would not come back".    *)
(***************************************************************************)
HolderLetsGo == \A id \in Ids : held[id] # "gone"

(***************************************************************************)
(* The lease API's release: a lease reported as done is gone ("The caller  *)
(* wanted it gone and it is gone").                                        *)
(***************************************************************************)
ReleasedMeansGone ==
  [][\A c \in Callers : ReleaseNoExtent(c) => op[c].id \notin DOMAIN leases]_agentVars

(***************************************************************************)
(* Grant: "the accounting never records capacity that does not exist on    *)
(* disk", asked of an agent at rest.                                       *)
(***************************************************************************)
CountedIsOnDisk ==
  AtRest =>
    \A id \in DOMAIN leases : extent[id] = "whole"

(***************************************************************************)
(* serveReads: "Capacity a control plane proposed becomes tier capacity    *)
(* [...]: without this a lease adds bytes to the pool that nothing can put *)
(* a block in."                                                            *)
(***************************************************************************)
CountedIsUsable ==
  AtRest =>
    \A id \in DOMAIN leases : extent[id] = "whole" => held[id] = "path"

(***************************************************************************)
(* Expire: "a node cut off from the control plane drifts toward giving     *)
(* capacity back to compute": a lease whose term has run out is eventually *)
(* given back, though nobody asks.                                         *)
(***************************************************************************)
ExpiredIsReturned ==
  \A id \in Ids :
    id \in DOMAIN leases /\ Expired(leases[id], now) ~> id \notin DOMAIN leases
==============================================================================
