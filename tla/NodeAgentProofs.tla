-------------------------- MODULE NodeAgentProofs --------------------------
(***************************************************************************)
(* Proofs about NodeAgent: that the manager inside it is LeaseManager's,   *)
(* and what its start-up, its drain, its releases and its sweeps leave of  *)
(* the extents.                                                            *)
(***************************************************************************)
EXTENDS NodeAgent, LeaseManagerProofs

(* Zenon proves most leaves; the others name the SMT solver.               *)
USE ZenonT(20)

-----------------------------------------------------------------------------
(* The manager in the agent.                                               *)

(* A drain asks for all that is lent, whatever Needs is.                   *)
DrainAsks == \E s \in Saves : Reclaim(borrowed, now, s)

(* Every step of the agent is one of the manager's, or none.               *)
LEMMA AgentStepsAreTheManagers ==
  ASSUME IInv, [AgentNext]_agentVars
  PROVE  [Next]_vars \/ DrainAsks
<1>1. \A id, s : Release(id, s) => id \in Ids
  BY DEF Release, IInv, TypeOK, IsBook
<1>2. ASSUME NEW c \in Callers, NEW r \in Requests, NEW t \in Stamps,
             GrantAccept(c, r, t) \/ GrantRefused(c, r, t)
      PROVE  Next
  BY <1>2 DEF GrantAccept, GrantRefused, Next, QuietStep
<1>3. ASSUME NEW c \in Callers, GrantStep(c) \/ ReleaseStep(c)
      PROVE  Next \/ UNCHANGED vars
  <2>1. CASE GrantUndo(c) \/ ReleaseFree(c)
    BY <1>1, <2>1 DEF GrantUndo, ReleaseFree, Next, QuietStep
  <2>2. CASE ~(GrantUndo(c) \/ ReleaseFree(c))
    BY <1>3, <2>2 DEF GrantStep, ReleaseStep, GrantCreate, GrantCreateFails, GrantReserve,
         GrantReserveFails, GrantUnmake, GrantTell, ReleaseInvalidate, ReleaseNoExtent,
         ReleaseUnlink, ReleaseFails
  <2>. QED BY <2>1, <2>2
<1>4. ASSUME NEW c \in Callers, NEW id \in Ids, ReleaseTell(c, id) PROVE UNCHANGED vars
  BY <1>4 DEF ReleaseTell
<1>5. ASSUME NEW need \in Needs, NEW t \in Stamps, NEW s \in Saves, SweepReclaim(need, t, s)
      PROVE  Next
  BY <1>5 DEF SweepReclaim, Next, ReclaimStep
<1>6. CASE SweepStep
  BY <1>6 DEF SweepStep, SweepTell, SweepUnlink, SweepDone, SweepInvalidate, SweepSkip
<1>7. CASE OpenStep
  BY <1>1, <1>7 DEF OpenStep, OpenReplay, ReconcileEntry, ReconcileLease, ProbePool, OpenDone,
                    OpenFails, Next, QuietStep
<1>8. CASE DrainStep
  BY <1>8 DEF DrainStep, DrainNothing, DrainDone, DrainReclaim, DrainAsks
<1>9. CASE AgentCrash \/ AgentTick \/ JournalDamaged
  BY <1>9 DEF AgentCrash, AgentTick, JournalDamaged, Next, QuietStep
<1>10. CASE UNCHANGED agentVars
  BY <1>10 DEF agentVars
<1>. QED BY <1>2, <1>3, <1>4, <1>5, <1>6, <1>7, <1>8, <1>9, <1>10 DEF AgentNext

LEMMA AgentKeepsManager == IInv /\ [AgentNext]_agentVars => IInv'
<1>. SUFFICES ASSUME IInv, [AgentNext]_agentVars PROVE IInv'
  OBVIOUS
<1>1. now \in Stamps
  BY SMTT(20), ConstantsAssumption DEF Stamps, IInv, TypeOK
<1>2. CASE DrainAsks
  BY <1>1, <1>2, ReclaimPreserves DEF DrainAsks
<1>. QED BY <1>2, AgentStepsAreTheManagers, NextPreserves

LEMMA AgentManagerInvariance == AgentSpec => []IInv
<1>1. AgentInit => IInv
  BY InitHolds DEF AgentInit
<1>. QED BY <1>1, AgentKeepsManager, PTL DEF AgentSpec

-----------------------------------------------------------------------------
(* What the agent's variables hold.                                        *)

CallSteps == {"idle"} \cup GrantSteps \cup ReleaseSteps
ACall == [step : CallSteps, id : Nat, own : BOOLEAN]
FileTypes == DOMAIN extent = Ids /\ DOMAIN held = Ids /\ invalid \subseteq Ids
AgentTypes ==
  /\ FileTypes
  /\ op \in [Callers -> ACall]
  /\ \A c \in Callers : op[c].step # "idle" => op[c].id \in Ids
  /\ sweep \in [step : {"idle", "tell", "discard", "unlink"}, ids : SUBSET Ids, id : Nat]
  /\ sweep.step = "unlink" => sweep.id \in Ids
  /\ scan \in [todo : SUBSET (Nat \X {"extent", "invalid", "probe"}), lost : SUBSET Ids]

LEMMA IdsNatural == Ids \subseteq Nat
BY ConstantsAssumption DEF Ids, Request

(* What a step makes of the calls in progress: one moves on or ends, and   *)
(* any of them may lose its file.                                          *)
Moved(c, step) ==
  /\ op' \in [Callers -> ACall]
  /\ \A d \in Callers : op'[d].id = op[d].id
  /\ op'[c].step = step /\ \A d \in Callers \ {c} : op'[d].step = op[d].step
Ended(c) ==
  op' \in [Callers -> ACall] /\ op'[c] = NoCall /\ \A d \in Callers \ {c} : op'[d] = op[d]
Began(c, step, id) ==
  /\ op' \in [Callers -> ACall] /\ op'[c].step = step /\ op'[c].id = id
  /\ \A d \in Callers \ {c} : op'[d] = op[d]
Lasted ==
  /\ op' \in [Callers -> ACall]
  /\ \A d \in Callers : op'[d].id = op[d].id /\ op'[d].step = op[d].step

LEMMA DisownedLasts ==
  ASSUME AgentTypes, NEW id
  PROVE  /\ Disowned(id) \in [Callers -> ACall]
         /\ \A d \in Callers : Disowned(id)[d].id = op[d].id /\ Disowned(id)[d].step = op[d].step
         /\ op' = Disowned(id) => Lasted
<1>1. \A r \in ACall :
        /\ [r EXCEPT !.own = FALSE] \in ACall
        /\ [r EXCEPT !.own = FALSE].step = r.step /\ [r EXCEPT !.own = FALSE].id = r.id
  BY DEF ACall
<1>2. op \in [Callers -> ACall]
  BY DEF AgentTypes
<1>3. /\ Disowned(id) \in [Callers -> ACall]
      /\ \A d \in Callers : Disowned(id)[d].id = op[d].id /\ Disowned(id)[d].step = op[d].step
  BY <1>1, <1>2 DEF Disowned
<1>. QED BY <1>3 DEF Lasted

LEMMA CallMoves ==
  ASSUME AgentTypes, NEW c \in Callers, NEW id, NEW step \in CallSteps
  PROVE  /\ Advance(c, step) => Moved(c, step)
         /\ op' = [Disowned(id) EXCEPT ![c].step = step] => Moved(c, step)
         /\ Return(c) => Ended(c)
         /\ id \in Nat => \A own \in BOOLEAN :
              op' = [op EXCEPT ![c] = Call(step, id, own)] => Began(c, step, id)
<1>1. NoCall \in ACall /\ (id \in Nat => \A own \in BOOLEAN :
        /\ Call(step, id, own) \in ACall
        /\ Call(step, id, own).step = step /\ Call(step, id, own).id = id)
  BY DEF NoCall, Call, ACall, CallSteps
<1>2. \A r \in ACall :
        /\ [r EXCEPT !.step = step] \in ACall
        /\ [r EXCEPT !.step = step].step = step /\ [r EXCEPT !.step = step].id = r.id
  BY DEF ACall
<1>3. op \in [Callers -> ACall]
  BY DEF AgentTypes
<1>4. /\ Disowned(id) \in [Callers -> ACall]
      /\ \A d \in Callers : Disowned(id)[d].id = op[d].id /\ Disowned(id)[d].step = op[d].step
  BY DisownedLasts
<1>. HIDE DEF NoCall, Call, Disowned, ACall
<1>5. \A f \in [Callers -> ACall] :
        /\ [f EXCEPT ![c].step = step] \in [Callers -> ACall]
        /\ [f EXCEPT ![c].step = step][c].step = step
        /\ [f EXCEPT ![c].step = step][c].id = f[c].id
        /\ \A d \in Callers \ {c} : [f EXCEPT ![c].step = step][d] = f[d]
  BY <1>2
<1>6. Advance(c, step) => Moved(c, step)
  BY <1>3, <1>5 DEF Advance, Moved
<1>7. op' = [Disowned(id) EXCEPT ![c].step = step] => Moved(c, step)
  BY SMTT(20), <1>4, <1>5 DEF Moved
<1>9. Return(c) => Ended(c)
  BY <1>1, <1>3 DEF Return, Ended
<1>10. ASSUME id \in Nat, NEW own \in BOOLEAN, op' = [op EXCEPT ![c] = Call(step, id, own)]
       PROVE  Began(c, step, id)
  BY <1>1, <1>3, <1>10 DEF Began
<1>. QED BY <1>6, <1>7, <1>9, <1>10

LEMMA FileTypesKept ==
  ASSUME FileTypes, NEW id \in Ids,
         RenameExtent(id) \/ UnlinkInvalid(id) \/ RemoveExtent(id)
  PROVE  FileTypes'
BY DEF FileTypes, RenameExtent, UnlinkInvalid, RemoveExtent

LEMMA CallTypesKept ==
  ASSUME AgentTypes, NEW c \in Callers, GrantStep(c) \/ ReleaseStep(c)
  PROVE  /\ AgentTypes' /\ op[c].step # "idle" /\ UNCHANGED <<phase, probe, sweep, scan>>
         /\ Ended(c) \/ \E step \in CallSteps : Moved(c, step)
<1>. DEFINE id == op[c].id
<1>0. op[c].step # "idle" /\ id \in Ids /\ id \in Nat /\ FileTypes
  <2>1. op[c].step # "idle"
    BY DEF GrantStep, ReleaseStep, GrantCreate, GrantCreateFails, GrantReserve,
         GrantReserveFails, GrantUnmake, GrantUndo, GrantTell, ReleaseInvalidate,
         ReleaseNoExtent, ReleaseUnlink, ReleaseFails, ReleaseFree
  <2>. QED BY <2>1, IdsNatural DEF AgentTypes
<1>1. UNCHANGED <<phase, probe, sweep, scan>> /\ FileTypes'
  <2>1. CASE RenameExtent(id) \/ UnlinkInvalid(id) \/ RemoveExtent(id)
    <3>1. FileTypes' /\ UNCHANGED probe
      BY <1>0, <2>1, FileTypesKept DEF RenameExtent, UnlinkInvalid, RemoveExtent
    <3>2. UNCHANGED <<phase, sweep, scan>>
      BY DEF GrantStep, ReleaseStep, GrantCreate, GrantCreateFails, GrantReserve,
         GrantReserveFails, GrantUnmake, GrantUndo, GrantTell, ReleaseInvalidate,
         ReleaseNoExtent, ReleaseUnlink, ReleaseFails, ReleaseFree
    <3>. QED BY <3>1, <3>2
  <2>2. CASE ~(RenameExtent(id) \/ UnlinkInvalid(id) \/ RemoveExtent(id))
    BY <1>0, <2>2 DEF FileTypes, fileVars, extentVars, GrantStep, ReleaseStep, GrantCreate, GrantCreateFails,
         GrantReserve, GrantReserveFails, GrantUnmake, GrantUndo, GrantTell, ReleaseInvalidate,
         ReleaseNoExtent, ReleaseUnlink, ReleaseFails, ReleaseFree
  <2>. QED BY <2>1, <2>2
<1>2. {"reserve", "undo", "tell", "unmake", "unlink", "free"} \subseteq CallSteps
  BY DEF CallSteps, GrantSteps, ReleaseSteps
<1>3. Ended(c) \/ \E step \in CallSteps : Moved(c, step)
  <2>1. CASE GrantCreate(c)
    <3>1. Began(c, "reserve", id)
      BY <1>0, <1>2, <2>1, CallMoves DEF GrantCreate
    <3>. QED BY <1>2, <3>1 DEF Began, Moved
  <2>2. CASE ~GrantCreate(c)
    <3>1. \/ Return(c)
          \/ \E step \in {"undo", "tell", "unmake", "unlink", "free"} :
               Advance(c, step) \/ op' = [Disowned(id) EXCEPT ![c].step = step]
      BY <2>2 DEF GrantStep, ReleaseStep, GrantCreateFails, GrantReserve, GrantReserveFails,
           GrantUnmake, GrantUndo, GrantTell, ReleaseInvalidate, ReleaseNoExtent, ReleaseUnlink,
           ReleaseFails, ReleaseFree
    <3>. QED BY <1>2, <3>1, CallMoves
  <2>. QED BY <2>1, <2>2
<1>. HIDE DEF id
<1>4. op' \in [Callers -> ACall] /\ \A d \in Callers : op'[d].step # "idle" => op'[d].id \in Ids
  BY SMTT(20), <1>0, <1>3 DEF Ended, Moved, AgentTypes, NoCall, Call
<1>. QED BY <1>0, <1>1, <1>3, <1>4 DEF AgentTypes

LEMMA OtherTypesKept ==
  ASSUME IInv, IInv', AgentTypes,
         \/ \E c \in Callers, r \in Requests, t \in Stamps :
              GrantAccept(c, r, t) \/ GrantRefused(c, r, t)
         \/ \E c \in Callers, id \in Ids : ReleaseTell(c, id)
         \/ \E need \in Needs, t \in Stamps, s \in Saves : SweepReclaim(need, t, s)
         \/ SweepStep \/ OpenStep \/ DrainStep
         \/ AgentCrash \/ AgentTick \/ JournalDamaged \/ UNCHANGED agentVars
  PROVE  AgentTypes'
<1>. DEFINE Still == UNCHANGED <<fileVars, op, sweep, scan>>
<1>0. {"create", "invalidate"} \subseteq CallSteps
  BY DEF CallSteps, GrantSteps, ReleaseSteps
<1>1. ASSUME Still PROVE AgentTypes'
  BY <1>1 DEF AgentTypes, FileTypes, fileVars, extentVars
<1>2. ASSUME NEW c \in Callers, NEW id \in Ids, NEW step \in {"create", "invalidate"},
             op' = [op EXCEPT ![c] = Call(step, id, FALSE)],
             FileTypes', UNCHANGED <<sweep, scan>>
      PROVE  AgentTypes'
  <2>1. Began(c, step, id)
    BY <1>0, <1>2, IdsNatural, CallMoves
  <2>. QED BY <1>2, <2>1 DEF AgentTypes, Began
<1>3. ASSUME NEW c \in Callers, NEW r \in Requests, NEW t \in Stamps,
             GrantAccept(c, r, t) \/ GrantRefused(c, r, t)
      PROVE  AgentTypes'
  <2>1. CASE GrantAccept(c, r, t)
    <3>1. r.id \in Ids
      BY DEF Ids
    <3>2. FileTypes' /\ UNCHANGED <<sweep, scan>>
      BY <2>1 DEF AgentTypes, FileTypes, GrantAccept, fileVars, extentVars
    <3>. QED BY <1>2, <2>1, <3>1, <3>2 DEF GrantAccept
  <2>2. CASE GrantRefused(c, r, t)
    BY <1>1, <2>2 DEF GrantRefused
  <2>. QED BY <1>3, <2>1, <2>2
<1>4. ASSUME NEW c \in Callers, NEW id \in Ids, ReleaseTell(c, id) PROVE AgentTypes'
  <2>1. FileTypes' /\ UNCHANGED <<sweep, scan>>
    BY <1>4 DEF AgentTypes, FileTypes, ReleaseTell, TellReleasing
  <2>. QED BY <1>2, <1>4, <2>1 DEF ReleaseTell
<1>5. ASSUME NEW need, NEW t, NEW s, Reclaim(need, t, s),
             sweep' = [step |-> "tell", ids |-> Dropped(need, t), id |-> 0],
             UNCHANGED <<fileVars, op, scan>>
      PROVE  AgentTypes'
  <2>1. Dropped(need, t) \subseteq Ids
    BY <1>5, DroppedSubset DEF IInv, TypeOK, IsBook
  <2>. QED BY <1>5, <2>1 DEF AgentTypes, FileTypes, fileVars, extentVars
<1>6. ASSUME NEW id \in Ids, SweepInvalidate(id) PROVE AgentTypes'
  <2>1. FileTypes' /\ UNCHANGED scan
    BY <1>6, FileTypesKept DEF AgentTypes, SweepInvalidate
  <2>2. Lasted
    BY <1>6, DisownedLasts DEF SweepInvalidate
  <2>3. sweep' \in [step : {"idle", "tell", "discard", "unlink"}, ids : SUBSET Ids, id : Nat]
        /\ sweep'.id \in Ids
    BY <1>6, IdsNatural DEF AgentTypes, SweepInvalidate
  <2>. QED BY <2>1, <2>2, <2>3 DEF AgentTypes, Lasted
<1>7. ASSUME NEW id \in Ids, SweepSkip(id) PROVE AgentTypes'
  BY <1>7 DEF AgentTypes, SweepSkip, FileTypes, fileVars, extentVars
<1>8. CASE SweepTell \/ SweepUnlink \/ SweepDone
  <2>1. FileTypes'
    <3>1. CASE sweep.step = "unlink" /\ UnlinkInvalid(sweep.id)
      BY <3>1, FileTypesKept DEF AgentTypes
    <3>. QED BY <1>8, <3>1 DEF AgentTypes, FileTypes, fileVars, extentVars, SweepTell, SweepUnlink,
                               SweepDone, TellReleasing
  <2>2. sweep' \in [step : {"idle", "tell", "discard"}, ids : SUBSET Ids, id : Nat]
        /\ UNCHANGED <<op, scan>>
    BY SMTT(20), <1>8 DEF AgentTypes, SweepTell, SweepUnlink, SweepDone, NoSweep
  <2>. QED BY <2>1, <2>2 DEF AgentTypes
<1>9. ASSUME NEW s \in Saves, OpenReplay(s) PROVE AgentTypes'
  <2>1. Entries \subseteq Nat \X {"extent", "invalid", "probe"}
    <3>1. invalid \subseteq Ids
      BY DEF AgentTypes, FileTypes
    <3>. QED BY SMTT(20), <3>1, IdsNatural DEF Entries
  <2>2. scan' \in [todo : SUBSET (Nat \X {"extent", "invalid", "probe"}), lost : SUBSET Ids]
    <3>1. DOMAIN leases' \subseteq Ids
      BY DEF IInv, TypeOK, IsBook
    <3>. QED BY <1>9, <2>1, <3>1 DEF OpenReplay
  <2>. QED BY <1>9, <2>2 DEF OpenReplay, AgentTypes, FileTypes, fileVars, extentVars
<1>10. ASSUME NEW entry \in scan.todo, ReconcileEntry(entry[1], entry[2]) PROVE AgentTypes'
  <2>. DEFINE id == entry[1]
              kind == entry[2]
  <2>1. FileTypes'
    <3>1. CASE kind \notin {"probe", "invalid"} /\ id \notin DOMAIN leases
      <4>1. RemoveExtent(id)
        BY <1>10, <3>1 DEF ReconcileEntry
      <4>. QED BY <4>1 DEF AgentTypes, FileTypes, RemoveExtent
    <3>2. CASE kind = "invalid"
      <4>1. UnlinkInvalid(id)
        BY <1>10, <3>2 DEF ReconcileEntry
      <4>. QED BY <4>1 DEF AgentTypes, FileTypes, UnlinkInvalid
    <3>3. CASE kind = "probe" \/ (kind \notin {"probe", "invalid"} /\ id \in DOMAIN leases)
      BY <1>10, <3>3 DEF ReconcileEntry, AgentTypes, FileTypes, fileVars, extentVars
    <3>. HIDE DEF id, kind
    <3>. QED BY <3>1, <3>2, <3>3
  <2>2. scan' \in [todo : SUBSET (Nat \X {"extent", "invalid", "probe"}), lost : SUBSET Ids]
    BY <1>10 DEF ReconcileEntry, AgentTypes
  <2>. QED BY <1>10, <2>1, <2>2 DEF ReconcileEntry, AgentTypes
<1>11. ASSUME NEW id \in Ids, NEW s \in Saves, ReconcileLease(id, s) PROVE AgentTypes'
  BY <1>11 DEF ReconcileLease, AgentTypes, FileTypes, fileVars, extentVars
<1>12. CASE ProbePool \/ OpenDone \/ OpenFails
  BY <1>12 DEF ProbePool, OpenDone, OpenFails, AgentTypes, FileTypes, extentVars
<1>13. CASE DrainNothing \/ AgentTick \/ JournalDamaged \/ UNCHANGED agentVars
  BY <1>1, <1>13 DEF DrainNothing, AgentTick, JournalDamaged, agentVars
<1>14. CASE DrainDone
  BY <1>14 DEF DrainDone, NoSweep, AgentTypes, FileTypes, fileVars, extentVars
<1>15. CASE AgentCrash
  <2>1. NoCall \in ACall /\ NoCall.step = "idle"
    BY DEF NoCall, Call, ACall, CallSteps
  <2>2. op' \in [Callers -> ACall] /\ \A c \in Callers : op'[c].step = "idle"
    BY <1>15, <2>1 DEF AgentCrash
  <2>. QED BY <1>15, <2>2 DEF AgentCrash, NoSweep, NoScan, AgentTypes, FileTypes
<1>. HIDE DEF Still
<1>16. ASSUME NEW need \in Needs, NEW t \in Stamps, NEW s \in Saves, SweepReclaim(need, t, s)
       PROVE  AgentTypes'
  BY <1>5, <1>16 DEF SweepReclaim
<1>17. ASSUME NEW s \in Saves, DrainReclaim(s) PROVE AgentTypes'
  BY <1>5, <1>17 DEF DrainReclaim
<1>. QED BY <1>3, <1>4, <1>6, <1>7, <1>8, <1>9, <1>10, <1>11, <1>12, <1>13, <1>14, <1>15, <1>16,
            <1>17 DEF SweepStep, OpenStep, DrainStep

LEMMA AgentTypesKept == IInv /\ AgentTypes /\ [AgentNext]_agentVars => AgentTypes'
BY AgentKeepsManager, CallTypesKept, OtherTypesKept DEF AgentNext

-----------------------------------------------------------------------------
(* Start-up and drain.                                                     *)

(* Journal and disk agree.                                                 *)
Agree == DOMAIN leases = {id \in Ids : extent[id] # "none"} /\ invalid = {}

(* What reconcile has still to visit accounts for every disagreement.      *)
Reconciling ==
  /\ \A id \in Ids : extent[id] # "none" => id \in DOMAIN leases \/ <<id, "extent">> \in scan.todo
  /\ \A id \in invalid : <<id, "invalid">> \in scan.todo
  /\ \A id \in DOMAIN leases : extent[id] = "none" => id \in scan.lost
  /\ \A id \in scan.lost : extent[id] = "none"

(* What a drain's sweep has still to discard is all there is to discard.   *)
Discarding ==
  /\ \A id \in Ids : extent[id] # "none" => id \in DOMAIN leases \/ id \in sweep.ids
  /\ \A id \in invalid : sweep.step = "unlink" /\ sweep.id = id

(* Open and a drain run alone, and each phase has made its progress.       *)
PhaseInv ==
  /\ phase # "up" => \A c \in Callers : op[c].step = "idle"
  /\ phase \notin {"up", "draining", "spoilt"} => sweep = NoSweep
  /\ phase = "reconcile" => Reconciling
  /\ phase \in {"probe", "drain"} => Agree
  /\ phase = "draining" => Discarding
  /\ DrainedHoldsNothing

(* While the agent is up only the first two conjuncts say anything.        *)
LEMMA UpKeeps ==
  ASSUME phase' = "up" PROVE PhaseInv'
BY DEF PhaseInv, DrainedHoldsNothing

LEMMA NoCallIdle == NoCall.step = "idle" /\ NoSweep.step = "idle" /\ NoSweep.ids = {}
BY DEF NoCall, Call, NoSweep

LEMMA CallPhase ==
  ASSUME AgentTypes, PhaseInv, NEW c \in Callers, GrantStep(c) \/ ReleaseStep(c)
  PROVE  phase = "up" /\ PhaseInv'
<1>1. op[c].step # "idle" /\ phase' = phase
  BY CallTypesKept
<1>2. phase = "up"
  BY <1>1, NoCallIdle DEF PhaseInv
<1>. QED BY <1>1, <1>2, UpKeeps

(* The sweep of a pressure watch, or of a drain.                           *)
LEMMA SweepPhase ==
  ASSUME IInv, AgentTypes, PhaseInv, SweepStep
  PROVE  PhaseInv'
<1>1. phase \in {"up", "draining", "spoilt"} /\ (phase' = phase \/ phase' = "spoilt") /\ UNCHANGED vars
      /\ (phase = "up" => phase' = "up")
  BY NoCallIdle DEF SweepStep, SweepTell, SweepUnlink, SweepDone, SweepInvalidate, SweepSkip, Spoil,
                    PhaseInv
<1>2. phase # "up" => \A c \in Callers : op'[c].step = "idle"
  <2>1. UNCHANGED op \/ Lasted
    BY DisownedLasts DEF SweepStep, SweepTell, SweepUnlink, SweepDone, SweepInvalidate, SweepSkip
  <2>. QED BY <2>1 DEF Lasted, PhaseInv
<1>3. ASSUME phase = "draining", phase' = "draining" PROVE Discarding'
  <2>0. Discarding /\ DOMAIN leases' = DOMAIN leases /\ FileTypes
    BY <1>1, <1>3 DEF PhaseInv, vars, AgentTypes
  <2>1. CASE SweepTell
    BY <2>0, <2>1 DEF SweepTell, Discarding, AgentTypes
  <2>2. CASE SweepUnlink
    BY <1>3, <2>0, <2>2 DEF SweepUnlink, Spoil, UnlinkInvalid, Discarding
  <2>3. ASSUME NEW id \in Ids, SweepInvalidate(id) PROVE Discarding'
    BY <2>0, <2>3 DEF SweepInvalidate, RenameExtent, Discarding, FileTypes
  <2>4. ASSUME NEW id \in Ids, SweepSkip(id) PROVE Discarding'
    BY <1>3, <2>0, <2>4 DEF SweepSkip, Spoil, Discarding, AgentTypes, fileVars, extentVars
  <2>. QED BY <1>3, <2>1, <2>2, <2>3, <2>4 DEF SweepStep, SweepDone
<1>. QED BY <1>1, <1>2, <1>3 DEF PhaseInv, DrainedHoldsNothing

LEMMA OpenPhase ==
  ASSUME IInv, IInv', AgentTypes, PhaseInv, OpenStep
  PROVE  PhaseInv'
<1>. DEFINE Starting == {"down", "reconcile", "probe"}
            Alone == (\A c \in Callers : op[c].step = "idle") /\ sweep = NoSweep
<1>1. phase \in Starting /\ UNCHANGED <<op, sweep>>
  BY DEF OpenStep, OpenReplay, ReconcileEntry, ReconcileLease, ProbePool, OpenDone, OpenFails
<1>2. Alone /\ Alone'
  BY <1>1 DEF PhaseInv
<1>3. phase' \in {"reconcile", "probe", "up", "drain", "failed"}
  BY DEF OpenStep, OpenReplay, ReconcileEntry, ReconcileLease, ProbePool, OpenDone, OpenFails
<1>4. SUFFICES (phase' = "reconcile" => Reconciling') /\ (phase' \in {"probe", "drain"} => Agree')
  BY <1>2, <1>3 DEF PhaseInv, DrainedHoldsNothing
<1>5. FileTypes /\ DOMAIN leases \subseteq Ids /\ DOMAIN leases' \subseteq Ids
  BY DEF AgentTypes, IInv, TypeOK, IsBook
<1>6. ASSUME NEW s \in Saves, OpenReplay(s) PROVE Reconciling' /\ phase' \in {"reconcile", "failed"}
  <2>1. /\ UNCHANGED <<extent, invalid>> /\ scan'.todo = Entries
        /\ scan'.lost = {id \in DOMAIN leases' : <<id, "extent">> \notin Entries}
        /\ phase' \in {"reconcile", "failed"}
    BY <1>6 DEF OpenReplay, fileVars, extentVars
  <2>2. /\ \A id \in Ids : <<id, "extent">> \in Entries <=> extent[id] # "none"
        /\ \A id \in invalid : <<id, "invalid">> \in Entries
    BY DEF Entries
  <2>. QED BY <1>5, <2>1, <2>2 DEF Reconciling
<1>7. ASSUME NEW entry \in scan.todo, ReconcileEntry(entry[1], entry[2])
      PROVE  Reconciling' /\ phase' = "reconcile"
  <2>. DEFINE id == entry[1]
              kind == entry[2]
  <2>0. Reconciling /\ phase' = phase /\ phase = "reconcile" /\ UNCHANGED leases
    BY <1>7 DEF ReconcileEntry, PhaseInv, vars
  <2>1. scan'.todo = scan.todo \ {<<id, kind>>} /\ scan'.lost = scan.lost
    BY <1>7 DEF ReconcileEntry, AgentTypes
  <2>2. kind \in {"extent", "invalid", "probe"}
    BY DEF AgentTypes
  <2>3. CASE kind = "probe"
    <3>1. UNCHANGED <<extent, invalid>>
      BY <1>7, <2>3 DEF ReconcileEntry, extentVars
    <3>. HIDE DEF id, kind
    <3>. QED BY <2>0, <2>1, <2>3, <3>1 DEF Reconciling
  <2>4. CASE kind = "invalid"
    <3>1. UNCHANGED extent /\ invalid' = invalid \ {id}
      BY <1>7, <2>4 DEF ReconcileEntry, UnlinkInvalid
    <3>. HIDE DEF id, kind
    <3>. QED BY <2>0, <2>1, <2>4, <3>1 DEF Reconciling
  <2>5. CASE kind = "extent"
    <3>1. \/ id \in DOMAIN leases /\ UNCHANGED <<extent, invalid>>
          \/ /\ id \notin DOMAIN leases /\ UNCHANGED invalid
             /\ extent' = [extent EXCEPT ![id] = "none"]
      BY <1>7, <2>5 DEF ReconcileEntry, RemoveExtent, fileVars, extentVars
    <3>. HIDE DEF id, kind
    <3>. QED BY SMTT(20), <1>5, <2>0, <2>1, <2>5, <3>1 DEF Reconciling, FileTypes, AgentTypes
  <2>. QED BY <2>0, <2>2, <2>3, <2>4, <2>5
<1>8. ASSUME NEW id \in Ids, NEW s \in Saves, ReconcileLease(id, s)
      PROVE  Reconciling' /\ phase' \in {"reconcile", "failed"}
  <2>1. /\ Reconciling /\ phase' \in {"reconcile", "failed"} /\ UNCHANGED <<extent, invalid>>
        /\ scan'.todo = scan.todo /\ scan'.lost = scan.lost \ {id}
        /\ id \in scan.lost
    BY <1>8 DEF ReconcileLease, AgentTypes, PhaseInv, fileVars, extentVars
  <2>2. DOMAIN leases' = DOMAIN leases \ {id}
    BY <1>8 DEF ReconcileLease, Release, Forget, Keep
  <2>. QED BY <2>1, <2>2 DEF Reconciling
<1>9. CASE ProbePool
  <2>1. Reconciling /\ scan.todo = {} /\ scan.lost = {} /\ UNCHANGED <<leases, extent, invalid>>
    BY <1>9 DEF ProbePool, NoScan, PhaseInv, extentVars, vars
  <2>2. Agree'
    BY <1>5, <2>1 DEF Reconciling, Agree
  <2>. QED BY <1>9, <2>2 DEF ProbePool
<1>10. CASE OpenDone \/ OpenFails
  BY <1>10 DEF OpenDone, OpenFails, PhaseInv, Agree, extentVars, vars
<1>. QED BY <1>6, <1>7, <1>8, <1>9, <1>10 DEF OpenStep

LEMMA DrainPhase ==
  ASSUME IInv, AgentTypes, PhaseInv, DrainStep
  PROVE  PhaseInv'
<1>1. phase # "up" /\ UNCHANGED op /\ \A c \in Callers : op[c].step = "idle"
  BY DEF DrainStep, DrainNothing, DrainDone, DrainReclaim, PhaseInv
<1>2. ASSUME NEW s \in Saves, DrainReclaim(s) PROVE PhaseInv'
  <2>. DEFINE D == Dropped(borrowed, now)
  <2>1. DOMAIN leases' = DOMAIN leases \ D
    BY <1>2 DEF DrainReclaim, Reclaim, Forget, Keep
  <2>2. sweep'.ids = D /\ phase' \in {"draining", "spoilt"} /\ Agree /\ UNCHANGED <<extent, invalid>>
    BY <1>2 DEF DrainReclaim, PhaseInv, fileVars, extentVars
  <2>. HIDE DEF D
  <2>3. Discarding'
    BY <2>1, <2>2 DEF Agree, Discarding
  <2>. QED BY <1>1, <2>2, <2>3 DEF PhaseInv, DrainedHoldsNothing
<1>3. CASE DrainNothing
  <2>1. Agree /\ UNCHANGED <<leases, borrowed, extent, invalid, sweep>> /\ sweep = NoSweep
        /\ phase' \in {"drained", "undrained"} /\ (phase' = "drained" => borrowed = 0)
    BY <1>3 DEF DrainNothing, PhaseInv, fileVars, extentVars, vars
  <2>2. DrainedHoldsNothing'
    BY <2>1 DEF DrainedHoldsNothing, Agree
  <2>. QED BY <1>1, <2>1, <2>2 DEF PhaseInv
<1>4. CASE DrainDone
  <2>1. /\ phase' \in {"drained", "undrained"} /\ sweep' = NoSweep
        /\ UNCHANGED <<leases, borrowed, extent, invalid>> /\ sweep.ids = {} /\ sweep.step = "discard"
        /\ phase' = "drained" => Discarding /\ borrowed = 0
    BY <1>4 DEF DrainDone, PhaseInv, IInv, BooksBalance, fileVars, extentVars, vars
  <2>2. DrainedHoldsNothing'
    BY <2>1 DEF DrainedHoldsNothing, Discarding
  <2>. QED BY <1>1, <2>1, <2>2 DEF PhaseInv
<1>. QED BY <1>2, <1>3, <1>4 DEF DrainStep

LEMMA PhaseKept == IInv /\ AgentTypes /\ PhaseInv /\ [AgentNext]_agentVars => PhaseInv'
<1>. SUFFICES ASSUME IInv, AgentTypes, PhaseInv, [AgentNext]_agentVars PROVE PhaseInv'
  OBVIOUS
<1>1. ASSUME phase = "up", phase' = phase PROVE PhaseInv'
  BY <1>1, UpKeeps
<1>2. CASE \/ \E c \in Callers, r \in Requests, t \in Stamps :
                GrantAccept(c, r, t) \/ GrantRefused(c, r, t)
           \/ \E c \in Callers, id \in Ids : ReleaseTell(c, id)
           \/ \E need \in Needs, t \in Stamps, s \in Saves : SweepReclaim(need, t, s)
  BY <1>1, <1>2 DEF GrantAccept, GrantRefused, ReleaseTell, SweepReclaim
<1>3. CASE AgentCrash
  BY <1>3, NoCallIdle DEF AgentCrash, PhaseInv, DrainedHoldsNothing
<1>4. CASE AgentTick \/ JournalDamaged \/ UNCHANGED agentVars
  <2>1. UNCHANGED <<phase, leases, borrowed, extent, invalid, op, sweep, scan>>
    BY <1>4 DEF AgentTick, JournalDamaged, Tick, CorruptJournal, fileVars, extentVars, vars, agentVars
  <2>. QED BY <2>1 DEF PhaseInv, Reconciling, Agree, Discarding, DrainedHoldsNothing
<1>. QED BY <1>2, <1>3, <1>4, CallPhase, SweepPhase, OpenPhase, DrainPhase, AgentKeepsManager
         DEF AgentNext

LEMMA AgentInvariance == AgentSpec => [](IInv /\ AgentTypes /\ PhaseInv)
<1>1. AgentInit => AgentTypes /\ PhaseInv
  <2>. SUFFICES ASSUME AgentInit PROVE AgentTypes /\ PhaseInv
    OBVIOUS
  <2>1. NoCall \in ACall /\ NoCall.step = "idle"
    BY DEF NoCall, Call, ACall, CallSteps
  <2>. QED BY <2>1 DEF AgentInit, AgentTypes, FileTypes, PhaseInv, DrainedHoldsNothing, NoSweep, NoScan
<1>. QED BY <1>1, AgentManagerInvariance, AgentTypesKept, PhaseKept, PTL DEF AgentSpec

(* An agent that starts, whatever any number of earlier processes left of  *)
(* any number of leases, has journal and disk in agreement.                *)
THEOREM StartsReconciled == AgentSpec => ReconciledAtOpen
<1>1. IInv /\ AgentTypes /\ PhaseInv /\ [AgentNext]_agentVars =>
        (phase = "probe" /\ phase' \in {"up", "drain"} =>
           /\ DOMAIN leases' = {id \in Ids : extent'[id] # "none"}
           /\ invalid' = {})
  <2>. SUFFICES ASSUME IInv, AgentTypes, PhaseInv, [AgentNext]_agentVars,
                       phase = "probe", phase' \in {"up", "drain"}
                PROVE  Agree'
    BY DEF Agree
  <2>1. CASE phase' = "drain"
    BY <2>1, PhaseKept DEF PhaseInv
  <2>2. CASE phase' = "up"
    <3>1. OpenDone
      BY <2>2, CallPhase, NoCallIdle DEF AgentNext, PhaseInv, GrantAccept, GrantRefused, ReleaseTell, SweepReclaim,
        SweepStep, SweepTell, SweepUnlink, SweepDone, SweepInvalidate, SweepSkip, Spoil,
        OpenStep, OpenReplay, ReconcileEntry, ReconcileLease, ProbePool, OpenFails,
        DrainStep, DrainNothing, DrainDone, DrainReclaim, AgentCrash, AgentTick, JournalDamaged,
        agentVars
    <3>. QED BY <3>1 DEF OpenDone, PhaseInv, Agree, extentVars, vars
  <2>. QED BY <2>1, <2>2
<1>. QED BY <1>1, AgentInvariance, PTL DEF ReconciledAtOpen, AgentSpec

(* A drain that reports success left nothing behind, however many leases   *)
(* there were and whatever failed on the way.                              *)
THEOREM DrainedAlwaysHoldsNothing == AgentSpec => []DrainedHoldsNothing
<1>1. PhaseInv => DrainedHoldsNothing
  BY DEF PhaseInv
<1>. QED BY <1>1, AgentInvariance, PTL

-----------------------------------------------------------------------------
(* One caller at a time, next to the watch's sweep.                        *)

OneCaller == \A c, d \in Callers : c = d

(* What the holder has had open is on disk; the file of a grant not yet    *)
(* told is not among it; a release has the holder's descriptor closed, and *)
(* no file left under either name once it comes to the accounting.         *)
OneInv ==
  /\ used \subseteq {id \in Ids : extent[id] # "none"}
  /\ \A c \in Callers :
       /\ op[c].step \in {"reserve", "tell"} => op[c].id \notin used
       /\ op[c].step \in ReleaseSteps => held[op[c].id] = "no"
       /\ op[c].step \in {"unlink", "free"} => extent[op[c].id] = "none"
       /\ op[c].step = "free" => op[c].id \notin invalid

LEMMA GrantKeepsOne ==
  ASSUME OneCaller, AgentTypes, OneInv, NEW c \in Callers, GrantStep(c)
  PROVE  OneInv'
<1>. DEFINE id == op[c].id
<1>0. FileTypes /\ \A d \in Callers : d = c
  BY DEF OneCaller, AgentTypes
<1>1. {"reserve", "undo", "tell", "unmake"} \subseteq CallSteps /\ id \in Ids /\ id \in Nat
  <2>1. op[c].step # "idle"
    BY CallTypesKept
  <2>. QED BY <2>1, IdsNatural DEF AgentTypes, CallSteps, GrantSteps
<1>2. CASE GrantCreate(c)
  <2>1. Began(c, "reserve", id)
    BY <1>1, <1>2, CallMoves DEF GrantCreate
  <2>. QED BY <1>0, <1>1, <1>2, <2>1 DEF GrantCreate, OneInv, Began, FileTypes, ReleaseSteps
<1>3. CASE GrantReserve(c)
  <2>1. Moved(c, "tell") \/ Moved(c, "undo")
    BY <1>1, <1>3, CallMoves DEF GrantReserve
  <2>. QED BY <1>0, <1>1, <1>3, <2>1 DEF GrantReserve, OneInv, Moved, FileTypes, ReleaseSteps
<1>4. CASE GrantCreateFails(c) \/ GrantReserveFails(c)
  <2>1. Moved(c, "undo") \/ Moved(c, "unmake")
    BY <1>1, <1>4, CallMoves DEF GrantCreateFails, GrantReserveFails
  <2>. QED BY <1>0, <1>4, <2>1 DEF GrantCreateFails, GrantReserveFails, OneInv, Moved, ReleaseSteps,
                              fileVars, extentVars
<1>5. CASE GrantUnmake(c)
  <2>1. Moved(c, "undo")
    BY <1>1, <1>5, CallMoves DEF GrantUnmake
  <2>. QED BY SMTT(20), <1>0, <1>1, <1>5, <2>1 DEF GrantUnmake, RemoveExtent, OneInv, Moved, FileTypes, ReleaseSteps,
                              fileVars, extentVars
<1>6. CASE GrantUndo(c)
  <2>1. Ended(c)
    BY <1>1, <1>6, CallMoves DEF GrantUndo
  <2>. QED BY <1>0, <1>6, <2>1, NoCallIdle DEF GrantUndo, OneInv, Ended, ReleaseSteps, fileVars, extentVars
<1>7. CASE GrantTell(c)
  <2>1. Ended(c)
    BY <1>1, <1>7, CallMoves DEF GrantTell
  <2>. QED BY <1>0, <1>1, <1>7, <2>1, NoCallIdle DEF GrantTell, OneInv, Ended, ReleaseSteps
<1>. QED BY <1>2, <1>3, <1>4, <1>5, <1>6, <1>7 DEF GrantStep

LEMMA ReleaseKeepsOne ==
  ASSUME OneCaller, AgentTypes, OneInv, NEW c \in Callers, ReleaseStep(c)
  PROVE  OneInv'
<1>. DEFINE id == op[c].id
<1>0. FileTypes /\ \A d \in Callers : d = c
  BY DEF OneCaller, AgentTypes
<1>1. {"unlink", "free"} \subseteq CallSteps /\ id \in Ids /\ id \in Nat
  <2>1. op[c].step # "idle"
    BY CallTypesKept
  <2>. QED BY <2>1, IdsNatural DEF AgentTypes, CallSteps, ReleaseSteps
<1>2. CASE ReleaseInvalidate(c)
  <2>1. Moved(c, "unlink")
    BY <1>1, <1>2, CallMoves DEF ReleaseInvalidate
  <2>. QED BY <1>0, <1>1, <1>2, <2>1 DEF ReleaseInvalidate, RenameExtent, OneInv, Moved, FileTypes, ReleaseSteps
<1>3. CASE ReleaseUnlink(c)
  <2>1. Moved(c, "free")
    BY <1>1, <1>3, CallMoves DEF ReleaseUnlink
  <2>. QED BY <1>0, <1>1, <1>3, <2>1 DEF ReleaseUnlink, UnlinkInvalid, OneInv, Moved, FileTypes, ReleaseSteps
<1>4. CASE ReleaseNoExtent(c) \/ ReleaseFails(c) \/ ReleaseFree(c)
  <2>1. Ended(c)
    BY <1>1, <1>4, CallMoves DEF ReleaseNoExtent, ReleaseFails, ReleaseFree
  <2>. QED BY <1>0, <1>4, <2>1, NoCallIdle DEF ReleaseNoExtent, ReleaseFails, ReleaseFree, OneInv, Ended,
                              ReleaseSteps, fileVars, extentVars
<1>. QED BY <1>2, <1>3, <1>4 DEF ReleaseStep

(* The other steps: a call begins, the sweep discards, a process starts,   *)
(* drains or ends.                                                         *)
LEMMA OneKept ==
  ASSUME OneCaller, IInv, AgentTypes, PhaseInv, OneInv, [AgentNext]_agentVars
  PROVE  OneInv'
<1>0. FileTypes /\ \A c \in Callers : op[c].step # "idle" => op[c].id \in Ids
  BY DEF AgentTypes
<1>1. ASSUME NEW c \in Callers, NEW r \in Requests, NEW t \in Stamps, GrantAccept(c, r, t)
      PROVE  OneInv'
  <2>1. r.id \in Nat /\ "create" \in CallSteps
    BY IdsNatural DEF Ids, CallSteps, GrantSteps
  <2>2. Began(c, "create", r.id)
    BY <1>1, <2>1, CallMoves DEF GrantAccept
  <2>. QED BY <1>1, <2>2 DEF GrantAccept, OneInv, Began, ReleaseSteps, fileVars, extentVars
<1>2. ASSUME NEW c \in Callers, NEW id \in Ids, ReleaseTell(c, id) PROVE OneInv'
  <2>1. id \in Nat /\ "invalidate" \in CallSteps
    BY IdsNatural DEF CallSteps, ReleaseSteps
  <2>2. Began(c, "invalidate", id)
    BY <1>2, <2>1, CallMoves DEF ReleaseTell
  <2>. QED BY <1>0, <1>2, <2>2 DEF ReleaseTell, TellReleasing, OneInv, Began, ReleaseSteps
<1>3. ASSUME NEW id \in Ids, SweepInvalidate(id) PROVE OneInv'
  <2>1. Lasted
    BY <1>3, DisownedLasts DEF SweepInvalidate
  <2>2. /\ extent[id] # "none" /\ extent' = [extent EXCEPT ![id] = "none"]
        /\ used' = used \ {id} /\ invalid' = invalid \cup {id}
        /\ \A i \in Ids : held[i] = "no" => held'[i] = "no"
    BY <1>0, <1>3 DEF SweepInvalidate, RenameExtent, FileTypes
  <2>. QED BY SMTT(20), <1>0, <2>1, <2>2 DEF OneInv, Lasted, FileTypes, ReleaseSteps
<1>4. CASE SweepTell
  BY <1>0, <1>4 DEF SweepTell, TellReleasing, OneInv, ReleaseSteps
<1>5. CASE SweepUnlink
  <2>1. /\ UNCHANGED <<extent, used, op>> /\ invalid' \subseteq invalid
        /\ \A i \in Ids : held[i] = "no" => held'[i] = "no"
    BY <1>0, <1>5 DEF SweepUnlink, UnlinkInvalid, FileTypes, fileVars, extentVars
  <2>. QED BY <1>0, <2>1 DEF OneInv, ReleaseSteps
<1>6. CASE OpenStep
  <2>1. \A c \in Callers : op'[c].step = "idle"
    BY <1>6 DEF OpenStep, OpenReplay, ReconcileEntry, ReconcileLease, ProbePool, OpenDone, OpenFails,
                PhaseInv
  <2>2. used' \subseteq {id \in Ids : extent'[id] # "none"}
    <3>1. ASSUME NEW id, RemoveExtent(id) \/ UnlinkInvalid(id)
          PROVE  used' \subseteq {i \in Ids : extent'[i] # "none"}
      BY <1>0, <3>1 DEF RemoveExtent, UnlinkInvalid, OneInv, FileTypes
    <3>2. CASE UNCHANGED <<used, extent>>
      BY <3>2 DEF OneInv
    <3>. QED BY <1>6, <3>1, <3>2 DEF OpenStep, OpenReplay, ReconcileEntry, ReconcileLease, ProbePool, OpenDone,
                                     OpenFails, fileVars, extentVars
  <2>. QED BY <2>1, <2>2 DEF OneInv, ReleaseSteps
<1>7. CASE AgentCrash
  BY <1>7, NoCallIdle DEF AgentCrash, OneInv, ReleaseSteps
<1>8. ASSUME UNCHANGED <<fileVars, op>> PROVE OneInv'
  BY <1>8 DEF OneInv, fileVars, extentVars
<1>9. CASE DrainStep \/ AgentTick \/ JournalDamaged \/ SweepDone \/ UNCHANGED agentVars
  BY <1>8, <1>9 DEF DrainStep, DrainNothing, DrainDone, DrainReclaim, AgentTick, JournalDamaged, SweepDone, agentVars
<1>10. ASSUME NEW id \in Ids, SweepSkip(id) PROVE OneInv'
  BY <1>8, <1>10 DEF SweepSkip
<1>11. ASSUME NEW c \in Callers, NEW r \in Requests, NEW t \in Stamps, GrantRefused(c, r, t)
       PROVE  OneInv'
  BY <1>8, <1>11 DEF GrantRefused
<1>12. ASSUME NEW need \in Needs, NEW t \in Stamps, NEW s \in Saves, SweepReclaim(need, t, s)
       PROVE  OneInv'
  BY <1>8, <1>12 DEF SweepReclaim
<1>. QED BY <1>1, <1>2, <1>3, <1>4, <1>5, <1>6, <1>7, <1>9, <1>10, <1>11, <1>12, GrantKeepsOne,
            ReleaseKeepsOne DEF AgentNext, SweepStep

LEMMA OneInvariance ==
  ASSUME OneCaller PROVE AgentSpec => []OneInv
<1>1. AgentInit => OneInv
  BY NoCallIdle DEF AgentInit, OneInv, ReleaseSteps
<1>2. IInv /\ AgentTypes /\ PhaseInv /\ OneInv /\ [AgentNext]_agentVars => OneInv'
  BY OneKept
<1>. QED BY <1>1, <1>2, AgentInvariance, PTL DEF AgentSpec

(* With one caller at a time, next to sweeps, faults and crashes anywhere, *)
(* what the holder opens is a file it never had open.                      *)
THEOREM ExtentsAlwaysFresh ==
  ASSUME OneCaller PROVE AgentSpec => FreshExtent
<1>1. IInv /\ AgentTypes /\ PhaseInv /\ OneInv /\ [AgentNext]_agentVars =>
        \A id \in Ids : held[id] = "no" /\ held'[id] = "path" => id \notin used
  <2>. SUFFICES ASSUME AgentTypes, OneInv, [AgentNext]_agentVars, NEW id \in Ids,
                       held[id] = "no", held'[id] = "path"
                PROVE  id \notin used
    OBVIOUS
  <2>0. FileTypes
    BY DEF AgentTypes
  <2>1. ASSUME NEW i, RenameExtent(i) \/ UnlinkInvalid(i) \/ RemoveExtent(i) PROVE FALSE
    BY <2>0, <2>1 DEF FileTypes, RenameExtent, UnlinkInvalid, RemoveExtent
  <2>2. ASSUME NEW S, TellReleasing(S) PROVE FALSE
    BY <2>2 DEF TellReleasing
  <2>3. PICK c \in Callers : GrantTell(c)
    BY <2>1, <2>2 DEF AgentNext, GrantAccept, GrantRefused, GrantStep, GrantCreate, GrantCreateFails,
       GrantReserve, GrantReserveFails, GrantUnmake, GrantUndo, ReleaseStep, ReleaseInvalidate,
       ReleaseNoExtent, ReleaseUnlink, ReleaseFails, ReleaseFree, ReleaseTell, SweepReclaim, SweepStep,
       SweepTell, SweepUnlink, SweepDone, SweepInvalidate, SweepSkip, OpenStep, OpenReplay, ReconcileEntry,
       ReconcileLease, ProbePool, OpenDone, OpenFails, DrainStep, DrainNothing, DrainDone, DrainReclaim,
       AgentCrash, AgentTick, JournalDamaged, agentVars, fileVars, extentVars
  <2>. QED BY <2>0, <2>3 DEF GrantTell, OneInv, FileTypes
<1>. QED BY <1>1, AgentInvariance, OneInvariance, PTL DEF FreshExtent, AgentSpec

(* With one caller at a time, a release that gives capacity back to the    *)
(* accounting has given it back to the disk.                               *)
THEOREM AlwaysFreedAfterGone ==
  ASSUME OneCaller PROVE AgentSpec => FreedAfterGone
<1>1. OneInv => \A c \in Callers :
        ReleaseFree(c) /\ op[c].id \in DOMAIN leases =>
          LET id == op[c].id
          IN  extent[id] = "none" /\ id \notin invalid /\ held[id] = "no"
  BY DEF OneInv, ReleaseFree, ReleaseSteps
<1>. QED BY <1>1, OneInvariance, PTL DEF FreedAfterGone

-----------------------------------------------------------------------------
(* Any number of callers, next to sweeps that finish before the clock      *)
(* moves on, with files that do not fail.                                  *)

Prompt ==
  /\ PromptReclaim /\ ~Faults /\ Lag < MinTerm
  /\ ~Autonomy \/ ChurnWindow <= 0 \/ MinTerm <= ChurnWindow

(* A call that will make the extent of its lease or give the lease back.   *)
Minds(c, id) ==
  /\ op[c].id = id
  /\ op[c].step \in {"create", "free"} \/ (op[c].step = "unlink" /\ id \in invalid)

(* A lease without an extent is minded; a sweep is of leases the manager   *)
(* has forgotten, and lasts no longer than the cooldown it began.          *)
Minded ==
  \A id \in DOMAIN leases : extent[id] = "none" => \E c \in Callers : Minds(c, id)
Forgotten ==
  /\ \A id \in sweep.ids : id \notin DOMAIN leases
  /\ sweep.step = "unlink" => sweep.id \notin DOMAIN leases
Cooling ==
  sweep # NoSweep => reclaims # <<>> /\ now <= reclaims[Len(reclaims)] + Lag
RestInv ==
  phase = "up" =>
    /\ Minded /\ Forgotten /\ Cooling
    /\ \A c \in Callers : op[c].step # "unmake"

(* Pruning does not drop the last reclamation while it is still recent.    *)
LEMMA PruneKeepsLast ==
  ASSUME NEW h \in Seq(Nat), h # <<>>, NEW t \in Int, Retention > 0, h[Len(h)] > t - Retention
  PROVE  /\ Prune(h, t) \in Seq(Nat) /\ Prune(h, t) # <<>>
         /\ Prune(h, t)[Len(Prune(h, t))] = h[Len(h)]
<1>. DEFINE S == {i \in Int : i > t - Retention}
            k == Kept(h, S)
<1>1. Prune(h, t) = k
  BY SMTT(20), RetentionCovers DEF Prune
<1>2. Len(h) \in Nat /\ Len(h) \in 1 .. Len(h) /\ h[Len(h)] \in S
  BY SMTT(20), RetentionCovers
<1>3. k \in Seq(Nat)
  BY KeptFacts
<1>. HIDE DEF S
<1>4. PICK e : Thins(k, h, S, e)
  BY KeptThins
<1>. HIDE DEF k
<1>5. k # <<>> /\ e[Len(k)] \in Len(h) .. Len(h) /\ k[Len(k)] = h[e[Len(k)]]
  BY SMTT(20), <1>2, <1>3, <1>4, ThinsLast
<1>. QED BY SMTT(20), <1>1, <1>2, <1>3, <1>5

(* What Prompt says of the numbers, and of any stamp.                      *)
LEMMA PromptFacts ==
  ASSUME Prompt, IInv
  PROVE  /\ Lag \in Nat /\ MinTerm \in Int /\ Lag < MinTerm /\ Retention \in Int
         /\ MinTerm <= Retention /\ now \in Nat /\ reclaims \in Seq(Nat)
         /\ \A t \in Stamps : t \in Nat /\ t <= now /\ now <= t + Lag
<1>1. Lag \in Nat /\ MinTerm \in Int /\ now \in Nat /\ reclaims \in Seq(Nat)
  BY SMTT(20), ConstantsAssumption DEF IInv, TypeOK
<1>2. \A t \in Stamps : t \in Nat /\ t <= now /\ now <= t + Lag
  BY SMTT(20), <1>1 DEF Stamps
<1>. QED BY <1>1, <1>2, RetentionCovers DEF Prompt

(* While a sweep lasts nothing is granted, and its reclamation stays on    *)
(* record.                                                                 *)
LEMMA SweepCools ==
  ASSUME Prompt, IInv, Cooling, sweep # NoSweep, NEW t \in Stamps
  PROVE  /\ InCooldown(Prune(reclaims, t), t)
         /\ Prune(reclaims, t) # <<>>
         /\ now <= Prune(reclaims, t)[Len(Prune(reclaims, t))] + Lag
<1>. DEFINE h == Prune(reclaims, t)
            last == reclaims[Len(reclaims)]
<1>1. /\ Lag \in Nat /\ MinTerm \in Int /\ Lag < MinTerm /\ Retention \in Int /\ MinTerm <= Retention
      /\ now \in Nat /\ reclaims \in Seq(Nat) /\ t \in Nat /\ t <= now /\ now <= t + Lag
  BY PromptFacts
<1>2. reclaims # <<>> /\ now <= last + Lag
  BY DEF Cooling
<1>3. last \in Nat
  BY SMTT(20), <1>1, <1>2
<1>4. last > t - Retention /\ Retention > 0
  <2>. HIDE DEF last
  <2>. QED BY SMTT(20), <1>1, <1>2, <1>3
<1>5. h \in Seq(Nat) /\ h # <<>> /\ h[Len(h)] = last
  BY SMTT(20), <1>1, <1>2, <1>4, PruneKeepsLast
<1>. HIDE DEF h, last
<1>6. CountAfter(h, t - ChurnWindow) \in Nat
  <2>1. t - ChurnWindow \in Int /\ t - ChurnWindow <= t - ChurnWindow
    BY SMTT(20), <1>1, ConstantsAssumption
  <2>. QED BY <1>5, <2>1, CountNatural
<1>7. CooldownFor(h, t) \in Int /\ MinTerm <= CooldownFor(h, t)
  <2>1. MinTerm > 0
    BY SMTT(20), <1>1
  <2>. QED BY <1>6, <2>1, CooldownBounds DEF Prompt
<1>8. last + CooldownFor(h, t) > t /\ MinTerm > 0
  BY SMTT(20), <1>1, <1>2, <1>3, <1>7
<1>. QED BY <1>2, <1>5, <1>8 DEF InCooldown, h

(* The steps of a call.  Each gives a lease back, or leaves its extent     *)
(* there or somebody minding it.                                           *)
LEMMA CallKeepsMinded ==
  ASSUME ~Faults, IInv, AgentTypes, RestInv, phase = "up", NEW c \in Callers,
         GrantStep(c) \/ ReleaseStep(c)
  PROVE  Minded' /\ op'[c].step # "unmake"
<1>. DEFINE id == op[c].id
<1>0. FileTypes /\ Minded /\ op[c].step # "unmake" /\ DOMAIN leases \subseteq Ids
  BY DEF RestInv, AgentTypes, IInv, TypeOK, IsBook
<1>1. {"reserve", "undo", "tell", "unlink", "free"} \subseteq CallSteps /\ id \in Ids /\ id \in Nat
  <2>1. op[c].step # "idle"
    BY CallTypesKept
  <2>. QED BY <2>1, IdsNatural DEF AgentTypes, CallSteps, GrantSteps, ReleaseSteps
<1>2. CASE GrantCreate(c)
  <2>1. Began(c, "reserve", id)
    BY <1>1, <1>2, CallMoves DEF GrantCreate
  <2>2. UNCHANGED <<leases, invalid>> /\ extent' = [extent EXCEPT ![id] = "empty"]
    BY <1>2 DEF GrantCreate, vars
  <2>. QED BY SMTT(20), <1>0, <1>1, <2>1, <2>2 DEF Minded, Minds, Began, FileTypes
<1>3. CASE GrantReserve(c)
  <2>1. Moved(c, "tell")
    BY <1>1, <1>3, CallMoves DEF GrantReserve
  <2>2. /\ UNCHANGED <<leases, invalid>> /\ op[c].step = "reserve"
        /\ \A i \in Ids : extent'[i] = "none" => extent[i] = "none"
    BY <1>0, <1>3 DEF GrantReserve, vars, FileTypes
  <2>. QED BY SMTT(20), <1>0, <2>1, <2>2 DEF Minded, Minds, Moved
<1>4. CASE GrantCreateFails(c)
  <2>1. Moved(c, "undo")
    BY <1>1, <1>4, CallMoves DEF GrantCreateFails
  <2>2. UNCHANGED <<leases, invalid, extent>> /\ extent[id] # "none"
    BY <1>4 DEF GrantCreateFails, vars, fileVars, extentVars
  <2>. QED BY SMTT(20), <1>0, <2>1, <2>2 DEF Minded, Minds, Moved
<1>5. CASE GrantUndo(c) \/ ReleaseFree(c)
  <2>1. Ended(c)
    BY <1>1, <1>5, CallMoves DEF GrantUndo, ReleaseFree
  <2>2. UNCHANGED <<extent, invalid>> /\ DOMAIN leases' = DOMAIN leases \ {id}
    BY <1>5 DEF GrantUndo, ReleaseFree, Release, Forget, Keep, vars, fileVars, extentVars
  <2>. QED BY SMTT(20), <1>0, <2>1, <2>2, NoCallIdle DEF Minded, Minds, Ended
<1>6. CASE GrantTell(c) \/ ReleaseNoExtent(c) \/ ReleaseFails(c)
  <2>1. Ended(c)
    BY <1>1, <1>6, CallMoves DEF GrantTell, ReleaseNoExtent, ReleaseFails
  <2>2. UNCHANGED <<leases, extent, invalid>> /\ ~Minds(c, id)
    BY <1>6 DEF GrantTell, ReleaseNoExtent, ReleaseFails, Minds, vars, fileVars, extentVars
  <2>. QED BY SMTT(20), <1>0, <2>1, <2>2, NoCallIdle DEF Minded, Minds, Ended
<1>7. CASE ReleaseInvalidate(c)
  <2>1. Moved(c, "unlink")
    BY <1>1, <1>7, CallMoves DEF ReleaseInvalidate
  <2>2. /\ UNCHANGED leases /\ extent' = [extent EXCEPT ![id] = "none"]
        /\ invalid' = invalid \cup {id} /\ op[c].step = "invalidate"
    BY <1>7 DEF ReleaseInvalidate, RenameExtent, vars
  <2>3. Minds(c, id)'
    BY <2>1, <2>2 DEF Minds, Moved
  <2>. QED BY SMTT(20), <1>0, <1>1, <2>1, <2>2, <2>3 DEF Minded, Minds, Moved, FileTypes
<1>8. CASE ReleaseUnlink(c)
  <2>1. Moved(c, "free")
    BY <1>1, <1>8, CallMoves DEF ReleaseUnlink
  <2>2. UNCHANGED <<leases, extent>> /\ invalid' = invalid \ {id}
    BY <1>8 DEF ReleaseUnlink, UnlinkInvalid, vars
  <2>3. Minds(c, id)'
    BY <2>1 DEF Minds, Moved
  <2>. QED BY SMTT(20), <1>0, <2>1, <2>2, <2>3 DEF Minded, Minds, Moved
<1>. QED BY <1>0, <1>2, <1>3, <1>4, <1>5, <1>6, <1>7, <1>8
         DEF GrantStep, ReleaseStep, GrantReserveFails, GrantUnmake

LEMMA CallKeepsRest ==
  ASSUME ~Faults, IInv, AgentTypes, PhaseInv, RestInv, NEW c \in Callers,
         GrantStep(c) \/ ReleaseStep(c)
  PROVE  RestInv'
<1>1. phase = "up" /\ UNCHANGED sweep
  BY CallPhase, CallTypesKept
<1>2. Minded' /\ \A d \in Callers : op'[d].step # "unmake"
  <2>1. \A d \in Callers \ {c} : op'[d].step = op[d].step
    BY CallTypesKept DEF Ended, Moved
  <2>. QED BY <1>1, <2>1, CallKeepsMinded DEF RestInv
<1>3. UNCHANGED <<now, reclaims>> /\ DOMAIN leases' \subseteq DOMAIN leases
  BY DEF GrantStep, ReleaseStep, GrantCreate, GrantCreateFails, GrantReserve, GrantReserveFails,
     GrantUnmake, GrantUndo, GrantTell, ReleaseInvalidate, ReleaseNoExtent, ReleaseUnlink,
     ReleaseFails, ReleaseFree, Release, Forget, Keep, vars
<1>. QED BY <1>1, <1>2, <1>3 DEF RestInv, Forgotten, Cooling

LEMMA SweepKeepsRest ==
  ASSUME IInv, AgentTypes, RestInv, SweepStep, phase = "up"
  PROVE  RestInv'
<1>0. FileTypes /\ Minded /\ Forgotten /\ Cooling /\ UNCHANGED vars
      /\ DOMAIN leases \subseteq Ids
  BY DEF RestInv, AgentTypes, SweepStep, SweepTell, SweepUnlink, SweepDone, SweepInvalidate, SweepSkip,
         IInv, TypeOK, IsBook
<1>1. UNCHANGED <<now, reclaims, leases>>
  BY <1>0 DEF vars
<1>2. UNCHANGED op \/ Lasted
  BY DisownedLasts DEF SweepStep, SweepTell, SweepUnlink, SweepDone, SweepInvalidate, SweepSkip
<1>3. Cooling'
  BY <1>0, <1>1, NoCallIdle DEF Cooling, SweepStep, SweepTell, SweepUnlink, SweepDone, SweepInvalidate, SweepSkip
<1>4. Forgotten'
  BY SMTT(20), <1>0, <1>1 DEF Forgotten, SweepStep, SweepTell, SweepUnlink, SweepDone, SweepInvalidate, SweepSkip,
                    NoSweep, AgentTypes
<1>5. Minded'
  <2>1. ASSUME NEW id \in Ids, SweepInvalidate(id) PROVE Minded'
    <3>1. /\ id \notin DOMAIN leases /\ invalid' = invalid \cup {id}
          /\ extent' = [extent EXCEPT ![id] = "none"]
      BY <1>0, <2>1 DEF SweepInvalidate, RenameExtent, Forgotten
    <3>. QED BY SMTT(20), <1>0, <1>1, <1>2, <3>1 DEF Minded, Minds, Lasted, FileTypes
  <2>2. CASE SweepUnlink
    <3>1. /\ sweep.id \notin DOMAIN leases /\ UNCHANGED extent
          /\ invalid' = invalid \/ invalid' = invalid \ {sweep.id}
      BY <1>0, <2>2 DEF SweepUnlink, UnlinkInvalid, Forgotten, fileVars, extentVars
    <3>. QED BY SMTT(20), <1>0, <1>1, <1>2, <3>1 DEF Minded, Minds, Lasted
  <2>3. CASE UNCHANGED <<extent, invalid>>
    BY SMTT(20), <1>0, <1>1, <1>2, <2>3 DEF Minded, Minds, Lasted
  <2>. QED BY <2>1, <2>2, <2>3 DEF SweepStep, SweepTell, SweepDone, SweepSkip, fileVars, extentVars
<1>. QED BY <1>2, <1>3, <1>4, <1>5 DEF RestInv, Lasted

LEMMA AcceptKeepsRest ==
  ASSUME Prompt, IInv, AgentTypes, RestInv,
         NEW c \in Callers, NEW r \in Requests, NEW t \in Stamps, GrantAccept(c, r, t)
  PROVE  RestInv'
<1>0. phase = "up" /\ Minded /\ Cooling /\ op[c] = NoCall
  BY DEF GrantAccept, RestInv
<1>1. sweep = NoSweep
  <2>1. ~InCooldown(Prune(reclaims, t), t)
    BY DEF GrantAccept, AcceptGranted, Acceptable
  <2>. QED BY <1>0, <2>1, SweepCools
<1>2. Began(c, "create", r.id)
  <2>1. r.id \in Nat /\ "create" \in CallSteps
    BY IdsNatural DEF Ids, CallSteps, GrantSteps
  <2>. QED BY <2>1, CallMoves DEF GrantAccept
<1>3. UNCHANGED <<extent, invalid, sweep>> /\ DOMAIN leases' = DOMAIN leases \cup {r.id}
  BY DEF GrantAccept, AcceptGranted, WithLease, fileVars, extentVars
<1>4. Minds(c, r.id)'
  BY <1>2 DEF Minds, Began
<1>5. Minded'
  BY SMTT(20), <1>0, <1>2, <1>3, <1>4, NoCallIdle DEF Minded, Minds, Began
<1>. QED BY <1>0, <1>1, <1>2, <1>3, <1>5, NoCallIdle DEF RestInv, Forgotten, Cooling, Began

LEMMA SweepBeginsAtRest ==
  ASSUME Prompt, IInv, RestInv, NEW need, NEW t \in Stamps, NEW s, SweepReclaim(need, t, s)
  PROVE  RestInv'
<1>0. /\ phase = "up" /\ Minded /\ Reclaim(need, t, s) /\ UNCHANGED <<now, extent, invalid, op>>
      /\ sweep'.ids = Dropped(need, t) /\ sweep'.step = "tell"
  BY DEF SweepReclaim, RestInv, Reclaim, fileVars, extentVars
<1>1. DOMAIN leases' = DOMAIN leases \ Dropped(need, t)
  BY <1>0 DEF Reclaim, Forget, Keep
<1>2. Minded' /\ Forgotten'
  BY <1>0, <1>1 DEF Minded, Minds, Forgotten
<1>3. reclaims' = Prune(Append(reclaims, t), t)
  BY <1>0, ReclaimDrops DEF Reclaim
<1>4. /\ Lag \in Nat /\ MinTerm \in Int /\ Lag < MinTerm /\ Retention \in Int /\ MinTerm <= Retention
      /\ reclaims \in Seq(Nat) /\ t \in Nat /\ now <= t + Lag
  BY PromptFacts
<1>5. /\ Append(reclaims, t) \in Seq(Nat) /\ Append(reclaims, t) # <<>>
      /\ Append(reclaims, t)[Len(Append(reclaims, t))] = t
  BY SMTT(20), <1>4
<1>6. t > t - Retention /\ Retention > 0 /\ t \in Int
  BY SMTT(20), <1>4
<1>7. reclaims' # <<>> /\ reclaims'[Len(reclaims')] = t
  BY <1>3, <1>5, <1>6, PruneKeepsLast
<1>8. Cooling'
  BY <1>0, <1>4, <1>7 DEF Cooling
<1>. QED BY <1>0, <1>2, <1>8 DEF RestInv

LEMMA RestKept ==
  ASSUME Prompt, IInv, AgentTypes, PhaseInv, RestInv, [AgentNext]_agentVars
  PROVE  RestInv'
<1>1. ASSUME NEW c \in Callers, NEW r \in Requests, NEW t \in Stamps, GrantRefused(c, r, t)
      PROVE  RestInv'
  <2>1. /\ phase = "up" /\ UNCHANGED <<now, leases, extent, invalid, op, sweep>>
        /\ reclaims' = Prune(reclaims, t) /\ Cooling
    BY <1>1 DEF GrantRefused, AcceptRefused, AcceptUnsaved, RestInv, fileVars, extentVars
  <2>2. Cooling'
    BY <2>1, SweepCools DEF Cooling
  <2>. QED BY <2>1, <2>2 DEF RestInv, Minded, Minds, Forgotten
<1>2. ASSUME NEW c \in Callers, NEW id \in Ids, ReleaseTell(c, id) PROVE RestInv'
  <2>1. /\ phase = "up" /\ UNCHANGED <<now, leases, reclaims, extent, invalid, sweep>> /\ op[c] = NoCall
    BY <1>2 DEF ReleaseTell, vars
  <2>2. Began(c, "invalidate", id)
    <3>1. id \in Nat /\ "invalidate" \in CallSteps
      BY IdsNatural DEF CallSteps, ReleaseSteps
    <3>. QED BY <1>2, <3>1, CallMoves DEF ReleaseTell
  <2>. QED BY SMTT(20), <2>1, <2>2, NoCallIdle DEF RestInv, Minded, Minds, Forgotten, Cooling, Began
<1>3. CASE OpenStep \/ DrainStep \/ AgentCrash
  <2>. SUFFICES ASSUME phase' = "up" PROVE RestInv'
    BY DEF RestInv
  <2>1. OpenDone
    BY <1>3 DEF OpenStep, OpenReplay, ReconcileEntry, ReconcileLease, ProbePool, OpenFails,
       DrainStep, DrainNothing, DrainDone, DrainReclaim, AgentCrash
  <2>2. Agree /\ sweep = NoSweep /\ UNCHANGED <<leases, extent, op, sweep>>
        /\ \A c \in Callers : op[c].step = "idle"
    BY <2>1 DEF OpenDone, PhaseInv, extentVars, vars
  <2>. QED BY <2>2, NoCallIdle DEF Agree, RestInv, Minded, Forgotten, Cooling
<1>4. CASE AgentTick
  <2>1. sweep = NoSweep /\ UNCHANGED <<phase, leases, extent, invalid, op, sweep>>
    BY <1>4 DEF AgentTick, Tick, Prompt, fileVars, extentVars
  <2>. QED BY <2>1 DEF RestInv, Minded, Minds, Forgotten, Cooling
<1>5. CASE JournalDamaged \/ UNCHANGED agentVars
  <2>1. UNCHANGED <<phase, now, reclaims, leases, extent, invalid, op, sweep>>
    BY <1>5 DEF JournalDamaged, CorruptJournal, agentVars, vars, fileVars, extentVars
  <2>. QED BY <2>1 DEF RestInv, Minded, Minds, Forgotten, Cooling
<1>6. CASE SweepStep
  <2>. SUFFICES ASSUME phase' = "up" PROVE RestInv'
    BY DEF RestInv
  <2>1. phase = "up"
    BY <1>6 DEF SweepStep, SweepTell, SweepUnlink, SweepDone, SweepInvalidate, SweepSkip, Spoil
  <2>. QED BY <1>6, <2>1, SweepKeepsRest
<1>7. ~Faults
  BY DEF Prompt
<1>. QED BY <1>1, <1>2, <1>3, <1>4, <1>5, <1>6, <1>7, AcceptKeepsRest, CallKeepsRest,
            SweepBeginsAtRest DEF AgentNext

(* However many callers grant and release the same leases, next to sweeps  *)
(* that outpace the clock: no lease at rest is without its extent.  What a *)
(* file error, or a sweep slower than the cooldown, does to it is left out *)
(* (the README says why).                                                  *)
THEOREM LeaseAtRestAlwaysHasExtent ==
  ASSUME Prompt PROVE AgentSpec => []LeaseAtRestHasExtent
<1>1. AgentInit => RestInv
  BY DEF AgentInit, RestInv
<1>2. IInv /\ AgentTypes /\ PhaseInv /\ RestInv /\ [AgentNext]_agentVars => RestInv'
  BY RestKept
<1>3. RestInv => LeaseAtRestHasExtent
  BY DEF RestInv, Minded, Minds, LeaseAtRestHasExtent
<1>. QED BY <1>1, <1>2, <1>3, AgentInvariance, PTL DEF AgentSpec

(* Inside the agent, too, the accounting and the lease table never part,   *)
(* and the journal covers what is held: a drain's Reclaim, which asks for  *)
(* more than the manager's own callers do, included.                       *)
THEOREM AgentBooksAlwaysBalance == AgentSpec => [](BooksBalance /\ JournalCovers)
<1>1. IInv => BooksBalance /\ JournalCovers
  BY DEF IInv
<1>. QED BY <1>1, AgentManagerInvariance, PTL
=============================================================================
