---------------------------- MODULE VolumeReports ---------------------------
(***************************************************************************)
(* The node half of the CSI driver (internal/csi) and its reports to the   *)
(* agent's volume registry (internal/volumes, cmd/forebay-csi).            *)
(*                                                                         *)
(* The kubelet asks for a volume to be published at a target, or taken     *)
(* away from it, repeats a call whose answer it did not hear, and runs one *)
(* call at a time for a target.  The driver looks at the mount table,      *)
(* mounts or unmounts, and then tells the agent over HTTP.  The report is  *)
(* best effort: it may be refused, may time out and arrive later, and the  *)
(* agent forgets everything when it restarts.                              *)
(***************************************************************************)
EXTENDS VolumeRegistry, FaultBudget, FiniteSets

CONSTANTS
    Targets,        \* the paths pods mount at
    VolumeAt,       \* VolumeAt[t]: the volume the pod at t uses
    VolumeSize      \* VolumeSize[v]: the bytes the volume's context carries

VARIABLES
    pod,        \* pod[t]: what the kubelet wants at t, and whether it has it
    call,       \* call[t]: where the driver is in the call running for t
    mounts,     \* mounts[t]: how many mounts are stacked at t
    wire,       \* reports whose sender stopped waiting for them
    registry,   \* the agent's registry
    astray      \* volumes the registry has not been told about in order

reportVars == <<pod, call, mounts, wire, registry, astray, faults>>

Volumes == {VolumeAt[t] : t \in Targets}

Report(op, t) == [op |-> op, vol |-> VolumeAt[t]]

ReportsInit ==
    /\ pod = [t \in Targets |-> "absent"]
    /\ call = [t \in Targets |-> "idle"]
    /\ mounts = [t \in Targets |-> 0]
    /\ wire = {}
    /\ registry = NewRegistry
    /\ astray = {}
    /\ faults = 0

Goto(t, s) == call' = [call EXCEPT ![t] = s]

-----------------------------------------------------------------------------
(* The kubelet (external): a pod starts, and stops whether or not its      *)
(* volume was ever published.                                              *)

StartPod(t) ==
    /\ pod[t] = "absent"
    /\ pod' = [pod EXCEPT ![t] = "starting"]
    /\ UNCHANGED <<call, mounts, wire, registry, astray, faults>>

StopPod(t) ==
    /\ pod[t] \in {"starting", "running"}
    /\ call[t] = "idle"
    /\ pod' = [pod EXCEPT ![t] = "stopping"]
    /\ UNCHANGED <<call, mounts, wire, registry, astray, faults>>

(* It calls until it hears that the call worked. *)
Call(t) ==
    /\ call[t] = "idle"
    /\ pod[t] \in {"starting", "stopping"}
    /\ Goto(t, IF pod[t] = "starting" THEN "publish" ELSE "unpublish")
    /\ UNCHANGED <<pod, mounts, wire, registry, astray, faults>>

(* The answer to a call is heard, or lost and the call repeated. *)
Heard(t) ==
    /\ call[t] = "answered"
    /\ Goto(t, "idle")
    /\ \/ /\ pod' = [pod EXCEPT ![t] = IF @ = "starting" THEN "running" ELSE "absent"]
          /\ UNCHANGED faults
       \/ Fault /\ UNCHANGED pod
    /\ UNCHANGED <<mounts, wire, registry, astray>>

-----------------------------------------------------------------------------
(* The driver. *)

(* The bug of a mount that does not look at the mount table first. *)
MountStacked(t) ==
    /\ call[t] = "publish"
    /\ mounts' = [mounts EXCEPT ![t] = @ + 1]
    /\ Goto(t, "observe")
    /\ UNCHANGED <<pod, wire, registry, astray, faults>>

(* Mount: nothing to do when the table says it is mounted, and otherwise   *)
(* mount(8) runs.  It may fail, or be killed with the call's context after *)
(* it mounted, and the call then fails without a report.                   *)
Mount(t) ==
    /\ call[t] = "publish"
    /\ mounts' = [mounts EXCEPT ![t] = IF @ > 0 THEN @ ELSE 1]
    /\ Goto(t, "observe")
    /\ UNCHANGED <<pod, wire, registry, astray, faults>>

MountFails(t) ==
    /\ call[t] = "publish"
    /\ Fault
    /\ \/ UNCHANGED mounts
       \/ mounts[t] = 0 /\ mounts' = [mounts EXCEPT ![t] = 1]
    /\ Goto(t, "idle")
    /\ UNCHANGED <<pod, wire, registry, astray>>

(* The bug of an unmount that fails where nothing is mounted. *)
UnmountStrict(t) ==
    /\ call[t] = "unpublish"
    /\ mounts' = [mounts EXCEPT ![t] = IF @ > 0 THEN @ - 1 ELSE 0]
    /\ Goto(t, IF mounts[t] > 0 THEN "forget" ELSE "idle")
    /\ UNCHANGED <<pod, wire, registry, astray, faults>>

(* Unmount: one umount(8), and only for a target the table names. *)
Unmount(t) ==
    /\ call[t] = "unpublish"
    /\ mounts' = [mounts EXCEPT ![t] = IF @ > 0 THEN @ - 1 ELSE 0]
    /\ Goto(t, "forget")
    /\ UNCHANGED <<pod, wire, registry, astray, faults>>

UnmountFails(t) ==
    /\ call[t] = "unpublish"
    /\ Fault
    /\ \/ UNCHANGED mounts
       \/ mounts[t] > 0 /\ mounts' = [mounts EXCEPT ![t] = @ - 1]
    /\ Goto(t, "idle")
    /\ UNCHANGED <<pod, wire, registry, astray>>

(* What the agent's handlers make of a report. *)
Apply(r) ==
    IF r.op = "observe" THEN Published(registry, r.vol, VolumeSize[r.vol])
    ELSE Unpublished(registry, r.vol)

(* The bug of a driver that never tells the agent a volume is gone. *)
TellPublishedOnly(t) ==
    /\ call[t] \in {"observe", "forget"}
    /\ LET r == Report(call[t], t) IN
        /\ registry' = IF r.op = "forget" THEN registry ELSE Apply(r)
        /\ astray' = IF \E m \in wire : m.vol = r.vol THEN astray ELSE astray \ {r.vol}
    /\ Goto(t, "answered")
    /\ UNCHANGED <<pod, mounts, wire, faults>>

(* observe and forget: the agent answers the report, *)
Tell(t) ==
    /\ call[t] \in {"observe", "forget"}
    /\ LET r == Report(call[t], t) IN
        /\ registry' = Apply(r)
        /\ astray' = IF \E m \in wire : m.vol = r.vol THEN astray ELSE astray \ {r.vol}
    /\ Goto(t, "answered")
    /\ UNCHANGED <<pod, mounts, wire, faults>>

(* or it does not, and the call succeeds all the same: the report is lost, *)
(* or is still on its way when the driver, or the kubelet, stops waiting.  *)
TellFails(t) ==
    /\ call[t] \in {"observe", "forget"}
    /\ Fault
    /\ wire' \in {wire, wire \cup {Report(call[t], t)}}
    /\ astray' = astray \cup {VolumeAt[t]}
    /\ Goto(t, "answered")
    /\ UNCHANGED <<pod, mounts, registry>>

-----------------------------------------------------------------------------
(* The agent. *)

(* A report nobody waits for arrives after all. *)
Late(r) ==
    /\ r \in wire
    /\ wire' = wire \ {r}
    /\ registry' = Apply(r)
    /\ UNCHANGED <<pod, call, mounts, astray, faults>>

Restart ==
    /\ Fault
    /\ registry' = NewRegistry
    /\ wire' = {}
    /\ astray' = Volumes
    /\ UNCHANGED <<pod, call, mounts>>

Driver(t) ==
    \/ Mount(t) \/ MountFails(t)
    \/ Unmount(t) \/ UnmountFails(t)
    \/ Tell(t) \/ TellFails(t)

ReportsNext ==
    \/ \E t \in Targets : StartPod(t) \/ StopPod(t) \/ Call(t) \/ Heard(t) \/ Driver(t)
    \/ \E r \in wire : Late(r)
    \/ Restart

(* The kubelet keeps calling and listening, and the driver's calls end.    *)
ReportsSpec ==
    /\ ReportsInit /\ [][ReportsNext]_reportVars
    /\ \A t \in Targets : WF_reportVars(Call(t) \/ Heard(t) \/ Driver(t))

-----------------------------------------------------------------------------

(* However often a publish is repeated and wherever a call died, a running *)
(* pod has exactly one mount under it and a pod that is gone has none: the *)
(* mount table is read before mount(8) and umount(8), so that a repeat     *)
(* neither stacks a mount nor fails.                                       *)
MountsFollowPods ==
    \A t \in Targets :
        /\ pod[t] = "running" => mounts[t] = 1
        /\ pod[t] = "absent" => mounts[t] = 0

Settled(v) ==
    \A t \in Targets : VolumeAt[t] = v =>
        call[t] = "idle" /\ pod[t] \in {"absent", "running"}

(* Once the calls for a volume are over, and no report of it went astray   *)
(* since one arrived in order, the agent counts the volume exactly while   *)
(* it is mounted: repeats, failed calls and a restart of the agent leave   *)
(* nothing counted twice, left over or forgotten.                          *)
RegistryFollowsMounts ==
    \A v \in Volumes : Settled(v) /\ v \notin astray =>
        (v \in DOMAIN registry <=> \E t \in Targets : VolumeAt[t] = v /\ mounts[t] > 0)

(* A pod that is stopping is let go of: unmounting what is not mounted is  *)
(* a success, so that the kubelet does not repeat an unpublish forever.    *)
PodsLetGo ==
    \A t \in Targets : pod[t] = "stopping" ~> pod[t] = "absent"

=============================================================================
