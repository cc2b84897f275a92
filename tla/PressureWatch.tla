---------------------------- MODULE PressureWatch ---------------------------
(***************************************************************************)
(* The agent's pressure watch (internal/agent/pressure.go) beside the      *)
(* workloads it makes room for: pods that declared what they will write    *)
(* (internal/kubelet), writers that told nobody, volumes the CSI driver    *)
(* published (internal/volumes), grants of borrowed capacity, the heartbeat *)
(* and the liveness probe (internal/agent/liveness.go).                    *)
(*                                                                         *)
(* A pass reads free space, what is lent, the pods and the volumes one     *)
(* after the other while all of them move, and then reclaims.  Space is    *)
(* counted in units of one lease.  A lease the agent may take back is one  *)
(* unit of lent; its extent is one unit of held, which follows lent later, *)
(* and becomes stuck when it cannot be unlinked (what a grant and a        *)
(* reclaim do to the leases themselves is module NodeAgent).               *)
(***************************************************************************)
EXTENDS VolumeRegistry, FaultBudget

CONSTANTS
    FsSize,         \* units on the filesystem the pools are on
    Layouts,        \* where the pods' own files may be: records of Layout
    Pods,
    Already,        \* the pods on the node before the agent starts
    Containers,     \* Containers[p]: a pod's containers, records of Container
    Volumes,
    Size,           \* Size[v]: the units a volume names
    Headroom,       \* the fixed floor, 0 when the floor is a duration
    HeadroomFor,    \* the floor as a duration, in intervals
    MinHeadroom,    \* the floor under a floor that is a duration
    StaleAfter,     \* the heartbeat's age, in intervals, the probe tolerates
    MaxLent         \* bound on what is lent

(* The filesystem the kubelet charges pods for: whether it is the one the  *)
(* pools are on, whether the agent can see its directory and so tell,      *)
(* whether the agent could measure its own, and the size the kubelet says. *)
Layout == [same: BOOLEAN, seen: BOOLEAN, known: BOOLEAN, size: Nat]

Container == [kind: {"app", "init", "sidecar"}, ask: Nat]

ASSUME WatchAssumption ==
    /\ FsSize \in Nat
    /\ Layouts \subseteq Layout
    /\ \A l \in Layouts : l.same => l.size = FsSize
    /\ IsFiniteSet(Pods) /\ Already \subseteq Pods
    /\ \A p \in Pods : Containers[p] \in Seq(Container)
    /\ IsFiniteSet(Volumes) /\ \A v \in Volumes : Size[v] \in Int
    /\ {Headroom, HeadroomFor, MinHeadroom, StaleAfter, MaxLent, MaxFaults} \subseteq Nat
    (* WatchConfig.Validate: one floor, and a minimum under a duration. *)
    /\ Headroom > 0 <=> HeadroomFor = 0
    /\ HeadroomFor > 0 => MinHeadroom > 0

VARIABLES
    layout,
    phase, used,    \* per pod: its phase, and what it wrote
    other,          \* units written by workloads that told nobody
    lent, held,     \* reclaimable leases, and units their extents occupy
    stuck,          \* units of extents that could not be unlinked
    registry,       \* the volume registry
    pending,        \* the pod source: unbuilt, building or built
    at,             \* where the watch is in its pass
    pass,           \* what this pass has read
    sample,         \* what the rate estimator remembers of the last pass
    beat,           \* intervals since the last heartbeat
    broken,         \* free space cannot be measured any more
    seen            \* what the pass missed, for the properties

workVars == <<phase, used, other>>
leaseVars == <<lent, held, stuck>>
passVars == <<at, pass, sample, beat, pending>>
nodeVars == <<layout, broken>>
watchVars == <<workVars, leaseVars, registry, passVars, nodeVars, seen, faults>>

NoSample == [sum |-> 0, have |-> FALSE]
NoPass == [avail |-> 0, floor |-> 0, needs |-> <<>>, held |-> 0, took |-> 0]

(* seen.took: written since free space was last measured.  seen.calm:      *)
(* since then, nothing but pods writing what they declared: seen.wrote,    *)
(* and seen.slip of it before the pods were read.  seen.clear: nothing     *)
(* else since a calm pass that read every pod gave back all that was       *)
(* needed, the slip no more than the floor.                                *)
NothingSeen == [took |-> 0, calm |-> FALSE, wrote |-> FALSE, pods |-> FALSE, slip |-> 0,
                clear |-> FALSE]

(* What n units a pod writes take from the pools' filesystem. *)
Taken(n) == IF layout.same THEN n ELSE 0

Free == FsSize - other - held - stuck - Taken(SumOver(used, Pods))

(* podSource: pods on another filesystem say nothing about the space lent. *)
(* The device decides where it can be seen, and the size only otherwise.   *)
Usable ==
    IF layout.seen THEN layout.same
    ELSE layout.known /\ layout.size = FsSize

(* The first attempt to build the pod source, before the watch begins. *)
FirstAttempt == {"unbuilt"} \cup {x \in {"built"} : Usable}

WatchInit ==
    /\ layout \in Layouts
    /\ phase = [p \in Pods |-> IF p \in Already THEN "Pending" ELSE "absent"]
    /\ used = [p \in Pods |-> 0]
    /\ other = 0
    /\ lent = 0 /\ held = 0 /\ stuck = 0
    /\ registry = NewRegistry
    /\ pending \in FirstAttempt
    /\ at = "rest" /\ pass = NoPass /\ sample = NoSample
    /\ beat = StaleAfter + 1
    /\ broken = FALSE
    /\ seen = NothingSeen
    /\ faults = 0

Disturbed(took) ==
    seen' = [seen EXCEPT !.took = @ + took, !.calm = FALSE, !.wrote = FALSE, !.pods = FALSE,
                         !.slip = 0, !.clear = FALSE]

-----------------------------------------------------------------------------
(* declared: what stays is added up, and what runs and exits before it     *)
(* needs no more than the largest of it.                                   *)
Declared ==
    [p \in Pods |->
        LET ask == [i \in DOMAIN Containers[p] |-> Containers[p][i].ask]
            passing == {i \in DOMAIN Containers[p] : Containers[p][i].kind = "init"}
        IN  Max({SumOver(ask, DOMAIN Containers[p] \ passing)} \cup {ask[i] : i \in passing})]

(* A request the filesystem could never hold is no evidence of a write. *)
Possible(p) == Declared[p] <= layout.size

-----------------------------------------------------------------------------
(* The node's workloads (external). *)

Start(p) ==
    /\ phase[p] = "absent"
    /\ phase' = [phase EXCEPT ![p] = "Pending"]
    /\ Disturbed(0)
    /\ UNCHANGED <<used, other, leaseVars, registry, passVars, nodeVars, faults>>

(* A pod writes what it declared; one that declared more than a filesystem *)
(* could hold meant nothing by it.                                         *)
Write(p) ==
    /\ phase[p] \in {"Pending", "Running"}
    /\ Possible(p) /\ used[p] < Declared[p]
    /\ layout.same => Free > 0
    /\ phase' = [phase EXCEPT ![p] = "Running"]
    /\ used' = [used EXCEPT ![p] = @ + 1]
    /\ seen' = [seen EXCEPT !.took = @ + Taken(1), !.wrote = seen.calm,
                            !.slip = IF seen.calm /\ at \in {"lent", "pods"} THEN @ + 1 ELSE @]
    /\ UNCHANGED <<other, leaseVars, registry, passVars, nodeVars, faults>>

(* A pod finishes, and its files go with it. *)
Finish(p) ==
    /\ phase[p] = "Running"
    /\ phase' = [phase EXCEPT ![p] = "Succeeded"]
    /\ used' = [used EXCEPT ![p] = 0]
    /\ Disturbed(Taken(0 - used[p]))
    /\ UNCHANGED <<other, leaseVars, registry, passVars, nodeVars, faults>>

Scribble ==
    /\ other = 0 /\ Free > 0
    /\ other' = 1
    /\ Disturbed(1)
    /\ UNCHANGED <<phase, used, leaseVars, registry, passVars, nodeVars, faults>>

Publish(v) ==
    /\ v \notin DOMAIN registry
    /\ registry' = Published(registry, v, Size[v])
    /\ Disturbed(0)
    /\ UNCHANGED <<workVars, leaseVars, passVars, nodeVars, faults>>

Unpublish(v) ==
    /\ v \in DOMAIN registry
    /\ registry' = Unpublished(registry, v)
    /\ Disturbed(0)
    /\ UNCHANGED <<workVars, leaseVars, passVars, nodeVars, faults>>

-----------------------------------------------------------------------------
(* A grant: the lease is in the accounting before its extent is on disk. *)

Accept ==
    /\ lent < MaxLent /\ lent = held
    /\ lent' = lent + 1
    /\ Disturbed(0)
    /\ UNCHANGED <<workVars, held, stuck, registry, passVars, nodeVars, faults>>

(* fallocate, or a grant that finds no space and takes its lease back. *)
Allocate ==
    /\ lent > held
    /\ IF Free > 0 THEN held' = held + 1 /\ UNCHANGED lent
                   ELSE lent' = lent - 1 /\ UNCHANGED held
    /\ Disturbed(0)
    /\ UNCHANGED <<workVars, stuck, registry, passVars, nodeVars, faults>>

-----------------------------------------------------------------------------
(* One pass of the watch. *)

Older == beat' = IF beat > StaleAfter THEN beat ELSE beat + 1

(* The bug of a pass that reports progress as it begins. *)
MeasureBeating ==
    /\ at = "rest"
    /\ beat' = 0
    /\ IF broken
       THEN UNCHANGED <<at, pass, seen>>
       ELSE /\ at' = "lent"
            /\ pass' = [NoPass EXCEPT !.avail = Free, !.held = held, !.took = seen.took]
            /\ seen' = [seen EXCEPT !.took = 0, !.calm = TRUE, !.wrote = FALSE,
                                    !.pods = FALSE, !.slip = 0]
    /\ UNCHANGED <<workVars, leaseVars, registry, sample, pending, nodeVars, faults>>

(* A tick, and free space read: a pass that cannot read it is over. *)
Measure ==
    /\ at = "rest"
    /\ Older
    /\ IF broken
       THEN UNCHANGED <<at, pass, seen>>
       ELSE /\ at' = "lent"
            /\ pass' = [NoPass EXCEPT !.avail = Free, !.held = held, !.took = seen.took]
            /\ seen' = [seen EXCEPT !.took = 0, !.calm = TRUE, !.wrote = FALSE,
                                    !.pods = FALSE, !.slip = 0]
    /\ UNCHANGED <<workVars, leaseVars, registry, sample, pending, nodeVars, faults>>

(* The bug of a difference taken the wrong way round. *)
TookReversed ==
    Larger(0, (pass.avail + lent) - sample.sum)

(* What the workloads took since the last sample: what free space did,     *)
(* less the agent's own effect on it, so that a sample is the sum of what  *)
(* was free and what was lent.                                             *)
Took ==
    Larger(0, sample.sum - (pass.avail + lent))

(* target: the floor of this pass. *)
Target ==
    CASE Headroom > 0 -> Headroom
      [] Headroom = 0 /\ ~sample.have -> MinHeadroom
      [] OTHER -> Larger(MinHeadroom, Took * HeadroomFor)

(* The accounting read and the floor settled, which every source is given. *)
Rate ==
    /\ at = "lent"
    /\ at' = "pods"
    /\ pass' = [pass EXCEPT !.floor = Target, !.held = 0, !.took = 0,
                            !.needs = <<Larger(0, Target - pass.avail)>>]
    /\ sample' = [sum |-> pass.avail + lent, have |-> TRUE]
    /\ UNCHANGED <<workVars, leaseVars, registry, pending, beat, nodeVars, seen, faults>>

(* The bug of a source that does not count a pod before it runs. *)
LiveRunning(p) == phase[p] = "Running"

Live(p) == phase[p] \in {"Pending", "Running"}

(* What a pod may still write, and the live ones among these together. *)
Left == [p \in Pods |->
           IF Live(p) /\ Possible(p) THEN Larger(0, Declared[p] - used[p]) ELSE 0]
Unwritten(pods) == SumOver(Left, pods)

(* A source's shortfall: the floor, against what will be free then.  One   *)
(* below zero is no shortfall.                                             *)
Need(demand) == Larger(0, pass.floor - (pass.avail - demand))

(* The pods are read.  A pod whose request is unreadable is left out, and  *)
(* the need of the others still counts (Partial).                          *)
ReadPods ==
    /\ at = "pods" /\ pending = "built"
    /\ \E pods \in SUBSET Pods :
        /\ Pods \ pods # {} => pods # {}
        /\ pass' = [pass EXCEPT !.needs = Append(@, Need(Unwritten(pods)))]
        /\ seen' = [seen EXCEPT !.pods = seen.calm /\ pods = Pods]
    /\ at' = "volumes"
    /\ UNCHANGED <<workVars, leaseVars, registry, sample, beat, pending, nodeVars, faults>>

(* The bug of a pass that a source's failure ends. *)
PodsUnreadEnds ==
    /\ at = "pods"
    /\ pending' = IF pending = "unbuilt" THEN "building" ELSE pending
    /\ at' = "rest"
    /\ UNCHANGED <<workVars, leaseVars, registry, pass, sample, beat, nodeVars, seen, faults>>

(* The kubelet does not answer in time, or the source is not built yet and *)
(* an attempt is started behind the watch: the pass goes on without it.    *)
PodsUnread ==
    /\ at = "pods"
    /\ pending' = IF pending = "unbuilt" THEN "building" ELSE pending
    /\ at' = "volumes"
    /\ UNCHANGED <<workVars, leaseVars, registry, pass, sample, beat, nodeVars, seen, faults>>

(* The volume source reads the registry; its answer is dropped only if its *)
(* deadline has passed by then.                                            *)
ReadVolumes ==
    /\ at = "volumes"
    /\ \/ pass' = [pass EXCEPT !.needs = Append(@, Need(Requested(registry)))] /\ UNCHANGED faults
       \/ Fault /\ UNCHANGED pass
    /\ at' = "reclaim"
    /\ UNCHANGED <<workVars, leaseVars, registry, sample, beat, pending, nodeVars, seen>>

(* The bug of needs that are added up. *)
ShortfallSummed(needs) == SumOver(needs, DOMAIN needs)

(* Shortfall: the largest need, never their sum. *)
Shortfall(needs) == Max(Range(needs))

Concluded(met) ==
    seen' = [seen EXCEPT !.clear = @ \/ (met /\ seen.calm /\ seen.pods /\ seen.slip <= pass.floor),
                         !.calm = FALSE, !.wrote = FALSE, !.pods = FALSE, !.slip = 0]

(* Reclaim what is missing, as far as there is something to take.  An      *)
(* extent that cannot be unlinked ends the pass without a heartbeat.  A    *)
(* lease whose extent is still being allocated is left alone here.         *)
Reclaim ==
    /\ at = "reclaim"
    /\ LET need == Shortfall(pass.needs)
           k == Smaller(need, held) IN
        /\ lent' = lent - k
        /\ held' = held - k
        /\ \/ /\ at' = "beat"
              /\ Concluded(k = need)
              /\ UNCHANGED <<stuck, faults>>
           \/ /\ k > 0 /\ Fault
              /\ stuck' = stuck + 1
              /\ at' = "rest"
              /\ Concluded(FALSE)
    /\ pass' = NoPass
    /\ UNCHANGED <<workVars, registry, sample, beat, pending, nodeVars>>

(* The heartbeat is written last, if it can be. *)
Heartbeat ==
    /\ at = "beat"
    /\ \/ beat' = 0 /\ UNCHANGED faults
       \/ Fault /\ UNCHANGED beat
    /\ at' = "rest"
    /\ UNCHANGED <<workVars, leaseVars, registry, pass, sample, pending, nodeVars, seen>>

-----------------------------------------------------------------------------
(* attempt: the pod source is proved usable, or will be tried again, the   *)
(* token or the kubelet's own figures not to be had among the reasons.     *)
Attempt ==
    /\ pending = "building"
    /\ \/ pending' = (IF Usable THEN "built" ELSE "unbuilt") /\ UNCHANGED faults
       \/ Fault /\ pending' = "unbuilt"
    /\ UNCHANGED <<workVars, leaseVars, registry, at, pass, sample, beat, nodeVars, seen>>

(* The filesystem stops saying what is free. *)
Break ==
    /\ ~broken /\ Fault
    /\ broken' = TRUE
    /\ UNCHANGED <<layout, workVars, leaseVars, registry, passVars, seen>>

(* The probe finds the heartbeat stale and the agent is killed: it comes   *)
(* back with its leases reconciled with their extents, an empty registry,  *)
(* nothing remembered, and a first attempt made to build the pod source.   *)
Kill ==
    /\ beat > StaleAfter /\ Fault
    /\ lent' = held /\ stuck' = 0 /\ UNCHANGED held
    /\ registry' = NewRegistry
    /\ pending' \in FirstAttempt
    /\ at' = "rest" /\ pass' = NoPass /\ sample' = NoSample
    /\ seen' = NothingSeen
    /\ UNCHANGED <<workVars, beat, nodeVars>>

Step ==
    \/ Measure \/ Rate \/ ReadPods \/ PodsUnread \/ ReadVolumes \/ Reclaim \/ Heartbeat

Environment ==
    \/ \E p \in Pods : Start(p) \/ Write(p) \/ Finish(p)
    \/ \E v \in Volumes : Publish(v) \/ Unpublish(v)
    \/ Scribble \/ Accept \/ Break \/ Kill

WatchNext == Step \/ Allocate \/ Attempt \/ Environment

(* The watch loop ticks for as long as the process runs, and every source  *)
(* it asks is bounded by a deadline; the attempt to build the pod source   *)
(* and a grant's fallocate end.  Nothing is assumed of the environment.    *)
WatchSpec ==
    /\ WatchInit /\ [][WatchNext]_watchVars
    /\ WF_watchVars(Step) /\ WF_watchVars(Attempt) /\ WF_watchVars(Allocate)

-----------------------------------------------------------------------------

(* A floor that is a duration covers what the workloads really took since  *)
(* the last pass, short of it by no more than the grant in flight when the *)
(* two were read: a reclaim is not mistaken for a workload that wrote      *)
(* less, and an extent that could not be unlinked errs on the safe side.   *)
FloorCoversWrites ==
    [][at = "lent" /\ at' = "pods" /\ sample.have =>
        pass'.floor >= HeadroomFor * (pass.took - (lent - pass.held))]_watchVars

(* Warning before a workload writes: after a pass that read every pod and  *)
(* met the shortfall, the pods can write all they declared and have not    *)
(* written, for as long as nobody else took space, also when they wrote    *)
(* between the pass's readings of free space and of the pods.              *)
DeclaredWritesFit ==
    seen.clear => Free >= Unwritten(Pods)

(* The observations of a pass overlap and are never added up: a reclaim in *)
(* a quiet pass leaves no more free than the floor and the larger of what  *)
(* the pods and the volumes ask for, and pods seen to write elsewhere ask  *)
(* for nothing.                                                            *)
NeverTheSum ==
    [][held' < held /\ seen.calm /\ ~seen.wrote =>
        pass.avail + (held - held') <=
            pass.floor + Larger(IF layout.seen => layout.same THEN Unwritten(Pods) ELSE 0,
                                Requested(registry))]_watchVars

(* Space comes back: as long as it can be measured, free space that is     *)
(* below the least floor is restored or everything lent is given back,     *)
(* whatever the kubelet does, since a source that fails ends no pass.      *)
SpaceComesBack ==
    Free < MinHeadroom ~> Free >= MinHeadroom \/ held = 0 \/ broken

(* "A failure that persists stops the heartbeat, which is what liveness is *)
(* for": when free space cannot be measured the probe gets to see it.      *)
BrokenIsNoticed ==
    broken ~> beat > StaleAfter

=============================================================================
