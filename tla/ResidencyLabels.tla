-------------------------- MODULE ResidencyLabels ---------------------------
(***************************************************************************)
(* How node labels come to say what the nodes' tiers hold: each agent      *)
(* reports levels, remembering what it said last                           *)
(* (cmd/forebay-agent/residency.go); the kubelet probes each agent's       *)
(* readiness, which decides whether its endpoint is listed; and the        *)
(* controller goes from one listed agent to the next, asks for its report, *)
(* reads its node's labels and patches the difference                      *)
(* (cmd/forebay-controller/residency.go, internal/kube).                   *)
(*                                                                         *)
(* The label of a dataset and its rack label always carry the same level   *)
(* and are one label here.  A dataset is a hundred blocks.                 *)
(***************************************************************************)
EXTENDS Integers, FaultBudget, Sequences

CONSTANTS
    Nodes, ListOrder,       \* the nodes, and the order they are listed in
    Labelled,               \* the datasets
    Holdings,               \* blocks of a dataset a tier comes to hold
    Fail, Recover, Window,  \* the readiness bounds
    Slow,                   \* how long a slow read takes
    MaxMoves                \* bound on changes to tiers and labels

(* A tier holds part of a dataset, counted in hundredths. *)
ASSUME HoldingsArePercent == Holdings \subseteq 0..100

-----------------------------------------------------------------------------
(* Two measurements of a node with hysteresis, as functions of what was    *)
(* said last and what is seen now: how much of a dataset the node holds    *)
(* (internal/residency) and whether it answers reads quickly enough        *)
(* (internal/metrics, Readiness).  Fractions are in percent.               *)

(* Levels, and the boundaries in each direction. *)
None == 0
Some == 1
Most == 2
rise == [l \in {Some, Most} |-> IF l = Most THEN 75 ELSE 25]
fall == [l \in {Some, Most} |-> IF l = Most THEN 70 ELSE 20]

(* The bug of one line for both directions. *)
NextOneLine(current, fraction) ==
    CASE fraction >= rise[Most] -> Most
      [] fraction < rise[Most] /\ fraction >= rise[Some] -> Some
      [] OTHER -> None

(* Next: the level to publish.  Between the two lines of Some whatever was *)
(* published is held, be it Most.                                          *)
Next(current, fraction) ==
    CASE fraction >= rise[Most] -> Most
      [] fraction < rise[Most] /\ fraction >= rise[Some] ->
            IF current = Most /\ fraction >= fall[Most] THEN Most ELSE Some
      [] fraction < rise[Some] /\ fraction >= fall[Some] -> current
      [] OTHER -> None

-----------------------------------------------------------------------------
(* A readiness: the reads remembered, by age and by how long they took,    *)
(* and whether the node is held out.                                       *)
NewReadiness == [samples |-> {}, unready |-> FALSE]

trim(r, window) == [r EXCEPT !.samples = {s \in @ : s.age < window}]

(* decide: against the bound that applies; a window with no reads in it is *)
(* ready.                                                                  *)
decide(r, fail, recover) ==
    LET atLeast(t) == \E s \in r.samples : s.took >= t IN
    [r EXCEPT !.unready = IF r.unready THEN atLeast(recover) ELSE atLeast(fail)]

(* Observe a read, and Ready, which looks again. *)
Observe(r, took, fail, recover, window) ==
    decide(trim([r EXCEPT !.samples = @ \cup {[age |-> 0, took |-> took]}], window), fail, recover)
Ready(r, fail, recover, window) == decide(trim(r, window), fail, recover)

-----------------------------------------------------------------------------
VARIABLES
    tier,           \* tier[n][d]: blocks held
    track,          \* track[n][d]: the level the agent last gave, None if none
    sizes,          \* sizes[n]: the datasets whose size the agent has learnt
    health,         \* the agent's readiness
    listed,         \* the nodes whose endpoints are ready
    labels,         \* labels[n][d]: the level on the node object
    step, agents,   \* the controller: its step, and the agents not yet treated
    want, have,     \*     what the agent reported, what the node was read to carry
    latePatches,    \* patches the controller stopped waiting for
    was,            \* history: the level before the last change, and the holding at it
    moves

agentVars == <<track, sizes, was>>
passVars == <<step, agents, want, have>>
labelVars == <<tier, agentVars, health, listed, labels, passVars, latePatches, moves, faults>>

Nothing == [d \in Labelled |-> None]

LabelsInit ==
    /\ tier = [n \in Nodes |-> [d \in Labelled |-> 0]]
    /\ track = [n \in Nodes |-> Nothing]
    /\ sizes = [n \in Nodes |-> {}]
    /\ was = [n \in Nodes |-> [d \in Labelled |-> [level |-> None, at |-> 0]]]
    /\ health = [n \in Nodes |-> NewReadiness]
    /\ listed = Nodes
    /\ labels = [n \in Nodes |-> Nothing]
    /\ step = "find" /\ agents = <<>> /\ want = Nothing /\ have = Nothing
    /\ latePatches = {} /\ moves = 0 /\ faults = 0

Move == moves < MaxMoves /\ moves' = moves + 1

-----------------------------------------------------------------------------
(* The tier admits, evicts or loses a slab (FastTier); an operator sets a  *)
(* label of ours by hand.                                                  *)
Hold(n, d, blocks) ==
    /\ Move /\ blocks # tier[n][d]
    /\ tier' = [tier EXCEPT ![n][d] = blocks]
    /\ UNCHANGED <<agentVars, health, listed, labels, passVars, latePatches, faults>>

Relabel(n, d, level) ==
    /\ Move /\ level # labels[n][d]
    /\ labels' = [labels EXCEPT ![n][d] = level]
    /\ UNCHANGED <<tier, agentVars, health, listed, passVars, latePatches, faults>>

-----------------------------------------------------------------------------
(* Readiness. *)

(* A slow read is a fault; a node that is not listed is sent none, but for *)
(* those already on their way.  A read that is quick enough never changes  *)
(* what is decided from the others.                                        *)
Serve(n, took) ==
    /\ Fault
    /\ health' = [health EXCEPT ![n] = Observe(@, took, Fail, Recover, Window)]
    /\ UNCHANGED <<tier, agentVars, listed, labels, passVars, latePatches, moves>>

Tick ==
    /\ \E n \in Nodes : \E s \in health[n].samples : s.age < Window
    /\ health' = [n \in Nodes |-> [health[n] EXCEPT !.samples =
                    {[s EXCEPT !.age = IF @ < Window THEN @ + 1 ELSE @] : s \in @}]]
    /\ UNCHANGED <<tier, agentVars, listed, labels, passVars, latePatches, moves, faults>>

(* The kubelet probes, and the endpoint follows. *)
Probe(n) ==
    LET r == Ready(health[n], Fail, Recover, Window) IN
    /\ health' = [health EXCEPT ![n] = r]
    /\ listed' = IF r.unready THEN listed \ {n} ELSE listed \cup {n}
    /\ UNCHANGED <<tier, agentVars, labels, passVars, latePatches, moves, faults>>

-----------------------------------------------------------------------------
(* The agent's report. *)

(* Forget, for what the tier no longer holds; Update for what it holds and *)
(* whose size is known.                                                    *)
Updated(n, known) ==
    [d \in Labelled |->
        CASE tier[n][d] = 0 -> None
          [] tier[n][d] > 0 /\ d \in known -> Next(track[n][d], tier[n][d])
          [] OTHER -> track[n][d]]

(* What the report says: nothing of a dataset whose size is not known. *)
Reported(n, known) ==
    [d \in Labelled |-> IF tier[n][d] > 0 /\ d \in known THEN Updated(n, known)[d] ELSE None]

(* sizeOf asks the backend once; what it could not learn is asked again. *)
Learn(n, known) ==
    LET held == {d \in Labelled : tier[n][d] > 0} IN
    /\ sizes[n] \subseteq known /\ known \subseteq sizes[n] \cup held
    /\ sizes' = [sizes EXCEPT ![n] = known]

ReportLevels(n, known) ==
    LET now == Updated(n, known) IN
    /\ Learn(n, known)
    /\ track' = [track EXCEPT ![n] = now]
    /\ was' = [was EXCEPT ![n] = [d \in Labelled |->
                IF now[d] = track[n][d] THEN @[d]
                ELSE [level |-> track[n][d], at |-> tier[n][d]]]]

(* The agent stops and starts: tier, levels and readiness begin again. *)
AgentRestart(n) ==
    /\ Fault
    /\ tier' = [tier EXCEPT ![n] = [d \in Labelled |-> 0]]
    /\ track' = [track EXCEPT ![n] = Nothing]
    /\ sizes' = [sizes EXCEPT ![n] = {}]
    /\ was' = [was EXCEPT ![n] = [d \in Labelled |-> [level |-> None, at |-> 0]]]
    /\ health' = [health EXCEPT ![n] = NewReadiness]
    /\ listed' \in {listed, listed \ {n}}
    /\ UNCHANGED <<labels, passVars, latePatches, moves>>

-----------------------------------------------------------------------------
(* The controller's pass. *)

(* Agents: the endpoints that are ready, in order. *)
Find ==
    /\ step = "find"
    /\ \/ /\ agents' = SelectSeq(ListOrder, LAMBDA n : n \in listed)
          /\ step' = IF agents' = <<>> THEN "find" ELSE "ask"
          /\ UNCHANGED faults
       \/ Fault /\ UNCHANGED <<step, agents>>
    /\ UNCHANGED <<tier, agentVars, health, listed, labels, want, have, latePatches, moves>>

(* One node treated, or failed, and the next begun. *)
NextNode ==
    /\ agents' = Tail(agents)
    /\ step' = IF Tail(agents) = <<>> THEN "find" ELSE "ask"
    /\ want' = Nothing /\ have' = Nothing

(* wanted: the report, heard or not. *)
Ask ==
    /\ step = "ask"
    /\ LET n == Head(agents)
           all == sizes[n] \cup {d \in Labelled : tier[n][d] > 0} IN
       \/ \E known \in SUBSET all :
            /\ IF known = all THEN UNCHANGED faults ELSE Fault
            /\ ReportLevels(n, known)
            /\ step' = "node" /\ want' = Reported(n, known)
            /\ UNCHANGED <<agents, have>>
       \/ Fault /\ ReportLevels(n, all) /\ NextNode
       \/ Fault /\ NextNode /\ UNCHANGED agentVars
    /\ UNCHANGED <<tier, health, listed, labels, latePatches, moves>>

GetNode ==
    /\ step = "node"
    /\ \/ /\ step' = "patch" /\ have' = labels[Head(agents)]
          /\ UNCHANGED <<agents, want, faults>>
       \/ Fault /\ NextNode
    /\ UNCHANGED <<tier, agentVars, health, listed, labels, latePatches, moves>>

(* The bug of labels that are set and never taken back. *)
DiffSetOnly(h, w) == {d \in Labelled : h[d] # w[d] /\ w[d] # None}

(* diff: what to set, and what to take back. *)
Diff(h, w) == {d \in Labelled : h[d] # w[d]}

(* PatchLabels: a merge. *)
Patched(n, patch) ==
    [labels EXCEPT ![n] = [d \in Labelled |-> IF d \in DOMAIN patch THEN patch[d] ELSE @[d]]]

Patch ==
    /\ step = "patch"
    /\ LET n == Head(agents)
           patch == [d \in Diff(have, want) |-> want[d]] IN
       \/ labels' = Patched(n, patch) /\ UNCHANGED <<latePatches, faults>>
       \/ /\ DOMAIN patch # {} /\ Fault
          /\ latePatches' \in {latePatches, latePatches \cup {[node |-> n, patch |-> patch]}}
          /\ UNCHANGED labels
    /\ NextNode
    /\ UNCHANGED <<tier, agentVars, health, listed, moves>>

(* A patch the controller gave up on reaches the API server. *)
PatchArrives(p) ==
    /\ latePatches' = latePatches \ {p}
    /\ labels' = Patched(p.node, p.patch)
    /\ UNCHANGED <<tier, agentVars, health, listed, passVars, moves, faults>>

Labeller == Find \/ Ask \/ GetNode \/ Patch

LabelsNext ==
    \/ \E n \in Nodes, d \in Labelled :
        \/ \E blocks \in Holdings : Hold(n, d, blocks)
        \/ \E level \in {None, Some, Most} : Relabel(n, d, level)
    \/ \E n \in Nodes : Probe(n) \/ AgentRestart(n) \/ \E took \in Slow : Serve(n, took)
    \/ Tick \/ Labeller
    \/ \E p \in latePatches : PatchArrives(p)

(* The controller's loop and the kubelet's probes are periodic, time       *)
(* passes, and a patch that is on its way arrives or is lost.              *)
LabelsSpec ==
    /\ LabelsInit /\ [][LabelsNext]_labelVars
    /\ WF_labelVars(Labeller) /\ WF_labelVars(Tick)
    /\ \A n \in Nodes : WF_labelVars(Probe(n))
    /\ WF_labelVars(\E p \in latePatches : PatchArrives(p))

-----------------------------------------------------------------------------
(* What an agent last said of a dataset is what it warranted when it last  *)
(* changed: the memory the hysteresis rests on (Tracker.Update, Forget).   *)
Remembered ==
    \A n \in Nodes, d \in Labelled : track[n][d] = Next(was[n][d].level, was[n][d].at)

(* Once tiers, labels and faults come to rest, every node's label tells a  *)
(* warm start from a cold one: at or above the line a level rises at it is *)
(* published, below the line Some falls at none is, whatever reports,      *)
(* patches and restarts were lost or late before.  That includes a node    *)
(* that was slow: nothing is sent to it, and an empty window brings it     *)
(* back (report, diff, decide).                                            *)
LabelsCatchUp ==
    <>[](\A n \in Nodes, d \in Labelled :
            /\ tier[n][d] >= rise[Most] => labels[n][d] = Most
            /\ tier[n][d] >= rise[Some] => labels[n][d] # None
            /\ tier[n][d] < fall[Some] => labels[n][d] = None)

(* A holding that stays at a boundary does not rewrite labels: a level is  *)
(* returned to only when the holding has moved by the distance between the *)
(* two lines since it was left, over any sequence of reports, forgotten    *)
(* and unlearnt sizes among them (Next, Tracker).                          *)
NoFlapping ==
    [][\A n \in Nodes, d \in Labelled :
        track'[n][d] # track[n][d] /\ track'[n][d] = was[n][d].level /\ tier' = tier =>
            LET apart == tier[n][d] - was[n][d].at
            IN  apart >= rise[Some] - fall[Some] \/ -apart >= rise[Some] - fall[Some]]_labelVars
=============================================================================
