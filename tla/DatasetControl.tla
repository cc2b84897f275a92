--------------------------- MODULE DatasetControl ---------------------------
(***************************************************************************)
(* The control plane's loop over datasets (cmd/forebay-controller): it     *)
(* plans tier capacity from what the datasets' statuses say and proposes   *)
(* leases to a node (plan.go, internal/leaseapi), and it reconciles the    *)
(* statuses with the store (main.go, internal/kube, internal/intent).  The *)
(* CSI controller half provisions volumes from the same statuses           *)
(* (internal/csi).  Users, the store, the node and the network move in     *)
(* between.                                                                *)
(*                                                                         *)
(* A dataset is its own tenant's only one, and leases go to one node: the  *)
(* loop treats tenants one after the other and nodes independently.        *)
(***************************************************************************)
EXTENDS Collections, FaultBudget, FiniteSetsExt, Functions, SequencesExt

CONSTANTS
    Datasets, Order,    \* the datasets, and the order they are listed in
    Objects, Size,      \* Size[o]: an object's bytes, once it is in the store
    Declarations,       \* what users declare: [object, intent: [durability, cached]]
    Floor,              \* the administrator's durability floor, a rank
    Replicates,         \* the backend declares Replicate
    KnowsRacks,         \* the fleet can name racks
    NodeBytes,          \* what the node has to lend
    ShareOf,            \* the planner asks for a ShareOf-th of what is free
    MaxEdits            \* bound on what users and the store do

ASSUME ControlAssumption ==
    /\ Order \in Seq(Datasets)
    /\ Size \in [Objects -> Nat]
    /\ Declarations \subseteq [object : Objects, intent : [durability : 0 .. 3, cached : BOOLEAN]]
    /\ NodeBytes \in Nat /\ ShareOf \in Nat \ {0}

VARIABLES
    spec, status,   \* the API server's: declaration, and recorded status
    store,          \* the objects in the store
    volume,         \* what CreateVolume last answered
    lent, late,     \* the node's leases, and proposals still on their way to it
    at, list, todo, \* the controller: its place in the loop, what it listed
    budget,         \*     and has not treated yet, what it may still ask for
    told,           \* what this pass knows it was granted, and of how much free
    ever,           \* objects the store has had
    edits

apiVars == <<spec, status>>
planVars == <<at, list, todo, budget, told>>
nodeVars == <<lent, late>>
controlVars == <<apiVars, store, volume, nodeVars, planVars, ever, edits, faults>>

Gone == [gen |-> 0]
NoStatus == [gen |-> 0]
NoVolume == [object |-> "none"]

There(d) == spec[d] # Gone

ControlInit ==
    /\ spec = [d \in Datasets |-> Gone]
    /\ status = [d \in Datasets |-> NoStatus]
    /\ store = {} /\ ever = {}
    /\ volume = NoVolume
    /\ lent = {} /\ late = {}
    /\ at = "plan" /\ list = <<>> /\ todo = <<>> /\ budget = 0
    /\ told = [granted |-> 0, free |-> 0]
    /\ edits = 0 /\ faults = 0

Edit == edits < MaxEdits /\ edits' = edits + 1

-----------------------------------------------------------------------------
(* Users and the store (external). *)

Declared(s, gen) == [object |-> s.object, intent |-> s.intent, gen |-> gen]

(* A dataset is declared, or its object or intent changed. *)
Declare(d, s) ==
    /\ Edit
    /\ spec[d] # Declared(s, spec[d].gen)
    /\ spec' = [spec EXCEPT ![d] = Declared(s, @.gen + 1)]
    /\ UNCHANGED <<status, store, volume, nodeVars, planVars, ever, faults>>

Delete(d) ==
    /\ Edit /\ There(d)
    /\ spec' = [spec EXCEPT ![d] = Gone]
    /\ status' = [status EXCEPT ![d] = NoStatus]
    /\ UNCHANGED <<store, volume, nodeVars, planVars, ever, faults>>

Upload(o) ==
    /\ Edit /\ o \notin store
    /\ store' = store \cup {o}
    /\ ever' = ever \cup {o}
    /\ UNCHANGED <<apiVars, volume, nodeVars, planVars, faults>>

Withdraw(o) ==
    /\ Edit /\ o \in store
    /\ store' = store \ {o}
    /\ UNCHANGED <<apiVars, volume, nodeVars, planVars, ever, faults>>

(* The node takes a lease back, as reclaim and restarts do (LeaseManager). *)
TakeBack(l) ==
    /\ Edit
    /\ lent' = lent \ {l}
    /\ UNCHANGED <<apiVars, store, volume, late, planVars, ever, faults>>

-----------------------------------------------------------------------------
(* Intents: durability is a rank, 0 none, 1 backend, 2 replicated,         *)
(* 3 rack tolerant.                                                        *)

Raised(i) == [i EXCEPT !.durability = Max({@, Floor})]

Satisfiable(i) ==
    /\ i.durability >= 2 => Replicates
    /\ i.durability = 3 => KnowsRacks

-----------------------------------------------------------------------------
(* The planner: proposals to the node's lease API. *)

Listing == [d \in Datasets |-> [spec |-> spec[d], status |-> status[d]]]

(* wanted: a dataset the store has, of tenants that asked for the tier. *)
Wants(item) ==
    /\ item.spec # Gone /\ item.status # NoStatus
    /\ item.status.present /\ item.status.bytes > 0
    /\ Raised(item.spec.intent).cached

Lent == SumOver([l \in lent |-> l.bytes], lent)
Free == NodeBytes - Lent

(* The datasets are listed; a pass that wants nothing asks nobody. *)
Plan ==
    /\ at = "plan"
    /\ LET want == Kept(Order, {d \in Datasets : Wants(Listing[d])}) IN
       \/ /\ want # <<>>
          /\ at' = "capacity" /\ list' = Listing /\ todo' = want
          /\ UNCHANGED faults
       \/ want = <<>> /\ at' = "list" /\ UNCHANGED <<list, todo, faults>>
       \/ Fault /\ at' = "list" /\ UNCHANGED <<list, todo>>
    /\ UNCHANGED <<apiVars, store, volume, nodeVars, budget, told, ever, edits>>

(* The node is asked what is free, and is passed over if it is not heard. *)
Capacity ==
    /\ at = "capacity"
    /\ \/ /\ at' = "propose"
          /\ budget' = Free \div ShareOf
          /\ told' = [granted |-> 0, free |-> Free]
          /\ UNCHANGED <<list, todo, faults>>
       \/ Fault /\ at' = "list" /\ list' = <<>> /\ todo' = <<>> /\ UNCHANGED <<budget, told>>
    /\ UNCHANGED <<apiVars, store, volume, nodeVars, ever, edits>>

(* The bug of a lease named afresh by every proposal. *)
LeaseIDFresh(d) == <<d, faults>>

(* leaseID: derived from the tenant, so that a proposal can be repeated. *)
LeaseID(d) == <<d>>

Proposal(d) == [id |-> LeaseID(d), tenant |-> d, bytes |-> Min({list[d].status.bytes, budget})]

(* The node's own accounting; a lease it already holds is ErrDuplicate. *)
Holds(p) == \E l \in lent : l.id = p.id
Grantable(p) == p.bytes <= Free /\ ~Holds(p)

(* The bug of a planner that does not deduct what it was granted. *)
GrantedUndeducted(p) ==
    /\ Grantable(p)
    /\ lent' = lent \cup {p}
    /\ told' = [told EXCEPT !.granted = @ + p.bytes]
    /\ UNCHANGED <<late, budget, faults>>

(* A proposal that is granted uses the budget up. *)
Granted(p) ==
    /\ Grantable(p)
    /\ lent' = lent \cup {p}
    /\ budget' = budget - p.bytes
    /\ told' = [told EXCEPT !.granted = @ + p.bytes]
    /\ UNCHANGED <<late, faults>>

(* One that is already held, or that the node refuses (for want of room,   *)
(* or backing off, or over quota: LeaseManager), leaves it alone.          *)
NotGranted == UNCHANGED <<nodeVars, budget, told, faults>>

(* To the planner, one whose answer does not come is refused too; the node *)
(* may yet receive it.                                                     *)
Unanswered(p) ==
    /\ Fault
    /\ late' = late \cup {p}
    /\ UNCHANGED <<lent, budget, told>>

Propose ==
    /\ at = "propose"
    /\ \/ /\ todo = <<>>
          /\ at' = "list" /\ list' = <<>> /\ budget' = 0
          /\ UNCHANGED <<todo, nodeVars, told, faults>>
       \/ /\ todo # <<>>
          /\ LET p == Proposal(Head(todo)) IN
             \/ p.bytes <= 0 /\ NotGranted
             \/ p.bytes > 0 /\ (Granted(p) \/ NotGranted \/ Unanswered(p))
          /\ todo' = Tail(todo)
          /\ UNCHANGED <<at, list>>
    /\ UNCHANGED <<apiVars, store, volume, ever, edits>>

(* A proposal the planner gave up on reaches the node, or is lost. *)
Arrive(p) ==
    /\ lent' \in {lent, IF Grantable(p) THEN lent \cup {p} ELSE lent}
    /\ late' = late \ {p}
    /\ UNCHANGED <<apiVars, store, volume, planVars, ever, edits, faults>>

-----------------------------------------------------------------------------
(* The reconciler. *)

List ==
    /\ at = "list"
    /\ \/ /\ at' = "resolve"
          /\ list' = Listing
          /\ todo' = Kept(Order, {d \in Datasets : There(d)})
          /\ UNCHANGED faults
       \/ Fault /\ at' = "plan" /\ UNCHANGED <<list, todo>>
    /\ UNCHANGED <<apiVars, store, volume, nodeVars, budget, told, ever, edits>>

(* Resolve and ResolveIntent: what to record of a listed dataset.  A store *)
(* that does not answer and an object it does not have are both recorded   *)
(* as not present, with the store's words.                                 *)
Resolved(s, sized) ==
    LET i == Raised(s.intent) IN
    [gen |-> s.gen, of |-> s.object,
     present |-> sized, bytes |-> IF sized THEN Size[s.object] ELSE 0,
     reason |-> ~sized,
     sat |-> Satisfiable(i), unsat |-> ~Satisfiable(i),
     raised |-> IF i = s.intent THEN 0 ELSE i.durability]

(* The bug of a comparison of the presence alone. *)
ChangedUnread(was, now) ==
    was = NoStatus \/ was.present # now.present

(* Changed: whether the status says anything the recorded one does not.    *)
(* (of, the object that was asked about, is not recorded by the code.)     *)
Changed(was, now) ==
    was = NoStatus \/ [was EXCEPT !.of = now.of] # now

(* A merge patch: a field that is empty is not sent, and so not cleared. *)
Merged(was, now) ==
    IF was = NoStatus THEN now
    ELSE [now EXCEPT !.bytes = IF @ = 0 THEN was.bytes ELSE @,
                     !.reason = @ \/ was.reason,
                     !.unsat = @ \/ was.unsat,
                     !.raised = IF @ = 0 THEN was.raised ELSE @]

(* One dataset: asked of the store now, compared with what was listed, and *)
(* patched if it is still there.  A patch that fails is left for the next  *)
(* pass, and the others are reconciled all the same.                       *)
Reconcile ==
    /\ at = "resolve"
    /\ IF todo = <<>>
       THEN at' = "plan" /\ list' = <<>> /\ UNCHANGED <<todo, status, faults>>
       ELSE /\ LET d == Head(todo)
                   now(sized) == Resolved(list[d].spec, sized)
                   patch(sized) ==
                       status' = IF Changed(list[d].status, now(sized)) /\ There(d)
                                 THEN [status EXCEPT ![d] = Merged(@, now(sized))]
                                 ELSE status
               IN  \/ patch(list[d].spec.object \in store) /\ UNCHANGED faults
                   \/ Fault /\ (patch(FALSE) \/ UNCHANGED status)
            /\ todo' = Tail(todo)
            /\ UNCHANGED <<at, list>>
    /\ UNCHANGED <<spec, store, volume, nodeVars, budget, told, ever, edits>>

(* The controller is restarted, and begins its loop again. *)
RestartController ==
    /\ Fault
    /\ at' = "plan" /\ list' = <<>> /\ todo' = <<>> /\ budget' = 0
    /\ told' = [granted |-> 0, free |-> 0]
    /\ UNCHANGED <<apiVars, store, volume, nodeVars, ever, edits>>

-----------------------------------------------------------------------------

(* Resolve, for CSI: a dataset that is declared, reconciled and present. *)
Provisionable(d) == There(d) /\ status[d] # NoStatus /\ status[d].present

CreateVolume(d) ==
    /\ Provisionable(d)
    /\ volume' = [object |-> spec[d].object, resolved |-> status[d].of]
    /\ UNCHANGED <<apiVars, store, nodeVars, planVars, ever, edits, faults>>

Controller == Plan \/ Capacity \/ Propose \/ List \/ Reconcile

Users ==
    \/ \E d \in Datasets, s \in Declarations : Declare(d, s)
    \/ \E d \in Datasets : Delete(d) \/ CreateVolume(d)
    \/ \E o \in Objects : Upload(o) \/ Withdraw(o)
    \/ \E l \in lent : TakeBack(l)
    \/ \E p \in late : Arrive(p)

ControlNext == Controller \/ Users \/ RestartController

(* The loop runs on a ticker for as long as the controller does. *)
ControlSpec == ControlInit /\ [][ControlNext]_controlVars /\ WF_controlVars(Controller)

-----------------------------------------------------------------------------
(* A status that describes the dataset's declaration and the store as they *)
(* are.                                                                    *)
Describes(d) ==
    /\ status[d] # NoStatus
    /\ status[d].gen = spec[d].gen
    /\ status[d].present = (spec[d].object \in store)
    /\ status[d].present => status[d].bytes = Size[spec[d].object]
    /\ status[d].sat = Satisfiable(Raised(spec[d].intent))

(* However declarations, objects and faults interleave with the listing,   *)
(* resolving and patching of a pass, once they cease every dataset's       *)
(* status comes to describe it, and stays so (reconcile writes again what  *)
(* a patch that failed, or that carried what was listed before an edit,    *)
(* left wrong).                                                            *)
StatusCatchesUp == <>[](\A d \in Datasets : There(d) => Describes(d))

(* However often the planner proposes, restarts, or has a proposal it gave *)
(* up on arrive late, the node never lends a tenant a second copy of       *)
(* capacity it has (leaseID derived from the tenant, ErrDuplicate).        *)
OneLeasePerTenant == \A k, l \in lent : k.tenant = l.tenant => k = l

(* What one pass knows it was granted is within its share of what the node *)
(* said was free (proposer.share, budget).                                 *)
NodeShareHeld == told.granted <= told.free \div ShareOf

(* CreateVolume never hands out an object nobody found in the store, even  *)
(* when the declaration changed since its status was recorded ("a stale    *)
(* one is visible rather than assumed current").                           *)
StaleStatusRefused == volume # NoVolume => volume.object \in ever

=============================================================================
