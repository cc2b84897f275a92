------------------------- MODULE ControlPlaneProofs -------------------------
(***************************************************************************)
(* Proofs about the loops that run beside the data: the controller's       *)
(* leases, the registry of volumes and the residency reports.  Nothing of  *)
(* one is used for another.                                                *)
(***************************************************************************)
EXTENDS DatasetControl, VolumeReports, ResidencyLabels, CollectionsProofs

(* Zenon proves most leaves; the others name the SMT solver.               *)
USE ZenonT(20)

(* DatasetControl, for every set of datasets and objects and any number of *)
(* edits and faults.                                                       *)

(* The inductive invariant: proposals on their way count as well, since    *)
(* one of them is what a second lease would come from.                     *)
LeaseInv ==
    /\ \A l \in lent \cup late : l.id = LeaseID(l.tenant)
    /\ OneLeasePerTenant

LEMMA LeaseInvInit == ControlInit => LeaseInv
  BY DEF ControlInit, LeaseInv, OneLeasePerTenant

(* The node takes a proposal only when it holds no lease of that name.     *)
LEMMA LendingKeepsInv ==
    ASSUME LeaseInv, NEW p, p.id = LeaseID(p.tenant), Grantable(p),
           lent' = lent \cup {p}, late' \subseteq late
    PROVE  LeaseInv'
  <1>1. \A l \in lent : l.tenant # p.tenant
    BY DEF LeaseInv, Grantable, Holds
  <1> QED BY <1>1 DEF LeaseInv, OneLeasePerTenant, LeaseID

(* A step that adds no lease, and no proposal but a well-named one.        *)
LEMMA ShrinkingKeepsInv ==
    ASSUME LeaseInv, lent' \subseteq lent,
           \A l \in late' \ late : l.id = LeaseID(l.tenant)
    PROVE  LeaseInv'
  BY DEF LeaseInv, OneLeasePerTenant, LeaseID

LEMMA ProposeKeepsInv == LeaseInv /\ Propose => LeaseInv'
  <1> SUFFICES ASSUME LeaseInv, Propose
               PROVE  LeaseInv'
    OBVIOUS
  <1> DEFINE p == Proposal(Head(todo))
  <1>1. p.id = LeaseID(p.tenant)
    BY DEF Proposal
  <1>2. CASE UNCHANGED nodeVars
    BY <1>2, ShrinkingKeepsInv DEF nodeVars
  <1>3. CASE Granted(p)
    BY <1>1, <1>3, LendingKeepsInv DEF Granted
  <1>4. CASE Unanswered(p)
    BY <1>1, <1>4, ShrinkingKeepsInv DEF Unanswered
  <1> QED BY <1>2, <1>3, <1>4 DEF Propose, NotGranted

LEMMA ArriveKeepsInv ==
    ASSUME LeaseInv, NEW p \in late, Arrive(p)
    PROVE  LeaseInv'
  <1>1. p.id = LeaseID(p.tenant)
    BY DEF LeaseInv
  <1>2. late' \subseteq late
    BY DEF Arrive
  <1>3. CASE lent' = lent
    BY <1>2, <1>3, ShrinkingKeepsInv
  <1>4. CASE Grantable(p) /\ lent' = lent \cup {p}
    BY <1>1, <1>2, <1>4, LendingKeepsInv
  <1> QED BY <1>3, <1>4 DEF Arrive

LEMMA LeaseInvStep == LeaseInv /\ [ControlNext]_controlVars => LeaseInv'
  <1> SUFFICES ASSUME LeaseInv, [ControlNext]_controlVars
               PROVE  LeaseInv'
    OBVIOUS
  <1>1. CASE Propose
    BY <1>1, ProposeKeepsInv
  <1>2. ASSUME NEW p \in late, Arrive(p) PROVE LeaseInv'
    BY <1>2, ArriveKeepsInv
  <1>3. ASSUME NEW l \in lent, TakeBack(l) PROVE LeaseInv'
    BY <1>3, ShrinkingKeepsInv DEF TakeBack, nodeVars
  <1>4. CASE UNCHANGED nodeVars
    BY <1>4, ShrinkingKeepsInv DEF nodeVars
  <1>5. CASE Plan \/ Capacity \/ List \/ Reconcile \/ RestartController
    BY <1>4, <1>5 DEF Plan, Capacity, List, Reconcile, RestartController
  <1>6. ASSUME NEW d \in Datasets, NEW s \in Declarations, Declare(d, s) PROVE LeaseInv'
    BY <1>4, <1>6 DEF Declare
  <1>7. ASSUME NEW d \in Datasets, Delete(d) \/ CreateVolume(d) PROVE LeaseInv'
    BY <1>4, <1>7 DEF Delete, CreateVolume
  <1>8. ASSUME NEW o \in Objects, Upload(o) \/ Withdraw(o) PROVE LeaseInv'
    BY <1>4, <1>8 DEF Upload, Withdraw
  <1>9. CASE UNCHANGED controlVars
    BY <1>4, <1>9 DEF controlVars
  <1> QED BY <1>1, <1>2, <1>3, <1>5, <1>6, <1>7, <1>8, <1>9 DEF ControlNext, Controller, Users

(* However many datasets, passes, restarts and late proposals, the node    *)
(* never lends a tenant twice (leaseID, lease.ErrDuplicate).               *)
THEOREM TenantsLentOnce == ControlSpec => []OneLeasePerTenant
  <1>1. LeaseInv => OneLeasePerTenant
    BY DEF LeaseInv
  <1> QED BY <1>1, LeaseInvInit, LeaseInvStep, PTL DEF ControlSpec

-----------------------------------------------------------------------------
(* What a pass asks for.                                                   *)

(* What users declared names an object, and a status that was recorded has *)
(* a size.                                                                 *)
Named(s) == s # Gone => s.object \in Objects
Sized(s) == s # NoStatus => s.bytes \in Nat

(* What the controller listed, for the datasets it has still to treat.     *)
ListedRight ==
    /\ todo \in Seq(Datasets)
    /\ at \in {"capacity", "propose"} =>
        \A i \in 1 .. Len(todo) : list[todo[i]].status.bytes \in Nat
    /\ at = "resolve" =>
        \A i \in 1 .. Len(todo) : list[todo[i]].spec.object \in Objects

(* The node lends what it has and no more.                                 *)
LentWithin ==
    /\ IsFiniteSet(lent)
    /\ \A l \in lent \cup late : l.bytes \in Nat
    /\ Lent <= NodeBytes

(* What a pass was granted and what it may still ask for are its share.    *)
Budgeted ==
    /\ told.granted \in Nat /\ told.free \in Nat
    /\ NodeShareHeld
    /\ at = "propose" => budget \in Nat /\ told.granted + budget = told.free \div ShareOf

ShareInv ==
    /\ at \in {"plan", "capacity", "propose", "list", "resolve"}
    /\ spec = [d \in Datasets |-> spec[d]] /\ \A d \in Datasets : Named(spec[d])
    /\ status = [d \in Datasets |-> status[d]] /\ \A d \in Datasets : Sized(status[d])
    /\ ListedRight /\ LentWithin /\ Budgeted

(* A share of something is a number of bytes.                              *)
LEMMA ShareNatural == \A n \in Nat : n \div ShareOf \in Nat
  BY SMTT(20), ControlAssumption

(* What the node lends is a number of bytes, and more with one lease more. *)
LEMMA LentNatural ==
    ASSUME NEW L, IsFiniteSet(L), \A l \in L : l.bytes \in Nat
    PROVE  SumOver([l \in L |-> l.bytes], L) \in Nat
  BY SumNonNegative

LEMMA LentGrows ==
    ASSUME NEW L, IsFiniteSet(L), \A l \in L : l.bytes \in Nat,
           NEW p, p \notin L, p.bytes \in Nat
    PROVE  /\ IsFiniteSet(L \cup {p})
           /\ SumOver([l \in L \cup {p} |-> l.bytes], L \cup {p})
                = p.bytes + SumOver([l \in L |-> l.bytes], L)
  <1> DEFINE M == L \cup {p}
             f == [l \in M |-> l.bytes]
             g == [l \in L |-> l.bytes]
  <1>1. IsFiniteSet(M)
    BY AddFinite
  <1>2. p \in M /\ M \ {p} = L /\ f[p] = p.bytes /\ (\A l \in M : f[l] \in Int)
        /\ (\A l \in L : f[l] = g[l]) /\ (\A l \in L : f[l] \in Int /\ g[l] \in Int)
    BY SMTT(20)
  <1> HIDE DEF M, f, g
  <1>3. SumOver(f, M) = f[p] + SumOver(f, L)
    BY SMTT(20), <1>1, <1>2, SumRemove
  <1>4. SumOver(f, L) = SumOver(g, L)
    BY <1>2, SumSame
  <1> QED BY <1>1, <1>2, <1>3, <1>4 DEF M, f, g

LEMMA LentShrinks ==
    ASSUME NEW L, IsFiniteSet(L), \A l \in L : l.bytes \in Nat, NEW K \in SUBSET L
    PROVE  /\ IsFiniteSet(K)
           /\ SumOver([l \in K |-> l.bytes], K) <= SumOver([l \in L |-> l.bytes], L)
  <1> DEFINE f == [l \in K |-> l.bytes]
             g == [l \in L |-> l.bytes]
  <1>1. IsFiniteSet(K)
    BY SubsetFinite
  <1>2. (\A l \in K : f[l] = g[l]) /\ (\A l \in L : g[l] \in Nat) /\ (\A l \in K : f[l] \in Int)
    BY SMTT(20)
  <1> HIDE DEF f, g
  <1>3. SumOver(f, K) = SumOver(g, K)
    BY <1>1, <1>2, SumSame
  <1>4. SumOver(g, K) <= SumOver(g, L)
    BY <1>2, SumMonotone
  <1> QED BY <1>1, <1>3, <1>4 DEF f, g

LEMMA ShareInvInit == ControlInit => ShareInv
  <1> SUFFICES ASSUME ControlInit PROVE ShareInv
    OBVIOUS
  <1>1. ListedRight
    BY SMTT(20) DEF ControlInit, ListedRight
  <1>2. LentWithin
    <2>1. IsFiniteSet({}) /\ Lent = 0
      BY EmptyFinite, SumEmpty DEF ControlInit, Lent
    <2> QED BY SMTT(20), <2>1, ControlAssumption DEF ControlInit, LentWithin
  <1>3. Budgeted
    <2>1. 0 \div ShareOf = 0
      BY SMTT(20), ControlAssumption
    <2> QED BY SMTT(20), <2>1 DEF ControlInit, Budgeted, NodeShareHeld
  <1>4. \A d \in Datasets : Named(spec[d]) /\ Sized(status[d])
    BY DEF ControlInit, Named, Sized
  <1> QED BY <1>1, <1>2, <1>3, <1>4 DEF ControlInit, ShareInv

(* The conjuncts a step can leave alone.                                   *)
LEMMA SpecKept ==
    ASSUME ShareInv, UNCHANGED spec
    PROVE  (spec = [d \in Datasets |-> spec[d]] /\ \A d \in Datasets : Named(spec[d]))'
  BY DEF ShareInv, Named
LEMMA StatusKept ==
    ASSUME ShareInv, UNCHANGED status
    PROVE  (status = [d \in Datasets |-> status[d]] /\ \A d \in Datasets : Sized(status[d]))'
  BY DEF ShareInv, Sized
LEMMA LentKept == ASSUME ShareInv, UNCHANGED nodeVars PROVE LentWithin'
  BY DEF ShareInv, LentWithin, Lent, nodeVars
LEMMA BudgetKept ==
    ASSUME ShareInv, UNCHANGED told, at' # "propose" \/ UNCHANGED <<at, budget>>
    PROVE  Budgeted'
  BY DEF ShareInv, Budgeted, NodeShareHeld

(* What a loop that lists has to treat is of the datasets it chose.        *)
LEMMA ChosenOf ==
    ASSUME NEW S
    PROVE  /\ Kept(Order, S) \in Seq(Datasets)
           /\ \A i \in 1 .. Len(Kept(Order, S)) : Kept(Order, S)[i] \in S \cap Datasets
  <1> DEFINE k == Kept(Order, S)
  <1>1. k \in Seq(Datasets) /\ \A x \in Members(k) : x \in S
    BY ControlAssumption, KeptFacts
  <1>2. \A i \in 1 .. Len(k) : k[i] \in Members(k) /\ k[i] \in Datasets
    BY SMTT(20), <1>1 DEF Members
  <1> QED BY <1>1, <1>2

LEMMA PlanKeeps == ASSUME ShareInv, Plan PROVE ShareInv'
  <1> DEFINE wanting == Kept(Order, {d \in Datasets : Wants(Listing[d])})
  <1>1. ListedRight'
    <2>1. CASE at' = "capacity" /\ list' = Listing /\ todo' = wanting
      <3>1. /\ wanting \in Seq(Datasets)
            /\ \A i \in 1 .. Len(wanting) : wanting[i] \in Datasets /\ Wants(Listing[wanting[i]])
        BY SMTT(20), ChosenOf
      <3>2. \A d \in Datasets : Wants(Listing[d]) => Listing[d].status.bytes \in Nat
        BY DEF Wants, Listing, ShareInv, Sized
      <3> HIDE DEF wanting
      <3> QED BY <2>1, <3>1, <3>2 DEF ListedRight
    <2>2. CASE at' = "list" /\ UNCHANGED todo
      BY <2>2 DEF ShareInv, ListedRight
    <2> QED BY <2>1, <2>2 DEF Plan
  <1>2. at' \in {"capacity", "list"} /\ UNCHANGED <<apiVars, nodeVars, told>>
    BY DEF Plan
  <1>3. UNCHANGED spec /\ UNCHANGED status
    BY <1>2 DEF apiVars
  <1> QED BY <1>1, <1>2, <1>3, SpecKept, StatusKept, LentKept, BudgetKept DEF ShareInv

LEMMA ListKeeps == ASSUME ShareInv, List PROVE ShareInv'
  <1> DEFINE there == Kept(Order, {d \in Datasets : There(d)})
  <1>1. ListedRight'
    <2>1. CASE at' = "resolve" /\ list' = Listing /\ todo' = there
      <3>1. /\ there \in Seq(Datasets)
            /\ \A i \in 1 .. Len(there) : there[i] \in Datasets /\ There(there[i])
        BY SMTT(20), ChosenOf
      <3>2. \A d \in Datasets : There(d) => Listing[d].spec.object \in Objects
        BY DEF There, Listing, ShareInv, Named
      <3> HIDE DEF there
      <3> QED BY <2>1, <3>1, <3>2 DEF ListedRight
    <2>2. CASE at' = "plan" /\ UNCHANGED todo
      BY <2>2 DEF ShareInv, ListedRight
    <2> QED BY <2>1, <2>2 DEF List
  <1>2. at' \in {"resolve", "plan"} /\ UNCHANGED <<apiVars, nodeVars, told>>
    BY DEF List
  <1>3. UNCHANGED spec /\ UNCHANGED status
    BY <1>2 DEF apiVars
  <1> QED BY <1>1, <1>2, <1>3, SpecKept, StatusKept, LentKept, BudgetKept DEF ShareInv

(* The pass learns what is free, and its budget is a share of that.        *)
LEMMA CapacityKeeps == ASSUME ShareInv, Capacity PROVE ShareInv'
  <1>1. UNCHANGED <<apiVars, nodeVars>> /\ at = "capacity"
    BY DEF Capacity
  <1>2. UNCHANGED spec /\ UNCHANGED status
    BY <1>1 DEF apiVars
  <1>3. CASE at' = "propose" /\ budget' = Free \div ShareOf
             /\ told' = [granted |-> 0, free |-> Free] /\ UNCHANGED <<list, todo>>
    <2>1. Free \in Nat
      <3>1. Lent \in Nat /\ Lent <= NodeBytes
        BY LentNatural DEF ShareInv, LentWithin, Lent
      <3> QED BY SMTT(20), <3>1, ControlAssumption DEF Free
    <2>2. Free \div ShareOf \in Nat
      BY <2>1, ShareNatural
    <2>3. Budgeted'
      BY SMTT(20), <1>3, <2>1, <2>2 DEF Budgeted, NodeShareHeld
    <2>4. ListedRight'
      BY <1>1, <1>3 DEF ShareInv, ListedRight
    <2> QED BY <1>1, <1>2, <1>3, <2>3, <2>4, SpecKept, StatusKept, LentKept DEF ShareInv
  <1>4. CASE at' = "list" /\ todo' = <<>> /\ UNCHANGED told
    <2>1. ListedRight'
      BY SMTT(20), <1>4 DEF ListedRight
    <2> QED BY <1>1, <1>2, <1>4, <2>1, SpecKept, StatusKept, LentKept, BudgetKept DEF ShareInv
  <1> QED BY <1>3, <1>4 DEF Capacity

(* The node grants what fits what it has free.                             *)
LEMMA GrantFits ==
    ASSUME LentWithin, NEW p, p.bytes \in Nat, Grantable(p), lent' = lent \cup {p},
           \A l \in late' : l.bytes \in Nat
    PROVE  LentWithin'
  <1>1. p \notin lent
    BY DEF Grantable, Holds
  <1>2. IsFiniteSet(lent) /\ (\A l \in lent : l.bytes \in Nat)
    BY DEF LentWithin
  <1>3. IsFiniteSet(lent') /\ Lent' = p.bytes + Lent
    BY <1>1, <1>2, LentGrows DEF Lent
  <1>4. Lent \in Nat
    BY <1>2, LentNatural DEF Lent
  <1>5. p.bytes <= NodeBytes - Lent
    BY DEF Grantable, Free
  <1>6. Lent' <= NodeBytes
    BY SMTT(20), <1>3, <1>4, <1>5, ControlAssumption
  <1> QED BY <1>2, <1>3, <1>6 DEF LentWithin

LEMMA ShrinkFits ==
    ASSUME LentWithin, lent' \subseteq lent, \A l \in late' : l.bytes \in Nat
    PROVE  LentWithin'
  <1>1. IsFiniteSet(lent) /\ (\A l \in lent : l.bytes \in Nat) /\ Lent <= NodeBytes
    BY DEF LentWithin
  <1>2. IsFiniteSet(lent') /\ Lent' <= Lent
    BY <1>1, LentShrinks DEF Lent
  <1>3. Lent \in Nat /\ Lent' \in Nat
    BY <1>1, <1>2, LentNatural DEF Lent
  <1>4. Lent' <= NodeBytes
    BY SMTT(20), <1>1, <1>2, <1>3, ControlAssumption
  <1> QED BY <1>1, <1>2, <1>4 DEF LentWithin

(* A proposal is of what the dataset has or what the budget allows.        *)
LEMMA ProposalWithin ==
    ASSUME ShareInv, at = "propose", todo # <<>>
    PROVE  Proposal(Head(todo)).bytes \in Nat /\ Proposal(Head(todo)).bytes <= budget
  <1> DEFINE b == list[Head(todo)].status.bytes
  <1>1. b \in Nat /\ budget \in Nat
    <2>1. Head(todo) = todo[1] /\ 1 \in 1 .. Len(todo)
      BY SMTT(20) DEF ShareInv, ListedRight
    <2> QED BY <2>1 DEF ShareInv, ListedRight, Budgeted
  <1>2. Proposal(Head(todo)).bytes = Min({b, budget})
    BY DEF Proposal
  <1>3. \E x \in {b, budget} : \A y \in {b, budget} : x <= y
    BY SMTT(20), <1>1
  <1> HIDE DEF b
  <1>4. Min({b, budget}) \in {b, budget} /\ \A y \in {b, budget} : Min({b, budget}) <= y
    BY <1>3 DEF Min
  <1> QED BY <1>1, <1>2, <1>4

(* What is granted leaves the budget, so that the two make up the share.   *)
LEMMA ProposeKeeps == ASSUME ShareInv, Propose PROVE ShareInv'
  <1> DEFINE p == Proposal(Head(todo))
  <1>1. UNCHANGED apiVars /\ at = "propose"
    BY DEF Propose
  <1>2. UNCHANGED spec /\ UNCHANGED status
    BY <1>1 DEF apiVars
  <1>3. CASE todo = <<>> /\ at' = "list" /\ UNCHANGED <<todo, nodeVars, told>>
    <2>1. ListedRight'
      BY <1>3 DEF ShareInv, ListedRight
    <2> QED BY <1>2, <1>3, <2>1, SpecKept, StatusKept, LentKept, BudgetKept DEF ShareInv
  <1>4. CASE /\ todo # <<>> /\ todo' = Tail(todo) /\ UNCHANGED <<at, list>>
             /\ Granted(p) \/ NotGranted \/ Unanswered(p)
    <2>1. p.bytes \in Nat /\ p.bytes <= budget
      BY <1>1, <1>4, ProposalWithin
    <2>2. ListedRight'
      <3>1. todo \in Seq(Datasets) /\ Tail(todo) \in Seq(Datasets) /\ Len(Tail(todo)) = Len(todo) - 1
            /\ \A i \in 1 .. Len(Tail(todo)) : Tail(todo)[i] = todo[i + 1] /\ i + 1 \in 1 .. Len(todo)
        BY SMTT(20), <1>4 DEF ShareInv, ListedRight
      <3> QED BY <1>1, <1>4, <3>1 DEF ShareInv, ListedRight
    <2> HIDE DEF p
    <2>3. CASE Granted(p)
      <3>1. /\ Grantable(p) /\ lent' = lent \cup {p} /\ late' = late
            /\ budget' = budget - p.bytes
            /\ told' = [told EXCEPT !.granted = @ + p.bytes]
        BY <2>3 DEF Granted
      <3>2. LentWithin'
        BY <2>1, <3>1, GrantFits DEF ShareInv, LentWithin
      <3>3. told'.granted = told.granted + p.bytes /\ told'.free = told.free
        BY SMTT(20), <3>1 DEF ShareInv, Budgeted
      <3>4. told.free \div ShareOf \in Nat
        BY ShareNatural DEF ShareInv, Budgeted
      <3>5. Budgeted'
        BY SMTT(20), <1>1, <2>1, <3>1, <3>3, <3>4 DEF ShareInv, Budgeted, NodeShareHeld
      <3> QED BY <1>1, <1>2, <1>4, <2>2, <3>2, <3>5, SpecKept, StatusKept DEF ShareInv
    <2>4. CASE NotGranted
      BY <1>2, <1>4, <2>2, <2>4, SpecKept, StatusKept, LentKept, BudgetKept DEF ShareInv, NotGranted
    <2>5. CASE Unanswered(p)
      <3>1. late' = late \cup {p} /\ lent' = lent /\ UNCHANGED <<budget, told>>
        BY <2>5 DEF Unanswered
      <3>2. LentWithin'
        BY <2>1, <3>1, ShrinkFits DEF ShareInv, LentWithin
      <3> QED BY <1>2, <1>4, <2>2, <3>1, <3>2, SpecKept, StatusKept, BudgetKept DEF ShareInv
    <2> QED BY <1>4, <2>3, <2>4, <2>5
  <1> QED BY <1>1, <1>3, <1>4 DEF Propose

(* What is recorded of a dataset has a size, from the store or from what   *)
(* was recorded before.                                                    *)
LEMMA MergedSized ==
    ASSUME NEW old, Sized(old), NEW s, s.object \in Objects, NEW sized \in BOOLEAN
    PROVE  Sized(Merged(old, Resolved(s, sized)))
  <1>1. Resolved(s, sized).bytes \in Nat
    BY ControlAssumption DEF Resolved
  <1>2. CASE old = NoStatus
    BY <1>1, <1>2 DEF Merged, Sized
  <1>3. CASE old # NoStatus
    <2>1. Merged(old, Resolved(s, sized)).bytes
            = IF Resolved(s, sized).bytes = 0 THEN old.bytes ELSE Resolved(s, sized).bytes
      BY <1>3 DEF Merged, Resolved
    <2> QED BY <1>1, <1>3, <2>1 DEF Sized
  <1> QED BY <1>2, <1>3

LEMMA ReconcileKeeps == ASSUME ShareInv, Reconcile PROVE ShareInv'
  <1>1. UNCHANGED <<spec, nodeVars, budget, told>> /\ at = "resolve"
    BY DEF Reconcile
  <1>2. CASE at' = "plan" /\ UNCHANGED <<todo, status>>
    <2>1. ListedRight'
      BY <1>2 DEF ShareInv, ListedRight
    <2> QED BY <1>1, <1>2, <2>1, SpecKept, StatusKept, LentKept, BudgetKept DEF ShareInv
  <1>3. CASE todo # <<>>
    <2> DEFINE d == Head(todo)
    <2>1. d \in Datasets /\ list[d].spec.object \in Objects
      <3>1. Head(todo) = todo[1] /\ 1 \in 1 .. Len(todo)
        BY SMTT(20), <1>3 DEF ShareInv, ListedRight
      <3> QED BY SMTT(20), <1>1, <3>1 DEF ShareInv, ListedRight
    <2>2. todo' = Tail(todo) /\ UNCHANGED <<at, list>>
      BY <1>3 DEF Reconcile
    <2>3. ListedRight'
      <3>1. todo \in Seq(Datasets) /\ Tail(todo) \in Seq(Datasets) /\ Len(Tail(todo)) = Len(todo) - 1
            /\ \A i \in 1 .. Len(Tail(todo)) : Tail(todo)[i] = todo[i + 1] /\ i + 1 \in 1 .. Len(todo)
        BY SMTT(20), <1>3 DEF ShareInv, ListedRight
      <3> QED BY <1>1, <2>2, <3>1 DEF ShareInv, ListedRight
    <2>4. \/ UNCHANGED status
          \/ \E sized \in BOOLEAN :
               status' = [status EXCEPT ![d] = Merged(@, Resolved(list[d].spec, sized))]
      <3> DEFINE patch(sized) ==
            status' = IF Changed(list[d].status, Resolved(list[d].spec, sized)) /\ There(d)
                      THEN [status EXCEPT ![d] = Merged(@, Resolved(list[d].spec, sized))]
                      ELSE status
      <3>1. patch(list[d].spec.object \in store) \/ patch(FALSE) \/ UNCHANGED status
        BY <1>3 DEF Reconcile
      <3>2. \A sized \in BOOLEAN : patch(sized) =>
              \/ UNCHANGED status
              \/ status' = [status EXCEPT ![d] = Merged(@, Resolved(list[d].spec, sized))]
        OBVIOUS
      <3>3. (list[d].spec.object \in store) \in BOOLEAN /\ FALSE \in BOOLEAN
        BY SMTT(20)
      <3> HIDE DEF d, patch
      <3> QED BY <3>1, <3>2, <3>3
    <2>5. (status = [e \in Datasets |-> status[e]] /\ \A e \in Datasets : Sized(status[e]))'
      <3>1. CASE UNCHANGED status
        BY <3>1, StatusKept
      <3>2. ASSUME NEW sized \in BOOLEAN,
                   status' = [status EXCEPT ![d] = Merged(@, Resolved(list[d].spec, sized))]
            PROVE  (status = [e \in Datasets |-> status[e]] /\ \A e \in Datasets : Sized(status[e]))'
        <4> DEFINE m == Merged(status[d], Resolved(list[d].spec, sized))
        <4>1. Sized(m)
          BY <2>1, MergedSized DEF ShareInv
        <4>2. status' = [status EXCEPT ![d] = m]
          BY <3>2
        <4> HIDE DEF m
        <4>3. status' = [e \in Datasets |-> IF e = d THEN m ELSE status[e]]
          BY <4>2 DEF ShareInv
        <4> QED BY <4>1, <4>3 DEF ShareInv, Sized
      <3> QED BY <2>4, <3>1, <3>2
    <2> QED BY <1>1, <2>2, <2>3, <2>5, SpecKept, LentKept, BudgetKept DEF ShareInv
  <1> QED BY <1>2, <1>3 DEF Reconcile

(* A step of users, the store or the network that lends nothing.           *)
LEMMA UsersKeep ==
    ASSUME ShareInv, UNCHANGED <<at, list, todo, budget, told>>, LentWithin',
           spec' = [d \in Datasets |-> spec'[d]], \A d \in Datasets : Named(spec'[d]),
           status' = [d \in Datasets |-> status'[d]], \A d \in Datasets : Sized(status'[d])
    PROVE  ShareInv'
  <1>1. ListedRight'
    BY DEF ShareInv, ListedRight
  <1>2. Budgeted'
    BY BudgetKept
  <1> QED BY <1>1, <1>2 DEF ShareInv

(* Every step keeps the invariant.                                         *)
LEMMA ShareInvStep == ShareInv /\ [ControlNext]_controlVars => ShareInv'
  <1> SUFFICES ASSUME ShareInv, [ControlNext]_controlVars
               PROVE  ShareInv'
    OBVIOUS
  <1>1. CASE Controller
    BY <1>1, PlanKeeps, CapacityKeeps, ProposeKeeps, ListKeeps, ReconcileKeeps DEF Controller
  <1>2. ASSUME NEW d \in Datasets, NEW s \in Declarations, Declare(d, s) PROVE ShareInv'
    <2>1. UNCHANGED <<status, nodeVars, planVars>> /\ spec' = [spec EXCEPT ![d] = Declared(s, @.gen + 1)]
      BY <1>2 DEF Declare
    <2> DEFINE new == Declared(s, spec[d].gen + 1)
    <2>2. new.object \in Objects
      BY ControlAssumption DEF Declared
    <2>3. spec' = [e \in Datasets |-> IF e = d THEN new ELSE spec[e]]
      BY <2>1 DEF ShareInv
    <2> HIDE DEF new
    <2>4. spec' = [e \in Datasets |-> spec'[e]] /\ \A e \in Datasets : Named(spec'[e])
      BY <2>2, <2>3 DEF ShareInv, Named
    <2> QED BY <2>1, <2>4, UsersKeep, StatusKept, LentKept DEF planVars
  <1>3. ASSUME NEW d \in Datasets, Delete(d) PROVE ShareInv'
    <2>1. /\ UNCHANGED <<nodeVars, planVars>> /\ spec' = [spec EXCEPT ![d] = Gone]
          /\ status' = [status EXCEPT ![d] = NoStatus]
      BY <1>3 DEF Delete
    <2>2. spec' = [e \in Datasets |-> IF e = d THEN Gone ELSE spec[e]]
          /\ status' = [e \in Datasets |-> IF e = d THEN NoStatus ELSE status[e]]
      BY <2>1 DEF ShareInv
    <2>3. spec' = [e \in Datasets |-> spec'[e]] /\ \A e \in Datasets : Named(spec'[e])
      BY <2>2 DEF ShareInv, Named
    <2>4. status' = [e \in Datasets |-> status'[e]] /\ \A e \in Datasets : Sized(status'[e])
      BY <2>2 DEF ShareInv, Sized
    <2> QED BY <2>1, <2>3, <2>4, UsersKeep, LentKept DEF planVars
  <1>4. ASSUME UNCHANGED <<apiVars, planVars>>, LentWithin' PROVE ShareInv'
    BY <1>4, UsersKeep, SpecKept, StatusKept DEF apiVars, planVars
  <1>5. ASSUME NEW d \in Datasets, CreateVolume(d) PROVE ShareInv'
    BY <1>4, <1>5, LentKept DEF CreateVolume
  <1>6. ASSUME NEW o \in Objects, Upload(o) \/ Withdraw(o) PROVE ShareInv'
    BY <1>4, <1>6, LentKept DEF Upload, Withdraw
  <1>7. ASSUME NEW l \in lent, TakeBack(l) PROVE ShareInv'
    <2>1. lent' \subseteq lent /\ late' = late /\ UNCHANGED <<apiVars, planVars>>
      BY <1>7 DEF TakeBack
    <2>2. LentWithin'
      BY <2>1, ShrinkFits DEF ShareInv, LentWithin
    <2> QED BY <1>4, <2>1, <2>2
  <1>8. ASSUME NEW p \in late, Arrive(p) PROVE ShareInv'
    <2>1. late' \subseteq late /\ UNCHANGED <<apiVars, planVars>>
          /\ (lent' = lent \/ (Grantable(p) /\ lent' = lent \cup {p}))
      BY <1>8 DEF Arrive
    <2>2. LentWithin'
      BY <2>1, GrantFits, ShrinkFits DEF ShareInv, LentWithin
    <2> QED BY <1>4, <2>1, <2>2
  <1>9. CASE RestartController
    <2>1. /\ at' = "plan" /\ todo' = <<>> /\ told' = [granted |-> 0, free |-> 0]
          /\ UNCHANGED <<apiVars, nodeVars>>
      BY <1>9 DEF RestartController
    <2>2. ListedRight'
      BY SMTT(20), <2>1 DEF ListedRight
    <2>3. Budgeted'
      <3>1. 0 \div ShareOf = 0
        BY SMTT(20), ControlAssumption
      <3> QED BY SMTT(20), <2>1, <3>1 DEF Budgeted, NodeShareHeld
    <2>4. UNCHANGED spec /\ UNCHANGED status
      BY <2>1 DEF apiVars
    <2> QED BY <2>1, <2>2, <2>3, <2>4, SpecKept, StatusKept, LentKept DEF ShareInv
  <1>10. CASE UNCHANGED controlVars
    BY <1>4, <1>10, LentKept DEF controlVars
  <1> QED
    BY <1>1, <1>2, <1>3, <1>5, <1>6, <1>7, <1>8, <1>9, <1>10 DEF ControlNext, Users

(* However the statuses, the node's leases and the answers to proposals    *)
(* change under a pass, what it is granted stays within its share of what  *)
(* the node said was free (proposer.share).                                *)
THEOREM SharesAlwaysHeld == ControlSpec => []NodeShareHeld
  <1>1. ShareInv => NodeShareHeld
    BY DEF ShareInv, Budgeted
  <1> QED BY <1>1, ShareInvInit, ShareInvStep, PTL DEF ControlSpec

-----------------------------------------------------------------------------
(* VolumeReports, for every set of targets, volumes and number of faults.  *)

(* Where a call for one target can be, by what the kubelet wants there,    *)
(* and what is mounted when the driver has answered or is about to.        *)
TargetInv(t) ==
    /\ pod[t] \in {"running", "absent"} => call[t] = "idle"
    /\ pod[t] = "starting" => call[t] \in {"idle", "publish", "observe", "answered"}
    /\ pod[t] = "stopping" => call[t] \in {"idle", "unpublish", "forget", "answered"}
    /\ pod[t] = "running" \/ (pod[t] = "starting" /\ call[t] \in {"observe", "answered"})
        => mounts[t] = 1
    /\ pod[t] = "absent" \/ (pod[t] = "stopping" /\ call[t] \in {"forget", "answered"})
        => mounts[t] = 0

(* The inductive invariant: MountsFollowPods says nothing of a pod whose   *)
(* call is under way, and this does.                                       *)
MountInv ==
    /\ pod \in [Targets -> {"absent", "starting", "running", "stopping"}]
    /\ call \in [Targets -> {"idle", "publish", "observe", "unpublish", "forget", "answered"}]
    /\ mounts \in [Targets -> {0, 1}]
    /\ \A t \in Targets : TargetInv(t)

LEMMA MountInvInit == ReportsInit => MountInv
  BY DEF ReportsInit, MountInv, TargetInv

(* Every step keeps the invariant.  The agent's own steps touch neither    *)
(* pods, calls nor mounts; the others touch one target.                    *)
LEMMA MountInvStep == MountInv /\ [ReportsNext]_reportVars => MountInv'
  <1> SUFFICES ASSUME MountInv, [ReportsNext]_reportVars
               PROVE  MountInv'
    OBVIOUS
  <1> USE DEF MountInv, TargetInv
  <1>1. ASSUME NEW t \in Targets, StartPod(t) PROVE MountInv'
    BY <1>1 DEF StartPod
  <1>2. ASSUME NEW t \in Targets, StopPod(t) PROVE MountInv'
    BY <1>2 DEF StopPod
  <1>3. ASSUME NEW t \in Targets, Call(t) PROVE MountInv'
    BY <1>3 DEF Call, Goto
  <1>4. ASSUME NEW t \in Targets, Heard(t) PROVE MountInv'
    BY <1>4 DEF Heard, Goto
  <1>5. ASSUME NEW t \in Targets, Mount(t) PROVE MountInv'
    BY SMTT(20), <1>5 DEF Mount, Goto
  <1>6. ASSUME NEW t \in Targets, MountFails(t) PROVE MountInv'
    BY <1>6 DEF MountFails, Goto
  <1>7. ASSUME NEW t \in Targets, Unmount(t) PROVE MountInv'
    BY SMTT(20), <1>7 DEF Unmount, Goto
  <1>8. ASSUME NEW t \in Targets, UnmountFails(t) PROVE MountInv'
    BY SMTT(20), <1>8 DEF UnmountFails, Goto
  <1>9. ASSUME NEW t \in Targets, Tell(t) \/ TellFails(t) PROVE MountInv'
    BY <1>9 DEF Tell, TellFails, Goto
  <1>10. CASE UNCHANGED <<pod, call, mounts>>
    BY <1>10
  <1> QED
    BY <1>1, <1>2, <1>3, <1>4, <1>5, <1>6, <1>7, <1>8, <1>9, <1>10
       DEF ReportsNext, Driver, Late, Restart, reportVars

(* However many pods and volumes there are, and however many calls fail,   *)
(* are repeated or go unheard, a running pod has one mount under it and a  *)
(* pod that is gone has none (NFS.Mount, NFS.Unmount).                     *)
THEOREM MountsAlwaysFollowPods == ReportsSpec => []MountsFollowPods
  <1>1. MountInv => MountsFollowPods
    BY DEF MountInv, TargetInv, MountsFollowPods
  <1> QED BY <1>1, MountInvInit, MountInvStep, PTL DEF ReportsSpec

-----------------------------------------------------------------------------
(* What the agent counts, where every pod has a volume of its own.         *)

OwnVolumes == \A t, u \in Targets : VolumeAt[t] = VolumeAt[u] => t = u

(* A volume none of whose reports went astray is counted where the driver  *)
(* has told of it last, and only there.                                    *)
Counted(t) ==
    VolumeAt[t] \notin astray =>
        /\ pod[t] = "running" \/ (pod[t] = "starting" /\ call[t] = "answered")
            => VolumeAt[t] \in DOMAIN registry
        /\ pod[t] = "absent" \/ (pod[t] = "stopping" /\ call[t] = "answered")
            => VolumeAt[t] \notin DOMAIN registry

(* The inductive invariant: what is still on its way is about a volume     *)
(* known to be astray, so that a late report touches no other.             *)
CountInv ==
    /\ MountInv
    /\ \A m \in wire : m.vol \in astray
    /\ \A t \in Targets : Counted(t)

(* What a report does to the volumes the agent knows.                      *)
LEMMA ApplyDomain ==
    ASSUME NEW r
    PROVE  /\ r.op = "observe" => DOMAIN Apply(r) = DOMAIN registry \cup {r.vol}
           /\ r.op # "observe" => DOMAIN Apply(r) = DOMAIN registry \ {r.vol}
  BY DEF Apply, Published, Unpublished, Restrict

LEMMA CountInvInit == ReportsInit => CountInv
  <1>1. ReportsInit => DOMAIN registry = {}
    BY SMTT(20) DEF ReportsInit, NewRegistry
  <1> QED BY <1>1, MountInvInit DEF ReportsInit, CountInv, Counted

(* A report that is answered settles its own volume and no other's.        *)
LEMMA TellCounts ==
    ASSUME OwnVolumes, CountInv, NEW t \in Targets, Tell(t)
    PROVE  (\A m \in wire : m.vol \in astray)' /\ \A u \in Targets : Counted(u)'
  <1> DEFINE v == VolumeAt[t]
             r == Report(call[t], t)
  <1>1. r.op = call[t] /\ r.vol = v
    BY DEF Report
  <1>2. /\ registry' = Apply(r)
        /\ astray' = IF \E m \in wire : m.vol = v THEN astray ELSE astray \ {v}
        /\ UNCHANGED <<pod, wire>> /\ call' = [call EXCEPT ![t] = "answered"]
        /\ call[t] \in {"observe", "forget"}
    BY <1>1 DEF Tell, Goto
  <1>3. (\A m \in wire : m.vol \in astray)'
    BY <1>2 DEF CountInv
  <1>4. DOMAIN registry' = IF call[t] = "observe" THEN DOMAIN registry \cup {v}
                             ELSE DOMAIN registry \ {v}
    <2>1. \A x : x \in {"observe", "forget"} /\ x # "observe" => x = "forget"
      OBVIOUS
    <2> HIDE DEF r, v
    <2> QED BY <1>1, <1>2, <2>1, ApplyDomain
  <1>5. ASSUME NEW u \in Targets PROVE Counted(u)'
    <2>1. CASE u # t
      <3>1. VolumeAt[u] # v
        BY <2>1 DEF OwnVolumes
      <3>2. VolumeAt[u] \in astray' <=> VolumeAt[u] \in astray
        BY <1>2, <3>1
      <3>3. VolumeAt[u] \in DOMAIN registry' <=> VolumeAt[u] \in DOMAIN registry
        BY <1>4, <3>1
      <3>4. call'[u] = call[u] /\ pod' = pod
        BY <1>2, <2>1 DEF CountInv, MountInv
      <3>5. Counted(u)
        BY DEF CountInv
      <3> QED BY <3>2, <3>3, <3>4, <3>5 DEF Counted
    <2>2. CASE u = t
      <3>1. TargetInv(t)
        BY DEF CountInv, MountInv
      <3>2. pod[t] \in {"starting", "stopping"}
            /\ (pod[t] = "starting" => call[t] = "observe")
            /\ (pod[t] = "stopping" => call[t] = "forget")
        BY <3>1, <1>2 DEF TargetInv, CountInv, MountInv
      <3> QED BY <2>2, <1>2, <1>4, <3>2 DEF Counted
    <2> QED BY <2>1, <2>2
  <1> QED BY <1>3, <1>5

(* A step that neither tells the agent anything nor takes anything from    *)
(* the volumes astray keeps what is counted, where it moves no pod whose   *)
(* count is known to a state that wants another.                           *)
LEMMA QuietCounts ==
    ASSUME CountInv, MountInv', UNCHANGED <<wire, registry, astray>>,
           \A t \in Targets :
             \/ pod'[t] = pod[t] /\ (call'[t] = call[t] \/ call'[t] # "answered")
             \/ pod'[t] \in {"starting", "stopping"} /\ call'[t] # "answered"
             \/ pod[t] = "starting" /\ call[t] = "answered" /\ pod'[t] = "running"
             \/ pod[t] = "stopping" /\ call[t] = "answered" /\ pod'[t] = "absent"
    PROVE  (\A m \in wire : m.vol \in astray)' /\ \A u \in Targets : Counted(u)'
  <1>1. (\A m \in wire : m.vol \in astray)'
    BY DEF CountInv
  <1>2. ASSUME NEW u \in Targets PROVE Counted(u)'
    <2>1. Counted(u)
      BY DEF CountInv
    <2> QED BY <2>1 DEF Counted
  <1> QED BY <1>1, <1>2

(* Every step keeps the invariant: the reports one way, the rest quietly.  *)
LEMMA CountInvStep ==
    ASSUME OwnVolumes
    PROVE  CountInv /\ [ReportsNext]_reportVars => CountInv'
  <1> SUFFICES ASSUME CountInv, [ReportsNext]_reportVars
               PROVE  (\A m \in wire : m.vol \in astray)' /\ \A u \in Targets : Counted(u)'
    BY MountInvStep DEF CountInv
  <1> DEFINE Goal == (\A m \in wire : m.vol \in astray)' /\ \A u \in Targets : Counted(u)'
  <1>0. MountInv /\ MountInv'
    BY MountInvStep DEF CountInv
  <1>1. ASSUME NEW t \in Targets, StartPod(t) \/ StopPod(t) \/ Call(t) PROVE Goal
    BY SMTT(20), <1>0, <1>1, QuietCounts DEF StartPod, StopPod, Call, Goto, MountInv, TargetInv
  <1>2. ASSUME NEW t \in Targets, Heard(t) PROVE Goal
    BY SMTT(20), <1>0, <1>2, QuietCounts DEF Heard, Goto, MountInv, TargetInv
  <1>3. ASSUME NEW t \in Targets, Mount(t) \/ MountFails(t) \/ Unmount(t) \/ UnmountFails(t)
        PROVE  Goal
    BY <1>0, <1>3, QuietCounts DEF Mount, MountFails, Unmount, UnmountFails, Goto, MountInv
  <1>4. ASSUME NEW t \in Targets, Tell(t) PROVE Goal
    BY <1>4, TellCounts
  <1>5. ASSUME NEW t \in Targets, TellFails(t) PROVE Goal
    <2>1. /\ wire' \in {wire, wire \cup {Report(call[t], t)}}
          /\ astray' = astray \cup {VolumeAt[t]}
          /\ call' = [call EXCEPT ![t] = "answered"] /\ UNCHANGED <<pod, registry>>
      BY <1>5 DEF TellFails, Goto
    <2>2. Report(call[t], t).vol = VolumeAt[t]
      BY DEF Report
    <2>3. (\A m \in wire : m.vol \in astray)'
      BY <2>1, <2>2 DEF CountInv
    <2>4. ASSUME NEW u \in Targets PROVE Counted(u)'
      <3>1. Counted(u)
        BY DEF CountInv
      <3>2. u # t => call'[u] = call[u]
        BY <2>1, <1>0 DEF MountInv
      <3> QED BY <2>1, <3>1, <3>2 DEF Counted
    <2> QED BY <2>3, <2>4
  <1>6. ASSUME NEW r \in wire, Late(r) PROVE Goal
    <2>1. wire' = wire \ {r} /\ registry' = Apply(r) /\ UNCHANGED <<pod, call, astray>>
      BY <1>6 DEF Late
    <2>2. \A x : x # r.vol => (x \in DOMAIN registry' <=> x \in DOMAIN registry)
      BY <2>1, ApplyDomain
    <2>3. r.vol \in astray
      BY DEF CountInv
    <2>4. ASSUME NEW u \in Targets PROVE Counted(u)'
      <3>1. Counted(u)
        BY DEF CountInv
      <3> QED BY <2>1, <2>2, <2>3, <3>1 DEF Counted
    <2> QED BY <2>1, <2>4 DEF CountInv
  <1>7. CASE Restart
    <2>1. wire' = {} /\ astray' = Volumes
      BY <1>7 DEF Restart
    <2> QED BY <2>1 DEF Counted, Volumes
  <1>8. CASE UNCHANGED reportVars
    BY <1>8 DEF reportVars, CountInv, Counted
  <1> QED
    BY <1>1, <1>2, <1>3, <1>4, <1>5, <1>6, <1>7, <1>8 DEF ReportsNext, Driver

(* Where every pod has a volume of its own, however many there are and     *)
(* however many calls, answers and reports are lost or late, the agent     *)
(* counts a volume whose reports arrived exactly while it is mounted       *)
(* (observe and forget in cmd/forebay-csi, Published and Unpublished).     *)
(* Two pods of one volume are outside it: the first to go takes the other  *)
(* one's volume from the registry.                                         *)
THEOREM RegistryAlwaysFollowsMounts ==
    ASSUME OwnVolumes
    PROVE  ReportsSpec => []RegistryFollowsMounts
  <1>1. CountInv => RegistryFollowsMounts
    <2> SUFFICES ASSUME CountInv, NEW v \in Volumes, Settled(v), v \notin astray
                 PROVE  v \in DOMAIN registry <=>
                          \E t \in Targets : VolumeAt[t] = v /\ mounts[t] > 0
      BY DEF RegistryFollowsMounts
    <2>1. PICK t \in Targets : VolumeAt[t] = v
      BY DEF Volumes
    <2>2. TargetInv(t) /\ Counted(t) /\ pod[t] \in {"absent", "running"}
      BY <2>1 DEF CountInv, MountInv, Settled
    <2>3. \A u \in Targets : VolumeAt[u] = v => u = t
      BY <2>1 DEF OwnVolumes
    <2>4. CASE pod[t] = "running"
      <3>1. v \in DOMAIN registry
        BY <2>1, <2>2, <2>4 DEF Counted
      <3>2. mounts[t] > 0
        BY SMTT(20), <2>2, <2>4 DEF TargetInv
      <3> QED BY <2>1, <3>1, <3>2
    <2>5. CASE pod[t] = "absent"
      <3>1. v \notin DOMAIN registry
        BY <2>1, <2>2, <2>5 DEF Counted
      <3>2. ~ (mounts[t] > 0)
        BY SMTT(20), <2>2, <2>5 DEF TargetInv
      <3> QED BY <2>3, <3>1, <3>2
    <2> QED BY <2>2, <2>4, <2>5
  <1>2. CountInv /\ [ReportsNext]_reportVars => CountInv'
    BY CountInvStep
  <1> QED BY <1>1, <1>2, CountInvInit, PTL DEF ReportsSpec

-----------------------------------------------------------------------------
(* ResidencyLabels, for every set of nodes, datasets and holdings.         *)

Level == {None, Some, Most}

(* The types of what the reports read and write. *)
ReportTypes ==
    /\ tier \in [Nodes -> [Labelled -> 0..100]]
    /\ track \in [Nodes -> [Labelled -> Level]]
    /\ was \in [Nodes -> [Labelled -> [level : Level, at : 0..100]]]

(* The inductive invariant: without what was said last nothing is known of *)
(* how far a holding has moved since.                                      *)
ReportInv == ReportTypes /\ Remembered

(* The four lines of Next. *)
LEMMA Lines == rise[Some] = 25 /\ rise[Most] = 75 /\ fall[Some] = 20 /\ fall[Most] = 70
  BY SMTT(20) DEF rise, fall, Some, Most

(* Next answers with a level. *)
LEMMA NextIsLevel ==
    ASSUME NEW c \in Level, NEW f \in 0..100
    PROVE  Next(c, f) \in Level
  BY Lines DEF Next, Level, None, Some, Most

(* Nothing held is nothing published. *)
LEMMA NextOfNothing ==
    ASSUME NEW c \in Level
    PROVE  Next(c, 0) = None
  BY SMTT(20), Lines DEF Next, Level, None, Some, Most

(* The hysteresis of Next: a level left at one holding and returned to at  *)
(* another has the distance between two lines in between, whatever the     *)
(* level.                                                                  *)
LEMMA NextHysteresis ==
    ASSUME NEW c \in Level, NEW a \in 0..100, NEW f \in 0..100,
           Next(c, a) # c, Next(Next(c, a), f) = c
    PROVE  f - a >= 5 \/ a - f >= 5
  <1>1. CASE c = None
    BY SMTT(20), <1>1, Lines DEF Next, Level, None, Some, Most
  <1>2. CASE c = Some
    BY SMTT(20), <1>2, Lines DEF Next, Level, None, Some, Most
  <1>3. CASE c = Most
    BY SMTT(20), <1>3, Lines DEF Next, Level, None, Some, Most
  <1> QED BY <1>1, <1>2, <1>3 DEF Level

(* What a report makes of one dataset: unchanged, or what Next says of the *)
(* level last said and the holding now, nothing being held included.       *)
LEMMA UpdatedIsNext ==
    ASSUME ReportTypes, NEW n \in Nodes, NEW d \in Labelled, NEW known
    PROVE  Updated(n, known)[d] \in {track[n][d], Next(track[n][d], tier[n][d])}
  <1>1. tier[n][d] \in 0..100 /\ track[n][d] \in Level
    BY DEF ReportTypes
  <1>2. CASE tier[n][d] = 0
    BY <1>1, <1>2, NextOfNothing DEF Updated
  <1>3. CASE tier[n][d] > 0 /\ d \in known
    BY SMTT(20), <1>1, <1>3 DEF Updated
  <1>4. CASE tier[n][d] > 0 /\ d \notin known
    BY SMTT(20), <1>1, <1>4 DEF Updated
  <1>5. tier[n][d] = 0 \/ tier[n][d] > 0
    BY SMTT(20), <1>1
  <1> QED BY <1>2, <1>3, <1>4, <1>5

(* What any step does to levels, history and holdings of one dataset: only *)
(* a report moves the level, and it writes down where it moved from.       *)
StepOf(n, d) ==
    \/ track'[n][d] = track[n][d] /\ was'[n][d] = was[n][d]
    \/ /\ track'[n][d] = Next(track[n][d], tier[n][d])
       /\ was'[n][d] = [level |-> track[n][d], at |-> tier[n][d]]
       /\ tier' = tier
    \/ /\ track'[n][d] = None /\ tier'[n][d] = 0
       /\ was'[n][d] = [level |-> None, at |-> 0]

(* A report is such a step, for its own node and for the others. *)
LEMMA ReportSteps ==
    ASSUME ReportTypes, NEW m \in Nodes, NEW known, ReportLevels(m, known), tier' = tier
    PROVE  /\ ReportTypes'
           /\ \A n \in Nodes, d \in Labelled : StepOf(n, d)
  <1> DEFINE now == Updated(m, known)
             left == [d \in Labelled |-> IF now[d] = track[m][d] THEN was[m][d]
                                         ELSE [level |-> track[m][d], at |-> tier[m][d]]]
  <1>1. /\ track' = [track EXCEPT ![m] = now]
        /\ was' = [was EXCEPT ![m] = left]
    BY DEF ReportLevels
  <1>2. now \in [Labelled -> Level]
    <2>1. now = [d \in Labelled |-> now[d]]
      BY SMTT(20) DEF Updated
    <2>2. ASSUME NEW d \in Labelled PROVE now[d] \in Level
      <3>1. tier[m][d] \in 0..100 /\ track[m][d] \in Level
        BY DEF ReportTypes
      <3> QED BY <3>1, UpdatedIsNext, NextIsLevel
    <2> HIDE DEF now
    <2> QED BY <2>1, <2>2
  <1>3. left \in [Labelled -> [level : Level, at : 0..100]]
    <2> HIDE DEF now
    <2> QED BY SMTT(20) DEF ReportTypes
  <1>4. ReportTypes'
    <2> HIDE DEF now, left
    <2> QED BY <1>1, <1>2, <1>3 DEF ReportTypes
  <1>5. ASSUME NEW n \in Nodes, NEW d \in Labelled PROVE StepOf(n, d)
    <2>1. CASE n # m
      <3> HIDE DEF now, left
      <3> QED BY <1>1, <2>1 DEF StepOf, ReportTypes
    <2>2. CASE n = m
      <3>1. now[d] \in {track[m][d], Next(track[m][d], tier[m][d])}
        BY UpdatedIsNext
      <3>2. track'[m][d] = now[d] /\ was'[m][d] = left[d]
        <4> HIDE DEF now, left
        <4> QED BY <1>1 DEF ReportTypes
      <3> HIDE DEF now
      <3>3. left[d] = IF now[d] = track[m][d] THEN was[m][d]
                      ELSE [level |-> track[m][d], at |-> tier[m][d]]
        OBVIOUS
      <3> HIDE DEF left
      <3> QED BY <2>2, <3>1, <3>2, <3>3 DEF StepOf
    <2> QED BY <2>1, <2>2
  <1> QED BY <1>4, <1>5

(* Every step of the system is such a step. *)
LEMMA EveryStep ==
    ASSUME ReportTypes, [LabelsNext]_labelVars
    PROVE  /\ ReportTypes'
           /\ \A n \in Nodes, d \in Labelled : StepOf(n, d)
  <1> USE DEF agentVars, passVars
  <1>1. ASSUME UNCHANGED <<track, was, tier>>
        PROVE  ReportTypes' /\ \A n \in Nodes, d \in Labelled : StepOf(n, d)
    BY <1>1 DEF ReportTypes, StepOf
  <1>2. ASSUME NEW m \in Nodes, NEW e \in Labelled, NEW blocks \in Holdings, Hold(m, e, blocks)
        PROVE  ReportTypes' /\ \A n \in Nodes, d \in Labelled : StepOf(n, d)
    <2>1. blocks \in 0..100
      BY HoldingsArePercent
    <2>2. /\ tier' = [tier EXCEPT ![m][e] = blocks] /\ track' = track /\ was' = was
      BY <1>2 DEF Hold
    <2>3. tier' \in [Nodes -> [Labelled -> 0..100]]
      BY <2>1, <2>2 DEF ReportTypes
    <2> QED BY <2>2, <2>3 DEF ReportTypes, StepOf
  <1>3. ASSUME NEW m \in Nodes, AgentRestart(m)
        PROVE  ReportTypes' /\ \A n \in Nodes, d \in Labelled : StepOf(n, d)
    <2>1. /\ tier' = [tier EXCEPT ![m] = [d \in Labelled |-> 0]]
          /\ track' = [track EXCEPT ![m] = [d \in Labelled |-> None]]
          /\ was' = [was EXCEPT ![m] = [d \in Labelled |-> [level |-> None, at |-> 0]]]
      BY <1>3 DEF AgentRestart, Nothing
    <2>2. ReportTypes'
      BY SMTT(20), <2>1 DEF ReportTypes, Level
    <2>3. ASSUME NEW n \in Nodes, NEW d \in Labelled PROVE StepOf(n, d)
      BY <2>1 DEF ReportTypes, StepOf
    <2> QED BY <2>2, <2>3
  <1>4. CASE UNCHANGED labelVars
    BY <1>1, <1>4 DEF labelVars
  <1>5. CASE Ask
    <2>1. tier' = tier
      BY <1>5 DEF Ask
    <2>2. UNCHANGED <<track, was>> \/ \E known : ReportLevels(Head(agents), known)
      BY <1>5 DEF Ask
    <2>3. CASE UNCHANGED <<track, was>>
      BY <1>1, <2>1, <2>3
    <2>4. ASSUME NEW known, ReportLevels(Head(agents), known)
          PROVE  ReportTypes' /\ \A n \in Nodes, d \in Labelled : StepOf(n, d)
      <3>1. CASE Head(agents) \in Nodes
        BY <2>1, <2>4, <3>1, ReportSteps
      <3>2. CASE Head(agents) \notin Nodes
        <4>1. UNCHANGED <<track, was>>
          BY <2>4, <3>2 DEF ReportLevels, ReportTypes
        <4> QED BY <1>1, <2>1, <4>1
      <3> QED BY <3>1, <3>2
    <2> QED BY <2>2, <2>3, <2>4
  <1>6. ASSUME Find \/ GetNode \/ Patch \/ Tick \/ (\E p \in latePatches : PatchArrives(p))
               \/ (\E m \in Nodes : Probe(m) \/ \E took \in Slow : Serve(m, took))
               \/ (\E m \in Nodes, e \in Labelled, level \in {None, Some, Most} : Relabel(m, e, level))
        PROVE  UNCHANGED <<track, was, tier>>
    BY <1>6 DEF Find, GetNode, Patch, Tick, PatchArrives, Probe, Serve, Relabel
  <1> QED BY <1>1, <1>2, <1>3, <1>4, <1>5, <1>6 DEF LabelsNext, Labeller

(* The invariant is inductive. *)
LEMMA ReportInvStep == ReportInv /\ [LabelsNext]_labelVars => ReportInv'
  <1> SUFFICES ASSUME ReportInv, [LabelsNext]_labelVars PROVE ReportInv'
    OBVIOUS
  <1>1. /\ ReportTypes'
        /\ \A n \in Nodes, d \in Labelled : StepOf(n, d)
    BY EveryStep DEF ReportInv
  <1>2. ASSUME NEW n \in Nodes, NEW d \in Labelled
        PROVE  track'[n][d] = Next(was'[n][d].level, was'[n][d].at)
    <2>1. StepOf(n, d)
      BY <1>1
    <2>2. track[n][d] = Next(was[n][d].level, was[n][d].at)
      BY DEF ReportInv, Remembered
    <2>3. Next(None, 0) = None
      BY NextOfNothing DEF Level
    <2> QED BY SMTT(20), <2>1, <2>2, <2>3 DEF StepOf
  <1> QED BY <1>1, <1>2 DEF ReportInv, Remembered

LEMMA ReportInvInit == LabelsInit => ReportInv
  <1> SUFFICES ASSUME LabelsInit PROVE ReportInv
    OBVIOUS
  <1>1. ReportTypes
    BY SMTT(20) DEF LabelsInit, ReportTypes, Nothing, Level
  <1>2. Next(None, 0) = None
    BY NextOfNothing DEF Level
  <1>3. Remembered
    BY <1>2 DEF LabelsInit, Remembered, Nothing
  <1> QED BY <1>1, <1>3 DEF ReportInv

(* What an agent last said is what Next warranted when it last changed,    *)
(* whatever reports were lost, repeated or asked of a restarted agent      *)
(* (Tracker).                                                              *)
THEOREM LevelsRemembered == LabelsSpec => []Remembered
  BY ReportInvInit, ReportInvStep, PTL DEF LabelsSpec, ReportInv

(* No dataset flaps: for every number of nodes and datasets and every      *)
(* holding, a level is returned to only after the holding has moved by the *)
(* distance between the lines (Next, Tracker.Update).                      *)
THEOREM LevelsDoNotFlap == LabelsSpec => NoFlapping
  <1> DEFINE Calm == \A n \in Nodes, d \in Labelled :
        track'[n][d] # track[n][d] /\ track'[n][d] = was[n][d].level /\ tier' = tier =>
            LET apart == tier[n][d] - was[n][d].at
            IN  apart >= rise[Some] - fall[Some] \/ -apart >= rise[Some] - fall[Some]
  <1>1. ReportInv /\ [LabelsNext]_labelVars => [Calm]_labelVars
    <2> SUFFICES ASSUME ReportInv, [LabelsNext]_labelVars,
                        NEW n \in Nodes, NEW d \in Labelled,
                        track'[n][d] # track[n][d], track'[n][d] = was[n][d].level, tier' = tier
                 PROVE  \/ tier[n][d] - was[n][d].at >= rise[Some] - fall[Some]
                        \/ -(tier[n][d] - was[n][d].at) >= rise[Some] - fall[Some]
      OBVIOUS
    <2> DEFINE c == was[n][d].level
               a == was[n][d].at
               f == tier[n][d]
    <2>1. c \in Level /\ a \in 0..100 /\ f \in 0..100 /\ track[n][d] \in Level
      BY DEF ReportInv, ReportTypes
    <2>2. track[n][d] = Next(c, a)
      BY DEF ReportInv, Remembered
    <2>3. track'[n][d] = Next(track[n][d], f)
      <3>1. StepOf(n, d)
        BY EveryStep DEF ReportInv
      <3>2. f = 0 => Next(track[n][d], f) = None
        BY <2>1, NextOfNothing
      <3> QED BY <3>1, <3>2 DEF StepOf
    <2>4. Next(c, a) # c /\ Next(Next(c, a), f) = c
      BY <2>2, <2>3
    <2>5. f - a >= 5 \/ a - f >= 5
      <3> HIDE DEF c, a, f
      <3> QED BY <2>1, <2>4, NextHysteresis
    <2>6. rise[Some] - fall[Some] = 5
      BY SMTT(20), Lines
    <2>7. f - a >= 5 \/ -(f - a) >= 5
      <3> HIDE DEF c, a, f
      <3> QED BY SMTT(20), <2>1, <2>5
    <2> QED BY <2>6, <2>7
  <1>2. LabelsSpec => []ReportInv
    BY ReportInvInit, ReportInvStep, PTL DEF LabelsSpec
  <1> QED BY <1>1, <1>2, PTL DEF LabelsSpec, NoFlapping

=============================================================================
