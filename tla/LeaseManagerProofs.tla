------------------------- MODULE LeaseManagerProofs -------------------------
(***************************************************************************)
(* Proofs about LeaseManager, and about it with the complete history of    *)
(* its reclamations, for every value of its constants.                     *)
(***************************************************************************)
EXTENDS ChurnHistory, CollectionsProofs, FiniteSetTheorems

(* Zenon proves most leaves; the others name the SMT solver.               *)
USE ZenonT(20)

-----------------------------------------------------------------------------
(* Pruning the reclamation history yields a reclamation history.           *)

(* prune returns a list of instants, whatever the cutoff.                  *)
LEMMA PruneType ==
  ASSUME NEW h \in Seq(Nat), NEW t
  PROVE  Prune(h, t) \in Seq(Nat)
BY SMTT(20), KeptFacts DEF Prune

-----------------------------------------------------------------------------
(* Books of leases.                                                        *)

(* A lease of a class and a size that CanLend admits.                      *)
GoodLease(l) == l \in Lease /\ l.size \in Nat /\ Valid(l.class)

(* A book the accounting can be reconciled with.                           *)
GoodBook(ls) ==
  /\ IsBook(ls)
  /\ IsFiniteSet(DOMAIN ls)
  /\ \A id \in DOMAIN ls : ls[id].size \in Nat /\ Valid(ls[id].class)

(* The empty table Restore starts from is a good book of no bytes.         *)
LEMMA NoLeasesGood ==
  GoodBook(NoLeases) /\ DOMAIN NoLeases = {} /\ Total(NoLeases, {}) = 0
<1>1. DOMAIN NoLeases = {} /\ NoLeases \in [{} -> Lease]
  BY DEF NoLeases
<1>2. IsFiniteSet({})
  BY FS_EmptySet
<1>3. Total(NoLeases, {}) = 0
  BY SumEmpty DEF Total
<1>. QED BY <1>1, <1>2, <1>3 DEF GoodBook, IsBook

(* Byte totals of a good book: natural, monotone, and split by subsets.    *)
LEMMA TotalFacts ==
  ASSUME NEW ls, GoodBook(ls), NEW S \in SUBSET (DOMAIN ls), NEW D \in SUBSET S
  PROVE  /\ IsFiniteSet(S)
         /\ Total(ls, S) \in Nat /\ Total(ls, D) \in Nat /\ Total(ls, S \ D) \in Nat
         /\ Total(ls, S) = Total(ls, D) + Total(ls, S \ D)
         /\ Total(ls, D) <= Total(ls, S)
<1>1. IsFiniteSet(S) /\ IsFiniteSet(D) /\ IsFiniteSet(S \ D)
  BY FS_Subset DEF GoodBook
<1>2. \A x \in DOMAIN ls : SizeOf(ls)[x] = ls[x].size /\ SizeOf(ls)[x] \in Nat
  BY DEF SizeOf, GoodBook
<1>3. /\ SumOver(SizeOf(ls), S) \in Nat
      /\ SumOver(SizeOf(ls), D) \in Nat
      /\ SumOver(SizeOf(ls), S \ D) \in Nat
  BY <1>1, <1>2, SumNonNegative
<1>4. \A x \in S : SizeOf(ls)[x] \in Nat /\ SizeOf(ls)[x] \in Int
  BY SMTT(20), <1>2
<1>5. SumOver(SizeOf(ls), S) = SumOver(SizeOf(ls), D) + SumOver(SizeOf(ls), S \ D)
  BY SMTT(20), <1>1, <1>4, SumSplit
<1>. QED BY SMTT(20), <1>1, <1>3, <1>5 DEF Total

(* Keeping part of a book changes neither its leases nor their total.      *)
LEMMA KeepFacts ==
  ASSUME NEW ls, GoodBook(ls), NEW D \in SUBSET (DOMAIN ls)
  PROVE  /\ GoodBook(Keep(ls, D))
         /\ DOMAIN Keep(ls, D) = D
         /\ \A id \in D : Keep(ls, D)[id] = ls[id]
         /\ \A S \in SUBSET D : Total(Keep(ls, D), S) = Total(ls, S)
<1>1. DOMAIN Keep(ls, D) = D /\ \A id \in D : Keep(ls, D)[id] = ls[id]
  BY DEF Keep
<1>2. IsBook(Keep(ls, D))
  BY DEF Keep, IsBook, GoodBook
<1>3. IsFiniteSet(D)
  BY FS_Subset DEF GoodBook
<1>4. GoodBook(Keep(ls, D))
  BY <1>1, <1>2, <1>3 DEF GoodBook
<1>5. ASSUME NEW S \in SUBSET D
      PROVE  Total(Keep(ls, D), S) = Total(ls, S)
  <2>1. IsFiniteSet(S)
    BY <1>3, FS_Subset
  <2>2. \A x \in S : SizeOf(Keep(ls, D))[x] = SizeOf(ls)[x]
    BY <1>1 DEF SizeOf
  <2>. QED BY <2>1, <2>2, SumSame DEF Total
<1>. QED BY <1>1, <1>4, <1>5

(* A book with one more lease.                                             *)
Extended(ls, id, l) ==
  [x \in DOMAIN ls \cup {id} |-> IF x = id THEN l ELSE ls[x]]

(* A new lease adds its bytes to the totals that count it, only there.     *)
LEMMA ExtendFacts ==
  ASSUME NEW ls, GoodBook(ls), NEW id \in Ids, id \notin DOMAIN ls,
         NEW l, GoodLease(l)
  PROVE  LET es == Extended(ls, id, l)
         IN  /\ GoodBook(es)
             /\ DOMAIN es = DOMAIN ls \cup {id}
             /\ es[id] = l /\ \A x \in DOMAIN ls : es[x] = ls[x]
             /\ \A S \in SUBSET (DOMAIN ls) :
                  /\ Total(es, S) = Total(ls, S)
                  /\ Total(es, S \cup {id}) = Total(ls, S) + l.size
<1>. DEFINE es == Extended(ls, id, l)
<1>1. DOMAIN es = DOMAIN ls \cup {id} /\ es[id] = l /\ \A x \in DOMAIN ls : es[x] = ls[x]
  BY DEF Extended
<1>2. IsFiniteSet(DOMAIN es)
  BY <1>1, FS_AddElement DEF GoodBook
<1>3. IsBook(es)
  BY DEF Extended, IsBook, GoodBook, GoodLease
<1>4. GoodBook(es)
  BY <1>1, <1>2, <1>3 DEF GoodBook, GoodLease
<1>5. ASSUME NEW S \in SUBSET (DOMAIN ls)
      PROVE  /\ Total(es, S) = Total(ls, S)
             /\ Total(es, S \cup {id}) = Total(ls, S) + l.size
  <2>1. IsFiniteSet(S) /\ IsFiniteSet(S \cup {id})
    BY FS_Subset, FS_AddElement DEF GoodBook
  <2>2. \A x \in DOMAIN ls \cup {id} : SizeOf(es)[x] = es[x].size /\ SizeOf(es)[x] \in Int
    BY SMTT(20), <1>1, <1>4 DEF SizeOf, GoodBook
  <2>3. \A x \in S : SizeOf(es)[x] = SizeOf(ls)[x]
    BY <1>1, <2>2 DEF SizeOf
  <2>4. SumOver(SizeOf(es), S) = SumOver(SizeOf(ls), S)
    BY SMTT(20), <2>1, <2>3, SumSame
  <2>5. SumOver(SizeOf(es), S \cup {id})
          = SizeOf(es)[id] + SumOver(SizeOf(es), (S \cup {id}) \ {id})
    <3>1. \A x \in S \cup {id} : SizeOf(es)[x] \in Int
      BY <2>2
    <3>. HIDE DEF es
    <3>. QED BY SMTT(20), <2>1, <3>1, SumRemove
  <2>6. (S \cup {id}) \ {id} = S /\ SizeOf(es)[id] = l.size
    BY <1>1, <2>2
  <2>7. Total(ls, S) \in Nat
    BY TotalFacts
  <2>8. Total(es, S \cup {id}) = l.size + Total(ls, S)
    BY <2>4, <2>5, <2>6 DEF Total
  <2>9. Total(es, S) = Total(ls, S)
    BY <2>4 DEF Total
  <2>. HIDE DEF es
  <2>. QED BY SMTT(20), <2>7, <2>8, <2>9 DEF GoodLease
<1>. HIDE DEF es
<1>6. QED BY <1>1, <1>4, <1>5 DEF es

-----------------------------------------------------------------------------
(* Books within the bounds Accept enforces.                                *)

GuaranteeCapIn(ls) == Total(ls, OfClass(ls, Guaranteed)) <= GuaranteedLimit

Sound(ls) == GoodBook(ls) /\ GuaranteeCapIn(ls) /\ QuotaHeldIn(ls)

(* Accept's cap on guarantees is a natural number of bytes.                *)
LEMMA LimitNatural == GuaranteedLimit \in Nat
<1>1. Capacity * GuaranteedPercent \in Nat
  BY SMTT(20), ConstantsAssumption
<1>2. \A n \in Nat : n \div 100 \in Nat
  BY SMTT(20)
<1>. QED BY <1>1, <1>2 DEF GuaranteedLimit

(* Whatever a start measures or is told, what it reserves fits the device. *)
LEMMA ReservedFits == \A r \in ReservedChoices : r \in 0..Capacity
<1>1. SUFFICES ASSUME NEW o \in OthersHold
               PROVE  Larger(DeclaredReserve, Capacity - Deliverable(o)) \in 0..Capacity
  BY ConstantsAssumption DEF ReservedChoices
<1>2. o \in 0..Capacity /\ DeclaredReserve \in 0..Capacity /\ Capacity \in Nat
  BY ConstantsAssumption
<1>. QED BY SMTT(20), <1>2 DEF Larger, Deliverable

(* A part of a sound book is sound: dropping leases breaks no bound.       *)
LEMMA KeepSound ==
  ASSUME NEW ls, Sound(ls), NEW D \in SUBSET (DOMAIN ls)
  PROVE  Sound(Keep(ls, D))
<1>. DEFINE ks == Keep(ls, D)
<1>1. GoodBook(ls)
  BY DEF Sound
<1>2. /\ GoodBook(ks) /\ DOMAIN ks = D
      /\ \A id \in D : ks[id] = ls[id]
      /\ \A S \in SUBSET D : Total(ks, S) = Total(ls, S)
  BY <1>1, KeepFacts
<1>. HIDE DEF ks
<1>3. ASSUME NEW X \in SUBSET (DOMAIN ls), NEW Y \in SUBSET D, Y \subseteq X
      PROVE  /\ Total(ks, Y) \in Nat /\ Total(ls, X) \in Nat
             /\ Total(ks, Y) <= Total(ls, X)
  <2>1. Y \in SUBSET X /\ Total(ks, Y) = Total(ls, Y)
    BY <1>2, <1>3
  <2>2. Total(ls, X) \in Nat /\ Total(ls, Y) \in Nat /\ Total(ls, Y) <= Total(ls, X)
    BY <1>1, <2>1, TotalFacts
  <2>. QED BY <2>1, <2>2
<1>4. GuaranteeCapIn(ks)
  <2>1. /\ OfClass(ls, Guaranteed) \in SUBSET (DOMAIN ls)
        /\ OfClass(ks, Guaranteed) \in SUBSET D
        /\ OfClass(ks, Guaranteed) \subseteq OfClass(ls, Guaranteed)
    BY <1>2 DEF OfClass
  <2>. QED BY SMTT(20), <1>3, <2>1, LimitNatural DEF Sound, GuaranteeCapIn
<1>5. QuotaHeldIn(ks)
  <2>. SUFFICES ASSUME Bounded, NEW tenant \in Tenants \ {NodeTenant}
                PROVE  LET held == OfTenant(ks, tenant)
                       IN  /\ tenant = NoTenant => held = {}
                           /\ QuotaBorrowed > 0 => Total(ks, held) <= QuotaBorrowed
                           /\ QuotaGuaranteed > 0 =>
                                Total(ks, held \cap OfClass(ks, Guaranteed))
                                  <= QuotaGuaranteed
    BY DEF QuotaHeldIn
  <2>. DEFINE old == OfTenant(ls, tenant)
              new == OfTenant(ks, tenant)
              oldG == old \cap OfClass(ls, Guaranteed)
              newG == new \cap OfClass(ks, Guaranteed)
  <2>1. /\ tenant = NoTenant => old = {}
        /\ QuotaBorrowed > 0 => Total(ls, old) <= QuotaBorrowed
        /\ QuotaGuaranteed > 0 => Total(ls, oldG) <= QuotaGuaranteed
    BY DEF Sound, QuotaHeldIn
  <2>2. /\ old \in SUBSET (DOMAIN ls) /\ new \in SUBSET D /\ new \subseteq old
        /\ oldG \in SUBSET (DOMAIN ls) /\ newG \in SUBSET D /\ newG \subseteq oldG
    BY <1>2 DEF OfTenant, OfClass
  <2>. HIDE DEF old, new, oldG, newG
  <2>3. /\ Total(ks, new) \in Nat /\ Total(ls, old) \in Nat
        /\ Total(ks, new) <= Total(ls, old)
        /\ Total(ks, newG) \in Nat /\ Total(ls, oldG) \in Nat
        /\ Total(ks, newG) <= Total(ls, oldG)
    BY <1>3, <2>2
  <2>4. tenant = NoTenant => new = {}
    BY <2>1, <2>2
  <2>5. QuotaBorrowed > 0 => Total(ks, new) <= QuotaBorrowed
    BY SMTT(20), <2>1, <2>3, ConstantsAssumption
  <2>6. QuotaGuaranteed > 0 => Total(ks, newG) <= QuotaGuaranteed
    BY SMTT(20), <2>1, <2>3, ConstantsAssumption
  <2>. QED BY <2>4, <2>5, <2>6 DEF new, newG
<1>. QED BY <1>2, <1>4, <1>5 DEF Sound, ks

(* The empty table is within every bound.                                  *)
LEMMA NoLeasesSound == Sound(NoLeases)
<1>1. \A S : S \subseteq DOMAIN NoLeases => S = {}
  BY NoLeasesGood
<1>2. OfClass(NoLeases, Guaranteed) = {}
  BY <1>1 DEF OfClass
<1>3. \A tenant : OfTenant(NoLeases, tenant) = {}
  BY <1>1 DEF OfTenant
<1>4. GuaranteeCapIn(NoLeases)
  BY SMTT(20), <1>2, NoLeasesGood, LimitNatural DEF GuaranteeCapIn
<1>5. ASSUME NEW tenant
      PROVE  /\ Total(NoLeases, OfTenant(NoLeases, tenant)) = 0
             /\ Total(NoLeases, OfTenant(NoLeases, tenant)
                                  \cap OfClass(NoLeases, Guaranteed)) = 0
  <2>1. OfTenant(NoLeases, tenant) \cap OfClass(NoLeases, Guaranteed) = {}
    BY <1>3
  <2>. QED BY <1>3, <2>1, NoLeasesGood
<1>6. 0 <= QuotaBorrowed /\ 0 <= QuotaGuaranteed
  BY SMTT(20), ConstantsAssumption
<1>7. QuotaHeldIn(NoLeases)
  BY <1>3, <1>5, <1>6 DEF QuotaHeldIn
<1>. QED BY <1>4, <1>7, NoLeasesGood DEF Sound

-----------------------------------------------------------------------------
(* The inductive invariant.                                                *)

(***************************************************************************)
(* BooksBalance alone is not inductive: a replay fills the table from the  *)
(* journal, and a save that reported failure leaves there leases that are  *)
(* not held.  So the journal's book must be as sound as the one in memory. *)
(***************************************************************************)
Recorded(j) ==
  /\ j = [readable |-> j.readable, leases |-> j.leases]
  /\ j.readable \in BOOLEAN
  /\ Sound(j.leases)

IInv ==
  /\ TypeOK
  /\ Sound(leases)
  /\ Recorded(journal)
  /\ BooksBalance
  /\ JournalCovers

(* What IInv says of the next state, from the parts an action decides.     *)
LEMMA Reassemble ==
  ASSUME now' \in 0..MaxClock, reserved' \in 0..Capacity,
         reclaims' \in Seq(Nat), restored' \in BOOLEAN,
         Sound(leases'), Recorded(journal'),
         borrowed' = Total(leases', DOMAIN leases'),
         reserved' + borrowed' <= Capacity,
         JournalCovers'
  PROVE  IInv'
<1>1. GoodBook(leases')
  BY DEF Sound
<1>2. borrowed' \in Nat
  BY <1>1, TotalFacts
<1>3. IsBook(leases') /\ IsBook(journal'.leases)
  BY DEF Sound, GoodBook, Recorded
<1>4. TypeOK'
  BY <1>2, <1>3 DEF TypeOK, Recorded
<1>5. BooksBalance'
  BY DEF BooksBalance
<1>. QED BY <1>4, <1>5 DEF IInv

(* A timestamp a caller took is a natural number.                          *)
LEMMA StampsNatural == IInv => Stamps \subseteq Nat
  BY SMTT(20), ConstantsAssumption DEF Stamps, IInv, TypeOK

(* After a save the file is as sound as before, and holds either what it   *)
(* held or exactly the book that was saved.                                *)
LEMMA SaveFacts ==
  ASSUME Recorded(journal), NEW ls, Sound(ls), NEW s, Save(ls, s)
  PROVE  /\ Recorded(journal')
         /\ journal' = journal \/ journal'.leases = ls
<1>1. CASE journal' = journal
  BY <1>1
<1>2. CASE journal' = [readable |-> TRUE, leases |-> ls]
  BY <1>2 DEF Recorded
<1>. QED BY <1>1, <1>2 DEF Save

(* Dropping leases and giving their bytes back keeps table, accounting and *)
(* bounds in step.                                                         *)
LEMMA ForgetFacts ==
  ASSUME IInv, NEW D \in SUBSET (DOMAIN leases), Forget(D)
  PROVE  /\ Sound(leases')
         /\ borrowed' = Total(leases', DOMAIN leases')
         /\ reserved + borrowed' <= Capacity
         /\ \A id \in DOMAIN leases' : id \in DOMAIN leases /\ leases'[id] = leases[id]
<1>. DEFINE rest == DOMAIN leases \ D
<1>1. GoodBook(leases) /\ rest \in SUBSET (DOMAIN leases)
  BY DEF IInv, Sound
<1>2. leases' = Keep(leases, rest)
  BY DEF Forget
<1>3. /\ DOMAIN leases' = rest
      /\ \A id \in rest : leases'[id] = leases[id]
      /\ Total(leases', rest) = Total(leases, rest)
  BY <1>1, <1>2, KeepFacts
<1>4. Sound(leases')
  BY <1>1, <1>2, KeepSound DEF IInv
<1>5. /\ Total(leases, DOMAIN leases) = Total(leases, D) + Total(leases, rest)
      /\ Total(leases, D) \in Nat /\ Total(leases, rest) \in Nat
      /\ Total(leases, DOMAIN leases) \in Nat
  <2>. DEFINE all == DOMAIN leases
  <2>1. all \in SUBSET (DOMAIN leases) /\ D \in SUBSET all /\ rest = all \ D
    OBVIOUS
  <2>. HIDE DEF all, rest
  <2>2. /\ Total(leases, all) = Total(leases, D) + Total(leases, all \ D)
        /\ Total(leases, D) \in Nat /\ Total(leases, all \ D) \in Nat
        /\ Total(leases, all) \in Nat
    BY SMTT(20), <1>1, <2>1, TotalFacts
  <2>. QED BY <2>1, <2>2 DEF all
<1>. HIDE DEF rest
<1>6. borrowed' = Total(leases, rest)
  BY SMTT(20), <1>5 DEF Forget, IInv, BooksBalance
<1>7. reserved + borrowed' <= Capacity
  <2>1. reserved \in Int /\ Capacity \in Int
    BY SMTT(20), ConstantsAssumption DEF IInv, TypeOK
  <2>2. reserved + Total(leases, DOMAIN leases) <= Capacity
    BY DEF IInv, BooksBalance
  <2>. QED BY SMTT(20), <1>5, <1>6, <2>1, <2>2
<1>8. \A id \in rest : id \in DOMAIN leases
  BY DEF rest
<1>. QED BY <1>3, <1>4, <1>6, <1>7, <1>8

(* A drop whose outcome is saved, or not saved, keeps the invariant.       *)
LEMMA DropPreserves ==
  ASSUME IInv, NEW D \in SUBSET (DOMAIN leases), Forget(D),
         \/ UNCHANGED journal
         \/ \E s \in Saves : Save(Keep(leases, DOMAIN leases \ D), s),
         reclaims' \in Seq(Nat), UNCHANGED <<now, reserved, restored>>
  PROVE  IInv'
<1>1. /\ Sound(leases')
      /\ borrowed' = Total(leases', DOMAIN leases')
      /\ reserved + borrowed' <= Capacity
      /\ \A id \in DOMAIN leases' : id \in DOMAIN leases /\ leases'[id] = leases[id]
  BY ForgetFacts
<1>2. leases' = Keep(leases, DOMAIN leases \ D)
  BY DEF Forget
<1>3. Recorded(journal') /\ (journal' = journal \/ journal'.leases = leases')
  <2>1. CASE UNCHANGED journal
    BY <2>1 DEF IInv
  <2>2. ASSUME NEW s \in Saves, Save(leases', s)
        PROVE  Recorded(journal') /\ (journal' = journal \/ journal'.leases = leases')
    BY <1>1, <2>2, SaveFacts DEF IInv
  <2>. QED BY <1>2, <2>1, <2>2
<1>4. JournalCovers'
  BY <1>1, <1>3 DEF JournalCovers, IInv
<1>. QED BY <1>1, <1>3, <1>4, Reassemble DEF IInv, TypeOK

(***************************************************************************)
(* The book with a grant that passed every check of Accept: sound, its     *)
(* bytes the ones lent before plus the ones granted, and they fit.         *)
(***************************************************************************)
LEMMA GrantFacts ==
  ASSUME IInv, NEW r \in Requests, NEW t \in Stamps, Acceptable(r, t)
  PROVE  /\ Sound(WithLease(r, t))
         /\ r.size \in Nat
         /\ borrowed + r.size = Total(WithLease(r, t), DOMAIN WithLease(r, t))
         /\ reserved + (borrowed + r.size) <= Capacity
         /\ \A id \in DOMAIN leases :
              id \in DOMAIN WithLease(r, t) /\ WithLease(r, t)[id] = leases[id]
<1>. DEFINE l == Granted(r, t)
            es == WithLease(r, t)
<1>1. /\ r.id \in Ids /\ r.tenant \in Tenants /\ r.class \in Int
      /\ r.size \in Int /\ r.term \in Int
  BY ConstantsAssumption DEF Ids, Request
<1>2. l \in Lease /\ l.size = r.size /\ l.class = r.class /\ l.tenant = r.tenant
  BY SMTT(20), <1>1, StampsNatural DEF Granted, Lease
<1>3. r.size \in Nat /\ r.size <= Capacity - reserved - borrowed
  <2>1. r.size >= 0 /\ Capacity - reserved - borrowed >= r.size
    BY DEF Acceptable, CanLend, Free
  <2>2. Capacity \in Int /\ reserved \in Int /\ borrowed \in Int
    BY SMTT(20), ConstantsAssumption DEF IInv, TypeOK
  <2>. QED BY SMTT(20), <1>1, <2>1, <2>2
<1>4. r.id \notin DOMAIN leases /\ WithinQuota(r) /\ WithinGuaranteedCap(r) /\ Valid(l.class)
  BY <1>2 DEF Acceptable, Duplicate
<1>5. GoodBook(leases) /\ GuaranteeCapIn(leases) /\ QuotaHeldIn(leases)
  BY DEF IInv, Sound
<1>6. es = Extended(leases, r.id, l)
  BY DEF WithLease, Extended
<1>7. /\ GoodBook(es)
      /\ DOMAIN es = DOMAIN leases \cup {r.id}
      /\ es[r.id] = l /\ \A x \in DOMAIN leases : es[x] = leases[x]
      /\ \A S \in SUBSET (DOMAIN leases) :
           /\ Total(es, S) = Total(leases, S)
           /\ Total(es, S \cup {r.id}) = Total(leases, S) + r.size
  <2>1. l.size = r.size /\ GoodLease(l)
    BY <1>2, <1>3, <1>4 DEF GoodLease
  <2>. HIDE DEF l, es
  <2>2. r.id \in Ids /\ r.id \notin DOMAIN leases /\ GoodBook(leases) /\ GoodLease(l)
    BY <1>1, <1>4, <1>5, <2>1
  <2>3. /\ GoodBook(es)
        /\ DOMAIN es = DOMAIN leases \cup {r.id}
        /\ es[r.id] = l /\ \A x \in DOMAIN leases : es[x] = leases[x]
        /\ \A S \in SUBSET (DOMAIN leases) :
             /\ Total(es, S) = Total(leases, S)
             /\ Total(es, S \cup {r.id}) = Total(leases, S) + l.size
    BY SMTT(20), <1>6, <2>2, ExtendFacts
  <2>. QED BY <2>1, <2>3
<1>. HIDE DEF l, es
<1>8. GuaranteeCapIn(es)
  <2>. DEFINE old == OfClass(leases, Guaranteed)
  <2>1. old \in SUBSET (DOMAIN leases)
    BY DEF OfClass
  <2>2. CASE r.class = Guaranteed
    <3>1. OfClass(es, Guaranteed) = old \cup {r.id}
      BY <1>2, <1>7, <2>2 DEF OfClass
    <3>2. Total(leases, old) + r.size <= GuaranteedLimit
      BY <1>4, <2>2 DEF WithinGuaranteedCap, GuaranteedTotal
    <3>. QED BY <1>7, <2>1, <3>1, <3>2 DEF GuaranteeCapIn
  <2>3. CASE r.class # Guaranteed
    <3>1. OfClass(es, Guaranteed) = old
      BY <1>2, <1>4, <1>7, <2>3 DEF OfClass
    <3>. QED BY <1>5, <1>7, <2>1, <3>1 DEF GuaranteeCapIn
  <2>. QED BY <2>2, <2>3
<1>9. QuotaHeldIn(es)
  <2>. SUFFICES ASSUME Bounded, NEW tenant \in Tenants \ {NodeTenant}
                PROVE  LET held == OfTenant(es, tenant)
                       IN  /\ tenant = NoTenant => held = {}
                           /\ QuotaBorrowed > 0 => Total(es, held) <= QuotaBorrowed
                           /\ QuotaGuaranteed > 0 =>
                                Total(es, held \cap OfClass(es, Guaranteed))
                                  <= QuotaGuaranteed
    BY DEF QuotaHeldIn
  <2>. DEFINE old == OfTenant(leases, tenant)
              oldG == old \cap OfClass(leases, Guaranteed)
  <2>1. /\ tenant = NoTenant => old = {}
        /\ QuotaBorrowed > 0 => Total(leases, old) <= QuotaBorrowed
        /\ QuotaGuaranteed > 0 => Total(leases, oldG) <= QuotaGuaranteed
    BY <1>5 DEF QuotaHeldIn
  <2>2. old \in SUBSET (DOMAIN leases) /\ oldG \in SUBSET (DOMAIN leases)
    BY DEF OfTenant
  <2>3. CASE tenant # r.tenant
    <3>1. OfTenant(es, tenant) = old
      BY <1>2, <1>4, <1>7, <2>3 DEF OfTenant
    <3>2. OfTenant(es, tenant) \cap OfClass(es, Guaranteed) = oldG
      BY <1>2, <1>4, <1>7, <2>3 DEF OfTenant, OfClass
    <3>. QED BY <1>7, <2>1, <2>2, <3>1, <3>2
  <2>4. CASE tenant = r.tenant
    <3>1. /\ tenant # NoTenant
          /\ QuotaBorrowed > 0 => Total(leases, old) + r.size <= QuotaBorrowed
          /\ r.class = Guaranteed /\ QuotaGuaranteed > 0 =>
               Total(leases, oldG) + r.size <= QuotaGuaranteed
      BY <1>4, <2>4 DEF WithinQuota
    <3>2. OfTenant(es, tenant) = old \cup {r.id}
      BY <1>2, <1>7, <2>4 DEF OfTenant
    <3>3. QuotaBorrowed > 0 => Total(es, OfTenant(es, tenant)) <= QuotaBorrowed
      BY <1>7, <2>2, <3>1, <3>2
    <3>4. CASE r.class = Guaranteed
      <4>1. OfTenant(es, tenant) \cap OfClass(es, Guaranteed) = oldG \cup {r.id}
        BY <1>2, <1>7, <2>4, <3>4 DEF OfTenant, OfClass
      <4>. QED BY <1>7, <2>2, <3>1, <3>3, <3>4, <4>1
    <3>5. CASE r.class # Guaranteed
      <4>1. OfTenant(es, tenant) \cap OfClass(es, Guaranteed) = oldG
        BY <1>2, <1>4, <1>7, <2>4, <3>5 DEF OfTenant, OfClass
      <4>. QED BY <1>7, <2>1, <2>2, <3>1, <3>3, <4>1
    <3>. QED BY <3>4, <3>5
  <2>. QED BY <2>3, <2>4
<1>10. borrowed + r.size = Total(es, DOMAIN es)
  <2>1. borrowed = Total(leases, DOMAIN leases)
    BY DEF IInv, BooksBalance
  <2>. QED BY <1>7, <2>1
<1>11. reserved + (borrowed + r.size) <= Capacity
  <2>1. Capacity \in Int /\ reserved \in Int /\ borrowed \in Int
    BY SMTT(20), ConstantsAssumption DEF IInv, TypeOK
  <2>. QED BY SMTT(20), <1>3, <2>1
<1>. QED BY <1>3, <1>7, <1>8, <1>9, <1>10, <1>11 DEF Sound, es

-----------------------------------------------------------------------------
(* The invariant holds initially and every action preserves it.            *)

(* A manager before its first Restore.                                     *)
LEMMA InitHolds == Init => IInv
<1>. SUFFICES ASSUME Init PROVE IInv
  OBVIOUS
<1>1. Sound(leases) /\ Sound(journal.leases)
  BY NoLeasesSound DEF Init
<1>2. Recorded(journal)
  BY <1>1 DEF Init, Recorded
<1>3. BooksBalance
  <2>1. borrowed = Total(leases, DOMAIN leases)
    BY NoLeasesGood DEF Init
  <2>2. reserved + borrowed <= Capacity
    BY SMTT(20), ReservedFits, ConstantsAssumption DEF Init
  <2>. QED BY <2>1, <2>2 DEF BooksBalance
<1>4. JournalCovers
  BY NoLeasesGood DEF Init, JournalCovers
<1>5. TypeOK
  <2>1. IsBook(leases) /\ IsBook(journal.leases)
    BY <1>1 DEF Sound, GoodBook
  <2>2. now \in 0..MaxClock /\ reserved \in 0..Capacity /\ borrowed \in Nat
    BY SMTT(20), ReservedFits, ConstantsAssumption DEF Init
  <2>3. <<>> \in Seq(Nat)
    BY SMTT(20)
  <2>4. reclaims \in Seq(Nat)
    BY <2>3 DEF Init
  <2>5. restored \in BOOLEAN
    BY DEF Init
  <2>. QED BY <1>2, <2>1, <2>2, <2>4, <2>5 DEF TypeOK, Recorded
<1>. QED BY <1>1, <1>2, <1>3, <1>4, <1>5 DEF IInv

(* A call that only prunes: a refusal, or Churning asked by name.          *)
LEMMA PrunePreserves ==
  ASSUME IInv, NEW t, reclaims' = Prune(reclaims, t),
         UNCHANGED <<now, reserved, borrowed, leases, restored, journal>>
  PROVE  IInv'
<1>1. reclaims' \in Seq(Nat)
  BY PruneType DEF IInv, TypeOK
<1>2. Recorded(journal') /\ Sound(leases') /\ JournalCovers'
  BY DEF IInv, JournalCovers
<1>. QED BY <1>1, <1>2, Reassemble DEF IInv, TypeOK, BooksBalance

(* Accept, whether it grants, cannot journal the grant, or refuses.        *)
LEMMA AcceptPreserves ==
  ASSUME IInv, NEW r \in Requests, NEW t \in Stamps,
         \/ AcceptGranted(r, t)
         \/ \E s \in Saves : AcceptUnsaved(r, t, s)
         \/ AcceptRefused(r, t)
  PROVE  IInv'
<1>1. Prune(reclaims, t) \in Seq(Nat)
  BY PruneType DEF IInv, TypeOK
<1>2. Recorded(journal) /\ Sound(leases) /\ JournalCovers
  BY DEF IInv
<1>3. CASE AcceptGranted(r, t)
  <2>. DEFINE es == WithLease(r, t)
  <2>1. Acceptable(r, t) /\ leases' = es /\ Save(es, "saved")
    BY <1>3 DEF AcceptGranted
  <2>2. /\ Sound(leases')
        /\ borrowed' = Total(leases', DOMAIN leases')
        /\ reserved + borrowed' <= Capacity
    <3>1. borrowed' = borrowed + r.size
      BY <1>3 DEF AcceptGranted
    <3>. QED BY <2>1, <3>1, GrantFacts
  <2>3. journal' = [readable |-> TRUE, leases |-> es]
    BY <2>1 DEF Save
  <2>4. Recorded(journal') /\ JournalCovers'
    BY <2>1, <2>2, <2>3 DEF Recorded, JournalCovers
  <2>. QED BY <1>1, <1>3, <2>2, <2>4, Reassemble DEF AcceptGranted, IInv, TypeOK
<1>4. ASSUME NEW s \in Saves, AcceptUnsaved(r, t, s) PROVE IInv'
  <2>. DEFINE es == WithLease(r, t)
  <2>1. Acceptable(r, t) /\ Save(es, s) /\ UNCHANGED leases
    BY <1>4 DEF AcceptUnsaved
  <2>2. Sound(es) /\ \A id \in DOMAIN leases : id \in DOMAIN es /\ es[id] = leases[id]
    BY <2>1, GrantFacts
  <2>. HIDE DEF es
  <2>3. Recorded(journal') /\ (journal' = journal \/ journal'.leases = es)
    BY <1>2, <2>1, <2>2, SaveFacts
  <2>4. JournalCovers'
    BY <1>2, <2>1, <2>2, <2>3 DEF JournalCovers
  <2>5. Sound(leases')
    BY <1>2, <2>1
  <2>. QED BY <1>1, <1>4, <2>3, <2>4, <2>5, Reassemble
           DEF AcceptUnsaved, IInv, TypeOK, BooksBalance
<1>5. CASE AcceptRefused(r, t)
  BY <1>5, PrunePreserves DEF AcceptRefused
<1>. QED BY <1>3, <1>4, <1>5

(* Release of one lease by identifier.                                     *)
LEMMA ReleasePreserves ==
  ASSUME IInv, NEW id, NEW s \in Saves, Release(id, s)
  PROVE  IInv'
<1>1. {id} \in SUBSET (DOMAIN leases) /\ Forget({id})
  BY DEF Release
<1>2. Save(Keep(leases, DOMAIN leases \ {id}), s)
  BY DEF Release
<1>3. reclaims' \in Seq(Nat) /\ UNCHANGED <<now, reserved, restored>>
  BY DEF Release, IInv, TypeOK
<1>. QED BY <1>1, <1>2, <1>3, DropPreserves

(* Reclaim and Expire drop only leases that are held.                      *)
LEMMA DroppedSubset ==
  ASSUME NEW need, NEW t
  PROVE  /\ ExpiredDropped(t) \in SUBSET (DOMAIN leases)
         /\ Dropped(need, t) \in SUBSET (DOMAIN leases)
<1>1. ExpiredDropped(t) \in SUBSET (DOMAIN leases)
  BY DEF ExpiredDropped, Returnable, ExpiredAt
<1>2. LadderDropped(need, t) \in SUBSET (DOMAIN leases)
  BY DEF LadderDropped, Ladder
<1>. QED BY <1>1, <1>2 DEF Dropped

(* Reclaim, with its expiry, ladder, pruning and save.                     *)
LEMMA ReclaimPreserves ==
  ASSUME IInv, NEW need, NEW t \in Stamps, NEW s \in Saves,
         Reclaim(need, t, s)
  PROVE  IInv'
<1>. DEFINE D == Dropped(need, t)
<1>1. D \in SUBSET (DOMAIN leases) /\ Forget(D)
  BY DroppedSubset DEF Reclaim
<1>2. UNCHANGED journal \/ Save(Keep(leases, DOMAIN leases \ D), s)
  BY DEF Reclaim
<1>3. reclaims' \in Seq(Nat)
  <2>1. reclaims \in Seq(Nat) /\ Append(reclaims, t) \in Seq(Nat)
    BY SMTT(20), StampsNatural DEF IInv, TypeOK
  <2>2. Prune(Append(reclaims, t), t) \in Seq(Nat)
    BY <2>1, PruneType
  <2>. QED BY <2>1, <2>2 DEF Reclaim
<1>4. UNCHANGED <<now, reserved, restored>>
  BY DEF Reclaim
<1>. HIDE DEF D
<1>. QED BY <1>1, <1>2, <1>3, <1>4, DropPreserves

(* Expire, which drops what has run out and saves.                         *)
LEMMA ExpirePreserves ==
  ASSUME IInv, NEW t \in Stamps, NEW s \in Saves, Expire(t, s)
  PROVE  IInv'
<1>. DEFINE D == ExpiredDropped(t)
<1>1. D \in SUBSET (DOMAIN leases) /\ Forget(D)
  BY DroppedSubset DEF Expire
<1>2. Save(Keep(leases, DOMAIN leases \ D), s)
  BY DEF Expire
<1>3. reclaims' \in Seq(Nat) /\ UNCHANGED <<now, reserved, restored>>
  BY DEF Expire, IInv, TypeOK
<1>. HIDE DEF D
<1>. QED BY <1>1, <1>2, <1>3, DropPreserves

(* The end of the process and the next one, on any device share.           *)
LEMMA CrashPreserves ==
  ASSUME IInv, Crash
  PROVE  IInv'
<1>1. /\ leases' = NoLeases /\ borrowed' = 0 /\ reclaims' = <<>> /\ restored' = FALSE
      /\ reserved' \in ReservedChoices /\ UNCHANGED <<now, journal>>
  BY DEF Crash
<1>2. Sound(leases') /\ borrowed' = Total(leases', DOMAIN leases')
  BY <1>1, NoLeasesSound, NoLeasesGood
<1>3. reserved' \in 0..Capacity /\ reserved' + borrowed' <= Capacity
  <2>1. reserved' \in 0..Capacity /\ Capacity \in Nat
    BY <1>1, ReservedFits, ConstantsAssumption
  <2>2. \A n \in 0..Capacity : n + 0 <= Capacity
    BY SMTT(20), <2>1
  <2>3. reserved' + 0 <= Capacity
    BY <2>1, <2>2
  <2>. QED BY <1>1, <2>1, <2>3
<1>4. Recorded(journal')
  BY <1>1 DEF IInv
<1>5. JournalCovers'
  BY <1>1, NoLeasesGood DEF JournalCovers
<1>6. <<>> \in Seq(Nat)
  BY SMTT(20)
<1>7. now' \in 0..MaxClock
  BY <1>1 DEF IInv, TypeOK
<1>8. reclaims' \in Seq(Nat) /\ restored' \in BOOLEAN
  BY <1>1, <1>6
<1>. QED BY <1>2, <1>3, <1>4, <1>5, <1>7, <1>8, Reassemble

(* Damage to the journal file.                                             *)
LEMMA CorruptPreserves ==
  ASSUME IInv, CorruptJournal
  PROVE  IInv'
<1>1. UNCHANGED <<now, reserved, borrowed, leases, reclaims, restored>>
  BY DEF CorruptJournal
<1>2. journal' = [readable |-> FALSE, leases |-> journal.leases]
  BY DEF CorruptJournal, IInv, Recorded
<1>3. Recorded(journal')
  BY <1>2 DEF IInv, Recorded
<1>4. JournalCovers'
  BY <1>2 DEF JournalCovers
<1>5. Sound(leases')
  BY <1>1 DEF IInv
<1>. QED BY <1>1, <1>3, <1>4, <1>5, Reassemble DEF IInv, TypeOK, BooksBalance

(* A replay keeps part of the journal's book, and no more than fits.       *)
LEMMA RestorePreserves ==
  ASSUME IInv, NEW s \in Saves, Restore(s)
  PROVE  IInv'
<1>. DEFINE js == journal.leases
            live == {id \in DOMAIN js : ~Expired(js[id], now)}
<1>1. PICK kept \in SUBSET live :
        /\ Refitted(live, kept)
        /\ leases' = Keep(js, kept)
        /\ borrowed' = Total(js, kept)
        /\ IF kept = DOMAIN js
           THEN restored' = TRUE /\ UNCHANGED journal
           ELSE restored' = (s = "saved") /\ Save(Keep(js, kept), s)
  BY DEF Restore
<1>2. kept \in SUBSET (DOMAIN js) /\ Sound(js) /\ GoodBook(js) /\ Recorded(journal)
  BY DEF IInv, Recorded, Sound
<1>3. UNCHANGED <<now, reserved, reclaims>>
  BY DEF Restore
<1>. HIDE DEF js
<1>4. /\ DOMAIN leases' = kept
      /\ \A id \in kept : leases'[id] = js[id]
      /\ Total(leases', kept) = Total(js, kept)
  BY SMTT(20), <1>1, <1>2, KeepFacts
<1>5. Sound(leases')
  BY <1>1, <1>2, KeepSound
<1>6. borrowed' = Total(leases', DOMAIN leases')
  BY <1>1, <1>4
<1>7. reserved' + borrowed' <= Capacity
  <2>1. Total(js, kept) <= Capacity - reserved
    BY <1>1 DEF Refitted, js
  <2>2. Total(js, kept) \in Nat
    BY <1>2, TotalFacts
  <2>3. reserved \in Int /\ Capacity \in Int
    BY SMTT(20), ConstantsAssumption DEF IInv, TypeOK
  <2>. QED BY SMTT(20), <1>1, <1>3, <2>1, <2>2, <2>3
<1>8. Recorded(journal') /\ (journal' = journal \/ journal'.leases = leases')
  <2>1. CASE UNCHANGED journal
    BY <1>2, <2>1
  <2>2. CASE Save(leases', s)
    BY <1>2, <1>5, <2>2, SaveFacts
  <2>. QED BY <1>1, <2>1, <2>2
<1>9. JournalCovers'
  BY <1>2, <1>4, <1>8 DEF JournalCovers, js
<1>10. restored' \in BOOLEAN
  <2>1. (s = "saved") \in BOOLEAN
    OBVIOUS
  <2>. QED BY <1>1, <2>1
<1>. QED BY <1>3, <1>5, <1>6, <1>7, <1>8, <1>9, <1>10, Reassemble DEF IInv, TypeOK

(* Restore on a journal that Load fails on.                                *)
LEMMA RestoreUnreadablePreserves ==
  ASSUME IInv, NEW s \in Saves, RestoreUnreadable(s)
  PROVE  IInv'
<1>1. /\ leases' = NoLeases /\ borrowed' = 0 /\ Save(NoLeases, s)
      /\ UNCHANGED <<now, reserved, reclaims>>
  BY DEF RestoreUnreadable
<1>2. Sound(leases') /\ borrowed' = Total(leases', DOMAIN leases')
  BY <1>1, NoLeasesSound, NoLeasesGood
<1>3. reserved' + borrowed' <= Capacity
  BY SMTT(20), <1>1, ConstantsAssumption DEF IInv, TypeOK
<1>4. Recorded(journal')
  BY <1>1, NoLeasesSound, SaveFacts DEF IInv
<1>5. JournalCovers'
  BY <1>1, NoLeasesGood DEF JournalCovers
<1>6. restored' \in BOOLEAN
  BY DEF RestoreUnreadable
<1>. QED BY <1>1, <1>2, <1>3, <1>4, <1>5, <1>6, Reassemble DEF IInv, TypeOK

(* The passing of time.                                                    *)
LEMMA TickPreserves ==
  ASSUME IInv, Tick
  PROVE  IInv'
<1>1. /\ now' = now + 1 /\ now < MaxClock
      /\ UNCHANGED <<reserved, borrowed, leases, reclaims, restored, journal>>
  BY DEF Tick
<1>2. now' \in 0..MaxClock
  BY SMTT(20), <1>1, ConstantsAssumption DEF IInv, TypeOK
<1>3. Recorded(journal') /\ Sound(leases') /\ JournalCovers'
  BY <1>1 DEF IInv, JournalCovers
<1>. QED BY <1>1, <1>2, <1>3, Reassemble DEF IInv, TypeOK, BooksBalance

(* One case per action of Next.                                            *)
LEMMA NextPreserves == IInv /\ [Next]_vars => IInv'
<1>. SUFFICES ASSUME IInv, [Next]_vars PROVE IInv'
  OBVIOUS
<1>1. ASSUME NEW r \in Requests, NEW t \in Stamps, AcceptGranted(r, t) PROVE IInv'
  BY <1>1, AcceptPreserves
<1>2. ASSUME NEW r \in Requests, NEW t \in Stamps, NEW s \in Saves,
             AcceptUnsaved(r, t, s)
      PROVE  IInv'
  BY <1>2, AcceptPreserves
<1>3. ASSUME NEW r \in Requests, NEW t \in Stamps, AcceptRefused(r, t) PROVE IInv'
  BY <1>3, AcceptPreserves
<1>4. ASSUME NEW t \in Stamps, AskChurning(t) PROVE IInv'
  BY <1>4, PrunePreserves DEF AskChurning
<1>5. ASSUME NEW id \in Ids, NEW s \in Saves, Release(id, s) PROVE IInv'
  BY <1>5, ReleasePreserves
<1>6. ASSUME NEW t \in Stamps, NEW s \in Saves, Expire(t, s) PROVE IInv'
  BY <1>6, ExpirePreserves
<1>7. CASE CorruptJournal
  BY <1>7, CorruptPreserves
<1>8. ASSUME NEW s \in Saves, Restore(s) PROVE IInv'
  BY <1>8, RestorePreserves
<1>9. ASSUME NEW s \in Saves, RestoreUnreadable(s) PROVE IInv'
  BY <1>9, RestoreUnreadablePreserves
<1>10. CASE Tick
  BY <1>10, TickPreserves
<1>11. CASE Crash
  BY <1>11, CrashPreserves
<1>12. ASSUME NEW t \in Stamps, ReclaimStep(t) PROVE IInv'
  BY <1>12, ReclaimPreserves DEF ReclaimStep
<1>13. CASE UNCHANGED vars
  <2>1. UNCHANGED <<now, reserved, borrowed, leases, reclaims, restored, journal>>
    BY <1>13 DEF vars
  <2>2. Recorded(journal') /\ Sound(leases') /\ JournalCovers'
    BY <2>1 DEF IInv, JournalCovers
  <2>. QED BY <2>1, <2>2, Reassemble DEF IInv, TypeOK, BooksBalance
<1>. QED BY <1>1, <1>2, <1>3, <1>4, <1>5, <1>6, <1>7, <1>8, <1>9, <1>10, <1>11, <1>12,
            <1>13 DEF Next, QuietStep

-----------------------------------------------------------------------------
(* The theorems.                                                           *)

(* The invariant holds in every reachable state of every instance.         *)
THEOREM Invariance == Spec => []IInv
  BY InitHolds, NextPreserves, PTL DEF Spec

(* Every field of the manager keeps its type, whatever is proposed.        *)
THEOREM TypeCorrect == Spec => []TypeOK
<1>1. IInv => TypeOK
  BY DEF IInv
<1>. QED BY <1>1, Invariance, PTL

(***************************************************************************)
(* The accounting is exactly the bytes of the leases held and fits the     *)
(* device, for every device size, set of proposals and history of failed   *)
(* saves, reclaims and restarts (Accept's rollback, releaseLocked's order, *)
(* Restore's Lend).                                                        *)
(***************************************************************************)
THEOREM BooksAlwaysBalance == Spec => []BooksBalance
<1>1. IInv => BooksBalance
  BY DEF IInv
<1>. QED BY <1>1, Invariance, PTL

(***************************************************************************)
(* No held lease is missing from a journal that parses, at any instant a   *)
(* crash could come (Accept: "Journalled before it is honoured").          *)
(***************************************************************************)
THEOREM JournalAlwaysCovers == Spec => []JournalCovers
<1>1. IInv => JournalCovers
  BY DEF IInv
<1>. QED BY <1>1, Invariance, PTL

(***************************************************************************)
(* Guarantees never pin more than the configured fraction of the device,   *)
(* though a replay does not check the bound again (Accept's cap, Restore). *)
(***************************************************************************)
THEOREM GuaranteeCapAlwaysHeld == Spec => []GuaranteeCapHeld
<1>1. IInv => GuaranteeCapHeld
  BY DEF IInv, Sound, GuaranteeCapIn, GuaranteeCapHeld, GuaranteedTotal
<1>. QED BY <1>1, Invariance, PTL

(***************************************************************************)
(* No tenant holds more than its quota, though a replay does not check it  *)
(* again (withinQuota, Restore).                                           *)
(***************************************************************************)
THEOREM TenantQuotaAlwaysHeld == Spec => []TenantQuotaHeld
<1>1. IInv => TenantQuotaHeld
  BY DEF IInv, Sound, TenantQuotaHeld
<1>. QED BY <1>1, Invariance, PTL

(* What runs out by a stamp read before the lock has run out by now.       *)
LEMMA ExpiredByNow ==
  ASSUME IInv, NEW t \in Stamps, NEW id \in ExpiredAt(t)
  PROVE  Expired(leases[id], now)
<1>1. t \in Int /\ now \in Int /\ t <= now
  BY SMTT(20), StampsNatural DEF Stamps, IInv, TypeOK
<1>2. leases[id].grantedAt \in Int /\ leases[id].term \in Int
  BY DEF ExpiredAt, IInv, TypeOK, IsBook, Lease
<1>. QED BY SMTT(20), <1>1, <1>2 DEF ExpiredAt, Expired

(* A reclaim drops leases that have run out, or that are no guarantee.     *)
LEMMA DroppedIsFair ==
  ASSUME IInv, NEW need, NEW t \in Stamps, NEW id \in Dropped(need, t)
  PROVE  Expired(leases[id], now) \/ leases[id].class # Guaranteed
<1>1. id \in ExpiredAt(t) \/ id \in Ladder(t)
  BY DEF Dropped, ExpiredDropped, Returnable, LadderDropped
<1>2. CASE id \in ExpiredAt(t)
  BY <1>2, ExpiredByNow
<1>3. CASE id \in Ladder(t)
  BY <1>3 DEF Ladder
<1>. QED BY <1>1, <1>2, <1>3

(***************************************************************************)
(* A live guarantee goes only when its holder releases it or the process   *)
(* dies, whatever the need, the proposals and the lag of the clock         *)
(* (Reclaim's expiry and ladder).                                          *)
(***************************************************************************)
THEOREM GuaranteesAlwaysHonoured == Spec => GuaranteeHonoured
<1>. DEFINE Fair == \A id \in DOMAIN leases \ DOMAIN leases' :
       leases[id].class = Guaranteed /\ ~Expired(leases[id], now) =>
         \/ ~restored \/ ~restored'
         \/ \E s \in Saves : Release(id, s)
<1>1. IInv /\ [Next]_vars => [Fair]_vars
  <2>. SUFFICES ASSUME IInv, Next,
                       NEW id \in DOMAIN leases \ DOMAIN leases',
                       leases[id].class = Guaranteed, ~Expired(leases[id], now),
                       restored, restored'
                PROVE  \E s \in Saves : Release(id, s)
    OBVIOUS
  <2>1. ASSUME NEW r \in Requests, NEW t \in Stamps, AcceptGranted(r, t) PROVE FALSE
    BY <2>1 DEF AcceptGranted, WithLease
  <2>2. CASE UNCHANGED leases
    BY <2>2
  <2>3. ASSUME NEW i \in Ids, NEW s \in Saves, Release(i, s)
        PROVE  \E z \in Saves : Release(id, z)
    <3>1. id = i
      BY <2>3 DEF Release, Forget, Keep
    <3>. QED BY <2>3, <3>1
  <2>4. ASSUME NEW t \in Stamps, NEW s \in Saves, Expire(t, s) PROVE FALSE
    <3>1. id \in ExpiredDropped(t)
      BY <2>4 DEF Expire, Forget, Keep
    <3>2. id \in ExpiredAt(t)
      BY <3>1 DEF ExpiredDropped, Returnable
    <3>. QED BY <3>2, ExpiredByNow
  <2>5. ASSUME NEW t \in Stamps, ReclaimStep(t) PROVE FALSE
    <3>1. PICK need \in Needs, s \in Saves : Reclaim(need, t, s)
      BY <2>5 DEF ReclaimStep
    <3>2. id \in Dropped(need, t)
      BY <3>1 DEF Reclaim, Forget, Keep
    <3>. QED BY <3>2, DroppedIsFair
  <2>6. ~Crash /\ \A s \in Saves : ~Restore(s) /\ ~RestoreUnreadable(s)
    BY DEF Crash, Restore, RestoreUnreadable
  <2>7. ASSUME NEW r \in Requests, NEW t \in Stamps, NEW s \in Saves,
               AcceptUnsaved(r, t, s)
        PROVE  UNCHANGED leases
    BY <2>7 DEF AcceptUnsaved
  <2>8. ASSUME NEW t \in Stamps, AskChurning(t) PROVE UNCHANGED leases
    BY <2>8 DEF AskChurning
  <2>9. CASE CorruptJournal \/ Tick
    BY <2>2, <2>9 DEF CorruptJournal, Tick
  <2>10. ASSUME NEW r \in Requests, NEW t \in Stamps, AcceptRefused(r, t)
         PROVE  UNCHANGED leases
    BY <2>10 DEF AcceptRefused
  <2>. QED BY <2>1, <2>2, <2>3, <2>4, <2>5, <2>6, <2>7, <2>8, <2>9, <2>10 DEF Next, QuietStep
<1>. QED BY <1>1, Invariance, PTL DEF Spec, GuaranteeHonoured

-----------------------------------------------------------------------------
(* The reclaim ladder.                                                     *)

(* sortByReclaimOrder orders the leases of a book totally.                 *)
LEMMA BeforeIsOrder ==
  ASSUME NEW ls, GoodBook(ls)
  PROVE  /\ \A a \in DOMAIN ls : ~Before(ls, a, a)
         /\ \A a, b, c \in DOMAIN ls : Before(ls, a, b) /\ Before(ls, b, c) => Before(ls, a, c)
         /\ \A a, b \in DOMAIN ls : a # b => Before(ls, a, b) \/ Before(ls, b, a)
<1>1. \A a \in DOMAIN ls : a \in Nat /\ ls[a].class \in Int /\ ls[a].grantedAt \in Int
  BY SMTT(20), ConstantsAssumption DEF GoodBook, IsBook, Ids, Request, Lease
<1>. QED BY SMTT(20), <1>1 DEF Before

(* Some lease of a non-empty part of a book comes first in reclaim order.  *)
LEMMA FirstInOrder ==
  ASSUME NEW ls, GoodBook(ls), NEW U \in SUBSET (DOMAIN ls), U # {}
  PROVE  \E u \in U : Ahead(ls, U, u) = {}
<1>. DEFINE Fam == {A \in SUBSET U : \E x \in U : A = Ahead(ls, U, x)}
<1>1. \A x \in U : Ahead(ls, U, x) \in Fam
  BY DEF Ahead
<1>2. Fam # {} /\ Fam \in SUBSET (SUBSET U) /\ IsFiniteSet(U)
  <2>1. IsFiniteSet(U)
    BY TotalFacts
  <2>. QED BY <1>1, <2>1
<1>3. PICK T \in Fam : \A A \in Fam : A \subseteq T => A = T
  <2>. HIDE DEF Fam
  <2>. QED BY SMTT(20), <1>2, SmallestSubset
<1>4. PICK u \in U : T = Ahead(ls, U, u)
  BY <1>3
<1>5. ASSUME NEW y \in Ahead(ls, U, u) PROVE FALSE
  <2>1. y \in U /\ Before(ls, y, u)
    BY DEF Ahead
  <2>2. Ahead(ls, U, y) \subseteq T
    BY <1>4, <2>1, BeforeIsOrder DEF Ahead
  <2>3. Ahead(ls, U, y) = T
    BY <1>1, <1>3, <2>1, <2>2
  <2>4. y \in Ahead(ls, U, y)
    BY <1>4, <2>3
  <2>. QED BY <2>1, <2>4, BeforeIsOrder DEF Ahead
<1>. QED BY <1>5

(* Totals of disjoint parts of a book add up.                              *)
LEMMA TotalUnion ==
  ASSUME NEW ls, GoodBook(ls), NEW A \in SUBSET (DOMAIN ls), NEW B \in SUBSET (DOMAIN ls),
         A \cap B = {}
  PROVE  /\ Total(ls, A) \in Nat /\ Total(ls, B) \in Nat
         /\ Total(ls, A \cup B) = Total(ls, A) + Total(ls, B)
<1>1. A \cup B \in SUBSET (DOMAIN ls) /\ A \in SUBSET (A \cup B) /\ (A \cup B) \ A = B
  OBVIOUS
<1>. DEFINE C == A \cup B
<1>2. C \in SUBSET (DOMAIN ls) /\ A \in SUBSET C /\ C \ A = B
  BY <1>1
<1>. HIDE DEF C
<1>3. /\ Total(ls, A) \in Nat /\ Total(ls, C \ A) \in Nat
      /\ Total(ls, C) = Total(ls, A) + Total(ls, C \ A)
  BY ZenonT(30), <1>2, TotalFacts
<1>. QED BY <1>2, <1>3 DEF C

(* With balanced books no lease's bytes are refused by the accounting, so  *)
(* a reclaim drops what has run out and then climbs.                       *)
LEMMA ReclaimDrops ==
  ASSUME IInv, NEW need, NEW t
  PROVE  /\ Dropped(need, t) = ExpiredAt(t) \cup
              {id \in Ladder(t) : Total(leases, ExpiredAt(t))
                                    + Total(leases, Ahead(leases, Ladder(t), id)) < need}
         /\ ExpiredAt(t) \in SUBSET (DOMAIN leases) /\ Ladder(t) \in SUBSET (DOMAIN leases)
         /\ ExpiredAt(t) \cap Ladder(t) = {}
         /\ ExpiryComplete(t)
<1>. DEFINE E == ExpiredAt(t)
            R == Ladder(t)
<1>1. GoodBook(leases) /\ borrowed = Total(leases, DOMAIN leases)
  BY DEF IInv, Sound, BooksBalance
<1>2. E \in SUBSET (DOMAIN leases) /\ R \in SUBSET (DOMAIN leases) /\ E \cap R = {}
  BY DEF ExpiredAt, Ladder
<1>3. \A S \in SUBSET (DOMAIN leases) : Total(leases, S) <= borrowed
  BY <1>1, TotalFacts
<1>4. \A S \in SUBSET (DOMAIN leases) : \A id \in S :
        Ahead(leases, S, id) \in SUBSET S /\ Ahead(leases, S, id) \cup {id} \in SUBSET S
  BY DEF Ahead
<1>5. ExpiredDropped(t) = E
  <2>1. \A id \in E : Total(leases, Ahead(leases, E, id) \cup {id}) <= borrowed
    BY <1>2, <1>3, <1>4
  <2>. QED BY <2>1 DEF ExpiredDropped, Returnable
<1>6. ASSUME NEW id \in R
      PROVE  Total(leases, E) + Total(leases, Ahead(leases, R, id) \cup {id}) <= borrowed
  <2>. DEFINE A == Ahead(leases, R, id) \cup {id}
  <2>1. A \in SUBSET (DOMAIN leases) /\ E \cap A = {} /\ E \cup A \in SUBSET (DOMAIN leases)
    BY <1>2, <1>4
  <2>. HIDE DEF A, E
  <2>2. Total(leases, E \cup A) = Total(leases, E) + Total(leases, A)
    BY <1>1, <1>2, <2>1, TotalUnion
  <2>. QED BY <1>3, <2>1, <2>2 DEF A
<1>. QED BY <1>2, <1>5, <1>6 DEF Dropped, ExpiryComplete, LadderDropped

(* One reclamation takes what it may, in order, and no more than it must.  *)
LEMMA ReclaimIsOrderly ==
  ASSUME IInv, NEW need \in Needs, NEW t \in Stamps, NEW s \in Saves, Reclaim(need, t, s)
  PROVE  LadderRespected(need, t)
<1>. DEFINE E == ExpiredAt(t)
            R == Ladder(t)
            Cost(id) == Total(leases, E) + Total(leases, Ahead(leases, R, id))
            L == {id \in R : Cost(id) < need}
            gone == DOMAIN leases \ DOMAIN leases'
            left == DOMAIN leases'
            live == {id \in gone : ~Expired(leases[id], t)}
<1>1. GoodBook(leases) /\ need \in Int
  BY ConstantsAssumption DEF IInv, Sound
<1>2. /\ Dropped(need, t) = E \cup L /\ E \cap R = {}
      /\ E \in SUBSET (DOMAIN leases) /\ R \in SUBSET (DOMAIN leases)
  BY ReclaimDrops
<1>3. /\ leases' = Keep(leases, DOMAIN leases \ (E \cup L))
  BY <1>2 DEF Reclaim, Forget
<1>4. /\ left = DOMAIN leases \ (E \cup L) /\ gone = E \cup L
      /\ \A id \in left : leases'[id] = leases[id]
  BY <1>2, <1>3 DEF Keep
<1>5. \A id \in DOMAIN leases : /\ id \in E <=> Expired(leases[id], t)
                                /\ id \in R <=> id \notin E /\ leases[id].class # Guaranteed
  BY DEF ExpiredAt, Ladder
<1>6. live = L /\ gone \ live = E /\ L \subseteq R
  BY <1>2, <1>4, <1>5
<1>7. \A id \in R : /\ Ahead(leases, R, id) \in SUBSET R
                    /\ Total(leases, E) \in Nat /\ Total(leases, Ahead(leases, R, id)) \in Nat
                    /\ Cost(id) = Total(leases, E \cup Ahead(leases, R, id))
  <2>1. \A id \in R : Ahead(leases, R, id) \in SUBSET (DOMAIN leases) /\ Ahead(leases, R, id) \in SUBSET R
                      /\ E \cap Ahead(leases, R, id) = {}
    BY <1>2 DEF Ahead
  <2>. HIDE DEF E, R
  <2>. QED BY SMTT(20), <1>1, <1>2, <2>1, TotalUnion
<1>8. ASSUME NEW id \in left PROVE leases'[id] = leases[id] /\ ~Expired(leases[id], t)
  BY <1>4, <1>5
<1>. HIDE DEF E, R
<1>9. ASSUME NEW id \in L
      PROVE  Total(leases, E \cup Ahead(leases, L, id)) < need
  <2>1. /\ E \cup Ahead(leases, R, id) \in SUBSET (DOMAIN leases)
        /\ E \cup Ahead(leases, L, id) \in SUBSET (E \cup Ahead(leases, R, id))
    BY <1>2, <1>6, <1>7 DEF Ahead
  <2>2. /\ Total(leases, E \cup Ahead(leases, L, id)) <= Total(leases, E \cup Ahead(leases, R, id))
        /\ Total(leases, E \cup Ahead(leases, L, id)) \in Nat
        /\ Total(leases, E \cup Ahead(leases, R, id)) \in Nat
    BY <1>1, <2>1, TotalFacts
  <2>3. Total(leases, E \cup Ahead(leases, R, id)) < need
    BY <1>6, <1>7
  <2>. QED BY SMTT(20), <1>1, <2>2, <2>3
<1>10. ASSUME NEW id \in L, NEW k \in left PROVE Before(leases, id, k)
  <2>1. k \in DOMAIN leases /\ id \in DOMAIN leases /\ k \notin E /\ k \notin L /\ id \in R
    BY <1>2, <1>4
  <2>2. CASE k \in R
    <3>1. SUFFICES ASSUME Before(leases, k, id) PROVE FALSE
      BY <1>1, <2>1, BeforeIsOrder
    <3>2. E \cup Ahead(leases, R, k) \in SUBSET (E \cup Ahead(leases, R, id))
      <4>1. \A a \in R : Before(leases, a, k) => Before(leases, a, id)
        BY <1>1, <1>2, <2>1, <3>1, BeforeIsOrder
      <4>. QED BY <4>1 DEF Ahead
    <3>3. E \cup Ahead(leases, R, id) \in SUBSET (DOMAIN leases)
      BY <1>2, <1>7, <2>1
    <3>4. /\ Total(leases, E \cup Ahead(leases, R, k)) <= Total(leases, E \cup Ahead(leases, R, id))
          /\ Total(leases, E \cup Ahead(leases, R, k)) \in Nat
          /\ Total(leases, E \cup Ahead(leases, R, id)) \in Nat
      BY <1>1, <3>2, <3>3, TotalFacts
    <3>5. Cost(id) < need /\ ~(Cost(k) < need)
      BY <2>1, <2>2
    <3>. QED BY SMTT(20), <1>1, <1>7, <2>1, <2>2, <3>4, <3>5
  <2>3. CASE k \notin R
    <3>1. leases[k].class = Guaranteed /\ leases[id].class # Guaranteed
      BY <1>5, <2>1, <2>3
    <3>2. Valid(leases[id].class)
      BY <1>1, <2>1 DEF GoodBook
    <3>. QED BY SMTT(20), <3>1, <3>2 DEF Before, Valid, Opportunistic, Guaranteed
  <2>. QED BY <2>2, <2>3
<1>11. ASSUME Total(leases, gone) < need, NEW id \in left
       PROVE  leases[id].class = Guaranteed
  <2>. DEFINE U == R \ L
  <2>1. SUFFICES ASSUME leases[id].class # Guaranteed PROVE FALSE
    OBVIOUS
  <2>2. id \in U
    BY <1>4, <1>5, <2>1
  <2>3. PICK u \in U : Ahead(leases, U, u) = {}
    <3>1. U \in SUBSET (DOMAIN leases) /\ U # {}
      BY <1>2, <2>2
    <3>. HIDE DEF U
    <3>. QED BY <1>1, <3>1, FirstInOrder
  <2>4. E \cup Ahead(leases, R, u) \in SUBSET gone
    BY <1>4, <2>3 DEF Ahead
  <2>5. gone \in SUBSET (DOMAIN leases)
    OBVIOUS
  <2>6. /\ Total(leases, E \cup Ahead(leases, R, u)) <= Total(leases, gone)
        /\ Total(leases, E \cup Ahead(leases, R, u)) \in Nat /\ Total(leases, gone) \in Nat
    <3>. HIDE DEF gone
    <3>. QED BY <1>1, <2>4, <2>5, TotalFacts
  <2>7. ~(Cost(u) < need) /\ u \in R
    BY <2>3
  <2>. HIDE DEF gone
  <2>. QED BY SMTT(20), <1>1, <1>7, <1>11, <2>6, <2>7
<1>12. \A id \in L : leases[id].class # Guaranteed
  BY <1>2, <1>5, <1>6
<1>. HIDE DEF L, gone, left, live, Cost
<1>13. \A id \in live : /\ leases[id].class # Guaranteed
                        /\ Total(leases, (gone \ live) \cup Ahead(leases, live, id)) < need
                        /\ \A k \in left : Before(leases, id, k)
  BY <1>6, <1>9, <1>10, <1>12
<1>. QED BY <1>8, <1>11, <1>13 DEF LadderRespected, gone, left, live

(***************************************************************************)
(* Every reclamation of every behaviour drops all that has run out and no  *)
(* live guarantee, climbs in order and stops when the need is met, for     *)
(* every set of leases, need and timestamp (Reclaim).                      *)
(***************************************************************************)
THEOREM LadderAlwaysRespected == Spec => ReclaimLadder
<1>1. IInv => \A need \in Needs, t \in Stamps, s \in Saves :
                Reclaim(need, t, s) => LadderRespected(need, t)
  BY ReclaimIsOrderly
<1>. QED BY <1>1, Invariance, PTL DEF ReclaimLadder

-----------------------------------------------------------------------------
(* Sequences with elements left out.                                       *)

(* t is s without some elements that are not in S, and e says where each   *)
(* element of t is in s.                                                   *)
Thins(t, s, S, e) ==
  /\ e \in [1 .. Len(t) -> 1 .. Len(s)]
  /\ \A i, j \in 1 .. Len(t) : i < j => e[i] < e[j]
  /\ \A i \in 1 .. Len(t) : t[i] = s[e[i]]
  /\ \A j \in 1 .. Len(s) : s[j] \in S => \E i \in 1 .. Len(t) : e[i] = j

LEMMA ThinsEmpty ==
  ASSUME NEW s, NEW S, \A j \in 1 .. Len(s) : s[j] \notin S
  PROVE  Thins(<<>>, s, S, [i \in {} |-> 0])
BY SMTT(20) DEF Thins

LEMMA ThinsFewer ==
  ASSUME NEW t, NEW s, NEW S, NEW T, T \subseteq S, NEW e, Thins(t, s, S, e)
  PROVE  Thins(t, s, T, e)
BY DEF Thins

(* Appending the same element to both keeps the relation.                  *)
LEMMA ThinsAppend ==
  ASSUME NEW V, NEW s \in Seq(V), NEW t \in Seq(V), NEW x \in V, NEW S,
         NEW e, Thins(t, s, S, e)
  PROVE  \E f : Thins(Append(t, x), Append(s, x), S, f)
<1>. DEFINE m == Len(t)
            n == Len(s)
            u == Append(t, x)
            v == Append(s, x)
            f == [i \in 1 .. m + 1 |-> IF i = m + 1 THEN n + 1 ELSE e[i]]
<1>1. /\ m \in Nat /\ n \in Nat /\ Len(u) = m + 1 /\ Len(v) = n + 1
      /\ u[m + 1] = x /\ \A i \in 1 .. m : u[i] = t[i]
      /\ v[n + 1] = x /\ \A i \in 1 .. n : v[i] = s[i]
  BY SMTT(20)
<1>2. /\ \A i \in 1 .. m : e[i] \in 1 .. n /\ t[i] = s[e[i]]
      /\ \A i, j \in 1 .. m : i < j => e[i] < e[j]
      /\ \A j \in 1 .. n : s[j] \in S => \E i \in 1 .. m : e[i] = j
  BY DEF Thins
<1>. HIDE DEF m, n, u, v
<1>3. \A i \in 1 .. m + 1 : i = m + 1 \/ i \in 1 .. m
  BY SMTT(20), <1>1
<1>4. f \in [1 .. m + 1 -> 1 .. n + 1]
  BY SMTT(20), <1>1, <1>2, <1>3
<1>5. \A i, j \in 1 .. m + 1 : i < j => f[i] < f[j]
  BY SMTT(20), <1>1, <1>2, <1>3
<1>6. \A i \in 1 .. m + 1 : u[i] = v[f[i]]
  BY <1>1, <1>2, <1>3
<1>7. ASSUME NEW j \in 1 .. n + 1, v[j] \in S PROVE \E i \in 1 .. m + 1 : f[i] = j
  <2>1. CASE j = n + 1
    <3>1. m + 1 \in 1 .. m + 1 /\ f[m + 1] = j
      BY SMTT(20), <1>1, <2>1
    <3>. QED BY <3>1
  <2>2. CASE j # n + 1
    <3>1. j \in 1 .. n /\ s[j] \in S
      BY SMTT(20), <1>1, <1>7, <2>2
    <3>2. PICK i \in 1 .. m : e[i] = j
      BY <1>2, <3>1
    <3>3. i \in 1 .. m + 1 /\ f[i] = j
      BY SMTT(20), <1>1, <3>2
    <3>. QED BY <3>3
  <2>. QED BY <2>1, <2>2
<1>8. Thins(u, v, S, f)
  <2>. HIDE DEF f
  <2>. QED BY <1>1, <1>4, <1>5, <1>6, <1>7 DEF Thins
<1>. QED BY <1>8 DEF u, v

(* Appending an element that need not be kept to the longer one, too.      *)
LEMMA ThinsSkip ==
  ASSUME NEW V, NEW s \in Seq(V), NEW t \in Seq(V), NEW x \in V, NEW S, x \notin S,
         NEW e, Thins(t, s, S, e)
  PROVE  Thins(t, Append(s, x), S, e)
<1>. DEFINE n == Len(s)
            v == Append(s, x)
<1>1. /\ n \in Nat /\ Len(t) \in Nat /\ Len(v) = n + 1
      /\ v[n + 1] = x /\ \A i \in 1 .. n : v[i] = s[i]
  BY SMTT(20)
<1>2. /\ e \in [1 .. Len(t) -> 1 .. n]
      /\ \A i \in 1 .. Len(t) : e[i] \in 1 .. n /\ t[i] = s[e[i]]
      /\ \A i, j \in 1 .. Len(t) : i < j => e[i] < e[j]
      /\ \A j \in 1 .. n : s[j] \in S => \E i \in 1 .. Len(t) : e[i] = j
  BY DEF Thins
<1>. HIDE DEF n, v
<1>3. \A i \in 1 .. n + 1 : i = n + 1 \/ i \in 1 .. n
  BY SMTT(20), <1>1
<1>4. e \in [1 .. Len(t) -> 1 .. n + 1]
  BY SMTT(20), <1>1, <1>2
<1>5. \A j \in 1 .. n + 1 : v[j] \in S => \E i \in 1 .. Len(t) : e[i] = j
  BY <1>1, <1>2, <1>3
<1>. QED BY <1>1, <1>2, <1>4, <1>5 DEF Thins, v

(* What is kept of a sequence leaves out only what was not to be kept.     *)
LEMMA KeptThins ==
  ASSUME NEW V, NEW s \in Seq(V), NEW S
  PROVE  \E e : Thins(Kept(s, S), s, S, e)
<1>. DEFINE n == Len(s)
            g == CHOOSE h : IsKeptTable(s, S, n, h)
            p(i) == [j \in 1 .. i |-> s[j]]
            Good == {i \in 0 .. n : g[i] \in Seq(V) /\ \E e : Thins(g[i], p(i), S, e)}
<1>0. n \in Nat /\ p(n) = s /\ p(0) = <<>>
  BY SMTT(20)
<1>1. IsKeptTable(s, S, n, g)
  <2>. HIDE DEF n
  <2>. QED BY <1>0, KeptTableExists
<1>2. Kept(s, S) = g[n]
  BY DEF Kept, IsKeptTable
<1>. HIDE DEF g
<1>3. 0 \in Good
  <2>1. g[0] = <<>> /\ 0 \in 0 .. n
    BY SMTT(20), <1>1 DEF IsKeptTable
  <2>2. Thins(<<>>, <<>>, S, [i \in {} |-> 0])
    BY SMTT(20) DEF Thins
  <2>3. <<>> \in Seq(V)
    BY SMTT(20)
  <2>. HIDE DEF p
  <2>. QED BY <1>0, <2>1, <2>2, <2>3
<1>4. ASSUME NEW i \in 0 .. n - 1, i \in Good PROVE i + 1 \in Good
  <2>1. /\ g[i] \in Seq(V) /\ i + 1 \in 1 .. n /\ i + 1 \in 0 .. n
        /\ (i + 1) - 1 = i /\ i + 1 # 0 /\ i \in Nat
    BY SMTT(20), <1>4
  <2>2. g[i + 1] = IF s[i + 1] \in S THEN Append(g[i], s[i + 1]) ELSE g[i]
    BY <1>1, <2>1 DEF IsKeptTable
  <2>3. s[i + 1] \in V /\ p(i) \in Seq(V)
    <3>1. \A j \in 1 .. i : s[j] \in V
      BY SMTT(20), <2>1
    <3>. QED BY SMTT(20), <2>1, <3>1
  <2>4. p(i + 1) = Append(p(i), s[i + 1])
    <3>1. Len(p(i)) = i
      BY SMTT(20), <2>1
    <3>. QED BY SMTT(20), <2>1, <2>3, <3>1
  <2>5. PICK e : Thins(g[i], p(i), S, e)
    BY <1>4
  <2>. HIDE DEF p
  <2>6. CASE s[i + 1] \in S
    <3>1. \E f : Thins(Append(g[i], s[i + 1]), Append(p(i), s[i + 1]), S, f)
      BY <2>1, <2>3, <2>5, ThinsAppend
    <3>2. Append(g[i], s[i + 1]) \in Seq(V)
      BY SMTT(20), <2>1, <2>3
    <3>. QED BY <2>1, <2>2, <2>4, <2>6, <3>1, <3>2
  <2>7. CASE s[i + 1] \notin S
    <3>1. Thins(g[i], Append(p(i), s[i + 1]), S, e)
      BY <2>1, <2>3, <2>5, <2>7, ThinsSkip
    <3>. QED BY <2>1, <2>2, <2>4, <2>7, <3>1
  <2>. QED BY <2>6, <2>7
<1>5. n \in Good
  <2>1. n \in 0 .. n
    BY SMTT(20), <1>0
  <2>. HIDE DEF Good, n
  <2>. QED BY <1>0, <1>3, <1>4, <2>1, CountUp
<1>6. \E e : Thins(g[n], p(n), S, e)
  BY <1>5
<1>. HIDE DEF p
<1>. QED BY <1>0, <1>2, <1>6

(* Leaving out twice is leaving out.                                       *)
LEMMA ThinsTwice ==
  ASSUME NEW V, NEW s \in Seq(V), NEW t \in Seq(V), NEW u \in Seq(V), NEW S, NEW T,
         NEW e, Thins(t, s, S, e), NEW f, Thins(u, t, T, f)
  PROVE  \E g : Thins(u, s, S \cap T, g)
<1>. DEFINE k == Len(u)
            m == Len(t)
            n == Len(s)
            g == [i \in 1 .. k |-> e[f[i]]]
<1>1. k \in Nat /\ m \in Nat /\ n \in Nat
  BY SMTT(20)
<1>2. /\ \A i \in 1 .. m : e[i] \in 1 .. n /\ t[i] = s[e[i]]
      /\ \A i, j \in 1 .. m : i < j => e[i] < e[j]
      /\ \A j \in 1 .. n : s[j] \in S => \E i \in 1 .. m : e[i] = j
  BY DEF Thins
<1>3. /\ \A i \in 1 .. k : f[i] \in 1 .. m /\ u[i] = t[f[i]]
      /\ \A i, j \in 1 .. k : i < j => f[i] < f[j]
      /\ \A j \in 1 .. m : t[j] \in T => \E i \in 1 .. k : f[i] = j
  BY DEF Thins
<1>. HIDE DEF k, m, n
<1>4. g \in [1 .. k -> 1 .. n] /\ \A i \in 1 .. k : g[i] = e[f[i]]
  BY <1>2, <1>3
<1>5. \A i, j \in 1 .. k : i < j => g[i] < g[j]
  BY <1>2, <1>3, <1>4
<1>6. \A i \in 1 .. k : u[i] = s[g[i]]
  BY <1>2, <1>3, <1>4
<1>7. ASSUME NEW j \in 1 .. n, s[j] \in S \cap T PROVE \E i \in 1 .. k : g[i] = j
  <2>1. PICK a \in 1 .. m : e[a] = j
    BY <1>2, <1>7
  <2>2. t[a] \in T
    BY <1>2, <1>7, <2>1
  <2>3. PICK i \in 1 .. k : f[i] = a
    BY <1>3, <2>2
  <2>. QED BY <1>4, <2>1, <2>3
<1>. HIDE DEF g
<1>8. Thins(u, s, S \cap T, g)
  BY <1>4, <1>5, <1>6, <1>7 DEF Thins, k, n
<1>. QED BY <1>8

(* Where s has an element of S.                                            *)
Places(s, S) == {i \in DOMAIN s : s[i] \in S}

(* Elements that may not be left out are as many in one as in the other.   *)
LEMMA ThinsCount ==
  ASSUME NEW V, NEW s \in Seq(V), NEW t \in Seq(V), NEW S, NEW e, Thins(t, s, S, e)
  PROVE  IsFiniteSet(Places(t, S)) /\ Cardinality(Places(t, S)) = Cardinality(Places(s, S))
<1>. DEFINE A == {i \in DOMAIN t : t[i] \in S}
            B == {j \in DOMAIN s : s[j] \in S}
            f == [i \in A |-> e[i]]
<1>1. DOMAIN t = 1 .. Len(t) /\ DOMAIN s = 1 .. Len(s) /\ Len(t) \in Nat /\ Len(s) \in Nat
  BY SMTT(20)
<1>2. /\ \A i \in DOMAIN t : e[i] \in DOMAIN s /\ t[i] = s[e[i]] /\ i \in Nat /\ e[i] \in Nat
      /\ \A i, j \in DOMAIN t : i < j => e[i] < e[j]
      /\ \A j \in DOMAIN s : s[j] \in S => \E i \in DOMAIN t : e[i] = j
  <2>. DEFINE P == 1 .. Len(t)
              Q == 1 .. Len(s)
  <2>1. DOMAIN t = P /\ DOMAIN s = Q /\ P \subseteq Nat /\ Q \subseteq Nat
    BY SMTT(20), <1>1
  <2>2. /\ e \in [P -> Q] /\ \A i \in P : t[i] = s[e[i]]
        /\ \A i, j \in P : i < j => e[i] < e[j]
        /\ \A j \in Q : s[j] \in S => \E i \in P : e[i] = j
    BY DEF Thins
  <2>. HIDE DEF P, Q
  <2>. QED BY <2>1, <2>2
<1>3. IsFiniteSet(A)
  <2>1. IsFiniteSet(DOMAIN t)
    BY SMTT(20), <1>1, FS_Interval
  <2>2. A \in SUBSET DOMAIN t
    OBVIOUS
  <2>. HIDE DEF A
  <2>. QED BY <2>1, <2>2, FS_Subset
<1>4. f \in [A -> B]
  BY <1>2
<1>5. \A i, j \in A : f[i] = f[j] => i = j
  <2>1. \A i, j \in A : i # j => i < j \/ j < i
    BY SMTT(20), <1>2
  <2>2. \A i, j \in A : i < j => f[i] # f[j]
    BY SMTT(20), <1>2
  <2>. QED BY <2>1, <2>2
<1>6. \A j \in B : \E i \in A : f[i] = j
  BY <1>2
<1>7. f \in Bijection(A, B)
  <2>. HIDE DEF A, B, f
  <2>. QED BY <1>4, <1>5, <1>6 DEF Bijection, Injection, Surjection, IsInjective
<1>8. ExistsBijection(A, B)
  BY <1>7 DEF ExistsBijection
<1>. HIDE DEF A, B
<1>9. Cardinality(B) = Cardinality(A)
  BY <1>3, <1>8, FS_Bijection
<1>. QED BY <1>3, <1>9 DEF Places, A, B

(* An element that may not be left out comes no later than the last kept.  *)
LEMMA ThinsLast ==
  ASSUME NEW V, NEW s \in Seq(V), NEW t \in Seq(V), NEW S, NEW e, Thins(t, s, S, e),
         NEW j \in 1 .. Len(s), s[j] \in S
  PROVE  /\ t # <<>> /\ Len(t) \in 1 .. Len(t)
         /\ e[Len(t)] \in j .. Len(s) /\ t[Len(t)] = s[e[Len(t)]]
<1>1. PICK i \in 1 .. Len(t) : e[i] = j
  BY DEF Thins
<1>2. Len(t) \in Nat /\ Len(t) \in 1 .. Len(t) /\ t # <<>> /\ Len(s) \in Nat
  BY SMTT(20), <1>1
<1>3. i = Len(t) \/ i < Len(t)
  BY SMTT(20), <1>1, <1>2
<1>4. e[Len(t)] \in 1 .. Len(s) /\ t[Len(t)] = s[e[Len(t)]] /\ e[i] <= e[Len(t)]
  BY SMTT(20), <1>1, <1>2, <1>3 DEF Thins
<1>. QED BY SMTT(20), <1>1, <1>2, <1>4

-----------------------------------------------------------------------------
(* Pruning and backing off.                                                *)

After(c) == {i \in Int : i > c}

(* What is left in r of the reclamations h, at n, lacks only old ones.     *)
Complete(h, r, n) == \E e : Thins(r, h, After(n - Retention), e)

LEMMA RetentionCovers ==
  Retention \in Int /\ MinTerm <= Retention /\ ChurnWindow <= Retention
BY SMTT(20), ConstantsAssumption DEF Retention, Larger

LEMMA CountIsOfAfter ==
  ASSUME NEW h \in Seq(Nat), NEW c \in Int
  PROVE  CountAfter(h, c) = Cardinality(Places(h, After(c)))
<1>1. \A i \in DOMAIN h : h[i] > c <=> h[i] \in After(c)
  BY SMTT(20) DEF After
<1>2. {i \in DOMAIN h : h[i] > c} = {i \in DOMAIN h : h[i] \in After(c)}
  BY <1>1
<1>. QED BY <1>2 DEF CountAfter, Places

(* prune leaves complete what was complete.                                *)
LEMMA PruneComplete ==
  ASSUME NEW h \in Seq(Nat), NEW r \in Seq(Nat), NEW n \in Nat, NEW t \in Nat, t <= n,
         \A i \in 1 .. Len(h) : h[i] <= n, Complete(h, r, n)
  PROVE  Complete(h, Prune(r, t), n)
<1>. DEFINE S == After(n - Retention)
            T == After(t - Retention)
<1>1. CASE Retention <= 0
  <2>1. \A i \in 1 .. Len(h) : h[i] \in Nat
    BY SMTT(20)
  <2>2. \A i \in 1 .. Len(h) : h[i] \notin S
    BY SMTT(20), <1>1, <2>1, RetentionCovers DEF After
  <2>. HIDE DEF S
  <2>3. Thins(<<>>, h, S, [i \in {} |-> 0])
    BY <2>2, ThinsEmpty
  <2>. QED BY <1>1, <2>3 DEF Complete, Prune, S
<1>2. CASE ~(Retention <= 0)
  <2>1. Prune(r, t) = Kept(r, T)
    BY <1>2 DEF Prune, After
  <2>2. S \cap T = S
    BY SMTT(20), RetentionCovers DEF After
  <2>3. PICK e : Thins(r, h, S, e)
    BY DEF Complete
  <2>. HIDE DEF S, T
  <2>4. PICK f : Thins(Kept(r, T), r, T, f)
    BY KeptThins
  <2>5. Kept(r, T) \in Seq(Nat)
    BY KeptFacts
  <2>6. \E g : Thins(Kept(r, T), h, S \cap T, g)
    BY <2>3, <2>4, <2>5, ThinsTwice
  <2>. QED BY <2>1, <2>2, <2>6 DEF Complete, S
<1>. QED BY <1>1, <1>2

(* Counts are natural, and smaller after a later cutoff.                   *)
LEMMA CountNatural ==
  ASSUME NEW h \in Seq(Nat), NEW d \in Int, NEW c \in Int, d <= c
  PROVE  CountAfter(h, c) \in Nat /\ CountAfter(h, d) \in Nat /\ CountAfter(h, c) <= CountAfter(h, d)
<1>. DEFINE A == {i \in DOMAIN h : h[i] > c}
            B == {i \in DOMAIN h : h[i] > d}
<1>1. \A i \in DOMAIN h : h[i] \in Nat
  BY SMTT(20)
<1>2. A \in SUBSET B /\ B \in SUBSET DOMAIN h
  BY SMTT(20), <1>1
<1>3. IsFiniteSet(DOMAIN h)
  BY SMTT(20), FS_Interval
<1>. HIDE DEF A, B
<1>4. IsFiniteSet(B)
  BY <1>2, <1>3, FS_Subset
<1>5. IsFiniteSet(A) /\ Cardinality(A) <= Cardinality(B)
  BY <1>2, <1>4, FS_Subset
<1>6. Cardinality(A) \in Nat /\ Cardinality(B) \in Nat
  BY <1>4, <1>5, FS_CardinalityType
<1>. QED BY <1>5, <1>6 DEF CountAfter, A, B

(* Recent reclamations are as many in the pruned history as in the whole.  *)
LEMMA CompleteCounts ==
  ASSUME NEW h \in Seq(Nat), NEW r \in Seq(Nat), NEW n \in Int, Complete(h, r, n),
         NEW c \in Int, c >= n - Retention
  PROVE  CountAfter(r, c) = CountAfter(h, c) /\ CountAfter(r, c) \in Nat
<1>. DEFINE S == After(n - Retention)
            T == After(c)
            A == Places(r, T)
<1>1. PICK e : Thins(r, h, S, e)
  BY DEF Complete
<1>2. T \subseteq S
  BY SMTT(20), RetentionCovers DEF After
<1>. HIDE DEF S, T
<1>3. Thins(r, h, T, e)
  BY <1>1, <1>2, ThinsFewer
<1>4. IsFiniteSet(A) /\ Cardinality(A) = Cardinality(Places(h, T))
  BY <1>3, ThinsCount
<1>5. Cardinality(A) \in Nat
  <2>. HIDE DEF A
  <2>. QED BY <1>4, FS_CardinalityType
<1>. QED BY <1>4, <1>5, CountIsOfAfter DEF T

(* g says what MinTerm is after each number of doublings up to n.          *)
IsDoublings(n, g) ==
  g = [i \in 0 .. n |-> IF i = 0 THEN MinTerm
                        ELSE IF g[i - 1] < ChurnWindow THEN 2 * g[i - 1] ELSE g[i - 1]]

LEMMA DoublingsExist ==
  ASSUME NEW n \in Nat
  PROVE  \E g : IsDoublings(n, g)
<1>. DEFINE Good == {k \in Nat : \E g : IsDoublings(k, g)}
<1>1. 0 \in Good
  <2>1. IsDoublings(0, [i \in 0 .. 0 |-> MinTerm])
    BY SMTT(20) DEF IsDoublings
  <2>. QED BY <2>1
<1>2. ASSUME NEW k \in 0 .. n - 1, k \in Good PROVE k + 1 \in Good
  <2>1. PICK g : IsDoublings(k, g)
    BY <1>2
  <2>. DEFINE step(i) == IF i = 0 THEN MinTerm
                         ELSE IF g[i - 1] < ChurnWindow THEN 2 * g[i - 1] ELSE g[i - 1]
              h == [i \in 0 .. k + 1 |-> step(i)]
  <2>2. \A i \in 0 .. k : g[i] = step(i)
    BY <2>1 DEF IsDoublings
  <2>3. \A i \in 0 .. k + 1 : i # 0 => i - 1 \in 0 .. k /\ i - 1 \in 0 .. k + 1
    BY SMTT(20)
  <2>4. \A i \in 0 .. k + 1 : i # 0 => h[i - 1] = g[i - 1]
    BY <2>2, <2>3
  <2>5. IsDoublings(k + 1, h)
    BY <2>4 DEF IsDoublings
  <2>. QED BY SMTT(20), <2>5
<1>3. \A i \in 0 .. n : i \in Good
  <2>. HIDE DEF Good
  <2>. QED BY <1>1, <1>2, CountUp
<1>. QED BY SMTT(20), <1>3

(* Doubling only lengthens.                                                *)
LEMMA DoubledGrows ==
  ASSUME NEW n \in Nat, MinTerm > 0
  PROVE  Doubled(n) \in Int /\ MinTerm <= Doubled(n)
<1>. DEFINE g == CHOOSE h : IsDoublings(n, h)
            Good == {i \in 0 .. n : g[i] \in Int /\ MinTerm <= g[i]}
<1>1. IsDoublings(n, g)
  BY DoublingsExist
<1>2. Doubled(n) = g[n]
  BY DEF Doubled, IsDoublings
<1>. HIDE DEF g
<1>3. 0 \in Good
  BY SMTT(20), <1>1, ConstantsAssumption DEF IsDoublings
<1>4. ASSUME NEW i \in 0 .. n - 1, i \in Good PROVE i + 1 \in Good
  <2>1. i + 1 \in 0 .. n /\ (i + 1) - 1 = i /\ i + 1 # 0
    BY SMTT(20)
  <2>2. g[i + 1] = IF g[i] < ChurnWindow THEN 2 * g[i] ELSE g[i]
    BY <1>1, <2>1 DEF IsDoublings
  <2>. QED BY SMTT(20), <1>4, <2>1, <2>2, ConstantsAssumption
<1>5. n \in Good
  <2>1. n \in 0 .. n
    BY SMTT(20)
  <2>. HIDE DEF Good
  <2>. QED BY <1>3, <1>4, <2>1, CountUp
<1>. QED BY <1>2, <1>5

(* A cooldown ends before the record of what caused it is pruned, and is   *)
(* at least MinTerm unless the churn window cuts it shorter.               *)
LEMMA CooldownBounds ==
  ASSUME NEW h, NEW t, CountAfter(h, t - ChurnWindow) \in Nat, MinTerm > 0
  PROVE  /\ CooldownFor(h, t) \in Int /\ CooldownFor(h, t) <= Retention
         /\ (~Autonomy \/ ChurnWindow <= 0 \/ MinTerm <= ChurnWindow) =>
              MinTerm <= CooldownFor(h, t)
<1>. DEFINE n == CountAfter(h, t - ChurnWindow)
<1>1. CASE n <= 1 \/ ~Autonomy \/ ChurnWindow <= 0
  <2>1. CooldownFor(h, t) = MinTerm
    BY SMTT(20), <1>1, ConstantsAssumption DEF CooldownFor
  <2>. QED BY SMTT(20), <2>1, RetentionCovers, ConstantsAssumption
<1>2. CASE ~(n <= 1 \/ ~Autonomy \/ ChurnWindow <= 0)
  <2>1. CooldownFor(h, t) = Smaller(ChurnWindow, Doubled(n - 1))
    BY SMTT(20), <1>2, ConstantsAssumption DEF CooldownFor
  <2>2. n - 1 \in Nat
    BY SMTT(20), <1>2
  <2>3. Doubled(n - 1) \in Int /\ MinTerm <= Doubled(n - 1)
    <3>. HIDE DEF n
    <3>. QED BY <2>2, DoubledGrows
  <2>. QED BY SMTT(20), <1>2, <2>1, <2>3, RetentionCovers, ConstantsAssumption DEF Smaller
<1>. QED BY <1>1, <1>2

(***************************************************************************)
(* The history is of instants in the order their calls got the lock, each  *)
(* at most Lag behind an earlier one, and the manager's own record of it   *)
(* lacks only what no decision needs any more.                             *)
(***************************************************************************)
CInv ==
  /\ history \in Seq(Nat)
  /\ \A i \in 1 .. Len(history) : history[i] <= now
  /\ \A i, j \in 1 .. Len(history) : i < j => history[i] <= history[j] + Lag
  /\ Complete(history, reclaims, now)

LEMMA CInvInit == HistoryInit => CInv
<1>. SUFFICES ASSUME HistoryInit PROVE CInv
  OBVIOUS
<1>1. history = <<>> /\ reclaims = <<>>
  BY DEF HistoryInit, Init
<1>2. Thins(<<>>, <<>>, After(now - Retention), [i \in {} |-> 0])
  BY SMTT(20) DEF Thins
<1>. QED BY SMTT(20), <1>1, <1>2 DEF CInv, Complete

(* The steps that keep the history and prune, or not, what is left of it.  *)
LEMMA QuietComplete ==
  ASSUME IInv, CInv, UNCHANGED <<now, history>>,
         UNCHANGED reclaims \/ \E t \in Stamps : reclaims' = Prune(reclaims, t)
  PROVE  CInv'
<1>1. now \in Nat /\ reclaims \in Seq(Nat)
  BY SMTT(20), ConstantsAssumption DEF IInv, TypeOK
<1>2. Complete(history, reclaims', now)
  <2>1. CASE UNCHANGED reclaims
    BY <2>1 DEF CInv
  <2>2. ASSUME NEW t \in Stamps, reclaims' = Prune(reclaims, t)
        PROVE  Complete(history, reclaims', now)
    <3>1. t \in Nat /\ t <= now
      BY SMTT(20), <1>1, ConstantsAssumption DEF Stamps
    <3>. QED BY <1>1, <2>2, <3>1, PruneComplete DEF CInv
  <2>. QED BY <2>1, <2>2
<1>. QED BY <1>2 DEF CInv, Complete

LEMMA TickComplete ==
  ASSUME IInv, CInv, Tick, UNCHANGED history
  PROVE  CInv'
<1>. DEFINE S == After(now - Retention)
            T == After(now' - Retention)
<1>1. now \in Nat /\ now' = now + 1 /\ reclaims' = reclaims /\ history' = history
  BY SMTT(20), ConstantsAssumption DEF IInv, TypeOK, Tick
<1>2. T \subseteq S
  BY SMTT(20), <1>1, RetentionCovers DEF After
<1>3. PICK e : Thins(reclaims, history, S, e)
  BY DEF CInv, Complete
<1>. HIDE DEF S, T
<1>4. Thins(reclaims, history, T, e)
  BY <1>2, <1>3, ThinsFewer
<1>5. Complete(history', reclaims', now')
  BY <1>1, <1>4 DEF Complete, T
<1>6. \A i \in 1 .. Len(history) : history[i] \in Nat /\ history[i] <= now + 1
  BY SMTT(20), <1>1 DEF CInv
<1>. QED BY <1>1, <1>5, <1>6 DEF CInv

LEMMA CrashComplete ==
  ASSUME Crash, history' = <<>>
  PROVE  CInv'
<1>1. reclaims' = <<>>
  BY DEF Crash
<1>2. Thins(<<>>, <<>>, After(now' - Retention), [i \in {} |-> 0])
  BY SMTT(20) DEF Thins
<1>. QED BY SMTT(20), <1>1, <1>2 DEF CInv, Complete

LEMMA ReclaimComplete ==
  ASSUME IInv, CInv, NEW t \in Stamps, ReclaimStep(t), history' = Append(history, t)
  PROVE  CInv'
<1>. DEFINE S == After(now - Retention)
<1>1. /\ now \in Nat /\ reclaims \in Seq(Nat) /\ t \in Nat /\ t <= now /\ now <= t + Lag
      /\ Lag \in Nat
  <2>1. now \in Nat /\ reclaims \in Seq(Nat) /\ Lag \in Nat
    BY SMTT(20), ConstantsAssumption DEF IInv, TypeOK
  <2>. QED BY SMTT(20), <2>1 DEF Stamps
<1>2. PICK need \in Needs, s \in Saves : Reclaim(need, t, s)
  BY DEF ReclaimStep
<1>3. reclaims' = Prune(Append(reclaims, t), t) /\ now' = now
  <2>1. ExpiryComplete(t)
    BY ReclaimDrops
  <2>. QED BY <1>2, <2>1 DEF Reclaim
<1>4. PICK e : Thins(reclaims, history, S, e)
  BY DEF CInv, Complete
<1>5. history \in Seq(Nat)
  BY DEF CInv
<1>6. \E f : Thins(Append(reclaims, t), Append(history, t), S, f)
  <2>. HIDE DEF S
  <2>. QED BY <1>1, <1>4, <1>5, ThinsAppend
<1>7. /\ Append(reclaims, t) \in Seq(Nat) /\ history' \in Seq(Nat)
      /\ Len(history') = Len(history) + 1 /\ Len(history) \in Nat
      /\ history'[Len(history) + 1] = t
      /\ \A i \in 1 .. Len(history) : history'[i] = history[i] /\ history[i] \in Nat
  BY SMTT(20), <1>1, <1>5
<1>8. \A i \in 1 .. Len(history') : i \in 1 .. Len(history) \/ i = Len(history) + 1
  BY SMTT(20), <1>7
<1>9. \A i \in 1 .. Len(history') : history'[i] <= now
  BY <1>1, <1>7, <1>8 DEF CInv
<1>10. \A i, j \in 1 .. Len(history') : i < j => history'[i] <= history'[j] + Lag
  <2>. TAKE i, j \in 1 .. Len(history')
  <2>. HAVE i < j
  <2>1. i \in 1 .. Len(history)
    BY SMTT(20), <1>7, <1>8
  <2>2. CASE j = Len(history) + 1
    BY SMTT(20), <1>1, <1>7, <2>1, <2>2 DEF CInv
  <2>3. CASE j \in 1 .. Len(history)
    BY <1>7, <2>1, <2>3 DEF CInv
  <2>. QED BY <1>8, <2>2, <2>3
<1>11. Complete(history', Append(reclaims, t), now)
  BY <1>6 DEF Complete
<1>12. Complete(history', reclaims', now')
  BY <1>1, <1>3, <1>7, <1>9, <1>11, PruneComplete
<1>. QED BY <1>3, <1>7, <1>9, <1>10, <1>12 DEF CInv

LEMMA CInvStep ==
  ASSUME IInv, CInv, [HistoryNext]_historyVars
  PROVE  CInv'
<1>1. CASE UNCHANGED historyVars
  BY <1>1, QuietComplete DEF historyVars, vars
<1>2. CASE QuietStep /\ UNCHANGED history
  <2>1. ASSUME NEW r \in Requests, NEW t \in Stamps,
               AcceptGranted(r, t) \/ AcceptRefused(r, t)
                 \/ \E s \in Saves : AcceptUnsaved(r, t, s)
        PROVE  CInv'
    BY <1>2, <2>1, QuietComplete DEF AcceptGranted, AcceptRefused, AcceptUnsaved
  <2>2. ASSUME NEW t \in Stamps, AskChurning(t) PROVE CInv'
    BY <1>2, <2>2, QuietComplete DEF AskChurning
  <2>3. CASE \E id \in Ids, s \in Saves : Release(id, s)
    BY <1>2, <2>3, QuietComplete DEF Release
  <2>4. CASE \E t \in Stamps, s \in Saves : Expire(t, s)
    BY <1>2, <2>4, QuietComplete DEF Expire
  <2>5. CASE CorruptJournal
    BY <1>2, <2>5, QuietComplete DEF CorruptJournal
  <2>6. CASE \E s \in Saves : Restore(s)
    BY <1>2, <2>6, QuietComplete DEF Restore
  <2>7. CASE \E s \in Saves : RestoreUnreadable(s)
    BY <1>2, <2>7, QuietComplete DEF RestoreUnreadable
  <2>8. CASE Tick
    BY <1>2, <2>8, TickComplete
  <2>. QED BY <1>2, <2>1, <2>2, <2>3, <2>4, <2>5, <2>6, <2>7, <2>8 DEF QuietStep
<1>3. CASE Crash /\ history' = <<>>
  BY <1>3, CrashComplete
<1>4. ASSUME NEW t \in Stamps, ReclaimStep(t), history' = Append(history, t)
      PROVE  CInv'
  BY <1>4, ReclaimComplete
<1>. QED BY <1>1, <1>2, <1>3, <1>4 DEF HistoryNext

(* The manager with its history is the manager.                            *)
LEMMA HistoryIsManager == HistorySpec => Spec
<1>1. HistoryInit => Init
  BY DEF HistoryInit
<1>2. [HistoryNext]_historyVars => [Next]_vars
  BY DEF HistoryNext, Next, historyVars
<1>. QED BY <1>1, <1>2, PTL DEF HistorySpec, Spec

LEMMA HistoryInvariance == HistorySpec => [](IInv /\ CInv)
<1>1. IInv /\ CInv /\ [HistoryNext]_historyVars => CInv'
  BY CInvStep
<1>. QED BY <1>1, CInvInit, HistoryIsManager, Invariance, PTL DEF HistorySpec

(***************************************************************************)
(* However often the history is pruned, and by calls whose clock readings  *)
(* are however late, the manager counts the churn that there was and       *)
(* refuses for a cooldown whenever it should (prune, retention).           *)
(***************************************************************************)
THEOREM PruningNeverLoses == HistorySpec => []PruningLosesNothing
<1>1. IInv /\ CInv => PruningLosesNothing
  <2>. SUFFICES ASSUME IInv, CInv PROVE PruningLosesNothing
    OBVIOUS
  <2>1. /\ now \in Nat /\ reclaims \in Seq(Nat) /\ history \in Seq(Nat)
        /\ Complete(history, reclaims, now)
        /\ MinTerm \in Int /\ ChurnWindow \in Int /\ ChurnBudget \in Int
    BY SMTT(20), ConstantsAssumption DEF IInv, TypeOK, CInv
  <2>. DEFINE cut == now - ChurnWindow
  <2>2. CountAfter(reclaims, cut) = CountAfter(history, cut) /\ CountAfter(reclaims, cut) \in Nat
    <3>1. cut \in Int /\ cut >= now - Retention
      BY SMTT(20), <2>1, RetentionCovers
    <3>. HIDE DEF cut
    <3>. QED BY SMTT(20), <2>1, <3>1, CompleteCounts
  <2>3. Churning(reclaims, now) = Churning(history, now)
    BY <2>2 DEF Churning
  <2>4. ASSUME InCooldown(history, now) PROVE InCooldown(reclaims, now)
    <3>. DEFINE last == Len(history)
                d == CooldownFor(history, now)
    <3>1. MinTerm > 0 /\ history # <<>> /\ history[last] + d > now
      BY <2>4 DEF InCooldown
    <3>2. last \in 1 .. last /\ history[last] \in Nat
      BY SMTT(20), <2>1, <3>1
    <3>3. d \in Int /\ d <= Retention
      BY <2>2, <3>1, CooldownBounds
    <3>4. CooldownFor(reclaims, now) = d
      BY <2>2 DEF CooldownFor
    <3>. HIDE DEF d
    <3>5. history[last] \in After(now - Retention)
      BY SMTT(20), <2>1, <3>1, <3>2, <3>3, RetentionCovers DEF After
    <3>6. PICK e : Thins(reclaims, history, After(now - Retention), e)
      BY <2>1 DEF Complete
    <3>7. /\ reclaims # <<>> /\ e[Len(reclaims)] \in last .. last
          /\ reclaims[Len(reclaims)] = history[e[Len(reclaims)]]
      <4>. DEFINE S == After(now - Retention)
      <4>. HIDE DEF S
      <4>. QED BY SMTT(20), <2>1, <3>2, <3>5, <3>6, ThinsLast DEF S
    <3>8. reclaims[Len(reclaims)] = history[last]
      <4>1. e[Len(reclaims)] = last
        BY SMTT(20), <3>2, <3>7
      <4>. QED BY <3>7, <4>1
    <3>. QED BY <3>1, <3>4, <3>7, <3>8 DEF InCooldown
  <2>. QED BY <2>3, <2>4 DEF PruningLosesNothing
<1>. QED BY <1>1, HistoryInvariance, PTL

(***************************************************************************)
(* For every window, budget and term, and every lateness of the callers'   *)
(* clocks: no grant comes sooner than MinTerm after a reclamation, nor     *)
(* with the churn budget spent.  A churn window shorter than MinTerm is    *)
(* left out: cooldownFor then cuts a repeated cooldown to the window, and  *)
(* of three reclamations recorded out of order the last may be too old for *)
(* that cut cooldown while another is within MinTerm.                      *)
(***************************************************************************)
THEOREM LendingAlwaysBacksOff ==
  ASSUME ~Autonomy \/ ChurnWindow <= 0 \/ MinTerm <= ChurnWindow
  PROVE  HistorySpec => LendingBacksOff
<1>1. ASSUME IInv, CInv, NEW r \in Requests, NEW t \in Stamps, AcceptGranted(r, t)
      PROVE  /\ \A i \in DOMAIN history : history[i] + MinTerm <= t + Lag
             /\ ChurnBudget > 0 /\ ChurnWindow > 0 =>
                  CountAfter(history, t + Lag - ChurnWindow) < ChurnBudget
  <2>. DEFINE h == Prune(reclaims, t)
              S == After(now - Retention)
  <2>1. /\ now \in Nat /\ reclaims \in Seq(Nat) /\ history \in Seq(Nat)
        /\ Complete(history, reclaims, now) /\ \A i \in 1 .. Len(history) : history[i] <= now
        /\ MinTerm \in Int /\ ChurnWindow \in Int /\ ChurnBudget \in Int /\ Lag \in Nat
    BY SMTT(20), <1>1, ConstantsAssumption DEF IInv, TypeOK, CInv
  <2>2. t \in Nat /\ t <= now /\ now <= t + Lag
    BY SMTT(20), <2>1 DEF Stamps
  <2>3. h \in Seq(Nat) /\ Complete(history, h, now)
    BY <2>1, <2>2, PruneType, PruneComplete
  <2>4. ~Churning(h, t) /\ ~InCooldown(h, t)
    BY <1>1 DEF AcceptGranted, Acceptable
  <2>. HIDE DEF h
  <2>5. CountAfter(h, t - ChurnWindow) \in Nat
    <3>1. t - ChurnWindow \in Int /\ t - ChurnWindow <= t - ChurnWindow
      BY SMTT(20), <2>1, <2>2
    <3>. QED BY <2>3, <3>1, CountNatural
  <2>6. ASSUME NEW i \in DOMAIN history PROVE history[i] + MinTerm <= t + Lag
    <3>0. i \in 1 .. Len(history) /\ history[i] \in Nat /\ history[i] <= now
      BY SMTT(20), <2>1
    <3>1. SUFFICES ASSUME history[i] + MinTerm > t + Lag PROVE FALSE
      BY SMTT(20), <2>1, <2>2, <3>0
    <3>2. MinTerm > 0 /\ history[i] \in S
      BY SMTT(20), <2>1, <2>2, <3>0, <3>1, RetentionCovers DEF After
    <3>3. PICK e : Thins(h, history, S, e)
      BY <2>3 DEF Complete
    <3>. HIDE DEF S
    <3>. DEFINE k == e[Len(h)]
    <3>4. h # <<>> /\ k \in i .. Len(history) /\ h[Len(h)] = history[k]
      BY SMTT(20), <2>1, <2>3, <3>0, <3>2, <3>3, ThinsLast
    <3>5. k \in 1 .. Len(history) /\ history[k] \in Nat /\ history[i] <= history[k] + Lag
      <4>. HIDE DEF k
      <4>1. k \in 1 .. Len(history) /\ history[k] \in Nat /\ (i = k \/ i < k)
        BY SMTT(20), <2>1, <3>0, <3>4
      <4>. QED BY SMTT(20), <1>1, <2>1, <3>0, <4>1 DEF CInv
    <3>6. CooldownFor(h, t) \in Int /\ MinTerm <= CooldownFor(h, t)
      BY <2>5, <3>2, CooldownBounds
    <3>7. ~(history[k] + CooldownFor(h, t) > t)
      BY <2>4, <3>2, <3>4 DEF InCooldown
    <3>. DEFINE cool == CooldownFor(h, t)
                a == history[i]
                b == history[k]
    <3>8. /\ a \in Nat /\ b \in Nat /\ cool \in Int /\ MinTerm <= cool
          /\ a <= b + Lag /\ a + MinTerm > t + Lag /\ ~(b + cool > t)
      BY <3>0, <3>1, <3>5, <3>6, <3>7
    <3>. HIDE DEF cool, a, b
    <3>. QED BY SMTT(20), <2>1, <2>2, <3>8
  <2>7. ASSUME ChurnBudget > 0, ChurnWindow > 0
        PROVE  CountAfter(history, t + Lag - ChurnWindow) < ChurnBudget
    <3>. DEFINE c == t + Lag - ChurnWindow
                d == t - ChurnWindow
    <3>1. c \in Int /\ c >= now - Retention /\ d \in Int /\ d <= c
      BY SMTT(20), <2>1, <2>2, RetentionCovers
    <3>2. CountAfter(h, d) < ChurnBudget
      BY SMTT(20), <2>1, <2>4, <2>5, <2>7 DEF Churning
    <3>. HIDE DEF c, d
    <3>3. CountAfter(h, c) = CountAfter(history, c) /\ CountAfter(h, c) \in Nat
      BY SMTT(20), <2>1, <2>3, <3>1, CompleteCounts
    <3>4. CountAfter(h, c) <= CountAfter(h, d) /\ CountAfter(h, d) \in Nat
      BY <2>3, <3>1, CountNatural
    <3>. QED BY SMTT(20), <2>1, <3>2, <3>3, <3>4 DEF c
  <2>. QED BY <2>6, <2>7
<1>2. IInv /\ CInv => \A r \in Requests, t \in Stamps : AcceptGranted(r, t) =>
       /\ \A i \in DOMAIN history : history[i] + MinTerm <= t + Lag
       /\ ChurnBudget > 0 /\ ChurnWindow > 0 =>
            CountAfter(history, t + Lag - ChurnWindow) < ChurnBudget
  BY <1>1
<1>. QED BY <1>2, HistoryInvariance, PTL DEF LendingBacksOff
=============================================================================
