---------------------------- MODULE LeaseManager ----------------------------
(***************************************************************************)
(* One node's lease manager (internal/lease) with its capacity accounting  *)
(* (internal/pool) and its journal file.  Manager.mu serialises the        *)
(* methods, so each exported method is one action; what is concurrent is   *)
(* the order of the calls, the timestamps they carry, the failures of the  *)
(* journal and the crashes in between.                                     *)
(***************************************************************************)
EXTENDS Collections, FiniteSets

CONSTANTS
  Requests,           \* the leases callers may propose: records of type Request
  Tenants,            \* tenant names
  NodeTenant,         \* "system:node", exempt from the quota
  NoTenant,           \* the empty tenant name
  Needs,              \* byte counts a reclaim may be asked for
  Capacity,           \* bytes the device provides
  OthersHold,         \* bytes a start may find others holding on the filesystem
  Unmeasured,         \* whether a start may fail to find out
  DeclaredReserve,    \* the reserve the operator declared, 0 = none
  GuaranteedPercent,  \* Config.GuaranteedFraction, in hundredths
  QuotaBorrowed,      \* Quota.Borrowed, 0 = unbounded
  QuotaGuaranteed,    \* Quota.Guaranteed, 0 = unbounded
  ReclaimWithin,      \* the elastic class's deadline
  MinTerm,            \* base post-reclaim cooldown
  ChurnWindow,
  ChurnBudget,
  Autonomy,           \* whether the cooldown adapts
  Saves,              \* BOUND: the outcomes of FileJournal.Save a behaviour meets
  Lag,                \* BOUND: how old a caller's timestamp may be once it holds the lock
  MaxClock            \* BOUND: the last instant of a behaviour

VARIABLES
  now,       \* the agent's clock
  reserved,  \* acct.Reserved
  borrowed,  \* acct.Borrowed
  leases,    \* Manager.leases: lease id -> lease
  reclaims,  \* Manager.reclaims: instants of past reclamations
  restored,  \* Manager.restored
  journal    \* the journal file: whether it parses, and the leases it records

vars == <<now, reserved, borrowed, leases, reclaims, restored, journal>>

-----------------------------------------------------------------------------
(* Classes, in reclaim order, and leases.                                  *)

Opportunistic == 0
Elastic == 1
Guaranteed == 2
Valid(class) == class \in Opportunistic..Guaranteed

Request == [id: Nat, tenant: Tenants, class: Int, size: Int, term: Int]
Lease == [tenant: Tenants, class: Int, size: Int, grantedAt: Int, term: Int]

Ids == {r.id : r \in Requests}
IsBook(ls) == DOMAIN ls \subseteq Ids /\ ls \in [DOMAIN ls -> Lease]
NoLeases == [id \in {} |-> {}]

ASSUME ConstantsAssumption ==
  /\ Requests \subseteq Request
  /\ NodeTenant \in Tenants /\ NoTenant \in Tenants
  /\ Needs \subseteq Int
  /\ Capacity \in Nat
  /\ OthersHold \subseteq 0..Capacity /\ OthersHold # {}
  /\ Unmeasured \in BOOLEAN /\ DeclaredReserve \in 0..Capacity
  /\ GuaranteedPercent \in 0..100
  /\ QuotaBorrowed \in Nat /\ QuotaGuaranteed \in Nat
  /\ QuotaBorrowed > 0 => QuotaGuaranteed <= QuotaBorrowed
  /\ ReclaimWithin \in Int /\ MinTerm \in Int /\ ChurnWindow \in Int
  /\ ChurnBudget \in Int /\ Autonomy \in BOOLEAN
  /\ Saves \subseteq {"saved", "failed", "unsynced"}
  /\ Lag \in Nat /\ MaxClock \in Nat

Expired(l, t) == t >= l.grantedAt + l.term

(* The bytes held by the leases S of the book ls.                          *)
SizeOf(ls) == [id \in DOMAIN ls |-> ls[id].size]
Total(ls, S) == SumOver(SizeOf(ls), S)

(* sortByReclaimOrder: cheapest class, then oldest, then smallest id.      *)
Before(ls, a, b) ==
  \/ ls[a].class < ls[b].class
  \/ /\ ls[a].class = ls[b].class
     /\ \/ ls[a].grantedAt < ls[b].grantedAt
        \/ ls[a].grantedAt = ls[b].grantedAt /\ a < b

Ahead(ls, S, id) == {k \in S : Before(ls, k, id)}

Keep(ls, S) == [id \in S |-> ls[id]]

-----------------------------------------------------------------------------
(* The capacity arithmetic (internal/pool).                                *)

(***************************************************************************)
(* What a start reserves.  The filesystem can deliver what is free on it   *)
(* and what this node's own pool already occupies there, so the rest is    *)
(* what others hold; a declared reserve stands where it is larger, and     *)
(* alone where the filesystem would not say.  With neither there is no     *)
(* start.                                                                  *)
(***************************************************************************)
Deliverable(others) == Capacity - others
ReservedChoices ==
  {Larger(DeclaredReserve, Capacity - Deliverable(o)) : o \in OthersHold}
    \cup {d \in {DeclaredReserve} : Unmeasured /\ d > 0}

Free == Capacity - reserved - borrowed
CanLend(n) == n >= 0 /\ Free >= n
CanReturn(n) == n >= 0 /\ n <= borrowed

(***************************************************************************)
(* How far a walk over the leases S in reclaim order gets before the       *)
(* accounting refuses to take a lease's bytes back (ErrOverRelease stops   *)
(* the walk with that lease and every later one still held).               *)
(***************************************************************************)
Returnable(S) ==
  {id \in S : Total(leases, Ahead(leases, S, id) \cup {id}) <= borrowed}

-----------------------------------------------------------------------------
(* The journal file.                                                       *)

(***************************************************************************)
(* Save writes a temporary file, renames it over the journal and flushes   *)
(* the directory.  "failed" is an error before or at the rename, which     *)
(* leaves the old journal; "unsynced" is an error of the directory flush,  *)
(* which Save reports although the new journal is already in place.        *)
(***************************************************************************)
Save(ls, s) ==
  journal' = IF s = "failed" THEN journal
             ELSE [readable |-> TRUE, leases |-> ls]

-----------------------------------------------------------------------------
(* Churn protection.                                                       *)

CountAfter(h, cutoff) == Cardinality({i \in DOMAIN h : h[i] > cutoff})

(* Mutant: one reclamation more than the budget before lending stops.      *)
ChurningLate(h, t) ==
  /\ ChurnBudget > 0 /\ ChurnWindow > 0
  /\ CountAfter(h, t - ChurnWindow) > ChurnBudget

Churning(h, t) ==
  /\ ChurnBudget > 0 /\ ChurnWindow > 0
  /\ CountAfter(h, t - ChurnWindow) >= ChurnBudget

(* MinTerm doubled up to n times, until it reaches the window.             *)
Doubled(n) ==
  LET d[i \in 0 .. n] == IF i = 0 THEN MinTerm
                         ELSE IF d[i - 1] < ChurnWindow THEN 2 * d[i - 1] ELSE d[i - 1]
  IN  d[n]

(***************************************************************************)
(* The cooldown doubles once per reclaim in the window after the first and *)
(* stops at the window.                                                    *)
(***************************************************************************)
CooldownFor(h, t) ==
  LET n == CountAfter(h, t - ChurnWindow)
  IN  IF MinTerm <= 0 THEN 0
      ELSE IF n <= 1 \/ ~Autonomy \/ ChurnWindow <= 0 THEN MinTerm
      ELSE Smaller(ChurnWindow, Doubled(n - 1))

(* Mutant: the cooldown is not consulted.                                  *)
NeverInCooldown(h, t) == FALSE

InCooldown(h, t) ==
  /\ MinTerm > 0 /\ h # <<>>
  /\ h[Len(h)] + CooldownFor(h, t) > t

(* Mutants: history kept for one of the two decisions made from it.        *)
WindowRetention == ChurnWindow
CooldownRetention == MinTerm

Retention == Larger(MinTerm, ChurnWindow)
Prune(h, t) ==
  IF Retention <= 0 THEN <<>> ELSE Kept(h, {i \in Int : i > t - Retention})

-----------------------------------------------------------------------------
(* Bounds on what one tenant, and the guaranteed class, may hold.          *)

OfTenant(ls, tenant) == {id \in DOMAIN ls : ls[id].tenant = tenant}
OfClass(ls, class) == {id \in DOMAIN ls : ls[id].class = class}

Bounded == QuotaBorrowed > 0 \/ QuotaGuaranteed > 0

(* Mutant: what is held is compared, without what is asked for.            *)
HeldWithinQuota(r) ==
  Bounded /\ r.tenant # NodeTenant =>
    LET held == OfTenant(leases, r.tenant)
    IN  /\ r.tenant # NoTenant
        /\ QuotaBorrowed > 0 => Total(leases, held) <= QuotaBorrowed
        /\ r.class = Guaranteed /\ QuotaGuaranteed > 0 =>
             Total(leases, held \cap OfClass(leases, Guaranteed)) <= QuotaGuaranteed

WithinQuota(r) ==
  Bounded /\ r.tenant # NodeTenant =>
    LET held == OfTenant(leases, r.tenant)
    IN  /\ r.tenant # NoTenant
        /\ QuotaBorrowed > 0 => Total(leases, held) + r.size <= QuotaBorrowed
        /\ r.class = Guaranteed /\ QuotaGuaranteed > 0 =>
             Total(leases, held \cap OfClass(leases, Guaranteed)) + r.size
               <= QuotaGuaranteed

GuaranteedLimit == (Capacity * GuaranteedPercent) \div 100
GuaranteedTotal == Total(leases, OfClass(leases, Guaranteed))

(* Mutant: likewise for the guaranteed cap.                                *)
HeldWithinCap(r) == r.class = Guaranteed => GuaranteedTotal <= GuaranteedLimit

WithinGuaranteedCap(r) ==
  r.class = Guaranteed => GuaranteedTotal + r.size <= GuaranteedLimit

-----------------------------------------------------------------------------
(* Accept.                                                                 *)

(* The instants a caller may have read from the clock before it got mu.    *)
Stamps == {t \in (now - Lag)..now : t >= 0}

Duplicate(r) == r.id \in DOMAIN leases

Acceptable(r, t) ==
  LET h == Prune(reclaims, t)
  IN  /\ restored
      /\ Valid(r.class) /\ r.term > 0 /\ ~Duplicate(r)
      /\ ~Churning(h, t) /\ ~InCooldown(h, t)
      /\ r.class = Elastic => ReclaimWithin > 0
      /\ WithinQuota(r) /\ WithinGuaranteedCap(r)
      /\ CanLend(r.size)

Granted(r, t) ==
  [tenant |-> r.tenant, class |-> r.class, size |-> r.size,
   grantedAt |-> t, term |-> r.term]

WithLease(r, t) ==
  [id \in DOMAIN leases \cup {r.id} |->
     IF id = r.id THEN Granted(r, t) ELSE leases[id]]

(* Mutant: the grant is honoured without a record of it.                   *)
AcceptUnrecorded(r, t) ==
  /\ Acceptable(r, t)
  /\ leases' = WithLease(r, t)
  /\ borrowed' = borrowed + r.size
  /\ reclaims' = Prune(reclaims, t)
  /\ UNCHANGED <<now, reserved, restored, journal>>

AcceptGranted(r, t) ==
  /\ Acceptable(r, t)
  /\ leases' = WithLease(r, t)
  /\ borrowed' = borrowed + r.size
  /\ Save(WithLease(r, t), "saved")
  /\ reclaims' = Prune(reclaims, t)
  /\ UNCHANGED <<now, reserved, restored>>

(* Mutant: the rollback forgets the lease and not its bytes.               *)
AcceptHalfUndone(r, t, s) ==
  /\ s # "saved"
  /\ Acceptable(r, t)
  /\ Save(WithLease(r, t), s)
  /\ borrowed' = borrowed + r.size
  /\ reclaims' = Prune(reclaims, t)
  /\ UNCHANGED <<now, reserved, leases, restored>>

(* The record could not be written, so the grant is undone in memory.      *)
AcceptUnsaved(r, t, s) ==
  /\ s # "saved"
  /\ Acceptable(r, t)
  /\ Save(WithLease(r, t), s)
  /\ reclaims' = Prune(reclaims, t)
  /\ UNCHANGED <<now, reserved, borrowed, leases, restored>>

AcceptRefused(r, t) ==
  /\ ~Acceptable(r, t)
  /\ reclaims' = Prune(reclaims, t)
  /\ UNCHANGED <<now, reserved, borrowed, leases, restored, journal>>

(* Churning, the question alone: it prunes before it answers.              *)
AskChurning(t) ==
  /\ reclaims' = Prune(reclaims, t)
  /\ UNCHANGED <<now, reserved, borrowed, leases, restored, journal>>

-----------------------------------------------------------------------------
(* Release, Reclaim and Expire.                                            *)

(* Forget the leases D, whose bytes the accounting takes back.             *)
Forget(D) ==
  /\ leases' = Keep(leases, DOMAIN leases \ D)
  /\ borrowed' = borrowed - Total(leases, D)

Release(id, s) ==
  /\ id \in DOMAIN leases
  /\ CanReturn(leases[id].size)
  /\ Forget({id})
  /\ Save(Keep(leases, DOMAIN leases \ {id}), s)
  /\ UNCHANGED <<now, reserved, reclaims, restored>>

ExpiredAt(t) == {id \in DOMAIN leases : Expired(leases[id], t)}

(* What expireLocked drops, and whether it got through every expired lease. *)
ExpiredDropped(t) == Returnable(ExpiredAt(t))
ExpiryComplete(t) == ExpiredDropped(t) = ExpiredAt(t)

(* Mutant: the ladder does not stop at guarantees.                         *)
LadderOfAll(t) == DOMAIN leases \ ExpiredAt(t)

(***************************************************************************)
(* The ladder: the live leases that are not guaranteed, in reclaim order,  *)
(* each taken only while what was freed before it is less than the need.   *)
(***************************************************************************)
Ladder(t) == {id \in DOMAIN leases \ ExpiredAt(t) : leases[id].class # Guaranteed}

(* Mutant: one more lease is taken once the need is met exactly.           *)
LadderOverrun(need, t) ==
  LET freed == Total(leases, ExpiredAt(t))
      rungs == Ladder(t)
  IN  {id \in rungs :
         /\ freed + Total(leases, Ahead(leases, rungs, id)) <= need
         /\ freed + Total(leases, Ahead(leases, rungs, id) \cup {id}) <= borrowed}

LadderDropped(need, t) ==
  LET freed == Total(leases, ExpiredAt(t))
      rungs == Ladder(t)
  IN  {id \in rungs :
         /\ freed + Total(leases, Ahead(leases, rungs, id)) < need
         /\ freed + Total(leases, Ahead(leases, rungs, id) \cup {id}) <= borrowed}

Dropped(need, t) ==
  ExpiredDropped(t) \cup IF ExpiryComplete(t) THEN LadderDropped(need, t) ELSE {}

Reclaim(need, t, s) ==
  LET D == Dropped(need, t)
  IN  /\ need > 0
      /\ D # {}
      /\ Forget(D)
      /\ IF ExpiryComplete(t)
         THEN /\ reclaims' = Prune(Append(reclaims, t), t)
              /\ Save(Keep(leases, DOMAIN leases \ D), s)
         ELSE UNCHANGED <<reclaims, journal>>
      /\ UNCHANGED <<now, reserved, restored>>

Expire(t, s) ==
  LET D == ExpiredDropped(t)
  IN  /\ D # {}
      /\ Forget(D)
      /\ Save(Keep(leases, DOMAIN leases \ D), s)
      /\ UNCHANGED <<now, reserved, reclaims, restored>>

-----------------------------------------------------------------------------
(* Crash and replay.                                                       *)

(* The process ends; the next one starts with what it then measures.       *)
Crash ==
  /\ leases' = NoLeases /\ borrowed' = 0 /\ reclaims' = <<>>
  /\ restored' = FALSE
  /\ reserved' \in ReservedChoices
  /\ UNCHANGED <<now, journal>>

(* An operator's edit or a bad block leaves a file Load cannot parse.      *)
CorruptJournal ==
  /\ journal.readable
  /\ journal' = [journal EXCEPT !.readable = FALSE]
  /\ UNCHANGED <<now, reserved, borrowed, leases, reclaims, restored>>

(***************************************************************************)
(* Replaying the journal lends for each live lease in file order, which is *)
(* the reclaim order it was saved in, and skips each that no longer fits:  *)
(* a lease is skipped exactly when the ones kept before it leave too       *)
(* little room.                                                            *)
(***************************************************************************)
Refitted(live, kept) ==
  LET ls == journal.leases
      room == Capacity - reserved
  IN  /\ Total(ls, kept) <= room
      /\ \A id \in live \ kept :
           ls[id].size < 0 \/ Total(ls, Ahead(ls, kept, id)) + ls[id].size > room

Restore(s) ==
  LET live == {id \in DOMAIN journal.leases : ~Expired(journal.leases[id], now)}
  IN  /\ ~restored
      /\ journal.readable
      /\ \E kept \in SUBSET live :
           /\ Refitted(live, kept)
           /\ leases' = Keep(journal.leases, kept)
           /\ borrowed' = Total(journal.leases, kept)
           /\ IF kept = DOMAIN journal.leases
              THEN restored' = TRUE /\ UNCHANGED journal
              ELSE /\ restored' = (s = "saved")
                   /\ Save(Keep(journal.leases, kept), s)
      /\ UNCHANGED <<now, reserved, reclaims>>

(* Load failed, on a file it cannot parse or on a read error of a file      *)
(* that is fine: start empty and rewrite it.                                *)
RestoreUnreadable(s) ==
  /\ ~restored
  /\ leases' = NoLeases /\ borrowed' = 0
  /\ Save(NoLeases, s)
  /\ restored' = (s = "saved")
  /\ UNCHANGED <<now, reserved, reclaims>>

Tick ==
  /\ now < MaxClock
  /\ now' = now + 1
  /\ UNCHANGED <<reserved, borrowed, leases, reclaims, restored, journal>>

-----------------------------------------------------------------------------
Init ==
  /\ now = 0
  /\ reserved \in ReservedChoices
  /\ borrowed = 0
  /\ leases = NoLeases
  /\ reclaims = <<>>
  /\ restored = FALSE
  /\ journal = [readable |-> TRUE, leases |-> NoLeases]

ReclaimStep(t) == \E need \in Needs, s \in Saves : Reclaim(need, t, s)

(* The steps that leave Manager.reclaims alone but for pruning it.         *)
QuietStep ==
  \/ \E r \in Requests, t \in Stamps : AcceptGranted(r, t)
  \/ \E r \in Requests, t \in Stamps, s \in Saves : AcceptUnsaved(r, t, s)
  \/ \E r \in Requests, t \in Stamps : AcceptRefused(r, t)
  \/ \E t \in Stamps : AskChurning(t)
  \/ \E id \in Ids, s \in Saves : Release(id, s)
  \/ \E t \in Stamps, s \in Saves : Expire(t, s)
  \/ CorruptJournal
  \/ \E s \in Saves : Restore(s)
  \/ \E s \in Saves : RestoreUnreadable(s)
  \/ Tick

Next == QuietStep \/ Crash \/ \E t \in Stamps : ReclaimStep(t)

Spec == Init /\ [][Next]_vars

-----------------------------------------------------------------------------
(* Properties.                                                             *)

(* Every variable keeps the type its Go field has.                         *)
TypeOK ==
  /\ now \in 0..MaxClock
  /\ reserved \in 0..Capacity
  /\ borrowed \in Nat
  /\ IsBook(leases)
  /\ reclaims \in Seq(Nat)
  /\ restored \in BOOLEAN
  /\ journal = [readable |-> journal.readable, leases |-> journal.leases]
  /\ journal.readable \in BOOLEAN /\ IsBook(journal.leases)

(***************************************************************************)
(* The accounting and the lease table never part: borrowed is exactly the  *)
(* bytes of the leases held, and together with what the node reserves it   *)
(* fits the device, after any mix of grants, failed saves, reclaims,       *)
(* crashes and replays onto a device that lends less than it used to.      *)
(***************************************************************************)
BooksBalance ==
  /\ borrowed = Total(leases, DOMAIN leases)
  /\ reserved + borrowed <= Capacity

(***************************************************************************)
(* A crash at any instant loses no record of a lease that is held: while   *)
(* the journal parses it records every held lease as it was granted.       *)
(* ("Journalled before it is honoured", Accept.)  The journal may record   *)
(* more, after a failed save.                                              *)
(***************************************************************************)
JournalCovers ==
  journal.readable =>
    \A id \in DOMAIN leases :
      id \in DOMAIN journal.leases /\ journal.leases[id] = leases[id]

(***************************************************************************)
(* Guaranteed leases, which reclaim cannot take, never pin more than the   *)
(* fraction of the device the configuration allows, not even after a       *)
(* replay of a journal written by a save that reported failure.            *)
(***************************************************************************)
GuaranteeCapHeld == GuaranteedTotal <= GuaranteedLimit

(***************************************************************************)
(* Once a quota is set no tenant but the node itself holds more than its   *)
(* share of either kind, and no lease is held by an unnamed tenant.        *)
(***************************************************************************)
QuotaHeldIn(ls) ==
  Bounded => \A tenant \in Tenants \ {NodeTenant} :
    LET held == OfTenant(ls, tenant)
    IN  /\ tenant = NoTenant => held = {}
        /\ QuotaBorrowed > 0 => Total(ls, held) <= QuotaBorrowed
        /\ QuotaGuaranteed > 0 =>
             Total(ls, held \cap OfClass(ls, Guaranteed)) <= QuotaGuaranteed
TenantQuotaHeld == QuotaHeldIn(leases)

(***************************************************************************)
(* What one reclamation may do, whatever order grants, failed saves and    *)
(* restarts left the table in (Reclaim): every expired lease goes; no      *)
(* live guarantee goes; a live lease goes only if what goes before it does *)
(* not already meet the need, and before every dearer one; and if the need *)
(* is not met then only live guarantees are left.                          *)
(***************************************************************************)
LadderRespected(need, t) ==
  LET gone == DOMAIN leases \ DOMAIN leases'
      left == DOMAIN leases'
      live == {id \in gone : ~Expired(leases[id], t)}
  IN  /\ \A id \in left : leases'[id] = leases[id] /\ ~Expired(leases[id], t)
      /\ \A id \in live :
           /\ leases[id].class # Guaranteed
           /\ Total(leases, (gone \ live) \cup Ahead(leases, live, id)) < need
           /\ \A k \in left : Before(leases, id, k)
      /\ Total(leases, gone) < need =>
           \A id \in left : leases[id].class = Guaranteed
ReclaimLadder ==
  [][\A need \in Needs, t \in Stamps, s \in Saves :
       Reclaim(need, t, s) => LadderRespected(need, t)]_vars

(***************************************************************************)
(* A live guarantee is lost in two ways only: its holder releases it, or   *)
(* the process dies and the replay cannot bring it back ("Guaranteed       *)
(* leases are never released before their term expires", Reclaim).         *)
(***************************************************************************)
GuaranteeHonoured ==
  [][\A id \in DOMAIN leases \ DOMAIN leases' :
       leases[id].class = Guaranteed /\ ~Expired(leases[id], now) =>
         \/ ~restored \/ ~restored'
         \/ \E s \in Saves : Release(id, s)]_vars

(***************************************************************************)
(* What the Class constants promise ("Guaranteed capacity is not touched   *)
(* before its term expires"), asked of a replay: it does not drop a live   *)
(* guarantee as unfittable while it keeps cheaper leases whose bytes would *)
(* have made room for it.                                                  *)
(***************************************************************************)
RestoreSparesGuarantees ==
  [][~restored /\ restored' /\ journal.readable /\ leases' # NoLeases =>
       \A id \in DOMAIN journal.leases \ DOMAIN leases' :
         LET l == journal.leases[id]
             cheaper == {k \in DOMAIN leases' : leases'[k].class # Guaranteed}
         IN  l.class = Guaranteed /\ ~Expired(l, now) =>
               Free' + Total(leases', cheaper) < l.size]_vars
=============================================================================
