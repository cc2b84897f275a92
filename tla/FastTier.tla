------------------------------ MODULE FastTier ------------------------------
(***************************************************************************)
(* The node-local cache of internal/fasttier: slabs (the extents of        *)
(* leases, cut into slots), the resident blocks and where they are, the    *)
(* record of first reads that decides admission, eviction and revocation.  *)
(*                                                                         *)
(* The cache has one mutex.  What runs under it is one step here; a read   *)
(* of the device runs outside it, in steps of the reader (ReadPath).       *)
(* ReclaimOrder is called by nobody in the repository, so the order of the *)
(* slabs is the order in which they were added.                            *)
(***************************************************************************)
EXTENDS Collections, Functions

CONSTANTS
  Slabs,           \* extents the cache may be given; one opened again is another slab
  SlotsPerSlab,    \* whole blocks an extent holds
  BlockUnits,      \* units of data in a block: a device read may see a slot half rewritten
  FirstReadLimit,  \* first reads remembered
  Blank,           \* what a slot never written holds
  DeviceFaults     \* whether the device may fail a read or a write

ASSUME TierAssumption == SlotsPerSlab \in Nat /\ BlockUnits \in Nat \ {0} /\ FirstReadLimit \in Nat

VARIABLES
  order,       \* the slabs held, in the order eviction prefers them
  revoked,     \* the slabs taken back
  free,        \* per slab, its free slots, the next one to be taken last
  disk,        \* per slab and slot, the units on the device
  resident,    \* the resident blocks: key -> slab, slot, length, generation
  recency,     \* the resident keys, least recently used first
  first,       \* the keys read once, oldest first
  generation   \* occupancies of slots so far

tierVars == <<order, revoked, free, disk, resident, recency, first, generation>>

Slots == 0 .. SlotsPerSlab - 1

TierInit ==
  /\ order = <<>> /\ revoked = {}
  /\ free = [s \in Slabs |-> <<>>]
  /\ disk = [s \in Slabs |-> [n \in Slots |-> [u \in 1 .. BlockUnits |-> Blank]]]
  /\ resident = <<>> /\ recency = <<>> /\ first = <<>>
  /\ generation = 0

-----------------------------------------------------------------------------
(* AddCapacity, with openSlab: the highest slot number is freed first, so  *)
(* slot 0 is the first to be taken.                                        *)
AddCapacity(s) ==
  /\ s \notin revoked \cup Range(order)
  /\ order' = Append(order, s)
  /\ free' = [free EXCEPT ![s] = [i \in 1 .. SlotsPerSlab |-> SlotsPerSlab - i]]
  /\ UNCHANGED <<revoked, disk, resident, recency, first, generation>>

On(s) == {k \in DOMAIN resident : resident[k].slab = s}

WithoutKeys(ks) == Restrict(resident, DOMAIN resident \ ks)
NotRecent(ks) == Kept(recency, DOMAIN resident \ ks)

(* Revoke: the slab unreadable, every block on it forgotten, the file      *)
(* closed, its free list gone with it.  It cannot refuse.                  *)
Revoke(s) ==
  /\ s \in Range(order)
  /\ revoked' = revoked \cup {s}
  /\ order' = Kept(order, Slabs \ {s})
  /\ resident' = WithoutKeys(On(s))
  /\ recency' = NotRecent(On(s))
  /\ free' = [free EXCEPT ![s] = <<>>]
  /\ UNCHANGED <<disk, first, generation>>

-----------------------------------------------------------------------------
(* The first half of Read, under the lock: the key becomes the most        *)
(* recently used and its placement is copied out.                          *)
Touch(k) ==
  /\ k \in DOMAIN resident
  /\ recency' = Append(NotRecent({k}), k)
  /\ UNCHANGED <<order, revoked, free, disk, resident, first, generation>>

(* Whether k still occupies what the reader was sent to.                   *)
Same(k, held) == k \in DOMAIN resident /\ resident[k].gen = held.gen

(* The second half of Read after the device failed: the block is dropped,  *)
(* and its slot goes back unless the slab has been revoked.                *)
DropUnread(k, held) ==
  IF Same(k, held)
    THEN /\ resident' = WithoutKeys({k})
         /\ recency' = NotRecent({k})
         /\ free' = IF held.slab \in revoked THEN free
                      ELSE [free EXCEPT ![held.slab] = Append(@, held.slot)]
         /\ UNCHANGED <<order, revoked, disk, first, generation>>
    ELSE UNCHANGED tierVars

-----------------------------------------------------------------------------
(* sawBefore and forget.                                                   *)
SawBefore(k) == k \in Range(first)
Remembered(k) ==
  CASE FirstReadLimit = 0 -> first
    [] FirstReadLimit > 0 /\ Len(first) >= FirstReadLimit -> Append(Tail(first), k)
    [] OTHER -> Append(first, k)
Forgotten(k) == Kept(first, Range(first) \ {k})

HasFree == {s \in Range(order) : free[s] # <<>>}
Occupied == {s \in Range(order) : On(s) # {}}

(* placeLocked with evictOneLocked: a free slot of the first slab that has *)
(* one; else, for a block somebody asked for, the slot of the least        *)
(* recently used block of the first slab that holds any.                   *)
NoPlace == [slab |-> Blank, slot |-> 0, victim |-> {}]
(* Mutant: a prediction may evict too.                                     *)
MayEvictAlways(prefetched) == TRUE
MayEvict(prefetched) == ~ prefetched
Place(prefetched) ==
  LET f == FirstOf(order, HasFree)
      o == FirstOf(order, Occupied)
      oldest == FirstOf(recency, On(o))
  IN  CASE HasFree # {} -> [slab |-> f, slot |-> free[f][Len(free[f])], victim |-> {}]
        [] HasFree = {} /\ MayEvict(prefetched) /\ Occupied # {} ->
             [slab |-> o, slot |-> resident[oldest].slot, victim |-> {oldest}]
        [] OTHER -> NoPlace

(* The slots left once the place is taken, and after a failed write.       *)
FreeAfter(p) ==
  IF p.victim = {} THEN [free EXCEPT ![p.slab] = SubSeq(@, 1, Len(@) - 1)] ELSE free
(* Mutant: a failed write loses its slot.                                  *)
FreeLost(p) == FreeAfter(p)
FreeGivenBack(p) ==
  [free EXCEPT ![p.slab] = IF p.victim = {} THEN @ ELSE Append(@, p.slot)]

Written(p, data) ==
  [disk EXCEPT ![p.slab][p.slot] =
     [u \in 1 .. BlockUnits |-> IF u <= Len(data) THEN data[u] ELSE @[u]]]

Stored(k, p, data) ==
  /\ generation' = generation + 1
  /\ resident' = [x \in (DOMAIN resident \ p.victim) \cup {k} |->
                    IF x = k THEN [slab |-> p.slab, slot |-> p.slot, length |-> Len(data),
                                   gen |-> generation + 1]
                             ELSE resident[x]]
  /\ recency' = Append(NotRecent(p.victim), k)
  /\ first' = Forgotten(k)
  /\ free' = FreeAfter(p)
  /\ disk' = Written(p, data)
  /\ UNCHANGED <<order, revoked>>

(* Mutant: the victim is forgotten once the write has succeeded.           *)
UnstoredKeepsVictim(p, data) ==
  /\ DeviceFaults
  /\ disk' = Written(p, data)
  /\ UNCHANGED <<order, revoked, free, resident, recency, first, generation>>
(* The write failed: the victim is gone all the same, the slot is free.    *)
Unstored(p, data) ==
  /\ DeviceFaults
  /\ resident' = WithoutKeys(p.victim)
  /\ recency' = NotRecent(p.victim)
  /\ free' = FreeGivenBack(p)
  /\ disk' = Written(p, data)
  /\ UNCHANGED <<order, revoked, first, generation>>

(* Admit.                                                                  *)
Admit(k, data, prefetched) ==
  LET p == Place(prefetched)
      wanted == prefetched \/ SawBefore(k)
  IN  \/ k \in DOMAIN resident /\ UNCHANGED tierVars
      \/ /\ k \notin DOMAIN resident /\ ~ wanted
         /\ first' = Remembered(k)
         /\ UNCHANGED <<order, revoked, free, disk, resident, recency, generation>>
      \/ k \notin DOMAIN resident /\ wanted /\ p = NoPlace /\ UNCHANGED tierVars
      \/ k \notin DOMAIN resident /\ wanted /\ p # NoPlace
         /\ (Stored(k, p, data) \/ Unstored(p, data))
=============================================================================
