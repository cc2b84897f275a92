------------------------------ MODULE ReadPath ------------------------------
(***************************************************************************)
(* The read path of internal/dataserver over the fast tier: readers        *)
(* assemble a range block by block, a block comes from the tier or, on a   *)
(* miss, from the durable backend, and one worker fetches ahead what the   *)
(* stride detector predicts.  The slabs under the tier come and go as the  *)
(* agent grants and reclaims leases.                                       *)
(*                                                                         *)
(* A device read of the tier happens outside the tier's lock, in two       *)
(* halves here, so that a slot rewritten meanwhile is seen torn.  A        *)
(* backend read touches nothing another thread can see, so it is one step  *)
(* with the admission that follows it.  An object is a tenant's object:    *)
(* the tenant is part of every key and of every stream.                    *)
(***************************************************************************)
EXTENDS FastTier, Prefetch

CONSTANTS
  Readers, Requests, SizeOf, MaxRead, MaxOffset, Nobody,  \* as in ObjectReads
  AheadQueue,  \* predictions waiting to be fetched
  MaxReads,    \* bound: reads each reader starts
  MaxFaults,   \* bound: failures of the store, callers that give up
  MaxClock     \* bound: of the clock patience is measured with

VARIABLES
  asked, answer, faults,  \* as in ObjectReads
  step,       \* per reader: "idle", "block", "half", "rest", "finish", "fetch" or "tail"
  at,         \* per reader, the index of the block being answered
  out,        \* per reader, what is assembled so far
  held,       \* per reader, the placement it was sent to
  data,       \* per reader, what the device gave; Nobody when it failed
  sizes,      \* whether the backend still reports object sizes
  streams,    \* per object, what the detector knows
  ahead,      \* the queue of predictions
  worker,     \* the prediction being fetched
  now,
  reads,      \* per reader, reads started
  evidence    \* history: reads that offered a block to the tier, a prediction counting as two

readerVars == <<asked, answer, faults, step, at, out, held, data>>
aheadVars == <<streams, ahead, worker>>
pathVars == <<tierVars, readerVars, aheadVars, sizes, now, reads, evidence>>

Objects == DOMAIN SizeOf
Key(object, index) == <<object, index>>
Blocks(object) == {i \in 0 .. SizeOf[object] : i * BlockUnits < SizeOf[object]}
Keys == UNION {{Key(o, i) : i \in Blocks(o)} : o \in Objects}

ASSUME PathAssumption ==
  /\ SizeOf \in [Objects -> Nat] /\ MaxRead \in Nat /\ MaxOffset \in Nat
  /\ \A r \in Readers : /\ Requests[r] \subseteq [object: Objects, offset: Int, length: Int]
                        /\ Nobody \notin Requests[r]

Reference == INSTANCE ObjectReads WITH asked <- asked, answer <- answer, faults <- faults

PathInit ==
  /\ TierInit
  /\ Reference!Init
  /\ step = [r \in Readers |-> "idle"]
  /\ at = [r \in Readers |-> 0]
  /\ out = [r \in Readers |-> <<>>]
  /\ held = [r \in Readers |-> Nobody]
  /\ data = [r \in Readers |-> Nobody]
  /\ sizes = TRUE
  /\ streams = [o \in Objects |-> NewStream]
  /\ ahead = <<>> /\ worker = Nobody
  /\ now = 0 /\ reads = [r \in Readers |-> 0]
  /\ evidence = [k \in Keys |-> 0]

-----------------------------------------------------------------------------
(* ReadRange.                                                              *)

BlockOf(r) == Key(asked[r].object, at[r])
Start(r) == at[r] * BlockUnits
End(r) == asked[r].offset + asked[r].length

(* The checks before anything is read, and the first block.                *)
Begin(r) ==
  /\ step[r] = "idle" /\ reads[r] < MaxReads[r]
  /\ reads' = [reads EXCEPT ![r] = @ + 1]
  /\ \E q \in Requests[r] :
       LET known == Reference!Reference(q)
       IN  IF known.status = "refused" \/ q.length = 0
             THEN /\ answer' = [answer EXCEPT ![r] = known]
                  /\ UNCHANGED <<asked, step, at, out, held, data>>
             ELSE /\ answer' = [answer EXCEPT ![r] = Nobody]
                  /\ asked' = [asked EXCEPT ![r] = q]
                  /\ step' = [step EXCEPT ![r] = "block"]
                  /\ at' = [at EXCEPT ![r] = q.offset \div BlockUnits]
                  /\ out' = [out EXCEPT ![r] = <<>>]
                  /\ UNCHANGED <<held, data>>
  /\ UNCHANGED <<faults, tierVars, aheadVars, sizes, now, evidence>>

Answer(r, a) ==
  /\ answer' = [answer EXCEPT ![r] = a]
  /\ asked' = [asked EXCEPT ![r] = Nobody]
  /\ step' = [step EXCEPT ![r] = "idle"]
  /\ at' = [at EXCEPT ![r] = 0]
  /\ out' = [out EXCEPT ![r] = <<>>]
  /\ held' = [held EXCEPT ![r] = Nobody]
  /\ data' = [data EXCEPT ![r] = Nobody]

(* The part of a block the read asked for.                                 *)
Part(r, d) ==
  LET lo == Larger(asked[r].offset - Start(r), 0)
      hi == Smaller(End(r) - Start(r), Len(d))
  IN  SubSeq(d, lo + 1, hi)

(* One block in hand: past the end of the object, the next block, or the   *)
(* answer.                                                                 *)
Deliver(r, d) ==
  LET all == out[r] \o Part(r, d)
  IN  CASE Len(d) < BlockUnits /\ End(r) > Start(r) + Len(d) ->
             Answer(r, Reference!Bad("range"))
        [] ~ (Len(d) < BlockUnits /\ End(r) > Start(r) + Len(d))
             /\ Start(r) + BlockUnits < End(r) ->
             /\ out' = [out EXCEPT ![r] = all]
             /\ at' = [at EXCEPT ![r] = @ + 1]
             /\ step' = [step EXCEPT ![r] = "block"]
             /\ held' = [held EXCEPT ![r] = Nobody]
             /\ data' = [data EXCEPT ![r] = Nobody]
             /\ UNCHANGED <<asked, answer>>
        [] OTHER -> IF Len(all) = asked[r].length THEN Answer(r, Reference!Ok(all))
                      ELSE Answer(r, Reference!Bad("failed"))

(* The caller gave up: ctx is checked before every block.                  *)
Cancelled(r) ==
  /\ step[r] = "block" /\ faults < MaxFaults
  /\ faults' = faults + 1
  /\ Answer(r, Reference!Bad("failed"))
  /\ UNCHANGED <<tierVars, aheadVars, sizes, now, reads, evidence>>

-----------------------------------------------------------------------------
(* blockAt.                                                                *)

(* predict: what the detector makes of the read, and what fits the queue.  *)
Predict(object, index) ==
  LET seen == Observe(streams[object], index, now)
      room == AheadQueue - Len(ahead)
      next == [i \in DOMAIN seen.next |-> Key(object, seen.next[i])]
  IN  /\ streams' = [streams EXCEPT ![object] = seen.stream]
      /\ ahead' = ahead \o SubSeq(next, 1, Smaller(room, Len(next)))
      /\ UNCHANGED worker

(* A miss in the tier.                                                     *)
(* Mutant: the miss records the read, and so does Admit.                   *)
MissRecorded(k) ==
  /\ k \notin DOMAIN resident
  /\ first' = IF SawBefore(k) THEN first ELSE Remembered(k)
  /\ UNCHANGED <<order, revoked, free, disk, resident, recency, generation>>
Miss(k) == k \notin DOMAIN resident /\ UNCHANGED tierVars

(* The lookup in the tier.                                                 *)
Lookup(r) ==
  LET k == BlockOf(r)
  IN  /\ step[r] = "block"
      /\ Predict(asked[r].object, at[r])
      /\ \/ /\ Touch(k)
            /\ held' = [held EXCEPT ![r] = resident[k]]
            /\ step' = [step EXCEPT ![r] = "half"]
         \/ /\ Miss(k)
            /\ step' = [step EXCEPT ![r] = "fetch"]
            /\ UNCHANGED held
      /\ UNCHANGED <<asked, answer, faults, at, out, data, sizes, now, reads, evidence>>

(* The device read, outside the lock: a slab revoked before it fails it,   *)
(* one revoked after it began does not, since the descriptor is still held. *)
ReadHalf(r) ==
  /\ step[r] = "half"
  /\ \/ /\ held[r].slab \notin revoked
        /\ data' = [data EXCEPT ![r] = <<disk[held[r].slab][held[r].slot][1]>>]
        /\ step' = [step EXCEPT ![r] = "rest"]
     \/ /\ held[r].slab \in revoked \/ DeviceFaults
        /\ data' = [data EXCEPT ![r] = Nobody]
        /\ step' = [step EXCEPT ![r] = "finish"]
  /\ UNCHANGED <<asked, answer, faults, at, out, held, tierVars, aheadVars, sizes, now, reads, evidence>>

ReadRest(r) ==
  /\ step[r] = "rest"
  /\ data' = [data EXCEPT ![r] = @ \o [i \in 1 .. held[r].length - 1 |->
                                          disk[held[r].slab][held[r].slot][i + 1]]]
  /\ step' = [step EXCEPT ![r] = "finish"]
  /\ UNCHANGED <<asked, answer, faults, at, out, held, tierVars, aheadVars, sizes, now, reads, evidence>>

(* Mutant: the generation is not compared.                                 *)
HitIfResident(k, h) == k \in DOMAIN resident
Hit(k, h) == Same(k, h)

(* Back under the lock: a hit only if the block still is what was read.    *)
FinishRead(r) ==
  LET k == BlockOf(r)
  IN  /\ step[r] = "finish"
      /\ \/ /\ data[r] # Nobody /\ Hit(k, held[r])
            /\ Deliver(r, data[r])
            /\ UNCHANGED tierVars
         \/ /\ \/ data[r] # Nobody /\ ~ Hit(k, held[r]) /\ UNCHANGED tierVars
               \/ data[r] = Nobody /\ DropUnread(k, held[r])
            /\ step' = [step EXCEPT ![r] = "fetch"]
            /\ held' = [held EXCEPT ![r] = Nobody]
            /\ data' = [data EXCEPT ![r] = Nobody]
            /\ UNCHANGED <<asked, answer, at, out>>
      /\ UNCHANGED <<faults, aheadVars, sizes, now, reads, evidence>>

(* Whether the store answers a range that ends there, and not with a range *)
(* error.                                                                  *)
InRange(object, to) == to <= SizeOf[object]
Whole(object, index) == InRange(object, (index + 1) * BlockUnits)
BlockData(object, index) ==
  Reference!Bytes(object, index * BlockUnits, Smaller((index + 1) * BlockUnits, SizeOf[object]))

(* admit, for a block that is whole or the exact tail.                     *)
Offer(r) ==
  LET k == BlockOf(r)
      d == BlockData(asked[r].object, at[r])
  IN  /\ Admit(k, d, FALSE)
      /\ evidence' = [evidence EXCEPT ![k] = Smaller(@ + 1, 2)]
      /\ Deliver(r, d)

(* The backend after a miss: a whole block, or the range error that makes  *)
(* it the last one.  Then, where the backend reports sizes, the tail       *)
(* (tailBySize); else the narrowed read, which is never admitted.          *)
Fetch(r) ==
  LET object == asked[r].object
      whole == Whole(object, at[r])
      narrow == End(r) - Start(r)
  IN  /\ step[r] = "fetch"
      /\ \/ whole /\ Offer(r)
         \/ /\ ~ whole /\ sizes
            /\ step' = [step EXCEPT ![r] = "tail"]
            /\ UNCHANGED <<asked, answer, at, out, held, data, tierVars, evidence>>
         \/ /\ ~ whole /\ ~ sizes
            /\ IF narrow < BlockUnits /\ InRange(object, End(r))
                 THEN Deliver(r, Reference!Bytes(object, Start(r), End(r)))
                 ELSE Answer(r, Reference!Bad("range"))
            /\ UNCHANGED <<tierVars, evidence>>
      /\ UNCHANGED <<faults, aheadVars, sizes, now, reads>>

TailBySize(r) ==
  /\ step[r] = "tail" /\ sizes
  /\ \/ InRange(asked[r].object, End(r)) /\ Offer(r)
     \/ /\ ~ InRange(asked[r].object, End(r))
        /\ Answer(r, Reference!Bad("range"))
        /\ UNCHANGED <<tierVars, evidence>>
  /\ UNCHANGED <<faults, aheadVars, sizes, now, reads>>

(* Another read learnt meanwhile that the store refuses sizes.             *)
TailRefused(r) ==
  /\ step[r] = "tail" /\ ~ sizes
  /\ faults' = faults + 1
  /\ Answer(r, Reference!Bad("failed"))
  /\ UNCHANGED <<tierVars, aheadVars, sizes, now, reads, evidence>>

(* The backend fails, its retries spent.                                   *)
FetchFails(r) ==
  /\ step[r] \in {"fetch", "tail"} /\ faults < MaxFaults
  /\ faults' = faults + 1
  /\ Answer(r, Reference!Bad("failed"))
  /\ UNCHANGED <<tierVars, aheadVars, sizes, now, reads, evidence>>

(* A size it denies to this credential narrows it (driver.Backend.narrow). *)
Narrowed(r) ==
  /\ step[r] = "tail" /\ faults < MaxFaults
  /\ faults' = faults + 1
  /\ sizes' = FALSE
  /\ Answer(r, Reference!Bad("failed"))
  /\ UNCHANGED <<tierVars, aheadVars, now, reads, evidence>>

-----------------------------------------------------------------------------
(* fetchAhead: the one worker.                                             *)
TakePrediction ==
  /\ worker = Nobody /\ ahead # <<>>
  /\ ahead' = Tail(ahead)
  /\ worker' = IF Head(ahead) \in DOMAIN resident THEN Nobody ELSE Head(ahead)
  /\ UNCHANGED <<tierVars, readerVars, streams, sizes, now, reads, evidence>>

(* fetchOne: a block that is before the object, or not whole, or a store   *)
(* that fails, is dropped; the others are offered as predictions.          *)
FetchPrediction ==
  LET object == worker[1]
      index == worker[2]
  IN  /\ worker # Nobody
      /\ worker' = Nobody
      /\ \/ UNCHANGED <<tierVars, evidence>>
         \/ /\ worker \in Keys /\ Whole(object, index)
            /\ Admit(worker, BlockData(object, index), TRUE)
            /\ evidence' = [evidence EXCEPT ![worker] = 2]
      /\ UNCHANGED <<readerVars, streams, ahead, sizes, now, reads>>

-----------------------------------------------------------------------------
(* The agent gives the tier an extent, or takes one back (OnGranted and    *)
(* OnReleasing in cmd/forebay-agent/serve.go), and time passes.            *)
Granted(s) == AddCapacity(s) /\ UNCHANGED <<readerVars, aheadVars, sizes, now, reads, evidence>>
Releasing(s) == Revoke(s) /\ UNCHANGED <<readerVars, aheadVars, sizes, now, reads, evidence>>
(* Time is only ever compared with that of a prediction still outstanding. *)
Tick ==
  /\ now < MaxClock /\ \E o \in Objects : streams[o].outstanding # <<>>
  /\ now' = now + 1
  /\ UNCHANGED <<tierVars, readerVars, aheadVars, sizes, reads, evidence>>

ReaderStep(r) ==
  \/ Lookup(r) \/ ReadHalf(r) \/ ReadRest(r) \/ FinishRead(r)
  \/ Fetch(r) \/ TailBySize(r) \/ TailRefused(r)

PathNext ==
  \/ \E r \in Readers : Begin(r) \/ ReaderStep(r) \/ Cancelled(r)
                     \/ FetchFails(r) \/ Narrowed(r)
  \/ TakePrediction \/ FetchPrediction \/ Tick
  \/ \E s \in Slabs : Granted(s) \/ Releasing(s)

PathSpec == PathInit /\ [][PathNext]_pathVars

-----------------------------------------------------------------------------
(* Every read is answered as the store itself would have answered it, and  *)
(* fails only with the store or its caller: no slot rewritten, slab        *)
(* revoked, device error, eviction or prediction under a reader is ever    *)
(* seen by it (Cache.Read, blockAt, ReadRange).                            *)
AnswersRight == Reference!Spec

(* Every element of S once in the sequence s, and nothing else.            *)
OnceEach(s, S) == Range(s) = S /\ \A i, j \in DOMAIN s : s[i] = s[j] => i = j

(* No slot of a slab is lost, handed out twice, or both free and occupied, *)
(* and every resident block can be evicted, whatever reads and writes      *)
(* failed on the way (take, release, Admit, evictOneLocked).               *)
SlotsConserved ==
  /\ OnceEach(recency, DOMAIN resident)
  /\ \A s \in Range(order) :
       /\ \A k, l \in On(s) : resident[k].slot = resident[l].slot => k = l
       /\ OnceEach(free[s], Slots \ {resident[k].slot : k \in On(s)})

(* A block the tier calls resident is the block on the device: a write     *)
(* that failed over a victim leaves nothing that still names the slot.     *)
ResidentBlocksIntact ==
  \A k \in DOMAIN resident : \A u \in 1 .. resident[k].length :
    disk[resident[k].slab][resident[k].slot][u] = <<k[1], k[2] * BlockUnits + u - 1>>

(* "It is kept on the second read, or when something asked for it ahead of *)
(* time": no single pass over an object enters the tier (Admit).           *)
KeptOnlyIfWanted == \A k \in DOMAIN resident : evidence[k] = 2

(* "A prediction may take space nothing is using and may never take space  *)
(* from a block somebody read" (placeLocked).                              *)
PredictionsEvictNothing ==
  [][worker # Nobody /\ worker' = Nobody => DOMAIN resident \subseteq DOMAIN resident']_pathVars
=============================================================================
