------------------------ MODULE AgentServicesProofs -------------------------
(***************************************************************************)
(* Proofs about the two services of the agent that lean on its leases: the *)
(* stager, which keeps checkpoints under them, and the watch, which takes  *)
(* capacity back.  Nothing of one is used for the other.                   *)
(***************************************************************************)
EXTENDS Checkpoint, PressureWatch, CollectionsProofs

(* Zenon proves most leaves; the others name the SMT solver.               *)
USE ZenonT(20)

(* Checkpoint, for any calls, requests, backends and number of faults and  *)
(* crashes.                                                                *)

(* Distinct checkpoints are sent to distinct objects; a checkpoint that is *)
(* sent again is sent under the same name.                                 *)
OwnObjects ==
  \A c, d \in Calls : Request[c].object = Request[d].object =>
    Id(c) = Id(d) /\ Request[c].content = Request[d].content

(* The fast tier stays out of the extents of durable checkpoints.          *)
DurablesUncached ==
  \A c \in Calls : Request[c].ack = "durable" => Id(c) \notin CachedIds

(* A call that holds its lease, one that has staged its checkpoint, and    *)
(* one that has told the backend.                                          *)
Holding(c) == step[c] \in {"write", "undo", "open", "put", "copy", "release"}
Uploading(c) == step[c] \in {"open", "put", "copy"}
Uploaded(c) == step[c] \in {"release", "wait"} \/ answer[c] = "durable"

InStore(c) == store[Request[c].object] = Request[c].content
InExtent(c) == Id(c) \in DOMAIN leases /\ extent[Id(c)] = Request[c].content

StagingTypes ==
  /\ backend \in {"file", "s3"}
  /\ DOMAIN extent = Ids /\ DOMAIN store = Objects
  /\ DOMAIN step = Calls /\ DOMAIN answer = Calls
  /\ crashes \in Nat
  /\ overwritten \subseteq CachedIds

(* A lease is of one call at most.                                         *)
Exclusive ==
  /\ \A c \in Calls : Holding(c) => Id(c) \in DOMAIN leases
  /\ \A c, d \in Calls : Holding(c) /\ Holding(d) /\ Id(c) = Id(d) => c = d

(* What is uploaded is the checkpoint, or what the tier put over it.       *)
Whole ==
  \A c \in Calls : Uploading(c) =>
    /\ extent[Id(c)] \in {Request[c].content, Cached}
    /\ Id(c) \notin overwritten => extent[Id(c)] = Request[c].content

(* An object being copied is partial, and nobody else's.                   *)
Copying ==
  \A c \in Calls : step[c] = "copy" => backend = "file" /\ store[Request[c].object] = Partial

Stored == \A c \in Calls : Uploaded(c) => InStore(c) \/ Id(c) \in overwritten

Acknowledged ==
  \A c \in Calls :
    /\ answer[c] = "durable" => Request[c].ack = "durable" /\ step[c] = "over"
    /\ answer[c] = "staged" =>
         /\ Request[c].ack = "staged"
         /\ Uploading(c) \/ step[c] \in {"release", "wait", "over"}
         /\ \/ InStore(c) \/ Id(c) \in outlived \cup overwritten
            \/ InExtent(c) /\ \A d \in Calls \ {c} : Holding(d) => Id(d) # Id(c)

StagingInv ==
  StagingTypes /\ Exclusive /\ Whole /\ Copying /\ Stored /\ Acknowledged /\ NoPartialObject

-----------------------------------------------------------------------------
(* The steps of a call.                                                    *)
USE CheckpointConfig DEF Id, Goto, Say, Over, UploadFailed, OwnObjects, StagingInv

(* Check refuses before anything is reserved.                              *)
LEMMA CheckKeeps ==
  ASSUME OwnObjects, StagingInv, NEW c \in Calls, Check(c)
  PROVE  StagingInv'
<1>1. StagingTypes'
  BY DEF StagingTypes, Ids, Objects, Check
<1>2. Exclusive'
  BY SMTT(20) DEF StagingTypes, Exclusive, Holding, Check
<1>3. Whole'
  BY SMTT(20) DEF StagingTypes, Exclusive, Whole, Holding, Uploading, Ids, Check
<1>4. Copying'
  BY SMTT(20) DEF StagingTypes, Exclusive, Copying, Holding, Objects, Check
<1>5. Stored'
  BY SMTT(20) DEF StagingTypes, Exclusive, Whole, Copying, Stored, Holding, Uploading, Uploaded, InStore, Objects, Acknowledged, Check
<1>6. Acknowledged'
  BY SMTT(20) DEF StagingTypes, Exclusive, Whole, Copying, Stored, Acknowledged, Holding, Uploading, Uploaded, InStore, InExtent, Objects, Ids, Check
<1>7. NoPartialObject'
  BY SMTT(20) DEF StagingTypes, Copying, NoPartialObject, Objects, Check
<1>. QED BY <1>1, <1>2, <1>3, <1>4, <1>5, <1>6, <1>7

(* Grant: a lease is of one call, since a name in use is refused.          *)
LEMMA ReserveKeeps ==
  ASSUME OwnObjects, StagingInv, NEW c \in Calls, Reserve(c)
  PROVE  StagingInv'
<1>1. StagingTypes'
  BY DEF StagingTypes, Ids, Objects, Reserve, Granted, Grantable, Fine
<1>2. Exclusive'
  BY SMTT(20) DEF StagingTypes, Exclusive, Holding, Reserve, Granted, Grantable, Fine
<1>3. Whole'
  BY SMTT(20) DEF StagingTypes, Exclusive, Whole, Holding, Uploading, Ids, Reserve, Granted, Grantable, Fine
<1>4. Copying'
  BY SMTT(20) DEF StagingTypes, Exclusive, Copying, Holding, Objects, Reserve, Granted, Grantable, Fine
<1>5. Stored'
  BY SMTT(20) DEF StagingTypes, Exclusive, Whole, Copying, Stored, Holding, Uploading, Uploaded, InStore, Objects, Acknowledged, Reserve, Granted, Grantable, Fine
<1>6. Acknowledged'
  BY SMTT(20) DEF StagingTypes, Exclusive, Whole, Copying, Stored, Acknowledged, Holding, Uploading, Uploaded, InStore, InExtent, Objects, Ids, Reserve, Granted, Grantable, Fine
<1>7. NoPartialObject'
  BY SMTT(20) DEF StagingTypes, Copying, NoPartialObject, Objects, Reserve, Granted, Grantable, Fine
<1>. QED BY <1>1, <1>2, <1>3, <1>4, <1>5, <1>6, <1>7

(* stageTo: the extent is the caller's alone.                              *)
LEMMA StageToKeeps ==
  ASSUME OwnObjects, StagingInv, NEW c \in Calls, StageTo(c)
  PROVE  StagingInv'
<1>1. StagingTypes'
  BY DEF StagingTypes, Ids, Objects, StageTo
<1>2. Exclusive'
  BY SMTT(20) DEF StagingTypes, Exclusive, Holding, StageTo
<1>3. Whole'
  BY SMTT(20) DEF StagingTypes, Exclusive, Whole, Holding, Uploading, Ids, StageTo
<1>4. Copying'
  BY DEF StagingTypes, Exclusive, Copying, Holding, Objects, StageTo
<1>5. Stored'
  BY DEF StagingTypes, Exclusive, Whole, Copying, Stored, Holding, Uploading, Uploaded, InStore, Objects, Acknowledged, StageTo
<1>6. Acknowledged'
  BY SMTT(20) DEF StagingTypes, Exclusive, Whole, Copying, Stored, Acknowledged, Holding, Uploading, Uploaded, InStore, InExtent, Objects, Ids, StageTo
<1>7. NoPartialObject'
  BY DEF StagingTypes, Copying, NoPartialObject, Objects, StageTo
<1>. QED BY <1>1, <1>2, <1>3, <1>4, <1>5, <1>6, <1>7

LEMMA StageToFailsKeeps ==
  ASSUME OwnObjects, StagingInv, NEW c \in Calls, StageToFails(c)
  PROVE  StagingInv'
<1>1. StagingTypes'
  BY DEF StagingTypes, Ids, Objects, StageToFails
<1>2. Exclusive'
  BY SMTT(20) DEF StagingTypes, Exclusive, Holding, StageToFails
<1>3. Whole'
  BY SMTT(20) DEF StagingTypes, Exclusive, Whole, Holding, Uploading, Ids, StageToFails
<1>4. Copying'
  BY DEF StagingTypes, Exclusive, Copying, Holding, Objects, StageToFails
<1>5. Stored'
  BY DEF StagingTypes, Exclusive, Whole, Copying, Stored, Holding, Uploading, Uploaded, InStore, Objects, Acknowledged, StageToFails
<1>6. Acknowledged'
  BY SMTT(20) DEF StagingTypes, Exclusive, Whole, Copying, Stored, Acknowledged, Holding, Uploading, Uploaded, InStore, InExtent, Objects, Ids, StageToFails
<1>7. NoPartialObject'
  BY DEF StagingTypes, Copying, NoPartialObject, Objects, StageToFails
<1>. QED BY <1>1, <1>2, <1>3, <1>4, <1>5, <1>6, <1>7

LEMMA UndoKeeps ==
  ASSUME OwnObjects, StagingInv, NEW c \in Calls, Undo(c)
  PROVE  StagingInv'
<1>1. StagingTypes'
  BY DEF StagingTypes, Ids, Objects, Undo, release, Released, Restrict
<1>2. Exclusive'
  BY DEF StagingTypes, Exclusive, Holding, Undo, release, Released, Restrict
<1>3. Whole'
  BY SMTT(20) DEF StagingTypes, Exclusive, Whole, Holding, Uploading, Ids, Undo, release, Released, Restrict
<1>4. Copying'
  BY DEF StagingTypes, Exclusive, Copying, Holding, Objects, Undo, release, Released, Restrict
<1>5. Stored'
  BY DEF StagingTypes, Exclusive, Whole, Copying, Stored, Holding, Uploading, Uploaded, InStore, Objects, Acknowledged, Undo, release, Released, Restrict
<1>6. Acknowledged'
  BY SMTT(20) DEF StagingTypes, Exclusive, Whole, Copying, Stored, Acknowledged, Holding, Uploading, Uploaded, InStore, InExtent, Objects, Ids, Undo, release, Released, Restrict
<1>7. NoPartialObject'
  BY DEF StagingTypes, Copying, NoPartialObject, Objects, Undo, release, Released, Restrict
<1>. QED BY <1>1, <1>2, <1>3, <1>4, <1>5, <1>6, <1>7

(* durable: the upload, by either driver.                                  *)
LEMMA OpenKeeps ==
  ASSUME OwnObjects, StagingInv, NEW c \in Calls, Open(c)
  PROVE  StagingInv'
<1>1. StagingTypes'
  BY DEF StagingTypes, Ids, Objects, Open
<1>2. Exclusive'
  BY SMTT(20) DEF StagingTypes, Exclusive, Holding, Open
<1>3. Whole'
  BY DEF StagingTypes, Exclusive, Whole, Holding, Uploading, Ids, Open
<1>4. Copying'
  BY SMTT(20) DEF StagingTypes, Exclusive, Copying, Holding, Objects, Open
<1>5. Stored'
  BY SMTT(20) DEF StagingTypes, Exclusive, Whole, Copying, Stored, Holding, Uploading, Uploaded, InStore, Objects, Acknowledged, Open
<1>6. Acknowledged'
  BY SMTT(20) DEF StagingTypes, Exclusive, Whole, Copying, Stored, Acknowledged, Holding, Uploading, Uploaded, InStore, InExtent, Objects, Ids, Open
<1>7. NoPartialObject'
  BY SMTT(20) DEF StagingTypes, Copying, NoPartialObject, Objects, Open
<1>. QED BY <1>1, <1>2, <1>3, <1>4, <1>5, <1>6, <1>7

LEMMA CreateKeeps ==
  ASSUME OwnObjects, StagingInv, NEW c \in Calls, Create(c)
  PROVE  StagingInv'
<1>1. StagingTypes'
  BY DEF StagingTypes, Ids, Objects, Create
<1>2. Exclusive'
  BY SMTT(20) DEF StagingTypes, Exclusive, Holding, Create
<1>3. Whole'
  BY DEF StagingTypes, Exclusive, Whole, Holding, Uploading, Ids, Create
<1>4. Copying'
  BY SMTT(20) DEF StagingTypes, Exclusive, Copying, Holding, Objects, Create
<1>5. Stored'
  BY SMTT(20) DEF StagingTypes, Exclusive, Whole, Copying, Stored, Holding, Uploading, Uploaded, InStore, Objects, Acknowledged, Create
<1>6. Acknowledged'
  BY SMTT(20) DEF StagingTypes, Exclusive, Whole, Copying, Stored, Acknowledged, Holding, Uploading, Uploaded, InStore, InExtent, Objects, Ids, Create
<1>7. NoPartialObject'
  BY SMTT(20) DEF StagingTypes, Copying, NoPartialObject, Objects, Create
<1>. QED BY <1>1, <1>2, <1>3, <1>4, <1>5, <1>6, <1>7

LEMMA CopyKeeps ==
  ASSUME OwnObjects, StagingInv, NEW c \in Calls, Copy(c)
  PROVE  StagingInv'
<1>1. StagingTypes'
  BY DEF StagingTypes, Ids, Objects, Copy, CopyFailed
<1>2. Exclusive'
  BY SMTT(20) DEF StagingTypes, Exclusive, Holding, Copy, CopyFailed
<1>3. Whole'
  BY DEF StagingTypes, Exclusive, Whole, Holding, Uploading, Ids, Copy, CopyFailed
<1>4. Copying'
  BY SMTT(20) DEF StagingTypes, Exclusive, Copying, Holding, Objects, Copy, CopyFailed
<1>5. Stored'
  BY SMTT(20) DEF StagingTypes, Exclusive, Whole, Copying, Stored, Holding, Uploading, Uploaded, InStore, Objects, Acknowledged, Copy, CopyFailed
<1>6. Acknowledged'
  BY SMTT(20) DEF StagingTypes, Exclusive, Whole, Copying, Stored, Acknowledged, Holding, Uploading, Uploaded, InStore, InExtent, Objects, Ids, Copy, CopyFailed
<1>7. NoPartialObject'
  <2>1. /\ crashes' = crashes
        /\ \A d \in Calls : step[d] = "copy" /\ d # c => step'[d] = "copy"
        /\ \A o \in Objects : o # Request[c].object => store'[o] = store[o]
    BY DEF StagingTypes, Copy, CopyFailed
  <2>2. extent[Id(c)] # Partial /\ Nothing # Partial
    BY DEF Whole, Uploading, Partial, Cached, Copy
  <2>3. store'[Request[c].object] \in {extent[Id(c)], Nothing}
    BY SMTT(20) DEF StagingTypes, Objects, Copy, CopyFailed
  <2>. QED BY SMTT(20), <2>1, <2>2, <2>3 DEF NoPartialObject, Copying
<1>. QED BY <1>1, <1>2, <1>3, <1>4, <1>5, <1>6, <1>7

LEMMA PutKeeps ==
  ASSUME OwnObjects, StagingInv, NEW c \in Calls, Put(c)
  PROVE  StagingInv'
<1>1. StagingTypes'
  BY DEF StagingTypes, Ids, Objects, Put, PutUnanswered
<1>2. Exclusive'
  BY SMTT(20) DEF StagingTypes, Exclusive, Holding, Put, PutUnanswered
<1>3. Whole'
  BY DEF StagingTypes, Exclusive, Whole, Holding, Uploading, Ids, Put, PutUnanswered
<1>4. Copying'
  BY DEF StagingTypes, Exclusive, Copying, Holding, Objects, Put, PutUnanswered
<1>5. /\ step[c] = "put" /\ step'[c] \in {"put", "release", "over"}
      /\ UNCHANGED <<leases, extent, outlived, overwritten>>
      /\ \A d \in Calls \ {c} : step'[d] = step[d] /\ answer'[d] = answer[d]
      /\ answer'[c] \in {answer[c], "failed"}
  BY SMTT(20) DEF StagingTypes, Put, PutUnanswered
<1>6. /\ \A o \in Objects : o # Request[c].object => store'[o] = store[o]
      /\ store'[Request[c].object] \in {store[Request[c].object], extent[Id(c)]}
      /\ step'[c] = "release" => store'[Request[c].object] = extent[Id(c)]
  BY SMTT(20) DEF StagingTypes, Objects, Put, PutUnanswered
<1>7. Uploading(c) /\ \A d \in Calls : Request[d].object \in Objects
  BY <1>5 DEF Uploading, Objects
<1>8. Id(c) \in overwritten \/ extent[Id(c)] = Request[c].content
  BY <1>7 DEF Whole
<1>9. \A d \in Calls : InStore(d) => InStore(d)' \/ Id(d) \in overwritten
  <2>. SUFFICES ASSUME NEW d \in Calls, InStore(d) PROVE InStore(d)' \/ Id(d) \in overwritten
    OBVIOUS
  <2>1. CASE Request[d].object = Request[c].object
    <3>1. Id(d) = Id(c) /\ Request[d].content = Request[c].content
      BY <2>1
    <3>2. store'[Request[d].object] \in {store[Request[d].object], extent[Id(c)]}
      BY <1>6, <1>7
    <3>. QED BY <1>8, <3>1, <3>2 DEF InStore
  <2>2. CASE Request[d].object # Request[c].object
    BY <1>6, <1>7, <2>2 DEF InStore
  <2>. QED BY <2>1, <2>2
<1>10. Stored'
  <2>. SUFFICES ASSUME NEW d \in Calls, Uploaded(d)' PROVE InStore(d)' \/ Id(d) \in overwritten'
    BY DEF Stored
  <2>1. CASE d = c
    <3>1. answer'[c] # "durable" /\ step'[c] # "wait"
      BY <1>5 DEF Acknowledged
    <3>2. step'[c] = "release"
      BY <2>1, <3>1 DEF Uploaded
    <3>. QED BY <1>5, <1>6, <1>8, <2>1, <3>2 DEF InStore
  <2>2. CASE d # c
    BY <1>5, <1>9, <2>2 DEF Stored, Uploaded
  <2>. QED BY <2>1, <2>2
<1>11. Acknowledged'
  <2>. SUFFICES ASSUME NEW d \in Calls PROVE Acknowledged!(d)'
    BY DEF Acknowledged
  <2>1. \A e \in Calls : Holding(e)' => Holding(e)
    BY <1>5 DEF Holding
  <2>2. answer'[d] \in {answer[d], "failed"} /\ (InExtent(d) => InExtent(d)')
    BY <1>5 DEF InExtent
  <2>. QED BY SMTT(20), <1>5, <1>9, <2>1, <2>2 DEF Acknowledged, Uploading
<1>12. NoPartialObject'
  <2>1. /\ crashes' = crashes
        /\ \A d \in Calls : step[d] = "copy" /\ d # c => step'[d] = "copy"
        /\ \A o \in Objects : o # Request[c].object => store'[o] = store[o]
    BY DEF StagingTypes, Put, PutUnanswered
  <2>2. extent[Id(c)] # Partial /\ Nothing # Partial
    BY DEF Whole, Uploading, Partial, Cached, Put
  <2>3. store'[Request[c].object] \in {extent[Id(c)], store[Request[c].object]}
    BY SMTT(20) DEF StagingTypes, Objects, Put, PutUnanswered
  <2>. QED BY SMTT(20), <2>1, <2>2, <2>3 DEF NoPartialObject, Copying, Put, PutUnanswered
<1>. QED BY <1>1, <1>2, <1>3, <1>4, <1>10, <1>11, <1>12

(* The lease goes back once the backend has the checkpoint.                *)
LEMMA ReleaseDurableKeeps ==
  ASSUME OwnObjects, StagingInv, NEW c \in Calls, ReleaseDurable(c)
  PROVE  StagingInv'
<1>1. StagingTypes'
  BY DEF StagingTypes, Ids, Objects, ReleaseDurable, release, Released, Restrict
<1>2. Exclusive'
  BY DEF StagingTypes, Exclusive, Holding, ReleaseDurable, release, Released, Restrict
<1>3. Whole'
  BY SMTT(20) DEF StagingTypes, Exclusive, Whole, Holding, Uploading, Ids, ReleaseDurable, release, Released, Restrict
<1>4. Copying'
  BY DEF StagingTypes, Exclusive, Copying, Holding, Objects, ReleaseDurable, release, Released, Restrict
<1>5. Stored'
  BY DEF StagingTypes, Exclusive, Whole, Copying, Stored, Holding, Uploading, Uploaded, InStore, Objects, Acknowledged, ReleaseDurable, release, Released, Restrict
<1>6. Acknowledged'
  BY SMTT(20) DEF StagingTypes, Exclusive, Whole, Copying, Stored, Acknowledged, Holding, Uploading, Uploaded, InStore, InExtent, Objects, Ids, ReleaseDurable, release, Released, Restrict
<1>7. NoPartialObject'
  BY DEF StagingTypes, Copying, NoPartialObject, Objects, ReleaseDurable, release, Released, Restrict
<1>. QED BY <1>1, <1>2, <1>3, <1>4, <1>5, <1>6, <1>7

LEMMA WaitKeeps ==
  ASSUME OwnObjects, StagingInv, NEW c \in Calls, Wait(c)
  PROVE  StagingInv'
<1>1. StagingTypes'
  BY DEF StagingTypes, Ids, Objects, Wait, Cancelled
<1>2. Exclusive'
  BY SMTT(20) DEF StagingTypes, Exclusive, Holding, Wait, Cancelled
<1>3. Whole'
  BY DEF StagingTypes, Exclusive, Whole, Holding, Uploading, Ids, Wait, Cancelled
<1>4. Copying'
  BY SMTT(20) DEF StagingTypes, Exclusive, Copying, Holding, Objects, Wait, Cancelled
<1>5. Stored'
  BY DEF StagingTypes, Exclusive, Whole, Copying, Stored, Holding, Uploading, Uploaded, InStore, Objects, Acknowledged, Wait, Cancelled
<1>6. Acknowledged'
  BY SMTT(20) DEF StagingTypes, Exclusive, Whole, Copying, Stored, Acknowledged, Holding, Uploading, Uploaded, InStore, InExtent, Objects, Ids, Wait, Cancelled
<1>7. NoPartialObject'
  BY SMTT(20) DEF StagingTypes, Copying, NoPartialObject, Objects, Wait, Cancelled
<1>. QED BY <1>1, <1>2, <1>3, <1>4, <1>5, <1>6, <1>7

-----------------------------------------------------------------------------
(* The fast tier, time and restarts.                                       *)

LEMMA CacheBlockKeeps ==
  ASSUME StagingInv, NEW id \in Ids, CacheBlock(id)
  PROVE  StagingInv'
<1>1. /\ UNCHANGED <<backend, leases, tier, store, step, answer, crashes, outlived>>
      /\ id \in CachedIds /\ overwritten' = overwritten \cup {id}
      /\ extent' = [extent EXCEPT ![id] = Cached]
  BY DEF CacheBlock
<1>2. StagingTypes' /\ Exclusive' /\ Copying' /\ NoPartialObject'
  BY SMTT(20), <1>1 DEF StagingTypes, Exclusive, Copying, NoPartialObject, Holding
<1>3. Whole' /\ Stored'
  BY SMTT(20), <1>1 DEF StagingTypes, Whole, Stored, Uploading, Uploaded, InStore
<1>4. Acknowledged'
  BY SMTT(20), <1>1 DEF StagingTypes, Acknowledged, Uploading, Holding, InStore, InExtent
<1>. QED BY <1>2, <1>3, <1>4

LEMMA AgeKeeps ==
  ASSUME StagingInv, Age
  PROVE  StagingInv'
<1>1. /\ UNCHANGED <<backend, extent, store, step, answer, crashes, outlived, overwritten>>
      /\ DOMAIN leases' = DOMAIN leases
  BY DEF Age
<1>2. StagingTypes' /\ Exclusive' /\ Copying' /\ NoPartialObject' /\ Whole' /\ Stored'
  BY <1>1 DEF StagingTypes, Exclusive, Copying, NoPartialObject, Holding, Whole, Stored,
              Uploading, Uploaded, InStore
<1>3. Acknowledged'
  BY <1>1 DEF Acknowledged, Uploading, Holding, InStore, InExtent
<1>. QED BY <1>2, <1>3

LEMMA RestartKeeps ==
  ASSUME StagingInv, Restart
  PROVE  StagingInv'
<1>1. StagingTypes' /\ crashes' # 0
  BY SMTT(20) DEF StagingTypes, Restart
<1>2. \A c \in Calls : step'[c] \in {"idle", "over"}
  BY DEF Restart
<1>3. Exclusive' /\ Whole' /\ Copying' /\ NoPartialObject'
  BY <1>1, <1>2 DEF Exclusive, Whole, Copying, NoPartialObject, Holding, Uploading
<1>4. Stored'
  BY <1>2 DEF Stored, Uploaded, InStore, Restart
<1>5. Acknowledged'
  <2>1. ASSUME NEW c \in Calls, answer'[c] \in {"durable", "staged"}
        PROVE  answer[c] = answer'[c] /\ step[c] # "idle" /\ step'[c] = "over"
    BY <2>1 DEF Restart, Acknowledged, Uploading
  <2>2. \A c \in Calls : InExtent(c) => InExtent(c)' \/ Id(c) \in outlived'
    BY DEF InExtent, Restart, Restrict, Ids
  <2>3. outlived \subseteq outlived' /\ UNCHANGED <<store, overwritten>>
    BY DEF Restart
  <2>. QED BY <1>2, <2>1, <2>2, <2>3 DEF Acknowledged, Holding, InStore
<1>. QED BY <1>1, <1>3, <1>4, <1>5

-----------------------------------------------------------------------------
LEMMA StagingInvInit == Init => StagingInv
<1>. SUFFICES ASSUME Init PROVE StagingInv
  OBVIOUS
<1>1. StagingTypes
  BY SMTT(20) DEF Init, StagingTypes
<1>2. \A c \in Calls : step[c] = "idle" /\ answer[c] = "none"
  BY SMTT(20) DEF Init
<1>3. Exclusive /\ Whole /\ Copying /\ Stored /\ Acknowledged
  BY SMTT(20), <1>2 DEF Exclusive, Whole, Copying, Stored, Acknowledged, Holding, Uploading, Uploaded
<1>4. NoPartialObject
  BY SMTT(20) DEF Init, NoPartialObject
<1>. QED BY <1>1, <1>3, <1>4

LEMMA StagingInvNext ==
  ASSUME OwnObjects
  PROVE  StagingInv /\ [Next]_stagingVars => StagingInv'
<1>. HIDE CheckpointConfig DEF StagingInv, OwnObjects
<1>. SUFFICES ASSUME StagingInv, [Next]_stagingVars PROVE StagingInv'
  OBVIOUS
<1>1. ASSUME NEW c \in Calls, Check(c) \/ Work(c) PROVE StagingInv'
  BY <1>1, CheckKeeps, ReserveKeeps, StageToKeeps, StageToFailsKeeps, UndoKeeps, OpenKeeps,
     CreateKeeps, CopyKeeps, PutKeeps, ReleaseDurableKeeps, WaitKeeps DEF Work
<1>2. CASE UNCHANGED <<stagingVars>> \/ \E c \in Calls : GiveUp(c)
  <2>1. UNCHANGED <<backend, leases, extent, store, step, answer, crashes, outlived, overwritten>>
    BY <1>2 DEF stagingVars, GiveUp
  <2>. QED BY SMTT(20), <2>1 DEF StagingInv, StagingTypes, Exclusive, Whole, Copying, Stored, Acknowledged,
              NoPartialObject, Holding, Uploading, Uploaded, InStore, InExtent
<1>. QED BY <1>1, <1>2, CacheBlockKeeps, AgeKeeps, RestartKeeps DEF Next

HIDE CheckpointConfig DEF Id, Goto, Say, Over, UploadFailed, OwnObjects, StagingInv

LEMMA StagingInvariance ==
  ASSUME OwnObjects
  PROVE  Spec => []StagingInv
<1>. QED BY StagingInvInit, StagingInvNext, PTL DEF Spec

(* Whatever the backend, the calls and what fails, dies or is given up: a  *)
(* checkpoint answered "durable" is whole in the backend from then on, if  *)
(* the fast tier stays out of the extents of durable checkpoints (which    *)
(* serve.go does not see to) and no two checkpoints share an object.       *)
THEOREM DurableAlwaysDurable ==
  ASSUME OwnObjects, DurablesUncached
  PROVE  Spec => []DurableIsDurable
<1>1. StagingInv => DurableIsDurable
  BY DEF StagingInv, StagingTypes, Acknowledged, Stored, Uploaded, InStore, DurablesUncached,
         DurableIsDurable
<1>. QED BY <1>1, StagingInvariance, PTL

(* A checkpoint acknowledged as staged is kept, in the backend or under    *)
(* its lease, through failed uploads and restarts, until its term is over. *)
THEOREM StagedAlwaysKept ==
  ASSUME OwnObjects
  PROVE  Spec => []StagedIsKept
<1>1. StagingInv => StagedIsKept
  BY DEF StagingInv, Acknowledged, InStore, InExtent, StagedIsKept
<1>. QED BY <1>1, StagingInvariance, PTL

(* Short of a crash no upload leaves a partial object behind: the file     *)
(* driver removes what it failed to fill, and nobody else's.               *)
THEOREM NeverAPartialObject ==
  ASSUME OwnObjects
  PROVE  Spec => []NoPartialObject
<1>1. StagingInv => NoPartialObject
  BY DEF StagingInv
<1>. QED BY <1>1, StagingInvariance, PTL

-----------------------------------------------------------------------------
(* PressureWatch, for any filesystem, pods, volumes and floor.             *)

-----------------------------------------------------------------------------
(* The largest of a finite set of numbers, and of a sequence's elements.   *)

LEMMA MaxFacts ==
  ASSUME NEW S, IsFiniteSet(S), S # {}, \A x \in S : x \in Int
  PROVE  Max(S) \in S /\ \A y \in S : Max(S) >= y
<1>. DEFINE Above(x) == {y \in S : y >= x}
            F == {T \in SUBSET S : \E x \in S : T = Above(x)}
<1>1. F \in SUBSET (SUBSET S) /\ F # {}
  <2>1. PICK x \in S : TRUE
    OBVIOUS
  <2>2. Above(x) \in F
    BY <2>1
  <2>. QED BY <2>2
<1>. HIDE DEF F
<1>2. PICK T \in F : \A U \in F : U \subseteq T => U = T
  BY SMTT(20), <1>1, SmallestSubset
<1>3. PICK x \in S : T = Above(x)
  BY <1>2 DEF F
<1>4. ASSUME NEW y \in S, y > x PROVE FALSE
  <2>1. \A z \in S : z >= y => z >= x
    BY SMTT(20), <1>4
  <2>2. Above(y) \subseteq T
    BY <1>3, <2>1
  <2>3. x \notin Above(y) /\ x \in T
    BY SMTT(20), <1>3, <1>4
  <2>4. Above(y) \in F
    BY DEF F
  <2>. HIDE DEF Above
  <2>. QED BY <1>2, <2>2, <2>3, <2>4
<1>5. \A y \in S : x >= y
  BY SMTT(20), <1>4
<1>. QED BY <1>5 DEF Max

LEMMA MembersFinite ==
  ASSUME NEW V, NEW s \in Seq(V)
  PROVE  IsFiniteSet(Members(s))
<1>1. s \in Seq(Members(s)) /\ \A x \in Members(s) : \E i \in 1 .. Len(s) : s[i] = x
  BY SMTT(20) DEF Members
<1>. QED BY <1>1 DEF IsFiniteSet

(* Shortfall is one of the needs, and the largest.                         *)
LEMMA ShortfallFacts ==
  ASSUME NEW needs \in Seq(Nat), needs # <<>>
  PROVE  /\ \E i \in DOMAIN needs : Shortfall(needs) = needs[i]
         /\ \A i \in DOMAIN needs : Shortfall(needs) >= needs[i]
<1>1. Range(needs) = Members(needs)
  BY SMTT(20) DEF Range, Members
<1>2. Members(needs) \in SUBSET Int /\ Members(needs) # {}
  BY SMTT(20) DEF Members
<1>3. /\ Max(Members(needs)) \in Members(needs)
      /\ \A y \in Members(needs) : Max(Members(needs)) >= y
  BY <1>2, MembersFinite, MaxFacts
<1>4. Shortfall(needs) = Max(Members(needs))
  BY <1>1 DEF Shortfall
<1>. HIDE DEF Shortfall
<1>5. \A x : x \in Members(needs) <=> \E i \in DOMAIN needs : x = needs[i]
  BY SMTT(20) DEF Members
<1>. HIDE DEF Members
<1>. QED BY <1>3, <1>4, <1>5

-----------------------------------------------------------------------------
(* What the pods declared, have written and may still write.               *)

LEMMA DeclaredType == \A p \in Pods : Declared[p] \in Nat
<1>1. TAKE p \in Pods
<1>. DEFINE s == Containers[p]
            D == DOMAIN s
            ask == [i \in D |-> s[i].ask]
            passing == {i \in D : s[i].kind = "init"}
            A == {ask[i] : i \in passing}
            sum == SumOver(ask, D \ passing)
<1>2. s \in Seq(Container) /\ D = 1 .. Len(s) /\ Len(s) \in Nat
  BY SMTT(20), WatchAssumption
<1>3. ask \in Seq(Nat) /\ (\A i \in D : ask[i] \in Nat) /\ DOMAIN ask = D
  <2>1. \A i \in D : s[i] \in Container
    BY SMTT(20), <1>2
  <2>2. \A i \in D : s[i].ask \in Nat
    BY <2>1 DEF Container
  <2>. HIDE DEF s
  <2>. QED BY SMTT(20), <1>2, <2>2
<1>4. IsFiniteSet(D \ passing)
  <2>1. IsFiniteSet(Members([i \in 1 .. Len(s) |-> i]))
    <3>1. [i \in 1 .. Len(s) |-> i] \in Seq(Nat)
      BY SMTT(20), <1>2
    <3>. QED BY <3>1, MembersFinite
  <2>2. D \ passing \in SUBSET Members([i \in 1 .. Len(s) |-> i])
    BY SMTT(20), <1>2 DEF Members
  <2>. QED BY <2>1, <2>2, SubsetFinite
<1>5. A \in SUBSET Members(ask)
  BY SMTT(20), <1>2, <1>3 DEF Members
<1>6. IsFiniteSet(A \cup {sum}) /\ A \cup {sum} = {sum} \cup A
  <2>. HIDE DEF A, ask, sum
  <2>. QED BY <1>3, <1>5, MembersFinite, SubsetFinite, AddFinite
<1>7. sum \in Nat
  <2>. HIDE DEF ask, D, passing
  <2>. QED BY <1>3, <1>4, SumNonNegative
<1>8. {sum} \cup A \in SUBSET Int /\ {sum} \cup A \in SUBSET Nat /\ {sum} \cup A # {}
  <2>1. A \in SUBSET Nat
    BY <1>3
  <2>. HIDE DEF A, sum
  <2>. QED BY SMTT(20), <1>7, <2>1
<1>9. Max({sum} \cup A) \in Nat
  <2>. HIDE DEF A, sum
  <2>. QED BY <1>6, <1>8, MaxFacts
<1>. QED BY <1>9 DEF Declared

(* A sum when one of its terms changes.                                    *)
LEMMA SumBump ==
  ASSUME NEW S, IsFiniteSet(S), NEW f, NEW g, NEW x \in S, NEW d \in Int,
         \A y \in S : f[y] \in Int /\ g[y] \in Int,
         \A y \in S : y # x => g[y] = f[y],
         g[x] = f[x] + d
  PROVE  SumOver(g, S) = SumOver(f, S) + d
<1>. DEFINE T == S \ {x}
<1>1. T \in SUBSET S /\ IsFiniteSet(T) /\ \A y \in T : f[y] = g[y] /\ f[y] \in Int
  BY SubsetFinite
<1>2. SumOver(f, S) = f[x] + SumOver(f, T) /\ SumOver(g, S) = g[x] + SumOver(g, T)
  BY SMTT(20), SumRemove
<1>. HIDE DEF T
<1>3. SumOver(f, T) = SumOver(g, T) /\ SumOver(f, T) \in Int
  BY <1>1, SumSame, SumType
<1>. QED BY SMTT(20), <1>2, <1>3

-----------------------------------------------------------------------------
(* The inductive invariant.                                                *)

Places == {"rest", "lent", "pods", "volumes", "reclaim", "beat"}

WatchType ==
  /\ layout \in Layouts
  /\ phase \in [Pods -> {"absent", "Pending", "Running", "Succeeded"}]
  /\ used \in [Pods -> Nat]
  /\ other \in Nat /\ lent \in Nat /\ held \in Nat /\ stuck \in Nat
  /\ at \in Places
  /\ pass \in [avail: Int, floor: Nat, needs: Seq(Nat), held: Nat, took: Int]
  /\ sample \in [sum: Int, have: BOOLEAN]
  /\ seen \in [took: Int, calm: BOOLEAN, wrote: BOOLEAN, pods: BOOLEAN, slip: Nat,
               clear: BOOLEAN]

(* The registry is a finite table of sizes.                                *)
GoodRegistry(r) ==
  IsFiniteSet(DOMAIN r) /\ r = [v \in DOMAIN r |-> r[v]] /\ \A v \in DOMAIN r : r[v] \in Nat

(* What the filesystem and the leases had between them, when what was      *)
(* written since the measurement is counted back.                          *)
Before == Free + held + seen.took

(* The sample holds no less than there was when it was taken.              *)
Sampled ==
  /\ held <= lent
  /\ at # "lent" /\ sample.have => sample.sum >= Before
  /\ at = "lent" =>
       /\ pass.held <= held
       /\ pass.avail + pass.held >= Before
       /\ sample.have => sample.sum >= pass.avail + pass.held + pass.took

(* A calm pass knows what is free, up to the slip, and once it has read    *)
(* every pod one of its needs makes room for them and the floor; once that *)
(* need was met there is room.                                             *)
Foresight(free, left, s, a, p) ==
  /\ s.calm => a \in {"lent", "pods", "volumes", "reclaim"}
  /\ s.pods => s.calm /\ a \in {"volumes", "reclaim"}
  /\ s.calm /\ a \in {"lent", "pods"} => free >= p.avail - s.slip
  /\ s.pods => \E i \in DOMAIN p.needs : free + p.needs[i] >= left + p.floor - s.slip
  /\ s.clear => free >= left

Foreseen == Foresight(Free, Unwritten(Pods), seen, at, pass)

(* What the pods and the volumes can ask of a pass.                        *)
Asked ==
  Larger(IF layout.seen => layout.same THEN Unwritten(Pods) ELSE 0, Requested(registry))

(* In a quiet pass every need is that of one observation.                  *)
NoneAdded(asked, s, p) ==
  s.calm /\ ~s.wrote =>
    \A i \in DOMAIN p.needs : p.needs[i] <= Larger(0, p.floor - p.avail + asked)

Apart ==
  /\ at \in {"pods", "volumes", "reclaim"} => pass.needs # <<>>
  /\ pending = "built" => Usable
  /\ NoneAdded(Asked, seen, pass)

WatchInv == WatchType /\ GoodRegistry(registry) /\ Sampled /\ Foreseen /\ Apart

-----------------------------------------------------------------------------
(* The quantities the invariant compares are numbers.                      *)

LEMMA LargerFacts ==
  ASSUME NEW a \in Int, NEW b \in Int
  PROVE  /\ Larger(a, b) \in Int /\ Larger(a, b) >= a /\ Larger(a, b) >= b
         /\ Larger(a, b) = a \/ Larger(a, b) = b
BY SMTT(20) DEF Larger

LEMMA LeftFacts ==
  ASSUME WatchType
  PROVE  /\ DOMAIN Left = Pods /\ \A p \in Pods : Left[p] \in Nat
         /\ \A S \in SUBSET Pods : Unwritten(S) \in Nat /\ Unwritten(S) <= Unwritten(Pods)
<1>1. \A p \in Pods : Declared[p] \in Nat /\ used[p] \in Nat
  BY DeclaredType DEF WatchType
<1>2. DOMAIN Left = Pods /\ \A p \in Pods : Left[p] \in Nat
  BY SMTT(20), <1>1 DEF Left, Larger
<1>. HIDE DEF Left
<1>3. IsFiniteSet(Pods)
  BY WatchAssumption
<1>4. ASSUME NEW S \in SUBSET Pods
      PROVE  Unwritten(S) \in Nat /\ Unwritten(S) <= Unwritten(Pods)
  <2>1. IsFiniteSet(S) /\ \A p \in S : Left[p] \in Nat
    BY <1>2, <1>3, SubsetFinite
  <2>2. SumOver(Left, S) \in Nat
    BY <2>1, SumNonNegative
  <2>3. SumOver(Left, S) <= SumOver(Left, Pods)
    BY <1>2, <1>3, SumMonotone
  <2>. QED BY <2>2, <2>3 DEF Unwritten
<1>. QED BY <1>2, <1>4

LEMMA PassFacts ==
  ASSUME WatchType
  PROVE  /\ pass.avail \in Int /\ pass.floor \in Nat /\ seen.slip \in Nat
         /\ pass.needs \in Seq(Nat) /\ \A i \in DOMAIN pass.needs : pass.needs[i] \in Nat
<1>1. pass.avail \in Int /\ pass.floor \in Nat /\ seen.slip \in Nat /\ pass.needs \in Seq(Nat)
  BY DEF WatchType
<1>. QED BY SMTT(20), <1>1

LEMMA UsedFacts == ASSUME WatchType PROVE SumOver(used, Pods) \in Nat
<1>1. IsFiniteSet(Pods) /\ \A p \in Pods : used[p] \in Nat
  BY WatchAssumption DEF WatchType
<1>. QED BY <1>1, SumNonNegative

LEMMA FreeFacts == ASSUME WatchType PROVE Free \in Int /\ Before \in Int
<1>1. SumOver(used, Pods) \in Nat /\ FsSize \in Nat
  BY UsedFacts, WatchAssumption
<1>2. Free \in Int
  BY SMTT(20), <1>1 DEF WatchType, Free, Taken
<1>. QED BY SMTT(20), <1>2 DEF WatchType, Before

LEMMA RequestedFacts ==
  ASSUME NEW r, GoodRegistry(r)
  PROVE  Requested(r) \in Nat
BY SumNonNegative DEF GoodRegistry, Requested

LEMMA AskedFacts ==
  ASSUME WatchType, GoodRegistry(registry)
  PROVE  /\ Asked \in Nat /\ Asked >= Requested(registry)
         /\ (layout.seen => layout.same) => Asked >= Unwritten(Pods)
<1>1. Unwritten(Pods) \in Nat /\ Requested(registry) \in Nat
  BY LeftFacts, RequestedFacts
<1>. QED BY SMTT(20), <1>1 DEF Asked, Larger

-----------------------------------------------------------------------------
(* What the sums are after a step.                                         *)

LEMMA FreeSame ==
  ASSUME UNCHANGED <<layout, used, other, held, stuck>>
  PROVE  Free' = Free
BY DEF Free, Taken

LEMMA UnwrittenSame ==
  ASSUME UNCHANGED <<layout, phase, used>>
  PROVE  Unwritten(Pods)' = Unwritten(Pods)
BY DEF Unwritten, Left, Live, Possible

(* A pod that writes takes from what is free no more than from what it may *)
(* still write.                                                            *)
LEMMA WriteSums ==
  ASSUME WatchType, NEW p \in Pods, Write(p)
  PROVE  /\ Free' = Free - Taken(1) /\ Taken(1) \in 0 .. 1
         /\ Unwritten(Pods)' = Unwritten(Pods) - 1
         /\ WatchType'
<1>1. IsFiniteSet(Pods) /\ FsSize \in Nat
  BY WatchAssumption
<1>2. /\ used' = [used EXCEPT ![p] = @ + 1]
      /\ phase' = [phase EXCEPT ![p] = "Running"]
      /\ UNCHANGED <<layout, other, lent, held, stuck, at, pass, sample>>
  BY DEF Write, leaseVars, passVars, nodeVars
<1>3. /\ used' \in [Pods -> Nat] /\ used'[p] = used[p] + 1
      /\ \A q \in Pods : q # p => used'[q] = used[q]
  BY SMTT(20), <1>2 DEF WatchType
<1>4. \A q \in Pods : used[q] \in Int /\ used'[q] \in Int
  BY SMTT(20), <1>3 DEF WatchType
<1>5. SumOver(used', Pods) = SumOver(used, Pods) + 1
  <2>1. \A q \in Pods : q # p => used'[q] = used[q]
    BY <1>3
  <2>2. used'[p] = used[p] + 1 /\ 1 \in Int
    BY SMTT(20), <1>3
  <2>. QED BY <1>1, <1>4, <2>1, <2>2, SumBump
<1>6. Taken(1) \in 0 .. 1
  BY SMTT(20) DEF Taken
<1>7. Free' = Free - Taken(1)
  <2>1. SumOver(used, Pods) \in Nat
    BY UsedFacts
  <2>. QED BY SMTT(20), <1>1, <1>2, <1>5, <2>1 DEF WatchType, Free, Taken
<1>8. WatchType'
  <2>1. /\ phase' \in [Pods -> {"absent", "Pending", "Running", "Succeeded"}]
        /\ layout' \in Layouts /\ other' \in Nat /\ lent' \in Nat /\ held' \in Nat
        /\ stuck' \in Nat /\ at' \in Places
    BY <1>2 DEF WatchType
  <2>2. /\ pass' \in [avail: Int, floor: Nat, needs: Seq(Nat), held: Nat, took: Int]
        /\ sample' \in [sum: Int, have: BOOLEAN]
    BY <1>2 DEF WatchType
  <2>3. seen' \in [took: Int, calm: BOOLEAN, wrote: BOOLEAN, pods: BOOLEAN, slip: Nat,
                   clear: BOOLEAN]
    <3>1. /\ seen.took + Taken(1) \in Int /\ seen.slip \in Nat /\ seen.slip + 1 \in Nat
          /\ seen.calm \in BOOLEAN
      BY SMTT(20), <1>6 DEF WatchType
    <3>2. PICK n \in Nat : seen' = [seen EXCEPT !.took = seen.took + Taken(1),
                                                !.wrote = seen.calm, !.slip = n]
      BY <3>1 DEF Write
    <3>. QED BY <3>1, <3>2 DEF WatchType
  <2>. QED BY <1>3, <2>1, <2>2, <2>3 DEF WatchType
<1>9. Left'[p] = Left[p] - 1 /\ \A q \in Pods : q # p => Left'[q] = Left[q]
  <2>1. \A q \in Pods : Declared[q] \in Nat /\ used[q] \in Nat
    BY DeclaredType DEF WatchType
  <2>2. phase[p] \in {"Pending", "Running"} /\ Possible(p) /\ used[p] < Declared[p]
    BY DEF Write
  <2>3. /\ phase'[p] = "Running" /\ \A q \in Pods : q # p => phase'[q] = phase[q]
    BY <1>2 DEF WatchType
  <2>4. \A q \in Pods : Possible(q)' = Possible(q)
    BY <1>2 DEF Possible
  <2>5. \A q \in Pods : q # p => Live(q)' = Live(q)
    BY <2>3 DEF Live
  <2>6. Live(p) /\ Live(p)'
    BY <2>2, <2>3 DEF Live
  <2>7. Left'[p] = Left[p] - 1
    BY SMTT(20), <1>3, <2>1, <2>2, <2>4, <2>6 DEF Left, Larger
  <2>8. ASSUME NEW q \in Pods, q # p PROVE Left'[q] = Left[q]
    BY <1>3, <2>4, <2>5, <2>8 DEF Left
  <2>. QED BY <2>7, <2>8
<1>10. \A q \in Pods : Left[q] \in Int /\ Left'[q] \in Int
  <2>1. \A q \in Pods : Left[q] \in Nat
    BY LeftFacts
  <2>. HIDE DEF Left
  <2>. QED BY SMTT(20), <1>9, <2>1
<1>11. SumOver(Left', Pods) = SumOver(Left, Pods) - 1
  <2>. HIDE DEF Left
  <2>1. Left'[p] = Left[p] + (0 - 1)
    BY SMTT(20), <1>9, <1>10
  <2>2. SumOver(Left', Pods) = SumOver(Left, Pods) + (0 - 1)
    BY SMTT(20), <1>1, <1>9, <1>10, <2>1, SumBump
  <2>3. SumOver(Left, Pods) \in Int
    BY <1>1, <1>10, SumType
  <2>. QED BY SMTT(20), <2>2, <2>3
<1>. QED BY <1>6, <1>7, <1>8, <1>11 DEF Unwritten

-----------------------------------------------------------------------------
(* The invariant and the steps of the node's other actors.                 *)

LEMMA SeenDisturbed ==
  ASSUME WatchType, NEW n \in Int, Disturbed(n)
  PROVE  /\ seen' \in [took: Int, calm: BOOLEAN, wrote: BOOLEAN, pods: BOOLEAN, slip: Nat,
                       clear: BOOLEAN]
         /\ seen'.took = seen.took + n
         /\ ~seen'.calm /\ ~seen'.pods /\ ~seen'.clear
<1>. DEFINE Sight == [took: Int, calm: BOOLEAN, wrote: BOOLEAN, pods: BOOLEAN, slip: Nat,
                      clear: BOOLEAN]
<1>1. seen \in Sight /\ seen.took + n \in Int
  BY SMTT(20) DEF WatchType
<1>2. seen' = [took |-> seen.took + n, calm |-> FALSE, wrote |-> FALSE, pods |-> FALSE,
               slip |-> 0, clear |-> FALSE]
  BY <1>1 DEF Disturbed
<1>. QED BY <1>1, <1>2

LEMMA DisturbedKeeps ==
  ASSUME WatchInv, NEW n \in Int, Disturbed(n),
         UNCHANGED <<layout, at, pass, sample, pending>>,
         phase' \in [Pods -> {"absent", "Pending", "Running", "Succeeded"}],
         used' \in [Pods -> Nat],
         other' \in Nat, lent' \in Nat, held' \in Nat, stuck' \in Nat,
         GoodRegistry(registry'),
         held <= held', held' <= lent',
         Free' + held' + n = Free + held
  PROVE  WatchInv'
<1>1. /\ seen' \in [took: Int, calm: BOOLEAN, wrote: BOOLEAN, pods: BOOLEAN, slip: Nat,
                    clear: BOOLEAN]
      /\ seen'.took = seen.took + n
      /\ ~seen'.calm /\ ~seen'.pods /\ ~seen'.clear
  BY SeenDisturbed DEF WatchInv
<1>2. WatchType'
  BY <1>1 DEF WatchInv, WatchType
<1>3. Before' = Before
  <2>1. SumOver(used, Pods) \in Nat /\ FsSize \in Nat
    BY UsedFacts, WatchAssumption DEF WatchInv
  <2>2. SumOver(used', Pods) \in Nat
    <3>1. IsFiniteSet(Pods) /\ \A p \in Pods : used'[p] \in Nat
      BY WatchAssumption
    <3>. QED BY <3>1, SumNonNegative
  <2>3. other \in Nat /\ held \in Nat /\ stuck \in Nat /\ seen.took \in Int
    BY DEF WatchInv, WatchType
  <2>4. seen'.took = seen.took + n
    BY <1>1
  <2>. QED BY SMTT(20), <2>1, <2>2, <2>3, <2>4 DEF Before, Free, Taken
<1>4. Sampled'
  <2>1. pass.held \in Nat /\ held \in Nat
    BY DEF WatchInv, WatchType
  <2>. QED BY SMTT(20), <1>3, <2>1 DEF WatchInv, Sampled
<1>5. Foreseen'
  BY <1>1 DEF Foreseen, Foresight
<1>6. Apart'
  BY <1>1 DEF WatchInv, Apart, Usable, NoneAdded
<1>. QED BY <1>2, <1>4, <1>5, <1>6 DEF WatchInv

(* A pod starts.                                                           *)
LEMMA StartKeeps == ASSUME WatchInv, NEW p \in Pods, Start(p) PROVE WatchInv'
<1>1. /\ Disturbed(0) /\ phase' = [phase EXCEPT ![p] = "Pending"]
      /\ UNCHANGED <<used, other, lent, held, stuck, registry, at, pass, sample, pending, layout>>
  BY DEF Start, leaseVars, passVars, nodeVars
<1>2. Free' = Free /\ Free \in Int
  BY <1>1, FreeSame, FreeFacts DEF WatchInv
<1>3. phase' \in [Pods -> {"absent", "Pending", "Running", "Succeeded"}]
  BY <1>1 DEF WatchInv, WatchType
<1>4. Free' + held' + 0 = Free + held /\ held <= held' /\ held' <= lent'
  BY SMTT(20), <1>1, <1>2 DEF WatchInv, WatchType, Sampled
<1>5. /\ used' \in [Pods -> Nat] /\ other' \in Nat /\ lent' \in Nat /\ held' \in Nat
      /\ stuck' \in Nat /\ GoodRegistry(registry') /\ 0 \in Int
  BY SMTT(20), <1>1 DEF WatchInv, WatchType
<1>. QED BY <1>1, <1>3, <1>4, <1>5, DisturbedKeeps

(* A pod finishes: what it had written is free again.                      *)
LEMMA FinishKeeps == ASSUME WatchInv, NEW p \in Pods, Finish(p) PROVE WatchInv'
<1>. DEFINE n == Taken(0 - used[p])
<1>1. /\ Disturbed(n) /\ phase' = [phase EXCEPT ![p] = "Succeeded"]
      /\ used' = [used EXCEPT ![p] = 0]
      /\ UNCHANGED <<other, lent, held, stuck, registry, at, pass, sample, pending, layout>>
  BY DEF Finish, leaseVars, passVars, nodeVars
<1>2. phase' \in [Pods -> {"absent", "Pending", "Running", "Succeeded"}] /\ used' \in [Pods -> Nat]
  BY <1>1 DEF WatchInv, WatchType
<1>3. used[p] \in Nat /\ n \in Int
  BY SMTT(20) DEF WatchInv, WatchType, Taken
<1>4. SumOver(used', Pods) = SumOver(used, Pods) + (0 - used[p])
  <2>1. IsFiniteSet(Pods)
    BY WatchAssumption
  <2>2. \A q \in Pods : used[q] \in Int /\ used'[q] \in Int
    BY SMTT(20), <1>2 DEF WatchInv, WatchType
  <2>3. \A q \in Pods : q # p => used'[q] = used[q]
    BY <1>1 DEF WatchInv, WatchType
  <2>4. used'[p] = used[p] + (0 - used[p]) /\ 0 - used[p] \in Int
    BY SMTT(20), <1>1, <1>3 DEF WatchInv, WatchType
  <2>. QED BY <2>1, <2>2, <2>3, <2>4, SumBump
<1>5. Free' + held' + n = Free + held
  <2>1. SumOver(used, Pods) \in Nat /\ FsSize \in Nat
    BY UsedFacts, WatchAssumption DEF WatchInv
  <2>. QED BY SMTT(20), <1>1, <1>3, <1>4, <2>1 DEF WatchInv, WatchType, Free, Taken
<1>6. held <= held' /\ held' <= lent'
  BY SMTT(20), <1>1 DEF WatchInv, WatchType, Sampled
<1>. HIDE DEF n
<1>. QED BY <1>1, <1>2, <1>3, <1>5, <1>6, DisturbedKeeps DEF WatchInv, WatchType

(* Somebody who told nobody writes.                                        *)
LEMMA ScribbleKeeps == ASSUME WatchInv, Scribble PROVE WatchInv'
<1>1. /\ Disturbed(1) /\ other = 0 /\ other' = 1
      /\ UNCHANGED <<phase, used, lent, held, stuck, registry, at, pass, sample, pending, layout>>
  BY DEF Scribble, leaseVars, passVars, nodeVars
<1>2. Free' + held' + 1 = Free + held
  <2>1. SumOver(used, Pods) \in Nat /\ FsSize \in Nat
    BY UsedFacts, WatchAssumption DEF WatchInv
  <2>. QED BY SMTT(20), <1>1, <2>1 DEF WatchInv, WatchType, Free, Taken
<1>3. held <= held' /\ held' <= lent'
  BY SMTT(20), <1>1 DEF WatchInv, WatchType, Sampled
<1>. QED BY SMTT(30), <1>1, <1>2, <1>3, DisturbedKeeps DEF WatchInv, WatchType

LEMMA PublishedGood ==
  ASSUME NEW r, GoodRegistry(r), NEW v \in Volumes
  PROVE  GoodRegistry(Published(r, v, Size[v])) /\ GoodRegistry(Unpublished(r, v))
<1>1. Size[v] \in Int
  BY WatchAssumption
<1>2. IsFiniteSet(DOMAIN r \cup {v}) /\ IsFiniteSet(DOMAIN r \ {v})
  BY AddFinite, SubsetFinite DEF GoodRegistry
<1>3. GoodRegistry(Published(r, v, Size[v]))
  BY SMTT(20), <1>1, <1>2 DEF GoodRegistry, Published
<1>4. GoodRegistry(Unpublished(r, v))
  BY <1>2 DEF GoodRegistry, Unpublished, Restrict
<1>. QED BY <1>3, <1>4

(* A volume is published or unpublished.                                   *)
LEMMA VolumeKeeps ==
  ASSUME WatchInv, NEW v \in Volumes, Publish(v) \/ Unpublish(v)
  PROVE  WatchInv'
<1>1. /\ Disturbed(0)
      /\ registry' = Published(registry, v, Size[v]) \/ registry' = Unpublished(registry, v)
      /\ UNCHANGED <<phase, used, other, lent, held, stuck, at, pass, sample, pending, layout>>
  BY DEF Publish, Unpublish, workVars, leaseVars, passVars, nodeVars
<1>2. Free' = Free /\ Free \in Int
  BY <1>1, FreeSame, FreeFacts DEF WatchInv
<1>3. GoodRegistry(registry')
  BY <1>1, PublishedGood DEF WatchInv
<1>4. Free' + held' + 0 = Free + held /\ held <= held' /\ held' <= lent'
  BY SMTT(20), <1>1, <1>2 DEF WatchInv, WatchType, Sampled
<1>. QED BY SMTT(30), <1>1, <1>3, <1>4, DisturbedKeeps DEF WatchInv, WatchType

(* A grant is accepted, and its extent allocated or given up.              *)
LEMMA GrantKeeps == ASSUME WatchInv, Accept \/ Allocate PROVE WatchInv'
<1>1. /\ Disturbed(0) /\ held \in Nat /\ lent \in Nat /\ held <= lent
      /\ UNCHANGED <<phase, used, other, stuck, registry, at, pass, sample, pending, layout>>
  BY DEF Accept, Allocate, workVars, leaseVars, passVars, nodeVars, WatchInv, WatchType, Sampled
<1>2. /\ held' \in Nat /\ lent' \in Nat /\ held <= held' /\ held' <= lent'
  BY SMTT(20), <1>1 DEF Accept, Allocate
<1>3. SumOver(used, Pods) \in Nat /\ FsSize \in Nat /\ other \in Nat /\ stuck \in Nat
  BY UsedFacts, WatchAssumption DEF WatchInv, WatchType
<1>4. Free' + held' + 0 = Free + held
  BY SMTT(20), <1>1, <1>2, <1>3 DEF Free, Taken
<1>5. /\ phase' \in [Pods -> {"absent", "Pending", "Running", "Succeeded"}]
      /\ used' \in [Pods -> Nat] /\ other' \in Nat /\ stuck' \in Nat
      /\ GoodRegistry(registry') /\ 0 \in Int
  BY SMTT(20), <1>1 DEF WatchInv, WatchType
<1>. QED BY <1>1, <1>2, <1>4, <1>5, DisturbedKeeps

(* A pod writes what it declared.                                          *)
LEMMA WriteKeeps == ASSUME WatchInv, NEW p \in Pods, Write(p) PROVE WatchInv'
<1>1. /\ WatchType /\ WatchType' /\ Taken(1) \in 0 .. 1
      /\ Unwritten(Pods)' = Unwritten(Pods) - 1 /\ Free' = Free - Taken(1)
  BY WriteSums DEF WatchInv
<1>2. UNCHANGED <<layout, lent, held, registry, at, pass, sample, pending>>
  BY DEF Write, leaseVars, passVars, nodeVars
<1>3. /\ seen'.took = seen.took + Taken(1) /\ seen'.wrote = seen.calm
      /\ seen'.calm = seen.calm /\ seen'.pods = seen.pods /\ seen'.clear = seen.clear
      /\ seen'.slip = IF seen.calm /\ at \in {"lent", "pods"} THEN seen.slip + 1 ELSE seen.slip
  BY <1>1 DEF Write, WatchType
<1>4. PICK f \in Int, u \in Int, t \in 0 .. 1 :
        /\ f = Free /\ u = Unwritten(Pods) /\ t = Taken(1)
        /\ Free' = f - t /\ Unwritten(Pods)' = u - 1
  <2>1. Free \in Int /\ Unwritten(Pods) \in Int
    BY SMTT(20), <1>1, FreeFacts, LeftFacts
  <2>. QED BY <1>1, <2>1
<1>5. Foreseen'
  <2>1. Foresight(f, u, seen, at, pass)
    BY <1>4 DEF WatchInv, Foreseen
  <2>2. /\ pass.avail \in Int /\ pass.floor \in Nat /\ seen.slip \in Nat
        /\ \A i \in DOMAIN pass.needs : pass.needs[i] \in Nat
    BY <1>1, PassFacts
  <2>3. Foresight(f - t, u - 1, seen', at, pass)
    BY SMTT(20), <1>3, <1>4, <2>1, <2>2 DEF Foresight
  <2>. QED BY <1>2, <1>4, <2>3 DEF Foreseen
<1>6. Apart'
  <2>1. NoneAdded(Asked', seen', pass)
    BY <1>3 DEF NoneAdded
  <2>. QED BY <1>2, <2>1 DEF WatchInv, Apart, Usable
<1>7. Sampled'
  <2>1. Before' = Before
    <3>1. held \in Int /\ seen.took \in Int
      BY SMTT(20), <1>1 DEF WatchType
    <3>2. Before = f + held + seen.took
      BY <1>4 DEF Before
    <3>3. Before' = (f - t) + held + (seen.took + t)
      BY <1>2, <1>3, <1>4 DEF Before
    <3>4. (f - t) + held + (seen.took + t) = f + held + seen.took
      BY SMTT(20), <3>1
    <3>. QED BY <3>2, <3>3, <3>4
  <2>. QED BY <1>2, <2>1 DEF WatchInv, Sampled
<1>. QED BY <1>1, <1>2, <1>5, <1>6, <1>7 DEF WatchInv

-----------------------------------------------------------------------------
(* The invariant and the steps of the watch itself.                        *)

(* What a step of the watch that only reads leaves alone.                  *)
Still == UNCHANGED <<layout, phase, used, other, lent, held, stuck, registry>>

LEMMA StillFacts ==
  ASSUME WatchInv, Still
  PROVE  \E f \in Int, u \in Nat, k \in Nat :
           /\ f = Free /\ f = Free' /\ u = Unwritten(Pods) /\ u = Unwritten(Pods)'
           /\ k = Asked /\ k = Asked' /\ Usable' = Usable
           /\ Foresight(f, u, seen, at, pass) /\ NoneAdded(k, seen, pass)
<1>1. Free' = Free /\ Unwritten(Pods)' = Unwritten(Pods)
  BY FreeSame, UnwrittenSame DEF Still
<1>2. Requested(registry)' = Requested(registry) /\ UNCHANGED layout
  BY DEF Still
<1>3. Asked' = Asked
  BY <1>1, <1>2 DEF Asked
<1>4. Free \in Int /\ Unwritten(Pods) \in Nat /\ Asked \in Nat
  BY FreeFacts, LeftFacts, AskedFacts DEF WatchInv
<1>5. Usable' = Usable
  BY <1>2 DEF Usable
<1>6. Foresight(Free, Unwritten(Pods), seen, at, pass) /\ NoneAdded(Asked, seen, pass)
  BY DEF WatchInv, Foreseen, Apart
<1>. QED BY <1>1, <1>3, <1>4, <1>5, <1>6

LEMMA MeasureKeeps == ASSUME WatchInv, Measure PROVE WatchInv'
<1>1. /\ at = "rest" /\ Still /\ UNCHANGED <<sample, pending>>
  BY DEF Measure, Still, workVars, leaseVars, nodeVars
<1>2. PICK f \in Int, u \in Nat, k \in Nat :
        /\ f = Free /\ f = Free' /\ u = Unwritten(Pods) /\ u = Unwritten(Pods)'
        /\ k = Asked /\ k = Asked' /\ Usable' = Usable
        /\ Foresight(f, u, seen, at, pass) /\ NoneAdded(k, seen, pass)
  BY <1>1, StillFacts
<1>3. CASE broken
  <2>1. UNCHANGED <<at, pass, seen>>
    BY <1>3 DEF Measure
  <2>2. WatchType' /\ Sampled'
    BY <1>1, <1>2, <2>1 DEF Still, WatchInv, WatchType, Sampled, Before
  <2>3. Foreseen' /\ Apart'
    BY <1>1, <1>2, <2>1 DEF WatchInv, Foreseen, Apart
  <2>. QED BY <1>1, <2>2, <2>3 DEF Still, WatchInv
<1>4. CASE ~broken
  <2>. DEFINE before == [avail |-> f, floor |-> 0, needs |-> <<>>, held |-> held,
                         took |-> seen.took]
  <2>0. held \in Nat /\ seen.took \in Int /\ seen.clear \in BOOLEAN
    BY DEF WatchInv, WatchType
  <2>1. at' = "lent" /\ pass' = before
    <3>1. at' = "lent" /\ pass' = [NoPass EXCEPT !.avail = Free, !.held = held, !.took = seen.took]
      BY <1>4 DEF Measure
    <3>2. pass' = [NoPass EXCEPT !.avail = f, !.held = held, !.took = seen.took]
      BY <1>2, <3>1
    <3>. QED BY <3>1, <3>2 DEF NoPass
  <2>2. seen' = [took |-> 0, calm |-> TRUE, wrote |-> FALSE, pods |-> FALSE, slip |-> 0,
                 clear |-> seen.clear]
    BY <1>4 DEF Measure, WatchInv, WatchType
  <2>3. WatchType'
    <3>1. /\ pass' \in [avail: Int, floor: Nat, needs: Seq(Nat), held: Nat, took: Int]
          /\ seen' \in [took: Int, calm: BOOLEAN, wrote: BOOLEAN, pods: BOOLEAN, slip: Nat,
                        clear: BOOLEAN]
      BY SMTT(30), <2>0, <2>1, <2>2
    <3>. QED BY <1>1, <2>1, <3>1 DEF Still, WatchInv, WatchType, Places
  <2>4. Before = f + held + seen.took /\ Before' = f + held + 0
    BY <1>1, <1>2, <2>2 DEF Before, Still
  <2>5. Sampled'
    BY SMTT(20), <1>1, <2>1, <2>4 DEF Still, WatchInv, WatchType, Sampled
  <2>6. Foresight(f, u, seen', at', pass')
    <3>1. /\ seen'.calm /\ ~seen'.pods /\ seen'.slip = 0 /\ pass'.avail = f
          /\ seen'.clear = seen.clear
      BY <2>1, <2>2
    <3>2. seen.clear => f >= u
      BY <1>2 DEF Foresight
    <3>. QED BY SMTT(30), <2>1, <3>1, <3>2 DEF Foresight
  <2>7. NoneAdded(k, seen', pass')
    BY SMTT(20), <2>1 DEF NoneAdded
  <2>8. Foreseen' /\ Apart'
    BY <1>1, <1>2, <2>1, <2>6, <2>7 DEF WatchInv, Foreseen, Apart
  <2>. QED BY <1>1, <2>3, <2>5, <2>8 DEF Still, WatchInv
<1>. QED BY <1>3, <1>4

(* The floor of a pass, and what a floor that is a duration covers.        *)
LEMMA TargetFacts ==
  ASSUME WatchInv, at = "lent"
  PROVE  /\ Target \in Nat
         /\ sample.have => Target >= HeadroomFor * (pass.took - (lent - pass.held))
<1>. DEFINE x == pass.took - (lent - pass.held)
<1>1. /\ pass.avail \in Int /\ lent \in Nat /\ pass.held \in Nat /\ pass.took \in Int
      /\ sample.sum \in Int
  BY DEF WatchInv, WatchType
<1>2. Took \in Nat /\ (sample.have => Took >= x)
  BY SMTT(20), <1>1 DEF WatchInv, Sampled, Took, Larger
<1>3. HeadroomFor \in Nat /\ Headroom \in Nat /\ MinHeadroom \in Nat
      /\ (Headroom > 0 <=> HeadroomFor = 0)
  BY WatchAssumption
<1>4. x \in Int
  BY SMTT(20), <1>1
<1>. HIDE DEF Took, x
<1>5. Took * HeadroomFor \in Nat /\ (sample.have => Took * HeadroomFor >= HeadroomFor * x)
  <2>1. \A m \in Nat, n \in Nat, y \in Int :
          m * n \in Nat /\ (m >= y => m * n >= n * y)
    BY SMTT(20)
  <2>. QED BY <1>2, <1>3, <1>4, <2>1
<1>6. CASE Headroom > 0
  <2>1. HeadroomFor * x = 0
    BY SMTT(20), <1>3, <1>4, <1>6
  <2>. QED BY SMTT(20), <1>3, <1>6, <2>1 DEF Target, x
<1>7. CASE Headroom = 0 /\ ~sample.have
  BY <1>3, <1>7 DEF Target
<1>8. CASE Headroom = 0 /\ sample.have
  <2>1. Target = Larger(MinHeadroom, Took * HeadroomFor)
    BY SMTT(20), <1>3, <1>8 DEF Target
  <2>2. Target \in Nat /\ Target >= Took * HeadroomFor
    BY SMTT(20), <1>3, <1>5, <2>1 DEF Larger
  <2>3. HeadroomFor * x \in Int
    BY SMTT(20), <1>3, <1>4
  <2>. QED BY SMTT(20), <1>5, <1>8, <2>2, <2>3 DEF x
<1>. QED BY SMTT(20), <1>3, <1>6, <1>7, <1>8

LEMMA RateKeeps == ASSUME WatchInv, Rate PROVE WatchInv'
<1>1. /\ at = "lent" /\ at' = "pods" /\ Still /\ UNCHANGED <<seen, pending>>
  BY DEF Rate, Still, workVars, leaseVars, nodeVars
<1>2. PICK f \in Int, u \in Nat, k \in Nat :
        /\ f = Free /\ f = Free' /\ u = Unwritten(Pods) /\ u = Unwritten(Pods)'
        /\ k = Asked /\ k = Asked' /\ Usable' = Usable
        /\ Foresight(f, u, seen, at, pass) /\ NoneAdded(k, seen, pass)
  BY <1>1, StillFacts
<1>3. Target \in Nat
  BY <1>1, TargetFacts
<1>. HIDE DEF Target
<1>4. PICK t \in Nat : t = Target
  BY <1>3
<1>5. /\ pass.avail \in Int /\ seen.slip \in Nat /\ lent \in Nat /\ held \in Nat
      /\ pass.held \in Nat /\ pass.took \in Int /\ sample.sum \in Int
  BY DEF WatchInv, WatchType
<1>6. /\ pass' = [avail |-> pass.avail, floor |-> t, needs |-> <<Larger(0, t - pass.avail)>>,
                  held |-> 0, took |-> 0]
      /\ sample' = [sum |-> pass.avail + lent, have |-> TRUE]
  BY <1>4 DEF Rate, WatchInv, WatchType
<1>7. Larger(0, t - pass.avail) \in Nat
  BY SMTT(20), <1>5 DEF Larger
<1>8. WatchType'
  <2>1. /\ pass' \in [avail: Int, floor: Nat, needs: Seq(Nat), held: Nat, took: Int]
        /\ sample' \in [sum: Int, have: BOOLEAN]
    BY SMTT(20), <1>5, <1>6, <1>7
  <2>. QED BY <1>1, <2>1 DEF Still, WatchInv, WatchType, Places
<1>9. Sampled'
  <2>1. Before' = Before /\ Before = f + held + seen.took /\ seen.took \in Int
    BY <1>1, <1>2 DEF Before, Still, WatchInv, WatchType
  <2>2. pass.held <= held /\ held <= lent /\ pass.avail + pass.held >= f + held + seen.took
    BY <1>1, <2>1 DEF WatchInv, Sampled
  <2>3. sample'.sum >= f + held + seen.took
    BY SMTT(20), <1>5, <1>6, <2>1, <2>2
  <2>. QED BY <1>1, <2>1, <2>2, <2>3 DEF Still, Sampled
<1>10. Foresight(f, u, seen, "pods", pass')
  <2>1. pass'.avail = pass.avail
    BY <1>6
  <2>. QED BY <1>1, <1>2, <2>1 DEF Foresight
<1>11. NoneAdded(k, seen, pass')
  <2>1. \A i \in DOMAIN pass'.needs : pass'.needs[i] = Larger(0, t - pass.avail)
    BY SMTT(20), <1>6
  <2>2. Larger(0, t - pass.avail) <= Larger(0, t - pass.avail + k)
    BY SMTT(20), <1>5 DEF Larger
  <2>3. pass'.avail = pass.avail /\ pass'.floor = t
    BY <1>6
  <2>. QED BY <2>1, <2>2, <2>3 DEF NoneAdded
<1>12. Foreseen' /\ Apart'
  <2>1. pass'.needs # <<>>
    BY <1>6
  <2>. QED BY <1>1, <1>2, <1>10, <1>11, <2>1 DEF WatchInv, Foreseen, Apart
<1>. QED BY <1>1, <1>8, <1>9, <1>12 DEF Still, WatchInv

(* A source's answer joins the needs of the pass.                          *)
LEMMA Joined ==
  ASSUME WatchType, NEW n \in Nat, pass' = [pass EXCEPT !.needs = Append(@, n)]
  PROVE  /\ pass' \in [avail: Int, floor: Nat, needs: Seq(Nat), held: Nat, took: Int]
         /\ pass'.avail = pass.avail /\ pass'.floor = pass.floor /\ pass'.needs # <<>>
         /\ DOMAIN pass'.needs = DOMAIN pass.needs \cup {Len(pass.needs) + 1}
         /\ pass'.needs[Len(pass.needs) + 1] = n
         /\ \A i \in DOMAIN pass.needs : pass'.needs[i] = pass.needs[i]
<1>. DEFINE q == pass.needs
<1>1. q \in Seq(Nat) /\ pass'.needs = Append(q, n) /\ Append(q, n) \in Seq(Nat)
      /\ pass'.avail = pass.avail /\ pass'.floor = pass.floor
  BY SMTT(20) DEF WatchType
<1>2. pass' \in [avail: Int, floor: Nat, needs: Seq(Nat), held: Nat, took: Int]
  BY <1>1 DEF WatchType
<1>. HIDE DEF q
<1>3. /\ Append(q, n) # <<>> /\ DOMAIN Append(q, n) = DOMAIN q \cup {Len(q) + 1}
      /\ Append(q, n)[Len(q) + 1] = n
      /\ \A i \in DOMAIN q : Append(q, n)[i] = q[i]
  BY SMTT(20), <1>1
<1>. QED BY <1>1, <1>2, <1>3 DEF q

LEMMA ReadPodsKeeps == ASSUME WatchInv, ReadPods PROVE WatchInv'
<1>1. /\ at = "pods" /\ at' = "volumes" /\ pending = "built" /\ Still
      /\ UNCHANGED <<sample, pending>>
  BY DEF ReadPods, Still, workVars, leaseVars, nodeVars
<1>2. PICK f \in Int, u \in Nat, k \in Nat :
        /\ f = Free /\ f = Free' /\ u = Unwritten(Pods) /\ u = Unwritten(Pods)'
        /\ k = Asked /\ k = Asked' /\ Usable' = Usable
        /\ Foresight(f, u, seen, at, pass) /\ NoneAdded(k, seen, pass)
  BY <1>1, StillFacts
<1>3. PICK pods \in SUBSET Pods :
        /\ pass' = [pass EXCEPT !.needs = Append(@, Need(Unwritten(pods)))]
        /\ seen' = [seen EXCEPT !.pods = seen.calm /\ pods = Pods]
  BY DEF ReadPods
<1>4. PICK w \in Nat : w = Unwritten(pods) /\ w <= u
  BY <1>2, LeftFacts DEF WatchInv
<1>5. PICK n \in Nat : /\ n = Need(Unwritten(pods))
                       /\ n = Larger(0, pass.floor - (pass.avail - w))
  BY SMTT(20), <1>4, PassFacts DEF WatchInv, Need, Larger
<1>6. /\ pass' \in [avail: Int, floor: Nat, needs: Seq(Nat), held: Nat, took: Int]
      /\ pass'.avail = pass.avail /\ pass'.floor = pass.floor /\ pass'.needs # <<>>
      /\ DOMAIN pass'.needs = DOMAIN pass.needs \cup {Len(pass.needs) + 1}
      /\ pass'.needs[Len(pass.needs) + 1] = n
      /\ \A i \in DOMAIN pass.needs : pass'.needs[i] = pass.needs[i]
  BY <1>3, <1>5, Joined DEF WatchInv
<1>7. /\ seen' \in [took: Int, calm: BOOLEAN, wrote: BOOLEAN, pods: BOOLEAN, slip: Nat,
                    clear: BOOLEAN]
      /\ seen'.took = seen.took /\ seen'.calm = seen.calm /\ seen'.wrote = seen.wrote
      /\ seen'.slip = seen.slip /\ seen'.clear = seen.clear
      /\ seen'.pods = (seen.calm /\ pods = Pods)
  BY <1>3 DEF WatchInv, WatchType
<1>8. WatchType'
  BY <1>1, <1>6, <1>7 DEF Still, WatchInv, WatchType, Places
<1>9. Sampled'
  <2>1. Before' = Before
    BY <1>1, <1>2, <1>7 DEF Before, Still
  <2>. QED BY <1>1, <2>1 DEF Still, WatchInv, Sampled
<1>10. /\ pass.avail \in Int /\ pass.floor \in Nat /\ seen.slip \in Nat
       /\ \A i \in DOMAIN pass.needs : pass.needs[i] \in Nat
  BY PassFacts DEF WatchInv
<1>11. Foresight(f, u, seen', "volumes", pass')
  <2>1. ASSUME seen'.pods
        PROVE  f + pass'.needs[Len(pass.needs) + 1] >= u + pass'.floor - seen'.slip
    <3>1. w = u
      BY <1>2, <1>4, <1>7, <2>1
    <3>2. f >= pass.avail - seen.slip
      BY <1>1, <1>2, <1>7, <2>1 DEF Foresight
    <3>3. n >= pass.floor - (pass.avail - u)
      BY SMTT(20), <1>5, <1>10, <3>1 DEF Larger
    <3>4. f + n >= u + pass.floor - seen.slip
      BY SMTT(20), <1>10, <3>2, <3>3
    <3>. QED BY <1>6, <1>7, <3>4
  <2>2. seen.clear => f >= u
    BY <1>2 DEF Foresight
  <2>3. seen'.pods => seen'.calm
    BY <1>7
  <2>. QED BY <1>6, <1>7, <2>1, <2>2, <2>3 DEF Foresight
<1>12. NoneAdded(k, seen', pass')
  <2>1. layout.seen => layout.same
    BY <1>1 DEF WatchInv, Apart, Usable
  <2>2. u <= k
    BY <1>2, <2>1, AskedFacts DEF WatchInv
  <2>3. n <= Larger(0, pass.floor - pass.avail + k)
    BY SMTT(20), <1>4, <1>5, <1>10, <2>2 DEF Larger
  <2>. QED BY <1>2, <1>6, <1>7, <2>3 DEF NoneAdded
<1>13. Foreseen' /\ Apart'
  BY <1>1, <1>2, <1>6, <1>11, <1>12 DEF WatchInv, Foreseen, Apart
<1>. QED BY <1>1, <1>8, <1>9, <1>13 DEF Still, WatchInv

(* A step that reads nothing: it goes on to the next place, or stays.      *)
Onward ==
  {<<"pods", "volumes">>, <<"volumes", "reclaim">>, <<"beat", "rest">>}
    \cup {<<a, a>> : a \in Places}

LEMMA QuietKeeps ==
  ASSUME WatchInv, Still, UNCHANGED <<sample, pass, seen>>,
         <<at, at'>> \in Onward,
         pending' = "built" => pending = "built" \/ Usable
  PROVE  WatchInv'
<1>1. PICK f \in Int, u \in Nat, k \in Nat :
        /\ f = Free /\ f = Free' /\ u = Unwritten(Pods) /\ u = Unwritten(Pods)'
        /\ k = Asked /\ k = Asked' /\ Usable' = Usable
        /\ Foresight(f, u, seen, at, pass) /\ NoneAdded(k, seen, pass)
  BY StillFacts
<1>2. /\ \/ at' = at
         \/ at = "pods" /\ at' = "volumes"
         \/ at = "volumes" /\ at' = "reclaim"
         \/ at = "beat" /\ at' = "rest"
      /\ at' \in Places
  BY DEF Onward, Places
<1>3. WatchType'
  BY <1>2 DEF Still, WatchInv, WatchType
<1>4. Sampled'
  <2>1. Before' = Before
    BY <1>1 DEF Before, Still
  <2>. QED BY <1>2, <2>1 DEF Still, WatchInv, Sampled
<1>5. Foresight(f, u, seen, at', pass)
  BY <1>1, <1>2 DEF Foresight
<1>6. Foreseen'
  BY <1>1, <1>5 DEF Foreseen
<1>7. Apart'
  BY <1>1, <1>2 DEF WatchInv, Apart
<1>. QED BY <1>3, <1>4, <1>6, <1>7 DEF Still, WatchInv

LEMMA ReadVolumesKeeps == ASSUME WatchInv, ReadVolumes PROVE WatchInv'
<1>1. /\ at = "volumes" /\ at' = "reclaim" /\ Still /\ UNCHANGED <<sample, seen, pending>>
  BY DEF ReadVolumes, Still, workVars, leaseVars, nodeVars
<1>2. PICK f \in Int, u \in Nat, k \in Nat :
        /\ f = Free /\ f = Free' /\ u = Unwritten(Pods) /\ u = Unwritten(Pods)'
        /\ k = Asked /\ k = Asked' /\ Usable' = Usable
        /\ Foresight(f, u, seen, at, pass) /\ NoneAdded(k, seen, pass)
  BY <1>1, StillFacts
<1>3. CASE UNCHANGED pass
  BY <1>1, <1>3, QuietKeeps DEF Onward
<1>4. CASE pass' = [pass EXCEPT !.needs = Append(@, Need(Requested(registry)))]
  <2>1. PICK w \in Nat : w = Requested(registry) /\ w <= k
    BY <1>2, RequestedFacts, AskedFacts DEF WatchInv
  <2>2. /\ pass.avail \in Int /\ pass.floor \in Nat /\ seen.slip \in Nat
        /\ \A i \in DOMAIN pass.needs : pass.needs[i] \in Nat
    BY PassFacts DEF WatchInv
  <2>3. PICK n \in Nat : /\ n = Need(Requested(registry))
                         /\ n = Larger(0, pass.floor - (pass.avail - w))
    BY SMTT(20), <2>1, <2>2 DEF Need, Larger
  <2>4. /\ pass' \in [avail: Int, floor: Nat, needs: Seq(Nat), held: Nat, took: Int]
        /\ pass'.avail = pass.avail /\ pass'.floor = pass.floor /\ pass'.needs # <<>>
        /\ DOMAIN pass'.needs = DOMAIN pass.needs \cup {Len(pass.needs) + 1}
        /\ pass'.needs[Len(pass.needs) + 1] = n
        /\ \A i \in DOMAIN pass.needs : pass'.needs[i] = pass.needs[i]
    BY <1>4, <2>3, Joined DEF WatchInv
  <2>5. WatchType'
    BY <1>1, <2>4 DEF Still, WatchInv, WatchType, Places
  <2>6. Sampled'
    <3>1. Before' = Before
      BY <1>1, <1>2 DEF Before, Still
    <3>. QED BY <1>1, <3>1 DEF Still, WatchInv, Sampled
  <2>7. Foresight(f, u, seen, "reclaim", pass')
    BY <1>1, <1>2, <2>4 DEF Foresight
  <2>8. n <= Larger(0, pass.floor - pass.avail + k)
    BY SMTT(20), <2>1, <2>2, <2>3 DEF Larger
  <2>9. NoneAdded(k, seen, pass')
    BY <1>2, <2>4, <2>8 DEF NoneAdded
  <2>10. Foreseen' /\ Apart'
    BY <1>1, <1>2, <2>4, <2>7, <2>9 DEF WatchInv, Foreseen, Apart
  <2>. QED BY <1>1, <2>5, <2>6, <2>10 DEF Still, WatchInv
<1>. QED BY <1>3, <1>4 DEF ReadVolumes

(* What a reclaim takes: the shortfall, or all there is.                   *)
LEMMA ReclaimTakes ==
  ASSUME WatchInv, at = "reclaim"
  PROVE  \E need \in Nat, n \in Nat :
           /\ need = Shortfall(pass.needs) /\ n = Smaller(need, held)
           /\ n <= need /\ n <= held /\ n <= lent
           /\ \E i \in DOMAIN pass.needs : need = pass.needs[i]
           /\ \A i \in DOMAIN pass.needs : need >= pass.needs[i]
<1>1. pass.needs \in Seq(Nat) /\ pass.needs # <<>>
  BY PassFacts DEF WatchInv, Apart
<1>2. /\ \E i \in DOMAIN pass.needs : Shortfall(pass.needs) = pass.needs[i]
      /\ \A i \in DOMAIN pass.needs : Shortfall(pass.needs) >= pass.needs[i]
  BY <1>1, ShortfallFacts
<1>. HIDE DEF Shortfall
<1>3. PICK need \in Nat : need = Shortfall(pass.needs)
  BY SMTT(20), <1>1, <1>2
<1>4. held \in Nat /\ lent \in Nat /\ held <= lent
  BY DEF WatchInv, WatchType, Sampled
<1>5. PICK n \in Nat : n = Smaller(need, held) /\ n <= need /\ n <= held /\ n <= lent
  BY SMTT(20), <1>4 DEF Smaller
<1>. QED BY <1>2, <1>3, <1>5

LEMMA ReclaimKeeps == ASSUME WatchInv, Reclaim PROVE WatchInv'
<1>1. PICK need \in Nat, n \in Nat :
        /\ need = Shortfall(pass.needs) /\ n = Smaller(need, held)
        /\ n <= need /\ n <= held /\ n <= lent
        /\ \E i \in DOMAIN pass.needs : need = pass.needs[i]
        /\ \A i \in DOMAIN pass.needs : need >= pass.needs[i]
  BY ReclaimTakes DEF Reclaim
<1>2. /\ at = "reclaim" /\ pass' = NoPass /\ lent' = lent - n /\ held' = held - n
      /\ UNCHANGED <<layout, phase, used, other, registry, sample, pending>>
  BY <1>1 DEF Reclaim, workVars, nodeVars
<1>3. PICK e \in Nat, done \in BOOLEAN :
        /\ stuck' = stuck + e /\ e <= n /\ at' \in {"beat", "rest"}
        /\ seen' = [took |-> seen.took, calm |-> FALSE, wrote |-> FALSE, pods |-> FALSE,
                    slip |-> 0, clear |-> done]
        /\ done => seen.clear \/ (n = need /\ e = 0 /\ seen.pods /\ seen.slip <= pass.floor)
  <2>1. seen \in [took: Int, calm: BOOLEAN, wrote: BOOLEAN, pods: BOOLEAN, slip: Nat,
                  clear: BOOLEAN]
    BY DEF WatchInv, WatchType
  <2>2. stuck \in Nat
    BY DEF WatchInv, WatchType
  <2>3. CASE at' = "beat" /\ Concluded(n = need) /\ UNCHANGED stuck
    <3>. DEFINE d == seen.clear \/ (n = need /\ seen.calm /\ seen.pods /\ seen.slip <= pass.floor)
    <3>1. d \in BOOLEAN
      BY <2>1
    <3>2. seen' = [took |-> seen.took, calm |-> FALSE, wrote |-> FALSE, pods |-> FALSE,
                   slip |-> 0, clear |-> d]
      BY <2>1, <2>3 DEF Concluded
    <3>3. stuck' = stuck + 0 /\ 0 \in Nat /\ 0 <= n
      BY SMTT(20), <2>2, <2>3
    <3>4. d => seen.clear \/ (n = need /\ 0 = 0 /\ seen.pods /\ seen.slip <= pass.floor)
      OBVIOUS
    <3>. HIDE DEF d
    <3>. QED BY <2>3, <3>1, <3>2, <3>3, <3>4
  <2>4. CASE n > 0 /\ stuck' = stuck + 1 /\ at' = "rest" /\ Concluded(FALSE)
    <3>1. seen' = [took |-> seen.took, calm |-> FALSE, wrote |-> FALSE, pods |-> FALSE,
                   slip |-> 0, clear |-> seen.clear]
      BY <2>1, <2>4 DEF Concluded
    <3>2. 1 \in Nat /\ 1 <= n /\ seen.clear \in BOOLEAN
      BY SMTT(20), <2>1, <2>4
    <3>. QED BY <2>4, <3>1, <3>2
  <2>. QED BY <1>1, <2>3, <2>4 DEF Reclaim
<1>4. PICK f \in Int, u \in Nat, g \in Int :
        /\ f = Free /\ u = Unwritten(Pods) /\ u = Unwritten(Pods)'
        /\ g = Free' /\ g = f + n - e /\ Foresight(f, u, seen, at, pass)
  <2>1. Free \in Int /\ Unwritten(Pods) \in Nat /\ Unwritten(Pods)' = Unwritten(Pods)
    BY <1>2, FreeFacts, LeftFacts, UnwrittenSame DEF WatchInv
  <2>2. Free' = Free + n - e
    <3>1. SumOver(used, Pods) \in Nat /\ FsSize \in Nat
      BY UsedFacts, WatchAssumption DEF WatchInv
    <3>. QED BY SMTT(20), <1>2, <1>3, <3>1 DEF WatchInv, WatchType, Free, Taken
  <2>3. Foresight(Free, Unwritten(Pods), seen, at, pass)
    BY DEF WatchInv, Foreseen
  <2>4. PICK f \in Int : f = Free
    BY <2>1
  <2>5. f + n - e \in Int /\ Free' = f + n - e
    BY SMTT(20), <2>2, <2>4
  <2>. QED BY <2>1, <2>3, <2>4, <2>5
<1>5. /\ pass.avail \in Int /\ pass.floor \in Nat /\ seen.slip \in Nat
      /\ \A i \in DOMAIN pass.needs : pass.needs[i] \in Nat
  BY PassFacts DEF WatchInv
<1>6. WatchType'
  <2>1. /\ seen' \in [took: Int, calm: BOOLEAN, wrote: BOOLEAN, pods: BOOLEAN, slip: Nat,
                      clear: BOOLEAN]
        /\ pass' \in [avail: Int, floor: Nat, needs: Seq(Nat), held: Nat, took: Int]
    BY SMTT(30), <1>2, <1>3 DEF NoPass, WatchInv, WatchType
  <2>2. lent' \in Nat /\ held' \in Nat /\ stuck' \in Nat
    <3>1. lent \in Nat /\ held \in Nat /\ stuck \in Nat
      BY DEF WatchInv, WatchType
    <3>2. n <= held /\ n <= lent /\ lent' = lent - n /\ held' = held - n /\ stuck' = stuck + e
      BY <1>1, <1>2, <1>3
    <3>. QED BY SMTT(20), <3>1, <3>2
  <2>. QED BY <1>2, <1>3, <2>1, <2>2 DEF WatchInv, WatchType, Places
<1>7. Sampled'
  <2>1. held \in Nat /\ lent \in Nat /\ held <= lent /\ seen.took \in Int /\ sample.sum \in Int
    BY DEF WatchInv, WatchType, Sampled
  <2>2. Before = f + held + seen.took
    BY <1>4 DEF Before
  <2>3. Before' = g + (held - n) + seen.took
    BY <1>2, <1>3, <1>4 DEF Before
  <2>4. sample.have => sample.sum >= g + (held - n) + seen.took
    <3>1. sample.have => sample.sum >= f + held + seen.took
      BY <1>2, <2>2 DEF WatchInv, Sampled
    <3>. QED BY SMTT(20), <1>4, <2>1, <3>1
  <2>5. held' <= lent' /\ at' # "lent"
    BY SMTT(20), <1>2, <1>3, <2>1
  <2>. QED BY <1>2, <2>3, <2>4, <2>5 DEF Sampled
<1>8. Foresight(g, u, seen', at', pass')
  <2>1. ASSUME done PROVE g >= u
    <3>1. CASE seen.clear
      <4>1. f >= u
        BY <1>4, <3>1 DEF Foresight
      <4>. QED BY SMTT(20), <1>3, <1>4, <4>1
    <3>2. CASE n = need /\ e = 0 /\ seen.pods /\ seen.slip <= pass.floor
      <4>1. PICK i \in DOMAIN pass.needs : f + pass.needs[i] >= u + pass.floor - seen.slip
        BY <1>4, <3>2 DEF Foresight
      <4>2. pass.needs[i] \in Nat /\ need >= pass.needs[i] /\ n = need /\ g = f + n
        BY SMTT(30), <1>1, <1>3, <1>4, <1>5, <3>2
      <4>. QED BY SMTT(20), <1>5, <3>2, <4>1, <4>2
    <3>. QED BY <1>3, <2>1, <3>1, <3>2
  <2>2. ~seen'.calm /\ ~seen'.pods /\ seen'.clear = done
    BY <1>3
  <2>. QED BY <2>1, <2>2 DEF Foresight
<1>9. Foreseen'
  BY <1>4, <1>8 DEF Foreseen
<1>10. Apart'
  <2>1. NoneAdded(Asked', seen', pass')
    BY <1>3 DEF NoneAdded
  <2>2. Usable' = Usable /\ at' \notin {"pods", "volumes", "reclaim"}
    BY <1>2, <1>3 DEF Usable
  <2>. QED BY <1>2, <2>1, <2>2 DEF WatchInv, Apart
<1>. QED BY <1>2, <1>6, <1>7, <1>9, <1>10 DEF WatchInv

(* What the watch begins with.                                             *)
LEMMA NothingYet ==
  /\ NoPass \in [avail: Int, floor: Nat, needs: Seq(Nat), held: Nat, took: Int]
  /\ NoSample \in [sum: Int, have: BOOLEAN]
  /\ NothingSeen \in [took: Int, calm: BOOLEAN, wrote: BOOLEAN, pods: BOOLEAN, slip: Nat,
                      clear: BOOLEAN]
<1>1. 0 \in Nat /\ 0 \in Int /\ <<>> \in Seq(Nat) /\ FALSE \in BOOLEAN
  BY SMTT(20)
<1>. QED BY <1>1 DEF NoPass, NoSample, NothingSeen

LEMMA KillKeeps == ASSUME WatchInv, Kill PROVE WatchInv'
<1>1. /\ lent' = held /\ stuck' = 0 /\ registry' = NewRegistry /\ pending' \in FirstAttempt
      /\ at' = "rest" /\ pass' = NoPass /\ sample' = NoSample /\ seen' = NothingSeen
      /\ UNCHANGED <<layout, phase, used, other, held>>
  BY DEF Kill, workVars, nodeVars
<1>2. WatchType'
  BY SMTT(20), <1>1, NothingYet DEF WatchInv, WatchType, Places
<1>3. GoodRegistry(NewRegistry)
  BY SMTT(20), EmptyFinite DEF GoodRegistry, NewRegistry
<1>4. Sampled'
  BY SMTT(20), <1>1 DEF NoSample, WatchInv, WatchType, Sampled
<1>5. Foreseen'
  BY <1>1 DEF NothingSeen, Foreseen, Foresight
<1>6. Apart'
  <2>1. pending' = "built" => Usable'
    BY <1>1 DEF FirstAttempt, Usable
  <2>2. NoneAdded(Asked', seen', pass')
    BY <1>1 DEF NothingSeen, NoneAdded
  <2>. QED BY <1>1, <2>1, <2>2 DEF Apart
<1>. QED BY <1>1, <1>2, <1>3, <1>4, <1>5, <1>6 DEF WatchInv

LEMMA WatchInvInit == ASSUME WatchInit PROVE WatchInv
<1>1. WatchType
  BY SMTT(20), NothingYet DEF WatchInit, WatchType, Places
<1>2. GoodRegistry(registry)
  BY SMTT(20), EmptyFinite DEF WatchInit, GoodRegistry, NewRegistry
<1>3. Sampled
  BY SMTT(20) DEF WatchInit, NoSample, Sampled
<1>4. Foreseen
  BY DEF WatchInit, NothingSeen, Foreseen, Foresight
<1>5. Apart
  BY DEF WatchInit, FirstAttempt, NothingSeen, NoneAdded, Apart
<1>. QED BY <1>1, <1>2, <1>3, <1>4, <1>5 DEF WatchInv

LEMMA WatchInvNext == ASSUME WatchInv, [WatchNext]_watchVars PROVE WatchInv'
<1>. DEFINE Quiet == /\ Still /\ UNCHANGED <<sample, pass, seen>> /\ <<at, at'>> \in Onward
                     /\ pending' = "built" => pending = "built" \/ Usable
<1>1. Quiet => WatchInv'
  BY QuietKeeps
<1>2. at \in Places
  BY DEF WatchInv, WatchType
<1>3. PodsUnread \/ Heartbeat => Quiet
  BY DEF PodsUnread, Heartbeat, Onward, Still, workVars, leaseVars, nodeVars
<1>4. Attempt => Quiet
  BY <1>2 DEF Attempt, Onward, Still, workVars, leaseVars, nodeVars
<1>5. Break \/ UNCHANGED watchVars => Quiet
  BY <1>2 DEF Break, Onward, Still, workVars, leaseVars, nodeVars, passVars, watchVars
<1>. HIDE DEF Quiet
<1>6. CASE Measure \/ Rate \/ ReadPods \/ ReadVolumes \/ Reclaim
  BY <1>6, MeasureKeeps, RateKeeps, ReadPodsKeeps, ReadVolumesKeeps, ReclaimKeeps
<1>7. CASE Scribble \/ Accept \/ Allocate \/ Kill
  BY <1>7, ScribbleKeeps, GrantKeeps, KillKeeps
<1>8. ASSUME NEW p \in Pods, Start(p) \/ Write(p) \/ Finish(p) PROVE WatchInv'
  BY <1>8, StartKeeps, WriteKeeps, FinishKeeps
<1>9. ASSUME NEW v \in Volumes, Publish(v) \/ Unpublish(v) PROVE WatchInv'
  BY <1>9, VolumeKeeps
<1>. QED BY <1>1, <1>3, <1>4, <1>5, <1>6, <1>7, <1>8, <1>9
         DEF WatchNext, Step, Environment

LEMMA WatchInvariance == WatchSpec => []WatchInv
BY WatchInvInit, WatchInvNext, PTL DEF WatchSpec

-----------------------------------------------------------------------------
(* What the watch guarantees.                                              *)

(* After a pass that read every pod and met the shortfall, what the pods   *)
(* declared and have not written is free, whatever the node's sizes, pods, *)
(* containers, volumes and leases: the largest need covers the pods' own,  *)
(* and the writes the pass did not see are within the floor it kept.       *)
THEOREM DeclaredAlwaysFit == WatchSpec => []DeclaredWritesFit
<1>1. WatchInv => DeclaredWritesFit
  BY DEF WatchInv, Foreseen, Foresight, DeclaredWritesFit
<1>. QED BY <1>1, WatchInvariance, PTL

(* The floor of a pass that remembers a sample is at least what the        *)
(* workloads took since, times the intervals it must last: neither a       *)
(* reclaim nor a failed unlink of the agent's own hides a write from it.   *)
THEOREM FloorAlwaysCovers == WatchSpec => FloorCoversWrites
<1>1. ASSUME WatchInv, [WatchNext]_watchVars, at = "lent", at' = "pods", sample.have
      PROVE  pass'.floor >= HeadroomFor * (pass.took - (lent - pass.held))
  <2>1. Rate
    BY <1>1 DEF WatchNext, Step, Environment, Measure, ReadPods, PodsUnread, ReadVolumes,
                Reclaim, Heartbeat, Allocate, Attempt, Start, Write, Finish, Publish, Unpublish,
                Scribble, Accept, Break, Kill, passVars, watchVars
  <2>2. pass'.floor = Target
    BY SMTT(20), <2>1 DEF Rate, WatchInv, WatchType
  <2>. HIDE DEF Target
  <2>. QED BY <1>1, <2>2, TargetFacts
<1>. QED BY <1>1, WatchInvariance, PTL DEF WatchSpec, FloorCoversWrites

(* A reclaim in a quiet pass gives back one observation's need and never   *)
(* two added up, although the pods' and the volumes' answers overlap: only *)
(* Reclaim lowers what is held, by no more than the largest need.          *)
THEOREM NeverAddedUp == WatchSpec => NeverTheSum
<1>1. ASSUME WatchInv, [WatchNext]_watchVars, held' < held, seen.calm, ~seen.wrote
      PROVE  pass.avail + (held - held') <= pass.floor + Asked
  <2>1. Reclaim
    <3>1. held \in Nat
      BY <1>1 DEF WatchInv, WatchType
    <3>2. held' = held \/ held' = held + 1 \/ Reclaim
      BY <1>1
         DEF WatchNext, Step, Environment, Measure, Rate, ReadPods, PodsUnread, ReadVolumes,
             Heartbeat, Allocate, Attempt, Start, Write, Finish, Publish, Unpublish,
             Scribble, Accept, Break, Kill, leaseVars, watchVars
    <3>. QED BY SMTT(20), <1>1, <3>1, <3>2
  <2>2. PICK need \in Nat, n \in Nat :
          /\ need = Shortfall(pass.needs) /\ n = Smaller(need, held)
          /\ n <= need /\ n <= held /\ n <= lent
          /\ \E i \in DOMAIN pass.needs : need = pass.needs[i]
          /\ \A i \in DOMAIN pass.needs : need >= pass.needs[i]
    BY <1>1, <2>1, ReclaimTakes DEF Reclaim
  <2>3. held' = held - n
    BY <2>1, <2>2 DEF Reclaim
  <2>4. PICK k \in Nat : k = Asked /\ NoneAdded(k, seen, pass)
    BY <1>1, AskedFacts DEF WatchInv, Apart
  <2>5. pass.avail \in Int /\ pass.floor \in Nat /\ held \in Nat
    BY <1>1, PassFacts DEF WatchInv, WatchType
  <2>6. need <= Larger(0, pass.floor - pass.avail + k)
    BY <1>1, <2>2, <2>4 DEF NoneAdded
  <2>. QED BY SMTT(20), <1>1, <2>2, <2>3, <2>4, <2>5, <2>6 DEF Larger
<1>. QED BY <1>1, WatchInvariance, PTL DEF WatchSpec, NeverTheSum, Asked

=============================================================================
