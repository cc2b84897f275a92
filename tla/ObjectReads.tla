---------------------------- MODULE ObjectReads ----------------------------
(***************************************************************************)
(* What a node promises of a read, whatever it caches: every read of an    *)
(* immutable object is answered with that object's bytes, or with the      *)
(* range error the store itself would give, and fails only when the store  *)
(* failed or refused, or the caller gave up.  "A reader must then see a    *)
(* miss rather than an error or stale bytes" (internal/fasttier/block.go). *)
(***************************************************************************)
EXTENDS Integers, Sequences

CONSTANTS
  Readers,
  Requests,   \* per reader, what it asks for: [object, offset, length]
  SizeOf,     \* object -> its length in units
  MaxRead,    \* the most a single read may ask for
  MaxOffset,  \* what an offset can count
  Nobody      \* the answer and the request of a reader that has none

VARIABLES
  asked,   \* per reader, the request being answered
  answer,  \* per reader, the last answer
  faults   \* failures of the store and callers that gave up, so far

readVars == <<asked, answer, faults>>

Bytes(object, from, to) == [i \in 1 .. to - from |-> <<object, from + i - 1>>]

Ok(data) == [status |-> "ok", data |-> data]
Bad(status) == [status |-> status, data |-> <<>>]

(* What the store's own contract makes of a request.                       *)
Reference(q) ==
  CASE q.offset < 0 \/ q.length < 0 -> Bad("refused")
    [] q.offset >= 0 /\ q.length = 0 -> Ok(<<>>)
    [] q.offset >= 0 /\ q.length > 0 /\ (q.offset > MaxOffset - q.length \/ q.length > MaxRead) ->
         Bad("refused")
    [] OTHER -> IF q.offset + q.length > SizeOf[q.object] THEN Bad("range")
                  ELSE Ok(Bytes(q.object, q.offset, q.offset + q.length))

-----------------------------------------------------------------------------
Init ==
  /\ asked = [r \in Readers |-> Nobody]
  /\ answer = [r \in Readers |-> Nobody]
  /\ faults = 0

Ask(r) ==
  /\ asked[r] = Nobody
  /\ \E q \in Requests[r] : asked' = [asked EXCEPT ![r] = q]
  /\ answer' = [answer EXCEPT ![r] = Nobody]
  /\ UNCHANGED faults

Reply(r) ==
  /\ asked[r] # Nobody
  /\ answer' = [answer EXCEPT ![r] = Reference(asked[r])]
  /\ asked' = [asked EXCEPT ![r] = Nobody]
  /\ UNCHANGED faults

Fail(r) ==
  /\ asked[r] # Nobody
  /\ answer' = [answer EXCEPT ![r] = Bad("failed")]
  /\ asked' = [asked EXCEPT ![r] = Nobody]
  /\ faults' = faults + 1

(* A request that is refused or empty is answered in the call that asks it. *)
AskAndReply(r) ==
  /\ asked[r] = Nobody
  /\ \E q \in Requests[r] : answer' = [answer EXCEPT ![r] = Reference(q)]
  /\ UNCHANGED <<asked, faults>>

Next == \E r \in Readers : Ask(r) \/ Reply(r) \/ Fail(r) \/ AskAndReply(r)
Spec == Init /\ [][Next]_readVars
=============================================================================
