------------------------------ MODULE Prefetch ------------------------------
(***************************************************************************)
(* The stride detector of internal/prefetch: what it remembers of one      *)
(* stream of reads, and what one more read makes of it.  The detector has  *)
(* no lock and no thread of its own; the data server calls Observe under   *)
(* its mutex, so a stream is a value and Observe a function of it.         *)
(***************************************************************************)
EXTENDS Integers, Sequences, FiniteSetsExt, Functions

CONSTANTS
  Depth,          \* blocks predicted ahead of a confirmed reader
  Confirmations,  \* reads that must share a stride
  Window,         \* judged predictions the accuracy is measured over
  MinAccuracy,    \* the floor, in percent
  Patience        \* how long a prediction waits to be read

(* Config.Validate.                                                        *)
ASSUME PrefetchConfig ==
  /\ Depth \in Nat \ {0}
  /\ Confirmations \in Nat \ (0 .. 2)
  /\ Window \in Nat \ {0}
  /\ MinAccuracy \in 0 .. 100
  /\ Patience \in Nat \ {0}

-----------------------------------------------------------------------------
NewStream ==
  [ started |-> FALSE, last |-> 0, stride |-> 0, runs |-> 0,
    outstanding |-> <<>>, recent |-> <<>>, muted |-> FALSE, mutedStride |-> 0 ]

Judged(recent, read) ==
  LET all == Append(recent, read)
  IN  IF Len(all) > Window THEN Tail(all) ELSE all

(* accuracy(recent) < MinAccuracy, without the division.                   *)
TooFewRead(recent) ==
  100 * Len(SelectSeq(recent, LAMBDA read : read)) < MinAccuracy * Len(recent)

(* record: one judged prediction, and the mute on the way below the floor. *)
Record(s, read) ==
  LET recent == Judged(s.recent, read)
      judged == [s EXCEPT !.recent = recent]
  IN  IF Len(recent) = Window /\ ~ s.muted /\ TooFewRead(recent)
        THEN [judged EXCEPT !.muted = TRUE, !.mutedStride = s.stride,
                            !.outstanding = <<>>, !.stride = 0, !.runs = 0]
        ELSE judged

Without(outstanding, indexes) ==
  Restrict(outstanding, DOMAIN outstanding \ indexes)

(* score: this read confirms a prediction, patience condemns the others.   *)
Score(s, index, now) ==
  LET met == IF index \in DOMAIN s.outstanding
               THEN Record([s EXCEPT !.outstanding = Without(@, {index})], TRUE)
               ELSE s
      late == {i \in DOMAIN met.outstanding : now - met.outstanding[i] >= Patience}
      left == [met EXCEPT !.outstanding = Without(@, late)]
  IN  FoldSet(LAMBDA i, acc : Record(acc, FALSE), left, late)

(* track: the stride, its run, and the unmute by a different stride.       *)
Track(s, index) ==
  LET stride == index - s.last
      moved == [s EXCEPT !.last = index]
      lifts == s.muted /\ stride # s.mutedStride /\ s.runs + 3 >= Confirmations
  IN  CASE ~ s.started -> [moved EXCEPT !.started = TRUE]
        [] s.started /\ stride = 0 -> moved
        [] s.started /\ stride # 0 /\ stride # s.stride ->
             [moved EXCEPT !.stride = stride, !.runs = 0]
        [] s.started /\ stride # 0 /\ stride = s.stride ->
             IF lifts THEN [moved EXCEPT !.runs = @ + 1, !.muted = FALSE, !.recent = <<>>]
                      ELSE [moved EXCEPT !.runs = @ + 1]

Predicting(s) == s.started /\ ~ s.muted /\ s.runs + 2 >= Confirmations

(* The predictions a read adds, nearest first.                             *)
NextBlocks(s, index) ==
  LET ahead == [i \in 1 .. Depth |-> index + s.stride * i]
  IN  SelectSeq(ahead, LAMBDA b : b \notin DOMAIN s.outstanding)

(* Observe: the stream after the read, and the blocks worth fetching.      *)
Observe(s, index, now) ==
  LET seen == Track(Score(s, index, now), index)
      next == IF Predicting(seen) THEN NextBlocks(seen, index) ELSE <<>>
  IN  [ stream |-> [seen EXCEPT !.outstanding =
                      [i \in DOMAIN @ \cup Range(next) |-> IF i \in DOMAIN @ THEN @[i] ELSE now]],
        next |-> next ]
=============================================================================
