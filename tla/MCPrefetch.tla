----------------------------- MODULE MCPrefetch -----------------------------
(* One stream of reads through the stride detector, for the accuracy floor *)
(* and the mute.                                                           *)
EXTENDS Prefetch

CONSTANTS
  Blocks,   \* the blocks the reader may read
  MaxClock  \* bound: of the clock

VARIABLES
  stream, now,
  madeFor,  \* history: per outstanding prediction, the stride it followed
  failed    \* history: the strides with a prediction nobody read

streamVars == <<stream, now, madeFor, failed>>

StreamInit == stream = NewStream /\ now = 0 /\ madeFor = <<>> /\ failed = {}

(* One read of the object by any of its readers.                           *)
ReadBlock(index) ==
  LET seen == Observe(stream, index, now)
      unread == {i \in DOMAIN stream.outstanding :
                   i # index /\ now - stream.outstanding[i] >= Patience}
  IN  /\ stream' = seen.stream
      /\ failed' = failed \cup {madeFor[i] : i \in unread}
      /\ madeFor' = [i \in DOMAIN seen.stream.outstanding |->
                       IF i \in Range(seen.next) THEN seen.stream.stride ELSE madeFor[i]]
      /\ UNCHANGED now

Tick == now < MaxClock /\ now' = now + 1 /\ UNCHANGED <<stream, madeFor, failed>>

StreamNext == (\E index \in Blocks : ReadBlock(index)) \/ Tick
StreamSpec == StreamInit /\ [][StreamNext]_streamVars

-----------------------------------------------------------------------------
(* "mutedStride is the stride it failed on, and only a different one lifts *)
(* it" (prefetch.go:90): the stride a muted stream is held to is one whose *)
(* predictions went unread.                                                *)
MutedOnWhatFailed == stream.muted => stream.mutedStride \in failed
=============================================================================
