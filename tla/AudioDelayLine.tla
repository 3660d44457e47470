--------------------------- MODULE AudioDelayLine ---------------------------
(***************************************************************************)
(* What AudioWorkerPipeline promises whoever listens to it: a delay line.  *)
(* The blocks accepted and not yet consumed form one line, in the order    *)
(* they were submitted, wherever they are (queued, in the worker, queued   *)
(* again).  Only the oldest can be consumed, and one is lost on the way    *)
(* only when a whole queue of older blocks waits to be consumed.           *)
(***************************************************************************)
EXTENDS Naturals, Sequences, SequencesExt

CONSTANTS
  QueueCapacity,
  Prompt   \* see BoundedFifo: without it a queue may look full with fewer blocks

VARIABLES
  line,       \* sequence numbers of the blocks in flight, oldest first
  consumed,   \* sequence number of the block consumed last, 0 for none
  newest      \* sequence number given out last

vars == <<line, consumed, newest>>

Init == line = <<>> /\ consumed = 0 /\ newest = 0

\* A callback takes a number; its block joins the line later, or never does.
Number == newest' = newest + 1 /\ UNCHANGED <<line, consumed>>

Accept ==
  /\ Len(line) < 2 * QueueCapacity + 1
  /\ \A i \in DOMAIN line : line[i] < newest
  /\ line' = Append(line, newest)
  /\ UNCHANGED <<consumed, newest>>

Consume ==
  /\ line # <<>>
  /\ consumed' = Head(line)
  /\ line' = Tail(line)
  /\ UNCHANGED newest

Lose(i) ==
  /\ Prompt => i > QueueCapacity
  /\ line' = RemoveAt(line, i)
  /\ UNCHANGED <<consumed, newest>>

\* The owner empties the stopped line.
Clear ==
  /\ line' = <<>>
  /\ consumed' = 0
  /\ UNCHANGED newest

Next ==
  \/ Number \/ Accept \/ Consume
  \/ \E i \in DOMAIN line : Lose(i)
  \/ Clear

Spec == Init /\ [][Next]_vars
=============================================================================
