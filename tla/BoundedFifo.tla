---------------------------- MODULE BoundedFifo ----------------------------
(***************************************************************************)
(* What src/audio/SpscRingBuffer.h promises the two threads that share it: *)
(* a bounded queue whose tryPush and tryPop each take effect at once.      *)
(*                                                                         *)
(* The two index atomics are stored with release and loaded with acquire   *)
(* order, which lets a thread read a value older than the newest one.  So  *)
(* the producer may still count items that are already popped, and the     *)
(* consumer may not yet count items that are already pushed: unseenPops    *)
(* and unseenPushes are those two lags.  A queue refuses a push or a pop   *)
(* only for what its caller can see.                                       *)
(*                                                                         *)
(* Module SpscRingBuffer implements this queue and module                  *)
(* AudioWorkerPipeline is built from two of them.                          *)
(***************************************************************************)
EXTENDS Naturals, Sequences

CONSTANTS
  Capacity,   \* the most items the queue holds
  Items,      \* what may be pushed
  Prompt      \* TRUE: every store is visible to the other thread at once

VARIABLES
  items,          \* the queue, oldest first
  unseenPops,     \* pops the producer has not observed yet
  unseenPushes,   \* pushes the consumer has not observed yet
  returned,       \* the item the last successful pop handed out
  refusedPushes,  \* overflowCount_
  refusedPops     \* underflowCount_

vars == <<items, unseenPops, unseenPushes, returned, refusedPushes, refusedPops>>

Lag(n) == IF Prompt THEN 0 ELSE n + 1

\* full() as the producer sees it, empty() as the consumer sees it.
Full  == Len(items) + unseenPops >= Capacity
Empty == Len(items) <= unseenPushes

Init ==
  /\ items = <<>>
  /\ unseenPops = 0
  /\ unseenPushes = 0
  /\ refusedPushes = 0
  /\ refusedPops = 0

TryPush(x) ==
  /\ IF Full
     THEN /\ refusedPushes' = refusedPushes + 1
          /\ UNCHANGED <<items, unseenPushes>>
     ELSE /\ items' = Append(items, x)
          /\ unseenPushes' = Lag(unseenPushes)
          /\ UNCHANGED refusedPushes
  /\ UNCHANGED <<unseenPops, returned, refusedPops>>

TryPop ==
  /\ IF Empty
     THEN /\ refusedPops' = refusedPops + 1
          /\ UNCHANGED <<items, unseenPops, returned>>
     ELSE /\ returned' = Head(items)
          /\ items' = Tail(items)
          /\ unseenPops' = Lag(unseenPops)
          /\ UNCHANGED refusedPops
  /\ UNCHANGED <<unseenPushes, refusedPushes>>

\* The producer observes some of the pops, the consumer some of the pushes.
NoticePops ==
  /\ unseenPops > 0
  /\ unseenPops' \in 0 .. unseenPops - 1
  /\ UNCHANGED <<items, unseenPushes, returned, refusedPushes, refusedPops>>

NoticePushes ==
  /\ unseenPushes > 0
  /\ unseenPushes' \in 0 .. unseenPushes - 1
  /\ UNCHANGED <<items, unseenPops, returned, refusedPushes, refusedPops>>

\* reset(): legal only while neither thread is inside the queue.  What the
\* consumer popped before is its own and stays with it.
Reset ==
  /\ items' = <<>>
  /\ unseenPops' = 0
  /\ unseenPushes' = 0
  /\ refusedPushes' = 0
  /\ refusedPops' = 0

Next ==
  \/ \E x \in Items : TryPush(x)
  \/ TryPop
  \/ NoticePops
  \/ NoticePushes
  \/ Reset /\ UNCHANGED returned

Spec == Init /\ [][Next]_vars
=============================================================================
