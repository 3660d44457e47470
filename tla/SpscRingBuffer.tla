--------------------------- MODULE SpscRingBuffer ---------------------------
(***************************************************************************)
(* src/audio/SpscRingBuffer.h: a ring of Capacity + 1 slots shared by one  *)
(* producer thread (tryPush, full) and one consumer thread (tryPop, empty).*)
(*                                                                         *)
(* Every access of a thread to something shared is a step of its own:      *)
(* loading the other side's index, copying an item into or out of a slot   *)
(* (a copy of 16 KB for an AudioBlock, hence not atomic), and storing its  *)
(* own index.                                                              *)
(*                                                                         *)
(* head and tail count the stores made to readIndex_ and writeIndex_; the  *)
(* n-th store writes Index(n), and all the code computes with is Index of  *)
(* a count.  An acquire load may return a value older than the newest, but *)
(* never one older than the thread read before: headSeen and tailSeen are  *)
(* the newest store of readIndex_ the producer can see and the newest      *)
(* store of writeIndex_ the consumer can see.                              *)
(***************************************************************************)
EXTENDS Integers, Sequences

CONSTANTS
  Capacity,   \* the template parameter
  Items,      \* the values pushed
  Torn,       \* the content of a slot while an item is being copied into it
  MaxPushes,  \* bound: calls of tryPush between two resets
  MaxPops     \* bound: calls of tryPop between two resets

ASSUME CapacityAssumption == Capacity \in Nat \ {0}
ASSUME ItemsAssumption == Items # {}
ASSUME TornAssumption == Torn \notin Items
ASSUME BoundAssumption == MaxPushes \in Nat /\ MaxPops \in Nat

VARIABLES
  storage,         \* storage_
  head, tail,      \* stores made to readIndex_ and to writeIndex_
  headSeen,        \* the store of readIndex_ the producer's next load returns
  tailSeen,        \* the store of writeIndex_ the consumer's next load returns
  overflowCount,   \* overflowCount_
  underflowCount,  \* underflowCount_
  pushStep,        \* where the producer stands in tryPush
  pushed,          \* the argument of tryPush
  popStep,         \* where the consumer stands in tryPop
  popped,          \* the item copied out by tryPop, not yet returned
  returned,        \* the item the last successful tryPop returned
  sawRoom,         \* the producer's last look, full(), returned false
  sawItem          \* the consumer's last look, empty(), returned false

producerVars == <<pushStep, pushed, sawRoom>>
consumerVars == <<popStep, popped, returned, sawItem>>
indexVars == <<head, tail, headSeen, tailSeen>>
counterVars == <<overflowCount, underflowCount>>
vars == <<storage, indexVars, counterVars, producerVars, consumerVars>>

Slots == 0 .. Capacity
PushSteps == {"idle", "load", "copy", "publish"}
PopSteps == {"idle", "load", "copy", "publish"}

\* increment: the value the n-th store leaves in an index.
Index(n) == n % (Capacity + 1)

Full  == Index(tail + 1) = Index(headSeen)
Empty == Index(head) = Index(tailSeen)

Init ==
  /\ storage \in [Slots -> {CHOOSE x \in Items : TRUE}]
  /\ head = 0 /\ tail = 0 /\ headSeen = 0 /\ tailSeen = 0
  /\ overflowCount = 0 /\ underflowCount = 0
  /\ pushStep = "idle" /\ popStep = "idle"
  /\ pushed = CHOOSE x \in Items : TRUE
  /\ popped = CHOOSE x \in Items : TRUE
  /\ returned = CHOOSE x \in Items : TRUE
  /\ sawRoom = FALSE /\ sawItem = FALSE

-----------------------------------------------------------------------------
\* The producer.

CallPush(x) ==
  /\ pushStep = "idle"
  /\ tail + overflowCount < MaxPushes
  /\ pushStep' = "load"
  /\ pushed' = x
  /\ UNCHANGED <<storage, indexVars, counterVars, sawRoom, consumerVars>>

\* Mutant: the ring overwrites when it is full.
LoadForPushOverwrites ==
  /\ pushStep = "load"
  /\ pushStep' = "copy"
  /\ storage' = [storage EXCEPT ![Index(tail)] = Torn]
  /\ sawRoom' = FALSE
  /\ UNCHANGED <<indexVars, counterVars, pushed, consumerVars>>

\* Mutant: tryPush waits for room.
LoadForPushWaits ==
  /\ pushStep = "load"
  /\ ~Full
  /\ pushStep' = "copy"
  /\ storage' = [storage EXCEPT ![Index(tail)] = Torn]
  /\ sawRoom' = FALSE
  /\ UNCHANGED <<indexVars, counterVars, pushed, consumerVars>>

\* The load of readIndex_: refuse, or start copying into the slot at writeIndex_.
LoadForPush ==
  /\ pushStep = "load"
  /\ IF Full
     THEN /\ overflowCount' = overflowCount + 1
          /\ pushStep' = "idle"
          /\ UNCHANGED storage
     ELSE /\ pushStep' = "copy"
          /\ storage' = [storage EXCEPT ![Index(tail)] = Torn]
          /\ UNCHANGED overflowCount
  /\ sawRoom' = FALSE
  /\ UNCHANGED <<indexVars, underflowCount, pushed, consumerVars>>

CopyIn ==
  /\ pushStep = "copy"
  /\ pushStep' = "publish"
  /\ storage' = [storage EXCEPT ![Index(tail)] = pushed]
  /\ UNCHANGED <<indexVars, counterVars, pushed, sawRoom, consumerVars>>

PublishPush ==
  /\ pushStep = "publish"
  /\ pushStep' = "idle"
  /\ tail' = tail + 1
  /\ UNCHANGED <<storage, head, headSeen, tailSeen, counterVars, pushed, sawRoom, consumerVars>>

LookForRoom ==
  /\ pushStep = "idle"
  /\ sawRoom' = ~Full
  /\ UNCHANGED <<storage, indexVars, counterVars, pushStep, pushed, consumerVars>>

ProducerStep == LoadForPush \/ CopyIn \/ PublishPush

-----------------------------------------------------------------------------
\* The consumer.

CallPop ==
  /\ popStep = "idle"
  /\ head + underflowCount < MaxPops
  /\ popStep' = "load"
  /\ UNCHANGED <<storage, indexVars, counterVars, producerVars, popped, returned, sawItem>>

\* The load of writeIndex_: refuse, or start copying out of the slot at readIndex_.
LoadForPop ==
  /\ popStep = "load"
  /\ IF Empty
     THEN /\ underflowCount' = underflowCount + 1
          /\ popStep' = "idle"
     ELSE /\ popStep' = "copy"
          /\ UNCHANGED underflowCount
  /\ sawItem' = FALSE
  /\ UNCHANGED <<storage, indexVars, overflowCount, producerVars, popped, returned>>

\* Mutant: the index is advanced before the slot is read.
CopyOutOfNextSlot ==
  /\ popStep = "copy"
  /\ popStep' = "publish"
  /\ popped' = storage[Index(head + 1)]
  /\ UNCHANGED <<storage, indexVars, counterVars, producerVars, returned, sawItem>>

CopyOut ==
  /\ popStep = "copy"
  /\ popStep' = "publish"
  /\ popped' = storage[Index(head)]
  /\ UNCHANGED <<storage, indexVars, counterVars, producerVars, returned, sawItem>>

PublishPop ==
  /\ popStep = "publish"
  /\ popStep' = "idle"
  /\ head' = head + 1
  /\ returned' = popped
  /\ UNCHANGED <<storage, tail, headSeen, tailSeen, counterVars, producerVars, popped, sawItem>>

LookForItem ==
  /\ popStep = "idle"
  /\ sawItem' = ~Empty
  /\ UNCHANGED <<storage, indexVars, counterVars, producerVars, popStep, popped, returned>>

ConsumerStep == LoadForPop \/ CopyOut \/ PublishPop

-----------------------------------------------------------------------------
\* The memory: a store becomes visible to the other thread.

ObserveHead ==
  /\ headSeen < head
  /\ headSeen' \in headSeen + 1 .. head
  /\ UNCHANGED <<storage, head, tail, tailSeen, counterVars, producerVars, consumerVars>>

ObserveTail ==
  /\ tailSeen < tail
  /\ tailSeen' \in tailSeen + 1 .. tail
  /\ UNCHANGED <<storage, head, tail, headSeen, counterVars, producerVars, consumerVars>>

\* reset(), by the owner of the queue while neither thread is using it.
Reset ==
  /\ pushStep = "idle" /\ popStep = "idle"
  /\ head' = 0 /\ tail' = 0 /\ headSeen' = 0 /\ tailSeen' = 0
  /\ overflowCount' = 0 /\ underflowCount' = 0
  /\ sawRoom' = FALSE /\ sawItem' = FALSE
  /\ UNCHANGED <<storage, pushStep, pushed, popStep, popped, returned>>

Next ==
  \/ \E x \in Items : CallPush(x)
  \/ LoadForPush \/ CopyIn \/ PublishPush \/ LookForRoom
  \/ CallPop
  \/ LoadForPop \/ CopyOut \/ PublishPop \/ LookForItem
  \/ ObserveHead \/ ObserveTail
  \/ Reset

Spec == Init /\ [][Next]_vars

-----------------------------------------------------------------------------
\* Properties.

TypeOK ==
  /\ storage \in [Slots -> Items \cup {Torn}]
  /\ head \in Nat /\ tail \in Nat /\ headSeen \in Nat /\ tailSeen \in Nat
  /\ overflowCount \in Nat /\ underflowCount \in Nat
  /\ pushStep \in PushSteps /\ popStep \in PopSteps
  /\ pushed \in Items
  /\ popped \in Items \cup {Torn}
  /\ returned \in Items \cup {Torn}
  /\ sawRoom \in BOOLEAN /\ sawItem \in BOOLEAN

\* The producer never copies into the slot the consumer is copying out of,
\* although each of them decides on a stale view of the other's index.
NoSlotRace ==
  ~ (pushStep = "copy" /\ popStep = "copy" /\ Index(tail) = Index(head))

\* empty() returning false binds the next tryPop of the same thread, and
\* full() returning false the next tryPush: AudioWorkerPipeline::workerLoop
\* relies on it between its call of empty() and its call of tryPop.
LooksAreStable ==
  /\ sawItem => ~Empty
  /\ sawRoom => ~Full

\* What the properties rest on: the counts and the views of them are ordered and
\* never further apart than the ring is long, a thread that found room or an item
\* has it by its own view, and what is published or about to be is whole.
ViewsAreOrdered ==
  headSeen <= head /\ head <= tailSeen /\ tailSeen <= tail /\ tail <= headSeen + Capacity
CopiersAreEntitled ==
  /\ sawRoom \/ pushStep \in {"copy", "publish"} => tail < headSeen + Capacity
  /\ sawItem \/ popStep \in {"copy", "publish"} => head < tailSeen
  /\ ~ (sawRoom /\ pushStep \in {"copy", "publish"})
  /\ ~ (sawItem /\ popStep \in {"copy", "publish"})
ContentIsWhole ==
  /\ \A n \in head .. tail - 1 : storage[Index(n)] \in Items
  /\ pushStep = "publish" => storage[Index(tail)] = pushed
  /\ popStep = "publish" => popped = storage[Index(head)]
IInv == TypeOK /\ ViewsAreOrdered /\ CopiersAreEntitled /\ ContentIsWhole

\* The ring implements the abstract queue: items come out whole, in order,
\* none lost and none twice, and a call is refused only for what its thread sees.
Content == [i \in 1 .. tail - head |-> storage[Index(head + i - 1)]]

Fifo == INSTANCE BoundedFifo WITH
          Prompt <- FALSE,
          items <- Content,
          unseenPops <- head - headSeen,
          unseenPushes <- tail - tailSeen,
          refusedPushes <- overflowCount,
          refusedPops <- underflowCount

ImplementsFifo == Fifo!Spec

\* tryPush and tryPop are wait-free: each returns if its own thread runs,
\* whatever the other thread does, even if it stops in the middle of a call.
WaitFree ==
  /\ WF_vars(ProducerStep) => (pushStep # "idle" ~> pushStep = "idle")
  /\ WF_vars(ConsumerStep) => (popStep # "idle" ~> popStep = "idle")
=============================================================================
