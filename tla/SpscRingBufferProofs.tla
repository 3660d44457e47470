------------------------ MODULE SpscRingBufferProofs ------------------------
(***************************************************************************)
(* Proofs about SpscRingBuffer, for every capacity, every set of items and *)
(* any number of calls.                                                    *)
(*                                                                         *)
(* The argument: the two counts and the two views of them are ordered,     *)
(*   headSeen <= head <= tailSeen <= tail <= headSeen + Capacity,          *)
(* so the slots in use never span the whole ring, two counts less than     *)
(* Capacity + 1 apart never share a slot, and a stale view errs on the     *)
(* safe side.                                                              *)
(***************************************************************************)
EXTENDS SpscRingBuffer, SequenceTheorems, TLAPS

\* Division with remainder.
LEMMA DivMod ==
  ASSUME NEW n \in Nat, NEW k \in Nat \ {0}
  PROVE  /\ n \div k \in Nat
         /\ n % k \in 0 .. k - 1
         /\ n = k * (n \div k) + (n % k)
OBVIOUS

\* Two multiples of k less than k apart are the same.
LEMMA EqualQuotients ==
  ASSUME NEW k \in Nat \ {0}, NEW p \in Int, NEW q \in Int,
         k * q <= k * p, k * p - k * q < k
  PROVE  p = q
<1>1. k * (p - q) < k
  OBVIOUS
<1>2. k * (p - q) >= 0
  OBVIOUS
<1>3. p - q < 1
  <2>1. SUFFICES ASSUME p - q >= 1 PROVE FALSE
    OBVIOUS
  <2>2. k * (p - q) >= k * 1
    BY <2>1
  <2> QED BY <1>1, <2>2
<1>4. p - q >= 0
  <2>1. SUFFICES ASSUME p - q <= -1 PROVE FALSE
    OBVIOUS
  <2>2. k * (p - q) <= k * (-1)
    BY <2>1
  <2> QED BY <1>2, <2>2
<1> QED BY <1>3, <1>4

\* Two numbers less than k apart with the same remainder are the same.
LEMMA EqualRemainders ==
  ASSUME NEW k \in Nat \ {0}, NEW m \in Nat, NEW n \in Nat,
         m <= n, n - m < k, m % k = n % k
  PROVE  m = n
<1> DEFINE p == n \div k
           q == m \div k
<1>1. p \in Nat /\ n = k * p + (n % k)
  BY DivMod
<1>2. q \in Nat /\ m = k * q + (m % k)
  BY DivMod
<1>3. n % k \in Nat /\ m % k \in Nat
  BY DivMod
<1> HIDE DEF p, q
<1>4. k * p \in Nat /\ k * q \in Nat
  BY <1>1, <1>2
<1>5. k * q <= k * p /\ k * p - k * q < k
  BY <1>1, <1>2, <1>3, <1>4
<1>6. p = q
  BY <1>1, <1>2, <1>5, EqualQuotients
<1> QED BY <1>1, <1>2, <1>6

\* One turn of the ring leads back to the same remainder.
LEMMA FullTurn ==
  ASSUME NEW k \in Nat \ {0}, NEW n \in Nat
  PROVE  (n + k) % k = n % k
<1> DEFINE p == (n + k) \div k
           q == n \div k
           r == (n + k) % k
           s == n % k
<1>1. p \in Nat /\ r \in 0 .. k - 1 /\ n + k = k * p + r
  BY DivMod, n + k \in Nat
<1>2. q \in Nat /\ s \in 0 .. k - 1 /\ n = k * q + s
  BY DivMod
<1> HIDE DEF p, q, r, s
<1>3. k * p \in Nat /\ k * q \in Nat /\ k * (q + 1) = k * q + k
  BY <1>1, <1>2
<1>4. k * (q + 1) + s = k * p + r
  BY <1>1, <1>2, <1>3
<1>5. p = q + 1
  <2>1. CASE r <= s
    <3>1. k * (q + 1) <= k * p /\ k * p - k * (q + 1) < k
      BY <1>1, <1>2, <1>3, <1>4, <2>1
    <3> QED BY <3>1, <1>1, <1>2, EqualQuotients
  <2>2. CASE s <= r
    <3>1. k * p <= k * (q + 1) /\ k * (q + 1) - k * p < k
      BY <1>1, <1>2, <1>3, <1>4, <2>2
    <3> QED BY <3>1, <1>1, <1>2, EqualQuotients
  <2> QED BY <1>1, <1>2, <2>1, <2>2
<1>6. r = s
  BY <1>1, <1>2, <1>4, <1>5
<1> QED BY <1>6 DEF r, s

\* Two counts at most one turn apart share a slot only if they are equal or
\* exactly one turn apart.
LEMMA SameSlot ==
  ASSUME NEW m \in Nat, NEW n \in Nat, m <= n, n <= m + Capacity + 1
  PROVE  Index(m) = Index(n) <=> n = m \/ n = m + Capacity + 1
<1> DEFINE k == Capacity + 1
<1>1. k \in Nat \ {0} /\ n <= m + k
  BY CapacityAssumption
<1>2. Index(m) = m % k /\ Index(n) = n % k
  BY DEF Index
<1> SUFFICES m % k = n % k <=> n = m \/ n = m + k
  BY <1>2, CapacityAssumption
<1> HIDE DEF k
<1>3. CASE n - m < k
  <2>1. m % k = n % k => m = n
    BY <1>1, <1>3, EqualRemainders
  <2>2. n # m + k
    BY <1>1, <1>3
  <2> QED BY <2>1, <2>2
<1>4. CASE n = m + k
  BY <1>1, <1>4, FullTurn
<1> QED BY <1>1, <1>3, <1>4

\* increment never leaves the array.
LEMMA IndexIsSlot ==
  ASSUME NEW n \in Nat
  PROVE  Index(n) \in Slots
<1>1. Capacity + 1 \in Nat \ {0}
  BY CapacityAssumption
<1>2. n % (Capacity + 1) \in 0 .. (Capacity + 1) - 1
  BY <1>1, DivMod
<1> QED BY <1>2, CapacityAssumption DEF Index, Slots

-----------------------------------------------------------------------------
\* What a thread concludes from the two indices it compares.

\* full(): the count is a whole turn ahead of the view of the reader.
LEMMA FullMeans ==
  ASSUME NEW h \in Nat, NEW t \in Nat, h <= t, t <= h + Capacity
  PROVE  Index(t + 1) = Index(h) <=> t = h + Capacity
<1>1. t + 1 \in Nat /\ h <= t + 1 /\ t + 1 <= h + Capacity + 1
  BY CapacityAssumption
<1>2. Index(h) = Index(t + 1) <=> t + 1 = h \/ t + 1 = h + Capacity + 1
  BY <1>1, SameSlot
<1> QED BY <1>2, CapacityAssumption

\* Counts no further apart than Capacity have slots of their own.
LEMMA OwnSlot ==
  ASSUME NEW m \in Nat, NEW n \in Nat, m <= n, n <= m + Capacity
  PROVE  Index(m) = Index(n) <=> m = n
BY SameSlot, CapacityAssumption

\* The inductive invariant, one step per action of Next.
THEOREM Invariance == Spec => []IInv
<1> USE CapacityAssumption, TornAssumption
<1>1. Init => IInv
  <2> SUFFICES ASSUME Init PROVE IInv
    OBVIOUS
  <2>1. (CHOOSE x \in Items : TRUE) \in Items
    BY ItemsAssumption
  <2>2. TypeOK
    BY <2>1 DEF Init, TypeOK, PushSteps, PopSteps
  <2>3. ViewsAreOrdered /\ CopiersAreEntitled
    BY DEF Init, ViewsAreOrdered, CopiersAreEntitled
  <2>4. ContentIsWhole
    BY DEF Init, ContentIsWhole
  <2> QED BY <2>2, <2>3, <2>4 DEF IInv
<1>2. IInv /\ [Next]_vars => IInv'
  <2> SUFFICES ASSUME IInv, [Next]_vars PROVE IInv'
    OBVIOUS
  <2> USE DEF PushSteps, PopSteps
  <2>0. TypeOK /\ ViewsAreOrdered /\ CopiersAreEntitled /\ ContentIsWhole
    BY DEF IInv
  <2>a. Index(tail) \in Slots /\ Index(head) \in Slots
    BY <2>0, IndexIsSlot DEF TypeOK
  <2>b. \A n \in head .. tail - 1 :
          tail < headSeen + Capacity => Index(n) # Index(tail) /\ n \in Nat
    BY <2>0, OwnSlot DEF TypeOK, ViewsAreOrdered
  <2>c. Full <=> tail = headSeen + Capacity
    BY <2>0, FullMeans DEF TypeOK, ViewsAreOrdered, Full
  <2>d. Empty <=> head = tailSeen
    BY <2>0, OwnSlot DEF TypeOK, ViewsAreOrdered, Empty
  <2>1. ASSUME NEW x \in Items, CallPush(x) PROVE IInv'
    <3> USE <2>0, <2>1 DEF CallPush, indexVars, counterVars, consumerVars
    <3>1. (TypeOK /\ ViewsAreOrdered /\ CopiersAreEntitled)'
      BY DEF TypeOK, ViewsAreOrdered, CopiersAreEntitled
    <3>2. ContentIsWhole'
      BY DEF ContentIsWhole
    <3> QED BY <3>1, <3>2 DEF IInv
  <2>2. CASE LoadForPush
    <3> USE <2>0, <2>2 DEF LoadForPush, indexVars, consumerVars
    <3>1. (TypeOK /\ ViewsAreOrdered /\ CopiersAreEntitled)'
      <4>1. TypeOK'
        <5>1. CASE Full
          <6>1. overflowCount' \in Nat /\ storage' = storage /\ pushStep' \in PushSteps
            BY <5>1 DEF TypeOK
          <6> QED BY <6>1 DEF TypeOK
        <5>2. CASE ~Full
          BY <5>2, <2>a DEF TypeOK
        <5> QED BY <5>1, <5>2
      <4>2. ViewsAreOrdered'
        BY <2>c DEF TypeOK, ViewsAreOrdered, CopiersAreEntitled
      <4>3. CopiersAreEntitled'
        BY <2>c DEF TypeOK, ViewsAreOrdered, CopiersAreEntitled
      <4> QED BY <4>1, <4>2, <4>3
    <3>2. ContentIsWhole'
      <4>1. CASE Full
        BY <4>1 DEF ContentIsWhole
      <4>2. CASE ~Full
        <5>1. tail < headSeen + Capacity
          BY <2>c, <4>2 DEF TypeOK, ViewsAreOrdered
        <5>2. \A n \in head .. tail - 1 : storage'[Index(n)] = storage[Index(n)]
          BY <2>b, <4>2, <5>1, IndexIsSlot DEF TypeOK
        <5>3. popStep = "publish" => head \in head .. tail - 1
          BY DEF TypeOK, ViewsAreOrdered, CopiersAreEntitled
        <5> QED BY <4>2, <5>2, <5>3 DEF ContentIsWhole
      <4> QED BY <4>1, <4>2
    <3> QED BY <3>1, <3>2 DEF IInv
  <2>3. CASE CopyIn
    <3> USE <2>0, <2>3 DEF CopyIn, indexVars, counterVars, consumerVars
    <3>1. (TypeOK /\ ViewsAreOrdered /\ CopiersAreEntitled)'
      BY DEF TypeOK, ViewsAreOrdered, CopiersAreEntitled
    <3>2. ContentIsWhole'
      <4>1. \A n \in head .. tail - 1 : storage'[Index(n)] = storage[Index(n)]
        BY <2>b, IndexIsSlot DEF TypeOK, CopiersAreEntitled
      <4>2. popStep = "publish" => head \in head .. tail - 1
        BY DEF TypeOK, ViewsAreOrdered, CopiersAreEntitled
      <4>3. storage'[Index(tail)] = pushed
        BY <2>a DEF TypeOK
      <4> QED BY <4>1, <4>2, <4>3 DEF ContentIsWhole
    <3> QED BY <3>1, <3>2 DEF IInv
  <2>4. CASE PublishPush
    <3> USE <2>0, <2>4 DEF PublishPush, counterVars, consumerVars
    <3>1. (TypeOK /\ ViewsAreOrdered /\ CopiersAreEntitled)'
      <4>1. TypeOK'
        BY DEF TypeOK
      <4>2. ViewsAreOrdered'
        BY DEF TypeOK, ViewsAreOrdered, CopiersAreEntitled
      <4>3. CopiersAreEntitled'
        BY DEF TypeOK, ViewsAreOrdered, CopiersAreEntitled
      <4> QED BY <4>1, <4>2, <4>3
    <3>2. ContentIsWhole'
      <4>1. \A n \in head .. tail : n \in head .. tail - 1 \/ n = tail
        BY DEF TypeOK
      <4>2. storage[Index(tail)] \in Items
        BY DEF TypeOK, ContentIsWhole
      <4>3. tail' - 1 = tail
        BY DEF TypeOK
      <4> QED BY <4>1, <4>2, <4>3 DEF ContentIsWhole
    <3> QED BY <3>1, <3>2 DEF IInv
  <2>5. CASE LookForRoom
    <3> USE <2>0, <2>5 DEF LookForRoom, indexVars, counterVars, consumerVars
    <3>1. (TypeOK /\ ViewsAreOrdered /\ CopiersAreEntitled)'
      BY <2>c DEF TypeOK, ViewsAreOrdered, CopiersAreEntitled
    <3>2. ContentIsWhole'
      BY DEF ContentIsWhole
    <3> QED BY <3>1, <3>2 DEF IInv
  <2>6. CASE CallPop
    <3> USE <2>0, <2>6 DEF CallPop, indexVars, counterVars, producerVars
    <3>1. (TypeOK /\ ViewsAreOrdered /\ CopiersAreEntitled)'
      BY DEF TypeOK, ViewsAreOrdered, CopiersAreEntitled
    <3>2. ContentIsWhole'
      BY DEF ContentIsWhole
    <3> QED BY <3>1, <3>2 DEF IInv
  <2>7. CASE LoadForPop
    <3> USE <2>0, <2>7 DEF LoadForPop, indexVars, producerVars
    <3>1. (TypeOK /\ ViewsAreOrdered /\ CopiersAreEntitled)'
      <4>1. TypeOK'
        <5>1. CASE Empty
          <6>1. underflowCount' \in Nat /\ popStep' \in PopSteps
            BY <5>1 DEF TypeOK
          <6> QED BY <6>1 DEF TypeOK
        <5>2. CASE ~Empty
          BY <5>2, <2>a DEF TypeOK
        <5> QED BY <5>1, <5>2
      <4>2. ViewsAreOrdered'
        BY <2>d DEF TypeOK, ViewsAreOrdered, CopiersAreEntitled
      <4>3. CopiersAreEntitled'
        BY <2>d DEF TypeOK, ViewsAreOrdered, CopiersAreEntitled
      <4> QED BY <4>1, <4>2, <4>3
    <3>2. ContentIsWhole'
      BY DEF ContentIsWhole
    <3> QED BY <3>1, <3>2 DEF IInv
  <2>8. CASE CopyOut
    <3> USE <2>0, <2>8 DEF CopyOut, indexVars, counterVars, producerVars
    <3>1. head \in head .. tail - 1
      BY DEF TypeOK, ViewsAreOrdered, CopiersAreEntitled
    <3>2. storage[Index(head)] \in Items
      BY <3>1 DEF ContentIsWhole
    <3>3. (TypeOK /\ ViewsAreOrdered /\ CopiersAreEntitled)'
      BY <3>2 DEF TypeOK, ViewsAreOrdered, CopiersAreEntitled
    <3>4. ContentIsWhole'
      BY DEF ContentIsWhole
    <3> QED BY <3>3, <3>4 DEF IInv
  <2>9. CASE PublishPop
    <3> USE <2>0, <2>9 DEF PublishPop, counterVars, producerVars
    <3>1. (TypeOK /\ ViewsAreOrdered /\ CopiersAreEntitled)'
      <4>1. TypeOK'
        BY DEF TypeOK
      <4>2. ViewsAreOrdered'
        BY DEF TypeOK, ViewsAreOrdered, CopiersAreEntitled
      <4>3. CopiersAreEntitled'
        BY DEF TypeOK, ViewsAreOrdered, CopiersAreEntitled
      <4> QED BY <4>1, <4>2, <4>3
    <3>2. ContentIsWhole'
      <4>1. \A n \in head' .. tail' - 1 : n \in head .. tail - 1
        BY DEF TypeOK
      <4> QED BY <4>1 DEF ContentIsWhole
    <3> QED BY <3>1, <3>2 DEF IInv
  <2>10. CASE LookForItem
    <3> USE <2>0, <2>10 DEF LookForItem, indexVars, counterVars, producerVars
    <3>1. (TypeOK /\ ViewsAreOrdered /\ CopiersAreEntitled)'
      BY <2>d DEF TypeOK, ViewsAreOrdered, CopiersAreEntitled
    <3>2. ContentIsWhole'
      BY DEF ContentIsWhole
    <3> QED BY <3>1, <3>2 DEF IInv
  <2>11. CASE ObserveHead
    <3>1. PICK h \in headSeen + 1 .. head : headSeen' = h
      BY <2>11 DEF ObserveHead
    <3>2. UNCHANGED <<storage, head, tail, tailSeen, overflowCount, underflowCount, pushStep,
                      pushed, sawRoom, popStep, popped, returned, sawItem>>
      BY <2>11 DEF ObserveHead, counterVars, producerVars, consumerVars
    <3>3. h \in Nat /\ headSeen < h /\ h <= head /\ headSeen + Capacity < h + Capacity
      BY <2>0 DEF TypeOK
    <3>4. TypeOK'
      BY <2>0, <3>1, <3>2, <3>3 DEF TypeOK
    <3>5. ViewsAreOrdered'
      BY <2>0, <3>1, <3>2, <3>3 DEF TypeOK, ViewsAreOrdered
    <3>6. CopiersAreEntitled'
      BY <2>0, <3>1, <3>2, <3>3 DEF TypeOK, CopiersAreEntitled
    <3>7. ContentIsWhole'
      BY <2>0, <3>2 DEF ContentIsWhole
    <3> QED BY <3>4, <3>5, <3>6, <3>7 DEF IInv
  <2>12. CASE ObserveTail
    <3> USE <2>0, <2>12 DEF ObserveTail, counterVars, producerVars, consumerVars
    <3>1. (TypeOK /\ ViewsAreOrdered /\ CopiersAreEntitled)'
      BY DEF TypeOK, ViewsAreOrdered, CopiersAreEntitled
    <3>2. ContentIsWhole'
      BY DEF ContentIsWhole
    <3> QED BY <3>1, <3>2 DEF IInv
  <2>13. CASE Reset
    <3> USE <2>0, <2>13 DEF Reset
    <3>1. (TypeOK /\ ViewsAreOrdered /\ CopiersAreEntitled)'
      <4>1. TypeOK'
        BY DEF TypeOK
      <4>2. ViewsAreOrdered'
        BY DEF TypeOK, ViewsAreOrdered, CopiersAreEntitled
      <4>3. CopiersAreEntitled'
        BY DEF TypeOK, ViewsAreOrdered, CopiersAreEntitled
      <4> QED BY <4>1, <4>2, <4>3
    <3>2. ContentIsWhole'
      BY DEF ContentIsWhole
    <3> QED BY <3>1, <3>2 DEF IInv
  <2>14. CASE UNCHANGED vars
    <3> USE <2>0, <2>14 DEF vars, indexVars, counterVars, producerVars, consumerVars
    <3>1. (TypeOK /\ ViewsAreOrdered /\ CopiersAreEntitled)'
      BY DEF TypeOK, ViewsAreOrdered, CopiersAreEntitled
    <3>2. ContentIsWhole'
      BY DEF ContentIsWhole
    <3> QED BY <3>1, <3>2 DEF IInv
  <2> QED BY <2>1, <2>2, <2>3, <2>4, <2>5, <2>6, <2>7, <2>8, <2>9, <2>10, <2>11, <2>12,
             <2>13, <2>14 DEF Next
<1> QED BY <1>1, <1>2, PTL DEF Spec

\* Every variable keeps its type.
THEOREM TypeCorrect == Spec => []TypeOK
BY Invariance, PTL DEF IInv

\* The two threads never work on one slot at the same time.
THEOREM RaceFree == Spec => []NoSlotRace
<1>1. IInv => NoSlotRace
  BY OwnSlot, CapacityAssumption
     DEF IInv, TypeOK, ViewsAreOrdered, CopiersAreEntitled, NoSlotRace
<1> QED BY <1>1, Invariance, PTL

\* A look that found room or an item binds the call that follows.
THEOREM StableLooks == Spec => []LooksAreStable
<1>1. IInv => LooksAreStable
  BY OwnSlot, FullMeans, CapacityAssumption
     DEF IInv, TypeOK, ViewsAreOrdered, CopiersAreEntitled, LooksAreStable, Full, Empty
<1> QED BY <1>1, Invariance, PTL

-----------------------------------------------------------------------------
\* The ring implements the abstract queue.

\* The slots between two counts, in order, are a sequence of items.
LEMMA WindowIsSeq ==
  ASSUME NEW st, NEW h \in Nat, NEW t \in Nat, h <= t,
         \A n \in h .. t - 1 : st[Index(n)] \in Items
  PROVE  LET c == [i \in 1 .. t - h |-> st[Index(h + i - 1)]]
         IN  /\ c \in Seq(Items)
             /\ Len(c) = t - h
             /\ \A i \in 1 .. t - h : c[i] = st[Index(h + i - 1)]
<1> DEFINE c == [i \in 1 .. t - h |-> st[Index(h + i - 1)]]
<1>1. \A i \in 1 .. t - h : c[i] = st[Index(h + i - 1)] /\ h + i - 1 \in h .. t - 1
  OBVIOUS
<1>2. \A i \in 1 .. t - h : c[i] \in Items
  BY <1>1
<1>3. c \in [1 .. t - h -> Items]
  BY <1>2
<1>4. t - h \in Nat
  OBVIOUS
<1>5. c \in Seq(Items) /\ Len(c) = t - h
  <2> HIDE DEF c
  <2> QED BY <1>3, <1>4
<1> QED BY <1>1, <1>5

\* The content before and after a step, and what the abstract queue makes of it.
LEMMA ContentIsSeq ==
  ASSUME IInv
  PROVE  /\ Content \in Seq(Items)
         /\ Len(Content) = tail - head
         /\ \A i \in 1 .. tail - head : Content[i] = storage[Index(head + i - 1)]
<1>1. head \in Nat /\ tail \in Nat /\ head <= tail
  BY DEF IInv, TypeOK, ViewsAreOrdered
<1>2. \A n \in head .. tail - 1 : storage[Index(n)] \in Items
  BY DEF IInv, ContentIsWhole
<1> QED BY <1>1, <1>2, WindowIsSeq DEF Content

\* The ring implements the abstract queue: each action is a step of the queue or
\* changes nothing that the queue shows.
THEOREM Refinement == Spec => ImplementsFifo
<1>1. Init => Fifo!Init
  <2> SUFFICES ASSUME Init PROVE Fifo!Init
    OBVIOUS
  <2>1. Content = <<>>
    BY DEF Init, Content
  <2> QED BY <2>1 DEF Init, Fifo!Init
<1>2. IInv /\ IInv' /\ [Next]_vars => [Fifo!Next]_(Fifo!vars)
  <2> SUFFICES ASSUME IInv, IInv', [Next]_vars PROVE [Fifo!Next]_(Fifo!vars)
    OBVIOUS
  <2>0. TypeOK /\ ViewsAreOrdered /\ CopiersAreEntitled /\ ContentIsWhole
    BY DEF IInv
  <2>n. /\ head \in Nat /\ tail \in Nat /\ headSeen \in Nat /\ tailSeen \in Nat
        /\ Capacity \in Nat /\ Capacity > 0
        /\ headSeen <= head /\ head <= tailSeen /\ tailSeen <= tail /\ tail <= headSeen + Capacity
    BY <2>0, CapacityAssumption DEF TypeOK, ViewsAreOrdered
  <2>e. \A i \in 1 .. tail - head + 1 : i \in 1 .. tail - head \/ i = tail - head + 1
    BY <2>n
  <2>f. Full <=> tail = headSeen + Capacity
    BY <2>n, FullMeans DEF Full
  <2>o. tail < headSeen + Capacity => \A n \in head .. tail - 1 : Index(n) # Index(tail)
    BY <2>n, OwnSlot
  <2>a. /\ Content \in Seq(Items) /\ Len(Content) = tail - head
        /\ \A i \in 1 .. tail - head : Content[i] = storage[Index(head + i - 1)]
    BY ContentIsSeq
  <2>b. /\ Content' \in Seq(Items) /\ Len(Content') = tail' - head'
        /\ \A i \in 1 .. tail' - head' : Content'[i] = storage'[Index(head' + i - 1)]
    <3>1. head' \in Nat /\ tail' \in Nat /\ head' <= tail'
      BY DEF IInv, TypeOK, ViewsAreOrdered
    <3>2. \A n \in head' .. tail' - 1 : storage'[Index(n)] \in Items
      BY DEF IInv, ContentIsWhole
    <3> QED BY <3>1, <3>2, WindowIsSeq DEF Content
  <2>c. Full <=> Fifo!Full
    BY <2>f, <2>n, <2>a DEF Fifo!Full
  <2>d. Empty <=> Fifo!Empty
    <3>1. Empty <=> head = tailSeen
      BY <2>0, OwnSlot, CapacityAssumption DEF TypeOK, ViewsAreOrdered, Empty
    <3> QED BY <3>1, <2>0, <2>a DEF TypeOK, ViewsAreOrdered, Fifo!Empty
  <2>s. ASSUME UNCHANGED <<head, tail>>,
               \A n \in head .. tail - 1 : storage'[Index(n)] = storage[Index(n)]
        PROVE  Content' = Content
    <3>1. \A i \in 1 .. tail - head : head + i - 1 \in head .. tail - 1
      BY <2>0 DEF TypeOK
    <3> QED BY <2>s, <3>1 DEF Content
  <2>t. ASSUME UNCHANGED <<head, tail, storage>> PROVE Content' = Content
    BY <2>t DEF Content
  <2>1. ASSUME NEW x \in Items, CallPush(x) PROVE UNCHANGED Fifo!vars
    BY <2>1, <2>t DEF CallPush, indexVars, counterVars, consumerVars, Fifo!vars
  <2>2. CASE LoadForPush
    <3> USE <2>2 DEF LoadForPush, indexVars, consumerVars
    <3>1. CASE Full
      <4>1. Fifo!TryPush(pushed)
        BY <2>c, <2>t, <3>1 DEF Fifo!TryPush
      <4>2. pushed \in Items
        BY <2>0 DEF TypeOK
      <4> QED BY <4>1, <4>2 DEF Fifo!Next
    <3>2. CASE ~Full
      <4>1. tail < headSeen + Capacity
        BY <2>n, <2>f, <3>2
      <4>2. \A n \in head .. tail - 1 : Index(n) # Index(tail)
        BY <2>o, <4>1
      <4>3. \A n \in head .. tail - 1 : storage'[Index(n)] = storage[Index(n)]
        BY <2>0, <3>2, <4>2, IndexIsSlot DEF TypeOK
      <4> QED BY <2>s, <3>2, <4>3 DEF Fifo!vars
    <3> QED BY <3>1, <3>2
  <2>3. CASE CopyIn
    <3> USE <2>3 DEF CopyIn, indexVars, counterVars, consumerVars
    <3>1. \A n \in head .. tail - 1 : Index(n) # Index(tail)
      BY <2>0, <2>o DEF CopiersAreEntitled
    <3>2. \A n \in head .. tail - 1 : storage'[Index(n)] = storage[Index(n)]
      BY <2>0, <3>1, IndexIsSlot DEF TypeOK
    <3> QED BY <2>s, <3>2 DEF Fifo!vars
  <2>4. CASE PublishPush
    <3> USE <2>4 DEF PublishPush, counterVars, consumerVars
    <3>1. pushed \in Items /\ storage[Index(tail)] = pushed
      BY <2>0 DEF TypeOK, ContentIsWhole
    <3>2. Content' = Append(Content, pushed)
      <4>1. /\ Append(Content, pushed) \in Seq(Items)
            /\ Len(Append(Content, pushed)) = tail - head + 1
            /\ \A i \in 1 .. tail - head : Append(Content, pushed)[i] = Content[i]
            /\ Append(Content, pushed)[tail - head + 1] = pushed
        BY <2>a, <3>1, AppendProperties
      <4>2. tail' - head' = tail - head + 1
        BY <2>0 DEF TypeOK
      <4>3. \A i \in 1 .. tail - head + 1 : Content'[i] = Append(Content, pushed)[i]
        <5> SUFFICES ASSUME NEW i \in 1 .. tail - head + 1
                     PROVE  Content'[i] = Append(Content, pushed)[i]
          OBVIOUS
        <5>1. Content'[i] = storage[Index(head + i - 1)]
          BY <2>b, <4>2
        <5>2. CASE i \in 1 .. tail - head
          BY <2>a, <4>1, <5>1, <5>2
        <5>3. CASE i = tail - head + 1
          <6>1. head + i - 1 = tail
            BY <2>0, <5>3 DEF TypeOK
          <6> QED BY <3>1, <4>1, <5>1, <5>3, <6>1
        <5> QED BY <2>e, <5>2, <5>3
      <4> QED BY <2>b, <4>1, <4>2, <4>3, SeqEqual
    <3>3. ~Fifo!Full
      <4>1. tail < headSeen + Capacity
        BY <2>0 DEF CopiersAreEntitled
      <4> QED BY <2>n, <2>c, <2>f, <4>1
    <3>4. tail' - tailSeen' = (tail - tailSeen) + 1
      BY <2>0 DEF TypeOK
    <3>5. Fifo!TryPush(pushed)
      BY <3>2, <3>3, <3>4 DEF Fifo!TryPush, Fifo!Lag
    <3> QED BY <3>1, <3>5 DEF Fifo!Next
  <2>5. CASE LookForRoom
    BY <2>5, <2>t DEF LookForRoom, indexVars, counterVars, consumerVars, Fifo!vars
  <2>6. CASE CallPop
    BY <2>6, <2>t DEF CallPop, indexVars, counterVars, producerVars, Fifo!vars
  <2>7. CASE LoadForPop
    <3> USE <2>7 DEF LoadForPop, indexVars, producerVars
    <3>1. CASE Empty
      <4>1. Fifo!TryPop
        BY <2>d, <2>t, <3>1 DEF Fifo!TryPop
      <4> QED BY <4>1 DEF Fifo!Next
    <3>2. CASE ~Empty
      BY <2>t, <3>2 DEF Fifo!vars
    <3> QED BY <3>1, <3>2
  <2>8. CASE CopyOut
    BY <2>8, <2>t DEF CopyOut, indexVars, counterVars, producerVars, Fifo!vars
  <2>9. CASE PublishPop
    <3> USE <2>9 DEF PublishPop, counterVars, producerVars
    <3>1. ~Fifo!Empty /\ Content # <<>>
      BY <2>0, <2>a DEF TypeOK, ViewsAreOrdered, CopiersAreEntitled, Fifo!Empty
    <3>2. returned' = Head(Content)
      <4>1. Head(Content) = Content[1]
        BY <2>a, <3>1
      <4>2. Content[1] = storage[Index(head)]
        <5>1. 1 \in 1 .. tail - head /\ head + 1 - 1 = head
          BY <2>0 DEF TypeOK, ViewsAreOrdered, CopiersAreEntitled
        <5> QED BY <2>a, <5>1
      <4> QED BY <2>0, <4>1, <4>2 DEF ContentIsWhole
    <3>3. Content' = Tail(Content)
      <4>1. /\ Tail(Content) \in Seq(Items)
            /\ Len(Tail(Content)) = tail - head - 1
            /\ \A i \in 1 .. tail - head - 1 : Tail(Content)[i] = Content[i + 1]
        BY <2>a, <3>1, HeadTailProperties
      <4>2. tail' - head' = tail - head - 1
        BY <2>0 DEF TypeOK
      <4>3. \A i \in 1 .. tail - head - 1 : Content'[i] = Tail(Content)[i]
        <5> SUFFICES ASSUME NEW i \in 1 .. tail - head - 1
                     PROVE  Content'[i] = Tail(Content)[i]
          OBVIOUS
        <5>1. i + 1 \in 1 .. tail - head /\ head' + i - 1 = head + (i + 1) - 1
          BY <2>0 DEF TypeOK
        <5> QED BY <2>a, <2>b, <4>1, <4>2, <5>1
      <4> QED BY <2>b, <4>1, <4>2, <4>3, SeqEqual
    <3>4. head' - headSeen' = (head - headSeen) + 1
      BY <2>0 DEF TypeOK
    <3>5. Fifo!TryPop
      BY <3>1, <3>2, <3>3, <3>4 DEF Fifo!TryPop, Fifo!Lag
    <3> QED BY <3>5 DEF Fifo!Next
  <2>10. CASE LookForItem
    BY <2>10, <2>t DEF LookForItem, indexVars, counterVars, producerVars, Fifo!vars
  <2>11. CASE ObserveHead
    <3> USE <2>11 DEF ObserveHead, counterVars, producerVars, consumerVars
    <3>0. PICK n \in headSeen + 1 .. head : headSeen' = n
      OBVIOUS
    <3>1. head - headSeen > 0 /\ head' - headSeen' \in 0 .. (head - headSeen) - 1
      <4>1. head - n \in 0 .. (head - headSeen) - 1 /\ head - headSeen > 0
        BY <2>n
      <4> QED BY <3>0, <4>1
    <3>2. Fifo!NoticePops
      BY <2>t, <3>1 DEF Fifo!NoticePops
    <3> QED BY <3>2 DEF Fifo!Next
  <2>12. CASE ObserveTail
    <3> USE <2>12 DEF ObserveTail, counterVars, producerVars, consumerVars
    <3>0. PICK n \in tailSeen + 1 .. tail : tailSeen' = n
      OBVIOUS
    <3>1. tail - tailSeen > 0 /\ tail' - tailSeen' \in 0 .. (tail - tailSeen) - 1
      <4>1. tail - n \in 0 .. (tail - tailSeen) - 1 /\ tail - tailSeen > 0
        BY <2>n
      <4> QED BY <3>0, <4>1
    <3>2. Fifo!NoticePushes
      BY <2>t, <3>1 DEF Fifo!NoticePushes
    <3> QED BY <3>2 DEF Fifo!Next
  <2>13. CASE Reset
    <3>1. Content' = <<>>
      BY <2>13 DEF Reset, Content
    <3> QED BY <2>13, <3>1 DEF Reset, Fifo!Reset, Fifo!Next
  <2>14. CASE UNCHANGED vars
    BY <2>14, <2>t DEF vars, indexVars, counterVars, producerVars, consumerVars, Fifo!vars
  <2> QED BY <2>1, <2>2, <2>3, <2>4, <2>5, <2>6, <2>7, <2>8, <2>9, <2>10, <2>11, <2>12,
             <2>13, <2>14 DEF Next
<1> QED BY <1>1, <1>2, Invariance, PTL DEF Spec, ImplementsFifo, Fifo!Spec
=============================================================================
