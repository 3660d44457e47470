------------------------- MODULE WorkerTimingProofs -------------------------
(***************************************************************************)
(* Proofs about WorkerTiming, for any set of durations and any number of   *)
(* blocks and resets.                                                      *)
(***************************************************************************)
EXTENDS WorkerTiming, TLAPS

-----------------------------------------------------------------------------
\* Types.  The average divides by the count that the worker has just increased.
TypeInv ==
  /\ TypeOK
  /\ recordStep = "average" => processedBlocks > 0

\* Arithmetic.
LEMMA ProductIsNumber == ASSUME NEW a \in Nat, NEW b \in Nat PROVE a * b \in Nat
OBVIOUS

\* Arithmetic.
LEMMA QuotientIsNumber == ASSUME NEW t \in Nat, NEW c \in Nat, c > 0 PROVE t \div c \in Nat
OBVIOUS

\* Every variable keeps its type, and nothing is divided by zero.
THEOREM TypeCorrect == Spec => []TypeInv
<1> USE DEF TypeInv, TypeOK, RecordSteps, ResetSteps
<1>1. Init => TypeInv
  <2>1. Init => /\ recordStep = "idle" /\ resetStep = "idle" /\ raced \in BOOLEAN
                /\ lastWorkerProcessUs = 0 /\ totalWorkerProcessUs = 0
                /\ workerProcessedBlocks = 0 /\ averageWorkerProcessUs = 0
                /\ maxWorkerProcessUs = 0 /\ elapsedUs = 0 /\ totalUs = 0
                /\ processedBlocks = 0 /\ previousMax = 0 /\ blocks = 0 /\ resets = 0
    BY DEF Init
  <2> QED BY <2>1
<1>2. TypeInv /\ [Next]_vars => TypeInv'
  <2> SUFFICES ASSUME TypeInv, [Next]_vars PROVE TypeInv'
    OBVIOUS
  <2> USE DEF shared, locals, calls
  <2>1. ASSUME NEW d \in Durations, FinishBlock(d) PROVE TypeInv'
    BY <2>1, DurationsAssumption DEF FinishBlock
  <2>2. CASE StoreLast
    BY <2>2 DEF StoreLast
  <2>3. CASE AddTotal
    BY <2>3 DEF AddTotal
  <2>4. CASE AddProcessed
    BY <2>4 DEF AddProcessed
  <2>5. CASE StoreAverage
    BY <2>5, QuotientIsNumber DEF StoreAverage
  <2>6. CASE LoadMax
    BY <2>6 DEF LoadMax, LoopOn
  <2>7. CASE ExchangeMax
    BY <2>7 DEF ExchangeMax
  <2>8. CASE ExchangeMaxFails
    BY <2>8 DEF ExchangeMaxFails, LoopOn
  <2>9. CASE BeginReset
    BY <2>9 DEF BeginReset
  <2>10. CASE ResetStep
    BY <2>10 DEF ResetStep, ResetProcessed, ResetLast, ResetTotal, ResetAverage, ResetMax
  <2>11. CASE UNCHANGED vars
    BY <2>11 DEF vars
  <2> QED BY <2>1, <2>2, <2>3, <2>4, <2>5, <2>6, <2>7, <2>8, <2>9, <2>10, <2>11
             DEF Next, RecordStep
<1> QED BY <1>1, <1>2, PTL DEF Spec

-----------------------------------------------------------------------------
\* What a race leaves of the total.

\* The blocks in the total whose count is certain: those counted, and the one added
\* to the total whose count comes next.
Covered == workerProcessedBlocks + (IF recordStep = "processed" THEN 1 ELSE 0)

\* Between zeroing the count and zeroing the total nothing can be said.
CoverInv ==
  /\ recordStep \in {"last", "total"} => elapsedUs \in Durations
  /\ resetStep \notin {"last", "total"} =>
       \E d \in Durations : totalWorkerProcessUs <= d * Covered

\* The sum grows by no more than one more of the longest.
LEMMA OneMore ==
  ASSUME NEW t \in Nat, NEW e \in Nat, NEW d \in Nat, NEW m \in Nat, NEW k \in Nat,
         t <= d * k, d <= m, e <= m
  PROVE  t + e <= m * (k + 1)
<1>1. d * k <= m * k
  OBVIOUS
<1>2. m * (k + 1) = m * k + m
  OBVIOUS
<1>3. d * k \in Nat /\ m * k \in Nat
  OBVIOUS
<1> QED BY <1>1, <1>2, <1>3

\* A step that keeps the total, and the number of blocks it covers.
LEMMA CoverKept ==
  ASSUME CoverInv, resetStep' \notin {"last", "total"} => resetStep \notin {"last", "total"},
         UNCHANGED totalWorkerProcessUs, Covered' = Covered,
         recordStep' \in {"last", "total"} => elapsedUs' \in Durations
  PROVE  CoverInv'
BY DEF CoverInv

\* However a reset and a block interleave, the total is covered by the count.
THEOREM CoverInvariance == Spec => []CoverInv
<1>1. Init => CoverInv
  <2> SUFFICES ASSUME Init PROVE CoverInv
    OBVIOUS
  <2>1. PICK d \in Durations : d \in Nat
    BY DurationsAssumption
  <2>2. totalWorkerProcessUs = 0 /\ Covered = 0 /\ recordStep = "idle"
    BY DEF Init, Covered
  <2>3. 0 <= d * 0
    BY <2>1
  <2> QED BY <2>2, <2>3 DEF CoverInv
<1>2. TypeOK /\ CoverInv /\ [Next]_vars => CoverInv'
  <2> SUFFICES ASSUME TypeOK, CoverInv, [Next]_vars PROVE CoverInv'
    OBVIOUS
  <2> USE DEF shared, locals, calls
  <2>1. ASSUME NEW d \in Durations, FinishBlock(d) PROVE CoverInv'
    BY <2>1, CoverKept DEF FinishBlock, Covered
  <2>2. CASE StoreLast
    BY <2>2, CoverKept DEF StoreLast, Covered, CoverInv
  <2>3. CASE AddTotal
    <3>1. /\ recordStep = "total" /\ recordStep' = "processed"
          /\ totalWorkerProcessUs' = totalWorkerProcessUs + elapsedUs
          /\ UNCHANGED <<workerProcessedBlocks, resetStep>>
      BY <2>3 DEF AddTotal
    <3>2. Covered \in Nat /\ Covered' = Covered + 1 /\ totalWorkerProcessUs \in Nat
      BY <3>1 DEF Covered, TypeOK
    <3>3. elapsedUs \in Durations /\ elapsedUs \in Nat
      BY <3>1, DurationsAssumption DEF CoverInv
    <3>4. CASE resetStep \in {"last", "total"}
      BY <3>1, <3>4 DEF CoverInv
    <3>5. CASE resetStep \notin {"last", "total"}
      <4>1. PICK d \in Durations : totalWorkerProcessUs <= d * Covered
        BY <3>5 DEF CoverInv
      <4>2. d \in Nat
        BY <4>1, DurationsAssumption
      <4>3. CASE elapsedUs <= d
        <5>1. totalWorkerProcessUs + elapsedUs <= d * (Covered + 1)
          BY <3>2, <3>3, <4>1, <4>2, <4>3, OneMore
        <5> QED BY <3>1, <3>2, <5>1 DEF CoverInv
      <4>4. CASE d <= elapsedUs
        <5>1. totalWorkerProcessUs + elapsedUs <= elapsedUs * (Covered + 1)
          BY <3>2, <3>3, <4>1, <4>2, <4>4, OneMore
        <5> QED BY <3>1, <3>2, <3>3, <5>1 DEF CoverInv
      <4> QED BY <3>3, <4>2, <4>3, <4>4
    <3> QED BY <3>4, <3>5
  <2>4. CASE AddProcessed
    BY <2>4, CoverKept DEF AddProcessed, Covered, TypeOK
  <2>5. CASE StoreAverage
    BY <2>5, CoverKept DEF StoreAverage, Covered
  <2>6. CASE LoadMax
    BY <2>6, CoverKept DEF LoadMax, LoopOn, Covered
  <2>7. CASE ExchangeMax
    BY <2>7, CoverKept DEF ExchangeMax, Covered
  <2>8. CASE ExchangeMaxFails
    BY <2>8, CoverKept DEF ExchangeMaxFails, LoopOn, Covered
  <2>9. CASE BeginReset
    BY <2>9, CoverKept DEF BeginReset, Covered, CoverInv
  <2>10. CASE ResetProcessed
    BY <2>10 DEF ResetProcessed, CoverInv
  <2>11. CASE ResetLast
    BY <2>11 DEF ResetLast, CoverInv
  <2>12. CASE ResetTotal
    <3>1. PICK d \in Durations : d \in Nat
      BY DurationsAssumption
    <3>2. totalWorkerProcessUs' = 0 /\ Covered' \in Nat /\ UNCHANGED <<recordStep, elapsedUs>>
      BY <2>12 DEF ResetTotal, Covered, TypeOK
    <3>3. \A k \in Nat : 0 <= d * k
      BY <3>1, ProductIsNumber
    <3>4. totalWorkerProcessUs' <= d * Covered'
      BY <3>2, <3>3
    <3> QED BY <3>1, <3>2, <3>4 DEF CoverInv
  <2>13. CASE ResetAverage
    BY <2>13, CoverKept DEF ResetAverage, Covered, CoverInv
  <2>14. CASE ResetMax
    BY <2>14, CoverKept DEF ResetMax, Covered, CoverInv
  <2>15. CASE UNCHANGED vars
    BY <2>15, CoverKept DEF vars, Covered, CoverInv
  <2> QED BY <2>1, <2>2, <2>3, <2>4, <2>5, <2>6, <2>7, <2>8, <2>9, <2>10, <2>11, <2>12, <2>13,
             <2>14, <2>15
             DEF Next, RecordStep, ResetStep
<1> QED BY <1>1, <1>2, TypeCorrect, PTL DEF Spec, TypeInv

\* At rest no duration is in the total whose block is not counted, whatever resets
\* raced with the worker.
THEOREM TotalCovered == Spec => []TotalIsCovered
<1>1. TypeOK /\ CoverInv => TotalIsCovered
  <2> SUFFICES ASSUME TypeOK, CoverInv, AtRest
               PROVE \E d \in Durations : totalWorkerProcessUs <= d * workerProcessedBlocks
    BY DEF TotalIsCovered
  <2>1. Covered = workerProcessedBlocks
    BY DEF AtRest, Covered, TypeOK
  <2> QED BY <2>1 DEF CoverInv, AtRest
<1> QED BY <1>1, CoverInvariance, TypeCorrect, PTL DEF TypeInv

-----------------------------------------------------------------------------
\* Without a race the durations agree.

\* An average is no longer than the longest.
LEMMA AverageOfBounded ==
  ASSUME NEW t \in Nat, NEW c \in Nat, NEW m \in Nat, c > 0, t <= m * c
  PROVE  t \div c <= m
<1> DEFINE q == t \div c
<1>1. q \in Nat /\ t = c * q + (t % c) /\ t % c \in Nat
  OBVIOUS
<1> HIDE DEF q
<1>2. CASE q >= m + 1
  <2>1. c * q >= c * (m + 1)
    BY <1>1, <1>2
  <2>2. c * (m + 1) = m * c + c
    OBVIOUS
  <2>3. c * q \in Nat /\ m * c \in Nat
    BY <1>1, ProductIsNumber
  <2> QED BY <1>1, <2>1, <2>2, <2>3
<1> QED BY <1>1, <1>2 DEF q

\* The sum stays below the maximum times the count when the maximum is no less than
\* what was added.
LEMMA OneMoreOfMax ==
  ASSUME NEW t \in Nat, NEW e \in Nat, NEW d \in Nat, NEW m \in Nat, NEW c \in Nat,
         c > 0, t <= d * (c - 1) + e, d <= m, e <= m
  PROVE  t <= m * c
<1> DEFINE k == c - 1
<1>1. k \in Nat /\ c = k + 1
  OBVIOUS
<1> HIDE DEF k
<1>2. d * k <= m * k
  BY <1>1
<1>3. m * (k + 1) = m * k + m
  BY <1>1
<1>4. d * k \in Nat /\ m * k \in Nat
  BY <1>1, ProductIsNumber
<1>5. t <= d * k + e
  BY DEF k
<1> QED BY <1>1, <1>2, <1>3, <1>4, <1>5

AverageIsOfCounted ==
  averageWorkerProcessUs = IF workerProcessedBlocks = 0 THEN 0
                           ELSE totalWorkerProcessUs \div workerProcessedBlocks

\* What holds while the worker is at each of its steps, if no reset is under way.
RecordInv ==
  /\ recordStep \in {"idle", "last"} => lastWorkerProcessUs <= maxWorkerProcessUs
  /\ recordStep \in {"idle", "last", "total"} =>
       /\ totalWorkerProcessUs <= maxWorkerProcessUs * workerProcessedBlocks
       /\ AverageIsOfCounted
  /\ recordStep \notin {"idle", "last"} => lastWorkerProcessUs = elapsedUs
  /\ recordStep = "processed" =>
       /\ totalUs = totalWorkerProcessUs
       /\ totalWorkerProcessUs <= maxWorkerProcessUs * workerProcessedBlocks + elapsedUs
  /\ recordStep \in {"average", "loadMax", "max"} =>
       /\ workerProcessedBlocks > 0
       /\ totalWorkerProcessUs <= maxWorkerProcessUs * (workerProcessedBlocks - 1) + elapsedUs
  /\ recordStep = "average" =>
       totalUs = totalWorkerProcessUs /\ processedBlocks = workerProcessedBlocks
  /\ recordStep \in {"loadMax", "max"} => AverageIsOfCounted
  /\ recordStep = "max" => previousMax < elapsedUs

\* What has been zeroed while a reset is under way.
ZeroedInv ==
  /\ resetStep \in {"last", "total", "average", "max"} => workerProcessedBlocks = 0
  /\ resetStep \in {"total", "average", "max"} => lastWorkerProcessUs = 0
  /\ resetStep \in {"average", "max"} => totalWorkerProcessUs = 0
  /\ resetStep = "max" => averageWorkerProcessUs = 0

AgreeInv ==
  ~raced =>
    /\ recordStep = "idle" \/ resetStep = "idle"
    /\ resetStep = "idle" => RecordInv
    /\ resetStep # "idle" => ZeroedInv

\* Until a reset meets a block, the measures agree up to where record or reset stands.
THEOREM AgreeInvariance == Spec => []AgreeInv
<1>1. Init => AgreeInv
  <2> SUFFICES ASSUME Init PROVE AgreeInv
    OBVIOUS
  <2>1. /\ recordStep = "idle" /\ resetStep = "idle"
        /\ lastWorkerProcessUs = 0 /\ maxWorkerProcessUs = 0 /\ totalWorkerProcessUs = 0
        /\ workerProcessedBlocks = 0 /\ averageWorkerProcessUs = 0
    BY DEF Init
  <2>2. RecordInv
    BY <2>1 DEF RecordInv, AverageIsOfCounted
  <2> QED BY <2>1, <2>2 DEF AgreeInv
<1>2. TypeOK /\ AgreeInv /\ [Next]_vars => AgreeInv'
  <2> SUFFICES ASSUME TypeOK, AgreeInv, [Next]_vars PROVE AgreeInv'
    OBVIOUS
  <2> USE DEF shared, locals, calls
  <2>1. ASSUME NEW d \in Durations, FinishBlock(d) PROVE AgreeInv'
    <3>1. ASSUME ~raced' PROVE RecordInv' /\ resetStep' = "idle"
      <4>1. resetStep = "idle" /\ RecordInv /\ recordStep = "idle"
        BY <2>1, <3>1 DEF FinishBlock, AgreeInv
      <4> QED BY <2>1, <4>1 DEF FinishBlock, RecordInv, AverageIsOfCounted
    <3> QED BY <3>1 DEF AgreeInv
  <2>2. ASSUME RecordStep, ~raced PROVE RecordInv' /\ resetStep' = "idle"
    <3>1. resetStep = "idle" /\ RecordInv
      BY <2>2 DEF AgreeInv, RecordStep, StoreLast, AddTotal, AddProcessed, StoreAverage, LoadMax,
                  ExchangeMax, ExchangeMaxFails
    <3> USE DEF RecordInv, AverageIsOfCounted
    <3>2. CASE StoreLast
      BY <3>1, <3>2 DEF StoreLast
    <3>3. CASE AddTotal
      BY <3>1, <3>3, ProductIsNumber DEF AddTotal, TypeOK
    <3>4. CASE AddProcessed
      <4>1. workerProcessedBlocks' - 1 = workerProcessedBlocks /\ workerProcessedBlocks' > 0
        BY <3>4 DEF AddProcessed, TypeOK
      <4> QED BY <3>1, <3>4, <4>1 DEF AddProcessed, TypeOK
    <3>5. CASE StoreAverage
      BY <3>1, <3>5 DEF StoreAverage
    <3>6. ASSUME elapsedUs <= maxWorkerProcessUs, recordStep \in {"loadMax", "max"}
          PROVE  totalWorkerProcessUs <= maxWorkerProcessUs * workerProcessedBlocks
      BY <3>1, <3>6, OneMoreOfMax DEF TypeOK
    <3>7. CASE LoadMax
      <4>1. CASE elapsedUs > maxWorkerProcessUs
        BY <3>1, <3>7, <4>1 DEF LoadMax, LoopOn, TypeOK
      <4>2. CASE elapsedUs <= maxWorkerProcessUs
        BY <3>1, <3>6, <3>7, <4>2 DEF LoadMax, LoopOn, TypeOK
      <4> QED BY <4>1, <4>2 DEF TypeOK
    <3>8. CASE ExchangeMax
      <4>1. totalWorkerProcessUs <= elapsedUs * workerProcessedBlocks
        BY <3>1, <3>8, OneMoreOfMax DEF ExchangeMax, TypeOK
      <4> QED BY <3>1, <3>8, <4>1 DEF ExchangeMax, TypeOK
    <3>9. CASE ExchangeMaxFails
      <4>1. CASE elapsedUs > maxWorkerProcessUs
        BY <3>1, <3>9, <4>1 DEF ExchangeMaxFails, LoopOn, TypeOK
      <4>2. CASE elapsedUs <= maxWorkerProcessUs
        BY <3>1, <3>6, <3>9, <4>2 DEF ExchangeMaxFails, LoopOn, TypeOK
      <4> QED BY <4>1, <4>2 DEF TypeOK
    <3> QED BY <2>2, <3>2, <3>3, <3>4, <3>5, <3>7, <3>8, <3>9 DEF RecordStep
  <2>3. CASE RecordStep
    <3>1. raced' = raced
      BY <2>3 DEF RecordStep, StoreLast, AddTotal, AddProcessed, StoreAverage, LoadMax,
                  ExchangeMax, ExchangeMaxFails
    <3> QED BY <2>2, <2>3, <3>1 DEF AgreeInv
  <2>4. CASE BeginReset
    BY <2>4 DEF BeginReset, AgreeInv, ZeroedInv
  <2>5. CASE ResetProcessed \/ ResetLast \/ ResetTotal \/ ResetAverage
    BY <2>5 DEF ResetProcessed, ResetLast, ResetTotal, ResetAverage, AgreeInv, ZeroedInv
  <2>6. CASE ResetMax
    <3>1. ASSUME ~raced' PROVE RecordInv' /\ resetStep' = "idle"
      <4>1. recordStep' = "idle" /\ resetStep' = "idle" /\ ZeroedInv /\ resetStep = "max"
        BY <2>6, <3>1 DEF ResetMax, AgreeInv
      <4>2. /\ maxWorkerProcessUs' = 0 /\ lastWorkerProcessUs' = 0 /\ totalWorkerProcessUs' = 0
            /\ workerProcessedBlocks' = 0 /\ averageWorkerProcessUs' = 0
        BY <2>6, <4>1 DEF ResetMax, ZeroedInv
      <4> QED BY <4>1, <4>2 DEF RecordInv, AverageIsOfCounted
    <3> QED BY <3>1 DEF AgreeInv
  <2>7. CASE UNCHANGED vars
    BY <2>7 DEF vars, AgreeInv, RecordInv, ZeroedInv, AverageIsOfCounted
  <2> QED BY <2>1, <2>3, <2>4, <2>5, <2>6, <2>7 DEF Next, ResetStep
<1> QED BY <1>1, <1>2, TypeCorrect, PTL DEF Spec, TypeInv

\* As long as no reset met a block, and after a reset that met none, last, total,
\* average, maximum and count agree.
THEOREM TimesCorrect == Spec => []TimesAgree
<1>1. TypeOK /\ AgreeInv => TimesAgree
  <2> SUFFICES ASSUME TypeOK, AgreeInv, AtRest, ~raced
               PROVE  /\ lastWorkerProcessUs <= maxWorkerProcessUs
                      /\ averageWorkerProcessUs <= maxWorkerProcessUs
                      /\ IF workerProcessedBlocks = 0 THEN totalWorkerProcessUs = 0
                         ELSE averageWorkerProcessUs
                                = totalWorkerProcessUs \div workerProcessedBlocks
    BY DEF TimesAgree
  <2>1. /\ lastWorkerProcessUs <= maxWorkerProcessUs
        /\ totalWorkerProcessUs <= maxWorkerProcessUs * workerProcessedBlocks
        /\ AverageIsOfCounted
    BY DEF AgreeInv, RecordInv, AtRest
  <2>2. CASE workerProcessedBlocks = 0
    <3>1. maxWorkerProcessUs * workerProcessedBlocks = 0
      BY <2>2 DEF TypeOK
    <3> QED BY <2>1, <2>2, <3>1 DEF AverageIsOfCounted, TypeOK
  <2>3. CASE workerProcessedBlocks # 0
    BY <2>1, <2>3, AverageOfBounded DEF AverageIsOfCounted, TypeOK
  <2> QED BY <2>2, <2>3
<1> QED BY <1>1, AgreeInvariance, TypeCorrect, PTL DEF TypeInv
=============================================================================
