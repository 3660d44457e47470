--------------------------- MODULE PitchYINProofs ---------------------------
(***************************************************************************)
(* Proofs about PitchYIN: whatever integers the setters are given and      *)
(* whatever the frame, estimate answers what YIN is defined to answer.     *)
(*                                                                         *)
(*   1. Sums and the loop over the lags are folds over finite sets: what   *)
(*      the definition of a fold promises exists, by induction on the size *)
(*      of the set, so that the loop can be followed turn by turn.         *)
(*   2. The order of fractions.                                            *)
(*   3. The loop invariant: Looking before the first dip, Found after it.  *)
(*   4. The refinement stays within half a lag.                            *)
(*   5. The invariants of the specification.                               *)
(***************************************************************************)
EXTENDS PitchYIN, FiniteSetTheorems, WellFoundedInduction, TLAPS

\* What the setters may be given: any integers.
AnySettings == [minFrequency : Int, maxFrequency : Int, threshold : Int, rmsThreshold : Int]

SettingsInv ==
  /\ sampleRate \in Nat /\ sampleRate > 0
  /\ settings \in AnySettings
  /\ SettingsAreUsable

\* However the estimator is set up, the lags divide by positive numbers and the
\* thresholds are in their ranges when estimate is called.
THEOREM SettingsUsable == Spec => []SettingsInv
<1> USE DEF SettingsInv, SettingsAreUsable, AnySettings
<1>1. Init => SettingsInv
  <2> SUFFICES ASSUME Init PROVE SettingsInv
    OBVIOUS
  <2>1. /\ sampleRate = 48000
        /\ settings = [minFrequency |-> 50, maxFrequency |-> 1000, threshold |-> 150,
                       rmsThreshold |-> 5]
    BY DEF Init
  <2> QED BY <2>1
<1>2. SettingsInv /\ [Next]_vars => SettingsInv'
  <2> SUFFICES ASSUME SettingsInv, [Next]_vars PROVE SettingsInv'
    OBVIOUS
  <2>1. ASSUME NEW rate \in SampleRates, SetSampleRate(rate) PROVE SettingsInv'
    BY <2>1, GivenAssumption DEF GivenAssumption, SetSampleRate
  <2>2. ASSUME NEW s \in SettingsGiven, SetSettings(s) PROVE SettingsInv'
    <3> DEFINE low == IF s.minFrequency > 0 THEN s.minFrequency ELSE 50
               high == IF s.maxFrequency > low THEN s.maxFrequency ELSE 2 * low
               dip == IF s.threshold \in 1 .. 999 THEN s.threshold ELSE 150
               rms == IF s.rmsThreshold > 0 THEN s.rmsThreshold ELSE 0
    <3>1. /\ s.minFrequency \in Int /\ s.maxFrequency \in Int
          /\ s.threshold \in Int /\ s.rmsThreshold \in Int
      BY GivenAssumption DEF GivenAssumption
    <3>2. low \in Int /\ 0 < low
      BY <3>1
    <3>3. high \in Int /\ low < high
      BY <3>1, <3>2
    <3>4. dip \in Int /\ 0 < dip /\ dip < 1000 /\ rms \in Int /\ rms >= 0
      BY <3>1
    <3>5. /\ settings' = [minFrequency |-> low, maxFrequency |-> high, threshold |-> dip,
                          rmsThreshold |-> rms]
          /\ sampleRate' = sampleRate
      BY <2>2 DEF SetSettings
    <3> HIDE DEF low, high, dip, rms
    <3> QED BY <3>2, <3>3, <3>4, <3>5
  <2>3. ASSUME NEW s \in Frames, Estimate(s) PROVE SettingsInv'
    BY <2>3 DEF Estimate
  <2>4. CASE UNCHANGED vars
    BY <2>4 DEF vars
  <2> QED BY <2>1, <2>2, <2>3, <2>4 DEF Next
<1> QED BY <1>1, <1>2, PTL DEF Spec

-----------------------------------------------------------------------------
\* Induction on the natural numbers, of a set.
LEMMA Induction ==
  ASSUME NEW S, 0 \in S, \A n \in Nat : n \in S => n + 1 \in S
  PROVE  Nat \subseteq S
<1> SUFFICES ASSUME Nat \ S # {} PROVE FALSE
  OBVIOUS
<1> DEFINE T == Nat \ S
           R == OpToRel(<, Nat)
<1>1. IsWellFoundedOn(R, Nat)
  BY NatLessThanWellFounded
<1>2. \A x, y \in Nat : y < x => <<y, x>> \in R
  BY DEF OpToRel
<1>3. \E x \in T : \A y \in T : ~(<<y, x>> \in R)
  <2>1. T \subseteq Nat /\ T # {}
    OBVIOUS
  <2> HIDE DEF T, R
  <2> QED BY <1>1, <2>1, WFMin
<1>4. PICK x \in T : \A y \in T : ~(<<y, x>> \in R)
  BY <1>3
<1>5. x \in Nat /\ x \notin S
  BY <1>4
<1>6. x # 0
  BY <1>5
<1>7. x - 1 \in Nat /\ x - 1 < x /\ (x - 1) + 1 = x
  BY <1>5, <1>6
<1>8. x - 1 \in T
  BY <1>5, <1>7
<1> HIDE DEF R
<1> QED BY <1>2, <1>4, <1>5, <1>7, <1>8

\* The community modules fold over a finite set by taking out one element after the
\* other.  c says which.
Takes(c, S) == \A X \in SUBSET S : X # {} => c[X] \in X

\* g is the fold over the subsets of S that starts with base and goes on with op.
Steps(S, V) == [S -> [V -> V]]
FoldsBy(g, c, base, op, S) ==
  \A X \in SUBSET S : g[X] = IF X = {} THEN base ELSE op[c[X]][g[X \ {c[X]}]]

\* What holds of {}, and of a set if it holds of the set without the element taken
\* out of it, holds of all of them.
LEMMA TakingOut ==
  ASSUME NEW S, IsFiniteSet(S), NEW c, Takes(c, S),
         NEW P, {} \in P,
         \A X \in SUBSET S : X # {} /\ X \ {c[X]} \in P => X \in P
  PROVE  SUBSET S \subseteq P
<1> DEFINE N == {n \in Nat : \A X \in SUBSET S : Cardinality(X) <= n => X \in P}
<1>1. \A X \in SUBSET S : IsFiniteSet(X) /\ Cardinality(X) \in Nat
  BY FS_Subset, FS_CardinalityType
<1>2. 0 \in N
  <2>1. \A X \in SUBSET S : Cardinality(X) <= 0 => X = {}
    BY <1>1, FS_EmptySet
  <2> QED BY <2>1
<1>3. ASSUME NEW n \in Nat, n \in N PROVE n + 1 \in N
  <2> SUFFICES ASSUME NEW X \in SUBSET S, Cardinality(X) <= n + 1 PROVE X \in P
    OBVIOUS
  <2>1. CASE X = {}
    BY <2>1
  <2>2. CASE X # {}
    <3>1. c[X] \in X
      BY <2>2 DEF Takes
    <3>2. X \ {c[X]} \in SUBSET S /\ Cardinality(X \ {c[X]}) = Cardinality(X) - 1
      BY <1>1, <3>1, FS_RemoveElement
    <3>3. Cardinality(X \ {c[X]}) <= n
      BY <1>1, <3>2
    <3> QED BY <1>3, <2>2, <3>2, <3>3
  <2> QED BY <2>1, <2>2
<1>4. Nat \subseteq N
  <2> HIDE DEF N
  <2> QED BY <1>2, <1>3, Induction
<1> QED BY <1>1, <1>4

\* There is a function that does what a fold is defined to do, if its steps op stay
\* among the values V.
LEMMA FoldExists ==
  ASSUME NEW S, IsFiniteSet(S), NEW c, Takes(c, S),
         NEW V, NEW base \in V, NEW op \in Steps(S, V)
  PROVE  \E g \in [SUBSET S -> V] : FoldsBy(g, c, base, op, S)
<1> DEFINE Small(n) == {X \in SUBSET S : Cardinality(X) <= n}
           Folds(g, n) == \A X \in Small(n) :
                            g[X] = IF X = {} THEN base ELSE op[c[X]][g[X \ {c[X]}]]
           N == {n \in Nat : \E g \in [SUBSET S -> V] : Folds(g, n)}
<1>1. \A X \in SUBSET S : IsFiniteSet(X) /\ Cardinality(X) \in Nat
  BY FS_Subset, FS_CardinalityType
<1>2. 0 \in N
  <2>1. [X \in SUBSET S |-> base] \in [SUBSET S -> V]
    OBVIOUS
  <2>2. \A X \in Small(0) : X = {}
    BY <1>1, FS_EmptySet
  <2>3. Folds([X \in SUBSET S |-> base], 0)
    BY <2>2
  <2> QED BY <2>1, <2>3
<1>3. ASSUME NEW n \in Nat, n \in N PROVE n + 1 \in N
  <2>1. PICK g \in [SUBSET S -> V] : Folds(g, n)
    BY <1>3
  <2> DEFINE h == [X \in SUBSET S |-> IF X = {} THEN base ELSE op[c[X]][g[X \ {c[X]}]]]
  <2>2. h \in [SUBSET S -> V]
    BY DEF Takes, Steps
  <2>3. \A X \in Small(n) : h[X] = g[X]
    BY <2>1
  <2>4. ASSUME NEW X \in Small(n + 1), X # {} PROVE h[X \ {c[X]}] = g[X \ {c[X]}]
    <3>1. c[X] \in X
      BY <2>4 DEF Takes
    <3>2. X \ {c[X]} \in SUBSET S /\ Cardinality(X \ {c[X]}) = Cardinality(X) - 1
      BY <1>1, <3>1, FS_RemoveElement
    <3>3. X \ {c[X]} \in Small(n)
      BY <1>1, <3>2
    <3> QED BY <2>3, <3>3
  <2>5. Folds(h, n + 1)
    BY <2>4
  <2> HIDE DEF h, Folds
  <2> QED BY <2>2, <2>5
<1>4. Nat \subseteq N
  <2> HIDE DEF N
  <2> QED BY <1>2, <1>3, Induction
<1>5. PICK g \in [SUBSET S -> V] : Folds(g, Cardinality(S))
  BY <1>1, <1>4
<1>6. Small(Cardinality(S)) = SUBSET S
  BY FS_Subset
<1> QED BY <1>5, <1>6 DEF FoldsBy

\* A sum of natural numbers is one.
LEMMA SumIsNatural ==
  ASSUME NEW S, IsFiniteSet(S), NEW t \in [S -> Nat]
  PROVE  SumFunction(t) \in Nat
<1> DEFINE c == [X \in SUBSET S |-> CHOOSE i \in X : TRUE]
           op == [i \in S |-> [v \in Nat |-> t[i] + v]]
           Eq(g) == g = [X \in SUBSET S |-> IF X = {} THEN 0
                                            ELSE t[CHOOSE i \in X : TRUE]
                                                 + g[X \ {CHOOSE i \in X : TRUE}]]
           sum == CHOOSE g : Eq(g)
<1>1. SumFunction(t) = sum[S]
  BY DEF SumFunction, SumFunctionOnSet, FoldFunctionOnSet, MapThenFoldSet
<1>2. Takes(c, S)
  BY DEF Takes
<1>3. op \in Steps(S, Nat)
  BY DEF Steps
<1>4. PICK g \in [SUBSET S -> Nat] : FoldsBy(g, c, 0, op, S)
  <2> HIDE DEF c, op
  <2> QED BY <1>2, <1>3, FoldExists, Zenon
<1>5. Eq(g)
  <2>1. ASSUME NEW X \in SUBSET S, X # {}
        PROVE  g[X] = t[CHOOSE i \in X : TRUE] + g[X \ {CHOOSE i \in X : TRUE}]
    <3>1. c[X] = CHOOSE i \in X : TRUE
      OBVIOUS
    <3>2. c[X] \in S /\ X \ {c[X]} \in SUBSET S
      BY <1>2, <2>1 DEF Takes
    <3>3. g[X] = op[c[X]][g[X \ {c[X]}]] /\ g[X \ {c[X]}] \in Nat
      BY <1>4, <2>1, <3>2 DEF FoldsBy
    <3> HIDE DEF c
    <3> QED BY <3>1, <3>2, <3>3
  <2>2. g[{}] = 0
    BY <1>4 DEF FoldsBy
  <2> HIDE DEF c, op
  <2> QED BY <1>4, <2>1, <2>2
<1>6. Eq(sum)
  <2> HIDE DEF Eq
  <2> QED BY <1>5
<1> HIDE DEF sum
<1>7. sum[{}] \in Nat
  BY <1>6
<1>8. ASSUME NEW X \in SUBSET S, X # {}, sum[X \ {c[X]}] \in Nat PROVE sum[X] \in Nat
  <2>1. sum[X] = t[c[X]] + sum[X \ {c[X]}]
    BY <1>6, <1>8
  <2>2. c[X] \in S
    BY <1>2, <1>8 DEF Takes
  <2> HIDE DEF c
  <2> QED BY <1>8, <2>1, <2>2
<1> DEFINE P == {X \in SUBSET S : sum[X] \in Nat}
<1>9. {} \in P /\ \A X \in SUBSET S : X # {} /\ X \ {c[X]} \in P => X \in P
  BY <1>7, <1>8
<1>10. S \in P
  <2> HIDE DEF c, P
  <2> QED BY <1>2, <1>9, TakingOut
<1> QED BY <1>1, <1>10

-----------------------------------------------------------------------------
\* A set of numbers that is not empty has a largest.
LEMMA LargestTaken ==
  ASSUME NEW n \in Nat, NEW X \in SUBSET (1 .. n), X # {}
  PROVE  Max(X) \in X /\ \A x \in X : x <= Max(X)
<1> DEFINE N == {k \in Nat : \A Y \in SUBSET (1 .. k) :
                               Y # {} => \E y \in Y : \A z \in Y : y >= z}
<1>1. 0 \in N
  <2>1. \A Y \in SUBSET (1 .. 0) : Y = {}
    OBVIOUS
  <2> QED BY <2>1
<1>2. ASSUME NEW k \in Nat, k \in N PROVE k + 1 \in N
  <2> SUFFICES ASSUME NEW Y \in SUBSET (1 .. k + 1), Y # {}
               PROVE  \E y \in Y : \A z \in Y : y >= z
    OBVIOUS
  <2>1. CASE k + 1 \in Y
    BY <2>1
  <2>2. CASE k + 1 \notin Y
    <3>1. Y \in SUBSET (1 .. k)
      BY <2>2
    <3> QED BY <1>2, <3>1
  <2> QED BY <2>1, <2>2
<1>3. n \in N
  <2> HIDE DEF N
  <2> QED BY <1>1, <1>2, Induction
<1>4. \E y \in X : \A z \in X : y >= z
  BY <1>3
<1>5. Max(X) \in X /\ \A x \in X : Max(X) >= x
  BY <1>4 DEF Max
<1> QED BY <1>5

\* What the loop over the lags keeps from turn to turn.
Kept == [lag : Nat, cmnd : Nat \X Nat, found : BOOLEAN, stopped : BOOLEAN]

\* A turn of the loop keeps that.
LEMMA TurnKept ==
  ASSUME NEW cmnd, NEW threshold, NEW s \in Kept, NEW lag \in Nat,
         cmnd[lag] \in Nat \X Nat
  PROVE  Turn(cmnd, threshold, s, lag) \in Kept
BY DEF Turn, Stops, Kept

\* The loop, turn by turn: what is kept after each lag.
KeptAfter(cmnd, minLag, maxLag, threshold, kept) ==
  /\ kept \in [minLag - 1 .. maxLag -> Kept]
  /\ kept[minLag - 1] = NoneTaken
  /\ \A lag \in minLag .. maxLag :
       kept[lag] = Turn(cmnd, threshold, kept[lag - 1], lag)

\* Search takes its turns one lag after the other, from MinLag to MaxLag.
LEMMA TurnByTurn ==
  ASSUME NEW cmnd, NEW minLag \in Nat \ {0}, NEW maxLag \in Nat, minLag <= maxLag,
         NEW threshold,
         \A lag \in minLag .. maxLag : cmnd[lag] \in Nat \X Nat
  PROVE  \E kept :
           /\ KeptAfter(cmnd, minLag, maxLag, threshold, kept)
           /\ Search(cmnd, minLag, maxLag, threshold) = kept[maxLag]
<1> DEFINE n == maxLag - minLag + 1
           S == 1 .. n
           lags == [k \in S |-> minLag - 1 + k]
           T(s, k) == Turn(cmnd, threshold, s, lags[k])
           c == [X \in SUBSET S |-> Max(X)]
           op == [k \in S |-> [v \in Kept |-> T(v, k)]]
           Eq(g) == g = [X \in SUBSET S |-> IF X = {} THEN NoneTaken
                                            ELSE T(g[X \ {Max(X)}], Max(X))]
           fold == CHOOSE g : Eq(g)
<1>0. n \in Nat /\ \A k \in S : lags[k] \in minLag .. maxLag
  OBVIOUS
<1>1. Search(cmnd, minLag, maxLag, threshold) = fold[S]
  BY DEF Search, FoldLeft, MapThenFoldSet
<1>2. Takes(c, S)
  BY <1>0, LargestTaken DEF Takes
<1>3. op \in Steps(S, Kept) /\ NoneTaken \in Kept
  <2>1. ASSUME NEW k \in S, NEW v \in Kept PROVE T(v, k) \in Kept
    <3> HIDE DEF S, lags
    <3> QED BY <1>0, TurnKept
  <2>2. NoneTaken \in Kept
    BY DEF NoneTaken, Kept
  <2> HIDE DEF T, S
  <2> QED BY <2>1, <2>2 DEF Steps
<1> HIDE DEF S, T
<1>4. PICK g \in [SUBSET S -> Kept] : FoldsBy(g, c, NoneTaken, op, S)
  <2>1. IsFiniteSet(S)
    BY <1>0, FS_Interval DEF S
  <2> HIDE DEF c, op
  <2> QED BY <1>2, <1>3, <2>1, FoldExists, Zenon
<1>5. Eq(g)
  <2>1. ASSUME NEW X \in SUBSET S, X # {} PROVE g[X] = T(g[X \ {Max(X)}], Max(X))
    <3>1. c[X] = Max(X) /\ c[X] \in S /\ X \ {c[X]} \in SUBSET S
      BY <1>2, <2>1 DEF Takes
    <3>2. g[X] = op[c[X]][g[X \ {c[X]}]] /\ g[X \ {c[X]}] \in Kept
      BY <1>4, <2>1, <3>1 DEF FoldsBy
    <3> HIDE DEF c
    <3> QED BY <3>1, <3>2
  <2>2. g[{}] = NoneTaken
    BY <1>4 DEF FoldsBy
  <2> HIDE DEF c, op
  <2> QED BY <1>4, <2>1, <2>2
<1>6. Eq(fold)
  <2> HIDE DEF Eq
  <2> QED BY <1>5
<1> HIDE DEF fold
<1>7. fold[{}] = NoneTaken
  BY <1>6
<1>8. ASSUME NEW k \in S PROVE fold[1 .. k] = T(fold[1 .. k - 1], k)
  <2>1. k \in Nat /\ 1 .. k \in SUBSET S /\ 1 .. k # {} /\ (1 .. k) \ {k} = 1 .. k - 1
    BY <1>0 DEF S
  <2>2. Max(1 .. k) = k
    <3> DEFINE X == 1 .. k
    <3>1. X \in SUBSET (1 .. k) /\ X # {} /\ k \in X
      BY <2>1
    <3>2. Max(X) \in X /\ k <= Max(X)
      <4> HIDE DEF X
      <4> QED BY <2>1, <3>1, LargestTaken
    <3> QED BY <2>1, <3>2
  <2> QED BY <1>6, <2>1, <2>2
<1> DEFINE P == {k \in Nat : k <= n => fold[1 .. k] \in Kept}
<1>9. \A k \in Nat : k \in P
  <2>1. 0 \in P
    BY <1>3, <1>7
  <2>2. ASSUME NEW k \in Nat, k \in P PROVE k + 1 \in P
    <3>1. SUFFICES ASSUME k + 1 <= n PROVE fold[1 .. k + 1] \in Kept
      OBVIOUS
    <3>2. fold[1 .. k] \in Kept /\ k + 1 \in S /\ (k + 1) - 1 = k
      BY <1>0, <2>2, <3>1 DEF S
    <3>3. fold[1 .. k + 1] = T(fold[1 .. k], k + 1)
      BY <1>8, <3>2
    <3>4. lags[k + 1] \in Nat /\ cmnd[lags[k + 1]] \in Nat \X Nat
      BY <1>0, <3>2
    <3> HIDE DEF lags
    <3> QED BY <3>2, <3>3, <3>4, TurnKept DEF T
  <2> HIDE DEF P
  <2> QED BY <2>1, <2>2, Induction
<1> DEFINE kept == [lag \in minLag - 1 .. maxLag |-> fold[1 .. lag - minLag + 1]]
<1>10. kept \in [minLag - 1 .. maxLag -> Kept]
  <2>1. ASSUME NEW lag \in minLag - 1 .. maxLag PROVE fold[1 .. lag - minLag + 1] \in Kept
    <3>1. lag - minLag + 1 \in Nat /\ lag - minLag + 1 <= n
      OBVIOUS
    <3> QED BY <1>9, <3>1
  <2> QED BY <2>1
<1>11. kept[minLag - 1] = NoneTaken
  <2>1. minLag - 1 \in minLag - 1 .. maxLag /\ (minLag - 1) - minLag + 1 = 0 /\ 1 .. 0 = {}
    OBVIOUS
  <2> QED BY <1>7, <2>1
<1>12. ASSUME NEW lag \in minLag .. maxLag
       PROVE  kept[lag] = Turn(cmnd, threshold, kept[lag - 1], lag)
  <2> DEFINE k == lag - minLag + 1
  <2>1. /\ k \in S /\ lags[k] = lag /\ lag \in minLag - 1 .. maxLag
        /\ lag - 1 \in minLag - 1 .. maxLag /\ (lag - 1) - minLag + 1 = k - 1
    BY DEF S
  <2>2. kept[lag] = fold[1 .. k] /\ kept[lag - 1] = fold[1 .. k - 1]
    BY <2>1
  <2> HIDE DEF k, kept, lags
  <2> QED BY <1>8, <2>1, <2>2 DEF T
<1>13. kept[maxLag] = fold[S]
  BY DEF S
<1> HIDE DEF kept
<1> QED BY <1>1, <1>10, <1>11, <1>12, <1>13 DEF KeptAfter

-----------------------------------------------------------------------------
\* Products keep the order of integers.
LEMMA CommonDenominator ==
  ASSUME NEW a \in Int, NEW b \in Int, NEW k \in Nat
  PROVE  /\ a * k \in Int
         /\ a <= b => a * k <= b * k
         /\ a < b /\ k > 0 => a * k < b * k
OBVIOUS

\* Numerators and denominators of the code's non-negative quotients.
Fractions == Nat \X (Nat \ {0})

\* Fractions are in an order: what is less than a fraction is less than any that is not
\* less than that.
LEMMA LessLeft ==
  ASSUME NEW a \in Fractions, NEW b \in Fractions, NEW c \in Fractions,
         Less(a, b), ~Less(c, b)
  PROVE  Less(a, c)
<1>1. /\ a[1] \in Nat /\ a[2] \in Nat /\ b[1] \in Nat /\ b[2] \in Nat /\ c[1] \in Nat
      /\ c[2] \in Nat /\ a[2] > 0 /\ b[2] > 0 /\ c[2] > 0
  BY DEF Fractions
<1>2. a[1] * b[2] < b[1] * a[2] /\ ~(c[1] * b[2] < b[1] * c[2])
  BY DEF Less
<1> SUFFICES ASSUME NEW a1 \in Nat, NEW a2 \in Nat, NEW b1 \in Nat, NEW b2 \in Nat,
                    NEW c1 \in Nat, NEW c2 \in Nat, a2 > 0, b2 > 0, c2 > 0,
                    a1 * b2 < b1 * a2, ~(c1 * b2 < b1 * c2)
             PROVE  a1 * c2 < c1 * a2
  BY <1>1, <1>2 DEF Less
<1>3. /\ a1 * b2 \in Int /\ b1 * a2 \in Int /\ c1 * b2 \in Int /\ b1 * c2 \in Int
      /\ a1 * c2 \in Int /\ c1 * a2 \in Int
  OBVIOUS
<1>4. (a1 * b2) * c2 < (b1 * a2) * c2
  BY <1>3, CommonDenominator
<1>5. (b1 * c2) * a2 <= (c1 * b2) * a2
  BY <1>3, CommonDenominator
<1>6. ~(a1 * c2 < c1 * a2) => (c1 * a2) * b2 <= (a1 * c2) * b2
  BY <1>3, CommonDenominator
<1>7. /\ (a1 * b2) * c2 = (a1 * c2) * b2 /\ (b1 * a2) * c2 = (b1 * c2) * a2
      /\ (c1 * b2) * a2 = (c1 * a2) * b2
  OBVIOUS
<1>8. /\ (a1 * c2) * b2 \in Int /\ (b1 * c2) * a2 \in Int /\ (c1 * a2) * b2 \in Int
  OBVIOUS
<1>9. \A x, y, z \in Int : x < y /\ y <= z => ~(z <= x)
  OBVIOUS
<1> QED BY <1>4, <1>5, <1>6, <1>7, <1>8, <1>9

\* And the order is strict, total up to equal fractions, and transitive.
LEMMA LessOrder ==
  ASSUME NEW a \in Fractions, NEW b \in Fractions, NEW c \in Fractions
  PROVE  /\ Less(a, b) => ~Less(b, a)
         /\ ~Less(a, a)
         /\ ~Less(b, a) /\ Less(b, c) => Less(a, c)
         /\ Less(a, b) /\ Less(b, c) => Less(a, c)
<1>1. ASSUME NEW x \in Fractions, NEW y \in Fractions, Less(x, y) PROVE ~Less(y, x)
  <2>1. x[1] \in Nat /\ x[2] \in Nat /\ y[1] \in Nat /\ y[2] \in Nat
    BY DEF Fractions
  <2>2. x[1] * y[2] \in Int /\ y[1] * x[2] \in Int
    BY <2>1
  <2> QED BY <1>1, <2>2 DEF Less
<1>2. ~Less(a, a)
  BY <1>1
<1>3. ASSUME ~Less(b, a), Less(b, c) PROVE Less(a, c)
  <2>1. ~Less(a, c) => Less(b, a)
    BY <1>3, LessLeft
  <2> QED BY <1>3, <2>1
<1> QED BY <1>1, <1>2, <1>3, LessLeft

\* The normalized difference of a frame is a fraction at every lag.
LEMMA CmndIsFraction ==
  ASSUME NEW s \in Seq(Int), NEW maxLag \in Nat, maxLag < Len(s)
  PROVE  \A lag \in 1 .. maxLag : Cmnd(s, maxLag)[lag] \in Fractions
<1> DEFINE difference == [lag \in 1 .. maxLag |-> Difference(s, lag)]
           cumulative == [lag \in 1 .. maxLag |->
                            SumFunction([l \in 1 .. lag |-> difference[l]])]
<1>1. ASSUME NEW lag \in 1 .. maxLag PROVE difference[lag] \in Nat
  <2> DEFINE Delta(i) == s[i] - s[i + lag]
             I == 1 .. Len(s) - lag
             t == [i \in I |-> Delta(i) * Delta(i)]
  <2>1. IsFiniteSet(I)
    BY FS_Interval
  <2>2. ASSUME NEW i \in I PROVE Delta(i) * Delta(i) \in Nat
    <3>1. i \in 1 .. Len(s) /\ i + lag \in 1 .. Len(s)
      OBVIOUS
    <3>2. Delta(i) \in Int
      BY <3>1
    <3>3. \A d \in Int : d * d \in Nat
      OBVIOUS
    <3> QED BY <3>2, <3>3
  <2>3. t \in [I -> Nat]
    BY <2>2
  <2>4. SumFunction(t) \in Nat
    <3> HIDE DEF t, I
    <3> QED BY <2>1, <2>3, SumIsNatural
  <2> QED BY <2>4 DEF Difference
<1>2. ASSUME NEW lag \in 1 .. maxLag PROVE cumulative[lag] \in Nat
  <2> DEFINE I == 1 .. lag
             t == [l \in I |-> difference[l]]
  <2>1. IsFiniteSet(I)
    BY FS_Interval
  <2>2. t \in [I -> Nat]
    BY <1>1
  <2>3. SumFunction(t) \in Nat
    <3> HIDE DEF t, I
    <3> QED BY <2>1, <2>2, SumIsNatural
  <2> QED BY <2>3
<1>3. ASSUME NEW lag \in 1 .. maxLag
      PROVE  Cmnd(s, maxLag)[lag] = IF cumulative[lag] > 0
                                    THEN <<difference[lag] * lag, cumulative[lag]>> ELSE <<1, 1>>
  BY DEF Cmnd
<1> HIDE DEF difference, cumulative
<1>4. \A d \in Nat, lag \in Nat : d * lag \in Nat
  OBVIOUS
<1>5. ASSUME NEW lag \in 1 .. maxLag PROVE Cmnd(s, maxLag)[lag] \in Fractions
  <2>1. difference[lag] * lag \in Nat /\ cumulative[lag] \in Nat
    BY <1>1, <1>2, <1>4
  <2>2. CASE cumulative[lag] > 0
    <3>1. cumulative[lag] \in Nat \ {0}
      BY <2>1, <2>2
    <3>2. <<difference[lag] * lag, cumulative[lag]>> \in Fractions
      BY <2>1, <3>1 DEF Fractions
    <3> QED BY <1>3, <2>2, <3>2
  <2>3. CASE ~(cumulative[lag] > 0)
    <3>1. <<1, 1>> \in Fractions
      BY DEF Fractions
    <3> QED BY <1>3, <2>3, <3>1
  <2> QED BY <2>2, <2>3
<1> QED BY <1>5

-----------------------------------------------------------------------------
\* What the loop has when it has looked at the lags up to m: the first of the lowest, or,
\* once there was a dip, the way down from its first lag.

LowestSoFar(cmnd, minLag, m, lag) ==
  /\ \A l \in minLag .. m : ~Less(cmnd[l], cmnd[lag])
  /\ \A l \in minLag .. lag - 1 : Less(cmnd[lag], cmnd[l])
NoDip(cmnd, minLag, m, level) == \A l \in minLag .. m : ~Less(cmnd[l], level)
WayDown(cmnd, minLag, lag, level) ==
  \E first \in minLag .. lag :
    /\ NoDip(cmnd, minLag, first - 1, level) /\ Less(cmnd[first], level)
    /\ \A l \in first .. lag - 1 : Less(cmnd[l + 1], cmnd[l])

Looking(cmnd, minLag, m, level, r) ==
  /\ ~r.found /\ ~r.stopped
  /\ NoDip(cmnd, minLag, m, level)
  /\ m < minLag => r.cmnd = <<1, 0>>
  /\ m >= minLag => /\ r.lag \in minLag .. m /\ r.cmnd = cmnd[r.lag]
                    /\ LowestSoFar(cmnd, minLag, m, r.lag)
Found(cmnd, minLag, m, level, r) ==
  /\ r.found /\ r.lag \in minLag .. m /\ r.cmnd = cmnd[r.lag]
  /\ Less(cmnd[r.lag], level) /\ WayDown(cmnd, minLag, r.lag, level)
  /\ ~r.stopped => r.lag = m
  /\ r.stopped => r.lag < m /\ ~Less(cmnd[r.lag + 1], cmnd[r.lag])

Searched(cmnd, minLag, m, level, r) ==
  Looking(cmnd, minLag, m, level, r) \/ Found(cmnd, minLag, m, level, r)

AllFractions(cmnd, minLag, maxLag) == \A l \in minLag .. maxLag : cmnd[l] \in Fractions

\* A turn goes on from what was found up to the lag before.
LEMMA OneTurn ==
  ASSUME NEW cmnd, NEW minLag \in Nat, NEW maxLag \in Nat, NEW threshold \in Nat,
         AllFractions(cmnd, minLag, maxLag),
         NEW lag \in minLag .. maxLag, NEW r \in Kept, NEW next,
         next = Turn(cmnd, threshold, r, lag),
         NEW level, level = <<threshold, 1000>>,
         Searched(cmnd, minLag, lag - 1, level, r)
  PROVE  Searched(cmnd, minLag, lag, level, next)
<1>0. Looking(cmnd, minLag, lag - 1, level, r) \/ Found(cmnd, minLag, lag - 1, level, r)
  BY DEF Searched
<1> SUFFICES Looking(cmnd, minLag, lag, level, next) \/ Found(cmnd, minLag, lag, level, next)
  BY DEF Searched
<1> USE DEF AllFractions
<1> DEFINE lower == Less(cmnd[lag], r.cmnd)
           dips == ~r.found /\ Less(cmnd[lag], level)
           taken == ~r.stopped /\ (lower \/ dips)
<1>1. /\ next.lag = IF taken THEN lag ELSE r.lag
      /\ next.cmnd = IF taken THEN cmnd[lag] ELSE r.cmnd
      /\ next.found <=> (r.found \/ dips)
      /\ next.stopped <=> (r.stopped \/ (r.found /\ ~lower))
  <2>1. /\ next.lag = IF taken THEN lag ELSE r.lag
        /\ next.cmnd = IF taken THEN cmnd[lag] ELSE r.cmnd
    BY DEF Turn
  <2>2. next.found <=> (r.found \/ dips)
    BY ONLY next = Turn(cmnd, threshold, r, lag), level = <<threshold, 1000>>, ZenonT(40)
       DEF Turn
  <2>3. next.stopped <=> (r.stopped \/ (r.found /\ ~lower))
    BY ONLY next = Turn(cmnd, threshold, r, lag), ZenonT(40) DEF Turn, Stops
  <2> QED BY <2>1, <2>2, <2>3
<1>2. lag \in Nat /\ level \in Fractions /\ cmnd[lag] \in Fractions
  BY DEF Fractions
<1>3. r.found \in BOOLEAN /\ r.stopped \in BOOLEAN /\ r.lag \in Nat
  BY DEF Kept
<1>4. CASE Looking(cmnd, minLag, lag - 1, level, r) /\ Less(cmnd[lag], level)
  <2>0. next.found /\ ~next.stopped
    BY <1>1, <1>3, <1>4 DEF Looking
  <2>1. next.lag = lag /\ next.cmnd = cmnd[lag]
    BY <1>1, <1>3, <1>4 DEF Looking
  <2>2. WayDown(cmnd, minLag, lag, level)
    <3>1. NoDip(cmnd, minLag, lag - 1, level) /\ lag \in minLag .. lag /\ lag .. lag - 1 = {}
      BY <1>2, <1>4 DEF Looking
    <3> QED BY <1>4, <3>1 DEF WayDown
  <2>3. lag \in minLag .. lag
    BY <1>2
  <2>4. /\ next.lag \in minLag .. lag /\ next.cmnd = cmnd[next.lag]
        /\ Less(cmnd[next.lag], level) /\ WayDown(cmnd, minLag, next.lag, level)
    BY ONLY <1>4, <2>1, <2>2, <2>3
  <2> QED BY <2>0, <2>1, <2>4, Zenon DEF Found
<1>5. CASE Looking(cmnd, minLag, lag - 1, level, r) /\ ~Less(cmnd[lag], level)
  <2>1. ~next.found /\ ~next.stopped
    BY <1>1, <1>3, <1>5 DEF Looking
  <2>2. NoDip(cmnd, minLag, lag, level)
    <3>1. minLag .. lag = (minLag .. lag - 1) \cup {lag}
      BY <1>2
    <3> QED BY <1>5, <3>1 DEF Looking, NoDip
  <2>3. /\ next.lag \in minLag .. lag /\ next.cmnd = cmnd[next.lag]
        /\ LowestSoFar(cmnd, minLag, lag, next.lag)
    <3>1. CASE lag = minLag
      <4>1. r.cmnd = <<1, 0>>
        BY <1>2, <1>5, <3>1 DEF Looking
      <4>2. cmnd[lag][1] * 0 < 1 * cmnd[lag][2]
        BY <1>2 DEF Fractions
      <4>3. lower
        BY <4>1, <4>2 DEF Less
      <4>4. next.lag = lag /\ next.cmnd = cmnd[lag]
        BY <1>1, <1>5, <4>3 DEF Looking
      <4>5. minLag .. lag = {lag} /\ minLag .. lag - 1 = {} /\ lag \in minLag .. lag
        BY <1>2, <3>1
      <4>6. LowestSoFar(cmnd, minLag, lag, lag)
        BY <1>2, <4>5, LessOrder DEF LowestSoFar
      <4> QED BY <4>4, <4>5, <4>6
    <3>2. CASE lag # minLag
      <4>1. /\ r.lag \in minLag .. lag - 1 /\ r.cmnd = cmnd[r.lag]
            /\ LowestSoFar(cmnd, minLag, lag - 1, r.lag)
        <5>1. lag - 1 >= minLag
          BY <1>2, <3>2
        <5> QED BY <1>5, <5>1 DEF Looking
      <4>2. /\ minLag .. lag = (minLag .. lag - 1) \cup {lag}
            /\ minLag .. lag - 1 \subseteq minLag .. maxLag
            /\ r.lag \in minLag .. lag /\ minLag .. r.lag - 1 \subseteq minLag .. lag - 1
            /\ lag \in minLag .. lag
        BY <1>2, <1>3, <4>1
      <4>3. CASE lower
        <5>1. next.lag = lag /\ next.cmnd = cmnd[lag]
          BY <1>1, <1>5, <4>3 DEF Looking
        <5>2. ASSUME NEW l \in minLag .. lag - 1 PROVE Less(cmnd[lag], cmnd[l])
          BY <1>2, <4>1, <4>2, <4>3, LessLeft DEF LowestSoFar
        <5>3. \A l \in minLag .. lag : ~Less(cmnd[l], cmnd[lag])
          BY <1>2, <4>2, <5>2, LessOrder
        <5> QED BY <4>2, <5>1, <5>2, <5>3 DEF LowestSoFar
      <4>4. CASE ~lower
        <5>1. next.lag = r.lag /\ next.cmnd = r.cmnd
          BY <1>1, <1>5, <4>4 DEF Looking
        <5> QED BY <4>1, <4>2, <4>4, <5>1 DEF LowestSoFar
      <4> QED BY <4>3, <4>4
    <3> QED BY <3>1, <3>2
  <2>4. ~(lag < minLag)
    BY <1>2
  <2> QED BY <2>1, <2>2, <2>3, <2>4, Zenon DEF Looking
<1>6. CASE Found(cmnd, minLag, lag - 1, level, r)
  <2>0. r.found
    BY <1>6 DEF Found
  <2>1. /\ r.lag \in minLag .. lag - 1 /\ r.cmnd = cmnd[r.lag]
        /\ Less(cmnd[r.lag], level) /\ WayDown(cmnd, minLag, r.lag, level)
        /\ cmnd[r.lag] \in Fractions
    BY <1>6 DEF Found
  <2>2. next.found
    BY <1>1, <2>0
  <2>3. CASE r.stopped
    <3>0. next.stopped
      BY <1>1, <2>3, Zenon
    <3>1. next.lag = r.lag /\ next.cmnd = r.cmnd
      <4>1. ~taken
        BY <2>3
      <4> QED BY <1>1, <4>1
    <3>2. r.lag < lag - 1 /\ ~Less(cmnd[r.lag + 1], cmnd[r.lag])
      BY <1>6, <2>3 DEF Found
    <3>3. r.lag \in minLag .. lag /\ r.lag < lag
      BY <1>2, <1>3, <2>1, <3>2
    <3>4. /\ next.lag \in minLag .. lag /\ next.cmnd = cmnd[next.lag]
          /\ Less(cmnd[next.lag], level) /\ WayDown(cmnd, minLag, next.lag, level)
          /\ next.lag < lag /\ ~Less(cmnd[next.lag + 1], cmnd[next.lag])
      BY ONLY <2>1, <3>1, <3>2, <3>3
    <3> QED BY <2>2, <3>0, <3>4, Zenon DEF Found
  <2>4. CASE ~r.stopped /\ lower
    <3>0. ~next.stopped
      BY <1>1, <2>0, <2>4
    <3>1. next.lag = lag /\ next.cmnd = cmnd[lag]
      BY <1>1, <2>0, <2>4
    <3>2. r.lag = lag - 1
      BY <1>6, <2>4 DEF Found
    <3>3. Less(cmnd[lag], level)
      BY <1>2, <2>1, <2>4, LessOrder
    <3>4. WayDown(cmnd, minLag, lag, level)
      <4>1. PICK first \in minLag .. r.lag :
              /\ NoDip(cmnd, minLag, first - 1, level) /\ Less(cmnd[first], level)
              /\ \A l \in first .. r.lag - 1 : Less(cmnd[l + 1], cmnd[l])
        BY <2>1 DEF WayDown
      <4>2. /\ first \in minLag .. lag /\ r.lag + 1 = lag
            /\ first .. lag - 1 = (first .. r.lag - 1) \cup {r.lag}
        BY <1>2, <3>2
      <4> QED BY <2>1, <2>4, <4>1, <4>2 DEF WayDown
    <3>5. lag \in minLag .. lag
      BY <1>2
    <3>6. /\ next.lag \in minLag .. lag /\ next.cmnd = cmnd[next.lag]
          /\ Less(cmnd[next.lag], level) /\ WayDown(cmnd, minLag, next.lag, level)
      BY ONLY <3>1, <3>3, <3>4, <3>5
    <3> QED BY <2>2, <3>0, <3>1, <3>6, Zenon DEF Found
  <2>5. CASE ~r.stopped /\ ~lower
    <3>0. next.stopped
      BY <1>1, <2>0, <2>5, Zenon
    <3>1. next.lag = r.lag /\ next.cmnd = r.cmnd
      <4>1. ~taken
        BY <2>0, <2>5
      <4> QED BY <1>1, <4>1
    <3>2. r.lag = lag - 1
      BY <1>6, <2>5 DEF Found
    <3>3. r.lag \in minLag .. lag /\ r.lag < lag /\ r.lag + 1 = lag
      BY <1>2, <2>1, <3>2
    <3>4. /\ next.lag \in minLag .. lag /\ next.cmnd = cmnd[next.lag]
          /\ Less(cmnd[next.lag], level) /\ WayDown(cmnd, minLag, next.lag, level)
          /\ next.lag < lag /\ ~Less(cmnd[next.lag + 1], cmnd[next.lag])
      BY ONLY <2>1, <2>5, <3>1, <3>3
    <3> QED BY <2>2, <3>0, <3>4, Zenon DEF Found
  <2> QED BY <2>3, <2>4, <2>5
<1> QED BY <1>0, <1>4, <1>5, <1>6

\* What the whole loop has found.
LEMMA SearchFinds ==
  ASSUME NEW cmnd, NEW minLag \in Nat \ {0}, NEW maxLag \in Nat, minLag <= maxLag,
         NEW threshold \in Nat, AllFractions(cmnd, minLag, maxLag),
         NEW level, level = <<threshold, 1000>>,
         NEW r, r = Search(cmnd, minLag, maxLag, threshold)
  PROVE  /\ r \in Kept
         /\ Searched(cmnd, minLag, maxLag, level, r)
<1>1. \A l \in minLag .. maxLag : cmnd[l] \in Nat \X Nat
  <2>1. \A q \in Fractions : q \in Nat \X Nat
    BY DEF Fractions
  <2> QED BY <2>1 DEF AllFractions
<1>2. PICK kept :
        /\ KeptAfter(cmnd, minLag, maxLag, threshold, kept)
        /\ Search(cmnd, minLag, maxLag, threshold) = kept[maxLag]
  BY <1>1, TurnByTurn
<1> USE DEF KeptAfter
<1> DEFINE Good(m) == Searched(cmnd, minLag, m, level, kept[m])
           P == {k \in Nat : minLag - 1 + k <= maxLag => Good(minLag - 1 + k)}
<1>3. 0 \in P
  <2>1. minLag - 1 + 0 = minLag - 1 /\ minLag .. minLag - 1 = {} /\ ~(minLag - 1 >= minLag)
        /\ minLag - 1 < minLag
    OBVIOUS
  <2>2. ~NoneTaken.found /\ ~NoneTaken.stopped /\ NoneTaken.cmnd = <<1, 0>>
    BY DEF NoneTaken
  <2>3. Looking(cmnd, minLag, minLag - 1, level, NoneTaken)
    BY <2>1, <2>2, Zenon DEF Looking, NoDip
  <2>4. Good(minLag - 1 + 0)
    BY <1>2, <2>1, <2>3 DEF Searched
  <2> HIDE DEF Good
  <2> QED BY <2>4
<1>4. ASSUME NEW k \in Nat, k \in P PROVE k + 1 \in P
  <2>1. SUFFICES ASSUME minLag - 1 + (k + 1) <= maxLag PROVE Good(minLag - 1 + (k + 1))
    OBVIOUS
  <2> DEFINE lag == minLag - 1 + (k + 1)
  <2>2. /\ lag \in minLag .. maxLag /\ lag - 1 = minLag - 1 + k
        /\ lag - 1 \in minLag - 1 .. maxLag
        /\ minLag - 1 + k <= maxLag
    BY <2>1
  <2>3. Good(lag - 1)
    <3> HIDE DEF Good
    <3> QED BY <1>4, <2>2
  <2>4. kept[lag - 1] \in Kept /\ kept[lag] = Turn(cmnd, threshold, kept[lag - 1], lag)
    BY <1>2, <2>2
  <2> DEFINE before == kept[lag - 1]
             after == kept[lag]
  <2>5. /\ before \in Kept /\ after = Turn(cmnd, threshold, before, lag)
        /\ Searched(cmnd, minLag, lag - 1, level, before)
    BY <2>3, <2>4
  <2>6. Searched(cmnd, minLag, lag, level, after)
    <3>1. minLag \in Nat
      OBVIOUS
    <3> HIDE DEF before, after, lag
    <3> QED BY <2>2, <2>5, <3>1, OneTurn
  <2> QED BY <2>6
<1>5. maxLag - minLag + 1 \in P
  <2>1. maxLag - minLag + 1 \in Nat
    OBVIOUS
  <2> HIDE DEF P
  <2> QED BY <1>3, <1>4, <2>1, Induction
<1>6. Good(maxLag)
  <2>1. minLag - 1 + (maxLag - minLag + 1) = maxLag
    OBVIOUS
  <2> HIDE DEF Good
  <2> QED BY <1>5, <2>1
<1>7. r = kept[maxLag]
  BY <1>2
<1>8. maxLag \in minLag - 1 .. maxLag
  OBVIOUS
<1> QED BY <1>2, <1>6, <1>7, <1>8

\* The smallest of a set of integers.
LEMMA SmallestIs ==
  ASSUME NEW X \in SUBSET Int, NEW x \in X, \A y \in X : x <= y
  PROVE  Min(X) = x
<1>1. Min(X) \in X /\ \A y \in X : Min(X) <= y
  BY DEF Min
<1>2. Min(X) \in Int /\ x \in Int /\ Min(X) <= x /\ x <= Min(X)
  BY <1>1
<1> QED BY <1>2

-----------------------------------------------------------------------------
\* The vertex of the parabola through a lag that is lower than the one before and no
\* higher than the one after lies at most half a lag away from it, so that refining
\* never takes the period to another lag.
THEOREM VertexIsNear ==
  ASSUME NEW cmnd, NEW lag \in Nat,
         NEW l1 \in Nat, NEW l2 \in Nat \ {0}, cmnd[lag - 1] = <<l1, l2>>,
         NEW c1 \in Nat, NEW c2 \in Nat \ {0}, cmnd[lag] = <<c1, c2>>,
         NEW r1 \in Nat, NEW r2 \in Nat \ {0}, cmnd[lag + 1] = <<r1, r2>>,
         Less(cmnd[lag], cmnd[lag - 1]), ~Less(cmnd[lag + 1], cmnd[lag])
  PROVE  LET period == Vertex(cmnd, lag)
         IN /\ period \in Int \X Nat /\ period[2] > 0
            /\ 2 * Abs(period[1] - lag * period[2]) <= period[2]
<1> DEFINE l == l1 * c2 * r2
           c == c1 * l2 * r2
           r == r1 * c2 * l2
           flat == Abs(l - 2 * c + r) <= (l2 * c2 * r2) \div 10000000
           denominator == 2 * (l - 2 * c + r)
           away == IF denominator > 0 THEN l - r ELSE r - l
<1>1. c1 * l2 < l1 * c2 /\ c1 * r2 <= r1 * c2
  <2>1. c1 * l2 < l1 * c2 /\ ~(r1 * c2 < c1 * r2)
    BY DEF Less
  <2>2. r1 * c2 \in Int /\ c1 * r2 \in Int
    BY CommonDenominator
  <2> QED BY <2>1, <2>2
<1>2. c < l
  BY <1>1, CommonDenominator
<1>3. c <= r
  <2>1. (c1 * r2) * l2 <= (r1 * c2) * l2
    BY <1>1, CommonDenominator
  <2>2. (c1 * r2) * l2 = c1 * l2 * r2
    OBVIOUS
  <2> QED BY <2>1, <2>2
<1>4. l \in Int /\ c \in Int /\ r \in Int
  BY CommonDenominator
<1>5. Vertex(cmnd, lag) =
        IF flat \/ away <= -Abs(denominator) \/ away >= Abs(denominator)
        THEN <<lag, 1>> ELSE <<lag * Abs(denominator) + away, Abs(denominator)>>
  BY DEF Vertex
<1> HIDE DEF l, c, r, flat
<1>6. denominator \in Int /\ denominator > 0 /\ away = l - r /\ Abs(denominator) = denominator
  BY <1>2, <1>3, <1>4 DEF Abs
<1>7. 2 * Abs(away) <= denominator
  BY <1>2, <1>3, <1>4, <1>6 DEF Abs
<1> HIDE DEF denominator, away
<1>8. away \in Int
  BY <1>4, <1>6
<1>9. CASE Vertex(cmnd, lag) = <<lag, 1>>
  <2>1. lag - lag * 1 = 0 /\ Abs(0) = 0
    BY DEF Abs
  <2> QED BY <1>9, <2>1
<1>10. CASE Vertex(cmnd, lag) = <<lag * denominator + away, denominator>>
  <2>1. lag * denominator + away - lag * denominator = away
    BY <1>6, <1>8, CommonDenominator
  <2> QED BY <1>6, <1>7, <1>10, <2>1
<1> QED BY <1>5, <1>6, <1>9, <1>10

\* What the loop finds is what YIN asks for: the bottom of the first dip, or, where
\* nothing dips below the level, the first of the lowest.
LEMMA SearchIsYin ==
  ASSUME NEW cmnd, NEW minLag \in Nat \ {0}, NEW maxLag \in Nat, minLag <= maxLag,
         NEW level, NEW r, Searched(cmnd, minLag, maxLag, level, r), r \in Kept
  PROVE  LET dips == {lag \in minLag .. maxLag : Less(cmnd[lag], level)}
         IN /\ r.lag \in minLag .. maxLag /\ r.cmnd = cmnd[r.lag]
            /\ r.found => /\ dips # {}
                          /\ r.lag = Min({lag \in Min(dips) .. maxLag :
                                            lag = maxLag \/ ~Less(cmnd[lag + 1], cmnd[lag])})
            /\ ~r.found => /\ dips = {}
                           /\ r.lag = Min({lag \in minLag .. maxLag :
                                             \A l \in minLag .. maxLag :
                                               ~Less(cmnd[l], cmnd[lag])})
<1> DEFINE dips == {lag \in minLag .. maxLag : Less(cmnd[lag], level)}
           bottoms(first) == {lag \in first .. maxLag :
                                lag = maxLag \/ ~Less(cmnd[lag + 1], cmnd[lag])}
           lowests == {lag \in minLag .. maxLag :
                         \A l \in minLag .. maxLag : ~Less(cmnd[l], cmnd[lag])}
<1>1. CASE Found(cmnd, minLag, maxLag, level, r)
  <2>1. /\ r.found /\ r.lag \in minLag .. maxLag /\ r.cmnd = cmnd[r.lag]
        /\ Less(cmnd[r.lag], level) /\ WayDown(cmnd, minLag, r.lag, level)
        /\ r.lag = maxLag \/ (r.lag < maxLag /\ ~Less(cmnd[r.lag + 1], cmnd[r.lag]))
    BY <1>1 DEF Found
  <2>2. PICK first \in minLag .. r.lag :
          /\ NoDip(cmnd, minLag, first - 1, level) /\ Less(cmnd[first], level)
          /\ \A l \in first .. r.lag - 1 : Less(cmnd[l + 1], cmnd[l])
    BY <2>1 DEF WayDown
  <2>3. first \in dips /\ dips \in SUBSET Int
    BY <2>1, <2>2
  <2>4. ASSUME NEW l \in dips PROVE first <= l
    <3>1. l \in minLag .. maxLag /\ Less(cmnd[l], level)
      OBVIOUS
    <3>2. l \notin minLag .. first - 1
      BY <2>2, <3>1 DEF NoDip
    <3> QED BY <2>1, <2>2, <3>1, <3>2
  <2>5. Min(dips) = first
    <3> HIDE DEF dips
    <3> QED BY <2>3, <2>4, SmallestIs
  <2>6. r.lag \in bottoms(first) /\ bottoms(first) \in SUBSET Int
    BY <2>1, <2>2
  <2>7. ASSUME NEW l \in bottoms(first) PROVE r.lag <= l
    <3>1. l \in first .. maxLag /\ (l = maxLag \/ ~Less(cmnd[l + 1], cmnd[l]))
      OBVIOUS
    <3>2. l \notin first .. r.lag - 1
      BY <2>1, <2>2, <3>1
    <3> QED BY <2>1, <2>2, <3>1, <3>2
  <2>8. Min(bottoms(first)) = r.lag
    <3> HIDE DEF bottoms
    <3> QED BY <2>6, <2>7, SmallestIs
  <2> QED BY <2>1, <2>3, <2>5, <2>8
<1>2. CASE Looking(cmnd, minLag, maxLag, level, r)
  <2>1. /\ ~r.found /\ r.lag \in minLag .. maxLag /\ r.cmnd = cmnd[r.lag]
        /\ NoDip(cmnd, minLag, maxLag, level) /\ LowestSoFar(cmnd, minLag, maxLag, r.lag)
    BY <1>2 DEF Looking
  <2>2. dips = {}
    BY <2>1 DEF NoDip
  <2>3. r.lag \in lowests /\ lowests \in SUBSET Int
    BY <2>1 DEF LowestSoFar
  <2>4. ASSUME NEW l \in lowests PROVE r.lag <= l
    <3>1. l \in minLag .. maxLag /\ ~Less(cmnd[r.lag], cmnd[l])
      BY <2>1
    <3>2. l \notin minLag .. r.lag - 1
      BY <2>1, <3>1 DEF LowestSoFar
    <3> QED BY <2>1, <3>1, <3>2
  <2>5. Min(lowests) = r.lag
    <3> HIDE DEF lowests
    <3> QED BY <2>3, <2>4, SmallestIs
  <2> QED BY <2>1, <2>2, <2>5
<1> QED BY <1>1, <1>2 DEF Searched

\* A period within half a lag of an inner lag is in the range of the lags.
LEMMA RangeOfPeriod ==
  ASSUME NEW p1 \in Int, NEW p2 \in Nat, p2 > 0, NEW lag \in Nat,
         2 * Abs(p1 - lag * p2) <= p2,
         NEW minLag \in Nat, NEW maxLag \in Nat, minLag < lag, lag < maxLag
  PROVE  minLag * p2 <= p1 /\ p1 <= maxLag * p2
<1>1. lag * p2 \in Int
  BY CommonDenominator
<1>2. lag * p2 - p2 <= p1 /\ p1 <= lag * p2 + p2
  BY <1>1 DEF Abs
<1>3. minLag <= lag - 1 /\ lag + 1 <= maxLag /\ lag - 1 \in Int /\ lag + 1 \in Int
  OBVIOUS
<1>4. minLag * p2 <= (lag - 1) * p2 /\ (lag + 1) * p2 <= maxLag * p2
  BY <1>3, CommonDenominator
<1>5. (lag - 1) * p2 = lag * p2 - p2 /\ (lag + 1) * p2 = lag * p2 + p2
  OBVIOUS
<1>6. minLag * p2 \in Int /\ maxLag * p2 \in Int
  BY CommonDenominator
<1> QED BY <1>1, <1>2, <1>4, <1>5, <1>6

\* The refined period is at most half a lag from the lag that was found, and in the
\* range that was searched.
LEMMA RefinedIsNear ==
  ASSUME NEW cmnd, NEW minLag \in Nat \ {0}, NEW maxLag \in Nat, minLag <= maxLag,
         AllFractions(cmnd, minLag, maxLag), NEW level \in Fractions,
         NEW r \in Kept, Searched(cmnd, minLag, maxLag, level, r),
         NEW period, period = Refined(cmnd, r.lag, minLag, maxLag)
  PROVE  /\ period \in Int \X Nat /\ period[2] > 0
         /\ 2 * Abs(period[1] - r.lag * period[2]) <= period[2]
         /\ minLag * period[2] <= period[1] /\ period[1] <= maxLag * period[2]
<1> DEFINE lag == r.lag
<1>1. lag \in minLag .. maxLag
  BY SearchIsYin
<1>2. CASE ~(lag > minLag /\ lag + 1 <= maxLag)
  <2>1. period = <<lag, 1>>
    BY <1>2 DEF Refined
  <2>2. lag - lag * 1 = 0 /\ Abs(0) = 0
    BY <1>1 DEF Abs
  <2> QED BY <1>1, <2>1, <2>2
<1>3. CASE lag > minLag /\ lag + 1 <= maxLag
  <2>1. /\ lag - 1 \in minLag .. maxLag /\ lag + 1 \in minLag .. maxLag
        /\ lag \in Nat /\ lag # maxLag
    BY <1>1, <1>3
  <2>2. /\ cmnd[lag - 1] \in Fractions /\ cmnd[lag] \in Fractions
        /\ cmnd[lag + 1] \in Fractions
    BY <1>1, <2>1 DEF AllFractions
  <2>3. Less(cmnd[lag], cmnd[lag - 1]) /\ ~Less(cmnd[lag + 1], cmnd[lag])
    <3>1. CASE Found(cmnd, minLag, maxLag, level, r)
      <4>1. Less(cmnd[lag], level) /\ WayDown(cmnd, minLag, lag, level)
        BY <3>1 DEF Found
      <4>2. ~Less(cmnd[lag + 1], cmnd[lag])
        BY <2>1, <3>1 DEF Found
      <4>3. PICK first \in minLag .. lag :
              /\ NoDip(cmnd, minLag, first - 1, level)
              /\ \A l \in first .. lag - 1 : Less(cmnd[l + 1], cmnd[l])
        BY <4>1 DEF WayDown
      <4>4. CASE first = lag
        <5>1. ~Less(cmnd[lag - 1], level)
          BY <1>1, <2>1, <1>3, <4>3, <4>4 DEF NoDip
        <5> QED BY <2>2, <4>1, <4>2, <5>1, LessLeft
      <4>5. CASE first # lag
        <5>1. lag - 1 \in first .. lag - 1 /\ (lag - 1) + 1 = lag
          BY <1>1, <4>3, <4>5
        <5> QED BY <4>2, <4>3, <5>1
      <4> QED BY <4>4, <4>5
    <3>2. CASE Looking(cmnd, minLag, maxLag, level, r)
      <4>1. LowestSoFar(cmnd, minLag, maxLag, lag)
        BY <3>2 DEF Looking
      <4>2. lag - 1 \in minLag .. lag - 1
        BY <2>1
      <4> QED BY <2>1, <4>1, <4>2 DEF LowestSoFar
    <3> QED BY <3>1, <3>2 DEF Searched
  <2>4. /\ cmnd[lag - 1] = <<cmnd[lag - 1][1], cmnd[lag - 1][2]>>
        /\ cmnd[lag] = <<cmnd[lag][1], cmnd[lag][2]>>
        /\ cmnd[lag + 1] = <<cmnd[lag + 1][1], cmnd[lag + 1][2]>>
        /\ cmnd[lag - 1][1] \in Nat /\ cmnd[lag - 1][2] \in Nat \ {0}
        /\ cmnd[lag][1] \in Nat /\ cmnd[lag][2] \in Nat \ {0}
        /\ cmnd[lag + 1][1] \in Nat /\ cmnd[lag + 1][2] \in Nat \ {0}
    BY <2>2 DEF Fractions
  <2>5. period = Vertex(cmnd, lag)
    BY <1>3 DEF Refined
  <2>6. /\ period \in Int \X Nat /\ period[2] > 0
        /\ 2 * Abs(period[1] - lag * period[2]) <= period[2]
    <3> HIDE DEF lag
    <3> QED BY <2>1, <2>3, <2>4, <2>5, VertexIsNear
  <2>7. minLag * period[2] <= period[1] /\ period[1] <= maxLag * period[2]
    <3>1. period[1] \in Int /\ period[2] \in Nat /\ minLag < lag /\ lag < maxLag
      BY <1>1, <1>3, <2>6
    <3> HIDE DEF lag
    <3> QED BY <2>1, <2>6, <3>1, RangeOfPeriod
  <2> QED BY <2>6, <2>7
<1> QED BY <1>2, <1>3

-----------------------------------------------------------------------------
\* Max and Min of two integers.
LEMMA LargerOfTwo ==
  ASSUME NEW a \in Int, NEW b \in Int
  PROVE  /\ Max({a, b}) \in Int /\ Max({a, b}) >= a /\ Max({a, b}) >= b
         /\ Min({a, b}) \in Int /\ Min({a, b}) <= a /\ Min({a, b}) <= b
<1>1. \E x \in {a, b} : \A y \in {a, b} : x >= y
  <2>1. CASE a >= b
    BY <2>1
  <2>2. CASE ~(a >= b)
    BY <2>2
  <2> QED BY <2>1, <2>2
<1>2. Max({a, b}) \in {a, b} /\ \A y \in {a, b} : Max({a, b}) >= y
  BY <1>1 DEF Max
<1>3. \E x \in {a, b} : \A y \in {a, b} : x <= y
  <2>1. CASE a <= b
    BY <2>1
  <2>2. CASE ~(a <= b)
    BY <2>2
  <2> QED BY <2>1, <2>2
<1>4. Min({a, b}) \in {a, b} /\ \A y \in {a, b} : Min({a, b}) <= y
  BY <1>3 DEF Min
<1> QED BY <1>2, <1>4

\* The lags are positive, and the frame is longer than the longest of them.
LEMMA LagsOfFrame ==
  ASSUME SettingsInv, NEW s \in Seq(Int)
  PROVE  MinLag \in Nat \ {0} /\ MaxLag(s) \in Int /\ MaxLag(s) < Len(s)
<1>1. /\ sampleRate \in Nat /\ settings.minFrequency \in Int /\ settings.minFrequency > 0
      /\ settings.maxFrequency \in Int /\ settings.maxFrequency > 0
  BY DEF SettingsInv, SettingsAreUsable, AnySettings
<1>2. PICK least \in Int : least = sampleRate \div settings.maxFrequency
  BY <1>1
<1>3. PICK most \in Int : most = sampleRate \div settings.minFrequency
  BY <1>1
<1>4. PICK fit \in Int : fit = Len(s) - 2
  OBVIOUS
<1>5. MinLag = Max({2, least}) /\ MaxLag(s) = Min({most, fit}) /\ 2 \in Int
  BY <1>2, <1>3, <1>4 DEF MinLag, MaxLag
<1>6. Max({2, least}) \in Int /\ Max({2, least}) >= 2
  BY <1>5, LargerOfTwo
<1>7. Min({most, fit}) \in Int /\ Min({most, fit}) <= fit
  BY LargerOfTwo
<1> QED BY <1>4, <1>5, <1>6, <1>7

\* Below the threshold is below one.
LEMMA BelowOne ==
  ASSUME NEW threshold \in Nat, threshold < 1000, NEW c \in Fractions,
         Less(c, <<threshold, 1000>>)
  PROVE  Less(c, <<1, 1>>)
<1>1. <<threshold, 1000>> \in Fractions /\ <<1, 1>> \in Fractions
  BY DEF Fractions
<1>2. Less(<<threshold, 1000>>, <<1, 1>>)
  BY DEF Less
<1> QED BY <1>1, <1>2, LessOrder

\* From periods to frequencies.
LEMMA Times ==
  ASSUME NEW rate \in Nat, rate > 0, NEW p1 \in Int, NEW p2 \in Nat, NEW lag \in Nat,
         NEW minLag \in Nat, NEW maxLag \in Nat,
         2 * Abs(p1 - lag * p2) <= p2, minLag * p2 <= p1, p1 <= maxLag * p2
  PROVE  /\ 2 * Abs(rate * p1 - lag * (rate * p2)) <= rate * p2
         /\ (rate * p2) * maxLag >= rate * p1 /\ (rate * p2) * minLag <= rate * p1
<1>1. lag * p2 \in Int /\ minLag * p2 \in Int /\ maxLag * p2 \in Int
  BY CommonDenominator
<1>2. /\ (minLag * p2) * rate <= p1 * rate /\ p1 * rate <= (maxLag * p2) * rate
  BY <1>1, CommonDenominator
<1>3. /\ (minLag * p2) * rate = (rate * p2) * minLag
      /\ (maxLag * p2) * rate = (rate * p2) * maxLag
      /\ p1 * rate = rate * p1
  OBVIOUS
<1> DEFINE d == p1 - lag * p2
<1>4. d \in Int /\ 2 * d <= p2 /\ -2 * d <= p2
  BY <1>1 DEF Abs
<1>5. rate * p1 - lag * (rate * p2) = d * rate
  OBVIOUS
<1> HIDE DEF d
<1>6. 2 * d \in Int /\ -2 * d \in Int
  BY <1>4
<1>7. (2 * d) * rate <= p2 * rate /\ (-2 * d) * rate <= p2 * rate
  BY <1>4, <1>6, CommonDenominator
<1>8. /\ (2 * d) * rate = 2 * (d * rate) /\ (-2 * d) * rate = -2 * (d * rate)
      /\ p2 * rate = rate * p2
      /\ d * rate \in Int
  BY <1>4, CommonDenominator
<1>9. 2 * Abs(d * rate) <= rate * p2
  BY <1>7, <1>8 DEF Abs
<1> QED BY <1>2, <1>3, <1>5, <1>9

\* What estimate returns, whatever the frame, in any state the setters leave.
LEMMA AnswerIsYin ==
  ASSUME SettingsInv, NEW s \in Seq(Int)
  PROVE  YinOf(s, Answer(s)) /\ InRange(s, Answer(s))
<1> DEFINE e == Answer(s)
           cmnd == Cmnd(s, MaxLag(s))
           level == <<settings.threshold, 1000>>
           r == Search(cmnd, MinLag, MaxLag(s), settings.threshold)
           period == Refined(cmnd, r.lag, MinLag, MaxLag(s))
           confidence == Confidence(r.cmnd)
           quiet == [NoEstimate EXCEPT !.meanSquare = <<Energy(s), Len(s)>>]
<1>0. MinLag \in Nat \ {0} /\ MaxLag(s) \in Int /\ MaxLag(s) < Len(s) /\ Len(s) \in Nat
  BY LagsOfFrame
<1>1. CASE ~Loud(s)
  <2>1. e = NoEstimate \/ e = quiet
    <3>1. CASE Len(s) < 4
      BY <3>1 DEF Answer
    <3>2. CASE Len(s) >= 4 /\ TooQuiet(s)
      BY <1>0, <3>2 DEF Answer
    <3>3. CASE Len(s) >= 4 /\ ~TooQuiet(s)
      <4>1. MinLag >= MaxLag(s) /\ ~(Len(s) < 4)
        BY <1>0, <1>1, <3>3 DEF Loud
      <4> QED BY <3>3, <4>1, Zenon DEF Answer
    <3> QED BY <1>0, <3>1, <3>2, <3>3
  <2>2. e.voiced = FALSE /\ e.frequency = NoFrequency
    <3> HIDE DEF e
    <3> QED BY <2>1 DEF NoEstimate
  <2>3. YinOf(s, e) /\ InRange(s, e)
    <3> HIDE DEF e
    <3> QED BY <1>1, <2>2 DEF YinOf, InRange
  <2> QED BY <2>3
<1>2. CASE Loud(s)
  <2>1. /\ MinLag \in Nat \ {0} /\ MaxLag(s) \in Nat /\ MinLag \in Nat
        /\ MinLag < MaxLag(s) /\ MaxLag(s) < Len(s) /\ MinLag <= MaxLag(s)
    BY <1>0, <1>2 DEF Loud
  <2>2. AllFractions(cmnd, MinLag, MaxLag(s))
    BY <2>1, CmndIsFraction DEF AllFractions
  <2>3. settings.threshold \in Nat /\ settings.threshold < 1000 /\ level \in Fractions
    BY DEF SettingsInv, SettingsAreUsable, AnySettings, Fractions
  <2>4. r \in Kept /\ Searched(cmnd, MinLag, MaxLag(s), level, r)
    <3> HIDE DEF cmnd
    <3> QED BY <2>1, <2>2, <2>3, SearchFinds
  <2>5. /\ r.lag \in MinLag .. MaxLag(s) /\ r.cmnd = cmnd[r.lag] /\ r.cmnd \in Fractions
        /\ r.found <=> Dips(s, cmnd) # {}
        /\ r.lag = IF Dips(s, cmnd) # {} THEN Bottom(s, cmnd) ELSE Lowest(s, cmnd)
    <3> HIDE DEF cmnd, r
    <3>1. /\ r.lag \in MinLag .. MaxLag(s) /\ r.cmnd = cmnd[r.lag]
          /\ r.found => Dips(s, cmnd) # {} /\ r.lag = Bottom(s, cmnd)
          /\ ~r.found => Dips(s, cmnd) = {} /\ r.lag = Lowest(s, cmnd)
      <4> DEFINE minLag == MinLag
                 maxLag == MaxLag(s)
                 dips == {lag \in minLag .. maxLag : Less(cmnd[lag], level)}
      <4> HIDE DEF level, minLag, maxLag
      <4>1. /\ r.lag \in minLag .. maxLag /\ r.cmnd = cmnd[r.lag]
            /\ r.found => /\ dips # {}
                          /\ r.lag = Min({lag \in Min(dips) .. maxLag :
                                            lag = maxLag \/ ~Less(cmnd[lag + 1], cmnd[lag])})
            /\ ~r.found => /\ dips = {}
                           /\ r.lag = Min({lag \in minLag .. maxLag :
                                             \A l \in minLag .. maxLag :
                                               ~Less(cmnd[l], cmnd[lag])})
        <5>1. /\ minLag \in Nat \ {0} /\ maxLag \in Nat /\ minLag <= maxLag
              /\ r \in Kept /\ Searched(cmnd, minLag, maxLag, level, r)
          BY <2>1, <2>4 DEF minLag, maxLag
        <5> QED BY ONLY <5>1, SearchIsYin
      <4> QED BY ONLY <4>1 DEF minLag, maxLag, level, Dips, Bottom, Lowest, Lags
    <3>2. cmnd[r.lag] \in Fractions
      BY <2>2, <3>1 DEF AllFractions
    <3> QED BY <3>1, <3>2
  <2>6. r.found => Less(r.cmnd, <<1, 1>>)
    <3> HIDE DEF cmnd, r
    <3>1. r.found => Less(r.cmnd, level)
      BY <2>4 DEF Searched, Found, Looking
    <3> QED BY <2>3, <2>5, <3>1, BelowOne
  <2>7. /\ period \in Int \X Nat /\ period[2] > 0
        /\ 2 * Abs(period[1] - r.lag * period[2]) <= period[2]
        /\ MinLag * period[2] <= period[1] /\ period[1] <= MaxLag(s) * period[2]
    <3> HIDE DEF cmnd, r, level
    <3> QED BY <2>1, <2>2, <2>3, <2>4, RefinedIsNear
  <2>8. e = IF ~Less(r.cmnd, <<1, 1>>) THEN quiet
            ELSE [quiet EXCEPT !.frequency = <<sampleRate * period[2], period[1]>>,
                               !.confidence = confidence,
                               !.voiced = r.found /\ confidence[1] > 0]
    <3>1. ~(MinLag >= MaxLag(s) \/ r.lag = 0)
      <4> HIDE DEF cmnd, r
      <4> QED BY <2>1, <2>5
    <3>2. ~(Len(s) < 4) /\ ~TooQuiet(s)
      BY <1>0, <1>2 DEF Loud
    <3> QED BY <3>1, <3>2 DEF Answer
  <2> HIDE DEF e, cmnd, r, period, confidence
  <2>9. CASE ~Less(r.cmnd, <<1, 1>>)
    <3>1. e.voiced = FALSE /\ e.frequency = NoFrequency
      BY <2>8, <2>9 DEF NoEstimate
    <3>2. Dips(s, cmnd) = {} /\ ~Less(cmnd[Lowest(s, cmnd)], <<1, 1>>)
      BY <2>5, <2>6, <2>9
    <3> QED BY <3>1, <3>2 DEF YinOf, InRange, cmnd, e
  <2>10. CASE Less(r.cmnd, <<1, 1>>)
    <3>1. /\ e.frequency = <<sampleRate * period[2], period[1]>>
          /\ e.confidence = confidence
          /\ e.voiced = (r.found /\ confidence[1] > 0)
      BY <2>8, <2>10 DEF NoEstimate
    <3>2. confidence = <<r.cmnd[2] - r.cmnd[1], r.cmnd[2]>> /\ confidence[1] > 0
      BY <2>5, <2>10 DEF confidence, Confidence, Less, Fractions
    <3>3. e.voiced = (Dips(s, cmnd) # {})
      BY <2>5, <3>1, <3>2
    <3>4. /\ sampleRate \in Nat /\ sampleRate > 0
          /\ period[1] \in Int /\ period[2] \in Nat /\ r.lag \in Nat
      <4>1. sampleRate \in Nat /\ sampleRate > 0
        BY DEF SettingsInv
      <4>2. period[1] \in Int /\ period[2] \in Nat
        BY ONLY <2>7
      <4>3. r.lag \in Nat
        BY ONLY <2>1, <2>5
      <4> QED BY ONLY <4>1, <4>2, <4>3
    <3>5. /\ 2 * Abs(sampleRate * period[1] - r.lag * (sampleRate * period[2]))
               <= sampleRate * period[2]
          /\ (sampleRate * period[2]) * MaxLag(s) >= sampleRate * period[1]
          /\ (sampleRate * period[2]) * MinLag <= sampleRate * period[1]
      BY ONLY <2>1, <2>7, <3>4, Times
    <3>6. InRange(s, e)
      BY <3>1, <3>5 DEF InRange
    <3>7. YinOf(s, e)
      BY <1>2, <2>5, <2>10, <3>1, <3>2, <3>3, <3>5 DEF YinOf, cmnd
    <3> QED BY <3>6, <3>7 DEF e
  <2> QED BY <2>9, <2>10
<1> QED BY <1>1, <1>2

\* Once asked, the settings have not changed and the answer stands.
EstimateInv == asked => frame \in Seq(Int) /\ estimate = Answer(frame)

\* The answer is kept with the settings it was computed from.
THEOREM EstimateStands == Spec => []EstimateInv
<1>1. Init => EstimateInv
  BY DEF Init, EstimateInv
<1>2. EstimateInv /\ [Next]_vars => EstimateInv'
  <2> SUFFICES ASSUME EstimateInv, [Next]_vars PROVE EstimateInv'
    OBVIOUS
  <2>1. ASSUME NEW rate \in SampleRates, SetSampleRate(rate) PROVE EstimateInv'
    BY <2>1 DEF SetSampleRate, EstimateInv
  <2>2. ASSUME NEW s \in SettingsGiven, SetSettings(s) PROVE EstimateInv'
    BY <2>2 DEF SetSettings, EstimateInv
  <2>3. ASSUME NEW s \in Frames, Estimate(s) PROVE EstimateInv'
    <3>1. /\ UNCHANGED <<sampleRate, settings>>
          /\ frame' = s /\ estimate' = Answer(s) /\ s \in Seq(Int)
      BY <2>3, GivenAssumption DEF Estimate, GivenAssumption
    <3>2. Answer(frame)' = Answer(s)
      BY <3>1 DEF Answer, TooQuiet, MinLag, MaxLag
    <3> QED BY <3>1, <3>2 DEF EstimateInv
  <2>4. CASE UNCHANGED vars
    <3>1. Answer(frame)' = Answer(frame)
      BY <2>4 DEF Answer, TooQuiet, MinLag, MaxLag, vars
    <3> QED BY <2>4, <3>1 DEF EstimateInv, vars
  <2> QED BY <2>1, <2>2, <2>3, <2>4 DEF Next
<1> QED BY <1>1, <1>2, PTL DEF Spec

\* For every rate, all settings and every frame of integers: voiced exactly if the
\* difference dips below the threshold, the period within half a lag of the bottom of
\* the first dip, or of the lowest lag, and no frequency where there is none.
THEOREM EstimateIsYin == Spec => []IsYin
<1>1. SettingsInv /\ EstimateInv => IsYin
  BY AnswerIsYin DEF EstimateInv, IsYin
<1> QED BY <1>1, EstimateStands, SettingsUsable, PTL

\* And every frequency reported belongs to a period among the lags searched.
THEOREM EstimateInRange == Spec => []FrequencyInRange
<1>1. SettingsInv /\ EstimateInv => FrequencyInRange
  BY AnswerIsYin DEF EstimateInv, FrequencyInRange
<1> QED BY <1>1, EstimateStands, SettingsUsable, PTL
=============================================================================
