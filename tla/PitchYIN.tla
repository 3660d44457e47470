------------------------------ MODULE PitchYIN ------------------------------
(***************************************************************************)
(* src/dsp/PitchYIN.{h,cpp}: the YIN estimate of the fundamental frequency *)
(* of one frame.  An estimator is set up by any number of calls of the two *)
(* setters and then asked once.                                            *)
(*                                                                         *)
(* Numbers are exact: samples, rates and frequencies are integers, the two *)
(* thresholds are given in thousandths, and what the code divides is kept  *)
(* as a fraction <<numerator, denominator>>.  The rounding of floats is    *)
(* not modelled.                                                           *)
(***************************************************************************)
EXTENDS Integers, Sequences, FiniteSetsExt, SequencesExt, Functions

CONSTANTS
  SampleRates,   \* arguments of setSampleRate
  SettingsGiven, \* arguments of setSettings
  Frames         \* arguments of estimate: sequences of integers

\* The setters take any number.
ASSUME GivenAssumption ==
  /\ SampleRates \subseteq Int
  /\ SettingsGiven \subseteq [minFrequency : Int, maxFrequency : Int, threshold : Int,
                             rmsThreshold : Int]
  /\ Frames \subseteq Seq(Int)

VARIABLES
  sampleRate, settings,
  asked,         \* estimate has been called
  frame,         \* its argument
  estimate       \* what it returned

vars == <<sampleRate, settings, asked, frame, estimate>>

Less(a, b) == a[1] * b[2] < b[1] * a[2]
Abs(n) == IF n < 0 THEN -n ELSE n
NoFrequency == <<0, 1>>
NoEstimate == [frequency |-> NoFrequency, confidence |-> <<0, 1>>, meanSquare |-> <<0, 1>>,
               voiced |-> FALSE]

Init ==
  /\ sampleRate = 48000
  /\ settings = [minFrequency |-> 50, maxFrequency |-> 1000, threshold |-> 150,
                 rmsThreshold |-> 5]
  /\ asked = FALSE /\ frame = <<>> /\ estimate = NoEstimate

-----------------------------------------------------------------------------
\* difference: the squared difference of the frame from itself, lag samples on.
Difference(s, lag) ==
  LET Delta(i) == s[i] - s[i + lag]
  IN SumFunction([i \in 1 .. Len(s) - lag |-> Delta(i) * Delta(i)])

\* cumulativeMeanNormalizedDifference, by lag, and the same in the loop of estimate.
Cmnd(s, maxLag) ==
  LET difference == [lag \in 1 .. maxLag |-> Difference(s, lag)]
      cumulative == [lag \in 1 .. maxLag |-> SumFunction([l \in 1 .. lag |-> difference[l]])]
  IN [lag \in 1 .. maxLag |-> IF cumulative[lag] > 0
                              THEN <<difference[lag] * lag, cumulative[lag]>>
                              ELSE <<1, 1>>]

Energy(s) == SumFunction([i \in DOMAIN s |-> s[i] * s[i]])
\* rms < rmsThreshold
TooQuiet(s) ==
  Energy(s) * 1000000 < settings.rmsThreshold * settings.rmsThreshold * Len(s)

MinLag == Max({2, sampleRate \div settings.maxFrequency})
MaxLag(s) == Min({sampleRate \div settings.minFrequency, Len(s) - 2})

\* Mutant: no break.
StopsNever(s, lower) == FALSE
\* The break: on the way down the next lag is no lower.
Stops(s, lower) == s.stopped \/ (s.found /\ ~lower)

\* One turn of the loop over the lags: the best of all until one is below the
\* threshold, from there on downhill.
Turn(cmnd, threshold, s, lag) ==
  LET lower == Less(cmnd[lag], s.cmnd)
      dips == ~s.found /\ Less(cmnd[lag], <<threshold, 1000>>)
      taken == ~s.stopped /\ (lower \/ dips)
  IN [lag |-> IF taken THEN lag ELSE s.lag,
      cmnd |-> IF taken THEN cmnd[lag] ELSE s.cmnd,
      found |-> s.found \/ dips,
      stopped |-> Stops(s, lower)]

NoneTaken == [lag |-> 0, cmnd |-> <<1, 0>>, found |-> FALSE, stopped |-> FALSE]
Search(cmnd, minLag, maxLag, threshold) ==
  FoldLeft(LAMBDA s, lag : Turn(cmnd, threshold, s, lag), NoneTaken,
           [k \in 1 .. maxLag - minLag + 1 |-> minLag - 1 + k])

\* The vertex of the parabola through three neighbours, if that bends by more than
\* 0.0000001 and has its vertex less than a lag away.
Vertex(cmnd, lag) ==
  LET l == cmnd[lag - 1][1] * cmnd[lag][2] * cmnd[lag + 1][2]
      c == cmnd[lag][1] * cmnd[lag - 1][2] * cmnd[lag + 1][2]
      r == cmnd[lag + 1][1] * cmnd[lag][2] * cmnd[lag - 1][2]
      scale == cmnd[lag - 1][2] * cmnd[lag][2] * cmnd[lag + 1][2]
      flat == Abs(l - 2 * c + r) <= scale \div 10000000
      denominator == 2 * (l - 2 * c + r)
      away == IF denominator > 0 THEN l - r ELSE r - l   \* times the sign of denominator
  IN IF flat \/ away <= -Abs(denominator) \/ away >= Abs(denominator)
     THEN <<lag, 1>>
     ELSE <<lag * Abs(denominator) + away, Abs(denominator)>>

\* Mutant: the shortest lag is refined, too.
RefinedEvenShortest(cmnd, lag, minLag, maxLag) ==
  IF lag + 1 <= maxLag THEN Vertex(cmnd, lag) ELSE <<lag, 1>>
\* refinedLag.  Both neighbours must be lags that were searched.
Refined(cmnd, lag, minLag, maxLag) ==
  IF lag > minLag /\ lag + 1 <= maxLag THEN Vertex(cmnd, lag) ELSE <<lag, 1>>

\* clampUnit(1 - c)
Confidence(c) == IF c[1] >= c[2] THEN <<0, 1>> ELSE <<c[2] - c[1], c[2]>>

Answer(s) ==
  LET quiet == [NoEstimate EXCEPT !.meanSquare = <<Energy(s), Len(s)>>]
      cmnd == Cmnd(s, MaxLag(s))
      selected == Search(cmnd, MinLag, MaxLag(s), settings.threshold)
      period == Refined(cmnd, selected.lag, MinLag, MaxLag(s))
      confidence == Confidence(selected.cmnd)
  IN CASE Len(s) < 4 -> NoEstimate
       [] Len(s) >= 4 /\ TooQuiet(s) -> quiet
       [] OTHER ->
            IF MinLag >= MaxLag(s) \/ selected.lag = 0 \/ ~Less(selected.cmnd, <<1, 1>>)
            THEN quiet
            ELSE [quiet EXCEPT !.frequency = <<sampleRate * period[2], period[1]>>,
                               !.confidence = confidence,
                               !.voiced = selected.found /\ confidence[1] > 0]

-----------------------------------------------------------------------------
\* setSampleRate, and the constructors.
SetSampleRate(rate) ==
  /\ ~asked
  /\ sampleRate' = IF rate > 0 THEN rate ELSE sampleRate
  /\ UNCHANGED <<settings, asked, frame, estimate>>

SetSettings(s) ==
  LET minFrequency == IF s.minFrequency > 0 THEN s.minFrequency ELSE 50
  IN /\ ~asked
     /\ settings' =
          [minFrequency |-> minFrequency,
           maxFrequency |-> IF s.maxFrequency > minFrequency THEN s.maxFrequency
                            ELSE 2 * minFrequency,
           threshold |-> IF s.threshold \in 1 .. 999 THEN s.threshold ELSE 150,
           rmsThreshold |-> IF s.rmsThreshold > 0 THEN s.rmsThreshold ELSE 0]
     /\ UNCHANGED <<sampleRate, asked, frame, estimate>>

Estimate(s) ==
  /\ ~asked
  /\ asked' = TRUE
  /\ frame' = s
  /\ estimate' = Answer(s)
  /\ UNCHANGED <<sampleRate, settings>>

Next ==
  \/ \E rate \in SampleRates : SetSampleRate(rate)
  \/ \E s \in SettingsGiven : SetSettings(s)
  \/ \E s \in Frames : Estimate(s)

Spec == Init /\ [][Next]_vars

-----------------------------------------------------------------------------
\* Properties.

\* Whatever is given to the setters, the rate and the two limits are positive and
\* in order, so that the lags divide by no zero, and the thresholds are usable.
SettingsAreUsable ==
  /\ sampleRate > 0
  /\ 0 < settings.minFrequency /\ settings.minFrequency < settings.maxFrequency
  /\ 0 < settings.threshold /\ settings.threshold < 1000 /\ settings.rmsThreshold >= 0

Loud(s) == Len(s) >= 4 /\ ~TooQuiet(s) /\ MinLag < MaxLag(s)
Lags(s) == MinLag .. MaxLag(s)
Dips(s, cmnd) == {lag \in Lags(s) : Less(cmnd[lag], <<settings.threshold, 1000>>)}
Bottom(s, cmnd) ==
  Min({lag \in Min(Dips(s, cmnd)) .. MaxLag(s) :
         lag = MaxLag(s) \/ ~Less(cmnd[lag + 1], cmnd[lag])})
Lowest(s, cmnd) ==
  Min({lag \in Lags(s) : \A l \in Lags(s) : ~Less(cmnd[l], cmnd[lag])})

\* e is what YIN is defined to give for the frame s.
YinOf(s, e) ==
  LET cmnd == Cmnd(s, MaxLag(s))
      dips == Loud(s) /\ Dips(s, cmnd) # {}
      lag == IF dips THEN Bottom(s, cmnd) ELSE Lowest(s, cmnd)
      rate == e.frequency[1]
  IN /\ e.voiced = dips
     /\ IF Loud(s) /\ Less(cmnd[lag], <<1, 1>>)
        THEN /\ 2 * Abs(sampleRate * e.frequency[2] - lag * rate) <= rate
             /\ e.confidence = <<cmnd[lag][2] - cmnd[lag][1], cmnd[lag][2]>>
        ELSE e.frequency = NoFrequency

InRange(s, e) ==
  e.frequency # NoFrequency =>
    /\ e.frequency[1] * MaxLag(s) >= sampleRate * e.frequency[2]
    /\ e.frequency[1] * MinLag <= sampleRate * e.frequency[2]

\* What is returned is what YIN is defined to be.  The frame is voiced exactly if the
\* difference dips below the threshold at some lag in range; its period is the
\* bottom of the first dip, to half a lag, however much deeper a later one is.
\* Otherwise it is the lowest of all, the first of equals, if that is below one.
IsYin == asked => YinOf(frame, estimate)

\* A frequency that is reported lies between those of the longest and the shortest
\* lag: refinement takes it out of the range that was searched neither below, at
\* lags the limits exclude, nor above, where the frame has no samples.
FrequencyInRange == asked => InRange(frame, estimate)
=============================================================================
