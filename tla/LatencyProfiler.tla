-------------------------- MODULE LatencyProfiler --------------------------
(***************************************************************************)
(* src/profiler/LatencyProfiler.{h,cpp}: durations recorded by stage, with *)
(* statistics that every record brings up to date.  A profiler belongs to  *)
(* one thread; its stages are a value, and record a function of it.        *)
(*                                                                         *)
(* Durations are integers, averages fractions <<total, count>>, and the    *)
(* percentile is in hundredths of a unit.                                  *)
(***************************************************************************)
EXTENDS Integers, Sequences, Functions

CONSTANT MovingWindowSize   \* the argument of the constructor

ASSUME MovingWindowSizeAssumption == MovingWindowSize \in Nat

Window(n) ==
  LET size == IF MovingWindowSize = 0 THEN 1 ELSE MovingWindowSize
  IN IF size < n THEN size ELSE n

NoStages == << >>
NoStats == [last |-> 0, average |-> <<0, 1>>, movingAverage |-> <<0, 1>>, p95 |-> 0,
            min |-> 0, max |-> 0, samples |-> 0]
NoEntry == [stats |-> NoStats, samples |-> <<>>]

\* stats: a stage never recorded has none.
Entry(stages, stage) == IF stage \in DOMAIN stages THEN stages[stage] ELSE NoEntry

SumOf(samples, first, last) ==
  LET total[i \in first - 1 .. last] == IF i < first THEN 0 ELSE total[i - 1] + samples[i]
  IN total[last]

\* std::sort of a copy.
Sorted(samples) ==
  LET places == 1 .. Len(samples)
      order == CHOOSE p \in Bijection(places, places) :
                 \A i, j \in places : i < j => samples[p[i]] <= samples[p[j]]
  IN [i \in places |-> samples[order[i]]]

\* Mutant: positions counted from one.
PositionFromOne(percent, count) == percent * count
\* Where among count sorted samples, in hundredths of a place.
Position(percent, count) == percent * (count - 1)

\* percentile: linear between the two samples around the position, in hundredths.
Percentile(samples, percent) ==
  LET sorted == Sorted(samples)
      position == Position(percent, Len(samples))
      lower == position \div 100
      upper == IF lower + 1 < Len(samples) THEN lower + 1 ELSE Len(samples) - 1
      fraction == position % 100
  IN sorted[lower + 1] * (100 - fraction) + sorted[upper + 1] * fraction

\* refreshDerivedStats, of at least one sample.
RefreshDerivedStats(stats, samples) ==
  LET count == Len(samples)
      window == Window(count)
  IN [stats EXCEPT
        !.movingAverage = <<SumOf(samples, count - window + 1, count), window>>,
        !.p95 = Percentile(samples, 95)]

\* record
Record(stages, stage, duration) ==
  LET ms == IF duration > 0 THEN duration ELSE 0
      stats == Entry(stages, stage).stats
      samples == Append(Entry(stages, stage).samples, ms)
      count == stats.samples + 1
      previousTotal == (stats.average[1] * stats.samples) \div stats.average[2]
      isFirst == count = 1
      newStats == [stats EXCEPT
                     !.last = ms, !.average = <<previousTotal + ms, count>>,
                     !.min = IF isFirst \/ ms < @ THEN ms ELSE @,
                     !.max = IF isFirst \/ ms > @ THEN ms ELSE @,
                     !.samples = count]
      entry == [stats |-> RefreshDerivedStats(newStats, samples), samples |-> samples]
  IN [s \in DOMAIN stages \cup {stage} |-> IF s = stage THEN entry ELSE stages[s]]
=============================================================================
