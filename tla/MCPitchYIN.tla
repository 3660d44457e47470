----------------------------- MODULE MCPitchYIN -----------------------------
(* Rates, settings and frames for PitchYIN.  At a rate of 12 the limits    *)
(* give lags from 2 or 3 to 4 or more, which the length of the frame cuts; *)
(* at 48000, the default, every frame here is too short.                   *)
EXTENDS PitchYIN

Limits(low, high) ==
  [minFrequency |-> low, maxFrequency |-> high, threshold |-> 300, rmsThreshold |-> 300]

MCSettingsGiven ==
  { Limits(2, 6), Limits(3, 4), Limits(3, 2), Limits(0, 20), [Limits(1, 9) EXCEPT !.threshold = 0],
    [Limits(2, 5) EXCEPT !.threshold = 999, !.rmsThreshold = -1] }

MCFrames == UNION { [1 .. n -> -1 .. 1] : n \in {0, 3, 5, 6, 7} }
=============================================================================
