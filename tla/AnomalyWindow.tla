----------------------------- MODULE AnomalyWindow -----------------------------
(***************************************************************************)
(* app/services/anomaly_service.py without its Redis connection: the       *)
(* sorted set of a device's latest observations of one metric, and when a  *)
(* value stands out of it.                                                 *)
(*                                                                         *)
(* An observation is a member of the sorted set: a value with its time,    *)
(* so that a measurement that is sent twice is in the window once.  Values *)
(* are integers; the z-score's square root and divisions are multiplied    *)
(* out, so that the comparison is exact.  (The code rounds to doubles, and *)
(* takes a deviation below 1e-6 for none.)                                 *)
(***************************************************************************)
EXTENDS Integers, FiniteSetsExt

CONSTANTS
  WindowSize,  \* WINDOW_SIZE = 100
  MinSamples,  \* the 10 samples of a stable baseline
  Threshold    \* Z_SCORE_THRESHOLD = 3.0

(* Of n samples none is further than (n - 1) / sqrt(n) deviations from the *)
(* mean: 2.85 for 10 samples.                                              *)
ASSUME SizesFit == MinSamples \in Nat \ {0, 1} /\ WindowSize \in Nat /\ MinSamples <= WindowSize
ASSUME ThresholdBeyondMinimum ==
  /\ Threshold \in Nat \ {0}
  /\ (MinSamples - 1) * (MinSamples - 1) <= Threshold * Threshold * MinSamples

\* The n observations that were made last: ZREMRANGEBYRANK 0 -(n + 1) leaves them.
Latest(S, n) == {x \in S : Cardinality({y \in S : y.at > x.at}) < n}

\* Mutant: -WINDOW_SIZE instead of -(WINDOW_SIZE + 1).
Record_OneLess(window, x) == Latest(window \cup {x}, WindowSize - 1)

\* ZADD and the trimming behind it, one transaction.
Record(window, x) == Latest(window \cup {x}, WindowSize)

Total(S)   == MapThenSumSet(LAMBDA x : x.value, S)
Squares(S) == MapThenSumSet(LAMBDA x : x.value * x.value, S)

\* Mutant: the mean, too, is divided by n - 1.
Outlier_WrongMean(value, window) ==
  LET n == Cardinality(window)
      spread == n * Squares(window) - Total(window) * Total(window)
      distance == (n - 1) * value - Total(window)
  IN  /\ n >= MinSamples
      /\ spread > 0
      /\ distance * distance * n > Threshold * Threshold * (n - 1) * spread

(* |value - mean| > Threshold * std, where std is the sample deviation of  *)
(* the window: for n samples with sum s and sum of squares q               *)
(*     mean = s / n     std ^ 2 = (n * q - s * s) / (n * (n - 1)).         *)
Outlier(value, window) ==
  LET n == Cardinality(window)
      spread == n * Squares(window) - Total(window) * Total(window)
      distance == n * value - Total(window)
  IN  /\ n >= MinSamples
      /\ spread > 0
      /\ distance * distance * (n - 1) > Threshold * Threshold * n * spread
=============================================================================
