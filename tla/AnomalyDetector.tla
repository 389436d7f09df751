--------------------------- MODULE AnomalyDetector ---------------------------
(***************************************************************************)
(* internal/anomaly: the baseline of one metric, and the judgement of a    *)
(* new value.  The baseline is the last MaxValues values; its mean and its *)
(* standard deviation are functions of them.  Count is compared with       *)
(* MinDataPoints only and stops there.  The arithmetic is exact: all       *)
(* comparisons are multiplied out, with the sensitivity in tenths.         *)
(***************************************************************************)
EXTENDS Integers, Sequences, FiniteSetsExt

CONSTANTS MaxValues, MinDataPoints, Sensitivity

ASSUME DetectorAssumption ==
  /\ MaxValues \in Nat \ {0} /\ MinDataPoints \in Nat \ {0} /\ Sensitivity \in Nat \ {0}

NoBaseline == [values |-> <<>>, count |-> 0]

Total(values) == MapThenSumSet(LAMBDA i : values[i], DOMAIN values)
Squares(values) == MapThenSumSet(LAMBDA i : values[i] * values[i], DOMAIN values)

(* n * (n - 1) times the variance, and n times the distance of the value   *)
(* from the mean; a single value has no deviation.                         *)
Variance(values) == Len(values) * Squares(values) - Total(values) * Total(values)
Distance(values, v) == Len(values) * v - Total(values)

(* |v - mean| / stddev compared with a multiple m/10 of the sensitivity.   *)
Deviates(values, v, m) ==
  LET n == Len(values) IN
  100 * 100 * (n - 1) * Distance(values, v) * Distance(values, v)
    >= m * m * Sensitivity * Sensitivity * n * Variance(values)
Exceeds(values, v, m) ==
  LET n == Len(values) IN
  100 * 100 * (n - 1) * Distance(values, v) * Distance(values, v)
    > m * m * Sensitivity * Sensitivity * n * Variance(values)

(* The first half of Observe, called a number of times with one value: it  *)
(* becomes part of the baseline, of which the last MaxValues are kept.     *)
Extend(b, v, times) ==
  LET longer == b.values \o [i \in 1 .. times |-> v]
      over == Len(longer) - MaxValues
  IN [values |-> IF over > 0 THEN SubSeq(longer, over + 1, Len(longer)) ELSE longer,
      count |-> IF b.count + times < MinDataPoints THEN b.count + times ELSE MinDataPoints]

(* Mutant: a deviation of zero is divided by; 0/0 is less than nothing.    *)
JudgeDivides(b, v, learning) ==
  IF \/ learning \/ b.count < MinDataPoints
     \/ ~Deviates(b.values, v, 10)
  THEN "none"
  ELSE IF Exceeds(b.values, v, 20) THEN "critical"
  ELSE IF Exceeds(b.values, v, 15) THEN "high" ELSE "medium"

(* The second half: the severity of the anomaly, if any.                   *)
Judge(b, v, learning) ==
  IF \/ learning \/ b.count < MinDataPoints
     \/ Variance(b.values) = 0
     \/ ~Deviates(b.values, v, 10)
  THEN "none"
  ELSE IF Exceeds(b.values, v, 20) THEN "critical"
  ELSE IF Exceeds(b.values, v, 15) THEN "high" ELSE "medium"
=============================================================================
