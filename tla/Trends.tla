------------------------------- MODULE Trends -------------------------------
(***************************************************************************)
(* The trend analysis of one register while its history grows by a         *)
(* measurement per run.  Measurements are register words; what the code    *)
(* computes in floating point is exact here, and fractions are kept over   *)
(* their denominators: n times the mean, n * n times the variance, 2 * n   *)
(* times the numerator of the fit and 4 times its denominator.             *)
(***************************************************************************)
EXTENDS Integers, Sequences, FiniteSets, SequencesExt

CONSTANTS
    Measurable,  \* the words measured
    Limits,      \* the values of --limit
    InScope(_)   \* bound: the histories looked at

ASSUME TrendsAssumption == Measurable \subseteq Nat /\ Limits \subseteq Nat

VARIABLE values

TREND_RUN_LENGTH == 6
CONTROL_SIGMA    == 3

Square(x) == x * x
Magnitude(x) == IF x < 0 THEN -x ELSE x
Total(f) == LET sum[n \in 0 .. Len(f)] == IF n = 0 THEN 0 ELSE sum[n-1] + f[n]
            IN  sum[Len(f)]
------------------------------------------------------------------------------
\* statistics.fmean and pstdev.
MeanN(y)     == Total(y)
VarianceN(y) == IF Len(y) > 1 THEN Len(y) * Total([k \in DOMAIN y |-> Square(y[k])]) - Square(MeanN(y)) ELSE 0

\* linear_slope: 2 * Rise / (n * Spread), and zero where it does not fit.
FromMiddle(y, k) == 2 * (k - 1) - (Len(y) - 1)
Rise(y)   == Total([k \in DOMAIN y |-> FromMiddle(y, k) * (Len(y) * y[k] - MeanN(y))])
Spread(y) == Total([k \in DOMAIN y |-> Square(FromMiddle(y, k))])

\* Mutants: a plateau goes on with the run; only the last run counts.
TurnOverPlateau(run, y, k) ==
    LET up   == IF y[k] > y[k-1] THEN run.up + 1 ELSE IF y[k] = y[k-1] THEN run.up ELSE 1
        down == IF y[k] < y[k-1] THEN run.down + 1 ELSE IF y[k] = y[k-1] THEN run.down ELSE 1
    IN  [up |-> up, down |-> down, best |-> Max({run.best, up, down})]
TurnOfLast(run, y, k) ==
    LET up   == IF y[k] > y[k-1] THEN run.up + 1 ELSE 1
        down == IF y[k] < y[k-1] THEN run.down + 1 ELSE 1
    IN  [up |-> up, down |-> down, best |-> Max({up, down})]

\* One turn of the loop: the runs that end at k, and the longest so far.
Turn(run, y, k) ==
    LET up   == IF y[k] > y[k-1] THEN run.up + 1 ELSE 1
        down == IF y[k] < y[k-1] THEN run.down + 1 ELSE 1
    IN  [up |-> up, down |-> down, best |-> Max({run.best, up, down})]

LongestMonotonicRun(y) ==
    LET runs[k \in DOMAIN y] == IF k = 1 THEN [up |-> 1, down |-> 1, best |-> 1]
                                ELSE Turn(runs[k-1], y, k)
    IN  IF Len(y) < 2 THEN Len(y) ELSE runs[Len(y)].best
------------------------------------------------------------------------------
\* Mutants: a point on the control limit is out of control; only the upper limit is.
BeyondOrOnLimits(y) ==
    VarianceN(y) > 0 /\ \E k \in DOMAIN y :
        Square(Len(y) * y[k] - MeanN(y)) >= Square(CONTROL_SIGMA) * VarianceN(y)
BeyondUpperLimit(y) ==
    VarianceN(y) > 0 /\ \E k \in DOMAIN y :
        /\ Len(y) * y[k] > MeanN(y)
        /\ Square(Len(y) * y[k] - MeanN(y)) > Square(CONTROL_SIGMA) * VarianceN(y)

\* A point lies beyond three sigma.
BeyondLimits(y) ==
    VarianceN(y) > 0 /\ \E k \in DOMAIN y :
        Square(Len(y) * y[k] - MeanN(y)) > Square(CONTROL_SIGMA) * VarianceN(y)

\* The span of the fit is more than three sigma, or there is no sigma.
Drifts(y) ==
    IF VarianceN(y) > 0
    THEN Square(2 * (Len(y) - 1) * Rise(y)) > Square(CONTROL_SIGMA * Spread(y)) * VarianceN(y)
    ELSE Rise(y) # 0

Classify(y) ==
    IF Len(y) < 2           THEN "in-control"
    ELSE IF BeyondLimits(y) THEN "out-of-control"
    ELSE IF LongestMonotonicRun(y) >= TREND_RUN_LENGTH \/ Drifts(y) THEN "trending"
    ELSE "in-control"

\* Mutant: from the first value.
EstimateFromFirst(y, limit) ==
    LET distance == limit - y[1]
    IN  IF Rise(y) = 0 THEN <<>>
        ELSE IF distance = 0 THEN <<0, 1>>
        ELSE IF (distance > 0) # (Rise(y) > 0) THEN <<>>
        ELSE <<Magnitude(distance) * Len(y) * Spread(y), 2 * Magnitude(Rise(y))>>

\* A fraction, or <<>> for None; of a series with at least two values.
EstimateRunsToFailure(y, limit) ==
    LET distance == limit - y[Len(y)]
    IN  IF Rise(y) = 0 THEN <<>>
        ELSE IF distance = 0 THEN <<0, 1>>
        ELSE IF (distance > 0) # (Rise(y) > 0) THEN <<>>
        ELSE <<Magnitude(distance) * Len(y) * Spread(y), 2 * Magnitude(Rise(y))>>

\* analyse_register: the state and the estimate it shows.
RunsToFailure(y, limit) ==
    IF Classify(y) = "trending" THEN EstimateRunsToFailure(y, limit) ELSE <<>>
------------------------------------------------------------------------------
Init == values = <<>>

Measure(v) == values' = Append(values, v) /\ InScope(values')

Next == \E v \in Measurable : Measure(v)

Spec == Init /\ [][Next]_values
==============================================================================
