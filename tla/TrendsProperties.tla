-------------------------- MODULE TrendsProperties --------------------------
(***************************************************************************)
(* What the classification of a growing history is to be trusted with.     *)
(***************************************************************************)
EXTENDS Trends

(***************************************************************************)
(* The rules need points.  With the deviation of the whole population no   *)
(* point of ten or fewer is out of control; a drift takes eight points,    *)
(* and less than that is a trend only by six points in a row; what never   *)
(* moved is in control, so the last rule of classify (stddev == 0 and a    *)
(* slope) never applies (trends.py:119-136).                               *)
(***************************************************************************)
RulesNeedLength ==
    /\ BeyondLimits(values) => Len(values) > 10
    /\ Drifts(values) => Len(values) >= 8
    /\ Classify(values) # "in-control" => Len(values) >= 6 /\ VarianceN(values) > 0

(***************************************************************************)
(* The longest monotonic run is the longest stretch of the series that     *)
(* rises, or falls, from each point to the next (trends.py:96-114).        *)
(***************************************************************************)
Monotonic(y, a, b) ==
    \/ \A k \in a + 1 .. b : y[k] > y[k-1]
    \/ \A k \in a + 1 .. b : y[k] < y[k-1]

LongestRunIsLongest ==
    values # <<>> =>
        LongestMonotonicRun(values) =
            Max({w[2] - w[1] + 1 : w \in {v \in (DOMAIN values) \X (DOMAIN values) :
                                               v[1] <= v[2] /\ Monotonic(values, v[1], v[2])}})

(***************************************************************************)
(* A register that falls is judged as one that rises by as much, a series  *)
(* as the same series backwards, and where the register has its zero does  *)
(* not matter (trends.py:117-136).                                         *)
(***************************************************************************)
Mapped(y, f(_)) == [k \in DOMAIN y |-> f(y[k])]

SameEitherWay ==
    /\ Classify(Mapped(values, LAMBDA v : 40 - v)) = Classify(values)
    /\ Classify(Reverse(values)) = Classify(values)
    /\ Classify(Mapped(values, LAMBDA v : v + 100)) = Classify(values)

(***************************************************************************)
(* A register on a straight line towards a limit it has not reached is     *)
(* given one run less with every run, whatever the line, once the history  *)
(* is long enough to be trending (trends.py:139-155, 184-186).             *)
(***************************************************************************)
Straight(y) == \A k \in 3 .. Len(y) : y[k] - y[k-1] = y[2] - y[1]

OneRunLess(before, after) ==
    \/ before = <<>>
    \/ before[1] = 0
    \/ after[1] * before[2] = (before[1] - before[2]) * after[2]

CountsDown ==
    [][Straight(values') /\ Classify(values) = "trending" =>
         \A limit \in Limits :
            LET step == values'[2] - values'[1]
                last == values[Len(values)]
            IN  Magnitude(limit - last) >= Magnitude(step) /\ (limit > last) = (step > 0) =>
                    /\ RunsToFailure(values, limit) # <<>>
                    /\ RunsToFailure(values', limit) # <<>>
                    /\ OneRunLess(RunsToFailure(values, limit), RunsToFailure(values', limit))]_values

(***************************************************************************)
(* A run of six is never forgotten: whatever is measured afterwards, the   *)
(* register is not in control again while its history is kept              *)
(* (trends.py:96-129; the history has no window, store.py:165-190).        *)
(***************************************************************************)
TrendIsKept ==
    [][LongestMonotonicRun(values) >= TREND_RUN_LENGTH => Classify(values') # "in-control"]_values
==============================================================================
