---------------------------- MODULE TrendsProofs ----------------------------
(***************************************************************************)
(* The trend analysis, for series of any length.  What the loop of         *)
(* trends.py:96-114 computes, and what a sum amounts to, is found by       *)
(* induction over the series, as the absence of a first point where it     *)
(* would be wrong; the rules of classify and the estimate follow from the  *)
(* sums of deviations and of products of deviations by algebra.            *)
(***************************************************************************)
EXTENDS TrendsProperties, WellFoundedInduction, SequenceTheorems, TLAPS

LEMMA FirstExists ==
    ASSUME NEW T \in SUBSET Nat, T # {}
    PROVE  \E i \in T : \A k \in T : i <= k
<1>1. PICK i \in T : \A k \in T : ~ (<<k, i>> \in OpToRel(<, Nat))
    BY NatLessThanWellFounded, WFMin
<1>2. ASSUME NEW k \in T, k < i PROVE FALSE
    BY <1>1, <1>2 DEF OpToRel
<1> QED
    BY <1>2

(***************************************************************************)
(* The loop has a value at every point.                                    *)
(***************************************************************************)
AtStart == [up |-> 1, down |-> 1, best |-> 1]
IsLoop(y, n, f) == f = [k \in 1 .. n |-> IF k = 1 THEN AtStart ELSE Turn(f[k-1], y, k)]

LEMMA LoopGoesOn ==
    ASSUME NEW y, NEW n \in Nat, NEW f, IsLoop(y, n, f)
    PROVE  \E g : IsLoop(y, n + 1, g)
<1> DEFINE g == [k \in 1 .. n + 1 |-> IF k = 1 THEN AtStart
                                      ELSE IF k = n + 1 THEN Turn(f[n], y, n + 1) ELSE f[k]]
           h == [k \in 1 .. n + 1 |-> IF k = 1 THEN AtStart ELSE Turn(g[k-1], y, k)]
<1>1. \A k \in 1 .. n : g[k] = f[k]
    BY DEF IsLoop
<1>2. \A k \in 1 .. n + 1 : g[k] = h[k]
    <2> SUFFICES ASSUME NEW k \in 1 .. n + 1 PROVE g[k] = h[k]
        OBVIOUS
    <2>1. CASE k = 1
        BY <2>1
    <2>2. CASE k # 1
        <3>1. k - 1 \in 1 .. n /\ g[k-1] = f[k-1]
            BY <1>1, <2>2
        <3>2. CASE k = n + 1
            <4>1. k - 1 = n
                BY <3>2
            <4> QED
                BY <2>2, <3>1, <3>2, <4>1
        <3>3. CASE k # n + 1
            <4>1. k \in 1 .. n
                BY <3>3
            <4>2. f[k] = Turn(f[k-1], y, k)
                BY <2>2, <4>1 DEF IsLoop
            <4> QED
                BY <1>1, <2>2, <3>1, <4>1, <4>2
        <3> QED
            BY <3>2, <3>3
    <2> QED
        BY <2>1, <2>2
<1>3. g = h
    BY <1>2
<1> HIDE DEF g
<1>4. IsLoop(y, n + 1, g)
    BY <1>3 DEF IsLoop
<1> QED
    BY <1>4

LEMMA LoopRuns ==
    ASSUME NEW y, NEW n \in Nat
    PROVE  \E f : IsLoop(y, n, f)
<1> DEFINE T == {m \in Nat : ~ \E f : IsLoop(y, m, f)}
<1> SUFFICES ASSUME T # {} PROVE FALSE
    OBVIOUS
<1>1. PICK m \in T : \A k \in T : m <= k
    <2> HIDE DEF T
    <2>1. T \in SUBSET Nat
        BY DEF T
    <2> QED
        BY <2>1, FirstExists
<1>2. m # 0
    <2>1. IsLoop(y, 0, [k \in 1 .. 0 |-> AtStart])
        BY DEF IsLoop
    <2> QED
        BY <2>1
<1>3. m - 1 \in Nat /\ m - 1 \notin T
    BY <1>1, <1>2
<1>4. PICK f : IsLoop(y, m - 1, f)
    BY <1>3
<1>5. \E g : IsLoop(y, (m - 1) + 1, g)
    BY <1>3, <1>4, LoopGoesOn
<1> QED
    BY <1>1, <1>5

(***************************************************************************)
(* What it holds at point k: the longest stretches that end there, rising  *)
(* and falling, and the longest of all up to there.                        *)
(***************************************************************************)
Rising(y, a, b)  == \A k \in a + 1 .. b : y[k] > y[k-1]
Falling(y, a, b) == \A k \in a + 1 .. b : y[k] < y[k-1]

Longest(y, n, best) ==
    /\ best \in Nat
    /\ \A a, b \in 1 .. n : a <= b /\ Monotonic(y, a, b) => b - a + 1 <= best
    /\ \E a, b \in 1 .. n : a <= b /\ Monotonic(y, a, b) /\ b - a + 1 = best

Ends(y, k, run) ==
    /\ run.up \in 1 .. k /\ \A a \in 1 .. k : Rising(y, a, k) <=> a >= k - run.up + 1
    /\ run.down \in 1 .. k /\ \A a \in 1 .. k : Falling(y, a, k) <=> a >= k - run.down + 1
    /\ Longest(y, k, run.best)

LEMMA StretchNext ==
    ASSUME NEW y, NEW k \in Nat \ {0, 1}, NEW a \in 1 .. k
    PROVE  /\ a = k => Rising(y, a, k) /\ Falling(y, a, k)
           /\ a # k => /\ a \in 1 .. k - 1
                       /\ Rising(y, a, k) <=> Rising(y, a, k - 1) /\ y[k] > y[k-1]
                       /\ Falling(y, a, k) <=> Falling(y, a, k - 1) /\ y[k] < y[k-1]
<1>1. a < k => a + 1 .. k = (a + 1 .. k - 1) \cup {k}
    OBVIOUS
<1>2. a = k => a + 1 .. k = {}
    OBVIOUS
<1>3. a # k => a < k /\ a \in 1 .. k - 1
    OBVIOUS
<1> QED
    BY <1>1, <1>2, <1>3 DEF Rising, Falling

LEMMA MaxOfThree ==
    ASSUME NEW a \in Nat, NEW b \in Nat, NEW c \in Nat
    PROVE  /\ Max({a, b, c}) \in {a, b, c}
           /\ a <= Max({a, b, c}) /\ b <= Max({a, b, c}) /\ c <= Max({a, b, c})
<1>1. \E x \in {a, b, c} : \A z \in {a, b, c} : x >= z
    OBVIOUS
<1> DEFINE m == Max({a, b, c})
<1>2. m \in {a, b, c} /\ \A z \in {a, b, c} : m >= z
    BY <1>1 DEF Max
<1> HIDE DEF m
<1>3. a <= m /\ b <= m /\ c <= m
    BY <1>2
<1> QED
    BY <1>2, <1>3 DEF m

LEMMA StretchIs ==
    ASSUME NEW y, NEW a, NEW b
    PROVE  Monotonic(y, a, b) <=> Rising(y, a, b) \/ Falling(y, a, b)
BY DEF Monotonic, Rising, Falling

LEMMA TurnKeeps ==
    ASSUME NEW y, NEW k \in Nat \ {0, 1}, NEW run, Ends(y, k - 1, run)
    PROVE  Ends(y, k, Turn(run, y, k))
<1> DEFINE up   == IF y[k] > y[k-1] THEN run.up + 1 ELSE 1
           down == IF y[k] < y[k-1] THEN run.down + 1 ELSE 1
           best == Max({run.best, up, down})
<1>1. /\ Turn(run, y, k).up = up /\ Turn(run, y, k).down = down /\ Turn(run, y, k).best = best
    BY DEF Turn
<1>2. /\ run.up \in 1 .. k - 1 /\ run.down \in 1 .. k - 1 /\ run.best \in Nat
      /\ \A a \in 1 .. k - 1 : Rising(y, a, k - 1) <=> a >= k - 1 - run.up + 1
      /\ \A a \in 1 .. k - 1 : Falling(y, a, k - 1) <=> a >= k - 1 - run.down + 1
      /\ \A a, b \in 1 .. k - 1 : a <= b /\ Monotonic(y, a, b) => b - a + 1 <= run.best
    BY DEF Ends, Longest
<1>3. /\ up \in 1 .. k /\ \A a \in 1 .. k : Rising(y, a, k) <=> a >= k - up + 1
    <2>1. up \in 1 .. k
        BY <1>2
    <2>2. ASSUME NEW a \in 1 .. k PROVE Rising(y, a, k) <=> a >= k - up + 1
        <3>1. CASE a = k
            BY <2>1, <3>1, StretchNext
        <3>2. CASE a # k
            <4>1. /\ a \in 1 .. k - 1
                  /\ Rising(y, a, k) <=> Rising(y, a, k - 1) /\ y[k] > y[k-1]
                BY <3>2, StretchNext
            <4>2. Rising(y, a, k - 1) <=> a >= k - 1 - run.up + 1
                BY <1>2, <4>1
            <4> QED
                BY <1>2, <4>1, <4>2
        <3> QED
            BY <3>1, <3>2
    <2> QED
        BY <2>1, <2>2
<1>4. /\ down \in 1 .. k /\ \A a \in 1 .. k : Falling(y, a, k) <=> a >= k - down + 1
    <2>1. down \in 1 .. k
        BY <1>2
    <2>2. ASSUME NEW a \in 1 .. k PROVE Falling(y, a, k) <=> a >= k - down + 1
        <3>1. CASE a = k
            BY <2>1, <3>1, StretchNext
        <3>2. CASE a # k
            <4>1. /\ a \in 1 .. k - 1
                  /\ Falling(y, a, k) <=> Falling(y, a, k - 1) /\ y[k] < y[k-1]
                BY <3>2, StretchNext
            <4>2. Falling(y, a, k - 1) <=> a >= k - 1 - run.down + 1
                BY <1>2, <4>1
            <4> QED
                BY <1>2, <4>1, <4>2
        <3> QED
            BY <3>1, <3>2
    <2> QED
        BY <2>1, <2>2
<1> HIDE DEF up, down
<1>5. /\ best \in {run.best, up, down} /\ run.best <= best /\ up <= best /\ down <= best
    <2>1. run.best \in Nat /\ up \in Nat /\ down \in Nat
        BY <1>2, <1>3, <1>4
    <2> QED
        BY ONLY <2>1, MaxOfThree DEF best
<1> HIDE DEF best
<1>6. Longest(y, k, best)
    <2>1. best \in Nat
        BY <1>2, <1>3, <1>4, <1>5
    <2>2. ASSUME NEW a \in 1 .. k, NEW b \in 1 .. k, a <= b, Monotonic(y, a, b)
          PROVE  b - a + 1 <= best
        <3>1. CASE b # k
            <4>1. a \in 1 .. k - 1 /\ b \in 1 .. k - 1
                BY <2>2, <3>1
            <4>2. b - a + 1 <= run.best
                BY <1>2, <2>2, <4>1
            <4> QED
                BY <1>2, <1>5, <2>1, <4>2
        <3>2. CASE b = k
            <4>1. a >= k - up + 1 \/ a >= k - down + 1
                BY <1>3, <1>4, <2>2, <3>2, StretchIs
            <4> QED
                BY <1>3, <1>4, <1>5, <2>1, <3>2, <4>1
        <3> QED
            BY <3>1, <3>2
    <2>3. \E a, b \in 1 .. k : a <= b /\ Monotonic(y, a, b) /\ b - a + 1 = best
        <3>1. CASE best = run.best
            <4>1. PICK a \in 1 .. k - 1, b \in 1 .. k - 1 : a <= b /\ Monotonic(y, a, b) /\ b - a + 1 = run.best
                BY DEF Ends, Longest
            <4>2. a \in 1 .. k /\ b \in 1 .. k
                OBVIOUS
            <4> QED
                BY <3>1, <4>1, <4>2
        <3>2. ASSUME NEW n \in 1 .. k, n = best, Monotonic(y, k - n + 1, k)
              PROVE  \E a, b \in 1 .. k : a <= b /\ Monotonic(y, a, b) /\ b - a + 1 = best
            <4>1. k - n + 1 \in 1 .. k /\ k \in 1 .. k /\ k - n + 1 <= k /\ k - (k - n + 1) + 1 = best
                BY <3>2
            <4> QED
                BY <3>2, <4>1
        <3>3. CASE best = up
            <4>1. k - up + 1 \in 1 .. k /\ k - up + 1 >= k - up + 1
                BY <1>3
            <4>2. Monotonic(y, k - up + 1, k)
                BY <1>3, <4>1, StretchIs
            <4> QED
                BY <1>3, <3>2, <3>3, <4>2
        <3>4. CASE best = down
            <4>1. k - down + 1 \in 1 .. k /\ k - down + 1 >= k - down + 1
                BY <1>4
            <4>2. Monotonic(y, k - down + 1, k)
                BY <1>4, <4>1, StretchIs
            <4> QED
                BY <1>4, <3>2, <3>4, <4>2
        <3> QED
            BY <1>5, <3>1, <3>3, <3>4
    <2> QED
        BY <2>1, <2>2, <2>3 DEF Longest
<1> QED
    BY <1>1, <1>3, <1>4, <1>6 DEF Ends

\* At every point, by induction over the points.
LEMMA LoopHolds ==
    ASSUME NEW y, NEW n \in Nat, NEW f, IsLoop(y, n, f)
    PROVE  \A k \in 1 .. n : Ends(y, k, f[k])
<1> DEFINE T == {k \in 1 .. n : ~ Ends(y, k, f[k])}
<1> SUFFICES ASSUME T # {} PROVE FALSE
    OBVIOUS
<1>1. PICK k \in T : \A j \in T : k <= j
    <2> HIDE DEF T
    <2>1. T \in SUBSET Nat
        BY DEF T
    <2> QED
        BY <2>1, FirstExists
<1>2. k \in 1 .. n /\ ~ Ends(y, k, f[k])
    OBVIOUS
<1>3. CASE k = 1
    <2>1. f[1] = AtStart
        BY <1>2, <1>3 DEF IsLoop
    <2>2. \A a, b \in 1 .. 1 : Monotonic(y, a, b) /\ Rising(y, a, b) /\ Falling(y, a, b)
        BY DEF Monotonic, Rising, Falling
    <2>3. Longest(y, 1, 1)
        BY <2>2 DEF Longest
    <2>4. Ends(y, 1, AtStart)
        BY <2>2, <2>3 DEF Ends, AtStart
    <2> QED
        BY <1>2, <1>3, <2>1, <2>4
<1>4. CASE k # 1
    <2>1. k - 1 \in 1 .. n /\ k \in Nat \ {0, 1} /\ ~ (k <= k - 1)
        BY <1>2, <1>4
    <2>2. Ends(y, k - 1, f[k-1])
        BY <1>1, <2>1
    <2>3. f[k] = Turn(f[k-1], y, k)
        BY <1>2, <1>4 DEF IsLoop
    <2> QED
        BY <1>2, <2>1, <2>2, <2>3, TurnKeeps
<1> QED
    BY <1>3, <1>4

LEMMA LongestIs ==
    ASSUME NEW S, NEW y \in Seq(S), y # <<>>
    PROVE  Longest(y, Len(y), LongestMonotonicRun(y))
<1>1. Len(y) \in Nat \ {0} /\ DOMAIN y = 1 .. Len(y)
    BY EmptySeq, LenProperties
<1>2. CASE Len(y) < 2
    <2>1. Len(y) = 1 /\ LongestMonotonicRun(y) = 1
        BY <1>1, <1>2 DEF LongestMonotonicRun
    <2>2. \A a, b \in 1 .. 1 : Monotonic(y, a, b)
        BY DEF Monotonic
    <2> QED
        BY <2>1, <2>2 DEF Longest
<1>3. CASE ~(Len(y) < 2)
    <2> DEFINE runs == CHOOSE f : IsLoop(y, Len(y), f)
    <2>1. IsLoop(y, Len(y), runs)
        BY <1>1, LoopRuns
    <2>2. LongestMonotonicRun(y) = runs[Len(y)].best
        BY <1>1, <1>3 DEF LongestMonotonicRun, IsLoop, AtStart
    <2> HIDE DEF runs
    <2>3. Len(y) \in 1 .. Len(y)
        BY <1>1
    <2>4. Ends(y, Len(y), runs[Len(y)])
        BY <1>1, <2>1, <2>3, LoopHolds
    <2> QED
        BY <2>2, <2>4 DEF Ends
<1> QED
    BY <1>2, <1>3

------------------------------------------------------------------------------
LEMMA Measurements == Spec => [](values \in Seq(Nat))
<1>1. Init => values \in Seq(Nat)
    BY DEF Init
<1>2. values \in Seq(Nat) /\ [Next]_values => (values \in Seq(Nat))'
    <2> SUFFICES ASSUME values \in Seq(Nat), NEW v \in Measurable, Measure(v) PROVE values' \in Seq(Nat)
        BY DEF Next
    <2>1. v \in Nat
        BY TrendsAssumption
    <2> QED
        BY <2>1, AppendProperties DEF Measure
<1> QED
    BY <1>1, <1>2, PTL DEF Spec

(***************************************************************************)
(* The loop over neighbours finds the longest stretch that rises or falls  *)
(* throughout (trends.py:96-114).                                          *)
(***************************************************************************)
THEOREM LongestStretchFound == Spec => []LongestRunIsLongest
<1>1. values \in Seq(Nat) => LongestRunIsLongest
    <2> SUFFICES ASSUME values \in Seq(Nat), values # <<>>
                 PROVE  LongestMonotonicRun(values) =
                          Max({w[2] - w[1] + 1 : w \in {v \in (DOMAIN values) \X (DOMAIN values) :
                                                          v[1] <= v[2] /\ Monotonic(values, v[1], v[2])}})
        BY DEF LongestRunIsLongest
    <2> DEFINE L == LongestMonotonicRun(values)
               W == {v \in (DOMAIN values) \X (DOMAIN values) :
                        v[1] <= v[2] /\ Monotonic(values, v[1], v[2])}
               M == {w[2] - w[1] + 1 : w \in W}
    <2>1. Longest(values, Len(values), L) /\ DOMAIN values = 1 .. Len(values) /\ Len(values) \in Nat
        BY LongestIs, LenProperties
    <2> HIDE DEF L
    <2>2. L \in M
        <3>1. PICK a \in 1 .. Len(values), b \in 1 .. Len(values) :
                 a <= b /\ Monotonic(values, a, b) /\ b - a + 1 = L
            BY <2>1 DEF Longest
        <3>2. <<a, b>> \in W
            BY <2>1, <3>1
        <3> HIDE DEF W
        <3> QED
            BY <3>1, <3>2
    <2>3. \A m \in M : m \in Int /\ L >= m
        <3> SUFFICES ASSUME NEW w \in W PROVE w[2] - w[1] + 1 \in Int /\ L >= w[2] - w[1] + 1
            OBVIOUS
        <3>1. /\ w[1] \in 1 .. Len(values) /\ w[2] \in 1 .. Len(values) /\ w[1] <= w[2]
              /\ Monotonic(values, w[1], w[2])
            BY <2>1
        <3> QED
            BY <2>1, <3>1 DEF Longest
    <2>4. L \in Nat
        BY <2>1 DEF Longest
    <2> HIDE DEF M
    <2>5. Max(M) = L
        <3>1. \E x \in M : \A z \in M : x >= z
            BY <2>2, <2>3
        <3>2. Max(M) \in M /\ \A z \in M : Max(M) >= z
            BY <3>1 DEF Max
        <3>3. Max(M) \in Int /\ Max(M) >= L /\ L >= Max(M) /\ L \in Int
            BY <2>2, <2>3, <2>4, <3>2
        <3> HIDE DEF L
        <3> QED
            BY ONLY <3>3
    <2> QED
        BY <2>5 DEF L, M
<1> QED
    BY <1>1, Measurements, PTL

(***************************************************************************)
(* A run of six is never forgotten, however long the history gets          *)
(* (trends.py:96-129).                                                     *)
(***************************************************************************)
THEOREM RunsAreKept == Spec => TrendIsKept
<1>1. values \in Seq(Nat) /\ [Next]_values =>
         [LongestMonotonicRun(values) >= TREND_RUN_LENGTH => Classify(values') # "in-control"]_values
    <2> SUFFICES ASSUME values \in Seq(Nat), NEW u \in Measurable, Measure(u),
                        LongestMonotonicRun(values) >= TREND_RUN_LENGTH
                 PROVE  Classify(values') # "in-control"
        BY DEF Next
    <2> DEFINE n == Len(values)
               z == Append(values, u)
    <2>1. u \in Nat
        BY TrendsAssumption
    <2>2. /\ values' = z /\ n \in Nat /\ z \in Seq(Nat) /\ Len(z) = n + 1
          /\ \A k \in 1 .. n : z[k] = values[k]
        BY <2>1, AppendProperties, LenProperties DEF Measure
    <2>3. values # <<>>
        <3> SUFFICES ASSUME values = <<>> PROVE FALSE
            OBVIOUS
        <3>1. LongestMonotonicRun(values) = 0
            BY DEF LongestMonotonicRun
        <3> QED
            BY <3>1 DEF TREND_RUN_LENGTH
    <2>4. Longest(values, n, LongestMonotonicRun(values))
        BY <2>3, LongestIs
    <2>5. z # <<>>
        BY <2>2, EmptySeq
    <2> HIDE DEF n, z
    <2>6. Longest(z, n + 1, LongestMonotonicRun(z))
        BY <2>2, <2>5, LongestIs
    <2>7. PICK a \in 1 .. n, b \in 1 .. n :
             a <= b /\ Monotonic(values, a, b) /\ b - a + 1 = LongestMonotonicRun(values)
        BY <2>4 DEF Longest
    <2>8. Monotonic(z, a, b)
        <3>1. \A k \in a + 1 .. b : k \in 1 .. n /\ k - 1 \in 1 .. n
            BY <2>2
        <3> QED
            BY <2>2, <2>7, <3>1 DEF Monotonic
    <2>9. /\ LongestMonotonicRun(z) \in Nat /\ b - a + 1 <= LongestMonotonicRun(z)
          /\ b - a + 1 >= TREND_RUN_LENGTH
        <3>1. a \in 1 .. n + 1 /\ b \in 1 .. n + 1
            BY <2>2
        <3> QED
            BY <2>6, <2>7, <2>8, <3>1 DEF Longest
    <2>10. LongestMonotonicRun(z) >= TREND_RUN_LENGTH /\ ~(Len(z) < 2)
        BY <2>2, <2>7, <2>9 DEF TREND_RUN_LENGTH
    <2> QED
        BY <2>2, <2>10 DEF Classify
<1> QED
    BY <1>1, Measurements, PTL DEF Spec, TrendIsKept

(***************************************************************************)
(* Sums: what holds of the sum of no terms and is kept by adding a term    *)
(* holds of the sum of a sequence.                                         *)
(***************************************************************************)
LEMMA UpTo ==
    ASSUME NEW n \in Nat, NEW S, 0 \in S, \A k \in 1 .. n : k - 1 \in S => k \in S
    PROVE  n \in S /\ \A k \in 0 .. n : k \in S
<1> DEFINE T == {k \in 0 .. n : k \notin S}
<1> SUFFICES ASSUME T # {} PROVE FALSE
    OBVIOUS
<1>1. PICK m \in T : \A k \in T : m <= k
    <2>1. T \in SUBSET Nat
        OBVIOUS
    <2> HIDE DEF T
    <2> QED
        BY <2>1, FirstExists
<1>2. m \in 1 .. n /\ m - 1 \in 0 .. n /\ m - 1 \notin T
    BY <1>1
<1> QED
    BY <1>1, <1>2

IsSum(f, n, s) == s = [k \in 0 .. n |-> IF k = 0 THEN 0 ELSE s[k-1] + f[k]]

LEMMA SumGoesOn ==
    ASSUME NEW f, NEW n \in Nat, NEW s, IsSum(f, n, s)
    PROVE  \E t : IsSum(f, n + 1, t)
<1> DEFINE t == [k \in 0 .. n + 1 |-> IF k = n + 1 THEN s[n] + f[k] ELSE s[k]]
           u == [k \in 0 .. n + 1 |-> IF k = 0 THEN 0 ELSE t[k-1] + f[k]]
<1>1. \A k \in 0 .. n + 1 : t[k] = u[k]
    <2> SUFFICES ASSUME NEW k \in 0 .. n + 1 PROVE t[k] = u[k]
        OBVIOUS
    <2>1. CASE k = n + 1
        <3>1. k # 0 /\ k - 1 = n /\ n \in 0 .. n + 1 /\ n # n + 1
            BY <2>1
        <3> QED
            BY <2>1, <3>1
    <2>2. CASE k # n + 1
        <3>1. k \in 0 .. n /\ t[k] = s[k] /\ s[k] = IF k = 0 THEN 0 ELSE s[k-1] + f[k]
            BY <2>2 DEF IsSum
        <3>2. k # 0 => k - 1 \in 0 .. n /\ k - 1 # n + 1 /\ t[k-1] = s[k-1]
            BY <2>2
        <3> QED
            BY <3>1, <3>2
    <2> QED
        BY <2>1, <2>2
<1>2. t = u
    BY <1>1
<1> HIDE DEF t
<1>3. IsSum(f, n + 1, t)
    BY <1>2 DEF IsSum
<1> QED
    BY <1>3

LEMMA SumRuns ==
    ASSUME NEW f, NEW n \in Nat
    PROVE  \E s : IsSum(f, n, s)
<1> DEFINE S == {m \in Nat : \E s : IsSum(f, m, s)}
<1>1. 0 \in S
    <2>1. IsSum(f, 0, [k \in 0 .. 0 |-> 0])
        BY DEF IsSum
    <2> QED
        BY <2>1
<1>2. \A k \in 1 .. n : k - 1 \in S => k \in S
    <2> SUFFICES ASSUME NEW k \in 1 .. n, k - 1 \in S PROVE k \in S
        OBVIOUS
    <2>1. PICK s : IsSum(f, k - 1, s)
        OBVIOUS
    <2>2. \E t : IsSum(f, (k - 1) + 1, t)
        BY <2>1, SumGoesOn
    <2> QED
        BY <2>2
<1> HIDE DEF S
<1>3. n \in S
    BY <1>1, <1>2, UpTo
<1> QED
    BY <1>3 DEF S

\* The sums of the first k terms.
Sums(f) == CHOOSE s : IsSum(f, Len(f), s)

LEMMA SumsAre ==
    ASSUME NEW f \in Seq(Int)
    PROVE  /\ Len(f) \in Nat /\ \A k \in 1 .. Len(f) : f[k] \in Int
           /\ Sums(f)[0] = 0
           /\ \A k \in 1 .. Len(f) : Sums(f)[k] = Sums(f)[k-1] + f[k]
           /\ \A k \in 0 .. Len(f) : Sums(f)[k] \in Int
           /\ Total(f) = Sums(f)[Len(f)]
<1>1. Len(f) \in Nat /\ \A k \in 1 .. Len(f) : f[k] \in Int
    BY LenProperties
<1> DEFINE s == Sums(f)
<1>2. IsSum(f, Len(f), s)
    BY <1>1, SumRuns DEF Sums
<1>3. Total(f) = s[Len(f)]
    BY DEF Total, Sums, IsSum
<1> HIDE DEF s
<1>4. s[0] = 0
    BY <1>1, <1>2 DEF IsSum
<1>5. ASSUME NEW k \in 1 .. Len(f) PROVE s[k] = s[k-1] + f[k]
    <2>1. k \in 0 .. Len(f) /\ k # 0
        OBVIOUS
    <2> QED
        BY <1>2, <2>1 DEF IsSum
<1>6. \A k \in 0 .. Len(f) : s[k] \in Int
    <2> DEFINE S == {k \in 0 .. Len(f) : s[k] \in Int}
    <2>1. 0 \in S
        BY <1>1, <1>4
    <2>2. \A k \in 1 .. Len(f) : k - 1 \in S => k \in S
        BY <1>1, <1>5
    <2> HIDE DEF S
    <2>3. \A k \in 0 .. Len(f) : k \in S
        BY <1>1, <2>1, <2>2, UpTo
    <2> QED
        BY <2>3 DEF S
<1> QED
    BY <1>1, <1>3, <1>4, <1>5, <1>6 DEF s

(***************************************************************************)
(* The sum of sums of multiples, and of a constant.                        *)
(***************************************************************************)
LEMMA SumOfMultiples ==
    ASSUME NEW a \in Int, NEW b \in Int, NEW c \in Int, NEW u \in Int, NEW v \in Int, NEW w \in Int,
           NEW x \in Int, NEW y \in Int, NEW z \in Int
    PROVE  (a * u + b * v + c * w) + (a * x + b * y + c * z) = a * (u + x) + b * (v + y) + c * (w + z)
OBVIOUS

Combines(e, a, f, b, g, c, h, n) == \A k \in 1 .. n : e[k] = a * f[k] + b * g[k] + c * h[k]

LEMMA TotalOfCombination ==
    ASSUME NEW f \in Seq(Int), NEW g \in Seq(Int), NEW h \in Seq(Int), NEW e \in Seq(Int),
           NEW a \in Int, NEW b \in Int, NEW c \in Int,
           NEW n, Len(f) = n, Len(g) = n, Len(h) = n, Len(e) = n,
           Combines(e, a, f, b, g, c, h, n)
    PROVE  Total(e) = a * Total(f) + b * Total(g) + c * Total(h)
<1> DEFINE F == Sums(f)
           G == Sums(g)
           H == Sums(h)
           E == Sums(e)
           S == {k \in 0 .. n : E[k] = a * F[k] + b * G[k] + c * H[k]}
<1>1. n \in Nat
    BY SumsAre
<1>2. /\ F[0] = 0 /\ G[0] = 0 /\ H[0] = 0 /\ E[0] = 0
      /\ Total(f) = F[n] /\ Total(g) = G[n] /\ Total(h) = H[n] /\ Total(e) = E[n]
    BY SumsAre
<1>3. \A k \in 1 .. n : /\ f[k] \in Int /\ g[k] \in Int /\ h[k] \in Int
                        /\ F[k] = F[k-1] + f[k] /\ G[k] = G[k-1] + g[k]
                        /\ H[k] = H[k-1] + h[k] /\ E[k] = E[k-1] + e[k]
    BY SumsAre
<1>4. \A k \in 0 .. n : F[k] \in Int /\ G[k] \in Int /\ H[k] \in Int /\ E[k] \in Int
    BY SumsAre
<1>5. \A k \in 1 .. n : e[k] = a * f[k] + b * g[k] + c * h[k]
    BY DEF Combines
<1> HIDE DEF F, G, H, E
<1>6. 0 \in S
    BY <1>1, <1>2
<1>7. \A k \in 1 .. n : k - 1 \in S => k \in S
    <2> SUFFICES ASSUME NEW k \in 1 .. n, k - 1 \in S PROVE k \in S
        OBVIOUS
    <2>1. k - 1 \in 0 .. n /\ k \in 0 .. n
        BY <1>1
    <2>2. E[k] = (a * F[k-1] + b * G[k-1] + c * H[k-1]) + (a * f[k] + b * g[k] + c * h[k])
        BY <1>3, <1>5
    <2>3. E[k] = a * (F[k-1] + f[k]) + b * (G[k-1] + g[k]) + c * (H[k-1] + h[k])
        <3> DEFINE u == F[k-1]
                   v == G[k-1]
                   w == H[k-1]
                   x == f[k]
                   y == g[k]
                   z == h[k]
        <3>1. u \in Int /\ v \in Int /\ w \in Int /\ x \in Int /\ y \in Int /\ z \in Int
            BY <1>3, <1>4, <2>1
        <3>2. E[k] = (a * u + b * v + c * w) + (a * x + b * y + c * z)
            BY <2>2
        <3> HIDE DEF u, v, w, x, y, z
        <3>3. E[k] = a * (u + x) + b * (v + y) + c * (w + z)
            BY <3>1, <3>2, SumOfMultiples
        <3> QED
            BY <3>3 DEF u, v, w, x, y, z
    <2> QED
        BY <1>3, <2>1, <2>3
<1> HIDE DEF S
<1>8. n \in S
    BY <1>1, <1>6, <1>7, UpTo
<1> QED
    BY <1>2, <1>8 DEF S

LEMMA TotalOfConstant ==
    ASSUME NEW f \in Seq(Int), NEW c \in Int, \A k \in 1 .. Len(f) : f[k] = c
    PROVE  Total(f) = Len(f) * c
<1> DEFINE F == Sums(f)
           S == {k \in 0 .. Len(f) : F[k] = k * c}
<1>1. /\ Len(f) \in Nat /\ F[0] = 0 /\ Total(f) = F[Len(f)]
      /\ \A k \in 1 .. Len(f) : F[k] = F[k-1] + f[k]
    BY SumsAre
<1> HIDE DEF F
<1>2. 0 \in S
    BY <1>1
<1>3. \A k \in 1 .. Len(f) : k - 1 \in S => k \in S
    <2> SUFFICES ASSUME NEW k \in 1 .. Len(f), k - 1 \in S PROVE k \in S
        OBVIOUS
    <2>1. F[k] = (k - 1) * c + c /\ k \in Int
        <3>1. F[k] = F[k-1] + f[k] /\ f[k] = c
            BY <1>1
        <3>2. F[k-1] = (k - 1) * c
            OBVIOUS
        <3> QED
            BY <3>1, <3>2
    <2>2. (k - 1) * c + c = k * c
        BY <2>1
    <2> QED
        BY <1>1, <2>1, <2>2
<1> HIDE DEF S
<1>4. Len(f) \in S
    BY <1>1, <1>2, <1>3, UpTo
<1> QED
    BY <1>1, <1>4 DEF S

(***************************************************************************)
(* A sum without negative terms is no less than any of them.               *)
(***************************************************************************)
LEMMA TotalNotNegative ==
    ASSUME NEW f \in Seq(Int), \A k \in 1 .. Len(f) : f[k] >= 0
    PROVE  Total(f) >= 0 /\ \A k \in 1 .. Len(f) : Total(f) >= f[k]
<1> DEFINE n == Len(f)
           F == Sums(f)
           S == {k \in 0 .. n : F[k] >= 0 /\ \A i \in 1 .. k : F[k] >= f[i]}
<1>1. /\ n \in Nat /\ F[0] = 0 /\ Total(f) = F[n]
      /\ \A k \in 1 .. n : F[k] = F[k-1] + f[k] /\ f[k] \in Int /\ f[k] >= 0
      /\ \A k \in 0 .. n : F[k] \in Int
    BY SumsAre
<1> HIDE DEF F, n
<1>2. 0 \in S
    BY <1>1
<1>3. \A k \in 1 .. n : k - 1 \in S => k \in S
    <2> SUFFICES ASSUME NEW k \in 1 .. n, k - 1 \in S PROVE k \in S
        OBVIOUS
    <2>1. k - 1 \in 0 .. n /\ k \in 0 .. n /\ F[k-1] \in Int /\ F[k-1] >= 0 /\ F[k] = F[k-1] + f[k]
        BY <1>1
    <2>2. ASSUME NEW i \in 1 .. k PROVE F[k] >= f[i]
        <3>1. i \in 1 .. n
            BY <1>1
        <3>2. CASE i = k
            BY <1>1, <2>1, <3>2
        <3>3. CASE i # k
            <4>1. i \in 1 .. k - 1
                BY <3>3
            <4>2. F[k-1] >= f[i]
                BY <4>1
            <4>3. F[k-1] \in Int /\ F[k] = F[k-1] + f[k] /\ f[k] \in Int /\ f[k] >= 0 /\ f[i] \in Int
                BY <1>1, <2>1, <3>1
            <4> QED
                BY ONLY <4>2, <4>3
        <3> QED
            BY <3>2, <3>3
    <2> QED
        BY <1>1, <2>1, <2>2
<1> HIDE DEF S
<1>4. n \in S
    BY <1>1, <1>2, <1>3, UpTo
<1> QED
    BY <1>1, <1>4 DEF S, n

LEMMA IntSeq ==
    ASSUME NEW n \in Nat, NEW f, f = [k \in 1 .. n |-> f[k]], \A k \in 1 .. n : f[k] \in Int
    PROVE  f \in Seq(Int) /\ Len(f) = n
<1>1. f \in [1 .. n -> Int]
    OBVIOUS
<1>2. f \in Seq(Int)
    BY <1>1, SeqDef
<1> QED
    BY <1>1, <1>2, LenProperties

Squares(f)     == [k \in DOMAIN f |-> Square(f[k])]
Products(f, g) == [k \in DOMAIN f |-> f[k] * g[k]]

LEMMA SquareInt == \A x \in Int : Square(x) \in Int /\ Square(x) >= 0 /\ (Square(x) = 0 <=> x = 0)
BY DEF Square

LEMMA SquaresAre ==
    ASSUME NEW f \in Seq(Int)
    PROVE  /\ Squares(f) \in Seq(Int) /\ Len(Squares(f)) = Len(f)
           /\ \A k \in 1 .. Len(f) : Squares(f)[k] = Square(f[k]) /\ Squares(f)[k] \in Int /\ Squares(f)[k] >= 0
<1>1. /\ DOMAIN f = 1 .. Len(f) /\ Len(f) \in Nat /\ \A k \in 1 .. Len(f) : f[k] \in Int
    BY LenProperties
<1>2. \A k \in 1 .. Len(f) : Squares(f)[k] = Square(f[k]) /\ Squares(f)[k] \in Int /\ Squares(f)[k] >= 0
    BY <1>1, SquareInt DEF Squares
<1>3. Squares(f) = [k \in 1 .. Len(f) |-> Squares(f)[k]]
    BY <1>1 DEF Squares
<1> QED
    BY <1>1, <1>2, <1>3, IntSeq

LEMMA ProductsAre ==
    ASSUME NEW f \in Seq(Int), NEW g \in Seq(Int), Len(g) = Len(f)
    PROVE  /\ Products(f, g) \in Seq(Int) /\ Len(Products(f, g)) = Len(f)
           /\ \A k \in 1 .. Len(f) : Products(f, g)[k] = f[k] * g[k]
<1>1. /\ DOMAIN f = 1 .. Len(f) /\ Len(f) \in Nat
      /\ \A k \in 1 .. Len(f) : f[k] \in Int /\ g[k] \in Int
    BY LenProperties
<1>2. \A k \in 1 .. Len(f) : Products(f, g)[k] = f[k] * g[k] /\ Products(f, g)[k] \in Int
    BY <1>1 DEF Products
<1>3. Products(f, g) = [k \in 1 .. Len(f) |-> Products(f, g)[k]]
    BY <1>1 DEF Products
<1> QED
    BY <1>1, <1>2, <1>3, IntSeq

(***************************************************************************)
(* The inequality of Cauchy and Schwarz.                                   *)
(***************************************************************************)
LEMMA SquareOfDifference ==
    ASSUME NEW b \in Int, NEW c \in Int, NEW x \in Int, NEW y \in Int
    PROVE  Square(b * x - c * y) = Square(b) * Square(x) + ((-2) * b * c) * (x * y) + Square(c) * Square(y)
BY DEF Square

LEMMA Discriminant ==
    ASSUME NEW a \in Int, NEW b \in Int, NEW c \in Int, b > 0,
           Square(b) * a + ((-2) * b * c) * c + Square(c) * b >= 0
    PROVE  Square(c) <= a * b
<1>1. Square(b) * a + ((-2) * b * c) * c + Square(c) * b = b * (a * b - Square(c))
    BY DEF Square
<1>2. a * b - Square(c) \in Int
    BY SquareInt
<1> DEFINE z == a * b - Square(c)
<1> HIDE DEF z
<1>3. z \in Int /\ b * z >= 0
    BY <1>1, <1>2 DEF z
<1>4. z >= 0
    BY <1>3
<1> QED
    BY <1>4, SquareInt DEF z

LEMMA CauchySchwarz ==
    ASSUME NEW f \in Seq(Int), NEW g \in Seq(Int), Len(g) = Len(f), Total(Squares(g)) > 0
    PROVE  Square(Total(Products(f, g))) <= Total(Squares(f)) * Total(Squares(g))
<1> DEFINE n == Len(f)
           a == Total(Squares(f))
           b == Total(Squares(g))
           c == Total(Products(f, g))
           e == [k \in 1 .. n |-> Square(b * f[k] - c * g[k])]
<1>1. n \in Nat /\ \A k \in 1 .. n : f[k] \in Int /\ g[k] \in Int
    BY LenProperties
<1>2. a \in Int /\ b \in Int /\ c \in Int
    <2>1. \A h \in Seq(Int) : Total(h) \in Int
        <3> SUFFICES ASSUME NEW h \in Seq(Int) PROVE Total(h) \in Int
            OBVIOUS
        <3>1. Len(h) \in 0 .. Len(h)
            BY LenProperties
        <3> QED
            BY <3>1, SumsAre
    <2> QED
        BY <2>1, SquaresAre, ProductsAre
<1>3. /\ Squares(f) \in Seq(Int) /\ Squares(g) \in Seq(Int) /\ Products(f, g) \in Seq(Int)
      /\ Len(Squares(f)) = n /\ Len(Squares(g)) = n /\ Len(Products(f, g)) = n
      /\ \A k \in 1 .. n : /\ Squares(f)[k] = Square(f[k]) /\ Squares(g)[k] = Square(g[k])
                           /\ Products(f, g)[k] = f[k] * g[k]
    BY SquaresAre, ProductsAre
<1> HIDE DEF a, b, c, n
<1>4. \A k \in 1 .. n : b * f[k] - c * g[k] \in Int
    BY <1>1, <1>2
<1>5. e \in Seq(Int) /\ Len(e) = n /\ \A k \in 1 .. n : e[k] >= 0
    <2>1. \A k \in 1 .. n : e[k] \in Int /\ e[k] >= 0
        BY <1>4, SquareInt
    <2>2. e = [k \in 1 .. n |-> e[k]]
        OBVIOUS
    <2> HIDE DEF e
    <2> QED
        BY <1>1, <2>1, <2>2, IntSeq
<1>6. \A k \in 1 .. n : e[k] = Square(b) * Squares(f)[k] + ((-2) * b * c) * Products(f, g)[k]
                                 + Square(c) * Squares(g)[k]
    <2> SUFFICES ASSUME NEW k \in 1 .. n
                 PROVE  e[k] = Square(b) * Squares(f)[k] + ((-2) * b * c) * Products(f, g)[k]
                                 + Square(c) * Squares(g)[k]
        OBVIOUS
    <2>1. e[k] = Square(b * f[k] - c * g[k])
        OBVIOUS
    <2>2. f[k] \in Int /\ g[k] \in Int
        BY <1>1
    <2>3. Square(b * f[k] - c * g[k])
            = Square(b) * Square(f[k]) + ((-2) * b * c) * (f[k] * g[k]) + Square(c) * Square(g[k])
        BY <1>2, <2>2, SquareOfDifference
    <2> QED
        BY <1>3, <2>1, <2>3
<1> HIDE DEF e
<1>7. Square(b) \in Int /\ (-2) * b * c \in Int /\ Square(c) \in Int
    BY <1>2, SquareInt
<1>8. Total(e) = Square(b) * a + ((-2) * b * c) * c + Square(c) * b
    <2> DEFINE p == Square(b)
               q == (-2) * b * c
               r == Square(c)
               F == Squares(f)
               G == Products(f, g)
               H == Squares(g)
    <2>1. p \in Int /\ q \in Int /\ r \in Int
        BY <1>7
    <2>2. Combines(e, p, F, q, G, r, H, n)
        BY <1>6 DEF Combines
    <2>3. /\ F \in Seq(Int) /\ G \in Seq(Int) /\ H \in Seq(Int) /\ e \in Seq(Int)
          /\ Len(F) = n /\ Len(G) = n /\ Len(H) = n /\ Len(e) = n
        BY <1>3, <1>5
    <2> HIDE DEF p, q, r, F, G, H
    <2>4. Total(e) = p * Total(F) + q * Total(G) + r * Total(H)
        BY <2>1, <2>2, <2>3, TotalOfCombination
    <2> QED
        BY <2>4 DEF a, b, c, p, q, r, F, G, H
<1>9. Total(e) >= 0
    BY <1>5, TotalNotNegative
<1> QED
    BY <1>2, <1>8, <1>9, Discriminant DEF a, b, c

LEMMA TotalInt == ASSUME NEW f \in Seq(Int) PROVE Total(f) \in Int
<1>1. Len(f) \in 0 .. Len(f)
    BY LenProperties
<1> QED
    BY <1>1, SumsAre

Always(n, c) == [k \in 1 .. n |-> c]

LEMMA AlwaysIs ==
    ASSUME NEW n \in Nat, NEW c \in Int
    PROVE  /\ Always(n, c) \in Seq(Int) /\ Len(Always(n, c)) = n
           /\ \A k \in 1 .. n : Always(n, c)[k] = c
           /\ Total(Always(n, c)) = n * c
<1>1. \A k \in 1 .. n : Always(n, c)[k] = c
    BY DEF Always
<1>2. Always(n, c) = [k \in 1 .. n |-> Always(n, c)[k]]
    BY DEF Always
<1>3. Always(n, c) \in Seq(Int) /\ Len(Always(n, c)) = n
    BY <1>1, <1>2, IntSeq
<1>4. Total(Always(n, c)) = n * c
    BY <1>1, <1>3, TotalOfConstant
<1> QED
    BY <1>1, <1>3, <1>4

(***************************************************************************)
(* The positions, counted from the middle of a series.                     *)
(***************************************************************************)
Middle(y) == [k \in DOMAIN y |-> FromMiddle(y, k)]

LEMMA MiddleIs ==
    ASSUME NEW y \in Seq(Int)
    PROVE  /\ Middle(y) \in Seq(Int) /\ Len(Middle(y)) = Len(y)
           /\ \A k \in 1 .. Len(y) : /\ Middle(y)[k] = 2 * (k - 1) - (Len(y) - 1)
                                     /\ FromMiddle(y, k) = Middle(y)[k]
           /\ Spread(y) = Total(Squares(Middle(y)))
<1>1. DOMAIN y = 1 .. Len(y) /\ Len(y) \in Nat
    BY LenProperties
<1>2. \A k \in 1 .. Len(y) : /\ Middle(y)[k] = 2 * (k - 1) - (Len(y) - 1)
                             /\ FromMiddle(y, k) = Middle(y)[k] /\ Middle(y)[k] \in Int
    BY <1>1 DEF Middle, FromMiddle
<1>3. Middle(y) = [k \in 1 .. Len(y) |-> Middle(y)[k]]
    BY <1>1 DEF Middle
<1>4. Middle(y) \in Seq(Int) /\ Len(Middle(y)) = Len(y)
    BY <1>1, <1>2, <1>3, IntSeq
<1>5. Squares(Middle(y)) = [k \in DOMAIN y |-> Square(FromMiddle(y, k))]
    <2>1. DOMAIN Middle(y) = DOMAIN y
        BY DEF Middle
    <2>2. \A k \in DOMAIN y : FromMiddle(y, k) = Middle(y)[k]
        BY <1>1, <1>2
    <2> QED
        BY <2>1, <2>2 DEF Squares
<1> QED
    BY <1>2, <1>4, <1>5 DEF Spread

LEMMA NextMiddleSum ==
    ASSUME NEW k \in Int, NEW c \in Int
    PROVE  ((k - 1) * ((k - 1) - 1) - c * (k - 1)) + (2 * (k - 1) - c) = k * (k - 1) - c * k
OBVIOUS

LEMMA NextSpreadSum ==
    ASSUME NEW k \in Int, NEW c \in Int
    PROVE  (2 * ((k - 1) - 1) * (k - 1) * (2 * (k - 1) - 1) - 6 * c * (k - 1) * ((k - 1) - 1) + 3 * (k - 1) * c * c)
             + 3 * Square(2 * (k - 1) - c)
             = 2 * (k - 1) * k * (2 * k - 1) - 6 * c * k * (k - 1) + 3 * k * c * c
BY DEF Square

LEMMA SpreadAtEnd ==
    ASSUME NEW n \in Int
    PROVE  /\ n * (n - 1) - (n - 1) * n = 0
           /\ 2 * (n - 1) * n * (2 * n - 1) - 6 * (n - 1) * n * (n - 1) + 3 * n * (n - 1) * (n - 1)
                = n * (n - 1) * (n + 1)
OBVIOUS

\* The positions cancel out, and their squares have the sum that statistics knows.
LEMMA SpreadIs ==
    ASSUME NEW y \in Seq(Int)
    PROVE  Total(Middle(y)) = 0 /\ 3 * Spread(y) = Len(y) * (Len(y) - 1) * (Len(y) + 1)
<1> DEFINE n == Len(y)
           c == n - 1
           m == Middle(y)
           q == Squares(m)
           M == Sums(m)
           Q == Sums(q)
           S == {k \in 0 .. n : M[k] = k * (k - 1) - c * k}
           T == {k \in 0 .. n : 3 * Q[k] = 2 * (k - 1) * k * (2 * k - 1) - 6 * c * k * (k - 1) + 3 * k * c * c}
<1>1. /\ n \in Nat /\ c \in Int /\ m \in Seq(Int) /\ Len(m) = n /\ Spread(y) = Total(q)
      /\ \A k \in 1 .. n : m[k] = 2 * (k - 1) - c
    BY LenProperties, MiddleIs
<1> HIDE DEF m
<1>2. /\ q \in Seq(Int) /\ Len(q) = n
      /\ \A k \in 1 .. n : q[k] = Square(m[k])
    BY <1>1, SquaresAre
<1> HIDE DEF q
<1>3. /\ M[0] = 0 /\ Total(m) = M[n] /\ Q[0] = 0 /\ Total(q) = Q[n]
      /\ \A k \in 1 .. n : M[k] = M[k-1] + m[k] /\ Q[k] = Q[k-1] + q[k] /\ q[k] \in Int
      /\ \A k \in 0 .. n : M[k] \in Int /\ Q[k] \in Int
    BY <1>1, <1>2, SumsAre
<1> HIDE DEF M, Q, n, c
<1>4. 0 \in S /\ 0 \in T
    BY <1>1, <1>3
<1>5. \A k \in 1 .. n : k - 1 \in S => k \in S
    <2> SUFFICES ASSUME NEW k \in 1 .. n, k - 1 \in S PROVE k \in S
        OBVIOUS
    <2>1. k \in 0 .. n /\ k - 1 \in 0 .. n /\ k \in Int
        BY <1>1
    <2>2. M[k] = ((k - 1) * ((k - 1) - 1) - c * (k - 1)) + (2 * (k - 1) - c)
        BY <1>1, <1>3
    <2>3. M[k] = k * (k - 1) - c * k
        BY <1>1, <2>1, <2>2, NextMiddleSum
    <2> QED
        BY <2>1, <2>3
<1>6. \A k \in 1 .. n : k - 1 \in T => k \in T
    <2> SUFFICES ASSUME NEW k \in 1 .. n, k - 1 \in T PROVE k \in T
        OBVIOUS
    <2>1. k \in 0 .. n /\ k - 1 \in 0 .. n /\ k \in Int
        BY <1>1
    <2>2. 3 * Q[k] = 3 * Q[k-1] + 3 * Square(2 * (k - 1) - c)
        <3>1. q[k] = Square(2 * (k - 1) - c) /\ q[k] \in Int
            BY <1>1, <1>2, <1>3
        <3>2. Q[k] = Q[k-1] + q[k] /\ Q[k-1] \in Int
            BY <1>3, <2>1
        <3> HIDE DEF T
        <3> QED
            BY <3>1, <3>2
    <2>3. 3 * Q[k-1] = 2 * ((k - 1) - 1) * (k - 1) * (2 * (k - 1) - 1) - 6 * c * (k - 1) * ((k - 1) - 1)
                         + 3 * (k - 1) * c * c
        OBVIOUS
    <2>4. 3 * Q[k] = 2 * (k - 1) * k * (2 * k - 1) - 6 * c * k * (k - 1) + 3 * k * c * c
        BY <1>1, <2>1, <2>2, <2>3, NextSpreadSum
    <2> QED
        BY <2>1, <2>4
<1>7. M[n] = n * (n - 1) - c * n
    <2> HIDE DEF S
    <2>1. n \in S
        BY <1>1, <1>4, <1>5, UpTo
    <2> QED
        BY <2>1 DEF S
<1>8. 3 * Q[n] = 2 * (n - 1) * n * (2 * n - 1) - 6 * c * n * (n - 1) + 3 * n * c * c
    <2> HIDE DEF T
    <2>1. n \in T
        BY <1>1, <1>4, <1>6, UpTo
    <2> QED
        BY <2>1 DEF T
<1>9. Total(m) = 0 /\ 3 * Total(q) = n * (n - 1) * (n + 1)
    BY <1>1, <1>3, <1>7, <1>8, SpreadAtEnd DEF c
<1> QED
    BY <1>1, <1>9 DEF m, n

(***************************************************************************)
(* The deviations from the mean, n times each.                             *)
(***************************************************************************)
Deviations(y) == [k \in DOMAIN y |-> Len(y) * y[k] - MeanN(y)]

LEMMA SquareOfDeviation ==
    ASSUME NEW n \in Int, NEW x \in Int, NEW s \in Int
    PROVE  Square(n * x - s) = Square(n) * Square(x) + ((-2) * n * s) * x + 1 * Square(s)
BY DEF Square

LEMMA VarianceOfSums ==
    ASSUME NEW n \in Int, NEW q \in Int, NEW s \in Int
    PROVE  Square(n) * q + ((-2) * n * s) * s + 1 * (n * Square(s)) = n * (n * q - Square(s))
BY DEF Square

\* They cancel out, and their squares have n times the sum that VarianceN stands for.
LEMMA DeviationsAre ==
    ASSUME NEW y \in Seq(Int), Len(y) > 1
    PROVE  /\ Deviations(y) \in Seq(Int) /\ Len(Deviations(y)) = Len(y)
           /\ \A k \in 1 .. Len(y) : Deviations(y)[k] = Len(y) * y[k] - MeanN(y)
           /\ Total(Deviations(y)) = 0
           /\ Total(Squares(Deviations(y))) = Len(y) * VarianceN(y)
           /\ MeanN(y) \in Int /\ VarianceN(y) \in Int
           /\ Rise(y) = Total(Products(Middle(y), Deviations(y)))
<1> DEFINE n == Len(y)
           s == MeanN(y)
           d == Deviations(y)
           Y == Squares(y)
           q == Total(Y)
           A == Always(n, s)
           B == Always(n, Square(s))
<1>1. /\ DOMAIN y = 1 .. n /\ n \in Nat /\ \A k \in 1 .. n : y[k] \in Int
      /\ s = Total(y) /\ s \in Int /\ Square(s) \in Int
    BY LenProperties, TotalInt, SquareInt DEF MeanN
<1>2. /\ Y \in Seq(Int) /\ Len(Y) = n /\ \A k \in 1 .. n : Y[k] = Square(y[k])
      /\ q \in Int
    BY SquaresAre, TotalInt
<1>3. VarianceN(y) = n * q - Square(s) /\ VarianceN(y) \in Int
    BY <1>1, <1>2 DEF VarianceN, Squares
<1>4. /\ A \in Seq(Int) /\ Len(A) = n /\ Total(A) = n * s /\ \A k \in 1 .. n : A[k] = s
      /\ B \in Seq(Int) /\ Len(B) = n /\ Total(B) = n * Square(s) /\ \A k \in 1 .. n : B[k] = Square(s)
    BY <1>1, AlwaysIs
<1> HIDE DEF s, n, Y, q, A, B
<1>5. \A k \in 1 .. n : d[k] = n * y[k] - s /\ d[k] \in Int
    BY <1>1 DEF Deviations, s, n
<1>6. d \in Seq(Int) /\ Len(d) = n
    <2>1. d = [k \in 1 .. n |-> d[k]]
        BY <1>1 DEF Deviations
    <2> QED
        BY <1>1, <1>5, <2>1, IntSeq
<1>7. Total(d) = 0
    <2>1. Combines(d, n, y, -1, A, 0, A, n)
        BY <1>1, <1>4, <1>5 DEF Combines
    <2>2. Len(y) = n /\ n \in Int /\ -1 \in Int /\ 0 \in Int
        BY <1>1 DEF n
    <2>3. Total(d) = n * Total(y) + (-1) * Total(A) + 0 * Total(A)
        BY <1>4, <1>6, <2>1, <2>2, TotalOfCombination
    <2> QED
        BY <1>1, <1>4, <2>3
<1>8. Total(Squares(d)) = n * VarianceN(y)
    <2> DEFINE a == Square(n)
               b == (-2) * n * s
               D == Squares(d)
    <2>1. a \in Int /\ b \in Int /\ n \in Int /\ 1 \in Int
        BY <1>1, SquareInt
    <2>2. D \in Seq(Int) /\ Len(D) = n /\ \A k \in 1 .. n : D[k] = Square(d[k])
        BY <1>6, SquaresAre
    <2>3. \A k \in 1 .. n : Square(d[k]) = a * Square(y[k]) + b * y[k] + 1 * Square(s)
        BY <1>1, <1>5, <2>1, SquareOfDeviation
    <2>4. \A k \in 1 .. n : D[k] = a * Y[k] + b * y[k] + 1 * B[k]
        BY <1>2, <1>4, <2>2, <2>3
    <2>5. Len(y) = n
        BY DEF n
    <2> HIDE DEF D, a, b
    <2>6. Combines(D, a, Y, b, y, 1, B, n)
        BY <2>4 DEF Combines
    <2>7. Total(D) = a * Total(Y) + b * Total(y) + 1 * Total(B)
        BY <1>2, <1>4, <2>1, <2>2, <2>5, <2>6, TotalOfCombination
    <2>8. Total(D) = Square(n) * q + ((-2) * n * s) * s + 1 * (n * Square(s))
        BY <1>1, <1>4, <2>7 DEF a, b, q
    <2> QED
        BY <1>1, <1>2, <1>3, <2>1, <2>8, VarianceOfSums DEF D
<1>9. Rise(y) = Total(Products(Middle(y), d))
    <2>1. DOMAIN Middle(y) = DOMAIN y
        BY DEF Middle
    <2>2. \A k \in 1 .. n : FromMiddle(y, k) = Middle(y)[k]
        BY MiddleIs DEF n
    <2>3. [k \in DOMAIN y |-> FromMiddle(y, k) * (Len(y) * y[k] - MeanN(y))] = Products(Middle(y), d)
        BY <1>1, <1>5, <2>1, <2>2 DEF Products, n, s
    <2> QED
        BY <2>3 DEF Rise
<1> QED
    BY <1>1, <1>3, <1>5, <1>6, <1>7, <1>8, <1>9 DEF n, s, d

LEMMA SquareOfShifted ==
    ASSUME NEW n \in Int, NEW c \in Int, NEW x \in Int
    PROVE  Square((n - 1) * x + c) = Square(n - 1) * Square(x) + (2 * (n - 1) * c) * x + 1 * Square(c)
BY DEF Square

LEMMA SquareOfTimes ==
    ASSUME NEW n \in Int, NEW c \in Int
    PROVE  Square((n - 1) * c + c) = n * n * Square(c)
BY DEF Square

LEMMA CancelScatter ==
    ASSUME NEW n \in Int, n > 1, NEW v \in Int, NEW c \in Int,
           Square(n - 1) * (n * v) + n * c >= n * n * c
    PROVE  (n - 1) * v >= c
<1>1. Square(n - 1) * (n * v) + n * c - n * n * c = (n * (n - 1)) * ((n - 1) * v - c)
    BY DEF Square
<1> DEFINE z == (n - 1) * v - c
           p == n * (n - 1)
<1>2. z \in Int /\ p \in Int /\ Square(n - 1) * (n * v) \in Int /\ n * c \in Int /\ n * n * c \in Int
    BY SquareInt
<1>3. p > 0
    <2>1. n * (n - 1) >= n
        <3>1. \A a, b \in Nat : b >= 1 => a * b >= a
            OBVIOUS
        <3> QED
            BY <3>1
    <2> QED
        BY <2>1
<1>4. p * z >= 0
    BY <1>1, <1>2
<1> HIDE DEF z, p
<1>5. z >= 0
    BY <1>2, <1>3, <1>4
<1> QED
    BY <1>2, <1>5 DEF z

(***************************************************************************)
(* How far a point can be from the mean of the series it is in, and how    *)
(* much a series can rise, with the variance it has.                       *)
(***************************************************************************)
LEMMA ScatterBound ==
    ASSUME NEW y \in Seq(Int), Len(y) > 1, NEW i \in 1 .. Len(y)
    PROVE  (Len(y) - 1) * VarianceN(y) >= Square(Len(y) * y[i] - MeanN(y))
<1> DEFINE n == Len(y)
           d == Deviations(y)
           c == d[i]
           D == Squares(d)
           C == Always(n, Square(c))
           v == VarianceN(y)
           e == [k \in 1 .. n |-> Square((n - 1) * d[k] + c)]
<1>1. n \in Nat
    BY LenProperties
<1>2. /\ d \in Seq(Int) /\ Len(d) = n /\ Total(d) = 0 /\ c = n * y[i] - MeanN(y)
      /\ Total(Squares(d)) = n * v /\ v \in Int
    BY DeviationsAre
<1> HIDE DEF d, v, n
<1>3. \A k \in 1 .. n : d[k] \in Int
    BY <1>2, ElementOfSeq
<1>4. c \in Int /\ i \in 1 .. n
    BY <1>3 DEF n
<1>5. D \in Seq(Int) /\ Len(D) = n /\ Total(D) = n * v /\ \A k \in 1 .. n : D[k] = Square(d[k])
    BY <1>2, SquaresAre
<1> HIDE DEF c
<1>6. C \in Seq(Int) /\ Len(C) = n /\ Total(C) = n * Square(c) /\ \A k \in 1 .. n : C[k] = Square(c)
    BY <1>1, <1>4, SquareInt, AlwaysIs
<1> HIDE DEF C, D
<1>7. \A k \in 1 .. n : e[k] = Square((n - 1) * d[k] + c) /\ e[k] \in Int /\ e[k] >= 0
    <2> SUFFICES ASSUME NEW k \in 1 .. n
                 PROVE  e[k] = Square((n - 1) * d[k] + c) /\ e[k] \in Int /\ e[k] >= 0
        OBVIOUS
    <2>1. d[k] \in Int
        BY <1>3
    <2>2. (n - 1) * d[k] + c \in Int
        BY <1>1, <1>4, <2>1
    <2>3. e[k] = Square((n - 1) * d[k] + c)
        OBVIOUS
    <2> HIDE DEF e
    <2> QED
        BY <2>2, <2>3, SquareInt
<1>8. e \in Seq(Int) /\ Len(e) = n
    <2>1. e = [k \in 1 .. n |-> e[k]]
        OBVIOUS
    <2> HIDE DEF e
    <2> QED
        BY <1>1, <1>7, <2>1, IntSeq
<1> HIDE DEF e
<1>9. Total(e) = Square(n - 1) * (n * v) + n * Square(c)
    <2> DEFINE a == Square(n - 1)
               b == 2 * (n - 1) * c
    <2>1. a \in Int /\ b \in Int /\ 1 \in Int
        BY <1>1, <1>4, SquareInt
    <2>2. \A k \in 1 .. n : e[k] = a * Square(d[k]) + b * d[k] + 1 * Square(c)
        <3> SUFFICES ASSUME NEW k \in 1 .. n PROVE e[k] = a * Square(d[k]) + b * d[k] + 1 * Square(c)
            OBVIOUS
        <3>1. d[k] \in Int /\ n \in Int
            BY <1>1, <1>3
        <3>2. Square((n - 1) * d[k] + c) = a * Square(d[k]) + b * d[k] + 1 * Square(c)
            BY <1>4, <3>1, SquareOfShifted
        <3> QED
            BY <1>7, <3>2
    <2> HIDE DEF a, b
    <2>3. Combines(e, a, D, b, d, 1, C, n)
        BY <1>5, <1>6, <2>2 DEF Combines
    <2>4. Total(e) = a * Total(D) + b * Total(d) + 1 * Total(C)
        BY <1>2, <1>5, <1>6, <1>8, <2>1, <2>3, TotalOfCombination
    <2>5. a * (n * v) \in Int /\ n * Square(c) \in Int
        <3>1. Square(c) \in Int
            BY <1>4, SquareInt
        <3>2. n * v \in Int /\ n * Square(c) \in Int
            BY <1>1, <1>2, <3>1
        <3> QED
            BY <2>1, <3>2
    <2> QED
        BY <1>2, <1>5, <1>6, <2>1, <2>4, <2>5 DEF a
<1>10. Total(e) >= n * n * Square(c)
    <2>1. Total(e) >= e[i]
        BY <1>4, <1>7, <1>8, TotalNotNegative
    <2>2. e[i] = n * n * Square(c)
        <3>1. d[i] = c /\ n \in Int
            BY <1>1 DEF c
        <3>2. e[i] = Square((n - 1) * c + c)
            BY <1>4, <1>7, <3>1
        <3> QED
            BY <1>4, <3>1, <3>2, SquareOfTimes
    <2> QED
        BY <2>1, <2>2
<1>11. (n - 1) * v >= Square(c)
    <2>1. n > 1 /\ n \in Int /\ Square(c) \in Int
        BY <1>1, <1>4, SquareInt DEF n
    <2> QED
        BY <1>2, <1>9, <1>10, <2>1, CancelScatter
<1> QED
    BY <1>2, <1>11 DEF n, v

LEMMA VarianceNotNegative ==
    ASSUME NEW y \in Seq(Int), Len(y) > 1
    PROVE  VarianceN(y) >= 0 /\ (VarianceN(y) = 0 => \A k \in 1 .. Len(y) : Len(y) * y[k] = MeanN(y))
<1> DEFINE n == Len(y)
           v == VarianceN(y)
<1>1. n \in Nat /\ v \in Int /\ MeanN(y) \in Int /\ \A k \in 1 .. n : y[k] \in Int
    BY LenProperties, DeviationsAre
<1>2. \A k \in 1 .. n : (n - 1) * v >= Square(n * y[k] - MeanN(y))
    BY ScatterBound
<1> HIDE DEF n, v
<1>3. n > 1
    BY DEF n
<1>4. \A k \in 1 .. n : n * y[k] - MeanN(y) \in Int
    BY <1>1
<1>5. v >= 0
    <2>1. 1 \in 1 .. n
        BY <1>1, <1>3
    <2>2. (n - 1) * v >= 0
        <3>1. Square(n * y[1] - MeanN(y)) \in Int /\ Square(n * y[1] - MeanN(y)) >= 0
            BY <1>4, <2>1, SquareInt
        <3>2. (n - 1) * v >= Square(n * y[1] - MeanN(y)) /\ (n - 1) * v \in Int
            BY <1>1, <1>2, <2>1
        <3> QED
            BY <3>1, <3>2
    <2> QED
        BY <1>1, <1>3, <2>2
<1>6. ASSUME v = 0, NEW k \in 1 .. n PROVE n * y[k] = MeanN(y)
    <2>1. (n - 1) * v = 0
        BY <1>1, <1>6
    <2>2. Square(n * y[k] - MeanN(y)) = 0
        <3>1. Square(n * y[k] - MeanN(y)) \in Int /\ Square(n * y[k] - MeanN(y)) >= 0
            BY <1>4, SquareInt
        <3>2. 0 >= Square(n * y[k] - MeanN(y))
            BY <1>2, <2>1
        <3> QED
            BY <3>1, <3>2
    <2>3. n * y[k] - MeanN(y) = 0
        BY <1>4, <2>2, SquareInt
    <2>4. n * y[k] \in Int
        BY <1>1
    <2> QED
        BY <1>1, <2>3, <2>4
<1> QED
    BY <1>5, <1>6 DEF n, v

LEMMA SpreadPositive ==
    ASSUME NEW y \in Seq(Int), Len(y) > 1
    PROVE  Spread(y) \in Int /\ Spread(y) > 0
<1>1. Len(y) \in Nat /\ Spread(y) \in Int /\ 3 * Spread(y) = Len(y) * (Len(y) - 1) * (Len(y) + 1)
    BY LenProperties, MiddleIs, SquaresAre, TotalInt, SpreadIs
<1> DEFINE n == Len(y)
<1> HIDE DEF n
<1>2. n \in Nat /\ n > 1
    BY <1>1 DEF n
<1>3. n * (n - 1) * (n + 1) > 0
    <2>1. \A a, b \in Int : a > 0 /\ b > 0 => a * b > 0
        OBVIOUS
    <2>2. n * (n - 1) \in Int /\ n * (n - 1) > 0 /\ n + 1 \in Int /\ n + 1 > 0
        BY <1>2, <2>1
    <2> QED
        BY <2>1, <2>2
<1> QED
    BY <1>1, <1>3 DEF n

LEMMA RiseBound ==
    ASSUME NEW y \in Seq(Int), Len(y) > 1
    PROVE  Rise(y) \in Int /\ Square(Rise(y)) <= Spread(y) * (Len(y) * VarianceN(y))
<1>1. /\ Middle(y) \in Seq(Int) /\ Len(Middle(y)) = Len(y) /\ Spread(y) = Total(Squares(Middle(y)))
    BY MiddleIs
<1>2. /\ Deviations(y) \in Seq(Int) /\ Len(Deviations(y)) = Len(y)
      /\ Total(Squares(Deviations(y))) = Len(y) * VarianceN(y)
      /\ Rise(y) = Total(Products(Middle(y), Deviations(y)))
    BY DeviationsAre
<1>3. Rise(y) \in Int
    BY <1>1, <1>2, ProductsAre, TotalInt
<1> DEFINE m == Middle(y)
           d == Deviations(y)
<1>4. Products(m, d) = Products(d, m)
    <2>1. DOMAIN m = 1 .. Len(y) /\ DOMAIN d = 1 .. Len(y) /\ \A k \in 1 .. Len(y) : m[k] \in Int /\ d[k] \in Int
        BY <1>1, <1>2, LenProperties
    <2> HIDE DEF m, d
    <2>2. \A k \in 1 .. Len(y) : m[k] * d[k] = d[k] * m[k]
        BY <2>1
    <2> QED
        BY <2>1, <2>2 DEF Products
<1>5. Square(Total(Products(d, m))) <= Total(Squares(d)) * Total(Squares(m))
    BY <1>1, <1>2, SpreadPositive, CauchySchwarz
<1>6. Square(Rise(y)) <= (Len(y) * VarianceN(y)) * Spread(y)
    BY <1>1, <1>2, <1>4, <1>5
<1>7. (Len(y) * VarianceN(y)) * Spread(y) = Spread(y) * (Len(y) * VarianceN(y))
    <2>1. Len(y) * VarianceN(y) \in Int /\ Spread(y) \in Int
        BY LenProperties, DeviationsAre, SpreadPositive
    <2> HIDE DEF m, d
    <2> QED
        BY <2>1
<1> QED
    BY <1>3, <1>6, <1>7

LEMMA CancelFactor ==
    ASSUME NEW p \in Int, p > 0, NEW x \in Int, NEW y \in Int
    PROVE  p * x > p * y <=> x > y
<1>1. p * x - p * y = p * (x - y)
    OBVIOUS
<1> DEFINE z == x - y
<1>2. z \in Int /\ p * x \in Int /\ p * y \in Int
    OBVIOUS
<1>3. z > 0 => p * z > 0
    <2> HIDE DEF z
    <2> QED
        BY <1>2
<1>4. z <= 0 => p * z <= 0
    <2> HIDE DEF z
    <2> QED
        BY <1>2
<1> QED
    BY <1>1, <1>2, <1>3, <1>4

LEMMA SlopeOfBound ==
    ASSUME NEW n \in Int, n > 1, NEW p \in Int, p > 0, NEW v \in Int, v > 0, NEW r \in Int,
           Square(r) <= p * (n * v), 3 * p = n * (n - 1) * (n + 1),
           Square(2 * (n - 1) * r) > Square(3 * p) * v
    PROVE  n > 7
<1> DEFINE m == n - 1
           a == n * m
<1>1. m \in Int /\ m > 0
    OBVIOUS
<1>2. a \in Int /\ a > 0
    <2> HIDE DEF m
    <2> QED
        BY <1>1
<1>3. Square(2 * m * r) = (4 * m * m) * Square(r)
    BY DEF Square
<1>4. (4 * m * m) * Square(r) <= (4 * m * m) * (p * (n * v))
    <2> DEFINE c == 4 * m * m
               s == Square(r)
               t == p * (n * v)
    <2>1. c \in Int /\ c > 0 /\ s \in Int /\ t \in Int /\ s <= t
        <3>1. c \in Int /\ c > 0
            <4> HIDE DEF m
            <4> QED
                BY <1>1
        <3> QED
            BY <3>1, SquareInt
    <2> HIDE DEF c, s, t
    <2>2. c * s \in Int /\ c * t \in Int
        BY <2>1
    <2>3. ~(c * s > c * t)
        BY <2>1, CancelFactor
    <2> QED
        BY <2>2, <2>3 DEF c, s, t
<1>5. (4 * m * m) * (p * (n * v)) > Square(3 * p) * v
    <2>1. Square(2 * m * r) \in Int /\ Square(3 * p) * v \in Int /\ (4 * m * m) * (p * (n * v)) \in Int
        <3>1. 2 * m * r \in Int /\ 3 * p \in Int
            OBVIOUS
        <3>2. Square(2 * m * r) \in Int /\ Square(3 * p) \in Int
            BY <3>1, SquareInt
        <3> QED
            BY <1>1, <3>2
    <2> QED
        BY <1>3, <1>4, <2>1
<1>6. (4 * m * m) * (p * (n * v)) = (p * v) * (a * (4 * m))
    BY <1>1
<1>7. Square(3 * p) * v = (p * v) * (a * (3 * (n + 1)))
    <2>1. Square(3 * p) * v = (p * v) * (3 * (3 * p))
        BY DEF Square
    <2>2. 3 * (3 * p) = a * (3 * (n + 1))
        <3>1. 3 * (n * m * (n + 1)) = a * (3 * (n + 1))
            BY <1>1
        <3> QED
            BY <3>1
    <2> QED
        BY <2>1, <2>2
<1>8. a * (4 * m) > a * (3 * (n + 1))
    <2> DEFINE x == a * (4 * m)
               y == a * (3 * (n + 1))
               q == p * v
    <2>1. x \in Int /\ y \in Int /\ q \in Int /\ q > 0
        <3>1. x \in Int /\ y \in Int
            <4> HIDE DEF a, m
            <4> QED
                BY <1>1, <1>2
        <3> QED
            BY <3>1
    <2>2. q * x > q * y
        BY <1>5, <1>6, <1>7
    <2> HIDE DEF x, y, q
    <2>3. x > y
        BY <2>1, <2>2, CancelFactor
    <2> QED
        BY <2>3 DEF x, y
<1>9. 4 * m > 3 * (n + 1)
    <2>1. 4 * m \in Int /\ 3 * (n + 1) \in Int
        OBVIOUS
    <2> QED
        BY <1>2, <1>8, <2>1, CancelFactor
<1> QED
    BY <1>9

LEMMA BeyondNeedsLength ==
    ASSUME NEW y \in Seq(Int), BeyondLimits(y)
    PROVE  Len(y) > 10
<1> DEFINE n == Len(y)
           v == VarianceN(y)
<1>1. v > 0 /\ \E k \in DOMAIN y : Square(n * y[k] - MeanN(y)) > Square(CONTROL_SIGMA) * v
    BY DEF BeyondLimits
<1>2. n > 1 /\ n \in Nat /\ DOMAIN y = 1 .. n
    BY <1>1, LenProperties DEF VarianceN
<1>3. v \in Int /\ Square(CONTROL_SIGMA) = 9
    BY <1>2, DeviationsAre DEF CONTROL_SIGMA, Square
<1>4. PICK k \in 1 .. n : Square(n * y[k] - MeanN(y)) > Square(CONTROL_SIGMA) * v
    BY <1>1, <1>2
<1>5. (n - 1) * v >= Square(n * y[k] - MeanN(y))
    BY <1>2, ScatterBound
<1>6. Square(n * y[k] - MeanN(y)) \in Int
    <2>1. y[k] \in Int /\ MeanN(y) \in Int
        BY <1>2, DeviationsAre, ElementOfSeq
    <2>2. n * y[k] - MeanN(y) \in Int
        BY <1>2, <2>1
    <2> QED
        BY <2>2, SquareInt
<1> HIDE DEF n, v
<1>7. v * (n - 1) > v * 9
    <2> DEFINE w == Square(n * y[k] - MeanN(y))
               x == (n - 1) * v
    <2>1. (n - 1) * v > 9 * v
        <3>1. w \in Int /\ x \in Int /\ 9 * v \in Int
            BY <1>2, <1>3, <1>6
        <3>2. w > 9 * v /\ x >= w
            BY <1>3, <1>4, <1>5
        <3> HIDE DEF w, x
        <3>3. x > 9 * v
            BY ONLY <3>1, <3>2
        <3> QED
            BY <3>3 DEF x
    <2> QED
        BY <1>2, <1>3, <2>1
<1>8. n - 1 > 9
    BY <1>1, <1>2, <1>3, <1>7, CancelFactor
<1> QED
    BY <1>2, <1>8 DEF n

LEMMA DriftNeedsLength ==
    ASSUME NEW y \in Seq(Int), Drifts(y)
    PROVE  Len(y) >= 8 /\ VarianceN(y) > 0
<1> DEFINE n == Len(y)
           v == VarianceN(y)
<1>1. n \in Nat
    BY LenProperties
<1>2. n > 1
    <2> SUFFICES ASSUME n <= 1 PROVE FALSE
        BY <1>1
    <2>1. v = 0 /\ Rise(y) # 0
        BY DEF VarianceN, Drifts
    <2> DEFINE t == [k \in DOMAIN y |-> FromMiddle(y, k) * (Len(y) * y[k] - MeanN(y))]
    <2>2. \A k \in 1 .. n : t[k] = 0
        <3> SUFFICES ASSUME NEW k \in 1 .. n PROVE t[k] = 0
            OBVIOUS
        <3>1. n = 1 /\ k = 1 /\ k \in DOMAIN y
            <4>1. DOMAIN y = 1 .. n
                BY LenProperties
            <4> HIDE DEF n, t
            <4> QED
                BY <1>1, <4>1
        <3>2. FromMiddle(y, k) = 0
            BY <3>1 DEF FromMiddle
        <3>3. n * y[k] - MeanN(y) \in Int
            BY <3>1, LenProperties, TotalInt DEF MeanN
        <3> QED
            BY <3>1, <3>2, <3>3
    <2>3. t = [k \in 1 .. n |-> t[k]]
        BY LenProperties
    <2> HIDE DEF t
    <2>4. t \in Seq(Int) /\ Len(t) = n
        BY <1>1, <2>2, <2>3, IntSeq
    <2>5. Total(t) = n * 0
        BY <2>2, <2>4, TotalOfConstant
    <2> QED
        BY <1>1, <2>1, <2>5 DEF Rise, t
<1>3. /\ v \in Int /\ v >= 0 /\ Rise(y) \in Int /\ Square(Rise(y)) <= Spread(y) * (n * v)
      /\ Spread(y) \in Int /\ Spread(y) > 0 /\ 3 * Spread(y) = n * (n - 1) * (n + 1)
    BY <1>2, DeviationsAre, VarianceNotNegative, RiseBound, SpreadPositive, SpreadIs
<1>4. v > 0
    <2> SUFFICES ASSUME v = 0 PROVE FALSE
        BY <1>3
    <2>1. Rise(y) # 0
        BY DEF Drifts
    <2>2. Spread(y) * (n * v) = 0
        BY <1>1, <1>3
    <2>3. Square(Rise(y)) <= 0 /\ Square(Rise(y)) \in Int
        BY <1>3, <2>2, SquareInt
    <2> QED
        BY <1>3, <2>1, <2>3, SquareInt
<1>5. Square(2 * (n - 1) * Rise(y)) > Square(3 * Spread(y)) * v
    BY <1>4 DEF Drifts, CONTROL_SIGMA
<1> DEFINE p == Spread(y)
           r == Rise(y)
<1>6. /\ n \in Int /\ p \in Int /\ p > 0 /\ v \in Int /\ v > 0 /\ r \in Int
      /\ Square(r) <= p * (n * v) /\ 3 * p = n * (n - 1) * (n + 1)
      /\ Square(2 * (n - 1) * r) > Square(3 * p) * v
    BY <1>1, <1>3, <1>4, <1>5
<1> HIDE DEF n, v, p, r
<1>7. n > 7
    BY <1>2, <1>6, SlopeOfBound
<1> QED
    BY <1>1, <1>4, <1>7 DEF n, v

\* What moved has a variance.
LEMMA VarianceOfMoved ==
    ASSUME NEW y \in Seq(Int), NEW i \in 1 .. Len(y), NEW k \in 1 .. Len(y), y[i] # y[k]
    PROVE  VarianceN(y) > 0
<1>1. Len(y) \in Nat /\ y[i] \in Int /\ y[k] \in Int
    BY LenProperties
<1>2. Len(y) > 1
    <2> SUFFICES ASSUME Len(y) <= 1 PROVE FALSE
        BY <1>1
    <2> QED
        BY <1>1
<1>3. VarianceN(y) \in Int /\ VarianceN(y) >= 0
    BY <1>2, DeviationsAre, VarianceNotNegative
<1>4. ASSUME VarianceN(y) = 0 PROVE FALSE
    <2>1. Len(y) * y[i] = Len(y) * y[k]
        BY <1>2, <1>4, VarianceNotNegative
    <2> DEFINE n == Len(y)
               u == y[i]
               w == y[k]
    <2>2. n \in Int /\ n > 0 /\ u \in Int /\ w \in Int /\ n * u = n * w
        BY <1>1, <1>2, <2>1
    <2> HIDE DEF n, u, w
    <2>3. n * u \in Int /\ ~(n * u > n * w) /\ ~(n * w > n * u)
        BY <2>2
    <2>4. ~(u > w) /\ ~(w > u)
        BY ONLY <2>2, <2>3, CancelFactor
    <2>5. u = w
        BY <2>2, <2>4
    <2> QED
        BY <2>5 DEF u, w
<1> QED
    BY <1>3, <1>4

LEMMA RunNeedsLength ==
    ASSUME NEW y \in Seq(Int), y # <<>>, LongestMonotonicRun(y) >= TREND_RUN_LENGTH
    PROVE  Len(y) >= 6 /\ VarianceN(y) > 0
<1>1. PICK a \in 1 .. Len(y), b \in 1 .. Len(y) :
         a <= b /\ Monotonic(y, a, b) /\ b - a + 1 = LongestMonotonicRun(y)
    BY LongestIs DEF Longest
<1>2. Len(y) \in Nat /\ b - a + 1 >= 6
    BY <1>1, LenProperties DEF TREND_RUN_LENGTH
<1>3. a + 1 \in a + 1 .. b /\ a + 1 \in 1 .. Len(y) /\ y[a + 1] \in Int /\ y[a] \in Int
    BY <1>2, LenProperties
<1>4. y[a + 1] # y[(a + 1) - 1] /\ (a + 1) - 1 = a
    BY <1>1, <1>3 DEF Monotonic
<1>5. VarianceN(y) > 0
    BY <1>3, <1>4, VarianceOfMoved
<1> QED
    BY <1>2, <1>5

LEMMA ClassifiedNeedsLength ==
    ASSUME NEW y \in Seq(Int), Classify(y) # "in-control"
    PROVE  Len(y) >= 6 /\ VarianceN(y) > 0
<1>1. Len(y) \in Nat /\ Len(y) >= 2 /\ y # <<>>
    BY LenProperties, EmptySeq DEF Classify
<1>2. BeyondLimits(y) \/ LongestMonotonicRun(y) >= TREND_RUN_LENGTH \/ Drifts(y)
    BY DEF Classify
<1>3. BeyondLimits(y) => Len(y) > 10 /\ VarianceN(y) > 0
    BY BeyondNeedsLength DEF BeyondLimits
<1>4. Drifts(y) => Len(y) >= 8 /\ VarianceN(y) > 0
    BY DriftNeedsLength
<1> QED
    BY <1>1, <1>2, <1>3, <1>4, RunNeedsLength

(***************************************************************************)
(* The control limits are out of reach of ten points, the drift of seven,  *)
(* and a register that never moved is in control, whatever was measured    *)
(* (trends.py:119-136).                                                    *)
(***************************************************************************)
THEOREM RulesNeedPoints == Spec => []RulesNeedLength
<1>1. values \in Seq(Nat) => RulesNeedLength
    <2> SUFFICES ASSUME values \in Seq(Nat) PROVE RulesNeedLength
        OBVIOUS
    <2>1. values \in Seq(Int)
        BY SeqMonotonic
    <2>2. BeyondLimits(values) => Len(values) > 10
        BY <2>1, BeyondNeedsLength
    <2>3. Drifts(values) => Len(values) >= 8
        BY <2>1, DriftNeedsLength
    <2>4. Classify(values) # "in-control" => Len(values) >= 6 /\ VarianceN(values) > 0
        BY <2>1, ClassifiedNeedsLength
    <2> QED
        BY <2>2, <2>3, <2>4 DEF RulesNeedLength
<1> QED
    BY <1>1, Measurements, PTL

LEMMA TotalReversed ==
    ASSUME NEW f \in Seq(Int), NEW g \in Seq(Int), Len(g) = Len(f),
           \A k \in 1 .. Len(f) : g[k] = f[Len(f) + 1 - k]
    PROVE  Total(g) = Total(f)
<1> DEFINE n == Len(f)
           F == Sums(f)
           G == Sums(g)
           S == {k \in 0 .. n : G[k] + F[n - k] = F[n]}
<1>1. /\ n \in Nat /\ F[0] = 0 /\ G[0] = 0 /\ Total(f) = F[n] /\ Total(g) = G[n]
      /\ \A k \in 1 .. n : F[k] = F[k-1] + f[k] /\ G[k] = G[k-1] + g[k] /\ f[k] \in Int
      /\ \A k \in 0 .. n : F[k] \in Int /\ G[k] \in Int
    BY SumsAre
<1>2. \A k \in 1 .. n : g[k] = f[n + 1 - k]
    OBVIOUS
<1> HIDE DEF n, F, G
<1>3. 0 \in S
    BY <1>1
<1>4. \A k \in 1 .. n : k - 1 \in S => k \in S
    <2> SUFFICES ASSUME NEW k \in 1 .. n, k - 1 \in S PROVE k \in S
        OBVIOUS
    <2> DEFINE i == n + 1 - k
    <2>1. i \in 1 .. n /\ i - 1 = n - k /\ n - (k - 1) = i /\ k \in 0 .. n /\ k - 1 \in 0 .. n
          /\ i \in 0 .. n /\ i - 1 \in 0 .. n
        BY <1>1
    <2>2. F[i] = F[i-1] + f[i] /\ G[k] = G[k-1] + f[i] /\ f[i] \in Int
        BY <1>1, <1>2, <2>1
    <2>3. G[k-1] + F[i] = F[n]
        BY <2>1
    <2>4. F[i-1] \in Int /\ G[k-1] \in Int
        BY <1>1, <2>1
    <2> HIDE DEF i, S
    <2>5. G[k] + F[i-1] = F[n]
        <3>1. \A a, b, c \in Int : (b + c) + a = b + (a + c)
            OBVIOUS
        <3>2. (G[k-1] + f[i]) + F[i-1] = G[k-1] + (F[i-1] + f[i])
            BY <2>2, <2>4, <3>1
        <3> QED
            BY <2>2, <2>3, <3>2
    <2> QED
        BY <2>1, <2>5 DEF S
<1> HIDE DEF S
<1>5. n \in S
    BY <1>1, <1>3, <1>4, UpTo
<1>6. G[n] + F[n - n] = F[n] /\ n - n = 0 /\ n \in 0 .. n
    BY <1>1, <1>5 DEF S
<1>7. G[n] + F[0] = F[n]
    BY <1>6
<1> QED
    BY <1>1, <1>6, <1>7

(***************************************************************************)
(* What the classification looks at.                                       *)
(***************************************************************************)
SameStretches(y, z) ==
    \A a, b \in 1 .. Len(y) : a <= b /\ Monotonic(y, a, b) =>
        \E c, d \in 1 .. Len(y) : c <= d /\ Monotonic(z, c, d) /\ d - c = b - a

LEMMA SameLongest ==
    ASSUME NEW y \in Seq(Int), NEW z \in Seq(Int), y # <<>>, z # <<>>, Len(z) = Len(y),
           SameStretches(y, z), SameStretches(z, y)
    PROVE  LongestMonotonicRun(z) = LongestMonotonicRun(y)
<1> DEFINE l == LongestMonotonicRun(y)
           m == LongestMonotonicRun(z)
           n == Len(y)
<1>1. Longest(y, n, l) /\ Longest(z, n, m)
    BY LongestIs
<1>2. n \in Nat /\ l \in Nat /\ m \in Nat
    BY <1>1, LenProperties DEF Longest
<1>3. l <= m
    <2>1. PICK a \in 1 .. n, b \in 1 .. n : a <= b /\ Monotonic(y, a, b) /\ b - a + 1 = l
        BY <1>1 DEF Longest
    <2>2. PICK c \in 1 .. n, d \in 1 .. n : c <= d /\ Monotonic(z, c, d) /\ d - c = b - a
        BY <2>1 DEF SameStretches
    <2>3. d - c + 1 <= m
        BY <1>1, <2>2 DEF Longest
    <2> HIDE DEF l, m, n
    <2> QED
        BY <1>2, <2>1, <2>2, <2>3
<1>4. m <= l
    <2>1. PICK a \in 1 .. n, b \in 1 .. n : a <= b /\ Monotonic(z, a, b) /\ b - a + 1 = m
        BY <1>1 DEF Longest
    <2>2. PICK c \in 1 .. n, d \in 1 .. n : c <= d /\ Monotonic(y, c, d) /\ d - c = b - a
        BY <2>1 DEF SameStretches
    <2>3. d - c + 1 <= l
        BY <1>1, <2>2 DEF Longest
    <2> HIDE DEF l, m, n
    <2> QED
        BY <1>2, <2>1, <2>2, <2>3
<1> QED
    BY <1>2, <1>3, <1>4

DevFrom(y, k) == Len(y) * y[k] - MeanN(y)

Alike(y, z) ==
    /\ \A k \in 1 .. Len(y) : \E i \in 1 .. Len(y) : Square(DevFrom(z, i)) = Square(DevFrom(y, k))
    /\ \A k \in 1 .. Len(y) : \E i \in 1 .. Len(y) : Square(DevFrom(y, i)) = Square(DevFrom(z, k))
    /\ Total(Squares(Deviations(z))) = Total(Squares(Deviations(y)))
    /\ Rise(z) = Rise(y) \/ Rise(z) = -Rise(y)
    /\ SameStretches(y, z) /\ SameStretches(z, y)

LEMMA JudgedAlike ==
    ASSUME NEW y \in Seq(Int), NEW z \in Seq(Int), Len(z) = Len(y), Len(y) > 1 => Alike(y, z)
    PROVE  Classify(z) = Classify(y)
<1> DEFINE n == Len(y)
<1>1. CASE n < 2
    BY <1>1 DEF Classify
<1>2. CASE ~(n < 2)
    <2>1. /\ n \in Nat /\ n > 1 /\ DOMAIN y = 1 .. n /\ DOMAIN z = 1 .. n /\ Alike(y, z)
          /\ y # <<>> /\ z # <<>>
        BY <1>2, LenProperties, EmptySeq
    <2>2. VarianceN(z) = VarianceN(y) /\ VarianceN(y) \in Int
        <3>1. /\ n * VarianceN(z) = n * VarianceN(y)
              /\ VarianceN(y) \in Int /\ VarianceN(z) \in Int
            BY <2>1, DeviationsAre DEF Alike
        <3> HIDE DEF n
        <3>2. n \in Int /\ n > 0
            BY <2>1
        <3>3. ~(n * VarianceN(z) > n * VarianceN(y)) /\ ~(n * VarianceN(y) > n * VarianceN(z))
            BY <3>1, <3>2
        <3>4. ~(VarianceN(z) > VarianceN(y))
            BY <3>1, <3>2, <3>3, CancelFactor
        <3>5. ~(VarianceN(y) > VarianceN(z))
            BY <3>1, <3>2, <3>3, CancelFactor
        <3> QED
            BY <3>1, <3>4, <3>5
    <2>3. Spread(z) = Spread(y)
        <3>1. Spread(y) \in Int /\ Spread(z) \in Int
            BY <2>1, SpreadPositive
        <3>2. 3 * Spread(z) = 3 * Spread(y)
            BY SpreadIs
        <3> QED
            BY <3>1, <3>2
    <2>4. BeyondLimits(z) <=> BeyondLimits(y)
        <3> DEFINE v == VarianceN(y)
        <3>1. BeyondLimits(y) <=> v > 0 /\ \E k \in 1 .. n : Square(DevFrom(y, k)) > Square(CONTROL_SIGMA) * v
            BY <2>1 DEF BeyondLimits, DevFrom
        <3>2. BeyondLimits(z) <=> v > 0 /\ \E k \in 1 .. n : Square(DevFrom(z, k)) > Square(CONTROL_SIGMA) * v
            BY <2>1, <2>2 DEF BeyondLimits, DevFrom
        <3> HIDE DEF v
        <3> QED
            BY <2>1, <3>1, <3>2 DEF Alike
    <2>5. Drifts(z) <=> Drifts(y)
        <3>1. Rise(y) \in Int /\ (Rise(z) = Rise(y) \/ Rise(z) = -Rise(y))
            BY <2>1, RiseBound DEF Alike
        <3>2. Square(2 * (n - 1) * Rise(z)) = Square(2 * (n - 1) * Rise(y))
            <4>1. CASE Rise(z) = Rise(y)
                BY <4>1
            <4>2. CASE Rise(z) = -Rise(y)
                <5> HIDE DEF n
                <5>1. \A r \in Int : Square(2 * (n - 1) * (-r)) = Square(2 * (n - 1) * r)
                    BY <2>1 DEF Square
                <5> QED
                    BY <3>1, <4>2, <5>1
            <4> QED
                BY <3>1, <4>1, <4>2
        <3>3. Rise(z) = 0 <=> Rise(y) = 0
            BY <3>1
        <3> QED
            BY <2>2, <2>3, <3>2, <3>3 DEF Drifts
    <2>6. LongestMonotonicRun(z) = LongestMonotonicRun(y)
        BY <2>1, SameLongest DEF Alike
    <2> QED
        BY <2>4, <2>5, <2>6 DEF Classify
<1> QED
    BY <1>1, <1>2

AreProducts(e, f, g, n) == e \in Seq(Int) /\ Len(e) = n /\ \A k \in 1 .. n : e[k] = f[k] * g[k]

LEMMA ProductsOf ==
    ASSUME NEW f \in Seq(Int), NEW g \in Seq(Int), NEW n, Len(f) = n, Len(g) = n
    PROVE  AreProducts(Products(f, g), f, g, n)
BY ProductsAre DEF AreProducts

LEMMA SameMiddle ==
    ASSUME NEW y \in Seq(Int), NEW z \in Seq(Int), Len(z) = Len(y)
    PROVE  /\ Middle(z) = Middle(y) /\ Middle(y) \in Seq(Int) /\ Len(Middle(y)) = Len(y)
           /\ \A k \in 1 .. Len(y) : Middle(y)[k] \in Int /\ Middle(y)[k] = 2 * (k - 1) - (Len(y) - 1)
<1>1. DOMAIN z = DOMAIN y
    BY LenProperties
<1>2. Middle(z) = Middle(y)
    BY <1>1 DEF Middle, FromMiddle
<1>3. Middle(y) \in Seq(Int) /\ Len(Middle(y)) = Len(y)
    BY MiddleIs
<1>4. \A k \in 1 .. Len(y) : Middle(y)[k] \in Int
    BY <1>3, ElementOfSeq
<1> QED
    BY <1>2, <1>3, <1>4, MiddleIs

LEMMA MonotonicShifted ==
    ASSUME NEW n \in Nat, NEW y, NEW z, NEW a \in Int,
           \A k \in 1 .. n : y[k] \in Int, \A k \in 1 .. n : z[k] = a + y[k],
           NEW b \in 1 .. n, NEW c \in 1 .. n
    PROVE  Monotonic(z, b, c) <=> Monotonic(y, b, c)
<1>1. \A k \in b + 1 .. c : k \in 1 .. n /\ k - 1 \in 1 .. n
    OBVIOUS
<1>2. \A k \in b + 1 .. c : /\ z[k] > z[k-1] <=> y[k] > y[k-1]
                            /\ z[k] < z[k-1] <=> y[k] < y[k-1]
    BY <1>1
<1> QED
    BY <1>2 DEF Monotonic

LEMMA MonotonicTurned ==
    ASSUME NEW n \in Nat, NEW y, NEW z, NEW a \in Int,
           \A k \in 1 .. n : y[k] \in Int, \A k \in 1 .. n : z[k] = a - y[k],
           NEW b \in 1 .. n, NEW c \in 1 .. n
    PROVE  Monotonic(z, b, c) <=> Monotonic(y, b, c)
<1>1. \A k \in b + 1 .. c : k \in 1 .. n /\ k - 1 \in 1 .. n
    OBVIOUS
<1>2. \A k \in b + 1 .. c : /\ z[k] > z[k-1] <=> y[k] < y[k-1]
                            /\ z[k] < z[k-1] <=> y[k] > y[k-1]
    BY <1>1
<1> QED
    BY <1>2 DEF Monotonic

LEMMA JudgedAlikeScaled ==
    ASSUME NEW y \in Seq(Int), NEW z \in Seq(Int), NEW a \in Int, NEW s \in {1, -1},
           Len(z) = Len(y), \A k \in 1 .. Len(y) : z[k] = a + s * y[k]
    PROVE  Classify(z) = Classify(y)
<1> SUFFICES ASSUME Len(y) > 1 PROVE Alike(y, z)
    BY JudgedAlike
<1> DEFINE n == Len(y)
           A == Always(n, a)
           m == Middle(y)
           d == Deviations(y)
           e == Deviations(z)
<1>1. /\ n \in Nat /\ s \in Int /\ Square(s) = 1
      /\ \A k \in 1 .. n : y[k] \in Int /\ z[k] \in Int /\ z[k] = a + s * y[k]
    BY LenProperties DEF Square
<1>2. /\ A \in Seq(Int) /\ Len(A) = n /\ Total(A) = n * a /\ \A k \in 1 .. n : A[k] = a
    BY <1>1, AlwaysIs
<1>3. MeanN(z) = n * a + s * MeanN(y) /\ MeanN(y) \in Int
    <2> HIDE DEF A
    <2>1. \A k \in 1 .. n : z[k] = 1 * A[k] + s * y[k] + 0 * y[k]
        <3> SUFFICES ASSUME NEW k \in 1 .. n PROVE z[k] = 1 * A[k] + s * y[k] + 0 * y[k]
            OBVIOUS
        <3>1. z[k] = a + s * y[k] /\ A[k] = a /\ y[k] \in Int
            BY <1>1, <1>2
        <3>2. \A x \in Int : a + s * x = 1 * a + s * x + 0 * x
            BY <1>1
        <3> QED
            BY ONLY <3>1, <3>2
    <2>2. Combines(z, 1, A, s, y, 0, y, n)
        BY <2>1 DEF Combines
    <2>3. Total(z) = 1 * Total(A) + s * Total(y) + 0 * Total(y)
        BY <1>1, <1>2, <2>2, TotalOfCombination
    <2>4. Total(y) \in Int /\ s * Total(y) \in Int /\ n * a \in Int
        BY <1>1, TotalInt
    <2> QED
        BY <1>2, <2>3, <2>4 DEF MeanN
<1>4. /\ d \in Seq(Int) /\ Len(d) = n /\ \A k \in 1 .. n : d[k] = n * y[k] - MeanN(y)
      /\ e \in Seq(Int) /\ Len(e) = n /\ \A k \in 1 .. n : e[k] = n * z[k] - MeanN(z)
      /\ Rise(y) = Total(Products(m, d)) /\ Rise(z) = Total(Products(m, e))
      /\ m \in Seq(Int) /\ Len(m) = n
      /\ \A k \in 1 .. n : m[k] \in Int /\ m[k] = 2 * (k - 1) - (n - 1)
    BY DeviationsAre, SameMiddle
<1>5. \A k \in 1 .. n : d[k] \in Int
    BY <1>4, ElementOfSeq
<1> HIDE DEF d, e, m, n
<1>6. \A k \in 1 .. n : e[k] = s * d[k]
    <2> SUFFICES ASSUME NEW k \in 1 .. n PROVE e[k] = s * d[k]
        OBVIOUS
    <2>1. y[k] \in Int /\ e[k] = n * (a + s * y[k]) - (n * a + s * MeanN(y)) /\ d[k] = n * y[k] - MeanN(y)
        BY <1>1, <1>3, <1>4
    <2>2. \A x, t \in Int : n * (a + s * x) - (n * a + s * t) = s * (n * x - t)
        BY <1>1
    <2> QED
        BY <1>3, <2>1, <2>2
<1>7. \A k \in 1 .. n : Square(e[k]) = Square(d[k])
    <2>1. \A x \in Int : Square(s * x) = Square(x)
        BY DEF Square
    <2> QED
        BY <1>5, <1>6, <2>1
<1>8. \A k \in 1 .. n : Square(DevFrom(z, k)) = Square(DevFrom(y, k))
    <2>1. \A k \in 1 .. n : DevFrom(z, k) = e[k] /\ DevFrom(y, k) = d[k]
        BY <1>4 DEF DevFrom, n
    <2> QED
        BY <1>7, <2>1
<1>9. Squares(e) = Squares(d)
    <2>1. DOMAIN e = 1 .. n /\ DOMAIN d = 1 .. n
        BY <1>4, LenProperties
    <2> QED
        BY <1>7, <2>1 DEF Squares
<1>10. Rise(z) = s * Rise(y)
    <2> DEFINE P == Products(m, d)
               Q == Products(m, e)
    <2>2. /\ P \in Seq(Int) /\ Len(P) = n /\ \A k \in 1 .. n : P[k] = m[k] * d[k]
          /\ Q \in Seq(Int) /\ Len(Q) = n /\ \A k \in 1 .. n : Q[k] = m[k] * e[k]
        <3>1. /\ m \in Seq(Int) /\ Len(m) = n /\ d \in Seq(Int) /\ Len(d) = n
              /\ e \in Seq(Int) /\ Len(e) = n
            BY <1>4
        <3>2. AreProducts(P, m, d, n)
            BY ONLY <3>1, ProductsOf
        <3>3. AreProducts(Q, m, e, n)
            BY ONLY <3>1, ProductsOf
        <3> HIDE DEF P, Q
        <3> QED
            BY <3>2, <3>3 DEF AreProducts
    <2> HIDE DEF P, Q
    <2>4. \A k \in 1 .. n : Q[k] = s * P[k] + 0 * P[k] + 0 * P[k]
        <3> SUFFICES ASSUME NEW k \in 1 .. n PROVE Q[k] = s * P[k] + 0 * P[k] + 0 * P[k]
            OBVIOUS
        <3>1. Q[k] = m[k] * (s * d[k]) /\ P[k] = m[k] * d[k] /\ m[k] \in Int /\ d[k] \in Int
            BY <1>4, <1>5, <1>6, <2>2
        <3>2. \A u, v \in Int : u * (s * v) = s * (u * v) + 0 * (u * v) + 0 * (u * v)
            BY <1>1
        <3> QED
            BY <3>1, <3>2
    <2>5. Combines(Q, s, P, 0, P, 0, P, n)
        BY <2>4 DEF Combines
    <2>6. Total(Q) = s * Total(P) + 0 * Total(P) + 0 * Total(P)
        <3>1. s \in Int /\ 0 \in Int
            BY <1>1
        <3> QED
            BY <2>2, <2>5, <3>1, TotalOfCombination
    <2>7. Total(P) \in Int
        BY <2>2, TotalInt
    <2> QED
        BY <1>1, <1>4, <2>6, <2>7 DEF P, Q
<1>11. \A b, c \in 1 .. n : Monotonic(z, b, c) <=> Monotonic(y, b, c)
    <2>1. CASE s = 1
        <3>1. \A k \in 1 .. n : z[k] = a + y[k]
            <4>1. \A x \in Int : a + 1 * x = a + x
                OBVIOUS
            <4> QED
                BY ONLY <1>1, <2>1, <4>1
        <3> QED
            BY ONLY <1>1, <3>1, a \in Int, MonotonicShifted
    <2>2. CASE s = -1
        <3>1. \A k \in 1 .. n : z[k] = a - y[k]
            <4>1. \A x \in Int : a + (-1) * x = a - x
                OBVIOUS
            <4> QED
                BY ONLY <1>1, <2>2, <4>1
        <3> QED
            BY ONLY <1>1, <3>1, a \in Int, MonotonicTurned
    <2> QED
        BY <2>1, <2>2
<1>12. SameStretches(y, z) /\ SameStretches(z, y)
    BY <1>11 DEF SameStretches, n
<1>13. Rise(y) \in Int
    BY RiseBound
<1>14. Rise(z) = Rise(y) \/ Rise(z) = -Rise(y)
    BY <1>10, <1>13
<1> QED
    BY <1>8, <1>9, <1>12, <1>14 DEF Alike, n, d, e

LEMMA JudgedAlikeReversed ==
    ASSUME NEW y \in Seq(Int), NEW z \in Seq(Int),
           Len(z) = Len(y), \A k \in 1 .. Len(y) : z[k] = y[Len(y) + 1 - k]
    PROVE  Classify(z) = Classify(y)
<1> SUFFICES ASSUME Len(y) > 1 PROVE Alike(y, z)
    BY JudgedAlike
<1> DEFINE n == Len(y)
           m == Middle(y)
           d == Deviations(y)
           e == Deviations(z)
<1>1. n \in Nat /\ \A k \in 1 .. n : y[k] \in Int /\ z[k] \in Int /\ z[k] = y[n + 1 - k]
    BY LenProperties
<1>2. MeanN(z) = MeanN(y)
    BY TotalReversed DEF MeanN
<1>3. /\ d \in Seq(Int) /\ Len(d) = n /\ \A k \in 1 .. n : d[k] = n * y[k] - MeanN(y)
      /\ e \in Seq(Int) /\ Len(e) = n /\ \A k \in 1 .. n : e[k] = n * z[k] - MeanN(z)
      /\ Rise(y) = Total(Products(m, d)) /\ Rise(z) = Total(Products(m, e))
      /\ m \in Seq(Int) /\ Len(m) = n
      /\ \A k \in 1 .. n : m[k] \in Int /\ m[k] = 2 * (k - 1) - (n - 1)
    BY DeviationsAre, SameMiddle
<1>4. \A k \in 1 .. n : d[k] \in Int
    BY <1>3, ElementOfSeq
<1> HIDE DEF d, e, m, n
<1>5. \A k \in 1 .. n : n + 1 - k \in 1 .. n /\ n + 1 - (n + 1 - k) = k
    BY <1>1
<1>6. \A k \in 1 .. n : e[k] = d[n + 1 - k]
    <2> SUFFICES ASSUME NEW k \in 1 .. n PROVE e[k] = d[n + 1 - k]
        OBVIOUS
    <2>1. e[k] = n * z[k] - MeanN(z) /\ z[k] = y[n + 1 - k]
        BY <1>1, <1>3
    <2>2. d[n + 1 - k] = n * y[n + 1 - k] - MeanN(y)
        BY <1>3, <1>5
    <2> QED
        BY <1>2, <2>1, <2>2
<1>7. Total(Squares(e)) = Total(Squares(d))
    <2> DEFINE D == Squares(d)
               E == Squares(e)
    <2>1. /\ D \in Seq(Int) /\ Len(D) = n /\ \A k \in 1 .. n : D[k] = Square(d[k])
          /\ E \in Seq(Int) /\ Len(E) = n /\ \A k \in 1 .. n : E[k] = Square(e[k])
        BY <1>3, SquaresAre
    <2> HIDE DEF D, E
    <2>2. \A k \in 1 .. Len(D) : E[k] = D[Len(D) + 1 - k]
        <3> SUFFICES ASSUME NEW k \in 1 .. n PROVE E[k] = D[n + 1 - k]
            BY <2>1
        <3>1. E[k] = Square(e[k]) /\ e[k] = d[n + 1 - k]
            BY <1>6, <2>1
        <3>2. D[n + 1 - k] = Square(d[n + 1 - k])
            BY <1>5, <2>1
        <3> QED
            BY ONLY <3>1, <3>2
    <2>3. Total(E) = Total(D)
        BY <2>1, <2>2, TotalReversed
    <2> QED
        BY <2>3 DEF D, E
<1>8. Rise(z) = -Rise(y)
    <2> DEFINE P == Products(m, d)
               Q == Products(m, e)
               R == [k \in 1 .. n |-> P[n + 1 - k]]
    <2>2. /\ P \in Seq(Int) /\ Len(P) = n /\ \A k \in 1 .. n : P[k] = m[k] * d[k]
          /\ Q \in Seq(Int) /\ Len(Q) = n /\ \A k \in 1 .. n : Q[k] = m[k] * e[k]
        <3>1. /\ m \in Seq(Int) /\ Len(m) = n /\ d \in Seq(Int) /\ Len(d) = n
              /\ e \in Seq(Int) /\ Len(e) = n
            BY <1>3
        <3>2. AreProducts(P, m, d, n)
            BY ONLY <3>1, ProductsOf
        <3>3. AreProducts(Q, m, e, n)
            BY ONLY <3>1, ProductsOf
        <3> HIDE DEF P, Q
        <3> QED
            BY <3>2, <3>3 DEF AreProducts
    <2> HIDE DEF P, Q
    <2>4. \A k \in 1 .. n : P[k] \in Int
        BY <2>2, ElementOfSeq
    <2>5. \A k \in 1 .. n : R[k] = P[n + 1 - k] /\ R[k] \in Int
        BY <1>5, <2>4
    <2>6. R \in Seq(Int) /\ Len(R) = n
        <3>1. R = [k \in 1 .. n |-> R[k]]
            OBVIOUS
        <3> HIDE DEF R
        <3> QED
            BY <1>1, <2>5, <3>1, IntSeq
    <2> HIDE DEF R
    <2>7. Total(R) = Total(P)
        BY <2>2, <2>5, <2>6, TotalReversed
    <2>8. \A k \in 1 .. n : Q[k] = (-1) * R[k] + 0 * R[k] + 0 * R[k]
        <3> SUFFICES ASSUME NEW k \in 1 .. n PROVE Q[k] = (-1) * R[k] + 0 * R[k] + 0 * R[k]
            OBVIOUS
        <3> DEFINE i == n + 1 - k
        <3>1. i \in 1 .. n /\ Q[k] = m[k] * d[i] /\ R[k] = m[i] * d[i] /\ d[i] \in Int /\ m[i] \in Int
            <4>1. i \in 1 .. n
                BY <1>5
            <4>2. Q[k] = m[k] * e[k] /\ e[k] = d[i] /\ R[k] = P[i]
                BY <1>6, <2>2, <2>5
            <4> HIDE DEF i
            <4> QED
                BY <1>3, <1>4, <2>2, <4>1, <4>2
        <3>2. m[k] = -m[i]
            BY <1>1, <1>3, <3>1
        <3>3. \A u, v \in Int : (-u) * v = (-1) * (u * v) + 0 * (u * v) + 0 * (u * v)
            OBVIOUS
        <3> HIDE DEF i
        <3> QED
            BY <3>1, <3>2, <3>3
    <2>9. Combines(Q, -1, R, 0, R, 0, R, n)
        BY <2>8 DEF Combines
    <2>10. Total(Q) = (-1) * Total(R) + 0 * Total(R) + 0 * Total(R)
        <3>1. -1 \in Int /\ 0 \in Int
            OBVIOUS
        <3> QED
            BY <2>2, <2>6, <2>9, <3>1, TotalOfCombination
    <2>11. Total(R) \in Int
        BY <2>6, TotalInt
    <2> QED
        BY <1>3, <2>7, <2>10, <2>11 DEF P, Q
<1>9. \A k \in 1 .. n : DevFrom(z, k) = e[k] /\ DevFrom(y, k) = d[k]
    BY <1>3 DEF DevFrom, n
<1>10. \A k \in 1 .. n : /\ \E i \in 1 .. n : Square(DevFrom(z, i)) = Square(DevFrom(y, k))
                         /\ \E i \in 1 .. n : Square(DevFrom(y, i)) = Square(DevFrom(z, k))
    <2> SUFFICES ASSUME NEW k \in 1 .. n
                 PROVE  /\ \E i \in 1 .. n : Square(DevFrom(z, i)) = Square(DevFrom(y, k))
                        /\ \E i \in 1 .. n : Square(DevFrom(y, i)) = Square(DevFrom(z, k))
        OBVIOUS
    <2> DEFINE i == n + 1 - k
    <2>1. i \in 1 .. n /\ n + 1 - i = k
        BY <1>5
    <2> HIDE DEF i
    <2>2. e[i] = d[k] /\ e[k] = d[i]
        BY <1>6, <2>1 DEF i
    <2> QED
        BY <1>9, <2>1, <2>2
<1>11. \A a, b \in 1 .. n : a <= b => /\ Monotonic(y, a, b) => Monotonic(z, n + 1 - b, n + 1 - a)
                                      /\ Monotonic(z, a, b) => Monotonic(y, n + 1 - b, n + 1 - a)
    <2> SUFFICES ASSUME NEW a \in 1 .. n, NEW b \in 1 .. n, a <= b
                 PROVE  /\ Monotonic(y, a, b) => Monotonic(z, n + 1 - b, n + 1 - a)
                        /\ Monotonic(z, a, b) => Monotonic(y, n + 1 - b, n + 1 - a)
        OBVIOUS
    <2>1. ASSUME NEW k \in (n + 1 - b) + 1 .. n + 1 - a
          PROVE  /\ n + 2 - k \in a + 1 .. b /\ k \in 1 .. n /\ k - 1 \in 1 .. n
                 /\ n + 2 - k \in 1 .. n /\ (n + 2 - k) - 1 \in 1 .. n
                 /\ n + 1 - k = (n + 2 - k) - 1 /\ n + 1 - (k - 1) = n + 2 - k
                 /\ n + 1 - (n + 2 - k) = k - 1 /\ n + 1 - ((n + 2 - k) - 1) = k
        BY <1>1
    <2>2. \A k \in (n + 1 - b) + 1 .. n + 1 - a :
              /\ z[k] = y[(n + 2 - k) - 1] /\ z[k-1] = y[n + 2 - k]
              /\ y[k] = z[(n + 2 - k) - 1] /\ y[k-1] = z[n + 2 - k]
        <3>1. \A k \in 1 .. n : z[k] = y[n + 1 - k]
            BY <1>1
        <3> SUFFICES ASSUME NEW k \in (n + 1 - b) + 1 .. n + 1 - a
                     PROVE  /\ z[k] = y[(n + 2 - k) - 1] /\ z[k-1] = y[n + 2 - k]
                            /\ y[k] = z[(n + 2 - k) - 1] /\ y[k-1] = z[n + 2 - k]
            OBVIOUS
        <3>2. z[k] = y[(n + 2 - k) - 1]
            BY <2>1, <3>1
        <3>3. z[k-1] = y[n + 2 - k]
            <4>1. z[k-1] = y[n + 1 - (k - 1)] /\ n + 1 - (k - 1) = n + 2 - k
                BY <2>1, <3>1
            <4> QED
                BY ONLY <4>1
        <3>4. z[(n + 2 - k) - 1] = y[k]
            <4>1. z[(n + 2 - k) - 1] = y[n + 1 - ((n + 2 - k) - 1)] /\ n + 1 - ((n + 2 - k) - 1) = k
                BY <2>1, <3>1
            <4> QED
                BY ONLY <4>1
        <3>5. z[n + 2 - k] = y[k-1]
            <4>1. z[n + 2 - k] = y[n + 1 - (n + 2 - k)] /\ n + 1 - (n + 2 - k) = k - 1
                BY <2>1, <3>1
            <4> QED
                BY ONLY <4>1
        <3> QED
            BY <3>2, <3>3, <3>4, <3>5
    <2> QED
        BY <2>1, <2>2 DEF Monotonic
<1>12. \A a, b \in 1 .. n : a <= b => /\ n + 1 - b \in 1 .. n /\ n + 1 - a \in 1 .. n /\ n + 1 - b <= n + 1 - a
                                      /\ (n + 1 - a) - (n + 1 - b) = b - a
    BY <1>1
<1>13. SameStretches(y, z) /\ SameStretches(z, y)
    BY <1>11, <1>12 DEF SameStretches, n
<1> QED
    BY <1>7, <1>8, <1>10, <1>13 DEF Alike, n, d, e

(***************************************************************************)
(* The classification is the same for a register that falls, for a series  *)
(* read backwards, and for another zero (trends.py:117-136).               *)
(***************************************************************************)
THEOREM EitherWayAlike == Spec => []SameEitherWay
<1>1. values \in Seq(Nat) => SameEitherWay
    <2> SUFFICES ASSUME values \in Seq(Nat) PROVE SameEitherWay
        OBVIOUS
    <2> DEFINE y == values
               n == Len(y)
               u == Mapped(y, LAMBDA v : 40 - v)
               w == Mapped(y, LAMBDA v : v + 100)
               z == Reverse(y)
    <2>1. y \in Seq(Int) /\ n \in Nat /\ DOMAIN y = 1 .. n /\ \A k \in 1 .. n : y[k] \in Int
        BY SeqMonotonic, LenProperties
    <2> HIDE DEF y, n
    <2>2. \A k \in 1 .. n : /\ u[k] = 40 + (-1) * y[k] /\ w[k] = 100 + 1 * y[k] /\ z[k] = y[n + 1 - k]
                            /\ u[k] \in Int /\ w[k] \in Int /\ z[k] \in Int
        <3> SUFFICES ASSUME NEW k \in 1 .. n
                     PROVE  /\ u[k] = 40 + (-1) * y[k] /\ w[k] = 100 + 1 * y[k] /\ z[k] = y[n + 1 - k]
                            /\ u[k] \in Int /\ w[k] \in Int /\ z[k] \in Int
            OBVIOUS
        <3>1. u[k] = 40 - y[k] /\ w[k] = y[k] + 100 /\ y[k] \in Int
            BY <2>1 DEF Mapped
        <3>2. z[k] = y[(n - k) + 1] /\ (n - k) + 1 = n + 1 - k /\ n + 1 - k \in 1 .. n
            BY <2>1 DEF Reverse, n
        <3> HIDE DEF u, w, z
        <3> QED
            BY <2>1, <3>1, <3>2
    <2>3. u = [k \in 1 .. n |-> u[k]] /\ w = [k \in 1 .. n |-> w[k]] /\ z = [k \in 1 .. n |-> z[k]]
        BY <2>1 DEF Mapped, Reverse, n
    <2> HIDE DEF u, w, z
    <2>4. /\ u \in Seq(Int) /\ Len(u) = n /\ w \in Seq(Int) /\ Len(w) = n
          /\ z \in Seq(Int) /\ Len(z) = n
        BY <2>1, <2>2, <2>3, IntSeq
    <2>5. Classify(u) = Classify(y) /\ Classify(w) = Classify(y)
        <3>1. Len(y) = n /\ 40 \in Int /\ 100 \in Int /\ 1 \in {1, -1} /\ -1 \in {1, -1}
            BY DEF n
        <3>2. /\ \A k \in 1 .. Len(y) : u[k] = 40 + (-1) * y[k]
              /\ \A k \in 1 .. Len(y) : w[k] = 100 + 1 * y[k]
            BY <2>2, <3>1
        <3>3. y \in Seq(Int) /\ u \in Seq(Int) /\ w \in Seq(Int) /\ Len(u) = Len(y) /\ Len(w) = Len(y)
            BY <2>1, <2>4, <3>1
        <3>4. Classify(u) = Classify(y)
            BY <3>1, <3>2, <3>3, JudgedAlikeScaled
        <3>5. Classify(w) = Classify(y)
            BY <3>1, <3>2, <3>3, JudgedAlikeScaled
        <3> QED
            BY <3>4, <3>5
    <2>6. Classify(z) = Classify(y)
        BY <2>1, <2>2, <2>4, JudgedAlikeReversed DEF n
    <2> QED
        BY <2>5, <2>6 DEF SameEitherWay, u, w, z, y
<1> QED
    BY <1>1, Measurements, PTL

(***************************************************************************)
(* Straight lines.                                                         *)
(***************************************************************************)
Proportional(a, f, b, g, n) == \A k \in 1 .. n : a * f[k] = b * g[k]

LEMMA ProportionalTotals ==
    ASSUME NEW f \in Seq(Int), NEW g \in Seq(Int), NEW n, Len(f) = n, Len(g) = n,
           NEW a \in Int, NEW b \in Int, Proportional(a, f, b, g, n)
    PROVE  a * Total(f) = b * Total(g)
<1> DEFINE e == [k \in 1 .. n |-> a * f[k]]
<1>1. n \in Nat /\ \A k \in 1 .. n : f[k] \in Int /\ g[k] \in Int
    BY LenProperties
<1>2. \A k \in 1 .. n : e[k] = a * f[k] /\ e[k] = b * g[k] /\ e[k] \in Int
    BY <1>1 DEF Proportional
<1>3. e = [k \in 1 .. n |-> e[k]]
    BY <1>2
<1> HIDE DEF e
<1>4. e \in Seq(Int) /\ Len(e) = n
    BY <1>1, <1>2, <1>3, IntSeq
<1>5. Combines(e, a, f, 0, f, 0, f, n) /\ Combines(e, b, g, 0, g, 0, g, n)
    <2>1. \A k \in 1 .. n : a * f[k] \in Int /\ b * g[k] \in Int
        BY <1>1
    <2>2. \A k \in 1 .. n : /\ e[k] = a * f[k] + 0 * f[k] + 0 * f[k]
                            /\ e[k] = b * g[k] + 0 * g[k] + 0 * g[k]
        BY <1>1, <1>2, <2>1
    <2> QED
        BY <2>2 DEF Combines
<1>6. Total(e) = a * Total(f) + 0 * Total(f) + 0 * Total(f)
    BY <1>4, <1>5, TotalOfCombination
<1>7. Total(e) = b * Total(g) + 0 * Total(g) + 0 * Total(g)
    BY <1>4, <1>5, TotalOfCombination
<1>8. Total(f) \in Int /\ Total(g) \in Int
    BY TotalInt
<1>9. a * Total(f) \in Int /\ b * Total(g) \in Int
    BY <1>8
<1> QED
    BY <1>6, <1>7, <1>8, <1>9

LEMMA NextOnLine ==
    ASSUME NEW p \in Int, NEW s \in Int, NEW k \in Int
    PROVE  p + ((k - 1) - 1) * s + s = p + (k - 1) * s
OBVIOUS

LEMMA LineIs ==
    ASSUME NEW y \in Seq(Int), Len(y) > 1, Straight(y)
    PROVE  \A k \in 1 .. Len(y) : y[k] = y[1] + (k - 1) * (y[2] - y[1])
<1> DEFINE n == Len(y)
           p == y[1]
           s == y[2] - y[1]
           S == {k \in 0 .. n : k > 0 => y[k] = p + (k - 1) * s}
<1>1. n \in Nat /\ n > 1 /\ \A k \in 1 .. n : y[k] \in Int
    BY LenProperties
<1>2. p \in Int /\ s \in Int /\ y[2] = p + s
    BY <1>1
<1>3. \A k \in 3 .. n : y[k] - y[k-1] = s
    BY DEF Straight
<1> HIDE DEF n, p, s
<1>4. 0 \in S
    BY <1>1
<1>5. \A k \in 1 .. n : k - 1 \in S => k \in S
    <2> SUFFICES ASSUME NEW k \in 1 .. n, k - 1 \in S PROVE y[k] = p + (k - 1) * s
        BY <1>1
    <2>1. CASE k = 1
        BY <1>2, <2>1 DEF p
    <2>2. CASE k = 2
        BY <1>2, <2>2
    <2>3. CASE k > 2
        <3>1. k \in 3 .. n /\ k - 1 \in 1 .. n /\ k - 1 > 0
            BY <1>1, <2>3
        <3>2. y[k-1] = p + ((k - 1) - 1) * s
            BY <3>1
        <3>3. y[k] \in Int /\ y[k-1] \in Int /\ y[k] - y[k-1] = s
            BY <1>1, <1>3, <3>1
        <3>4. y[k] = y[k-1] + s
            BY ONLY <1>2, <3>3
        <3>5. k \in Int
            OBVIOUS
        <3> QED
            BY <1>2, <3>2, <3>4, <3>5, NextOnLine
    <2> QED
        BY <2>1, <2>2, <2>3
<1>6. \A k \in 0 .. n : k \in S
    <2> HIDE DEF S
    <2> QED
        BY <1>1, <1>4, <1>5, UpTo
<1> QED
    BY <1>1, <1>6 DEF n, p, s

LEMMA LineFromMiddle ==
    ASSUME NEW n \in Int, NEW p \in Int, NEW s \in Int, NEW k \in Int
    PROVE  2 * (p + (k - 1) * s) = 1 * (2 * p + (n - 1) * s) + s * (2 * (k - 1) - (n - 1)) + 0 * (2 * (k - 1) - (n - 1))
OBVIOUS

LEMMA LineDeviation ==
    ASSUME NEW n \in Int, NEW p \in Int, NEW s \in Int, NEW k \in Int, NEW t \in Int,
           NEW c, c = 2 * p + (n - 1) * s, 2 * t = n * c
    PROVE  2 * (n * (p + (k - 1) * s) - t) = (n * s) * (2 * (k - 1) - (n - 1))
<1>1. 2 * (n * (p + (k - 1) * s) - t) = 2 * (n * (p + (k - 1) * s)) - 2 * t
    <2> DEFINE u == n * (p + (k - 1) * s)
    <2>1. u \in Int
        OBVIOUS
    <2> HIDE DEF u
    <2>2. 2 * (u - t) = 2 * u - 2 * t
        BY <2>1
    <2> QED
        BY <2>2 DEF u
<1>2. 2 * (n * (p + (k - 1) * s)) - n * (2 * p + (n - 1) * s) = (n * s) * (2 * (k - 1) - (n - 1))
    OBVIOUS
<1> QED
    BY <1>1, <1>2

\* The deviations are multiples of the positions, and so are the sums over them.
LEMMA LineSums ==
    ASSUME NEW y \in Seq(Int), Len(y) > 1, Straight(y), NEW s, s = y[2] - y[1]
    PROVE  /\ s \in Int
           /\ \A k \in 1 .. Len(y) : /\ 2 * Deviations(y)[k] = (Len(y) * s) * Middle(y)[k]
                                     /\ Deviations(y)[k] \in Int /\ Middle(y)[k] \in Int
           /\ 2 * Rise(y) = (Len(y) * s) * Spread(y)
           /\ 4 * (Len(y) * VarianceN(y)) = Square(Len(y) * s) * Spread(y)
<1> DEFINE n == Len(y)
           p == y[1]
           m == Middle(y)
           d == Deviations(y)
           c == 2 * p + (n - 1) * s
           A == Always(n, c)
           t == MeanN(y)
<1>1. n \in Nat /\ n > 1 /\ \A k \in 1 .. n : y[k] \in Int
    BY LenProperties
<1>2. p \in Int /\ s \in Int /\ c \in Int
    BY <1>1
<1>3. \A k \in 1 .. n : y[k] = p + (k - 1) * s
    BY LineIs
<1>4. /\ m \in Seq(Int) /\ Len(m) = n
      /\ \A k \in 1 .. n : m[k] \in Int /\ m[k] = 2 * (k - 1) - (n - 1)
      /\ Total(m) = 0 /\ Spread(y) = Total(Squares(m))
    BY SameMiddle, MiddleIs, SpreadIs
<1>5. /\ d \in Seq(Int) /\ Len(d) = n /\ \A k \in 1 .. n : d[k] = n * y[k] - t
      /\ Rise(y) = Total(Products(m, d)) /\ Total(Squares(d)) = n * VarianceN(y)
      /\ t \in Int /\ t = Total(y)
    BY DeviationsAre DEF MeanN
<1>6. A \in Seq(Int) /\ Len(A) = n /\ Total(A) = n * c /\ \A k \in 1 .. n : A[k] = c
    BY <1>1, <1>2, AlwaysIs
<1>7. \A k \in 1 .. n : d[k] \in Int
    BY <1>5, ElementOfSeq
<1>8. Len(y) = n
    OBVIOUS
<1> HIDE DEF n, p, m, d, A, t
<1>9. 2 * t = n * c
    <2> DEFINE e == [k \in 1 .. n |-> 2 * y[k]]
    <2>1. \A k \in 1 .. n : e[k] = 2 * y[k] /\ e[k] \in Int
        BY <1>1
    <2>2. e = [k \in 1 .. n |-> e[k]]
        BY <2>1
    <2> HIDE DEF e
    <2>3. e \in Seq(Int) /\ Len(e) = n
        BY <1>1, <2>1, <2>2, IntSeq
    <2>4. \A k \in 1 .. n : e[k] = 1 * A[k] + s * m[k] + 0 * m[k]
        <3> SUFFICES ASSUME NEW k \in 1 .. n PROVE e[k] = 1 * A[k] + s * m[k] + 0 * m[k]
            OBVIOUS
        <3>1. e[k] = 2 * (p + (k - 1) * s) /\ A[k] = 2 * p + (n - 1) * s /\ m[k] = 2 * (k - 1) - (n - 1)
            BY <1>3, <1>4, <1>6, <2>1
        <3>2. n \in Int /\ k \in Int
            BY <1>1
        <3>3. 2 * (p + (k - 1) * s)
                 = 1 * (2 * p + (n - 1) * s) + s * (2 * (k - 1) - (n - 1)) + 0 * (2 * (k - 1) - (n - 1))
            BY ONLY <1>2, <3>2, LineFromMiddle
        <3> QED
            BY ONLY <3>1, <3>3
    <2>5. \A k \in 1 .. n : e[k] = 2 * y[k] + 0 * y[k] + 0 * y[k]
        BY <1>1, <2>1
    <2>6. Combines(e, 1, A, s, m, 0, m, n) /\ Combines(e, 2, y, 0, y, 0, y, n)
        BY <2>4, <2>5 DEF Combines
    <2> HIDE DEF c
    <2>7. Total(e) = 1 * Total(A) + s * Total(m) + 0 * Total(m)
        BY <1>2, <1>4, <1>6, <2>3, <2>6, TotalOfCombination
    <2>8. Total(e) = 2 * Total(y) + 0 * Total(y) + 0 * Total(y)
        BY <1>8, <2>3, <2>6, TotalOfCombination
    <2>9. n * c \in Int
        BY <1>1, <1>2
    <2> QED
        BY <1>2, <1>4, <1>5, <1>6, <2>7, <2>8, <2>9
<1>10. \A k \in 1 .. n : 2 * d[k] = (n * s) * m[k]
    <2> SUFFICES ASSUME NEW k \in 1 .. n PROVE 2 * d[k] = (n * s) * m[k]
        OBVIOUS
    <2>1. d[k] = n * (p + (k - 1) * s) - t /\ m[k] = 2 * (k - 1) - (n - 1)
        BY <1>3, <1>4, <1>5
    <2>2. n \in Int /\ k \in Int
        BY <1>1
    <2>3. 2 * (n * (p + (k - 1) * s) - t) = (n * s) * (2 * (k - 1) - (n - 1))
        <3>1. c = 2 * p + (n - 1) * s
            OBVIOUS
        <3> HIDE DEF c
        <3> QED
            BY ONLY <1>2, <1>5, <1>9, <2>2, <3>1, LineDeviation
    <2> QED
        BY <2>1, <2>3
<1> DEFINE q == n * s
<1>11. q \in Int /\ Square(q) \in Int
    <2>1. q \in Int
        BY <1>1, <1>2
    <2> QED
        BY <2>1, SquareInt
<1> HIDE DEF q
<1>12. \A k \in 1 .. n : 2 * d[k] = q * m[k]
    BY <1>10 DEF q
<1>13. 2 * Rise(y) = q * Spread(y)
    <2> DEFINE P == Products(m, d)
               Q == Squares(m)
    <2>1. P \in Seq(Int) /\ Len(P) = n /\ \A k \in 1 .. n : P[k] = m[k] * d[k]
        <3>1. m \in Seq(Int) /\ Len(m) = n /\ d \in Seq(Int) /\ Len(d) = n
            BY <1>4, <1>5
        <3>2. AreProducts(P, m, d, n)
            BY ONLY <3>1, ProductsOf
        <3> HIDE DEF P
        <3> QED
            BY <3>2 DEF AreProducts
    <2>2. Q \in Seq(Int) /\ Len(Q) = n /\ \A k \in 1 .. n : Q[k] = Square(m[k])
        BY <1>4, SquaresAre
    <2> HIDE DEF P, Q
    <2>3. \A k \in 1 .. n : 2 * P[k] = q * Q[k]
        <3> SUFFICES ASSUME NEW k \in 1 .. n PROVE 2 * P[k] = q * Q[k]
            OBVIOUS
        <3>1. \A u, v \in Int : 2 * v = q * u => 2 * (u * v) = q * Square(u)
            <4> SUFFICES ASSUME NEW u \in Int, NEW v \in Int, 2 * v = q * u PROVE 2 * (u * v) = q * Square(u)
                OBVIOUS
            <4>1. 2 * (u * v) = u * (2 * v) /\ u * (q * u) = q * Square(u)
                BY <1>11 DEF Square
            <4> QED
                BY <4>1
        <3>2. P[k] = m[k] * d[k] /\ Q[k] = Square(m[k]) /\ 2 * d[k] = q * m[k] /\ m[k] \in Int /\ d[k] \in Int
            BY <1>4, <1>7, <1>12, <2>1, <2>2
        <3> QED
            BY ONLY <3>1, <3>2
    <2>4. Proportional(2, P, q, Q, n)
        BY <2>3 DEF Proportional
    <2>5. 2 * Total(P) = q * Total(Q)
        <3>1. 2 \in Int
            OBVIOUS
        <3> QED
            BY ONLY <1>11, <2>1, <2>2, <2>4, <3>1, ProportionalTotals
    <2> QED
        BY <1>4, <1>5, <2>5 DEF P, Q
<1>14. 4 * (n * VarianceN(y)) = Square(q) * Spread(y)
    <2> DEFINE D == Squares(d)
               Q == Squares(m)
    <2>1. D \in Seq(Int) /\ Len(D) = n /\ \A k \in 1 .. n : D[k] = Square(d[k])
        BY <1>5, SquaresAre
    <2>2. Q \in Seq(Int) /\ Len(Q) = n /\ \A k \in 1 .. n : Q[k] = Square(m[k])
        BY <1>4, SquaresAre
    <2> HIDE DEF D, Q
    <2>3. \A k \in 1 .. n : 4 * D[k] = Square(q) * Q[k]
        <3> SUFFICES ASSUME NEW k \in 1 .. n PROVE 4 * D[k] = Square(q) * Q[k]
            OBVIOUS
        <3>1. \A u, v \in Int : 2 * v = q * u => 4 * Square(v) = Square(q) * Square(u)
            <4> SUFFICES ASSUME NEW u \in Int, NEW v \in Int, 2 * v = q * u
                         PROVE  4 * Square(v) = Square(q) * Square(u)
                OBVIOUS
            <4>1. 4 * Square(v) = Square(2 * v) /\ Square(q * u) = Square(q) * Square(u)
                BY <1>11 DEF Square
            <4> QED
                BY <4>1
        <3>2. D[k] = Square(d[k]) /\ Q[k] = Square(m[k]) /\ 2 * d[k] = q * m[k] /\ m[k] \in Int /\ d[k] \in Int
            BY <1>4, <1>7, <1>12, <2>1, <2>2
        <3> QED
            BY ONLY <3>1, <3>2
    <2>4. Proportional(4, D, Square(q), Q, n)
        BY <2>3 DEF Proportional
    <2>5. 4 * Total(D) = Square(q) * Total(Q)
        <3>1. 4 \in Int
            OBVIOUS
        <3> QED
            BY ONLY <1>11, <2>1, <2>2, <2>4, <3>1, ProportionalTotals
    <2> QED
        BY <1>4, <1>5, <2>5 DEF D, Q
<1> QED
    BY <1>2, <1>4, <1>7, <1>10, <1>13, <1>14 DEF q, n, m, d

\* No point of a line is far enough out: the last is not, with Spread as the measure.
LEMMA EndsAreNear ==
    ASSUME NEW n \in Int, n > 1, NEW x \in Int, x <= n - 1, -x <= n - 1
    PROVE  Square(x) <= 3 * ((n - 1) * (n + 1))
<1> DEFINE m == n - 1
<1>1. m \in Int /\ m > 0
    OBVIOUS
<1>2. Square(x) <= Square(m)
    <2>1. (m - x) * (m + x) >= 0
        <3> DEFINE a == m - x
                   b == m + x
        <3>1. a \in Int /\ b \in Int /\ a >= 0 /\ b >= 0
            BY <1>1
        <3> HIDE DEF a, b
        <3>2. a * b >= 0
            BY <3>1
        <3> QED
            BY <3>2 DEF a, b
    <2> HIDE DEF m
    <2>2. (m - x) * (m + x) = Square(m) - Square(x)
        BY <1>1 DEF Square
    <2>3. Square(m) \in Int /\ Square(x) \in Int
        BY <1>1, SquareInt
    <2> QED
        BY <2>1, <2>2, <2>3
<1>3. (n - 1) * (n + 1) = Square(m) + 2 * m
    BY DEF Square
<1>4. Square(m) \in Int /\ Square(m) >= 0 /\ Square(x) \in Int
    BY <1>1, SquareInt
<1> HIDE DEF m
<1> QED
    BY <1>1, <1>2, <1>3, <1>4

LEMMA NotBeyondByParts ==
    ASSUME NEW n \in Int, n > 1, NEW q \in Int, NEW x \in Int, NEW d \in Int, NEW v \in Int, NEW p \in Int,
           x <= n - 1, -x <= n - 1, 2 * d = q * x,
           4 * (n * v) = Square(q) * p, 3 * p = n * (n - 1) * (n + 1)
    PROVE  Square(d) <= 9 * v
<1> DEFINE a == Square(q)
           b == Square(x)
           c == (n - 1) * (n + 1)
<1>1. a \in Int /\ a >= 0 /\ b \in Int /\ c \in Int /\ Square(d) \in Int /\ b <= 3 * c
    BY SquareInt, EndsAreNear
<1>2. 4 * Square(d) = a * b
    <2>1. 4 * Square(d) = Square(2 * d) /\ Square(q * x) = Square(q) * Square(x)
        BY DEF Square
    <2> QED
        BY <2>1
<1>3. 3 * p = n * c
    BY DEF c
<1> HIDE DEF a, b, c
<1>4. a * b <= a * (3 * c)
    <2>1. a * (3 * c - b) >= 0
        <3> DEFINE e == 3 * c - b
        <3>1. e \in Int /\ e >= 0
            BY <1>1
        <3> HIDE DEF e
        <3>2. a * e >= 0
            BY <1>1, <3>1
        <3> QED
            BY <3>2 DEF e
    <2>2. a * (3 * c - b) = a * (3 * c) - a * b /\ a * (3 * c) \in Int /\ a * b \in Int
        BY <1>1
    <2> QED
        BY <2>1, <2>2
<1>5. n * (a * (3 * c)) = n * (4 * (9 * v))
    <2>1. n * (a * (3 * c)) = 3 * a * (n * c) /\ 3 * a * (3 * p) = 9 * (a * p)
        BY <1>1
    <2>2. 9 * (4 * (n * v)) = n * (4 * (9 * v))
        OBVIOUS
    <2>3. 4 * (n * v) = a * p
        BY DEF a
    <2> QED
        BY <1>3, <2>1, <2>2, <2>3
<1>6. a * (3 * c) = 4 * (9 * v)
    <2>1. a * (3 * c) \in Int /\ 4 * (9 * v) \in Int
        BY <1>1
    <2> DEFINE e == a * (3 * c)
               f == 4 * (9 * v)
    <2>2. n * e = n * f /\ e \in Int /\ f \in Int
        BY <1>5, <2>1
    <2> HIDE DEF e, f
    <2>3. ~ (e > f) /\ ~ (f > e)
        <3>1. n * e \in Int /\ n * f \in Int /\ n > 0
            BY <2>2
        <3> QED
            BY <2>2, <3>1, CancelFactor
    <2>4. e = f
        BY <2>2, <2>3
    <2> QED
        BY <2>4 DEF e, f
<1> QED
    BY <1>1, <1>2, <1>4, <1>6

LEMMA LineNotBeyond ==
    ASSUME NEW y \in Seq(Int), Len(y) > 1, Straight(y)
    PROVE  ~ BeyondLimits(y)
<1> DEFINE n == Len(y)
           s == y[2] - y[1]
           q == n * s
           v == VarianceN(y)
<1>1. n \in Nat /\ n > 1 /\ DOMAIN y = 1 .. n
    BY LenProperties
<1>2. /\ s \in Int
      /\ \A k \in 1 .. n : /\ 2 * Deviations(y)[k] = q * Middle(y)[k]
                           /\ Deviations(y)[k] \in Int /\ Middle(y)[k] \in Int
      /\ 4 * (n * v) = Square(q) * Spread(y)
    BY LineSums
<1>3. /\ v \in Int
      /\ \A k \in 1 .. n : Deviations(y)[k] = n * y[k] - MeanN(y)
    BY DeviationsAre
<1>4. \A k \in 1 .. n : Middle(y)[k] = 2 * (k - 1) - (n - 1)
    BY MiddleIs
<1>5. Spread(y) \in Int /\ 3 * Spread(y) = n * (n - 1) * (n + 1)
    BY SpreadPositive, SpreadIs
<1> HIDE DEF s, v, n
<1>6. q \in Int
    BY <1>1, <1>2
<1> HIDE DEF q
<1>7. \A k \in 1 .. n : Square(n * y[k] - MeanN(y)) <= 9 * v
    <2> SUFFICES ASSUME NEW k \in 1 .. n PROVE Square(n * y[k] - MeanN(y)) <= 9 * v
        OBVIOUS
    <2> DEFINE d == Deviations(y)[k]
               x == Middle(y)[k]
    <2>1. d \in Int /\ x \in Int /\ 2 * d = q * x /\ d = n * y[k] - MeanN(y)
        BY <1>2, <1>3
    <2>2. x <= n - 1 /\ -x <= n - 1
        BY <1>1, <1>4
    <2> DEFINE p == Spread(y)
    <2>3. /\ n \in Int /\ n > 1 /\ v \in Int /\ p \in Int
          /\ 4 * (n * v) = Square(q) * p /\ 3 * p = n * (n - 1) * (n + 1)
        BY <1>1, <1>2, <1>3, <1>5
    <2> HIDE DEF d, x, p
    <2>4. Square(d) <= 9 * v
        BY ONLY <1>6, <2>1, <2>2, <2>3, NotBeyondByParts
    <2> QED
        BY <2>1, <2>4
<1>8. \A k \in 1 .. n : Square(n * y[k] - MeanN(y)) \in Int
    <2>1. \A k \in 1 .. n : n * y[k] - MeanN(y) \in Int
        BY <1>2, <1>3
    <2> QED
        BY <2>1, SquareInt
<1>9. Square(CONTROL_SIGMA) = 9
    BY DEF CONTROL_SIGMA, Square
<1>10. \A k \in 1 .. n : ~ (Square(n * y[k] - MeanN(y)) > Square(CONTROL_SIGMA) * v)
    BY <1>3, <1>7, <1>8, <1>9
<1> QED
    BY <1>1, <1>10 DEF BeyondLimits, n, v

\* A line of six points that is not level is trending.
LEMMA LineTrends ==
    ASSUME NEW y \in Seq(Int), Len(y) >= TREND_RUN_LENGTH, Straight(y), y[2] # y[1]
    PROVE  Classify(y) = "trending"
<1> DEFINE n == Len(y)
           s == y[2] - y[1]
<1>1. n \in Nat /\ n >= 6 /\ DOMAIN y = 1 .. n /\ \A k \in 1 .. n : y[k] \in Int
    BY LenProperties DEF TREND_RUN_LENGTH
<1>2. s \in Int /\ s # 0
    BY <1>1
<1>3. \A k \in 2 .. n : y[k] - y[k-1] = s
    <2> SUFFICES ASSUME NEW k \in 2 .. n PROVE y[k] - y[k-1] = s
        OBVIOUS
    <2>1. CASE k = 2
        BY <2>1
    <2>2. CASE k # 2
        <3>1. k \in 3 .. n
            BY <2>2
        <3> QED
            BY <3>1 DEF Straight
    <2> QED
        BY <2>1, <2>2
<1> HIDE DEF s, n
<1>4. \A k \in 1 + 1 .. n : (s > 0 => y[k] > y[k-1]) /\ (s < 0 => y[k] < y[k-1])
    <2>1. \A k \in 1 + 1 .. n : k \in 2 .. n /\ k \in 1 .. n /\ k - 1 \in 1 .. n
        BY <1>1
    <2>2. \A k \in 1 + 1 .. n : y[k] \in Int /\ y[k-1] \in Int /\ y[k] - y[k-1] = s
        BY <1>1, <1>3, <2>1
    <2> QED
        BY <1>2, <2>2
<1>5. Monotonic(y, 1, n)
    BY <1>2, <1>4 DEF Monotonic
<1>6. Longest(y, n, LongestMonotonicRun(y))
    <2>1. y # <<>>
        BY <1>1 DEF n
    <2> QED
        BY <2>1, LongestIs DEF n
<1>7. LongestMonotonicRun(y) \in Nat /\ n - 1 + 1 <= LongestMonotonicRun(y)
    <2>1. 1 \in 1 .. n /\ n \in 1 .. n /\ 1 <= n
        BY <1>1
    <2> QED
        BY <1>5, <1>6, <2>1 DEF Longest
<1>8. LongestMonotonicRun(y) >= TREND_RUN_LENGTH
    BY <1>1, <1>7 DEF TREND_RUN_LENGTH
<1>9. ~ BeyondLimits(y) /\ ~ (Len(y) < 2)
    BY <1>1, LineNotBeyond DEF n
<1> QED
    BY <1>8, <1>9 DEF Classify

LEMMA SignOfProduct ==
    ASSUME NEW p \in Int, p > 0, NEW s \in Int
    PROVE  /\ p * s \in Int /\ (p * s > 0 <=> s > 0) /\ (p * s < 0 <=> s < 0)
           /\ Magnitude(p * s) = p * Magnitude(s)
<1>1. s > 0 => p * s > 0
    OBVIOUS
<1>2. s < 0 => p * s < 0
    <2>1. s < 0 => p * (-s) > 0
        <3> DEFINE t == -s
        <3>1. t \in Int /\ (s < 0 => t > 0)
            OBVIOUS
        <3> HIDE DEF t
        <3>2. t > 0 => p * t > 0
            BY <3>1
        <3> QED
            BY <3>1, <3>2 DEF t
    <2>2. p * (-s) = -(p * s) /\ p * s \in Int
        OBVIOUS
    <2> QED
        BY <2>1, <2>2
<1>3. s = 0 => p * s = 0
    OBVIOUS
<1>4. p * s \in Int /\ p * (-s) = -(p * s)
    OBVIOUS
<1> QED
    BY <1>1, <1>2, <1>3, <1>4 DEF Magnitude

\* The estimate for a line: the distance over the step, both times the scale.
LEMMA LineEstimate ==
    ASSUME NEW y \in Seq(Int), Len(y) > 1, Straight(y), NEW s, s = y[2] - y[1], s # 0,
           NEW limit \in Int, NEW distance, distance = limit - y[Len(y)],
           distance # 0 => (distance > 0) = (s > 0)
    PROVE  \E p \in Int :
              /\ p > 0
              /\ EstimateRunsToFailure(y, limit) =
                    IF distance = 0 THEN <<0, 1>> ELSE <<Magnitude(distance) * p, Magnitude(s) * p>>
<1> DEFINE n == Len(y)
           p == n * Spread(y)
<1>1. n \in Nat /\ n > 1 /\ \A k \in 1 .. n : y[k] \in Int
    BY LenProperties
<1>2. s \in Int /\ distance \in Int
    BY <1>1
<1>3. 2 * Rise(y) = (n * s) * Spread(y) /\ Rise(y) \in Int /\ Spread(y) \in Int /\ Spread(y) > 0
    BY LineSums, RiseBound, SpreadPositive
<1>4. p \in Int /\ p > 0
    <2> DEFINE w == Spread(y)
    <2>1. w \in Int /\ w > 0
        BY <1>3
    <2> HIDE DEF n, w
    <2>2. n * w \in Int /\ n * w > 0
        BY <1>1, <2>1
    <2> QED
        BY <2>2 DEF w
<1>5. 2 * Rise(y) = p * s
    <2> HIDE DEF n
    <2>1. (n * s) * Spread(y) = (n * Spread(y)) * s
        BY <1>1, <1>2, <1>3
    <2> QED
        BY <1>3, <2>1
<1>6. Magnitude(distance) \in Int /\ Magnitude(s) \in Int
    BY ONLY <1>2 DEF Magnitude
<1>7. Magnitude(distance) * n * Spread(y) = Magnitude(distance) * p
    <2> HIDE DEF n
    <2> QED
        BY <1>1, <1>3, <1>6
<1> HIDE DEF p, n
<1>8. /\ (Rise(y) > 0) = (s > 0) /\ Rise(y) # 0
      /\ 2 * Magnitude(Rise(y)) = Magnitude(s) * p
    <2>1. /\ p * s \in Int /\ (p * s > 0 <=> s > 0) /\ (p * s < 0 <=> s < 0)
          /\ Magnitude(p * s) = p * Magnitude(s)
        BY ONLY <1>2, <1>4, SignOfProduct
    <2>2. p * Magnitude(s) = Magnitude(s) * p
        BY <1>4, <1>6
    <2>3. Magnitude(2 * Rise(y)) = 2 * Magnitude(Rise(y))
        BY <1>3 DEF Magnitude
    <2> DEFINE r == Rise(y)
               t == p * s
    <2>4. r \in Int /\ t \in Int /\ 2 * r = t /\ (t > 0 <=> s > 0) /\ (t < 0 <=> s < 0)
        BY <1>3, <1>5, <2>1
    <2> HIDE DEF p, r, t
    <2>5. (r > 0 <=> s > 0) /\ r # 0
        BY ONLY <1>2, <2>4, s # 0
    <2> QED
        BY <1>5, <2>1, <2>2, <2>3, <2>5 DEF r
<1>9. EstimateRunsToFailure(y, limit) =
          IF distance = 0 THEN <<0, 1>> ELSE <<Magnitude(distance) * p, Magnitude(s) * p>>
    BY <1>7, <1>8 DEF EstimateRunsToFailure, n
<1> QED
    BY <1>4, <1>9

LEMMA OneLess ==
    ASSUME NEW a \in Int, NEW b \in Int, NEW p \in Int, NEW q \in Int
    PROVE  ((a - b) * q) * (b * p) = (a * p - b * p) * (b * q)
OBVIOUS

(***************************************************************************)
(* On a line towards a limit that is not reached, the runs left go down by *)
(* one with every run (trends.py:139-155, 184-186).                        *)
(***************************************************************************)
THEOREM LineCountsDown == Spec => CountsDown
<1> DEFINE Towards(limit) ==
              LET step == values'[2] - values'[1]
                  last == values[Len(values)]
              IN  Magnitude(limit - last) >= Magnitude(step) /\ (limit > last) = (step > 0) =>
                      /\ RunsToFailure(values, limit) # <<>>
                      /\ RunsToFailure(values', limit) # <<>>
                      /\ OneRunLess(RunsToFailure(values, limit), RunsToFailure(values', limit))
<1>1. values \in Seq(Nat) /\ [Next]_values =>
         [Straight(values') /\ Classify(values) = "trending" => \A limit \in Limits : Towards(limit)]_values
    <2> SUFFICES ASSUME values \in Seq(Nat), NEW u \in Measurable, Measure(u),
                        Straight(values'), Classify(values) = "trending", NEW limit \in Limits
                 PROVE  Towards(limit)
        BY DEF Next
    <2> DEFINE y == values
               z == values'
               n == Len(y)
               s == z[2] - z[1]
               a == limit - y[n]
               b == limit - z[n + 1]
    <2>1. limit \in Int /\ u \in Nat
        BY TrendsAssumption
    <2>2. /\ y \in Seq(Int) /\ z \in Seq(Int) /\ n \in Nat /\ Len(z) = n + 1
          /\ \A k \in 1 .. n : z[k] = y[k]
        <3>1. z = Append(values, u) /\ u \in Int /\ values \in Seq(Int)
            BY <2>1, SeqMonotonic DEF Measure
        <3> QED
            BY <3>1, AppendProperties, LenProperties
    <2>3. n >= 6 /\ VarianceN(y) > 0
        BY <2>2, ClassifiedNeedsLength
    <2>4. \A k \in 1 .. n + 1 : z[k] \in Int
        BY <2>2, LenProperties
    <2>5. z[1] = y[1] /\ z[2] = y[2] /\ s \in Int /\ Straight(y)
        <3>1. 1 \in 1 .. n /\ 2 \in 1 .. n /\ 1 \in 1 .. n + 1 /\ 2 \in 1 .. n + 1
            BY <2>2, <2>3
        <3>2. \A k \in 3 .. n : k \in 3 .. Len(z) /\ k \in 1 .. n /\ k - 1 \in 1 .. n
            BY <2>2, <2>3
        <3>3. \A k \in 3 .. n : z[k] - z[k-1] = z[2] - z[1]
            BY <3>2 DEF Straight
        <3>4. z[1] = y[1] /\ z[2] = y[2]
            BY <2>2, <3>1
        <3>5. \A k \in 3 .. n : y[k] - y[k-1] = y[2] - y[1]
            BY <2>2, <3>2, <3>3, <3>4
        <3> QED
            BY <2>4, <3>1, <3>4, <3>5 DEF Straight
    <2>6. s # 0
        <3> SUFFICES ASSUME s = 0 PROVE FALSE
            OBVIOUS
        <3>1. Square(n * s) * Spread(y) = 0
            <4>1. n * s = 0 /\ Spread(y) \in Int
                BY <2>2, <2>3, SpreadPositive
            <4> QED
                BY <4>1 DEF Square
        <3>2. 4 * (n * VarianceN(y)) = 0
            BY <2>2, <2>3, <2>5, <3>1, LineSums
        <3>3. VarianceN(y) \in Int
            BY <2>2, <2>3, DeviationsAre
        <3>4. n * VarianceN(y) \in Int /\ n * VarianceN(y) > 0
            BY <2>2, <2>3, <3>3
        <3> QED
            BY <3>2, <3>4
    <2>7. a \in Int /\ b \in Int /\ b = a - s
        <3>1. n + 1 \in 3 .. Len(z) /\ n + 1 \in 1 .. n + 1 /\ n \in 1 .. n + 1 /\ n \in 1 .. n /\ (n + 1) - 1 = n
            BY <2>2, <2>3
        <3>2. z[n + 1] - z[n] = s /\ z[n] = y[n]
            BY <2>2, <3>1 DEF Straight
        <3>3. z[n + 1] \in Int /\ z[n] \in Int
            BY <2>4, <3>1
        <3>4. s \in Int /\ limit \in Int
            BY <2>1, <2>5
        <3>5. a = limit - z[n] /\ b = limit - z[n + 1]
            BY <3>2
        <3> HIDE DEF s, z, y, n, a, b
        <3>6. \A v, w \in Int : w - v = s => limit - w = (limit - v) - s
            BY <3>4
        <3> QED
            BY ONLY <3>2, <3>3, <3>4, <3>5, <3>6
    <2>8. Classify(z) = "trending" /\ Classify(y) = "trending"
        <3>1. Len(z) >= TREND_RUN_LENGTH /\ z[2] # z[1]
            <4>1. z[1] \in Int /\ z[2] \in Int
                BY <2>2, <2>3, <2>4
            <4> QED
                BY <2>2, <2>3, <2>6, <4>1 DEF TREND_RUN_LENGTH
        <3> QED
            BY <2>2, <3>1, LineTrends
    <2> SUFFICES ASSUME Magnitude(a) >= Magnitude(s), (limit > y[n]) = (s > 0)
                 PROVE  /\ RunsToFailure(y, limit) # <<>>
                        /\ RunsToFailure(z, limit) # <<>>
                        /\ OneRunLess(RunsToFailure(y, limit), RunsToFailure(z, limit))
        OBVIOUS
    <2>9. (a > 0) = (s > 0) /\ a # 0
        <3>1. y[n] \in Int
            BY <2>2, <2>3, <2>4
        <3>2. (limit > y[n]) = (a > 0)
            BY <2>1, <3>1
        <3>3. Magnitude(s) \in Int /\ Magnitude(s) > 0
            BY <2>5, <2>6 DEF Magnitude
        <3>4. a # 0
            BY <3>3 DEF Magnitude
        <3> QED
            BY <3>2, <3>4
    <2>10. Magnitude(b) = Magnitude(a) - Magnitude(s) /\ (b # 0 => (b > 0) = (s > 0))
        <3>1. s \in Int /\ s # 0 /\ a \in Int /\ a # 0 /\ b \in Int /\ b = a - s
            BY <2>5, <2>6, <2>7, <2>9
        <3>2. a > 0 <=> s > 0
            BY <2>9
        <3>3. Magnitude(a) >= Magnitude(s)
            OBVIOUS
        <3> HIDE DEF a, b, s
        <3>4. CASE s > 0
            BY ONLY <3>1, <3>2, <3>3, <3>4 DEF Magnitude
        <3>5. CASE s < 0
            BY ONLY <3>1, <3>2, <3>3, <3>5 DEF Magnitude
        <3> QED
            BY <3>1, <3>4, <3>5
    <2>11. PICK p \in Int : p > 0 /\ RunsToFailure(y, limit) = <<Magnitude(a) * p, Magnitude(s) * p>>
        <3>1. Len(y) > 1 /\ s = y[2] - y[1]
            BY <2>3, <2>5
        <3>2. PICK p \in Int : p > 0 /\ EstimateRunsToFailure(y, limit) =
                  IF a = 0 THEN <<0, 1>> ELSE <<Magnitude(a) * p, Magnitude(s) * p>>
            <4>1. /\ y \in Seq(Int) /\ limit \in Int /\ s # 0 /\ Straight(y) /\ a = limit - y[Len(y)]
                  /\ (a # 0 => (a > 0) = (s > 0))
                BY <2>1, <2>2, <2>5, <2>6, <2>9
            <4> HIDE DEF y, s, a
            <4> QED
                BY ONLY <3>1, <4>1, LineEstimate
        <3> QED
            BY <2>8, <2>9, <3>2 DEF RunsToFailure
    <2>12. PICK q \in Int : q > 0 /\ RunsToFailure(z, limit) =
                  IF b = 0 THEN <<0, 1>> ELSE <<Magnitude(b) * q, Magnitude(s) * q>>
        <3>1. Len(z) > 1 /\ b = limit - z[Len(z)] /\ (b # 0 => (b > 0) = (s > 0))
            BY <2>2, <2>3, <2>10
        <3>2. PICK q \in Int : q > 0 /\ EstimateRunsToFailure(z, limit) =
                  IF b = 0 THEN <<0, 1>> ELSE <<Magnitude(b) * q, Magnitude(s) * q>>
            <4>1. z \in Seq(Int) /\ limit \in Int /\ s # 0 /\ Straight(z) /\ s = z[2] - z[1]
                BY <2>1, <2>2, <2>6
            <4> HIDE DEF z, s, b
            <4> QED
                BY ONLY <3>1, <4>1, LineEstimate
        <3> QED
            BY <2>8, <3>2 DEF RunsToFailure
    <2> HIDE DEF y, z, n, s, a, b
    <2>13. Magnitude(a) \in Int /\ Magnitude(s) \in Int
        BY <2>5, <2>7 DEF Magnitude
    <2>14. OneRunLess(RunsToFailure(y, limit), RunsToFailure(z, limit))
        <3>1. CASE b = 0
            <4>1. Magnitude(a) = Magnitude(s)
                BY <2>10, <2>13, <3>1 DEF Magnitude
            <4>2. Magnitude(s) * p \in Int
                BY <2>13
            <4>3. 0 * (Magnitude(s) * p) = (Magnitude(s) * p - Magnitude(s) * p) * 1
                BY <4>2
            <4> QED
                BY <2>11, <2>12, <3>1, <4>1, <4>3 DEF OneRunLess
        <3>2. CASE b # 0
            <4>1. ((Magnitude(a) - Magnitude(s)) * q) * (Magnitude(s) * p)
                     = (Magnitude(a) * p - Magnitude(s) * p) * (Magnitude(s) * q)
                BY <2>13, OneLess
            <4> QED
                BY <2>10, <2>11, <2>12, <3>2, <4>1 DEF OneRunLess
        <3> QED
            BY <3>1, <3>2
    <2>15. RunsToFailure(y, limit) # <<>> /\ RunsToFailure(z, limit) # <<>>
        BY <2>11, <2>12
    <2> QED
        BY <2>14, <2>15
<1> QED
    BY <1>1, Measurements, PTL DEF Spec, CountsDown
=============================================================================
