---------------------------- MODULE StationProofs ----------------------------
(***************************************************************************)
(* A run of a test plan, for every plan, selection, set of devices and     *)
(* configuration of faults.                                                *)
(***************************************************************************)
EXTENDS StationProperties, DeviceLinkProofs, FiniteSetTheorems

(***************************************************************************)
(* The selected steps of a plan and their places, without the state.       *)
(***************************************************************************)
IsList(q)       == q \in Seq({q[k] : k \in DOMAIN q})
Chosen(p, o, k) == {j \in 1 .. k : o.all \/ p[j].name \in o.names}
Places(p, o, i) == {k \in DOMAIN p : /\ o.all \/ p[k].name \in o.names
                                     /\ Cardinality(Chosen(p, o, k)) = i}
Place(p, o, i)  == CHOOSE k \in DOMAIN p :
                      /\ o.all \/ p[k].name \in o.names
                      /\ Cardinality(Chosen(p, o, k)) = i

LEMMA ListDomain ==
    ASSUME NEW p, IsList(p)
    PROVE  Len(p) \in Nat /\ DOMAIN p = 1 .. Len(p)
BY LenProperties DEF IsList

LEMMA ChosenFinite ==
    ASSUME NEW p, NEW o, NEW k \in Int
    PROVE  IsFiniteSet(Chosen(p, o, k)) /\ Cardinality(Chosen(p, o, k)) \in Nat
<1>1. IsFiniteSet(1 .. k)
    BY FS_Interval
<1>2. Chosen(p, o, k) \subseteq 1 .. k
    BY DEF Chosen
<1>3. IsFiniteSet(Chosen(p, o, k))
    BY <1>1, <1>2, FS_Subset
<1> QED
    BY <1>3, FS_CardinalityType

LEMMA ChosenGrows ==
    ASSUME NEW p, NEW o, NEW k \in Nat \ {0}
    PROVE  Cardinality(Chosen(p, o, k)) =
              Cardinality(Chosen(p, o, k - 1)) + (IF o.all \/ p[k].name \in o.names THEN 1 ELSE 0)
<1>1. IsFiniteSet(Chosen(p, o, k - 1)) /\ k \notin Chosen(p, o, k - 1)
    <2>1. k - 1 \in Int
        OBVIOUS
    <2>2. k \notin Chosen(p, o, k - 1)
        BY DEF Chosen
    <2> QED
        BY <2>1, <2>2, ChosenFinite
<1>2. CASE o.all \/ p[k].name \in o.names
    <2>1. Chosen(p, o, k) = Chosen(p, o, k - 1) \cup {k}
        BY <1>2 DEF Chosen
    <2> QED
        BY <1>1, <1>2, <2>1, FS_AddElement
<1>3. CASE ~(o.all \/ p[k].name \in o.names)
    <2>1. Chosen(p, o, k) = Chosen(p, o, k - 1)
        BY <1>3 DEF Chosen
    <2>2. Cardinality(Chosen(p, o, k - 1)) \in Nat
        BY ChosenFinite
    <2> QED
        BY <1>3, <2>1, <2>2
<1> QED
    BY <1>2, <1>3

LEMMA ChosenMonotonic ==
    ASSUME NEW p, NEW o, NEW j \in Int, NEW k \in Int, j <= k
    PROVE  Cardinality(Chosen(p, o, j)) <= Cardinality(Chosen(p, o, k))
<1>1. Chosen(p, o, j) \subseteq Chosen(p, o, k)
    BY DEF Chosen
<1> QED
    BY <1>1, ChosenFinite, FS_Subset

\* No two selected steps have the same place in the report.
LEMMA PlaceUnique ==
    ASSUME NEW p, IsList(p), NEW o, NEW j \in DOMAIN p, NEW k \in DOMAIN p,
           o.all \/ p[k].name \in o.names, j < k
    PROVE  Cardinality(Chosen(p, o, j)) < Cardinality(Chosen(p, o, k))
<1>1. j \in Nat /\ k \in Nat \ {0} /\ j <= k - 1
    BY ListDomain
<1>2. Cardinality(Chosen(p, o, j)) <= Cardinality(Chosen(p, o, k - 1))
    BY <1>1, ChosenMonotonic
<1>3. Cardinality(Chosen(p, o, k)) = Cardinality(Chosen(p, o, k - 1)) + 1
    BY <1>1, ChosenGrows
<1>4. /\ Cardinality(Chosen(p, o, j)) \in Nat
      /\ Cardinality(Chosen(p, o, k - 1)) \in Nat
    BY <1>1, ChosenFinite
<1> QED
    BY <1>2, <1>3, <1>4

LEMMA PlaceIs ==
    ASSUME NEW p, IsList(p), NEW o, NEW k \in DOMAIN p, o.all \/ p[k].name \in o.names
    PROVE  Place(p, o, Cardinality(Chosen(p, o, k))) = k
<1> DEFINE i == Cardinality(Chosen(p, o, k))
           Fits(j) == (o.all \/ p[j].name \in o.names) /\ Cardinality(Chosen(p, o, j)) = i
<1>1. ASSUME NEW j \in DOMAIN p, Fits(j) PROVE j = k
    <2>1. ~(j < k) /\ ~(k < j)
        <3>1. Cardinality(Chosen(p, o, j)) \in Nat /\ i \in Nat
            BY ListDomain, ChosenFinite
        <3> HIDE DEF i
        <3> QED
            BY <1>1, <3>1, PlaceUnique DEF i
    <2> QED
        BY <2>1, ListDomain
<1>2. Fits(k)
    OBVIOUS
<1>3. (CHOOSE j \in DOMAIN p : Fits(j)) = k
    <2> HIDE DEF Fits
    <2> QED
        BY <1>1, <1>2
<1> QED
    BY <1>3 DEF Place

\* Each place up to the number of selected steps is taken.
LEMMA PlaceTaken ==
    ASSUME NEW p, IsList(p), NEW o, NEW i \in 1 .. Cardinality(Chosen(p, o, Len(p)))
    PROVE  Place(p, o, i) \in Places(p, o, i)
<1> DEFINE T == {k \in DOMAIN p : Cardinality(Chosen(p, o, k)) >= i}
           card(k) == Cardinality(Chosen(p, o, k))
<1>0. Len(p) \in Nat /\ DOMAIN p = 1 .. Len(p) /\ \A k \in Int : card(k) \in Nat
    BY ListDomain, ChosenFinite
<1>1. card(0) = 0
    <2>1. Chosen(p, o, 0) = {}
        BY DEF Chosen
    <2> QED
        BY <2>1, FS_EmptySet
<1>2. T \subseteq Nat /\ T # {}
    <2>1. card(Len(p)) \in Nat /\ card(Len(p)) >= i
        BY <1>0
    <2>2. Len(p) # 0
        BY <1>1, <2>1
    <2>3. Len(p) \in T
        BY <1>0, <2>1, <2>2
    <2>4. T \subseteq Nat
        BY <1>0
    <2> QED
        BY <2>3, <2>4
<1>3. PICK k \in T : \A y \in T : ~(<<y, k>> \in OpToRel(<, Nat))
    <2> HIDE DEF T
    <2> QED
        BY <1>2, WFMin, NatLessThanWellFounded
<1>4. \A y \in T : ~(y < k)
    BY <1>2, <1>3 DEF OpToRel
<1>5. k \in DOMAIN p /\ k \in Nat \ {0} /\ card(k) >= i
    <2>1. k \in DOMAIN p /\ card(k) >= i
        OBVIOUS
    <2>2. Len(p) \in Nat /\ DOMAIN p = 1 .. Len(p)
        BY <1>0
    <2> HIDE DEF T, card
    <2>3. k \in 1 .. Len(p)
        BY <2>1, <2>2
    <2>4. k \in Nat \ {0}
        BY <2>2, <2>3
    <2> QED
        BY <2>1, <2>4
<1>6. card(k - 1) < i
    <2>1. CASE k = 1
        BY <1>0, <1>1, <2>1
    <2>2. CASE k # 1
        <3>1. k - 1 \in DOMAIN p /\ k - 1 < k /\ k - 1 \in Int
            <4>1. k \in 1 .. Len(p)
                BY <1>0, <1>5
            <4> HIDE DEF T, card
            <4> QED
                BY <1>0, <2>2, <4>1
        <3>2. ~(card(k - 1) >= i)
            BY <1>4, <3>1
        <3>3. card(k - 1) \in Nat
            BY <1>0, <3>1
        <3> HIDE DEF card
        <3> QED
            BY <3>2, <3>3
    <2> QED
        BY <2>1, <2>2
<1>7. card(k) = card(k - 1) + (IF o.all \/ p[k].name \in o.names THEN 1 ELSE 0)
    BY <1>5, ChosenGrows
<1>8. (o.all \/ p[k].name \in o.names) /\ card(k) = i
    <2>0. k \in Int /\ k - 1 \in Int
        BY <1>5
    <2> HIDE DEF card
    <2>1. card(k) \in Nat /\ card(k - 1) \in Nat
        BY <1>0, <2>0
    <2> QED
        BY <1>5, <1>6, <1>7, <2>1
<1>9. Place(p, o, i) = k
    BY <1>5, <1>8, PlaceIs
<1> QED
    BY <1>5, <1>8, <1>9 DEF Places

LEMMA ListGrows ==
    ASSUME NEW q, IsList(q), NEW x
    PROVE  /\ Append(q, x) \in Seq({Append(q, x)[k] : k \in DOMAIN Append(q, x)})
           /\ Len(Append(q, x)) = Len(q) + 1 /\ Append(q, x)[Len(q) + 1] = x
           /\ \A i \in 1 .. Len(q) : Append(q, x)[i] = q[i]
<1> DEFINE S == {q[k] : k \in DOMAIN q} \cup {x}
           r == Append(q, x)
<1>1. q \in Seq(S) /\ x \in S
    <2>1. \A A, B : A \subseteq B => Seq(A) \subseteq Seq(B)
        BY SeqMonotonic
    <2> QED
        BY <2>1 DEF IsList
<1> HIDE DEF S
<1>2. /\ r \in Seq(S) /\ Len(r) = Len(q) + 1 /\ r[Len(q) + 1] = x
      /\ \A i \in 1 .. Len(q) : r[i] = q[i]
    BY <1>1, AppendProperties
<1> HIDE DEF r
<1>3. r \in Seq({r[k] : k \in DOMAIN r})
    <2>1. r = [k \in 1 .. Len(r) |-> r[k]] /\ Len(r) \in Nat /\ DOMAIN r = 1 .. Len(r)
        BY <1>2, LenProperties
    <2> QED
        BY <2>1, IsASeq
<1> QED
    BY <1>2, <1>3 DEF r
------------------------------------------------------------------------------
(***************************************************************************)
(* Where a run is: the sequencer awaits a call only at a selected step of  *)
(* the plan, a run is closed when the plan is done and unwound when it is  *)
(* not, and the report has an outcome for each selected step passed.       *)
(***************************************************************************)
RunState == {"connecting", "stepping", "closing", "stopping", "unwinding", "returned", "raised"}

Walk ==
    /\ plan \in Plans /\ only \in Selections /\ run \in RunState
    /\ pos \in 1 .. Len(plan) + 1
    /\ awaiting => run = "stepping" /\ pos <= Len(plan) /\ Selected(step) /\ Known
    /\ run \in {"closing", "stopping", "returned"} => pos = Len(plan) + 1
    /\ run \in {"unwinding", "raised"} => pos <= Len(plan) /\ Selected(step)

Filled ==
    /\ IsList(outcomes)
    /\ Len(outcomes) = Cardinality(Chosen(plan, only, pos - 1))
    /\ \A i \in 1 .. Len(outcomes) : /\ outcomes[i].name = plan[Place(plan, only, i)].name
                                     /\ outcomes[i].passed \in BOOLEAN

Torn ==
    /\ run \in {"stopping", "returned"} => \A c \in Client : link[c] = "left"
    /\ run = "returned" => up = {}

\* Plans are lists, and what the sequencer asks for is a request.
LEMMA PlanSteps ==
    ASSUME Walk
    PROVE  /\ IsList(plan) /\ Len(plan) \in Nat /\ DOMAIN plan = 1 .. Len(plan) /\ pos \in Nat \ {0}
           /\ pos <= Len(plan) /\ Known => step.device \in Client /\ RequestOf(step) \in Requests
<1>1. IsList(plan)
    BY PlansAssumption DEF Walk, IsList
<1>2. Len(plan) \in Nat /\ DOMAIN plan = 1 .. Len(plan)
    BY <1>1, ListDomain
<1>3. pos \in Nat \ {0}
    BY <1>2 DEF Walk
<1>4. pos <= Len(plan) => pos \in DOMAIN plan
    BY <1>2, <1>3
<1> QED
    BY <1>1, <1>2, <1>3, <1>4, OneClientPerDevice, PlansAssumption DEF Walk, Known, KnownStep, step

(***************************************************************************)
(* The clients, streams and servers of a station are those of DeviceLink:  *)
(* what holds there holds in every run of a plan.                          *)
(***************************************************************************)
LEMMA StepIsLink == Walk /\ [StationNext]_allVars => [Next]_vars
<1> SUFFICES ASSUME Walk, [StationNext]_allVars PROVE [Next]_vars
    OBVIOUS
<1>1. CASE IssueStep \/ IssueRaises
    <2>1. step.device \in Client /\ RequestOf(step) \in Requests
        BY <1>1, PlanSteps DEF IssueStep, IssueRaises, Stepping
    <2>2. Send(step.device, RequestOf(step)) \/ Refuse(step.device, RequestOf(step))
        BY <1>1 DEF IssueStep, IssueRaises
    <2> QED
        BY <2>1, <2>2 DEF Next
<1>2. CASE \E c \in Client : ConnectAll(c) \/ CloseClient(c) \/ StopServer(c)
    BY <1>2 DEF ConnectAll, CloseClient, StopServer, Next
<1>3. CASE SkipStep \/ UnknownStep \/ FinishStep \/ FinishPlan \/ ClientsClosed
    BY <1>3 DEF SkipStep, UnknownStep, FinishStep, FinishPlan, ClientsClosed
<1>4. CASE StationNet
    BY <1>4 DEF StationNet, Next, Network
<1>5. CASE Ended \/ UNCHANGED allVars
    BY <1>5 DEF Ended, allVars
<1> QED
    BY <1>1, <1>2, <1>3, <1>4, <1>5 DEF StationNext, Sequence

LEMMA InitWalk == StationInit => Walk /\ Filled /\ Torn
<1> SUFFICES ASSUME StationInit PROVE Walk /\ Filled /\ Torn
    OBVIOUS
<1>1. IsList(plan) /\ Len(plan) \in Nat
    BY PlansAssumption, ListDomain DEF StationInit, IsList
<1>2. Walk
    BY <1>1 DEF StationInit, Walk, RunState
<1>3. Filled
    <2>1. Chosen(plan, only, pos - 1) = {}
        BY DEF StationInit, Chosen
    <2>2. IsList(<<>>) /\ Len(<<>>) = 0
        BY EmptySeq DEF IsList
    <2>3. outcomes = <<>>
        BY DEF StationInit
    <2>4. Len(outcomes) = 0 /\ Cardinality(Chosen(plan, only, pos - 1)) = 0
        BY <2>1, <2>2, <2>3, FS_EmptySet
    <2>5. IsList(outcomes)
        BY <2>2, <2>3
    <2> QED
        BY <2>4, <2>5 DEF Filled
<1>4. Torn
    BY DEF StationInit, Torn
<1> QED
    BY <1>2, <1>3, <1>4

\* What the sequencer does not touch.
LEMMA WalkStays ==
    ASSUME Walk, Filled, UNCHANGED <<job, sequencer>>, run' \in RunState,
           awaiting => run' = run,
           run' \in {"closing", "stopping", "returned"} => pos = Len(plan) + 1,
           run' \in {"unwinding", "raised"} => pos <= Len(plan) /\ Selected(step)
    PROVE  Walk' /\ Filled'
<1>1. plan' = plan /\ only' = only /\ pos' = pos /\ awaiting' = awaiting /\ outcomes' = outcomes
    BY DEF job, sequencer
<1>2. step' = step /\ Known' = Known /\ Selected(step)' = Selected(step)
    BY <1>1 DEF step, Known, KnownStep, Selected
<1> QED
    BY <1>1, <1>2 DEF Walk, Filled

\* The sequencer passes the step it is at, with an outcome if it is selected.
LEMMA WalkOn ==
    ASSUME Walk, Filled, UNCHANGED job, run = "stepping", run' = run, ~awaiting', pos <= Len(plan),
           pos' = pos + 1,
           IF Selected(step)
           THEN \E o : outcomes' = Append(outcomes, o) /\ o.name = step.name /\ o.passed \in BOOLEAN
           ELSE outcomes' = outcomes
    PROVE  Walk' /\ Filled'
<1>0. /\ IsList(plan) /\ Len(plan) \in Nat /\ pos \in Nat \ {0} /\ pos \in DOMAIN plan
      /\ plan' = plan /\ only' = only
    BY PlanSteps DEF job
<1>1. Walk'
    BY <1>0 DEF Walk
<1>2. Cardinality(Chosen(plan, only, pos)) =
         Cardinality(Chosen(plan, only, pos - 1)) + (IF Selected(step) THEN 1 ELSE 0)
    BY <1>0, ChosenGrows DEF Selected, step
<1>3. pos' - 1 = pos /\ Cardinality(Chosen(plan, only, pos - 1)) \in Nat
    BY <1>0, ChosenFinite
<1>4. CASE ~Selected(step)
    BY <1>0, <1>1, <1>2, <1>3, <1>4 DEF Filled
<1>5. CASE Selected(step)
    <2>1. PICK o : outcomes' = Append(outcomes, o) /\ o.name = step.name /\ o.passed \in BOOLEAN
        BY <1>5
    <2> DEFINE n == Len(outcomes)
    <2>2. /\ IsList(outcomes)' /\ Len(outcomes)' = n + 1 /\ outcomes'[n + 1] = o
          /\ \A i \in 1 .. n : outcomes'[i] = outcomes[i]
        BY <2>1, ListGrows DEF Filled, IsList
    <2>3. n = Cardinality(Chosen(plan, only, pos - 1)) /\ n \in Nat
          /\ n + 1 = Cardinality(Chosen(plan, only, pos))
        BY <1>2, <1>3, <1>5 DEF Filled
    <2>4. Place(plan, only, n + 1) = pos
        BY <1>0, <1>5, <2>3, PlaceIs DEF Selected, step
    <2> HIDE DEF n
    <2>5. \A i \in 1 .. n + 1 : /\ outcomes'[i].name = plan[Place(plan, only, i)].name
                                /\ outcomes'[i].passed \in BOOLEAN
        <3>1. \A i \in 1 .. n + 1 : i \in 1 .. n \/ i = n + 1
            BY <2>3
        <3> QED
            BY <2>1, <2>2, <2>4, <3>1 DEF Filled, step, n
    <2> QED
        BY <1>0, <1>1, <1>3, <2>2, <2>3, <2>5 DEF Filled
<1> QED
    BY <1>4, <1>5

\* A verdict is that of its step, and a Boolean.
LEMMA Judged ==
    ASSUME NEW s, NEW res
    PROVE  Judge(s, res).name = s.name /\ Judge(s, res).passed \in BOOLEAN
<1>1. \A m : Meets(s, m) \in BOOLEAN
    BY DEF Meets
<1>2. \A b, w, m : Outcome(s, b, w, m).name = s.name /\ Outcome(s, b, w, m).passed = b
    BY DEF Outcome
<1>3. \E b \in BOOLEAN : \E w, m : Judge(s, res) = Outcome(s, b, w, m)
    <2>1. CASE res.what \notin {"values", "written"}
        BY <2>1, Zenon DEF Judge
    <2>2. CASE res.what \in {"values", "written"} /\ s.action = "write"
        BY <2>2, Zenon DEF Judge
    <2>3. CASE res.what \in {"values", "written"} /\ s.action # "write"
        BY <1>1, <2>3, Zenon DEF Judge
    <2> QED
        BY <2>1, <2>2, <2>3
<1>4. PICK b \in BOOLEAN : \E w, m : Judge(s, res) = Outcome(s, b, w, m)
    BY <1>3
<1>5. PICK w, m : Judge(s, res) = Outcome(s, b, w, m)
    BY <1>4
<1>6. Judge(s, res).name = s.name /\ Judge(s, res).passed = b
    BY <1>2, <1>5
<1> QED
    BY <1>4, <1>6

LEMMA StepWalk ==
    ASSUME Walk, Filled, [StationNext]_allVars PROVE Walk' /\ Filled'
<1>1. CASE SkipStep
    <2>1. ~Selected(step) /\ ~awaiting' /\ UNCHANGED <<job, run, outcomes>> /\ run = "stepping"
          /\ pos <= Len(plan) /\ pos' = pos + 1
        BY <1>1 DEF SkipStep, Stepping
    <2> QED
        BY <2>1, WalkOn
<1>2. CASE UnknownStep
    <2>1. Selected(step) /\ ~awaiting' /\ UNCHANGED <<job, run>> /\ run = "stepping"
          /\ pos <= Len(plan) /\ pos' = pos + 1
          /\ outcomes' = Append(outcomes, Outcome(step, FALSE, "unknown", <<>>))
        BY <1>2 DEF UnknownStep, Stepping, Record
    <2>2. /\ Outcome(step, FALSE, "unknown", <<>>).name = step.name
          /\ Outcome(step, FALSE, "unknown", <<>>).passed \in BOOLEAN
        BY DEF Outcome
    <2>3. \E o : outcomes' = Append(outcomes, o) /\ o.name = step.name /\ o.passed \in BOOLEAN
        BY <2>1, <2>2
    <2> QED
        BY <2>1, <2>3, WalkOn
<1>3. CASE IssueStep
    BY <1>3, PlanSteps DEF IssueStep, Stepping, Walk, Filled, job, Selected, Known, KnownStep, step
<1>4. CASE IssueRaises
    <2>1. /\ UNCHANGED <<job, sequencer>> /\ ~awaiting /\ run' = "unwinding"
          /\ pos <= Len(plan) /\ Selected(step)
        BY <1>4 DEF IssueRaises, Stepping
    <2> QED
        BY <2>1, WalkStays DEF RunState
<1>5. CASE FinishStep
    <2>1. /\ run = "stepping" /\ awaiting /\ ~awaiting' /\ UNCHANGED job
          /\ pos <= Len(plan) /\ Selected(step)
        BY <1>5 DEF FinishStep, Walk
    <2>2. CASE result[step.device].what = "ConnectionError"
        <3>1. run' = "unwinding" /\ pos' = pos /\ outcomes' = outcomes
            BY <1>5, <2>2 DEF FinishStep
        <3> QED
            BY <2>1, <3>1 DEF Walk, Filled, RunState, job, Selected, step
    <2>3. CASE result[step.device].what # "ConnectionError"
        <3> DEFINE o == Judge(step, result[step.device])
        <3>1. run' = run /\ pos' = pos + 1 /\ outcomes' = Append(outcomes, o)
            BY <1>5, <2>3 DEF FinishStep, Record
        <3>2. o.name = step.name /\ o.passed \in BOOLEAN
            BY Judged
        <3> HIDE DEF o
        <3> QED
            BY <2>1, <3>1, <3>2, WalkOn
    <2> QED
        BY <2>2, <2>3
<1>6. CASE FinishPlan
    <2>1. UNCHANGED <<job, sequencer>> /\ run = "stepping" /\ run' = "closing" /\ pos > Len(plan)
        BY <1>6 DEF FinishPlan
    <2>2. ~awaiting /\ pos = Len(plan) + 1
        BY <2>1, PlanSteps DEF Walk
    <2> QED
        BY <2>1, <2>2, WalkStays DEF RunState
<1>7. CASE ClientsClosed
    <2>1. /\ UNCHANGED <<job, sequencer>>
          /\ \/ run = "closing" /\ run' = "stopping"
             \/ run = "unwinding" /\ run' = "raised"
        BY <1>7 DEF ClientsClosed
    <2>2. ~awaiting
        BY <2>1 DEF Walk
    <2> QED
        BY <2>1, <2>2, WalkStays DEF RunState, Walk
<1>8. CASE \E c \in Client : ConnectAll(c)
    <2>1. /\ UNCHANGED <<job, sequencer>> /\ run = "connecting"
          /\ run' \in {"connecting", "stepping"}
        BY <1>8 DEF ConnectAll
    <2>2. ~awaiting
        BY <2>1 DEF Walk
    <2> QED
        BY <2>1, <2>2, WalkStays DEF RunState
<1>9. CASE \E c \in Client : StopServer(c)
    <2>1. UNCHANGED <<job, sequencer>> /\ run = "stopping" /\ run' \in {"stopping", "returned"}
        BY <1>9 DEF StopServer, sequencer
    <2>2. ~awaiting
        BY <2>1 DEF Walk
    <2> QED
        BY <2>1, <2>2, WalkStays DEF RunState, Walk
<1>10. CASE \/ \E c \in Client : CloseClient(c)
            \/ StationNet \/ Ended \/ UNCHANGED allVars
    <2>1. UNCHANGED <<job, sequencer, run>>
        BY <1>10 DEF CloseClient, StationNet, Ended, allVars, stationVars
    <2> QED
        BY <2>1, WalkStays DEF Walk
<1> QED
    BY <1>1, <1>2, <1>3, <1>4, <1>5, <1>6, <1>7, <1>8, <1>9, <1>10 DEF StationNext, Sequence

\* A client that has closed its connection does not come back.
LEMMA LeftForGood ==
    ASSUME TypeOK, [Next]_vars, NEW c \in Client, link[c] = "left"
    PROVE  link'[c] = "left"
<1>1. CASE \E o \in Client, req \in Requests : Send(o, req) \/ Refuse(o, req)
    BY <1>1 DEF Send, Refuse, TypeOK
<1>2. CASE \E o \in Client : Connect(o) \/ Close(o) \/ Hang(o)
    BY <1>2 DEF Connect, Close, Hang, TypeOK
<1>3. CASE \E o \in Client : ClientReturns(o)
    BY <1>3 DEF ClientReturns, Receive, Expire, Eof, ReadRaises, GiveUp
<1>4. CASE \E o \in Client : ApplyDelay(o) \/ Answer(o) \/ EndOfRequests(o)
    BY <1>4 DEF ApplyDelay, Answer, EndOfRequests
<1>5. CASE Tick \/ UNCHANGED vars
    BY <1>5 DEF Tick, vars
<1> QED
    BY <1>1, <1>2, <1>3, <1>4, <1>5 DEF Next, Network, ServerStep

LEMMA StepTorn ==
    ASSUME TypeOK, Walk, Torn, [StationNext]_allVars PROVE Torn'
<1>1. \A c \in Client : link[c] = "left" => link'[c] = "left"
    BY StepIsLink, LeftForGood
<1>2. CASE run' = run /\ run \notin {"stopping", "returned"}
    BY <1>2 DEF Torn
<1>3. CASE run' \in {"connecting", "stepping", "closing", "unwinding", "raised"}
    BY <1>3 DEF Torn
<1>4. CASE ClientsClosed
    BY <1>1, <1>4 DEF ClientsClosed, Torn
<1>5. CASE \E c \in Client : StopServer(c)
    BY <1>1, <1>5 DEF StopServer, Torn
<1>6. CASE run \in {"stopping", "returned"} /\ run' = run /\ up' = up
    BY <1>1, <1>6 DEF Torn
<1>7. \/ run' = run /\ up' = up
      \/ run' \in {"connecting", "stepping", "closing", "unwinding", "raised"}
      \/ ClientsClosed
      \/ \E c \in Client : StopServer(c)
    <2>1. CASE StationNext
        <3>1. CASE SkipStep \/ UnknownStep \/ IssueStep \/ IssueRaises
            BY <3>1 DEF SkipStep, UnknownStep, IssueStep, IssueRaises
        <3>2. CASE FinishStep \/ FinishPlan
            BY <3>2 DEF FinishStep, FinishPlan
        <3>3. CASE \E c \in Client : ConnectAll(c) \/ CloseClient(c)
            BY <3>3 DEF ConnectAll, CloseClient, stationVars
        <3>4. CASE StationNet \/ Ended
            BY <3>4 DEF StationNet, Ended, allVars, stationVars
        <3> QED
            BY <2>1, <3>1, <3>2, <3>3, <3>4 DEF StationNext, Sequence
    <2>2. CASE UNCHANGED allVars
        BY <2>2 DEF allVars, stationVars
    <2> QED
        BY <2>1, <2>2
<1> QED
    BY <1>2, <1>3, <1>4, <1>5, <1>6, <1>7

LEMMA Walking == StationSpec => [](Walk /\ Filled)
<1>1. StationInit => Walk /\ Filled
    BY InitWalk
<1>2. Walk /\ Filled /\ [StationNext]_allVars => (Walk /\ Filled)'
    BY StepWalk
<1> QED
    BY <1>1, <1>2, PTL DEF StationSpec

(***************************************************************************)
(* Every run of a station is a run of DeviceLink, so what is proved of     *)
(* clients, servers and devices holds in it.                               *)
(***************************************************************************)
THEOREM StationIsLink == StationSpec => Spec
<1>1. StationInit => Init
    BY DEF StationInit
<1>2. Walk /\ [StationNext]_allVars => [Next]_vars
    BY StepIsLink
<1> QED
    BY <1>1, <1>2, Walking, PTL DEF StationSpec, Spec

LEMMA LinkInStation == StationSpec => [](TypeOK /\ IInv /\ Promised)
BY StationIsLink, AlwaysPromised, PTL

(***************************************************************************)
(* A report comes only when no client is connected and no server listens.  *)
(***************************************************************************)
THEOREM TornDownFirst == StationSpec => []ReportAfterTeardown
<1>1. StationInit => Torn
    BY InitWalk
<1>2. TypeOK /\ Walk /\ Torn /\ [StationNext]_allVars => Torn'
    BY StepTorn
<1>3. Torn => ReportAfterTeardown
    BY DEF Torn, ReportAfterTeardown
<1> QED
    BY <1>1, <1>2, <1>3, Walking, LinkInStation, PTL DEF StationSpec

------------------------------------------------------------------------------
(***************************************************************************)
(* The requests that the steps of a plan make.                             *)
(***************************************************************************)
Asks(d, k) == Wants(k) /\ KnownStep(plan[k]) /\ plan[k].device = d

\* The requests to a device grow by the steps that ask it something.
LEMMA RequestsFinite ==
    ASSUME NEW d, NEW k \in Int
    PROVE  /\ IsFiniteSet(RequestsTo(d, k)) /\ Cardinality(RequestsTo(d, k)) \in Nat
           /\ RequestsTo(d, k) = {} <=> Cardinality(RequestsTo(d, k)) = 0
<1>1. IsFiniteSet(1 .. k) /\ RequestsTo(d, k) \subseteq 1 .. k
    BY FS_Interval DEF RequestsTo
<1> QED
    BY <1>1, FS_Subset, FS_CardinalityType, FS_EmptySet

LEMMA RequestsGrow ==
    ASSUME NEW d, NEW k \in Nat \ {0}
    PROVE  IF Asks(d, k)
           THEN /\ RequestsTo(d, k) = RequestsTo(d, k - 1) \cup {k}
                /\ Cardinality(RequestsTo(d, k)) = Cardinality(RequestsTo(d, k - 1)) + 1
           ELSE RequestsTo(d, k) = RequestsTo(d, k - 1)
<1>1. \A j : j \in 1 .. k <=> j \in 1 .. k - 1 \/ j = k
    OBVIOUS
<1>2. k \notin RequestsTo(d, k - 1)
    BY DEF RequestsTo
<1>3. CASE Asks(d, k)
    <2>1. RequestsTo(d, k) = RequestsTo(d, k - 1) \cup {k}
        BY <1>1, <1>3 DEF RequestsTo, Asks
    <2>2. IsFiniteSet(RequestsTo(d, k - 1))
        BY RequestsFinite
    <2> QED
        BY <1>2, <1>3, <2>1, <2>2, FS_AddElement
<1>4. CASE ~Asks(d, k)
    <2>1. RequestsTo(d, k) = RequestsTo(d, k - 1)
        BY <1>1, <1>4 DEF RequestsTo, Asks
    <2> QED
        BY <1>4, <2>1
<1> QED
    BY <1>3, <1>4

LEMMA StepAsked ==
    ASSUME Walk, NEW k \in DOMAIN plan, KnownStep(plan[k])
    PROVE  LET s   == plan[k]
               d   == s.device
               reg == Profile[d].named[s.register]
               req == RequestOf(s)
           IN  /\ IsStep(s) /\ d \in Device /\ req \in RequestType
               /\ req.intact /\ req.unit = Profile[d].unit /\ req.addr = Address(s)
               /\ Address(s) = reg.address
               /\ s.action = "write" =>
                     req.fc = "WRITE_SINGLE_REGISTER" /\ req.qty = s.write
               /\ s.action # "write" =>
                     /\ req.qty = 1
                     /\ req.fc = IF reg.kind = "input" THEN "READ_INPUT_REGISTERS"
                                 ELSE "READ_HOLDING_REGISTERS"
                     /\ reg.address \in DOMAIN (IF reg.kind = "input" THEN Profile[d].input
                                                ELSE Profile[d].holding)
<1> DEFINE s == plan[k]
           d == s.device
<1>1. IsStep(s) /\ RequestOf(s) \in Requests
    BY PlansAssumption DEF Walk
<1>2. d \in Device /\ s.register \in DOMAIN Profile[d].named
    BY DEF KnownStep
<1> QED
    BY <1>1, <1>2, RequestsAssumption, NamedAssumption
    DEF RequestOf, EncodeRead, EncodeWriteSingle, Frame, Address

LEMMA RequestsMonotonic ==
    ASSUME NEW d, NEW j \in Int, NEW k \in Int, j <= k
    PROVE  RequestsTo(d, j) \subseteq RequestsTo(d, k)
           /\ Cardinality(RequestsTo(d, j)) <= Cardinality(RequestsTo(d, k))
<1>1. RequestsTo(d, j) \subseteq RequestsTo(d, k)
    BY DEF RequestsTo
<1> QED
    BY <1>1, RequestsFinite, FS_Subset

\* What a run is asked to do, and what its steps can end in, stays the same.
LEMMA EndsFixed ==
    ASSUME UNCHANGED job, UNCHANGED config
    PROVE  /\ plan' = plan /\ only' = only /\ faults' = faults /\ framing' = framing
           /\ \A d, k : RequestsTo(d, k)' = RequestsTo(d, k)
           /\ \A k : HangsUp(k)' <=> HangsUp(k)
           /\ \A d, k : HungUpBefore(d, k)' <=> HungUpBefore(d, k)
           /\ \A k : Ends(k)' = Ends(k)
           /\ SelectedSteps' = SelectedSteps
<1>1. plan' = plan /\ only' = only /\ faults' = faults /\ framing' = framing
    BY DEF job, config
<1>2. \A d, k : RequestsTo(d, k)' = RequestsTo(d, k)
    BY <1>1 DEF RequestsTo, Wants
<1>3. \A k : HangsUp(k)' <=> HangsUp(k)
    BY <1>1, <1>2 DEF HangsUp, Dropped
<1>4. \A d, k : HungUpBefore(d, k)' <=> HungUpBefore(d, k)
    BY <1>2, <1>3 DEF HungUpBefore
<1>5. \A k : Ends(k)' = Ends(k)
    BY <1>1, <1>4, Zenon DEF Ends
<1>6. SelectedSteps' = SelectedSteps
    BY <1>1, <1>5 DEF SelectedSteps, Position, Wants
<1> QED
    BY <1>1, <1>2, <1>3, <1>4, <1>5, <1>6

\* A request fits its frame unless it writes more than a word.
LEMMA StepFits ==
    ASSUME Walk, NEW k \in DOMAIN plan, KnownStep(plan[k])
    PROVE  /\ Encodable(RequestOf(plan[k])) <=> ~(plan[k].action = "write" /\ plan[k].write \notin Word)
           /\ Packable(RequestOf(plan[k]))
<1> DEFINE s == plan[k]
           d == s.device
           reg == Profile[d].named[s.register]
           req == RequestOf(s)
<1>1. d \in Device /\ reg.address \in Word /\ 1 \in Word
    BY NamedAssumption DEF KnownStep
<1>2. req.addr = reg.address /\ req.block = <<>>
    BY DEF RequestOf, EncodeRead, EncodeWriteSingle, Frame
<1>3. IF s.action = "write" THEN req.qty = s.write ELSE req.qty = 1
    BY StepAsked
<1>4. Packable(req)
    BY <1>2 DEF Packable
<1> QED
    BY <1>1, <1>2, <1>3, <1>4 DEF Encodable
------------------------------------------------------------------------------
(***************************************************************************)
(* Why a run ends without a report.  The requests in a stream are those of *)
(* steps of the plan, each numbered by the requests that came before it,   *)
(* and a connection that is not open any more was closed on one of them.   *)
(***************************************************************************)
Upto == IF awaiting THEN pos ELSE pos - 1

Traced(d, m) == \E j \in RequestsTo(d, Upto) :
                   m.req = RequestOf(plan[j]) /\ m.id = Cardinality(RequestsTo(d, j))

Tracked(d) ==
    /\ sent[d] = Cardinality(RequestsTo(d, Upto))
    /\ \A i \in 1 .. Len(toServer[d]) : Traced(d, toServer[d][i])
    /\ link[d] # "left" /\ (run = "stepping" => link[d] # "unconnected")
    /\ link[d] = "closed" => HungUpBefore(d, Upto)
    /\ link[d] \in {"reset", "aborted"} => HungUpBefore(d, pos - 1)
    /\ result[d].what = "ConnectionError" => HungUpBefore(d, pos - 1)

Causes ==
    /\ awaiting => Encodable(RequestOf(step))
    /\ run \in {"connecting", "stepping"} => \A d \in Device : Tracked(d)

\* What Tracked looks at.
OfLink(d) == <<link[d], toServer[d], result[d], sent[d]>>

LEMMA CausesBegin == StationInit => Causes
<1> SUFFICES ASSUME StationInit, NEW d \in Device PROVE ~awaiting /\ Tracked(d)
    BY DEF Causes, StationInit
<1>1. /\ ~awaiting /\ pos = 1 /\ link[d] = "unconnected" /\ toServer[d] = <<>>
      /\ result[d].what = "none" /\ sent[d] = 0 /\ run = "connecting"
    BY OneClientPerDevice DEF StationInit, Init, NoResult
<1>2. RequestsTo(d, 0) = {} /\ Upto = 0
    BY <1>1 DEF RequestsTo, Upto
<1>3. Cardinality(RequestsTo(d, Upto)) = 0
    BY <1>2, FS_EmptySet
<1>4. Len(toServer[d]) = 0
    BY <1>1, EmptySeq
<1> QED
    BY <1>1, <1>3, <1>4 DEF Tracked

\* Nothing of a device's connection changes while the run goes on.
LEMMA TrackedStays ==
    ASSUME Walk, NEW d \in Device, Tracked(d), UNCHANGED <<job, config, OfLink(d)>>,
           run \in {"connecting", "stepping"}, run' \in {"connecting", "stepping"},
           run' = "stepping" => run = "stepping" \/ link[d] # "unconnected",
           pos' >= pos, pos' \in Nat, Upto' >= Upto, Upto' \in Int,
           RequestsTo(d, Upto') = RequestsTo(d, Upto)
    PROVE  Tracked(d)'
<1>0. pos \in Nat \ {0} /\ Upto \in Int
    BY PlanSteps DEF Upto
<1>1. /\ link'[d] = link[d] /\ toServer'[d] = toServer[d] /\ result'[d] = result[d] /\ sent'[d] = sent[d]
      /\ plan' = plan
    BY DEF OfLink, job
<1>2. /\ \A e, k : RequestsTo(e, k)' = RequestsTo(e, k)
      /\ \A e, k : HungUpBefore(e, k)' <=> HungUpBefore(e, k)
    BY EndsFixed
<1>3. HungUpBefore(d, Upto) => HungUpBefore(d, Upto')
    BY DEF HungUpBefore
<1>4. HungUpBefore(d, pos - 1) => HungUpBefore(d, pos' - 1)
    BY <1>0, RequestsMonotonic DEF HungUpBefore
<1>5. \A m : Traced(d, m) => Traced(d, m)'
    BY <1>1, <1>2 DEF Traced, RequestOf
<1> QED
    BY <1>1, <1>2, <1>3, <1>4, <1>5 DEF Tracked

(***************************************************************************)
(* A handler closes its connection on a request that is one to hang up on. *)
(***************************************************************************)
LEMMA HangsUpOn ==
    ASSUME TypeOK, IInv, Promised, Walk, NEW d \in Device, Tracked(d), Hang(d)
    PROVE  \E j \in RequestsTo(d, Upto) :
              HangsUp(j) /\ (Len(toServer[d]) # 1 => j \in RequestsTo(d, pos - 1))
<1> DEFINE req == Head(toServer[d]).req
           out == HandleFrame(Profile[d], faults[d], holding[d], count[d] + 1, req)
<1>0. d \in Client /\ DeviceOf[d] = d /\ SoleClient(d) /\ pos \in Nat \ {0} /\ Upto \in Int
    BY OneClientPerDevice, PlanSteps DEF SoleClient, Upto
<1>1. /\ toServer[d] \in Seq(WireRequest) /\ toServer[d] # <<>>
      /\ Unwrappable(Response(d)) /\ Response(d) = CorruptCrc(faults[d], out.reply)
    BY <1>0 DEF Hang, Ready, Response, Handled, TypeOK
<1>2. /\ Len(toServer[d]) \in Nat \ {0} /\ Head(toServer[d]) = toServer[d][1]
      /\ DOMAIN toServer[d] = 1 .. Len(toServer[d])
    BY <1>1, HeadTailProperties, LenProperties, EmptySeq
<1>3. link[d] = "open"
    <2>1. link[d] \in {"open", "left"}
        BY <1>0, <1>1 DEF Promised, Promises, Living
    <2> QED
        BY <2>1 DEF Tracked
<1>4. /\ count[d] = got[d] + Len(toClient[d])
      /\ Head(toServer[d]).id = got[d] + Len(toClient[d]) + 1
      /\ sent[d] = got[d] + Len(toClient[d]) + Len(toServer[d])
      /\ got[d] \in Nat /\ Len(toClient[d]) \in Nat
    <2>1. count[d] = got[d] + Len(toClient[d])
        BY <1>0, <1>3 DEF Promised, Promises, Counted
    <2>2. /\ Consecutive(toServer[d], got[d] + Len(toClient[d]))
          /\ sent[d] = got[d] + Len(toClient[d]) + Len(toServer[d])
        BY <1>0, <1>3 DEF IInv, LinkInv, Aligned
    <2>3. 1 \in DOMAIN toServer[d]
        BY <1>2
    <2> QED
        BY <1>0, <1>2, <2>1, <2>2, <2>3, Counting DEF Consecutive
<1>5. PICK j \in RequestsTo(d, Upto) : req = RequestOf(plan[j])
                                      /\ Head(toServer[d]).id = Cardinality(RequestsTo(d, j))
    <2>1. 1 \in 1 .. Len(toServer[d])
        BY <1>2
    <2> QED
        BY <1>2, <2>1 DEF Tracked, Traced
<1>6. /\ j \in DOMAIN plan /\ j \in Int /\ KnownStep(plan[j]) /\ plan[j].device = d
      /\ j <= Upto
    BY <1>0, PlanSteps DEF RequestsTo, Upto, Walk
<1>7. count[d] + 1 = Cardinality(RequestsTo(d, j))
    BY <1>4, <1>5
<1>8. HangsUp(j)
    <2> SUFFICES ASSUME ~Dropped(j)
                 PROVE  /\ framing = "modbus-tcp" /\ HasFault(faults[d], "crc_corrupt")
                        /\ plan[j].action = "write"
                        /\ Address(plan[j]) \in DOMAIN Profile[d].holding
        BY <1>6 DEF HangsUp
    <2>1. ~ShouldDrop(faults[d], count[d] + 1)
        BY <1>6, <1>7 DEF Dropped
    <2> DEFINE refusal == Refusal(Profile[d], holding[d], req)
               read    == ReadOut(Profile[d], faults[d], holding[d], count[d] + 1, req)
    <2>2. out.reply = IF refusal # "-" THEN Exception(refusal)
                      ELSE IF req.fc \in ReadCodes THEN ReadReply(read) ELSE Echo
        BY <2>1 DEF HandleFrame
    <2>3. /\ plan[j].action = "write" => /\ req.fc = "WRITE_SINGLE_REGISTER" /\ req.addr = Address(plan[j])
                                         /\ req.intact /\ req.unit = Profile[d].unit
          /\ plan[j].action # "write" => req.fc \in ReadCodes /\ req.qty = 1
        BY <1>5, <1>6, StepAsked DEF ReadCodes
    <2>4. Unwrappable(CorruptCrc(faults[d], out.reply))
        BY <1>1
    <2>5. CorruptCrc(faults[d], out.reply).kind = out.reply.kind
          /\ CorruptCrc(faults[d], out.reply).crcOk = ~HasFault(faults[d], "crc_corrupt")
        <3>1. out.reply \in {Exception(refusal), Reply("raise", <<>>, "-"), Reply("read", read, "-"), Echo}
            BY <2>2, Zenon DEF ReadReply, Raises
        <3> HIDE DEF out, refusal, read
        <3> QED
            BY <3>1 DEF CorruptCrc, Exception, Reply, Echo
    <2>6. CASE refusal # "-"
        <3>1. out.reply.kind = "exception"
            BY <2>2, <2>6 DEF Exception, Reply
        <3> QED
            BY <2>4, <2>5, <3>1 DEF Unwrappable
    <2>7. CASE refusal = "-" /\ plan[j].action # "write"
        <3>1. read = [i \in 1 .. 1 |-> read[i]]
            BY <2>3, <2>7 DEF ReadOut
        <3>2. MaxRegisters \in Nat /\ MaxRegisters >= 1
            BY MaxRegistersAssumption, NamedAssumption
        <3>3. out.reply = ReadReply(read)
            BY <2>2, <2>3, <2>7
        <3> HIDE DEF read, out
        <3>4. Len(read) = 1
            BY <3>1
        <3>5. out.reply = Reply("read", read, "-")
            BY <3>2, <3>3, <3>4 DEF ReadReply
        <3>6. out.reply.kind = "read"
            BY <3>5 DEF Reply
        <3> QED
            BY <2>4, <2>5, <3>6 DEF Unwrappable
    <2>8. CASE refusal = "-" /\ plan[j].action = "write"
        <3>1. req.fc \notin ReadCodes /\ Span(req) = {Address(plan[j])}
              /\ Bank(Profile[d], holding[d], req.fc) = holding[d]
            BY <2>3, <2>8 DEF ReadCodes, Span, Bank
        <3>2. out.reply.kind = "write"
            BY <2>2, <2>8, <3>1 DEF Echo, Reply
        <3>3. Address(plan[j]) \in DOMAIN holding[d]
            <4>1. {Address(plan[j])} \subseteq DOMAIN holding[d]
                BY <2>8, <3>1 DEF Refusal
            <4> QED
                BY <4>1
        <3>4. DOMAIN holding[d] = DOMAIN Profile[d].holding
            BY DEF TypeOK
        <3>5. framing = "modbus-tcp" /\ HasFault(faults[d], "crc_corrupt")
            BY <2>4, <2>5, <3>2 DEF Unwrappable
        <3> QED
            BY <2>8, <3>3, <3>4, <3>5
    <2> QED
        BY <2>6, <2>7, <2>8
<1>9. ASSUME Len(toServer[d]) # 1 PROVE j \in RequestsTo(d, pos - 1)
    <2>0. sent[d] = Cardinality(RequestsTo(d, Upto))
        BY DEF Tracked
    <2>1. Cardinality(RequestsTo(d, j)) < Cardinality(RequestsTo(d, Upto))
        <3> DEFINE n == got[d] + Len(toClient[d])
                   r == Len(toServer[d])
        <3>1. n \in Nat /\ r \in Nat \ {0} /\ r # 1 /\ Head(toServer[d]).id = n + 1 /\ sent[d] = n + r
            BY <1>2, <1>4, <1>9
        <3> HIDE DEF n, r
        <3>2. Head(toServer[d]).id < sent[d]
            BY <3>1
        <3> QED
            BY <1>5, <2>0, <3>2
    <2>2. j # Upto
        BY <1>0, <2>1, RequestsFinite
    <2>3. j <= pos - 1
        BY <1>0, <1>6, <2>2 DEF Upto
    <2> QED
        BY <1>0, <1>6, <2>3 DEF RequestsTo
<1> QED
    BY <1>8, <1>9

\* The network: the streams move on, time passes, and a handler may hang up.
LEMMA NetworkTraces ==
    ASSUME TypeOK, IInv, Promised, Walk, Causes, StationNet PROVE Causes'
<1>1. UNCHANGED stationVars /\ UNCHANGED config
    <2>1. [Next]_vars
        BY StepIsLink DEF StationNext
    <2> QED
        BY <2>1, ConfigFixed DEF StationNet
<1>2. /\ plan' = plan /\ run' = run /\ pos' = pos /\ awaiting' = awaiting /\ step' = step /\ Upto' = Upto
      /\ UNCHANGED job
    BY <1>1 DEF stationVars, job, sequencer, step, Upto
<1> SUFFICES ASSUME run \in {"connecting", "stepping"}, NEW d \in Device PROVE Tracked(d)'
    BY <1>2 DEF Causes
<1>3. Tracked(d) /\ d \in Client /\ pos \in Nat /\ Upto \in Int /\ DeviceOf[d] = d
    BY <1>2, PlanSteps, OneClientPerDevice DEF Causes, Upto
<1>4. CASE UNCHANGED OfLink(d)
    BY <1>1, <1>2, <1>3, <1>4, TrackedStays
<1>5. /\ \A e, k : RequestsTo(e, k)' = RequestsTo(e, k)
      /\ \A e, k : HungUpBefore(e, k)' <=> HungUpBefore(e, k)
    BY <1>1, <1>2, EndsFixed
<1>6. \A m : Traced(d, m) => Traced(d, m)'
    BY <1>2, <1>5 DEF Traced, RequestOf
<1>7. CASE ClientReturns(d)
    <2>1. link' = link /\ toServer' = toServer /\ sent' = sent
        BY <1>7 DEF ClientReturns, Receive, Expire, Eof, ReadRaises, GiveUp
    <2>2. result'[d].what = "ConnectionError" => link[d] = "aborted"
        BY <1>3, <1>7 DEF ClientReturns, Receive, Expire, Eof, ReadRaises, GiveUp, Decode, Raised, NoResult,
                          TypeOK
    <2> QED
        BY <1>2, <1>3, <1>5, <1>6, <2>1, <2>2 DEF Tracked
<1>8. CASE ApplyDelay(d) \/ EndOfRequests(d)
    <2>1. CASE ApplyDelay(d)
        BY <1>4, <2>1 DEF ApplyDelay, OfLink, counts
    <2>2. CASE EndOfRequests(d)
        BY <1>3, <2>2 DEF EndOfRequests, Tracked
    <2> QED
        BY <1>8, <2>1, <2>2
<1>9. CASE Answer(d)
    <2>1. link' = link /\ result' = result /\ sent' = sent /\ toServer'[d] = Tail(toServer[d])
        BY <1>3, <1>9 DEF Answer, counts, TypeOK
    <2>2. /\ Len(toServer'[d]) = Len(toServer[d]) - 1 /\ Len(toServer[d]) \in Nat \ {0}
          /\ \A i \in 1 .. Len(toServer'[d]) : toServer'[d][i] = toServer[d][i + 1]
        <3>1. toServer[d] \in Seq(WireRequest) /\ toServer[d] # <<>>
            BY <1>3, <1>9 DEF Answer, Ready, TypeOK
        <3> QED
            BY <2>1, <3>1, HeadTailProperties, LenProperties, EmptySeq
    <2>3. ASSUME NEW i \in 1 .. Len(toServer'[d]) PROVE Traced(d, toServer'[d][i])
        <3>1. i + 1 \in 1 .. Len(toServer[d])
            BY <2>2
        <3>2. Traced(d, toServer[d][i + 1])
            BY <1>3, <3>1 DEF Tracked
        <3> QED
            BY <2>2, <3>2
    <2> QED
        BY <1>2, <1>3, <1>5, <1>6, <2>1, <2>3 DEF Tracked
<1>10. CASE Hang(d)
    <2>0. link[d] # "left"
        BY <1>3 DEF Tracked
    <2>1. /\ result' = result /\ sent' = sent /\ toServer'[d] = <<>>
          /\ link'[d] = "closed" \/ (link'[d] = "aborted" /\ Len(toServer[d]) # 1)
        BY <1>3, <1>10, <2>0 DEF Hang, counts, TypeOK
    <2>2. PICK j \in RequestsTo(d, Upto) : HangsUp(j) /\ (Len(toServer[d]) # 1 => j \in RequestsTo(d, pos - 1))
        BY <1>3, <1>10, HangsUpOn
    <2>3. HungUpBefore(d, Upto) /\ (Len(toServer[d]) # 1 => HungUpBefore(d, pos - 1))
        BY <2>2 DEF HungUpBefore
    <2>4. Len(toServer'[d]) = 0
        BY <2>1, EmptySeq
    <2> QED
        BY <1>2, <1>3, <1>5, <2>0, <2>1, <2>3, <2>4 DEF Tracked
<1>11. CASE \E c \in Client \ {d} : ClientReturns(c) \/ ServerStep(c)
    <2>1. UNCHANGED OfLink(d)
        BY <1>3, <1>11, OthersOwn DEF Own, OfLink
    <2> QED
        BY <1>4, <2>1
<1>12. CASE Tick
    BY <1>4, <1>12 DEF Tick, OfLink, counts
<1> QED
    BY <1>7, <1>8, <1>9, <1>10, <1>11, <1>12 DEF StationNet, ServerStep

\* The sequencer puts the request of the step it is at on the wire.
LEMMA IssueTraces ==
    ASSUME TypeOK, IInv, Promised, Walk, Causes, IssueStep PROVE Causes'
<1> DEFINE req == RequestOf(step)
           dev == step.device
<1>1. /\ run = "stepping" /\ run' = run /\ ~awaiting /\ awaiting' /\ pos' = pos /\ UNCHANGED job
      /\ pos <= Len(plan) /\ Selected(step) /\ Known /\ Send(dev, req)
    BY DEF IssueStep, Stepping
<1>2. UNCHANGED config /\ plan' = plan /\ step' = step /\ Encodable(req)
    BY <1>1 DEF Send, job, step
<1>3. pos \in Nat \ {0} /\ dev \in Client /\ dev \in Device /\ Upto = pos - 1 /\ Upto' = pos
    BY <1>1, PlanSteps, OneClientPerDevice DEF Upto
<1> SUFFICES ASSUME NEW d \in Device PROVE Tracked(d)'
    BY <1>1, <1>2 DEF Causes, RequestOf
<1>4. Tracked(d) /\ d \in Client
    BY <1>1, OneClientPerDevice DEF Causes
<1>5. Asks(d, pos) <=> d = dev
    BY <1>1 DEF Asks, Wants, Selected, Known, KnownStep, step
<1>6. CASE d # dev
    <2>1. UNCHANGED OfLink(d)
        BY <1>1, <1>3, <1>4, <1>6 DEF Send, OfLink, TypeOK
    <2>2. RequestsTo(d, Upto') = RequestsTo(d, Upto)
        BY <1>3, <1>5, <1>6, RequestsGrow
    <2> QED
        BY <1>1, <1>2, <1>3, <1>4, <2>1, <2>2, TrackedStays
<1>7. CASE d = dev
    <2>1. /\ RequestsTo(d, pos) = RequestsTo(d, pos - 1) \cup {pos}
          /\ Cardinality(RequestsTo(d, pos)) = Cardinality(RequestsTo(d, pos - 1)) + 1
        BY <1>3, <1>5, <1>7, RequestsGrow
    <2>2. /\ \A e, k : RequestsTo(e, k)' = RequestsTo(e, k)
          /\ \A e, k : HungUpBefore(e, k)' <=> HungUpBefore(e, k)
        BY <1>1, <1>2, EndsFixed
    <2>3. /\ sent'[d] = sent[d] + 1 /\ result'[d].what = "none"
          /\ \/ link[d] = "open" /\ link'[d] = "open"
                /\ toServer'[d] = Append(toServer[d], [id |-> sent[d] + 1, req |-> req])
             \/ link[d] = "closed" /\ link'[d] = "reset" /\ toServer'[d] = toServer[d]
        BY <1>1, <1>3, <1>4, <1>7 DEF Send, TypeOK, NoResult
    <2>4. sent[d] + 1 = Cardinality(RequestsTo(d, pos))
        BY <1>3, <1>4, <2>1 DEF Tracked
    <2>5. \A m : Traced(d, m) => Traced(d, m)'
        BY <1>2, <1>3, <2>1, <2>2 DEF Traced, RequestOf
    <2>6. ASSUME NEW m, m.id = Cardinality(RequestsTo(d, pos)), m.req = RequestOf(step)
          PROVE  Traced(d, m)'
        <3>1. RequestsTo(d, Upto)' = RequestsTo(d, pos) /\ pos \in RequestsTo(d, pos)
            BY <1>3, <2>1, <2>2
        <3>2. \A k : Cardinality(RequestsTo(d, k))' = Cardinality(RequestsTo(d, k))
            BY <2>2
        <3>3. m.req = RequestOf(plan[pos])'
            BY <1>1, <1>2, <2>6 DEF RequestOf, step
        <3> QED
            BY <1>1, <1>2, <2>6, <3>1, <3>2 DEF Traced, RequestOf, step
    <2>7. \A i \in 1 .. Len(toServer'[d]) : Traced(d, toServer[d][i])'
        <3> DEFINE m == [id |-> sent[d] + 1, req |-> req]
                   q == toServer[d]
        <3>1. CASE toServer'[d] = Append(q, m)
            <4>1. q \in Seq(WireRequest) /\ Len(q) \in Nat
                BY <1>4, LenProperties DEF TypeOK
            <4>2. m.id = sent[d] + 1 /\ m.req = RequestOf(step)
                OBVIOUS
            <4>3. \A i \in 1 .. Len(q) : Traced(d, q[i])
                BY <1>4 DEF Tracked
            <4>4. IsList(q)
                <5>1. q = [i \in 1 .. Len(q) |-> q[i]] /\ DOMAIN q = 1 .. Len(q)
                    BY <4>1, LenProperties
                <5> HIDE DEF q
                <5> QED
                    BY <4>1, <5>1, IsASeq DEF IsList
            <4> HIDE DEF m, q
            <4>5. /\ Len(toServer'[d]) = Len(q) + 1 /\ toServer'[d][Len(q) + 1] = m
                  /\ \A i \in 1 .. Len(q) : toServer'[d][i] = q[i]
                BY <3>1, <4>4, ListGrows
            <4>6. ASSUME NEW i \in 1 .. Len(toServer'[d]) PROVE Traced(d, toServer[d][i])'
                <5>1. CASE i = Len(q) + 1
                    BY <2>4, <2>6, <4>2, <4>5, <5>1
                <5>2. CASE i \in 1 .. Len(q)
                    BY <2>5, <4>3, <4>5, <5>2
                <5> QED
                    BY <4>1, <4>5, <5>1, <5>2
            <4> QED
                BY <4>6
        <3>2. CASE toServer'[d] = toServer[d]
            BY <1>4, <2>5, <3>2 DEF Tracked
        <3> QED
            BY <2>3, <3>1, <3>2
    <2> QED
        <3>1. HungUpBefore(d, Upto) <=> HungUpBefore(d, pos - 1)
            BY <1>3
        <3>2. link[d] = "closed" => HungUpBefore(d, Upto)
            BY <1>4 DEF Tracked
        <3>3. HungUpBefore(d, pos - 1)' <=> HungUpBefore(d, pos - 1)
            BY <1>1, <2>2
        <3>4. Cardinality(RequestsTo(d, Upto))' = Cardinality(RequestsTo(d, pos))
            BY <1>3, <2>2
        <3> QED
            BY <2>3, <2>4, <2>7, <3>1, <3>2, <3>3, <3>4 DEF Tracked
<1> QED
    BY <1>6, <1>7

LEMMA StepCauses ==
    ASSUME TypeOK, IInv, Promised, Walk, Filled, Causes, [StationNext]_allVars PROVE Causes'
<1>0. Walk' /\ pos \in Nat \ {0} /\ plan \in Plans /\ Upto \in Int
    BY StepWalk, PlanSteps DEF Walk, Upto
<1>1. CASE run' \notin {"connecting", "stepping"}
    BY <1>0, <1>1 DEF Causes, Walk
<1>2. CASE StationNet
    BY <1>2, NetworkTraces
<1>3. CASE IssueStep
    BY <1>3, IssueTraces
<1>4. CASE SkipStep \/ UnknownStep
    <2>1. /\ run = "stepping" /\ run' = run /\ ~awaiting /\ ~awaiting' /\ pos' = pos + 1
          /\ UNCHANGED <<vars, job>> /\ (~Selected(step) \/ ~Known)
        <3>1. CASE SkipStep
            BY <3>1 DEF SkipStep, Stepping
        <3>2. CASE UnknownStep
            BY <3>2 DEF UnknownStep, Stepping, Record
        <3> QED
            BY <1>4, <3>1, <3>2
    <2>2. Upto = pos - 1 /\ Upto' = pos
        BY <1>0, <2>1 DEF Upto
    <2>3. ASSUME NEW d \in Device PROVE Tracked(d)'
        <3>1. RequestsTo(d, Upto') = RequestsTo(d, Upto)
            BY <1>0, <2>1, <2>2, RequestsGrow DEF Asks, Wants, Selected, Known, step
        <3> QED
            BY <1>0, <2>1, <2>2, <3>1, TrackedStays DEF Causes, vars, OfLink, counts
    <2> QED
        BY <2>1, <2>3 DEF Causes
<1>5. CASE FinishStep /\ run' = "stepping"
    <2>1. /\ run = "stepping" /\ awaiting /\ ~awaiting' /\ pos' = pos + 1 /\ UNCHANGED <<vars, job>>
        BY <1>5 DEF FinishStep, Record
    <2>2. Upto = pos /\ Upto' = pos
        BY <1>0, <2>1 DEF Upto
    <2>3. \A d \in Device : Tracked(d)'
        BY <1>0, <2>1, <2>2, <1>5, TrackedStays DEF Causes, vars, OfLink, counts
    <2> QED
        BY <2>1, <2>3 DEF Causes
<1>6. CASE \E c \in Client : ConnectAll(c)
    <2>1. PICK c \in Client : ConnectAll(c)
        BY <1>6
    <2>2. /\ run = "connecting" /\ run' \in {"connecting", "stepping"} /\ UNCHANGED <<job, sequencer>>
          /\ UNCHANGED config /\ link[c] = "unconnected" /\ ~awaiting
          /\ toServer' = toServer /\ result' = result /\ sent' = sent
          /\ link'[c] = "open" /\ \A d \in Client \ {c} : link'[d] = link[d]
          /\ run' = "stepping" => \A d \in Client \ {c} : link[d] # "unconnected"
        BY <2>1 DEF ConnectAll, Connect, counts, TypeOK, Walk
    <2>3. pos' = pos /\ awaiting' = awaiting /\ Upto' = Upto /\ plan' = plan
        BY <2>2 DEF sequencer, Upto, job
    <2>4. ASSUME NEW d \in Device PROVE Tracked(d)'
        <3>1. CASE d # c
            BY <1>0, <2>2, <2>3, <3>1, OneClientPerDevice, TrackedStays DEF Causes, OfLink
        <3>2. CASE d = c
            <4>1. Tracked(d)
                BY <2>2 DEF Causes
            <4>2. /\ \A e, k : RequestsTo(e, k)' = RequestsTo(e, k)
                  /\ \A e, k : HungUpBefore(e, k)' <=> HungUpBefore(e, k)
                BY <2>2, EndsFixed
            <4>3. \A m : Traced(d, m) => Traced(d, m)'
                BY <2>3, <4>2 DEF Traced, RequestOf
            <4> QED
                BY <2>2, <2>3, <3>2, <4>1, <4>2, <4>3 DEF Tracked
        <3> QED
            BY <3>1, <3>2
    <2> QED
        BY <2>2, <2>3, <2>4 DEF Causes
<1>7. CASE Ended \/ UNCHANGED allVars
    <2>1. UNCHANGED <<vars, stationVars>>
        BY <1>7 DEF Ended, allVars
    <2>2. /\ UNCHANGED <<job, config>> /\ run' = run /\ pos' = pos /\ awaiting' = awaiting /\ step' = step
          /\ Upto' = Upto /\ \A d \in Device : UNCHANGED OfLink(d)
        BY <2>1 DEF vars, stationVars, sequencer, job, step, Upto, OfLink, counts
    <2>3. ASSUME run \in {"connecting", "stepping"}, NEW d \in Device PROVE Tracked(d)'
        BY <1>0, <2>2, <2>3, TrackedStays DEF Causes
    <2> QED
        BY <2>2, <2>3 DEF Causes, RequestOf
<1>8. CASE IssueRaises \/ FinishPlan \/ ClientsClosed \/ \E c \in Client : CloseClient(c) \/ StopServer(c)
    <2>1. run' \notin {"connecting", "stepping"}
        BY <1>8 DEF IssueRaises, FinishPlan, ClientsClosed, CloseClient, StopServer, stationVars
    <2> QED
        BY <1>1, <2>1
<1>9. CASE FinishStep /\ run' # "stepping"
    BY <1>1, <1>9 DEF FinishStep
<1> QED
    BY <1>2, <1>3, <1>4, <1>5, <1>6, <1>7, <1>8, <1>9 DEF StationNext, Sequence

\* How the step the sequencer is at can end.
LEMMA CanRaise ==
    ASSUME Walk, Causes, NEW d \in Device, d = step.device, pos <= Len(plan), Known,
           run = "stepping", ~awaiting, Refuse(d, RequestOf(step))
    PROVE  "abort" \in Ends(pos)
<1>1. pos \in DOMAIN plan /\ step = plan[pos] /\ KnownStep(plan[pos]) /\ Tracked(d)
    BY PlanSteps DEF step, Known, Causes
<1>2. /\ Packable(RequestOf(step))
      /\ Encodable(RequestOf(step)) <=> ~(step.action = "write" /\ step.write \notin Word)
    BY <1>1, StepFits
<1>3. CASE ~Encodable(RequestOf(step))
    BY <1>1, <1>2, <1>3 DEF Ends
<1>4. CASE Encodable(RequestOf(step))
    <2>1. link[d] \in {"reset", "aborted"}
        <3>1. link[d] \notin {"unconnected", "left"}
            BY <1>1 DEF Tracked
        <3>2. \/ ~Encodable(RequestOf(step)) \/ ~Packable(RequestOf(step))
              \/ link[d] \in {"unconnected", "left"} \/ link[d] \in {"reset", "aborted"}
            BY Zenon DEF Refuse
        <3> QED
            BY <1>2, <1>4, <3>1, <3>2
    <2>2. HungUpBefore(d, pos - 1)
        BY <1>1, <2>1 DEF Tracked
    <2> QED
        BY <1>1, <1>2, <1>4, <2>2 DEF Ends
<1> QED
    BY <1>3, <1>4

LEMMA CanFinish ==
    ASSUME Walk, Causes, FinishStep
    PROVE  IF result[step.device].what = "ConnectionError" THEN "abort" \in Ends(pos)
           ELSE "verdict" \in Ends(pos)
<1>1. run = "stepping" /\ awaiting /\ pos <= Len(plan) /\ Known /\ Encodable(RequestOf(step))
    BY DEF FinishStep, Walk, Causes
<1>2. /\ pos \in DOMAIN plan /\ step = plan[pos] /\ KnownStep(plan[pos])
      /\ step.device \in Device /\ Tracked(step.device)
    BY <1>1, PlanSteps DEF step, Known, KnownStep, Causes
<1>3. ~(step.action = "write" /\ step.write \notin Word)
    BY <1>1, <1>2, StepFits
<1> QED
    BY <1>2, <1>3 DEF Ends, Tracked
------------------------------------------------------------------------------
(***************************************************************************)
(* Every run of a station is a run of TestRun, as far as safety goes: the  *)
(* verdicts are appended one by one, in the order of the selected steps,   *)
(* nothing follows the report or an abort, and an abort has its cause in   *)
(* the step it comes at (sequencer.py:168-177, runner.py:44-56).  That one *)
(* of the two does come is liveness.                                       *)
(***************************************************************************)
VerdictOf(o)  == [name |-> o.name, passed |-> o.passed]
VerdictsOf(q) == [i \in DOMAIN q |-> VerdictOf(q[i])]
StateOf(r)    == IF r \in {"unwinding", "raised"} THEN "aborted"
                 ELSE IF r = "returned" THEN "reported" ELSE "running"

\* The selected steps, by their places in the plan.
LEMMA SelectedPlaces ==
    ASSUME plan \in Plans
    PROVE  /\ Len(SelectedSteps) = Cardinality(Chosen(plan, only, Len(plan)))
           /\ Len(SelectedSteps) \in Nat /\ SelectedSteps \in Seq(Promise!Wanted)
           /\ \A i \in 1 .. Len(SelectedSteps) :
                 SelectedSteps[i] = [name |-> plan[Place(plan, only, i)].name,
                                     ends |-> Ends(Place(plan, only, i))]
<1> DEFINE n == Cardinality(Chosen(plan, only, Len(plan)))
           at(i) == [name |-> plan[Place(plan, only, i)].name, ends |-> Ends(Place(plan, only, i))]
<1>1. IsList(plan) /\ DOMAIN plan = 1 .. Len(plan)
    BY PlansAssumption, ListDomain DEF IsList
<1>2. n \in Nat
    BY <1>1, ListDomain, ChosenFinite
<1>3. {k \in DOMAIN plan : Wants(k)} = Chosen(plan, only, Len(plan))
    BY <1>1 DEF Chosen, Wants
<1>4. \A i : Position(i) = Place(plan, only, i)
    BY DEF Position, Place, Chosen, Wants
<1>5. SelectedSteps = [i \in 1 .. n |-> at(i)]
    BY <1>3, <1>4 DEF SelectedSteps
<1>6. \A i \in 1 .. n : at(i) \in Promise!Wanted
    <2> SUFFICES ASSUME NEW i \in 1 .. n PROVE at(i) \in Promise!Wanted
        OBVIOUS
    <2>1. plan[Place(plan, only, i)].name \in StepNames
        BY <1>1, PlaceTaken DEF Places, StepNames
    <2>2. Ends(Place(plan, only, i)) \subseteq Promise!End
        BY DEF Ends, Promise!End
    <2> QED
        BY <2>1, <2>2 DEF Promise!Wanted
<1> HIDE DEF n, at
<1>7. SelectedSteps \in Seq(Promise!Wanted)
    BY <1>2, <1>5, <1>6, IsASeq
<1>8. Len(SelectedSteps) = n
    <2>1. Len(SelectedSteps) \in Nat /\ 1 .. Len(SelectedSteps) = 1 .. n
        BY <1>5, <1>7, LenProperties
    <2> QED
        BY <1>2, <2>1
<1> QED
    BY <1>2, <1>5, <1>7, <1>8 DEF n, at

LEMMA VerdictsList ==
    ASSUME NEW q, IsList(q), NEW S, \A i \in DOMAIN q : VerdictOf(q[i]) \in S
    PROVE  VerdictsOf(q) \in Seq(S) /\ Len(VerdictsOf(q)) = Len(q)
<1> DEFINE n == Len(q)
<1>1. n \in Nat /\ DOMAIN q = 1 .. n
    BY ListDomain
<1>2. VerdictsOf(q) = [i \in 1 .. n |-> VerdictOf(q[i])]
    BY <1>1 DEF VerdictsOf
<1> HIDE DEF n
<1>3. VerdictsOf(q) \in Seq(S)
    BY <1>1, <1>2, IsASeq
<1>4. Len(VerdictsOf(q)) \in Nat /\ 1 .. Len(VerdictsOf(q)) = 1 .. n
    BY <1>2, <1>3, LenProperties
<1>5. Len(VerdictsOf(q)) = n
    BY <1>1, <1>4
<1> QED
    BY <1>3, <1>5 DEF n

LEMMA VerdictsGrow ==
    ASSUME NEW q, IsList(q), NEW x
    PROVE  VerdictsOf(Append(q, x)) = Append(VerdictsOf(q), VerdictOf(x))
<1> DEFINE S == {VerdictOf(q[k]) : k \in DOMAIN q} \cup {VerdictOf(x)}
           n == Len(q)
           l == VerdictsOf(Append(q, x))
           r == Append(VerdictsOf(q), VerdictOf(x))
<1>1. n \in Nat /\ DOMAIN q = 1 .. n
    BY ListDomain
<1>2. /\ IsList(Append(q, x)) /\ Len(Append(q, x)) = n + 1 /\ Append(q, x)[n + 1] = x
      /\ DOMAIN Append(q, x) = 1 .. n + 1
      /\ \A i \in 1 .. n : Append(q, x)[i] = q[i]
    BY ListGrows, ListDomain DEF IsList
<1>3. \A i \in 1 .. n + 1 : i \in 1 .. n \/ i = n + 1
    BY <1>1
<1>4. /\ VerdictOf(x) \in S /\ \A i \in DOMAIN q : VerdictOf(q[i]) \in S
      /\ \A i \in DOMAIN Append(q, x) : VerdictOf(Append(q, x)[i]) \in S
    BY <1>1, <1>2, <1>3
<1> HIDE DEF S, n
<1>5. VerdictsOf(q) \in Seq(S) /\ Len(VerdictsOf(q)) = n
    BY <1>4, VerdictsList DEF n
<1>6. l \in Seq(S) /\ Len(l) = n + 1
    BY <1>2, <1>4, VerdictsList
<1>7. /\ r \in Seq(S) /\ Len(r) = n + 1 /\ r[n + 1] = VerdictOf(x)
      /\ \A i \in 1 .. n : r[i] = VerdictsOf(q)[i]
    BY <1>4, <1>5, AppendProperties
<1>8. /\ \A i \in 1 .. n : VerdictsOf(q)[i] = VerdictOf(q[i])
      /\ \A i \in 1 .. n + 1 : l[i] = VerdictOf(Append(q, x)[i])
    BY <1>1, <1>2 DEF VerdictsOf
<1>9. \A i \in 1 .. n + 1 : l[i] = r[i]
    <2> HIDE DEF l, r
    <2> QED
        BY <1>2, <1>3, <1>7, <1>8
<1> HIDE DEF l, r
<1>10. l = r
    BY <1>6, <1>7, <1>9, SeqEqual
<1> QED
    BY <1>10 DEF l, r

\* What is left to report at a selected step, and when the plan is done.
LEMMA Outstanding ==
    ASSUME Walk, Filled
    PROVE  /\ Len(VerdictsOf(outcomes)) = Len(outcomes) /\ Len(outcomes) \in Nat
           /\ pos <= Len(plan) /\ Selected(step)
                 => /\ Len(outcomes) + 1 <= Len(SelectedSteps)
                    /\ SelectedSteps[Len(outcomes) + 1] = [name |-> step.name, ends |-> Ends(pos)]
           /\ pos = Len(plan) + 1 => Len(outcomes) = Len(SelectedSteps)
<1> DEFINE n == Len(outcomes)
           total == Len(SelectedSteps)
<1>1. IsList(plan) /\ Len(plan) \in Nat /\ DOMAIN plan = 1 .. Len(plan) /\ pos \in Nat \ {0}
    BY PlanSteps
<1>2. /\ total \in Nat /\ total = Cardinality(Chosen(plan, only, Len(plan)))
      /\ \A i \in 1 .. total : SelectedSteps[i] = [name |-> plan[Place(plan, only, i)].name,
                                                   ends |-> Ends(Place(plan, only, i))]
    BY SelectedPlaces DEF Walk
<1>3. n \in Nat /\ n = Cardinality(Chosen(plan, only, pos - 1))
    BY ListDomain DEF Filled
<1>4. Len(VerdictsOf(outcomes)) = n
    <2>1. \A i \in DOMAIN outcomes : VerdictOf(outcomes[i]) \in {VerdictOf(outcomes[k]) : k \in DOMAIN outcomes}
        OBVIOUS
    <2> QED
        BY <2>1, VerdictsList DEF Filled
<1>5. ASSUME pos <= Len(plan), Selected(step)
      PROVE  n + 1 <= total /\ SelectedSteps[n + 1] = [name |-> step.name, ends |-> Ends(pos)]
    <2>1. Cardinality(Chosen(plan, only, pos)) = n + 1
        BY <1>1, <1>3, <1>5, ChosenGrows DEF Selected, step
    <2>2. Cardinality(Chosen(plan, only, pos)) <= Cardinality(Chosen(plan, only, Len(plan)))
        BY <1>1, <1>5, ChosenMonotonic
    <2>3. Place(plan, only, n + 1) = pos
        <3>1. pos \in DOMAIN plan
            BY <1>1, <1>5
        <3> QED
            BY <1>1, <1>5, <2>1, <3>1, PlaceIs DEF Selected, step
    <2> HIDE DEF n, total
    <2>4. n + 1 <= total /\ n + 1 \in 1 .. total
        BY <1>2, <1>3, <2>1, <2>2
    <2> QED
        BY <1>2, <2>3, <2>4 DEF step
<1>6. ASSUME pos = Len(plan) + 1 PROVE n = total
    <2>1. pos - 1 = Len(plan)
        BY <1>1, <1>6
    <2> QED
        BY <1>2, <1>3, <2>1
<1> QED
    BY <1>3, <1>4, <1>5, <1>6

LEMMA JobKept ==
    ASSUME Walk, [StationNext]_allVars PROVE SelectedSteps' = SelectedSteps
<1>1. UNCHANGED job
    <2>1. CASE Sequence
        BY <2>1 DEF Sequence, SkipStep, UnknownStep, IssueStep, IssueRaises, FinishStep, FinishPlan,
                    ClientsClosed, ConnectAll, CloseClient, StopServer, stationVars
    <2> QED
        BY <2>1 DEF StationNext, StationNet, Ended, allVars, stationVars
<1>2. UNCHANGED config
    BY StepIsLink, ConfigFixed
<1> QED
    BY <1>1, <1>2, EndsFixed

\* The three steps of a run, as TestRun has them, and what it does not see.
LEMMA Reports ==
    ASSUME Walk, Filled, SelectedSteps' = SelectedSteps, run = "stepping", run' = run,
           pos <= Len(plan), Selected(step), "verdict" \in Ends(pos),
           NEW o, outcomes' = Append(outcomes, o), o.name = step.name, o.passed \in BOOLEAN
    PROVE  Promise!Step
<1> DEFINE n == Len(VerdictsOf(outcomes)) + 1
<1>1. n <= Len(SelectedSteps) /\ SelectedSteps[n] = [name |-> step.name, ends |-> Ends(pos)]
    BY Outstanding
<1>2. VerdictsOf(outcomes)' = Append(VerdictsOf(outcomes), VerdictOf(o))
    BY VerdictsGrow DEF Filled
<1>3. /\ SelectedSteps[n].name = step.name /\ SelectedSteps[n].ends = Ends(pos)
    BY <1>1
<1>4. VerdictOf(o) = [name |-> SelectedSteps[n].name, passed |-> o.passed]
    BY <1>3 DEF VerdictOf
<1> QED
    BY <1>1, <1>2, <1>3, <1>4
    DEF Promise!Step, Promise!CanEnd, Promise!Due, VerdictsOf, VerdictOf

LEMMA Aborts ==
    ASSUME Walk, Filled, SelectedSteps' = SelectedSteps, run = "stepping", run' = "unwinding",
           pos <= Len(plan), Selected(step), "abort" \in Ends(pos), outcomes' = outcomes
    PROVE  Promise!Abort
<1> DEFINE n == Len(VerdictsOf(outcomes)) + 1
<1>1. n <= Len(SelectedSteps) /\ SelectedSteps[n] = [name |-> step.name, ends |-> Ends(pos)]
    BY Outstanding
<1>2. SelectedSteps[n].ends = Ends(pos)
    BY <1>1
<1> QED
    BY <1>1, <1>2 DEF Promise!Abort, Promise!CanEnd, Promise!Due, VerdictsOf, VerdictOf

LEMMA Returns ==
    ASSUME Walk, Filled, SelectedSteps' = SelectedSteps, run = "stopping", run' = "returned",
           outcomes' = outcomes
    PROVE  Promise!Report
<1>1. Len(VerdictsOf(outcomes)) = Len(SelectedSteps)
    BY Outstanding DEF Walk
<1> QED
    BY <1>1 DEF Promise!Report, VerdictsOf, VerdictOf

LEMMA NoMove ==
    ASSUME SelectedSteps' = SelectedSteps, outcomes' = outcomes, StateOf(run') = StateOf(run)
    PROVE  UNCHANGED Promise!vars
BY DEF Promise!vars, StateOf

LEMMA StepIsTestRun ==
    ASSUME Walk, Filled, Causes, [StationNext]_allVars PROVE [Promise!Next]_(Promise!vars)
<1>0. SelectedSteps' = SelectedSteps
    BY JobKept
<1>1. CASE UnknownStep
    <2> DEFINE o == Outcome(step, FALSE, "unknown", <<>>)
    <2>1. /\ run = "stepping" /\ run' = run /\ pos <= Len(plan) /\ Selected(step) /\ ~Known
          /\ outcomes' = Append(outcomes, o)
        BY <1>1 DEF UnknownStep, Stepping, Record
    <2>2. o.name = step.name /\ o.passed \in BOOLEAN
        BY DEF Outcome
    <2>3. "verdict" \in Ends(pos)
        BY <2>1 DEF Ends, Known, step
    <2> HIDE DEF o
    <2> QED
        BY <1>0, <2>1, <2>2, <2>3, Reports DEF Promise!Next
<1>2. CASE FinishStep
    <2>1. run = "stepping" /\ pos <= Len(plan) /\ Selected(step)
        BY <1>2 DEF FinishStep, Walk
    <2>2. CASE result[step.device].what = "ConnectionError"
        <3>1. run' = "unwinding" /\ outcomes' = outcomes
            BY <1>2, <2>2 DEF FinishStep
        <3>2. "abort" \in Ends(pos)
            BY <1>2, <2>2, CanFinish
        <3> QED
            BY <1>0, <2>1, <3>1, <3>2, Aborts DEF Promise!Next
    <2>3. CASE result[step.device].what # "ConnectionError"
        <3> DEFINE o == Judge(step, result[step.device])
        <3>1. run' = run /\ outcomes' = Append(outcomes, o)
            BY <1>2, <2>3 DEF FinishStep, Record
        <3>2. o.name = step.name /\ o.passed \in BOOLEAN
            BY Judged
        <3>3. "verdict" \in Ends(pos)
            BY <1>2, <2>3, CanFinish
        <3> HIDE DEF o
        <3> QED
            BY <1>0, <2>1, <3>1, <3>2, <3>3, Reports DEF Promise!Next
    <2> QED
        BY <2>2, <2>3
<1>3. CASE IssueRaises
    <2>1. /\ run = "stepping" /\ run' = "unwinding" /\ outcomes' = outcomes /\ ~awaiting /\ Known
          /\ pos <= Len(plan) /\ Selected(step) /\ Refuse(step.device, RequestOf(step))
        BY <1>3 DEF IssueRaises, Stepping, sequencer
    <2>2. "abort" \in Ends(pos)
        BY <2>1, CanRaise DEF Known, KnownStep
    <2> QED
        BY <1>0, <2>1, <2>2, Aborts DEF Promise!Next
<1>4. CASE \E c \in Client : StopServer(c)
    <2>1. run = "stopping" /\ run' \in {"stopping", "returned"} /\ outcomes' = outcomes
        BY <1>4 DEF StopServer, sequencer
    <2>2. CASE run' = "returned"
        BY <1>0, <2>1, <2>2, Returns DEF Promise!Next
    <2>3. CASE run' = run
        BY <1>0, <2>1, <2>3, NoMove
    <2> QED
        BY <2>1, <2>2, <2>3
<1>5. CASE \E c \in Client : ConnectAll(c)
    <2>1. outcomes' = outcomes /\ StateOf(run') = StateOf(run)
        BY <1>5 DEF ConnectAll, sequencer, StateOf
    <2> QED
        BY <1>0, <2>1, NoMove
<1>6. CASE FinishPlan \/ ClientsClosed
    <2>1. outcomes' = outcomes /\ StateOf(run') = StateOf(run)
        BY <1>6 DEF FinishPlan, ClientsClosed, sequencer, StateOf
    <2> QED
        BY <1>0, <2>1, NoMove
<1>7. CASE \/ SkipStep \/ IssueStep \/ StationNet \/ Ended \/ UNCHANGED allVars
           \/ \E c \in Client : CloseClient(c)
    <2>1. outcomes' = outcomes /\ run' = run
        BY <1>7 DEF SkipStep, IssueStep, StationNet, Ended, CloseClient, allVars, stationVars, sequencer
    <2> QED
        BY <1>0, <2>1, NoMove
<1> QED
    BY <1>1, <1>2, <1>3, <1>4, <1>5, <1>6, <1>7 DEF StationNext, Sequence

(***************************************************************************)
(* Every run of a station is a run of TestRun but for its fairness: one    *)
(* verdict per selected step, in the order of the plan, then the report;   *)
(* or an abort, if the step has a word that does not fit or its device has *)
(* hung up on an earlier step (sequencer.py:81-177, frame.py:73-81,        *)
(* client.py:85-98, runner.py:44-56).                                      *)
(***************************************************************************)
THEOREM ReportIsThePlan == StationSpec => Promise!Init /\ [][Promise!Next]_(Promise!vars)
<1>1. StationInit => Promise!Init
    <2> SUFFICES ASSUME StationInit PROVE Promise!Init
        OBVIOUS
    <2>1. SelectedSteps \in Seq(Promise!Wanted)
        BY SelectedPlaces DEF StationInit
    <2>2. VerdictsOf(outcomes) = <<>>
        BY DEF StationInit, VerdictsOf
    <2> QED
        BY <2>1, <2>2 DEF Promise!Init, VerdictsOf, VerdictOf, StationInit
<1>2. StationInit => Causes
    BY CausesBegin
<1>3. TypeOK /\ IInv /\ Promised /\ Walk /\ Filled /\ Causes /\ [StationNext]_allVars => Causes'
    BY StepCauses
<1>4. Walk /\ Filled /\ Causes /\ [StationNext]_allVars => [Promise!Next]_(Promise!vars)
    BY StepIsTestRun
<1> QED
    BY <1>1, <1>2, <1>3, <1>4, Walking, LinkInStation, PTL DEF StationSpec
------------------------------------------------------------------------------
(***************************************************************************)
(* What is between a step of the plan and its verdict, for a device whose  *)
(* verdicts are predictable.  Once the requests of the steps up to k reach *)
(* past its drop, the device is gone.                                      *)
(***************************************************************************)
Gone(d, k) == RequestsTo(d, k) # {} /\ ShouldDrop(faults[d], Cardinality(RequestsTo(d, k)))

\* The device has handled the requests of the steps before k, and no other.
Reached(d, k) ==
    /\ ~Gone(d, k - 1) /\ count[d] = Cardinality(RequestsTo(d, k - 1))
    /\ \A a \in DOMAIN Profile[d].holding : holding[d][a] = Content(d, a, k)

\* Nothing is on its way, before step k is issued.
Idle(d, k) ==
    /\ ~call[d].waiting /\ toServer[d] = <<>> /\ toClient[d] = <<>> /\ handler[d].pc # "sleeping"
    /\ IF Gone(d, k - 1) THEN link[d] \in {"closed", "reset"}
       ELSE link[d] \in {"unconnected", "open"} /\ Reached(d, k)

\* The stages of step k: called, replied or hung up on, back.
Called(d, k) ==
    /\ call[d].waiting /\ link[d] = "open" /\ toClient[d] = <<>>
    /\ Len(toServer[d]) = 1 /\ Head(toServer[d]).req = call[d].req
    /\ Reached(d, k)
    /\ call[d].left = Timeout - (IF handler[d].pc = "sleeping" THEN Delay(d) - handler[d].timer ELSE 0)

Agrees(k, res) == res.what # "ConnectionError" /\ Judge(plan[k], res) = Reference(k)

Replied(d, k) ==
    /\ call[d].waiting /\ call[d].left > 0 /\ link[d] = "open" /\ toServer[d] = <<>>
    /\ Len(toClient[d]) = 1 /\ Agrees(k, Decode(call[d].req, Head(toClient[d])))
    /\ handler[d].pc # "sleeping" /\ Reached(d, k + 1)

HungUp(d, k) ==
    /\ call[d].waiting /\ link[d] \in {"closed", "reset"} /\ Gone(d, k)
    /\ toServer[d] = <<>> /\ toClient[d] = <<>> /\ handler[d].pc # "sleeping"

Back(d, k) == Idle(d, k + 1) /\ Agrees(k, result[d])

Conversing(d, k) ==
    IF awaiting /\ plan[k].device = d
    THEN \/ (Called(d, k) \/ Replied(d, k) \/ HungUp(d, k)) /\ call[d].req = RequestOf(plan[k])
         \/ Back(d, k)
    ELSE Idle(d, k)

Right(i, k) == (plan[k].device \in Device => Predictable(plan[k].device)) => outcomes[i] = Reference(k)

\* The devices are where the sequencer takes them to be, and its verdicts are right.
OnCourse ==
    run \in {"connecting", "stepping"} =>
        \A d \in Device, k \in 1 .. Len(plan) + 1 : Predictable(d) /\ k = pos => Conversing(d, k)
Correct ==
    \A i \in 1 .. Len(outcomes), k \in DOMAIN plan : k = Place(plan, only, i) => Right(i, k)

\* The reference is the same throughout a run.
LEMMA ReferenceFixed ==
    ASSUME UNCHANGED job, UNCHANGED config
    PROVE  /\ plan' = plan /\ only' = only /\ faults' = faults /\ framing' = framing
           /\ \A d, k : RequestsTo(d, k)' = RequestsTo(d, k) /\ Gone(d, k)' = Gone(d, k)
           /\ \A d, a, k : Content(d, a, k)' = Content(d, a, k)
           /\ \A d : Predictable(d)' <=> Predictable(d)
           /\ \A k : Reference(k)' = Reference(k)
           /\ \A k, res : Agrees(k, res)' <=> Agrees(k, res)
<1>1. plan' = plan /\ only' = only /\ faults' = faults /\ framing' = framing
    BY DEF job, config
<1>2. \A d, k : RequestsTo(d, k)' = RequestsTo(d, k)
    BY <1>1 DEF RequestsTo, Wants
<1>3. \A d, k : Gone(d, k)' = Gone(d, k)
    BY <1>1, <1>2 DEF Gone
<1>4. \A k : Dropped(k)' = Dropped(k)
    BY <1>1, <1>2 DEF Dropped
<1>5. \A d, a, k : WritesBefore(d, a, k)' = WritesBefore(d, a, k)
    BY <1>1, <1>2, <1>4 DEF WritesBefore
<1>6. \A d, a, k : Content(d, a, k)' = Content(d, a, k)
    BY <1>1, <1>5 DEF Content
<1>7. \A d : Predictable(d)' <=> Predictable(d)
    BY <1>1 DEF Predictable
<1>8. \A k : ReferenceRead(k)' = ReferenceRead(k)
    BY <1>1, <1>2, <1>6 DEF ReferenceRead
<1>9. \A k : Reference(k)' = Reference(k)
    BY <1>1, <1>4, <1>8 DEF Reference
<1>10. \A k, res : Agrees(k, res)' <=> Agrees(k, res)
    BY <1>1, <1>9 DEF Agrees
<1> QED
    BY <1>1, <1>2, <1>3, <1>6, <1>7, <1>9, <1>10

\* After its drop a device stays gone.
LEMMA GoneForGood ==
    ASSUME TypeOK, NEW d \in Device, NEW k \in Nat \ {0}, Gone(d, k - 1)
    PROVE  Gone(d, k)
<1>1. Fault(faults[d], "drop").after \in Int
    <2>1. faults[d] \in Seq(FaultConfig)
        BY DEF TypeOK
    <2>2. HasFault(faults[d], "drop")
        BY DEF Gone, ShouldDrop
    <2> QED
        BY <2>1, <2>2, FaultType DEF FaultConfig
<1>2. /\ Cardinality(RequestsTo(d, k - 1)) \in Nat
      /\ Cardinality(RequestsTo(d, k)) \in Nat
    BY RequestsFinite
<1>3. /\ Cardinality(RequestsTo(d, k)) >= Cardinality(RequestsTo(d, k - 1))
      /\ RequestsTo(d, k) # {}
    BY <1>2, RequestsGrow DEF Gone
<1> QED
    BY <1>1, <1>2, <1>3 DEF Gone, ShouldDrop

\* Step k changes a register when it is a write that is not lost or stuck.
Changes(d, a, k) ==
    /\ Asks(d, k) /\ plan[k].action = "write" /\ Address(plan[k]) = a
    /\ a \in DOMAIN Profile[d].holding /\ ~IsStuck(faults[d], a) /\ ~Gone(d, k)

LEMMA ContentChanges ==
    ASSUME NEW d, NEW a, NEW k \in Nat \ {0}
    PROVE  Content(d, a, k + 1) = IF Changes(d, a, k) THEN plan[k].write ELSE Content(d, a, k)
<1> DEFINE W == WritesBefore(d, a, k)
<1>1. (k + 1) - 1 = k /\ k \in Int
    OBVIOUS
<1>2. W \subseteq 1 .. k - 1
    BY DEF WritesBefore, RequestsTo
<1>3. Asks(d, k) => k \in RequestsTo(d, k) /\ (Dropped(k) <=> Gone(d, k))
    <2>1. Asks(d, k) => k \in RequestsTo(d, k)
        BY RequestsGrow
    <2> QED
        BY <2>1 DEF Asks, Dropped, Gone
<1>4. CASE Changes(d, a, k)
    <2>1. RequestsTo(d, k) = RequestsTo(d, k - 1) \cup {k}
        BY <1>4, RequestsGrow DEF Changes
    <2>2. WritesBefore(d, a, k + 1) = W \cup {k}
        BY <1>1, <1>3, <1>4, <2>1 DEF WritesBefore, Changes
    <2>3. Max(W \cup {k}) = k
        <3> HIDE DEF W
        <3>1. \A x \in W \cup {k} : k >= x /\ (x >= k => x = k)
            BY <1>2
        <3> QED
            BY <3>1 DEF Max
    <2> QED
        BY <1>4, <2>2, <2>3 DEF Content
<1>5. CASE ~Changes(d, a, k)
    <2>1. WritesBefore(d, a, k + 1) = W
        <3>1. CASE Asks(d, k)
            <4>1. RequestsTo(d, k) = RequestsTo(d, k - 1) \cup {k}
                BY <3>1, RequestsGrow
            <4> QED
                BY <1>1, <1>3, <1>5, <3>1, <4>1 DEF WritesBefore, Changes
        <3>2. CASE ~Asks(d, k)
            <4>1. RequestsTo(d, k) = RequestsTo(d, k - 1)
                BY <3>2, RequestsGrow
            <4> QED
                BY <1>1, <4>1 DEF WritesBefore
        <3> QED
            BY <3>1, <3>2
    <2> QED
        BY <1>5, <2>1 DEF Content
<1> QED
    BY <1>4, <1>5

\* A step that asks a device nothing leaves it where it is.
LEMMA QuietStep ==
    ASSUME NEW d, NEW k \in Nat \ {0}, ~Asks(d, k), Idle(d, k)
    PROVE  Idle(d, k + 1)
<1>1. (k + 1) - 1 = k
    OBVIOUS
<1>2. RequestsTo(d, k) = RequestsTo(d, k - 1)
    BY RequestsGrow
<1>3. \A a : Content(d, a, k + 1) = Content(d, a, k)
    BY ContentChanges DEF Changes
<1>4. Gone(d, k) <=> Gone(d, k - 1)
    BY <1>2 DEF Gone
<1> QED
    BY <1>1, <1>2, <1>3, <1>4 DEF Idle, Reached

(***************************************************************************)
(* What a device does with the request of a step is what the reference     *)
(* says: the verdict, and the register if the step writes one.             *)
(***************************************************************************)
\* The kind of reply to step k from a device that is not gone.
Answers(d, k) ==
    IF plan[k].action # "write" THEN "read"
    ELSE IF Address(plan[k]) \in DOMAIN Profile[d].holding THEN "write" ELSE "exception"

LEMMA StepHandled ==
    ASSUME TypeOK, Walk, NEW d \in Device, NEW k \in DOMAIN plan, Asks(d, k), Reached(d, k)
    PROVE  LET out == HandleFrame(Profile[d], faults[d], holding[d], count[d] + 1, RequestOf(plan[k]))
           IN  /\ count[d] + 1 = Cardinality(RequestsTo(d, k))
               /\ ShouldDrop(faults[d], count[d] + 1) <=> Gone(d, k)
               /\ ~Gone(d, k) =>
                     /\ out.reply.kind = Answers(d, k)
                     /\ out.reply.kind = "read" => /\ out.reply.words = <<ReferenceRead(k)>>
                                                   /\ ReferenceRead(k) \in Int
                     /\ \A a \in DOMAIN Profile[d].holding : out.holding[a] = Content(d, a, k + 1)
<1> DEFINE s   == plan[k]
           a0  == Address(s)
           reg == Profile[d].named[s.register]
           req == RequestOf(s)
           n   == count[d] + 1
           f   == faults[d]
           H   == holding[d]
           P   == Profile[d]
           out == HandleFrame(P, f, H, n, req)
<1>1. k \in Nat \ {0}
    BY PlanSteps
<1>2. n = Cardinality(RequestsTo(d, k)) /\ RequestsTo(d, k) # {}
    BY <1>1, RequestsGrow DEF Reached
<1>3. ShouldDrop(f, n) <=> Gone(d, k)
    BY <1>2 DEF Gone
<1>4. /\ IsStep(s) /\ s.device = d /\ req \in RequestType
      /\ req.intact /\ req.unit = P.unit /\ req.addr = a0 /\ a0 = reg.address
      /\ s.action = "write" => req.fc = "WRITE_SINGLE_REGISTER" /\ req.qty = s.write
      /\ s.action # "write" =>
            /\ req.qty = 1
            /\ req.fc = IF reg.kind = "input" THEN "READ_INPUT_REGISTERS" ELSE "READ_HOLDING_REGISTERS"
            /\ a0 \in DOMAIN (IF reg.kind = "input" THEN P.input ELSE P.holding)
    BY StepAsked DEF Asks
<1>5. /\ H \in [DOMAIN P.holding -> Word] /\ P.input \in [DOMAIN P.input -> Word]
      /\ f \in Seq(FaultConfig) /\ n \in Nat /\ a0 \in Int
    BY <1>4, ProfileAssumption DEF TypeOK, IsProfile, RequestType
<1>6. \A a \in DOMAIN P.holding : H[a] = Content(d, a, k)
    BY DEF Reached
<1>7. ASSUME ~Gone(d, k)
      PROVE  /\ out.reply.kind = Answers(d, k)
             /\ out.reply.kind = "read" => out.reply.words = <<ReferenceRead(k)>> /\ ReferenceRead(k) \in Int
             /\ \A a \in DOMAIN P.holding : out.holding[a] = Content(d, a, k + 1)
    <2>1. CASE s.action = "write"
        <3>1. /\ req.fc \in WriteCodes /\ req.fc \notin ReadCodes /\ Span(req) = {a0}
              /\ Bank(P, H, req.fc) = H
            BY <1>4, <2>1 DEF WriteCodes, ReadCodes, Span, Bank
        <3>2. Refusal(P, H, req) = IF a0 \in DOMAIN P.holding THEN "-" ELSE "ILLEGAL_DATA_ADDRESS"
            BY <1>4, <1>5, <2>1, <3>1 DEF Refusal
        <3>3. CASE a0 \in DOMAIN P.holding
            <4>1. out.reply = Echo /\ out.holding = Written(f, H, req)
                BY <1>3, <1>7, <3>1, <3>2, <3>3 DEF HandleFrame
            <4>2. ASSUME NEW a \in DOMAIN P.holding
                  PROVE  out.holding[a] = Content(d, a, k + 1)
                <5>1. out.holding[a] = IF a = a0 /\ ~IsStuck(f, a) THEN s.write ELSE H[a]
                    <6>1. a \in DOMAIN H
                        BY <1>5
                    <6>2. out.holding[a] = IF a = a0 /\ ~IsStuck(f, a) THEN WrittenWord(req, a) ELSE H[a]
                        BY <3>1, <4>1, <6>1 DEF Written
                    <6>3. a = a0 => WrittenWord(req, a) = s.write
                        BY <1>4, <1>5, <2>1 DEF WrittenWord
                    <6> QED
                        BY <6>2, <6>3
                <5>2. Changes(d, a, k) <=> a = a0 /\ ~IsStuck(f, a)
                    BY <1>7, <2>1 DEF Changes
                <5> QED
                    BY <1>1, <1>6, <5>1, <5>2, ContentChanges
            <4>3. out.reply.kind = "write"
                BY <4>1 DEF Echo, Reply
            <4> QED
                BY <2>1, <3>3, <4>2, <4>3 DEF Answers
        <3>4. CASE a0 \notin DOMAIN P.holding
            <4>1. out.reply = Exception("ILLEGAL_DATA_ADDRESS") /\ out.holding = H
                BY <1>3, <1>7, <3>2, <3>4 DEF HandleFrame
            <4>2. \A a \in DOMAIN P.holding : ~Changes(d, a, k)
                BY <3>4 DEF Changes
            <4>3. out.reply.kind = "exception"
                BY <4>1 DEF Exception, Reply
            <4> QED
                BY <1>1, <1>6, <2>1, <3>4, <4>1, <4>2, <4>3, ContentChanges DEF Answers
        <3> QED
            BY <3>3, <3>4
    <2>2. CASE s.action # "write"
        <3> DEFINE bank == IF reg.kind = "input" THEN P.input ELSE H
        <3>1. /\ req.fc \in ReadCodes /\ req.fc \notin WriteCodes /\ Span(req) = {a0}
              /\ Bank(P, H, req.fc) = bank /\ a0 \in DOMAIN bank
            <4>1. \A x : x \in a0 .. a0 + 1 - 1 <=> x = a0
                BY <1>5
            <4>2. Span(req) = a0 .. a0 + 1 - 1
                BY <1>4, <2>2 DEF Span
            <4>3. Span(req) = {a0}
                BY <4>1, <4>2
            <4> QED
                BY <1>4, <1>5, <2>2, <4>3 DEF WriteCodes, ReadCodes, Bank
        <3>2. Refusal(P, H, req) = "-"
            BY <1>4, <2>2, <3>1 DEF Refusal
        <3>3. ReadOut(P, f, H, n, req) = [i \in 1 .. 1 |-> ReadDrift(f, n, a0 + i - 1, bank[a0 + i - 1])]
            BY <1>4, <2>2, <3>1 DEF ReadOut
        <3>4. bank[a0] \in Word /\ ReferenceRead(k) = ReadDrift(f, n, a0, bank[a0])
            <4>1. CASE reg.kind = "input"
                BY <1>2, <1>4, <1>5, <3>1, <4>1 DEF ReferenceRead
            <4>2. CASE reg.kind # "input"
                BY <1>2, <1>4, <1>5, <1>6, <3>1, <4>2 DEF ReferenceRead
            <4> QED
                BY <4>1, <4>2
        <3>5. ReferenceRead(k) \in Word
            BY <1>5, <3>4, ReadDriftType
        <3>6. ReadOut(P, f, H, n, req) = <<ReferenceRead(k)>>
            <4> HIDE DEF bank
            <4>1. a0 + 1 - 1 = a0
                BY <1>5
            <4>2. \A i \in 1 .. 1 : i = 1
                OBVIOUS
            <4>3. ReadOut(P, f, H, n, req) = [i \in 1 .. 1 |-> ReferenceRead(k)]
                BY <3>3, <3>4, <4>1, <4>2
            <4> QED
                BY <4>3
        <3>7. out.reply = Reply("read", <<ReferenceRead(k)>>, "-") /\ out.holding = H
            <4>1. Len(<<ReferenceRead(k)>>) = 1 /\ ~(1 > MaxRegisters)
                BY MaxRegistersAssumption, NamedAssumption
            <4> QED
                BY <1>3, <1>7, <3>1, <3>2, <3>6, <4>1 DEF HandleFrame, ReadReply
        <3>8. \A a \in DOMAIN P.holding : ~Changes(d, a, k)
            BY <2>2 DEF Changes
        <3>9. out.reply.kind = "read" /\ out.reply.words = <<ReferenceRead(k)>>
            BY <3>7 DEF Reply
        <3> QED
            BY <1>1, <1>6, <2>2, <3>5, <3>7, <3>8, <3>9, ContentChanges DEF Answers, Word
    <2> QED
        BY <2>1, <2>2
<1> QED
    BY <1>2, <1>3, <1>7

\* The verdict on such a reply, if its CRC tells what the configuration says.
LEMMA StepJudged ==
    ASSUME Walk, NEW d \in Device, NEW k \in DOMAIN plan, Asks(d, k), ~Gone(d, k),
           RequestsTo(d, k) # {},
           NEW msg, msg.reply.kind = Answers(d, k),
           msg.reply.kind = "read" => msg.reply.words = <<ReferenceRead(k)>> /\ ReferenceRead(k) \in Int,
           msg.reply.crcOk = ~HasFault(faults[d], "crc_corrupt")
    PROVE  Agrees(k, Decode(RequestOf(plan[k]), msg))
<1> DEFINE s   == plan[k]
           req == RequestOf(s)
           m   == ReferenceRead(k)
           res == Decode(req, msg)
<1>1. /\ KnownStep(s) /\ s.device = d /\ IsStep(s) /\ ~Dropped(k)
      /\ s.action = "write" => req.fc = "WRITE_SINGLE_REGISTER"
      /\ s.action # "write" => req.fc \in ReadCodes
    BY StepAsked DEF Asks, Gone, Dropped, ReadCodes
<1>2. CASE Answers(d, k) = "exception"
    <2>1. res.what = "ModbusException"
        BY <1>2 DEF Decode
    <2>2. Judge(s, res) = Outcome(s, FALSE, "ModbusException", <<>>)
        BY <2>1 DEF Judge
    <2>3. Reference(k) = Outcome(s, FALSE, "ModbusException", <<>>)
        BY <1>1, <1>2, Zenon DEF Reference, Answers
    <2> QED
        BY <2>1, <2>2, <2>3 DEF Agrees
<1>3. CASE Answers(d, k) # "exception" /\ HasFault(faults[d], "crc_corrupt")
    <2>1. res.what = "DeviceError"
        BY <1>3 DEF Decode, Answers
    <2>2. Judge(s, res) = Outcome(s, FALSE, "DeviceError", <<>>)
        BY <2>1 DEF Judge
    <2>3. ~(s.action = "write" /\ Address(s) \notin DOMAIN Profile[d].holding)
        BY <1>3 DEF Answers
    <2>4. Reference(k) = Outcome(s, FALSE, "DeviceError", <<>>)
        BY <1>1, <1>3, <2>3, Zenon DEF Reference
    <2> QED
        BY <2>1, <2>2, <2>4 DEF Agrees
<1>4. CASE Answers(d, k) = "write" /\ ~HasFault(faults[d], "crc_corrupt")
    <2>1. s.action = "write" /\ Address(s) \in DOMAIN Profile[d].holding
        BY <1>4 DEF Answers
    <2>2. res.what = "written"
        <3>1. /\ msg.reply.kind = "write" /\ req.fc = "WRITE_SINGLE_REGISTER"
              /\ (~HasFault(faults[d], "crc_corrupt")) = TRUE
            BY <1>1, <1>4, <2>1
        <3>2. msg.reply.crcOk = TRUE
            BY <3>1
        <3> QED
            BY <3>1, <3>2 DEF Decode, ReadCodes
    <2>3. Judge(s, res) = Outcome(s, TRUE, "wrote", <<s.write>>)
        BY <2>1, <2>2 DEF Judge
    <2>4. Reference(k) = Outcome(s, TRUE, "wrote", <<s.write>>)
        BY <1>1, <1>4, <2>1, Zenon DEF Reference
    <2> QED
        BY <2>2, <2>3, <2>4 DEF Agrees
<1>5. CASE Answers(d, k) = "read" /\ ~HasFault(faults[d], "crc_corrupt")
    <2>1. s.action # "write"
        BY <1>5 DEF Answers
    <2>2. res.what = "values" /\ res.words = <<m>> /\ m \in Int
        BY <1>1, <1>5, <2>1 DEF Decode
    <2>3. res.words[1] = m
        BY <2>2
    <2>4. Judge(s, res) = Outcome(s, Meets(s, m), "measured", <<m>>)
        BY <2>1, <2>2, <2>3 DEF Judge
    <2>5. Meets(s, m) = (m \in Accepted(s))
        <3>1. CASE s.range = <<>>
            <4>1. s.value \in Int /\ s.tolerance \in Int
                BY <1>1 DEF IsStep
            <4> QED
                BY <2>2, <3>1, <4>1 DEF Meets, Accepted
        <3>2. CASE s.range # <<>>
            <4>1. s.range \in Int \X Int
                BY <1>1, <3>2 DEF IsStep
            <4>2. s.range[1] \in Int /\ s.range[2] \in Int
                BY <4>1
            <4> QED
                BY <2>2, <3>2, <4>2 DEF Meets, Accepted
        <3> QED
            BY <3>1, <3>2
    <2>6. Reference(k) = Outcome(s, m \in Accepted(s), "measured", <<m>>)
        BY <1>1, <1>5, <2>1, Zenon DEF Reference
    <2> QED
        BY <2>2, <2>4, <2>5, <2>6 DEF Agrees
<1> QED
    BY <1>2, <1>3, <1>4, <1>5 DEF Answers

(***************************************************************************)
(* The steps of a device and its client, between two steps of the plan.    *)
(***************************************************************************)
LEMMA ReachedStays ==
    ASSUME NEW d, NEW k, UNCHANGED job, UNCHANGED config, UNCHANGED <<holding[d], count[d]>>
    PROVE  Reached(d, k)' <=> Reached(d, k)
<1>1. holding'[d] = holding[d] /\ count'[d] = count[d]
    OBVIOUS
<1> QED
    BY <1>1, ReferenceFixed DEF Reached

LEMMA StaysPut ==
    ASSUME NEW d, NEW k, UNCHANGED job, UNCHANGED config, awaiting' = awaiting,
           UNCHANGED Own(d), UNCHANGED <<holding[d], count[d]>>, Conversing(d, k)
    PROVE  Conversing(d, k)'
<1>1. /\ link'[d] = link[d] /\ toServer'[d] = toServer[d] /\ toClient'[d] = toClient[d]
      /\ handler'[d] = handler[d] /\ call'[d] = call[d] /\ result'[d] = result[d]
    BY DEF Own
<1>2. /\ plan' = plan /\ faults' = faults
      /\ \A j : Reached(d, j)' <=> Reached(d, j)
      /\ \A j : Gone(d, j)' = Gone(d, j)
      /\ \A j, res : Agrees(j, res)' <=> Agrees(j, res)
    BY ReachedStays, ReferenceFixed
<1>3. Called(d, k) => Called(d, k)'
    BY <1>1, <1>2 DEF Called, Delay
<1>4. Replied(d, k) => Replied(d, k)'
    BY <1>1, <1>2 DEF Replied, Agrees
<1>5. HungUp(d, k) => HungUp(d, k)'
    BY <1>1, <1>2 DEF HungUp
<1>6. \A j : Idle(d, j) => Idle(d, j)'
    BY <1>1, <1>2 DEF Idle
<1>7. Back(d, k) => Back(d, k)'
    BY <1>1, <1>2, <1>6 DEF Back, Agrees
<1> QED
    BY <1>1, <1>2, <1>3, <1>4, <1>5, <1>6, <1>7 DEF Conversing

LEMMA IdleWaits ==
    ASSUME TypeOK, NEW d \in Device, NEW k, UNCHANGED job, Idle(d, k),
           Tick \/ ClientReturns(d) \/ ServerStep(d)
    PROVE  Idle(d, k)'
<1>1. ~ClientReturns(d)
    BY DEF Idle, ClientReturns, Receive, Expire, Eof, ReadRaises, GiveUp
<1>2. ~ServerStep(d)
    BY DEF Idle, ServerStep, ApplyDelay, Answer, Hang, EndOfRequests, Ready
<1>3. d \in Client
    BY OneClientPerDevice
<1>4. /\ UNCHANGED <<config, device, link, toServer, toClient>>
      /\ call'[d] = call[d] /\ handler'[d] = handler[d]
    BY <1>1, <1>2, <1>3 DEF Tick, Idle
<1>5. UNCHANGED <<holding[d], count[d]>> /\ UNCHANGED config
    BY <1>4 DEF device
<1>6. Gone(d, k - 1)' = Gone(d, k - 1)
    BY <1>5, ReferenceFixed
<1> QED
    BY <1>4, <1>5, <1>6, ReachedStays DEF Idle

LEMMA ConnectIdles ==
    ASSUME TypeOK, NEW d \in Device, NEW k, UNCHANGED job, Idle(d, k), Connect(d)
    PROVE  Idle(d, k)'
<1>1. d \in Client
    BY OneClientPerDevice
<1>2. /\ UNCHANGED <<config, device, toServer, toClient, call>>
      /\ link[d] = "unconnected" /\ link'[d] = "open" /\ handler'[d].pc = "reading"
    BY <1>1 DEF Connect, TypeOK, HandlerState
<1>3. UNCHANGED <<holding[d], count[d]>> /\ UNCHANGED config
    BY <1>2 DEF device
<1>4. Gone(d, k - 1)' = Gone(d, k - 1)
    BY <1>3, ReferenceFixed
<1> QED
    BY <1>2, <1>3, <1>4, ReachedStays DEF Idle

LEMMA CallStarts ==
    ASSUME TypeOK, NEW d \in Device, NEW k \in Nat \ {0}, UNCHANGED job,
           Asks(d, k), Idle(d, k), Send(d, RequestOf(plan[k]))
    PROVE  (Called(d, k) \/ HungUp(d, k))' /\ call'[d].req = RequestOf(plan[k])
<1> DEFINE req == RequestOf(plan[k])
           m   == [id |-> sent[d] + 1, req |-> req]
<1>1. d \in Client
    BY OneClientPerDevice
<1>2. /\ UNCHANGED <<config, device, toClient, handler>>
      /\ call'[d] = [waiting |-> TRUE, req |-> req, left |-> Timeout]
      /\ \/ link[d] = "open" /\ link' = link /\ toServer'[d] = Append(toServer[d], m)
         \/ link[d] = "closed" /\ link'[d] = "reset" /\ toServer' = toServer
    BY <1>1 DEF Send, TypeOK
<1>3. UNCHANGED <<holding[d], count[d]>> /\ UNCHANGED config
    BY <1>2 DEF device
<1>4. \A j : Gone(d, j)' = Gone(d, j)
    BY <1>3, ReferenceFixed
<1>5. CASE link[d] = "open"
    <2>1. toServer'[d] = <<m>>
        BY <1>2, <1>5 DEF Idle
    <2>2. Len(<<m>>) = 1 /\ Head(<<m>>) = m
        OBVIOUS
    <2>3. Reached(d, k)'
        BY <1>3, <1>5, ReachedStays DEF Idle
    <2>4. /\ handler'[d].pc # "sleeping" /\ link'[d] = "open" /\ toClient'[d] = <<>>
          /\ call'[d].waiting /\ call'[d].req = req /\ call'[d].left = Timeout - 0
        BY <1>2, <1>5, TimeoutAssumption DEF Idle
    <2> QED
        BY <2>1, <2>2, <2>3, <2>4 DEF Called
<1>6. CASE link[d] = "closed"
    <2>1. Gone(d, k - 1)
        BY <1>6 DEF Idle
    <2>2. Gone(d, k)'
        BY <1>4, <2>1, GoneForGood
    <2> QED
        BY <1>2, <1>6, <2>2 DEF HungUp, Idle
<1> QED
    BY <1>2, <1>5, <1>6

LEMMA HangReturns ==
    ASSUME TypeOK, Walk, NEW d \in Device, NEW k \in DOMAIN plan, UNCHANGED job,
           Asks(d, k), HungUp(d, k), Tick \/ ClientReturns(d) \/ ServerStep(d)
    PROVE  Back(d, k)'
<1>1. d \in Client /\ k \in Nat \ {0} /\ (k + 1) - 1 = k
    BY OneClientPerDevice, PlanSteps
<1>2. ~ServerStep(d) /\ ~Tick
    BY <1>1 DEF HungUp, ServerStep, ApplyDelay, Answer, Hang, EndOfRequests, Ready, Tick, Runnable
<1>3. GiveUp(d, "DeviceTimeout")
    BY <1>2 DEF HungUp, ClientReturns, Receive, Expire, Eof, ReadRaises
<1>4. /\ UNCHANGED <<config, device, link, toServer, toClient, handler>>
      /\ ~call'[d].waiting /\ result'[d] = Raised("DeviceTimeout")
    BY <1>1, <1>3 DEF GiveUp, TypeOK, CallState
<1>5. UNCHANGED config
    BY <1>4
<1>6. Idle(d, k + 1)'
    <2>1. Gone(d, k)' = Gone(d, k)
        BY <1>5, ReferenceFixed
    <2> QED
        BY <1>1, <1>4, <2>1 DEF HungUp, Idle
<1>7. Agrees(k, Raised("DeviceTimeout"))
    <2>1. KnownStep(plan[k]) /\ Dropped(k)
        BY DEF Asks, HungUp, Gone, Dropped
    <2>2. Reference(k) = Outcome(plan[k], FALSE, "DeviceTimeout", <<>>)
        BY <2>1, Zenon DEF Reference
    <2>3. Raised("DeviceTimeout").what = "DeviceTimeout"
        BY DEF Raised, NoResult
    <2>4. Judge(plan[k], Raised("DeviceTimeout")) = Outcome(plan[k], FALSE, "DeviceTimeout", <<>>)
        BY <2>3 DEF Judge
    <2> QED
        BY <2>2, <2>3, <2>4 DEF Agrees
<1>8. Agrees(k, Raised("DeviceTimeout"))'
    BY <1>5, <1>7, ReferenceFixed
<1> QED
    BY <1>4, <1>6, <1>8 DEF Back, Agrees

\* A delay below the timeout leaves time to return.
LEMMA TimeLeft ==
    ASSUME TypeOK, NEW d \in Device, NEW k, Predictable(d), Called(d, k)
    PROVE  call[d].left > 0
<1>1. d \in Client /\ DeviceOf[d] = d
    BY OneClientPerDevice
<1>2. Delay(d) \in Nat /\ Delay(d) < Timeout /\ handler[d].timer \in Nat /\ Timeout \in Nat
    BY <1>1, DelayType, TimeoutAssumption DEF Delay, Predictable, TypeOK, HandlerState
<1> DEFINE w == Delay(d)
           t == handler[d].timer
<1>3. call[d].left = Timeout - (IF handler[d].pc = "sleeping" THEN w - t ELSE 0)
    BY DEF Called
<1> HIDE DEF w, t
<1>4. w \in Nat /\ w < Timeout /\ t \in Nat /\ Timeout \in Nat
    BY <1>2 DEF w, t
<1> QED
    BY <1>3, <1>4

LEMMA ReplyFields ==
    ASSUME TypeOK, NEW d \in Device, Ready(d),
           ~(framing = "modbus-tcp" /\ HasFault(faults[d], "crc_corrupt"))
    PROVE  LET reply == WrapResponse(Response(d))
           IN  /\ reply.kind = Handled(d).reply.kind /\ reply.words = Handled(d).reply.words
               /\ Response(d).kind = Handled(d).reply.kind
               /\ Response(d).crcOk = ~HasFault(faults[d], "crc_corrupt")
               /\ reply.crcOk = ~HasFault(faults[d], "crc_corrupt")
<1> DEFINE r == Handled(d).reply
           s == Response(d)
<1>1. d \in Client /\ DeviceOf[d] = d
    BY OneClientPerDevice
<1>2. r \in ReplyType
    <2>1. /\ faults[d] \in Seq(FaultConfig) /\ count[d] + 1 \in Nat /\ IsProfile(Profile[d])
          /\ holding[d] \in [DOMAIN holding[d] -> Word]
        <3>1. /\ faults[d] \in Seq(FaultConfig) /\ count[d] \in Nat
              /\ holding[d] \in [DOMAIN Profile[d].holding -> Word]
            BY DEF TypeOK
        <3>2. count[d] + 1 \in Nat
            BY <3>1
        <3> QED
            BY <3>1, <3>2, ProfileAssumption
    <2>2. Head(toServer[d]).req \in RequestType /\ Head(toServer[d]).req.qty \in Word
        BY <1>1, HandledTyped DEF WireRequest, Encodable
    <2> QED
        BY <1>1, <2>1, <2>2, HandleFrameType DEF Handled
<1>3. s = [r EXCEPT !.crcOk = ~HasFault(faults[d], "crc_corrupt")]
    BY <1>1 DEF Response, CorruptCrc
<1> HIDE DEF r
<1>4. /\ s.kind = r.kind /\ s.words = r.words /\ s.crcOk = ~HasFault(faults[d], "crc_corrupt")
      /\ DOMAIN s = {"kind", "words", "code", "crcOk"}
    BY <1>2, <1>3 DEF ReplyType
<1> HIDE DEF s
<1>5. LET reply == WrapResponse(s)
      IN  /\ reply.kind = s.kind /\ reply.words = s.words
          /\ reply.crcOk = IF framing = "modbus-tcp" THEN TRUE ELSE s.crcOk
    BY <1>4 DEF WrapResponse
<1>6. (framing = "modbus-tcp") => (~HasFault(faults[d], "crc_corrupt")) = TRUE
    OBVIOUS
<1> QED
    BY <1>4, <1>5, <1>6 DEF r, s

LEMMA ReplyReturns ==
    ASSUME TypeOK, Walk, NEW d \in Device, NEW k \in DOMAIN plan, UNCHANGED job,
           Replied(d, k), Tick \/ ClientReturns(d) \/ ServerStep(d)
    PROVE  Back(d, k)'
<1> DEFINE first == Head(toClient[d])
           res   == Decode(call[d].req, first)
<1>1. d \in Client /\ k \in Nat \ {0} /\ (k + 1) - 1 = k
    BY OneClientPerDevice, PlanSteps
<1>2. toClient[d] \in Seq(WireReply) /\ toClient[d] # <<>> /\ Tail(toClient[d]) = <<>>
    <2>1. toClient[d] \in Seq(WireReply) /\ Len(toClient[d]) = 1
        BY <1>1 DEF TypeOK, Replied
    <2>2. toClient[d] # <<>>
        BY <2>1
    <2>3. Tail(toClient[d]) \in Seq(WireReply) /\ Len(Tail(toClient[d])) = 0
        BY <2>1, <2>2, HeadTailProperties
    <2> QED
        BY <2>1, <2>2, <2>3, EmptySeq
<1>3. ~ServerStep(d) /\ ~Tick
    BY <1>1, <1>2 DEF Replied, ServerStep, ApplyDelay, Answer, Hang, EndOfRequests, Ready, Tick, Runnable
<1>4. Receive(d)
    <2>1. call[d].left # 0
        BY DEF Replied
    <2> QED
        BY <1>2, <1>3, <2>1 DEF Replied, ClientReturns, Expire, Eof, ReadRaises
<1>5. /\ UNCHANGED <<config, device, link, toServer, handler>>
      /\ ~call'[d].waiting /\ result'[d] = res /\ toClient'[d] = Tail(toClient[d])
    BY <1>1, <1>4 DEF Receive, TypeOK, CallState
<1>6. UNCHANGED config /\ UNCHANGED <<holding[d], count[d]>>
    BY <1>5 DEF device
<1>7. Idle(d, k + 1)'
    <2>1. Gone(d, k)' = Gone(d, k) /\ Reached(d, k + 1)'
        BY <1>6, ReferenceFixed, ReachedStays DEF Replied
    <2>2. ~Gone(d, k)
        BY <1>1 DEF Replied, Reached
    <2> QED
        BY <1>1, <1>2, <1>5, <2>1, <2>2 DEF Replied, Idle
<1>8. Agrees(k, result[d])'
    <2>1. Agrees(k, res)
        BY DEF Replied
    <2> HIDE DEF res
    <2>2. \A x : Agrees(k, x)' <=> Agrees(k, x)
        BY <1>6, ReferenceFixed
    <2> QED
        BY <1>5, <2>1, <2>2 DEF Agrees
<1> QED
    BY <1>7, <1>8 DEF Back

\* What is served is the request of the step, and the reply is what the reference says.
LEMMA RequestServed ==
    ASSUME TypeOK, Walk, NEW d \in Device, Predictable(d), NEW k \in DOMAIN plan, UNCHANGED job,
           Asks(d, k), Called(d, k), call[d].req = RequestOf(plan[k]), Answer(d) \/ Hang(d)
    PROVE  (Replied(d, k) \/ HungUp(d, k))' /\ call'[d] = call[d]
<1> DEFINE req   == RequestOf(plan[k])
           msg   == Head(toServer[d])
           out   == HandleFrame(Profile[d], faults[d], holding[d], count[d] + 1, req)
           reply == WrapResponse(Response(d))
           sent1 == [id |-> msg.id, reply |-> reply]
<1>1. d \in Client /\ DeviceOf[d] = d /\ k \in Nat \ {0} /\ (k + 1) - 1 = k
    BY OneClientPerDevice, PlanSteps
<1>2. msg.req = req /\ Handled(d) = out
    BY <1>1 DEF Called, Handled
<1>3. /\ count[d] + 1 = Cardinality(RequestsTo(d, k))
      /\ ShouldDrop(faults[d], count[d] + 1) <=> Gone(d, k)
      /\ ~Gone(d, k) =>
            /\ out.reply.kind = Answers(d, k)
            /\ out.reply.kind = "read" => out.reply.words = <<ReferenceRead(k)>> /\ ReferenceRead(k) \in Int
            /\ \A a \in DOMAIN Profile[d].holding : out.holding[a] = Content(d, a, k + 1)
    BY StepHandled DEF Called
<1> HIDE DEF out
<1>4. /\ Ready(d) /\ UNCHANGED <<config, call>> /\ UNCHANGED config
      /\ count'[d] = count[d] + 1 /\ holding'[d] = out.holding
      /\ handler'[d].pc # "sleeping"
    <2>1. Ready(d) /\ (Answer(d) \/ Hang(d)) /\ UpdateDevice(d)
        BY DEF Answer, Hang
    <2>2. UNCHANGED <<config, call>>
        BY <2>1 DEF Answer, Hang
    <2>3. count'[d] = count[d] + 1 /\ holding'[d] = out.holding
        BY <1>1, <1>2, <2>1 DEF UpdateDevice, TypeOK
    <2>4. handler'[d].pc # "sleeping"
        BY <1>1, <2>1 DEF Answer, Hang, TypeOK
    <2> QED
        BY <2>1, <2>2, <2>3, <2>4
<1>5. /\ reply.kind = out.reply.kind /\ reply.words = out.reply.words
      /\ Response(d).kind = out.reply.kind
      /\ Response(d).crcOk = ~HasFault(faults[d], "crc_corrupt")
      /\ reply.crcOk = ~HasFault(faults[d], "crc_corrupt")
    BY <1>1, <1>2, <1>4, ReplyFields DEF Predictable
<1>6. Unwrappable(Response(d)) <=> Gone(d, k)
    <2>1. Gone(d, k) => out.reply.kind = "none"
        BY <1>3 DEF out, HandleFrame, NoReply, Reply
    <2>2. ~Gone(d, k) => out.reply.kind \notin {"none", "raise"}
        BY <1>3 DEF Answers
    <2>3. framing = "modbus-tcp" => Response(d).crcOk
        BY <1>5 DEF Predictable
    <2> QED
        BY <1>5, <2>1, <2>2, <2>3 DEF Unwrappable
<1> HIDE DEF reply
<1>7. CASE Gone(d, k)
    <2>1. Hang(d)
        BY <1>6, <1>7 DEF Answer
    <2>2. /\ link'[d] = "closed" /\ toServer'[d] = <<>> /\ toClient'[d] = <<>>
        BY <1>1, <2>1 DEF Hang, Called, TypeOK
    <2>3. Gone(d, k)'
        BY <1>4, <1>7, ReferenceFixed
    <2>4. call'[d].waiting
        BY <1>4 DEF Called
    <2> QED
        BY <1>4, <2>2, <2>3, <2>4 DEF HungUp
<1>8. CASE ~Gone(d, k)
    <2>1. Answer(d)
        BY <1>6, <1>8 DEF Hang
    <2>2. /\ link'[d] = "open" /\ toServer'[d] = Tail(toServer[d])
          /\ toClient'[d] = <<sent1>>
        BY <1>1, <2>1 DEF Answer, Called, TypeOK, reply
    <2>3. Tail(toServer[d]) = <<>>
        <3>1. toServer[d] \in Seq(WireRequest) /\ Len(toServer[d]) = 1
            BY <1>1 DEF TypeOK, Called
        <3>2. toServer[d] # <<>>
            BY <1>4 DEF Ready
        <3>3. Tail(toServer[d]) \in Seq(WireRequest) /\ Len(Tail(toServer[d])) = 0
            BY <3>1, <3>2, HeadTailProperties
        <3> QED
            BY <3>3, EmptySeq
    <2>4. Agrees(k, Decode(req, sent1))
        <3>1. RequestsTo(d, k) # {}
            BY <1>1, RequestsGrow
        <3>2. sent1.reply = reply
            OBVIOUS
        <3> HIDE DEF sent1
        <3> QED
            BY <1>3, <1>5, <1>8, <3>1, <3>2, StepJudged
    <2>5. Agrees(k, Decode(call[d].req, Head(toClient[d])))'
        <3>1. Len(<<sent1>>) = 1 /\ Head(<<sent1>>) = sent1
            OBVIOUS
        <3> DEFINE res == Decode(req, sent1)
        <3>2. Decode(call[d].req, Head(toClient[d]))' = res
            BY <1>4, <2>2, <3>1 DEF Decode
        <3> HIDE DEF res
        <3>3. \A x : Agrees(k, x)' <=> Agrees(k, x)
            BY <1>4, ReferenceFixed
        <3>4. Agrees(k, res)
            BY <2>4 DEF res
        <3> QED
            BY <3>2, <3>3, <3>4 DEF Agrees
    <2>6. call'[d].waiting /\ call'[d].left > 0
        BY <1>1, <1>4, TimeLeft DEF Called
    <2>7. Reached(d, k + 1)'
        <3>1. /\ ~Gone(d, k)' /\ Cardinality(RequestsTo(d, k))' = Cardinality(RequestsTo(d, k))
              /\ \A a : Content(d, a, k + 1)' = Content(d, a, k + 1)
            BY <1>4, <1>8, ReferenceFixed
        <3> QED
            BY <1>1, <1>3, <1>4, <1>8, <3>1 DEF Reached
    <2> QED
        BY <1>4, <2>2, <2>3, <2>5, <2>6, <2>7 DEF Replied
<1> QED
    BY <1>4, <1>7, <1>8

LEMMA CallProceeds ==
    ASSUME TypeOK, Walk, Promised, NEW d \in Device, Predictable(d), NEW k \in DOMAIN plan,
           UNCHANGED job, Asks(d, k), Called(d, k), call[d].req = RequestOf(plan[k]),
           Tick \/ ClientReturns(d) \/ ServerStep(d)
    PROVE  (Called(d, k) \/ Replied(d, k) \/ HungUp(d, k))' /\ call'[d].req = RequestOf(plan[k])
<1>1. d \in Client /\ DeviceOf[d] = d
    BY OneClientPerDevice
<1>2. toServer[d] # <<>> /\ handler[d].pc \in {"reading", "sleeping"}
    <2>1. toServer[d] \in Seq(WireRequest)
        BY <1>1 DEF TypeOK
    <2>2. Len(<<>>) = 0
        OBVIOUS
    <2> QED
        BY <1>1, <2>1, <2>2 DEF Called, Promised, Promises, Living
<1>3. ~ClientReturns(d)
    <2>1. call[d].left # 0
        BY TimeLeft
    <2> QED
        BY <2>1 DEF Called, ClientReturns, Receive, Expire, Eof, ReadRaises
<1>4. CASE Answer(d) \/ Hang(d)
    BY <1>4, RequestServed
<1>5. CASE ApplyDelay(d)
    <2> DEFINE w == Delay(d)
    <2>1. /\ UNCHANGED <<config, device, link, toServer, toClient, call>>
          /\ handler'[d] = [pc |-> "sleeping", timer |-> w] /\ handler[d].pc = "reading"
        BY <1>1, <1>5 DEF ApplyDelay, TypeOK
    <2>2. UNCHANGED config /\ UNCHANGED <<holding[d], count[d]>>
        BY <2>1 DEF device
    <2>3. w \in Nat /\ w' = w
        BY <1>1, <2>2, DelayType, ReferenceFixed DEF Delay, TypeOK
    <2>4. call'[d].left = Timeout - (w - w) /\ handler'[d].pc = "sleeping" /\ handler'[d].timer = w
        <3> HIDE DEF w
        <3>1. w - w = 0
            BY <2>3
        <3> QED
            BY <2>1, <3>1 DEF Called
    <2>5. Reached(d, k)'
        BY <2>2, ReachedStays DEF Called
    <2> QED
        BY <2>1, <2>3, <2>4, <2>5 DEF Called
<1>6. CASE Tick
    <2> DEFINE w == Delay(d)
               t == handler[d].timer
    <2>1. handler[d].pc = "sleeping" /\ t # 0
        BY <1>1, <1>2, <1>6 DEF Tick, Runnable
    <2>2. /\ UNCHANGED <<config, device, link, toServer, toClient>>
          /\ call'[d].left = call[d].left - 1 /\ call'[d].waiting /\ call'[d].req = call[d].req
          /\ handler'[d].pc = "sleeping" /\ handler'[d].timer = t - 1
        BY <1>1, <1>6, <2>1 DEF Tick, Called, TypeOK, CallState, HandlerState
    <2>3. UNCHANGED config /\ UNCHANGED <<holding[d], count[d]>>
        BY <2>2 DEF device
    <2>4. w \in Nat /\ w' = w /\ t \in Nat /\ Timeout \in Nat
        BY <1>1, <2>3, DelayType, TimeoutAssumption, ReferenceFixed DEF Delay, TypeOK, HandlerState
    <2>5. call[d].left = Timeout - (w - t)
        BY <2>1 DEF Called
    <2>6. call'[d].left = Timeout - (w - (t - 1))
        <3> HIDE DEF w, t
        <3> QED
            BY <2>2, <2>4, <2>5
    <2>7. Reached(d, k)'
        BY <2>3, ReachedStays DEF Called
    <2> QED
        BY <2>2, <2>4, <2>6, <2>7 DEF Called
<1>7. ~EndOfRequests(d)
    BY DEF Called, EndOfRequests
<1> QED
    BY <1>3, <1>4, <1>5, <1>6, <1>7 DEF ServerStep

LEMMA IdleStays ==
    ASSUME NEW d, NEW k, UNCHANGED job, UNCHANGED config,
           UNCHANGED Own(d), UNCHANGED <<holding[d], count[d]>>, Idle(d, k)
    PROVE  Idle(d, k)'
<1>1. /\ link'[d] = link[d] /\ toServer'[d] = toServer[d] /\ toClient'[d] = toClient[d]
      /\ handler'[d] = handler[d] /\ call'[d] = call[d]
    BY DEF Own
<1>2. Gone(d, k - 1)' = Gone(d, k - 1)
    BY ReferenceFixed
<1> QED
    BY <1>1, <1>2, ReachedStays DEF Idle

\* The sequencer moves to the next step and nothing else moves.
LEMMA MovesToNext ==
    ASSUME NEW d, NEW k \in Int, UNCHANGED job, UNCHANGED vars, ~awaiting', Idle(d, k + 1),
           pos' = k + 1
    PROVE  \A j \in Int : j = pos' => Conversing(d, j)'
<1> SUFFICES ASSUME NEW j \in Int, j = k + 1 PROVE Conversing(d, j)'
    OBVIOUS
<1>1. UNCHANGED config /\ UNCHANGED Own(d) /\ UNCHANGED <<holding[d], count[d]>>
    BY DEF vars, Own, device, counts
<1>2. Idle(d, j)
    OBVIOUS
<1>3. Idle(d, j)'
    BY <1>1, <1>2, IdleStays
<1> QED
    BY <1>3 DEF Conversing

\* The network's steps keep every device on the course of the plan.
LEMMA NetworkConverses ==
    ASSUME TypeOK, Walk, Promised, NEW d \in Device, Predictable(d), NEW k \in Int, k = pos,
           run \in {"connecting", "stepping"}, Conversing(d, k), StationNet
    PROVE  Conversing(d, k)'
<1>1. UNCHANGED job /\ UNCHANGED config /\ awaiting' = awaiting /\ plan' = plan
    <2>1. UNCHANGED job /\ awaiting' = awaiting /\ plan' = plan
        BY DEF StationNet, stationVars, sequencer, job
    <2>2. UNCHANGED config
        BY DEF StationNet, Tick, ClientReturns, Receive, Expire, Eof, ReadRaises, GiveUp,
               ServerStep, ApplyDelay, Answer, Hang, EndOfRequests
    <2> QED
        BY <2>1, <2>2
<1>2. d \in Client /\ DeviceOf[d] = d
    BY OneClientPerDevice
<1>3. ASSUME NEW c \in Client, c # d, ClientReturns(c) \/ ServerStep(c)
      PROVE  Conversing(d, k)'
    <2>1. UNCHANGED Own(d)
        BY <1>2, <1>3, OthersOwn
    <2>2. UNCHANGED <<holding[d], count[d]>>
        <3>1. d # DeviceOf[c]
            BY <1>3, OneClientPerDevice
        <3> QED
            BY <1>3, <3>1, OtherUnits
    <2> QED
        BY <1>1, <2>1, <2>2, StaysPut
<1>4. ASSUME (Awaits /\ Tick) \/ ClientReturns(d) \/ ServerStep(d)
      PROVE  Conversing(d, k)'
    <2>1. CASE ~(awaiting /\ plan[k].device = d)
        <3>1. Idle(d, k)
            BY <2>1 DEF Conversing
        <3>2. Idle(d, k)'
            BY <1>1, <1>4, <3>1, IdleWaits
        <3> QED
            BY <1>1, <2>1, <3>2 DEF Conversing
    <2>2. CASE awaiting /\ plan[k].device = d
        <3>1. k \in DOMAIN plan /\ Asks(d, k)
            BY <2>2, PlanSteps DEF Walk, Asks, Wants, Selected, Known, step
        <3>2. ~Back(d, k)
            <4>1. SUFFICES ASSUME Idle(d, k + 1) PROVE FALSE
                BY DEF Back
            <4>2. ~ClientReturns(d) /\ ~ServerStep(d)
                BY <4>1 DEF Idle, ClientReturns, Receive, Expire, Eof, ReadRaises, GiveUp,
                            ServerStep, ApplyDelay, Answer, Hang, EndOfRequests, Ready
            <4>3. ~Awaits
                BY <2>2, <4>1 DEF Awaits, Idle, step
            <4> QED
                BY <1>4, <4>2, <4>3
        <3>3. Called(d, k) \/ Replied(d, k) \/ HungUp(d, k)
            BY <2>2, <3>2 DEF Conversing
        <3>4. call[d].req = RequestOf(plan[k])
            BY <2>2, <3>2 DEF Conversing
        <3>5. \/ (Called(d, k) \/ Replied(d, k) \/ HungUp(d, k))' /\ call'[d].req = RequestOf(plan[k])
              \/ Back(d, k)'
            BY <1>1, <1>4, <3>1, <3>3, <3>4, CallProceeds, ReplyReturns, HangReturns
        <3>6. (RequestOf(plan[k]))' = RequestOf(plan[k])
            BY <1>1 DEF RequestOf
        <3> QED
            BY <1>1, <2>2, <3>5, <3>6 DEF Conversing
    <2> QED
        BY <2>1, <2>2
<1> QED
    BY <1>3, <1>4 DEF StationNet

\* The sequencer's steps do so too.
LEMMA SequencerConverses ==
    ASSUME TypeOK, Walk, NEW d \in Device, Predictable(d), NEW k \in Int, k = pos,
           run \in {"connecting", "stepping"}, run' \in {"connecting", "stepping"},
           Conversing(d, k), Sequence
    PROVE  \A j \in Int : j = pos' => Conversing(d, j)'
<1>1. k \in Nat \ {0} /\ d \in Client /\ DeviceOf[d] = d /\ step = plan[k]
    BY PlanSteps, OneClientPerDevice DEF step
<1>2. CASE SkipStep \/ UnknownStep
    <2>1. /\ UNCHANGED vars /\ UNCHANGED job /\ ~awaiting /\ ~awaiting' /\ pos' = k + 1
          /\ ~Selected(step) \/ ~Known
        <3>1. CASE SkipStep
            BY <3>1 DEF SkipStep, Stepping
        <3>2. CASE UnknownStep
            BY <3>2 DEF UnknownStep, Stepping, Record
        <3> QED
            BY <1>2, <3>1, <3>2
    <2>2. Idle(d, k + 1)
        BY <1>1, <2>1, QuietStep DEF Conversing, Asks, Wants, Selected, Known
    <2> QED
        BY <1>1, <2>1, <2>2, MovesToNext
<1>3. CASE FinishStep
    <2>1. /\ UNCHANGED vars /\ UNCHANGED job /\ awaiting /\ ~awaiting' /\ pos' = k + 1
          /\ ~call[step.device].waiting
        BY <1>3 DEF FinishStep, Record
    <2>2. Idle(d, k + 1)
        BY <1>1, <2>1, QuietStep DEF Conversing, Asks, Called, Replied, HungUp, Back
    <2> QED
        BY <1>1, <2>1, <2>2, MovesToNext
<1>4. CASE IssueStep
    <2>1. /\ UNCHANGED job /\ ~awaiting /\ awaiting' /\ pos' = k /\ plan' = plan
          /\ Send(step.device, RequestOf(step)) /\ pos <= Len(plan) /\ Selected(step) /\ Known
        BY <1>4 DEF IssueStep, Stepping, job
    <2>2. Idle(d, k)
        BY <2>1 DEF Conversing
    <2>3. CASE step.device = d
        <3>1. Asks(d, k)
            BY <1>1, <2>1, <2>3 DEF Asks, Wants, Selected, Known
        <3>2. (Called(d, k) \/ HungUp(d, k))' /\ call'[d].req = RequestOf(plan[k])
            BY <1>1, <2>1, <2>2, <2>3, <3>1, CallStarts
        <3>3. (RequestOf(plan[k]))' = RequestOf(plan[k])
            BY <2>1 DEF RequestOf
        <3> QED
            BY <1>1, <2>1, <2>3, <3>2, <3>3 DEF Conversing
    <2>4. CASE step.device # d
        <3> DEFINE c == step.device
        <3>1. c \in Client /\ RequestOf(step) \in Requests
            BY <2>1, PlanSteps
        <3>2. UNCHANGED Own(d)
            BY <1>1, <2>1, <2>4, <3>1, OthersOwn
        <3>3. UNCHANGED <<holding[d], count[d]>> /\ UNCHANGED config
            BY <2>1 DEF Send, device
        <3>4. Idle(d, k)'
            BY <2>1, <2>2, <3>2, <3>3, IdleStays
        <3> QED
            BY <1>1, <2>1, <2>4, <3>4 DEF Conversing
    <2> QED
        BY <2>3, <2>4
<1>5. CASE \E c \in Client : ConnectAll(c)
    <2>1. PICK c \in Client : ConnectAll(c)
        BY <1>5
    <2>2. /\ UNCHANGED job /\ awaiting' = awaiting /\ pos' = k /\ Connect(c) /\ ~awaiting
        BY <2>1 DEF ConnectAll, sequencer, Walk
    <2>3. Idle(d, k)
        BY <2>2 DEF Conversing
    <2>4. Idle(d, k)'
        <3>1. CASE c = d
            BY <2>2, <2>3, <3>1, ConnectIdles
        <3>2. CASE c # d
            <4>1. UNCHANGED Own(d)
                BY <1>1, <2>2, <3>2, OthersOwn
            <4>2. UNCHANGED <<holding[d], count[d]>> /\ UNCHANGED config
                BY <2>2 DEF Connect, device
            <4> QED
                BY <2>2, <2>3, <4>1, <4>2, IdleStays
        <3> QED
            BY <3>1, <3>2
    <2> QED
        BY <2>2, <2>4 DEF Conversing
<1>6. CASE \/ IssueRaises \/ FinishPlan \/ ClientsClosed
           \/ \E c \in Client : CloseClient(c) \/ StopServer(c)
    BY <1>6 DEF IssueRaises, FinishPlan, ClientsClosed, CloseClient, StopServer
<1> QED
    BY <1>2, <1>3, <1>4, <1>5, <1>6 DEF Sequence

\* A run that has left its steps does not come back to them.
LEMMA RunsForward ==
    ASSUME [StationNext]_allVars, run' \in {"connecting", "stepping"}
    PROVE  run \in {"connecting", "stepping"}
<1>1. CASE Sequence
    BY <1>1 DEF Sequence, SkipStep, UnknownStep, IssueStep, IssueRaises, FinishStep, FinishPlan,
                ClientsClosed, ConnectAll, CloseClient, StopServer, stationVars, Stepping
<1>2. CASE StationNet \/ Ended \/ UNCHANGED allVars
    BY <1>2 DEF StationNet, Ended, allVars, stationVars
<1> QED
    BY <1>1, <1>2 DEF StationNext

\* A verdict that is not appended to stays right.
LEMMA CorrectStays ==
    ASSUME Correct, UNCHANGED job, UNCHANGED config, outcomes' = outcomes
    PROVE  Correct'
<1>1. /\ plan' = plan /\ only' = only
      /\ \A d : Predictable(d)' <=> Predictable(d)
      /\ \A k : Reference(k)' = Reference(k)
    BY ReferenceFixed
<1>2. \A i, k : Right(i, k) => Right(i, k)'
    BY <1>1 DEF Right
<1> QED
    BY <1>1, <1>2 DEF Correct

LEMMA CorrectGrows ==
    ASSUME Walk, Filled, Correct, UNCHANGED job, UNCHANGED config,
           pos <= Len(plan), Selected(step), NEW o, outcomes' = Append(outcomes, o),
           NEW p \in Int, p = pos,
           (plan[p].device \in Device => Predictable(plan[p].device)) => o = Reference(p)
    PROVE  Correct'
<1> DEFINE n == Len(outcomes)
<1>1. /\ plan' = plan /\ only' = only
      /\ \A d : Predictable(d)' <=> Predictable(d)
      /\ \A k : Reference(k)' = Reference(k)
    BY ReferenceFixed
<1>2. /\ Len(outcomes)' = n + 1 /\ outcomes'[n + 1] = o
      /\ \A i \in 1 .. n : outcomes'[i] = outcomes[i]
    BY ListGrows DEF Filled, IsList
<1>3. n \in Nat /\ Place(plan, only, n + 1) = p
    <2>1. IsList(plan) /\ p \in DOMAIN plan /\ p \in Nat \ {0}
        BY PlanSteps
    <2>2. n = Cardinality(Chosen(plan, only, p - 1)) /\ n \in Nat
        <3>1. Cardinality(Chosen(plan, only, p - 1)) \in Nat
            BY ChosenFinite
        <3> QED
            BY <3>1 DEF Filled
    <2>3. Cardinality(Chosen(plan, only, p)) = n + 1
        BY <2>1, <2>2, ChosenGrows DEF Selected, step
    <2>4. only.all \/ plan[p].name \in only.names
        BY DEF Selected, step
    <2> QED
        BY <2>1, <2>2, <2>3, <2>4, PlaceIs
<1> HIDE DEF n
<1>4. ASSUME NEW i \in 1 .. n, NEW k \in DOMAIN plan, k = Place(plan, only, i)
      PROVE  Right(i, k)'
    <2>1. Right(i, k)
        BY <1>4 DEF Correct, n
    <2> QED
        BY <1>1, <1>2, <2>1 DEF Right
<1>5. ASSUME NEW i, i = n + 1 PROVE Right(i, p)'
    BY <1>1, <1>2, <1>5 DEF Right
<1>6. \A i \in 1 .. n + 1 : i \in 1 .. n \/ i = n + 1
    BY <1>3
<1>7. ASSUME NEW i \in 1 .. n + 1, NEW k \in DOMAIN plan, k = Place(plan, only, i)
      PROVE  Right(i, k)'
    BY <1>3, <1>4, <1>5, <1>6, <1>7
<1> QED
    BY <1>1, <1>2, <1>7 DEF Correct

LEMMA StepDecided ==
    ASSUME TypeOK, Promised, Walk, Filled, OnCourse, Correct, [StationNext]_allVars
    PROVE  OnCourse' /\ Correct'
<1>1. UNCHANGED job /\ UNCHANGED config
    <2>1. UNCHANGED config
        BY StepIsLink, ConfigFixed
    <2>2. CASE Sequence
        BY <2>1, <2>2 DEF Sequence, SkipStep, UnknownStep, IssueStep, IssueRaises, FinishStep, FinishPlan,
                    ClientsClosed, ConnectAll, CloseClient, StopServer, stationVars
    <2> QED
        BY <2>1, <2>2 DEF StationNext, StationNet, Ended, allVars, stationVars
<1>2. OnCourse'
    <2> SUFFICES ASSUME run' \in {"connecting", "stepping"}, NEW d \in Device, Predictable(d)',
                        NEW k \in Int, k = pos'
                 PROVE  Conversing(d, k)'
        BY <1>1, PlanSteps DEF OnCourse, job
    <2>1. run \in {"connecting", "stepping"}
        BY RunsForward
    <2>2. Predictable(d) /\ pos \in Int /\ pos \in 1 .. Len(plan) + 1
        BY <1>1, PlanSteps, ReferenceFixed DEF Walk
    <2>3. PICK j \in Int : j = pos
        BY <2>2
    <2>4. Conversing(d, j)
        BY <2>1, <2>2, <2>3 DEF OnCourse
    <2>5. CASE Sequence
        BY <2>1, <2>2, <2>3, <2>4, <2>5, SequencerConverses
    <2>6. CASE StationNet
        <3>1. Conversing(d, j)'
            BY <2>1, <2>2, <2>3, <2>4, <2>6, NetworkConverses
        <3>2. pos' = pos
            BY <2>6 DEF StationNet, stationVars, sequencer
        <3>3. k = j
            BY <2>3, <3>2
        <3> QED
            BY <3>1, <3>3
    <2>7. CASE Ended \/ UNCHANGED allVars
        <3>1. UNCHANGED vars /\ awaiting' = awaiting /\ pos' = pos
            BY <2>7 DEF Ended, allVars, stationVars, sequencer
        <3>2. UNCHANGED Own(d) /\ UNCHANGED <<holding[d], count[d]>>
            BY <3>1 DEF vars, Own, device, counts
        <3>3. Conversing(d, j)'
            BY <1>1, <2>4, <3>1, <3>2, StaysPut
        <3>4. k = j
            BY <2>3, <3>1
        <3> QED
            BY <3>3, <3>4
    <2> QED
        BY <2>5, <2>6, <2>7 DEF StationNext
<1>3. Correct'
    <2>1. CASE outcomes' = outcomes
        BY <1>1, <2>1, CorrectStays
    <2>2. CASE UnknownStep
        <3> DEFINE o == Outcome(step, FALSE, "unknown", <<>>)
        <3>1. /\ pos <= Len(plan) /\ Selected(step) /\ ~KnownStep(plan[pos])
              /\ outcomes' = Append(outcomes, o)
            BY <2>2 DEF UnknownStep, Stepping, Record, Known, step
        <3>2. PICK p \in Int : p = pos
            BY PlanSteps
        <3>3. o = Reference(p)
            BY <3>1, <3>2 DEF Reference, step
        <3> HIDE DEF o
        <3> QED
            BY <1>1, <3>1, <3>2, <3>3, CorrectGrows
    <2>3. CASE FinishStep /\ outcomes' # outcomes
        <3> DEFINE d == step.device
                   o == Judge(step, result[d])
        <3>1. /\ run = "stepping" /\ awaiting /\ pos <= Len(plan) /\ Selected(step) /\ ~call[d].waiting
              /\ d \in Device /\ outcomes' = Append(outcomes, o)
            BY <2>3 DEF FinishStep, Record, Walk, Known, KnownStep
        <3>2. PICK p \in Int : p = pos
            BY PlanSteps
        <3>3. plan[p].device = d /\ plan[p] = step
            BY <3>2 DEF step
        <3>4. ASSUME Predictable(d) PROVE o = Reference(p)
            <4>1. Conversing(d, p)
                BY <3>1, <3>2, <3>4, PlanSteps DEF OnCourse, Walk
            <4>2. Back(d, p)
                BY <3>1, <3>3, <4>1 DEF Conversing, Called, Replied, HungUp
            <4> QED
                BY <3>3, <4>2 DEF Back, Agrees
        <3> HIDE DEF o
        <3> QED
            BY <1>1, <3>1, <3>2, <3>3, <3>4, CorrectGrows
    <2>4. outcomes' = outcomes \/ UnknownStep \/ FinishStep
        <3>1. CASE StationNext
            BY <3>1 DEF StationNext, Sequence, SkipStep, IssueStep, IssueRaises, FinishPlan, ClientsClosed,
                        ConnectAll, CloseClient, StopServer, StationNet, Ended, allVars, stationVars, sequencer
        <3>2. CASE UNCHANGED allVars
            BY <3>2 DEF allVars, stationVars, sequencer
        <3> QED
            BY <3>1, <3>2
    <2> QED
        BY <2>1, <2>2, <2>3, <2>4
<1> QED
    BY <1>2, <1>3

LEMMA InitDecided == StationInit => OnCourse /\ Correct
<1> SUFFICES ASSUME StationInit PROVE OnCourse /\ Correct
    OBVIOUS
<1>1. Walk /\ Filled /\ pos = 1 /\ ~awaiting
    BY InitWalk DEF StationInit
<1>2. ASSUME NEW d \in Device, NEW k \in Int, k = 1
      PROVE  Idle(d, k)
    <2>1. d \in Client
        BY OneClientPerDevice
    <2>2. /\ link[d] = "unconnected" /\ toServer[d] = <<>> /\ toClient[d] = <<>>
          /\ handler[d].pc = "none" /\ ~call[d].waiting /\ count[d] = 0
          /\ holding[d] = Profile[d].holding
        BY <2>1 DEF StationInit, Init
    <2>3. RequestsTo(d, k - 1) = {}
        BY <1>2 DEF RequestsTo
    <2>4. \A a : Content(d, a, k) = Profile[d].holding[a]
        BY <2>3 DEF Content, WritesBefore
    <2>5. ~Gone(d, k - 1) /\ Cardinality(RequestsTo(d, k - 1)) = 0
        BY <2>3, FS_EmptySet DEF Gone
    <2> QED
        BY <2>2, <2>4, <2>5 DEF Idle, Reached
<1>3. OnCourse
    BY <1>1, <1>2, PlanSteps DEF OnCourse, Conversing
<1>4. Correct
    <2>1. Len(outcomes) = 0
        BY DEF StationInit
    <2> QED
        BY <2>1 DEF Correct
<1> QED
    BY <1>3, <1>4

LEMMA CorrectIsReference ==
    ASSUME Walk, Filled, Correct PROVE VerdictsAreReference
<1> SUFFICES ASSUME NEW i \in DOMAIN outcomes, NEW k, k = Position(i) PROVE Right(i, k)
    BY DEF VerdictsAreReference, Right
<1>1. DOMAIN outcomes = 1 .. Len(outcomes) /\ Len(outcomes) \in Nat
    BY ListDomain DEF Filled
<1>2. IsList(plan) /\ Len(plan) \in Nat /\ DOMAIN plan = 1 .. Len(plan) /\ pos \in Nat \ {0}
    BY PlanSteps
<1>3. k = Place(plan, only, i)
    BY DEF Position, Place, Chosen, Wants
<1>4. Len(outcomes) <= Cardinality(Chosen(plan, only, Len(plan)))
    <2>1. pos - 1 \in Int /\ pos - 1 <= Len(plan)
        BY <1>2 DEF Walk
    <2>2. Cardinality(Chosen(plan, only, pos - 1)) <= Cardinality(Chosen(plan, only, Len(plan)))
        BY <1>2, <2>1, ChosenMonotonic
    <2> QED
        BY <2>2 DEF Filled
<1>5. Cardinality(Chosen(plan, only, Len(plan))) \in Nat
    BY <1>2, ChosenFinite
<1>6. i \in 1 .. Cardinality(Chosen(plan, only, Len(plan)))
    BY <1>1, <1>4, <1>5
<1>7. k \in DOMAIN plan
    BY <1>2, <1>3, <1>6, PlaceTaken DEF Places
<1> QED
    BY <1>1, <1>3, <1>7 DEF Correct

(***************************************************************************)
(* Each verdict is the one the plan and the configuration of faults        *)
(* decide, whatever the other devices of the station do (sequencer.py:81-  *)
(* 177, thresholds.py:25-47).                                              *)
(***************************************************************************)
THEOREM VerdictsDecided == StationSpec => []VerdictsAreReference
<1>1. StationInit => OnCourse /\ Correct
    BY InitDecided
<1>2. /\ TypeOK /\ IInv /\ Promised /\ Walk /\ Filled /\ OnCourse /\ Correct
      /\ [StationNext]_allVars
      => (OnCourse /\ Correct)'
    BY StepDecided
<1>3. Walk /\ Filled /\ Correct => VerdictsAreReference
    BY CorrectIsReference
<1> QED
    BY <1>1, <1>2, <1>3, Walking, LinkInStation, PTL DEF StationSpec
==============================================================================
