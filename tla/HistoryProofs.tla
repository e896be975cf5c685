---------------------------- MODULE HistoryProofs ----------------------------
(***************************************************************************)
(* History for any number of jobs, plans and editions, and any limit of    *)
(* the list.                                                               *)
(***************************************************************************)
EXTENDS History, FiniteSetTheorems, SequenceTheorems, TLAPS

(***************************************************************************)
(* Of the rows in a set, one started last and one first.                   *)
(***************************************************************************)
Stamped == \A i \in DOMAIN rows : rows[i].started \in Nat
IsTable(table) == table \in Seq(ToSet(table))

LEMMA TableDomain ==
    ASSUME NEW table, IsTable(table)
    PROVE  /\ Len(table) \in Nat /\ DOMAIN table = 1 .. Len(table)
           /\ IsFiniteSet(DOMAIN table)
<1>1. Len(table) \in Nat /\ DOMAIN table = 1 .. Len(table)
    BY LenProperties DEF IsTable
<1> QED
    BY <1>1, FS_Interval

LEMMA LargestExists ==
    ASSUME NEW set, IsFiniteSet(set), set # {}, NEW of, \A i \in set : of[i] \in Int
    PROVE  \E i \in set : \A k \in set : of[k] <= of[i]
<1> DEFINE above(i) == {k \in set : of[k] > of[i]}
           T == {above(i) : i \in set}
           R == StrictSubsetOrdering(set)
<1>1. T \subseteq FiniteSubsetsOf(set) /\ T # {}
    <2>1. \A i \in set : IsFiniteSet(above(i)) /\ above(i) \subseteq set
        BY FS_Subset
    <2>2. \A i \in set : above(i) \in FiniteSubsetsOf(set)
        <3> HIDE DEF above
        <3> QED
            BY <2>1 DEF FiniteSubsetsOf
    <2> HIDE DEF above
    <2>3. T \subseteq FiniteSubsetsOf(set)
        BY <2>2
    <2>4. PICK i \in set : TRUE
        OBVIOUS
    <2>5. above(i) \in T
        OBVIOUS
    <2> QED
        BY <2>3, <2>5
<1>2. IsWellFoundedOn(R, FiniteSubsetsOf(set))
    BY FS_StrictSubsetOrderingWellFounded
<1>3. \E x \in T : \A y \in T : ~ (<<y, x>> \in R)
    <2> HIDE DEF T, R
    <2> QED
        BY <1>1, <1>2, WFMin
<1>4. PICK i \in set : \A k \in set : ~ (<<above(k), above(i)>> \in R)
    <2> HIDE DEF above, R
    <2>1. PICK x \in T : \A y \in T : ~ (<<y, x>> \in R)
        BY <1>3
    <2>2. PICK i \in set : x = above(i)
        OBVIOUS
    <2>3. \A k \in set : above(k) \in T
        OBVIOUS
    <2> QED
        BY <2>1, <2>2, <2>3
<1>5. ASSUME NEW k \in set, of[k] > of[i] PROVE FALSE
    <2>1. above(k) \subseteq above(i)
        BY <1>5
    <2>2. k \in above(i) /\ k \notin above(k)
        BY <1>5
    <2>3. <<above(k), above(i)>> \in R
        BY <2>1, <2>2 DEF StrictSubsetOrdering
    <2> QED
        BY <2>3, <1>4
<1> QED
    BY <1>5

LEMMA NewestExists ==
    ASSUME IsTable(rows), Stamped, NEW set \in SUBSET DOMAIN rows, set # {}
    PROVE  /\ \E i \in set : \A k \in set : rows[k].started <= rows[i].started
           /\ \E i \in set : \A k \in set : rows[i].started <= rows[k].started
<1> DEFINE stamp == [i \in set |-> rows[i].started]
           back  == [i \in set |-> - rows[i].started]
<1>1. IsFiniteSet(set) /\ \A i \in set : rows[i].started \in Int
    BY TableDomain, FS_Subset DEF Stamped
<1>2. \E i \in set : \A k \in set : stamp[k] <= stamp[i]
    BY <1>1, LargestExists
<1>3. \E i \in set : \A k \in set : back[k] <= back[i]
    <2>1. \A i \in set : back[i] \in Int
        BY <1>1
    <2> HIDE DEF back
    <2> QED
        BY <1>1, <2>1, LargestExists
<1> QED
    BY <1>1, <1>2, <1>3

(***************************************************************************)
(* What list_runs is looked through for: if a run of the plan is among     *)
(* those listed, it is the plan's newest, whatever the limit.              *)
(***************************************************************************)
LEMMA LatestIsNewest ==
    ASSUME IsTable(rows), Stamped, NEW p, LatestOf(rows, ListLimit, p) # 0
    PROVE  LET latest == LatestOf(rows, ListLimit, p)
           IN  /\ latest \in DOMAIN rows /\ rows[latest].plan = p
               /\ \A k \in DOMAIN rows : rows[k].plan = p => rows[k].started <= rows[latest].started
<1> DEFINE mine   == {i \in Recent(rows, ListLimit) : rows[i].plan = p}
           latest == LatestOf(rows, ListLimit, p)
<1>1. mine # {} /\ mine \in SUBSET DOMAIN rows
    BY DEF LatestOf, Recent
<1>2. \E i \in mine : \A k \in mine : rows[k].started <= rows[i].started
    BY <1>1, NewestExists
<1>3. latest \in mine /\ \A k \in mine : rows[k].started <= rows[latest].started
    BY <1>1, <1>2 DEF LatestOf
<1>4. ASSUME NEW k \in DOMAIN rows, rows[k].plan = p, rows[k].started > rows[latest].started
      PROVE  FALSE
    <2>1. NewerThan(rows, k) \subseteq NewerThan(rows, latest)
        BY <1>1, <1>3, <1>4 DEF NewerThan, Stamped
    <2>2. IsFiniteSet(NewerThan(rows, latest))
        BY TableDomain, FS_Subset DEF NewerThan
    <2>3. /\ Cardinality(NewerThan(rows, k)) <= Cardinality(NewerThan(rows, latest))
          /\ Cardinality(NewerThan(rows, k)) \in Nat /\ Cardinality(NewerThan(rows, latest)) \in Nat
        BY <2>1, <2>2, FS_Subset, FS_CardinalityType
    <2>4. Cardinality(NewerThan(rows, latest)) < ListLimit
        BY <1>3 DEF Recent
    <2>5. k \in mine
        <3>1. ListLimit \in Nat
            BY HistoryAssumption
        <3> QED
            BY <1>4, <2>3, <2>4, <3>1 DEF Recent
    <2> QED
        BY <1>1, <1>3, <1>4, <2>5 DEF Stamped
<1> QED
    BY <1>1, <1>3, <1>4 DEF Stamped

\* If no run of the plan is among those listed, newer runs of others fill the list.
LEMMA NoneListed ==
    ASSUME IsTable(rows), Stamped, NEW p, LatestOf(rows, ListLimit, p) = 0, NEW k \in RowsOf(p)
    PROVE  Cardinality(NewerThan(rows, k)) >= ListLimit
<1> DEFINE mine == {i \in Recent(rows, ListLimit) : rows[i].plan = p}
<1>1. mine = {}
    <2> SUFFICES ASSUME mine # {} PROVE FALSE
        OBVIOUS
    <2>1. mine \in SUBSET DOMAIN rows
        BY DEF Recent
    <2>2. \E i \in mine : \A j \in mine : rows[j].started <= rows[i].started
        BY <2>1, NewestExists
    <2>3. LatestOf(rows, ListLimit, p) \in mine
        BY <2>2 DEF LatestOf
    <2>4. 0 \notin DOMAIN rows
        BY TableDomain
    <2> QED
        BY <2>1, <2>3, <2>4
<1>2. k \in DOMAIN rows /\ ~(Cardinality(NewerThan(rows, k)) < ListLimit)
    BY <1>1 DEF RowsOf, Recent
<1>3. IsFiniteSet(NewerThan(rows, k))
    BY TableDomain, FS_Subset DEF NewerThan
<1>4. Cardinality(NewerThan(rows, k)) \in Nat /\ ListLimit \in Nat
    BY <1>3, FS_CardinalityType, HistoryAssumption
<1> QED
    BY <1>2, <1>4

(***************************************************************************)
(* The inductive invariant: records are whole, nothing is stamped later    *)
(* than now, runs are stored once, and what a job looked back at was the   *)
(* newest of the rows it saw.                                              *)
(***************************************************************************)
Reported == {"flushing", "inserted", "saved"}

IsRecord(x) ==
    DOMAIN x = {"pc", "kind", "plan", "edition", "prior", "seen", "all", "names", "report", "started"}

Shapes ==
    /\ clock \in Nat
    /\ IsTable(rows)
    /\ job = [j \in Job |-> job[j]]
    /\ \A j \in Job : IsRecord(job[j])

RowsStamped == \A i \in DOMAIN rows : rows[i].started \in 1 .. clock /\ rows[i].job \in Job

JobStamped(j) == job[j].pc \in Reported => job[j].started \in 1 .. clock

LookedBack(j) ==
    LET own == job[j]
    IN  own.prior # 0 =>
          /\ own.pc \in {"running"} \cup Reported
          /\ own.prior \in DOMAIN rows /\ rows[own.prior].plan = own.plan
          /\ own.seen \in 0 .. Len(rows)
          /\ \A k \in 1 .. own.seen : rows[k].plan = own.plan => rows[k].started <= rows[own.prior].started
          /\ own.pc \in Reported => rows[own.prior].started < own.started

Missed(j) == job[j].seen \in 0 .. Len(rows) /\ FoundNone(j)

IInv ==
    /\ Shapes /\ RowsStamped /\ StoredOnce
    /\ \A j \in Job : JobStamped(j) /\ LookedBack(j) /\ Missed(j)

LEMMA InitInv == Init => IInv
<1> SUFFICES ASSUME Init PROVE IInv
    OBVIOUS
<1>1. IsTable(rows) /\ DOMAIN rows = {}
    BY EmptySeq DEF Init, IsTable
<1>2. \A j \in Job : /\ IsRecord(job[j]) /\ job[j].pc = "idle" /\ job[j].prior = 0
                     /\ job[j].kind = "run" /\ job[j].seen = 0
    BY DEF Init, NoJob, IsRecord
<1>3. Shapes
    BY <1>1, <1>2 DEF Init, Shapes
<1>4. RowsStamped /\ StoredOnce
    BY <1>1, <1>2 DEF RowsStamped, StoredOnce, RowsBy
<1>5. \A j \in Job : JobStamped(j) /\ LookedBack(j) /\ Missed(j)
    <2>1. Len(rows) \in Nat
        BY <1>1, TableDomain
    <2> QED
        BY <1>2, <2>1 DEF JobStamped, LookedBack, Reported, Missed, FoundNone
<1> QED
    BY <1>3, <1>4, <1>5 DEF IInv

(***************************************************************************)
(* A job that is not saved moves without being saved, and nobody else does. *)
(***************************************************************************)
LEMMA OneMoves ==
    ASSUME IInv, NEW j \in Job, job[j].pc # "saved", NEW own,
           job' = [job EXCEPT ![j] = own], IsRecord(own), own.pc # "saved",
           rows' = rows, clock' \in Nat, clock <= clock',
           JobStamped(j)', LookedBack(j)', Missed(j)'
    PROVE  IInv'
<1> USE DEF IInv, Shapes
<1>1. /\ job' = [k \in Job |-> job'[k]] /\ job'[j] = own
      /\ \A k \in Job \ {j} : job'[k] = job[k]
    OBVIOUS
<1>2. Shapes'
    BY <1>1 DEF IsTable
<1>3. RowsStamped'
    BY DEF RowsStamped
<1>4. StoredOnce'
    BY <1>1 DEF StoredOnce, RowsBy, NewRow
<1>5. \A k \in Job \ {j} : JobStamped(k)' /\ LookedBack(k)'
    BY <1>1 DEF JobStamped, LookedBack
<1>6. ASSUME NEW k \in Job \ {j} PROVE Missed(k)'
    <2>1. rows' = rows /\ job'[k] = job[k]
        BY <1>1
    <2>2. Missed(k)
        OBVIOUS
    <2> HIDE DEF IInv
    <2> QED
        BY <2>1, <2>2 DEF Missed, FoundNone, RowsOf
<1> QED
    BY <1>2, <1>3, <1>4, <1>5, <1>6

LEMMA StartKeeps ==
    ASSUME IInv, NEW j \in Job, NEW kind, NEW p, Start(j, kind, p)
    PROVE  IInv'
<1> DEFINE own == [NoJob EXCEPT !.pc = IF kind = "run" THEN "running" ELSE "listing",
                                !.kind = kind, !.plan = p, !.edition = edition[p]]
<1>1. /\ IsRecord(own) /\ own.pc \in {"running", "listing"} /\ own.prior = 0 /\ own.seen = 0
      /\ own.kind = "run" \/ own.pc = "listing"
    BY DEF NoJob, IsRecord
<1>2. job' = [job EXCEPT ![j] = own] /\ job[j].pc = "idle"
    BY DEF Start
<1>3. job'[j] = own
    BY <1>2 DEF IInv, Shapes
<1>4. JobStamped(j)' /\ LookedBack(j)'
    BY <1>1, <1>3 DEF JobStamped, LookedBack, Reported
<1>5. Missed(j)'
    <2>1. Len(rows) \in Nat /\ rows' = rows
        BY TableDomain DEF IInv, Shapes, Start
    <2> HIDE DEF own
    <2> QED
        BY <1>1, <1>3, <2>1 DEF Missed, FoundNone
<1> HIDE DEF own
<1> QED
    BY <1>1, <1>2, <1>4, <1>5, OneMoves DEF Start, IInv, Shapes

LEMMA ListKeeps ==
    ASSUME IInv, NEW j \in Job, List(j)
    PROVE  IInv'
<1> DEFINE latest == LatestOf(rows, ListLimit, job[j].plan)
           own    == job'[j]
<1> USE DEF IInv
<1>1. Stamped /\ IsTable(rows)
    BY DEF Shapes, RowsStamped, Stamped
<1>2. /\ IsRecord(job[j]) /\ job[j].pc = "listing" /\ IsRecord(NoJob) /\ NoJob.prior = 0
      /\ rows' = rows /\ clock' = clock
    BY DEF Shapes, List, ListWith, NoJob, IsRecord
<1>3. /\ job' = [job EXCEPT ![j] = own] /\ IsRecord(own)
      /\ \/ own.pc = "nothing" /\ own.prior = 0 /\ own.kind = "run" /\ own.seen = 0
         \/ /\ own.pc = "refused" /\ own.prior = 0 /\ latest = 0
            /\ own.seen = Len(rows) /\ own.plan = job[j].plan
         \/ own.pc = "running" /\ own.prior = latest /\ own.seen = Len(rows) /\ own.plan = job[j].plan
    BY <1>2 DEF Shapes, List, ListWith, NoJob, IsRecord
<1>4. JobStamped(j)'
    BY <1>3 DEF JobStamped, Reported
<1>5. LookedBack(j)'
    <2> SUFFICES ASSUME own.prior # 0 PROVE LookedBack(j)'
        BY DEF LookedBack
    <2>1. own.pc = "running" /\ own.prior = latest /\ own.seen = Len(rows) /\ own.plan = job[j].plan
        BY <1>3
    <2>2. /\ latest \in DOMAIN rows /\ rows[latest].plan = own.plan
          /\ \A k \in DOMAIN rows : rows[k].plan = own.plan => rows[k].started <= rows[latest].started
        BY <1>1, <2>1, LatestIsNewest
    <2> QED
        BY <1>1, <1>2, <2>1, <2>2, TableDomain DEF LookedBack, Reported
<1>6. own.pc # "saved"
    BY <1>3
<1>7. Missed(j)'
    <2>1. Len(rows) \in Nat
        BY <1>1, TableDomain
    <2>2. ASSUME own.seen = Len(rows), own.plan = job[j].plan, latest = 0, NEW k \in RowsOf(job[j].plan)
          PROVE  Cardinality({m \in 1 .. own.seen : rows[m].started > rows[k].started}) >= ListLimit
        <3>1. {m \in 1 .. own.seen : rows[m].started > rows[k].started} = NewerThan(rows, k)
            BY <1>1, <2>2, TableDomain DEF NewerThan
        <3> QED
            BY <1>1, <2>2, <3>1, NoneListed
    <2>3. FoundNone(j)'
        <3>1. CASE own.pc = "nothing"
            BY <1>3, <3>1 DEF FoundNone
        <3>2. CASE own.pc # "nothing"
            <4>1. own.seen = Len(rows) /\ own.plan = job[j].plan /\ (own.prior = 0 => latest = 0)
                BY <1>3, <3>2
            <4>2. {i \in DOMAIN rows' : rows'[i].plan = own.plan} = RowsOf(job[j].plan)
                BY <1>2, <4>1 DEF RowsOf
            <4>3. own.prior = 0 =>
                    \A k \in {i \in DOMAIN rows' : rows'[i].plan = own.plan} : k <= own.seen =>
                        Cardinality({m \in 1 .. own.seen : rows'[m].started > rows'[k].started}) >= ListLimit
                <5> HIDE DEF own, latest
                <5> QED
                    BY <1>2, <2>2, <4>1, <4>2
            <4> HIDE DEF latest
            <4> QED
                BY <4>3 DEF FoundNone, RowsOf
        <3> QED
            BY <3>1, <3>2
    <2> QED
        BY <1>2, <1>3, <2>1, <2>3 DEF Missed
<1> HIDE DEF own
<1> QED
    BY <1>2, <1>3, <1>4, <1>5, <1>6, <1>7, OneMoves DEF Shapes

LEMMA ExecuteKeeps ==
    ASSUME IInv, NEW j \in Job, Execute(j)
    PROVE  IInv'
<1>1. PICK report \in Reports(Steps(j), Selected(j)) :
          job' = [job EXCEPT ![j].report = report, ![j].started = clock + 1, ![j].pc = "flushing"]
    BY DEF Execute
<1> DEFINE own == [job[j] EXCEPT !.report = report, !.started = clock + 1, !.pc = "flushing"]
<1>2. /\ IsRecord(job[j]) /\ job[j].pc = "running" /\ clock \in Nat
      /\ clock' = clock + 1 /\ rows' = rows
    BY DEF IInv, Shapes, Execute
<1>3. job' = [job EXCEPT ![j] = own] /\ job'[j] = own
    BY <1>1 DEF IInv, Shapes
<1>4. /\ IsRecord(own) /\ own.pc = "flushing" /\ own.started = clock + 1
      /\ own.prior = job[j].prior /\ own.seen = job[j].seen /\ own.plan = job[j].plan
    BY <1>2 DEF IsRecord
<1>5. JobStamped(j)'
    <2> HIDE DEF own
    <2>1. job'[j].started \in 1 .. clock'
        BY <1>2, <1>3, <1>4
    <2> QED
        BY <2>1 DEF JobStamped
<1>6. LookedBack(j)'
    <2>1. \A i \in DOMAIN rows : rows[i].started < own.started
        BY <1>2, <1>4 DEF IInv, RowsStamped
    <2>2. LookedBack(j)
        BY DEF IInv
    <2> HIDE DEF own
    <2> QED
        BY <1>2, <1>3, <1>4, <2>1, <2>2 DEF LookedBack, Reported
<1>7. job[j].pc # "saved" /\ own.pc # "saved" /\ clock' \in Nat /\ clock <= clock'
    BY <1>2, <1>4
<1>8. Missed(j)'
    <2>1. own.kind = job[j].kind /\ Missed(j)
        BY <1>2 DEF IInv, IsRecord
    <2> HIDE DEF own
    <2> QED
        BY <1>2, <1>3, <1>4, <2>1 DEF Missed, FoundNone, RowsOf
<1> HIDE DEF own
<1> QED
    BY <1>2, <1>3, <1>4, <1>5, <1>6, <1>7, <1>8, OneMoves

LEMMA InsertKeeps ==
    ASSUME IInv, NEW j \in Job, Insert(j)
    PROVE  IInv'
<1> DEFINE own == [job[j] EXCEPT !.pc = "inserted"]
<1>1. /\ IsRecord(job[j]) /\ job[j].pc = "flushing" /\ clock \in Nat
      /\ clock' = clock /\ rows' = rows
      /\ job' = [job EXCEPT ![j] = own] /\ job'[j] = own
    BY DEF IInv, Shapes, Insert, Goes
<1>2. /\ IsRecord(own) /\ own.pc = "inserted" /\ own.started = job[j].started
      /\ own.prior = job[j].prior /\ own.seen = job[j].seen /\ own.plan = job[j].plan
    BY <1>1 DEF IsRecord
<1>3. JobStamped(j)' /\ LookedBack(j)'
    BY <1>1, <1>2 DEF IInv, JobStamped, LookedBack, Reported
<1>4. job[j].pc # "saved" /\ own.pc # "saved" /\ clock' \in Nat /\ clock <= clock'
    BY <1>1, <1>2
<1>5. Missed(j)'
    <2>1. own.kind = job[j].kind /\ Missed(j)
        BY <1>1 DEF IInv, IsRecord
    <2> HIDE DEF own
    <2> QED
        BY <1>1, <1>2, <2>1 DEF Missed, FoundNone, RowsOf
<1> HIDE DEF own
<1> QED
    BY <1>1, <1>2, <1>3, <1>4, <1>5, OneMoves

LEMMA FailKeeps ==
    ASSUME IInv, NEW j \in Job, Fail(j)
    PROVE  IInv'
<1> DEFINE own == [NoJob EXCEPT !.pc = "failed"]
<1>1. /\ job[j].pc # "saved" /\ clock \in Nat /\ clock' = clock /\ rows' = rows
      /\ job' = [job EXCEPT ![j] = own] /\ job'[j] = own
    BY DEF IInv, Shapes, Fail
<1>2. IsRecord(own) /\ own.pc = "failed" /\ own.prior = 0 /\ own.kind = "run" /\ own.seen = 0
    BY DEF NoJob, IsRecord
<1>3. JobStamped(j)' /\ LookedBack(j)'
    BY <1>1, <1>2 DEF IInv, JobStamped, LookedBack, Reported
<1>4. job[j].pc # "saved" /\ own.pc # "saved" /\ clock' \in Nat /\ clock <= clock'
    BY <1>1, <1>2
<1>5. Missed(j)'
    <2>1. Len(rows) \in Nat
        BY TableDomain DEF IInv, Shapes
    <2> HIDE DEF own
    <2> QED
        BY <1>1, <1>2, <2>1 DEF Missed, FoundNone
<1> HIDE DEF own
<1> QED
    BY <1>1, <1>2, <1>3, <1>4, <1>5, OneMoves

LEMMA CommitKeeps ==
    ASSUME IInv, NEW j \in Job, Commit(j)
    PROVE  IInv'
<1> USE DEF IInv
<1> DEFINE own == [job[j] EXCEPT !.pc = "saved"]
           n   == Len(rows)
           row == NewRow(j)
<1>1. /\ IsRecord(job[j]) /\ job[j].pc = "inserted" /\ clock \in Nat /\ clock' = clock
      /\ rows' = Append(rows, row)
      /\ job' = [job EXCEPT ![j] = own] /\ job'[j] = own
      /\ job' = [k \in Job |-> job'[k]] /\ \A k \in Job \ {j} : job'[k] = job[k]
    BY DEF Shapes, Commit, Goes
<1>2. /\ IsRecord(own) /\ own.pc = "saved" /\ own.started = job[j].started
      /\ own.prior = job[j].prior /\ own.seen = job[j].seen /\ own.plan = job[j].plan
      /\ own.report = job[j].report /\ own.all = job[j].all
    BY <1>1 DEF IsRecord
<1>3. /\ n \in Nat /\ DOMAIN rows = 1 .. n /\ DOMAIN rows' = 1 .. n + 1 /\ Len(rows') = n + 1
      /\ \A i \in 1 .. n : rows'[i] = rows[i]
      /\ rows'[n + 1] = row /\ IsTable(rows')
    <2> DEFINE S == ToSet(rows) \cup {row}
    <2>1. rows \in Seq(S) /\ row \in S
        BY SeqMonotonic DEF Shapes, IsTable
    <2> HIDE DEF S, row
    <2>2. /\ rows' \in Seq(S) /\ Len(rows') = n + 1 /\ rows'[n + 1] = row
          /\ \A i \in 1 .. n : rows'[i] = rows[i]
        BY <1>1, <2>1, AppendProperties
    <2>3. n \in Nat /\ DOMAIN rows = 1 .. n /\ DOMAIN rows' = 1 .. n + 1
        BY <2>1, <2>2, LenProperties
    <2>4. rows' \in [1 .. n + 1 -> ToSet(rows')]
        BY <2>2, <2>3, LenProperties DEF ToSet
    <2>5. IsTable(rows')
        BY <2>3, <2>4 DEF IsTable
    <2> QED
        BY <2>2, <2>3, <2>5
<1>4. row.job = j /\ row.started = job[j].started /\ NewRow(j)' = row
    BY <1>1, <1>2 DEF NewRow
<1>5. Shapes'
    BY <1>1, <1>2, <1>3 DEF Shapes
<1>6. RowsStamped' /\ JobStamped(j)'
    BY <1>1, <1>2, <1>3, <1>4 DEF RowsStamped, JobStamped, Reported
<1>7. StoredOnce'
    <2>1. RowsBy(j) = {}
        BY <1>1 DEF StoredOnce
    <2>2. RowsBy(j)' = {n + 1}
        BY <1>3, <1>4, <2>1 DEF RowsBy
    <2>3. ASSUME NEW k \in Job \ {j} PROVE RowsBy(k)' = RowsBy(k) /\ NewRow(k)' = NewRow(k)
        BY <1>1, <1>3, <1>4 DEF RowsBy, NewRow
    <2>4. \A k \in Job : RowsBy(k) \subseteq DOMAIN rows
        BY DEF RowsBy
    <2> HIDE DEF row
    <2>5. ASSUME NEW k \in Job \ {j}
          PROVE  IF job'[k].pc = "saved"
                 THEN \E i \in DOMAIN rows' : RowsBy(k)' = {i} /\ rows'[i] = NewRow(k)'
                 ELSE RowsBy(k)' = {}
        <3>1. CASE job[k].pc = "saved"
            <4>1. PICK i \in DOMAIN rows : RowsBy(k) = {i} /\ rows[i] = NewRow(k)
                BY <3>1 DEF StoredOnce
            <4>2. i \in DOMAIN rows' /\ rows'[i] = rows[i]
                BY <1>3
            <4> QED
                BY <1>1, <2>3, <3>1, <4>1, <4>2
        <3>2. CASE job[k].pc # "saved"
            BY <1>1, <2>3, <3>2 DEF StoredOnce
        <3> QED
            BY <3>1, <3>2
    <2>6. n + 1 \in DOMAIN rows' /\ RowsBy(j)' = {n + 1} /\ rows'[n + 1] = NewRow(j)'
        BY <1>3, <1>4, <2>2
    <2>7. job'[j].pc = "saved"
        BY <1>1, <1>2
    <2> HIDE DEF own, n
    <2> QED
        BY <2>5, <2>6, <2>7 DEF StoredOnce
<1>8. \A k \in Job : LookedBack(k)'
    BY <1>1, <1>2, <1>3 DEF LookedBack, Reported
<1>9. \A k \in Job \ {j} : JobStamped(k)'
    BY <1>1 DEF JobStamped
<1>10. ASSUME NEW k \in Job PROVE Missed(k)'
    <2>1. /\ job'[k].kind = job[k].kind /\ job'[k].plan = job[k].plan /\ job'[k].seen = job[k].seen
          /\ job'[k].prior = job[k].prior /\ (job'[k].pc = "listing" <=> job[k].pc = "listing")
        <3>1. own.kind = job[j].kind
            BY <1>1 DEF IsRecord
        <3> HIDE DEF own
        <3> QED
            BY <1>1, <1>2, <3>1
    <2>2. Missed(k) /\ job[k].seen \in 0 .. n
        BY DEF Missed
    <2> HIDE DEF own, row
    <2>3. ASSUME NEW i \in DOMAIN rows', rows'[i].plan = job[k].plan, i <= job[k].seen
          PROVE  /\ i \in RowsOf(job[k].plan)
                 /\ {m \in 1 .. job[k].seen : rows'[m].started > rows'[i].started}
                      = {m \in 1 .. job[k].seen : rows[m].started > rows[i].started}
        <3>1. i \in 1 .. n /\ rows'[i] = rows[i] /\ \A m \in 1 .. job[k].seen : rows'[m] = rows[m]
            BY <1>3, <2>2, <2>3 DEF RowsOf
        <3>2. i \in DOMAIN rows /\ rows[i].plan = job[k].plan
            BY <1>3, <2>1, <2>3, <3>1 DEF RowsOf
        <3> QED
            BY <3>1, <3>2 DEF RowsOf
    <2>4. FoundNone(k)'
        <3> QED
            BY <2>1, <2>2, <2>3 DEF FoundNone, Missed, RowsOf
    <2>5. job'[k].seen \in 0 .. Len(rows')
        <3> HIDE DEF n
        <3> QED
            BY <1>3, <2>1, <2>2
    <2> QED
        BY <2>4, <2>5 DEF Missed
<1> QED
    BY <1>5, <1>6, <1>7, <1>8, <1>9, <1>10

LEMMA StepInv == IInv /\ [Next]_vars => IInv'
<1> SUFFICES ASSUME IInv, [Next]_vars PROVE IInv'
    OBVIOUS
<1>1. ASSUME NEW j \in Job, JobStep(j) PROVE IInv'
    BY <1>1, ListKeeps, ExecuteKeeps, InsertKeeps, CommitKeeps DEF JobStep
<1>2. ASSUME NEW j \in Job, Fail(j) PROVE IInv'
    BY <1>2, FailKeeps
<1>3. ASSUME NEW j \in Job, NEW a \in Asked, Start(j, a[1], a[2]) PROVE IInv'
    BY <1>3, StartKeeps
<1>4. CASE (\E p \in Plan : Edit(p)) \/ UNCHANGED vars
    <2>1. rows' = rows /\ clock' = clock /\ job' = job
        BY <1>4 DEF Edit, vars
    <2> QED
        BY <2>1 DEF IInv, Shapes, IsTable, RowsStamped, StoredOnce, RowsBy, NewRow, JobStamped, LookedBack,
                    Missed, FoundNone, RowsOf
<1> QED
    BY <1>1, <1>2, <1>3, <1>4 DEF Next
------------------------------------------------------------------------------
(***************************************************************************)
(* A run that was saved has one row, the whole of it, and any other none,  *)
(* whatever other processes save meanwhile (store.py:107-147).             *)
(***************************************************************************)
THEOREM SavedOnce == Spec => []StoredOnce
<1>1. IInv => StoredOnce
    BY DEF IInv
<1> QED
    BY <1>1, InitInv, StepInv, PTL DEF Spec

(***************************************************************************)
(* For any limit of the list, any number of plans in it and any processes  *)
(* that save meanwhile: what replay compares with, or --only-failed takes  *)
(* its failures from, is the plan's run before its own among those that    *)
(* were there when it looked; and if it finds none, those of the plan that *)
(* were there were behind a full list (cli.py:86-91, 187-201,              *)
(* store.py:158-163).                                                      *)
(***************************************************************************)
THEOREM PriorIsNewest == Spec => []PriorIsNewestSeen
<1>1. IInv => PriorIsNewestSeen
    <2>0. IInv => \A j \in Job : FoundNone(j)
        BY DEF IInv, Missed
    <2> SUFFICES ASSUME IInv, NEW i \in DOMAIN rows, job[rows[i].job].prior # 0
                 PROVE  LET p == job[rows[i].job].prior
                        IN  /\ rows[p].started < rows[i].started
                            /\ \A k \in RowsOf(rows[i].plan) :
                                 rows[p].started < rows[k].started /\ rows[k].started < rows[i].started
                                     => k > job[rows[i].job].seen
        BY <2>0 DEF PriorIsNewestSeen
    <2> DEFINE j == rows[i].job
               p == job[j].prior
    <2>1. j \in Job /\ i \in RowsBy(j)
        BY DEF IInv, RowsStamped, RowsBy
    <2>2. job[j].pc = "saved" /\ rows[i] = NewRow(j)
        BY <2>1 DEF IInv, StoredOnce
    <2>3. rows[i].started = job[j].started /\ rows[i].plan = job[j].plan
        BY <2>2 DEF NewRow
    <2>4. LookedBack(j)
        BY <2>1 DEF IInv
    <2>5. /\ p \in DOMAIN rows /\ rows[p].started < rows[i].started /\ job[j].seen \in Nat
          /\ \A k \in 1 .. job[j].seen : rows[k].plan = rows[i].plan => rows[k].started <= rows[p].started
        <3>1. Len(rows) \in Nat
            BY TableDomain DEF IInv, Shapes
        <3>2. p # 0 /\ job[j].pc \in Reported
            BY <2>2 DEF Reported
        <3> QED
            BY <2>3, <2>4, <3>1, <3>2 DEF LookedBack
    <2>6. ASSUME NEW k \in RowsOf(rows[i].plan), rows[p].started < rows[k].started
          PROVE  k > job[j].seen
        <3>1. k \in 1 .. Len(rows) /\ Len(rows) \in Nat /\ rows[k].plan = rows[i].plan
            BY TableDomain DEF RowsOf, IInv, Shapes
        <3>2. rows[k].started \in Nat /\ rows[p].started \in Nat
            BY <2>5, <3>1, TableDomain DEF IInv, Shapes, RowsStamped
        <3> QED
            BY <2>5, <2>6, <3>1, <3>2
    <2> QED
        BY <2>5, <2>6
<1> QED
    BY <1>1, InitInv, StepInv, PTL DEF Spec
------------------------------------------------------------------------------
(***************************************************************************)
(* What a report is: the places of the results, one by one, are those of   *)
(* the steps that were selected.                                           *)
(***************************************************************************)
LEMMA Ranks ==
    ASSUME NEW n \in Nat, NEW chosen \in SUBSET (1 .. n)
    PROVE  /\ IsFiniteSet(chosen) /\ Cardinality(chosen) \in Nat
           /\ \A k \in chosen : Rank(k, chosen) \in 1 .. Cardinality(chosen)
           /\ \A r \in 1 .. Cardinality(chosen) : \E k \in chosen : Rank(k, chosen) = r
           /\ \A i, k \in chosen : Rank(i, chosen) = Rank(k, chosen) => i = k
<1> DEFINE upTo(k) == {i \in chosen : i <= k}
           c       == Cardinality(chosen)
           rank    == [k \in chosen |-> Rank(k, chosen)]
<1>1. IsFiniteSet(chosen) /\ c \in Nat
    <2>1. IsFiniteSet(1 .. n)
        BY FS_Interval
    <2> QED
        BY <2>1, FS_Subset, FS_CardinalityType
<1>2. \A k \in chosen : /\ IsFiniteSet(upTo(k)) /\ upTo(k) \subseteq chosen
                        /\ Cardinality(upTo(k)) \in Nat /\ Cardinality(upTo(k)) <= c
    BY <1>1, FS_Subset, FS_CardinalityType
<1>3. ASSUME NEW k \in chosen PROVE Rank(k, chosen) \in 1 .. c
    <2>1. k \in upTo(k)
        OBVIOUS
    <2>2. Cardinality(upTo(k)) # 0
        BY <1>2, <2>1, FS_EmptySet
    <2>3. Rank(k, chosen) = Cardinality(upTo(k))
        BY DEF Rank
    <2> HIDE DEF upTo, c
    <2> QED
        BY <1>1, <1>2, <2>2, <2>3
<1>4. ASSUME NEW i \in chosen, NEW k \in chosen, i < k PROVE Rank(i, chosen) # Rank(k, chosen)
    <2>1. upTo(i) \in SUBSET upTo(k) /\ upTo(i) # upTo(k)
        <3>1. i \in Nat /\ k \in Nat
            OBVIOUS
        <3>2. k \in upTo(k) /\ k \notin upTo(i)
            BY <1>4, <3>1
        <3>3. \A x \in upTo(i) : x \in upTo(k)
            BY <1>4, <3>1
        <3> QED
            BY <3>2, <3>3
    <2>2. Cardinality(upTo(k)) # Cardinality(upTo(i))
        <3> HIDE DEF upTo
        <3> QED
            BY <1>2, <2>1, FS_Subset
    <2> QED
        BY <2>2 DEF Rank
<1>5. rank \in Injection(chosen, 1 .. c)
    <2>1. rank \in [chosen -> 1 .. c]
        BY <1>3
    <2>2. \A i, k \in chosen : rank[i] = rank[k] => i = k
        <3> SUFFICES ASSUME NEW i \in chosen, NEW k \in chosen, i # k PROVE rank[i] # rank[k]
            OBVIOUS
        <3>1. i < k \/ k < i
            OBVIOUS
        <3> QED
            BY <1>4, <3>1
    <2> HIDE DEF rank
    <2> QED
        BY <2>1, <2>2 DEF Injection, IsInjective
<1>6. IsFiniteSet(1 .. c) /\ Cardinality(1 .. c) = c
    BY <1>1, FS_Interval
<1>7. rank \in Surjection(chosen, 1 .. c)
    <2> HIDE DEF rank, c
    <2>1. c = Cardinality(chosen)
        BY DEF c
    <2> QED
        BY <1>5, <1>6, <2>1, FS_Injection
<1>8. \A r \in 1 .. c : \E k \in chosen : rank[k] = r
    BY <1>7 DEF Surjection
<1>9. ASSUME NEW i \in chosen, NEW k \in chosen, i # k PROVE Rank(i, chosen) # Rank(k, chosen)
    <2>1. i < k \/ k < i
        BY <1>9
    <2> QED
        BY <1>4, <2>1
<1> QED
    BY <1>1, <1>3, <1>8, <1>9

(***************************************************************************)
(* A plan's steps, and what a report of some of them is made of.           *)
(***************************************************************************)
LEMMA PlanSteps ==
    ASSUME NEW p \in Plan, NEW e \in DOMAIN StepsOf[p]
    PROVE  LET steps == StepsOf[p][e]
           IN  /\ Len(steps) \in Nat /\ DOMAIN steps = 1 .. Len(steps)
               /\ \A k \in DOMAIN steps :
                    /\ Outcomes(steps[k]) \subseteq StepResult
                    /\ \A s \in Outcomes(steps[k]) : s.name = steps[k].name
<1>1. IsTable(StepsOf[p][e])
    BY HistoryAssumption DEF IsSequence, IsTable
<1> QED
    BY <1>1, TableDomain, HistoryAssumption

LEMMA ReportHas ==
    ASSUME NEW p \in Plan, NEW e \in DOMAIN StepsOf[p], NEW chosen \in SUBSET DOMAIN StepsOf[p][e],
           NEW report \in Reports(StepsOf[p][e], chosen)
    PROVE  LET steps == StepsOf[p][e]
           IN  /\ report \in Seq(StepResult)
               /\ \A k \in chosen : \E i \in DOMAIN report : report[i].name = steps[k].name
               /\ \A i \in DOMAIN report : \E k \in chosen : report[i].name = steps[k].name
<1> DEFINE steps == StepsOf[p][e]
           c     == Cardinality(chosen)
<1>1. /\ Len(steps) \in Nat /\ chosen \in SUBSET (1 .. Len(steps))
      /\ \A k \in chosen : /\ Outcomes(steps[k]) \subseteq StepResult
                           /\ \A s \in Outcomes(steps[k]) : s.name = steps[k].name
    BY PlanSteps
<1>2. /\ c \in Nat
      /\ \A k \in chosen : Rank(k, chosen) \in 1 .. c
      /\ \A i \in 1 .. c : \E k \in chosen : Rank(k, chosen) = i
    BY <1>1, Ranks
<1>3. /\ report \in [1 .. c -> UNION {Outcomes(steps[k]) : k \in chosen}]
      /\ \A k \in chosen : report[Rank(k, chosen)] \in Outcomes(steps[k])
    BY DEF Reports
<1> HIDE DEF steps, c
<1>4. report \in Seq(StepResult) /\ DOMAIN report = 1 .. c
    <2>1. report \in [1 .. c -> StepResult]
        BY <1>1, <1>3
    <2> QED
        BY <1>2, <2>1, IsASeq
<1>5. \A k \in chosen : report[Rank(k, chosen)].name = steps[k].name
    BY <1>1, <1>3
<1>6. \A k \in chosen : \E i \in DOMAIN report : report[i].name = steps[k].name
    BY <1>2, <1>4, <1>5
<1>7. \A i \in DOMAIN report : \E k \in chosen : report[i].name = steps[k].name
    BY <1>2, <1>4, <1>5
<1> QED
    BY <1>4, <1>6, <1>7 DEF steps

(***************************************************************************)
(* The rest of the inductive invariant: a job keeps to the edition of the  *)
(* plan it loaded, one that re-runs failed steps has the names of those of *)
(* the row it looked back at, and what it reports are results of the steps *)
(* it selected; no two jobs are stamped alike.                             *)
(***************************************************************************)
Typed ==
    /\ writer \subseteq Job
    /\ \A p \in Plan : edition[p] \in DOMAIN StepsOf[p]
    /\ edition = [p \in Plan |-> edition[p]]

Loaded(j) ==
    LET own == job[j]
    IN  /\ own.pc \in PcOf /\ own.kind \in Kind /\ own.plan \in Plan
        /\ own.edition \in 1 .. edition[own.plan]
        /\ own.prior \in 0 .. Len(rows) /\ own.seen \in 0 .. Len(rows)

Repeats(j) ==
    LET own == job[j]
    IN  own.pc \in {"running"} \cup Reported /\ ~own.all =>
            own.prior # 0 /\ own.names # {} /\ own.names = Failed(rows[own.prior])

Done(j) ==
    IF job[j].pc \in Reported THEN job[j].report \in Reports(Steps(j), Selected(j))
                              ELSE job[j].report = <<>>

Apart(j, k) == job[j].pc \in Reported /\ job[k].pc \in Reported => job[j].started # job[k].started

RInv ==
    /\ IInv /\ Typed
    /\ \A j \in Job : Loaded(j) /\ Repeats(j) /\ Done(j)
    /\ \A j, k \in Job : j # k => Apart(j, k)

LEMMA NoJobIs ==
    /\ IsRecord(NoJob) /\ NoJob.pc = "idle" /\ NoJob.kind = "run" /\ NoJob.plan \in Plan
    /\ NoJob.edition = 1 /\ NoJob.prior = 0 /\ NoJob.seen = 0 /\ NoJob.all = TRUE /\ NoJob.report = <<>>
<1>1. (CHOOSE p \in Plan : TRUE) \in Plan
    BY HistoryAssumption
<1> QED
    BY <1>1 DEF NoJob, IsRecord

LEMMA InitRest == Init => RInv
<1> SUFFICES ASSUME Init PROVE RInv
    OBVIOUS
<1>1. \A j \in Job : job[j] = NoJob
    BY DEF Init
<1>2. Typed
    <2>1. \A p \in Plan : 1 \in DOMAIN StepsOf[p]
        <3> TAKE p \in Plan
        <3>1. IsTable(StepsOf[p]) /\ StepsOf[p] # <<>>
            BY HistoryAssumption DEF IsSequence, IsTable
        <3> QED
            BY <3>1, TableDomain, EmptySeq DEF IsTable
    <2> QED
        BY <2>1 DEF Typed, Init
<1>3. \A j \in Job : Loaded(j)
    BY <1>1, NoJobIs, EmptySeq DEF Loaded, Init, PcOf, Kind
<1>4. \A j \in Job : Repeats(j) /\ Done(j)
    BY <1>1, NoJobIs DEF Repeats, Done, Reported
<1>5. \A j, k \in Job : Apart(j, k)
    BY <1>1, NoJobIs DEF Apart, Reported
<1> QED
    BY <1>2, <1>3, <1>4, <1>5, InitInv DEF RInv

(***************************************************************************)
(* A job that moves without a row changes nothing for the others.          *)
(***************************************************************************)
LEMMA OneGoes ==
    ASSUME RInv, IInv', NEW j \in Job, NEW own, job' = [job EXCEPT ![j] = own],
           rows' = rows, edition' = edition, writer' \subseteq Job,
           Loaded(j)', Repeats(j)', Done(j)', \A k \in Job \ {j} : Apart(j, k)'
    PROVE  RInv'
<1>1. job' = [job EXCEPT ![j] = own] /\ job = [k \in Job |-> job[k]]
    BY DEF RInv, IInv, Shapes
<1>2. \A k \in Job \ {j} : job'[k] = job[k]
    BY <1>1
<1>3. Typed'
    BY DEF RInv, Typed
<1>4. \A k \in Job \ {j} : Loaded(k)' /\ Repeats(k)'
    BY <1>2 DEF RInv, Loaded, Repeats
<1>5. \A k \in Job \ {j} : Done(k)'
    BY <1>2 DEF RInv, Done, Steps, Selected
<1>6. \A i, k \in Job : i # k => Apart(i, k)'
    BY <1>2 DEF RInv, Apart
<1> QED
    BY <1>3, <1>4, <1>5, <1>6 DEF RInv

LEMMA EditionNumber ==
    ASSUME RInv, NEW p \in Plan
    PROVE  /\ edition[p] \in Nat /\ 1 \in 1 .. edition[p] /\ edition[p] \in 1 .. edition[p]
           /\ DOMAIN StepsOf[p] = 1 .. Len(StepsOf[p]) /\ Len(StepsOf[p]) \in Nat
           /\ 1 .. edition[p] \subseteq DOMAIN StepsOf[p]
<1>1. IsTable(StepsOf[p])
    BY HistoryAssumption DEF IsSequence, IsTable
<1>2. DOMAIN StepsOf[p] = 1 .. Len(StepsOf[p]) /\ Len(StepsOf[p]) \in Nat
    BY <1>1, TableDomain
<1>3. edition[p] \in DOMAIN StepsOf[p]
    BY DEF RInv, Typed
<1> QED
    BY <1>2, <1>3

LEMMA StartGoes ==
    ASSUME RInv, IInv', NEW j \in Job, NEW a \in Asked, Start(j, a[1], a[2])
    PROVE  RInv'
<1> DEFINE p   == a[2]
           own == [NoJob EXCEPT !.pc = IF a[1] = "run" THEN "running" ELSE "listing",
                                !.kind = a[1], !.plan = p, !.edition = edition[p]]
<1>1. a[1] \in Kind /\ p \in Plan
    BY HistoryAssumption
<1>2. job' = [job EXCEPT ![j] = own] /\ job'[j] = own
    BY DEF Start, RInv, IInv, Shapes
<1>3. /\ own.pc \in {"running", "listing"} /\ own.kind = a[1] /\ own.plan = p /\ own.edition = edition[p]
      /\ own.prior = 0 /\ own.seen = 0 /\ own.all = TRUE /\ own.report = <<>>
    BY NoJobIs DEF IsRecord
<1>4. /\ Len(rows) \in Nat /\ edition' = edition /\ rows' = rows /\ writer' = writer
      /\ edition[p] \in 1 .. edition[p]
    <2>1. Len(rows) \in Nat
        BY TableDomain DEF RInv, IInv, Shapes
    <2> QED
        BY <1>1, <2>1, EditionNumber DEF Start
<1> HIDE DEF own, p
<1>5. Loaded(j)'
    BY <1>1, <1>2, <1>3, <1>4 DEF Loaded, PcOf
<1>6. Repeats(j)' /\ Done(j)'
    BY <1>2, <1>3 DEF Repeats, Done, Reported
<1>7. \A k \in Job \ {j} : Apart(j, k)'
    BY <1>2, <1>3 DEF Apart, Reported
<1> QED
    BY <1>2, <1>4, <1>5, <1>6, <1>7, OneGoes DEF RInv, Typed

LEMMA ListGoes ==
    ASSUME RInv, IInv', NEW j \in Job, List(j)
    PROVE  RInv'
<1> DEFINE latest == LatestOf(rows, ListLimit, job[j].plan)
           own    == job'[j]
<1>1. /\ IsRecord(job[j]) /\ job[j].pc = "listing" /\ rows' = rows /\ edition' = edition /\ writer' = writer
      /\ Len(rows) \in Nat /\ DOMAIN rows = 1 .. Len(rows)
    BY TableDomain DEF RInv, IInv, Shapes, List, ListWith
<1>2. job' = [job EXCEPT ![j] = own]
    BY DEF RInv, IInv, Shapes, List, ListWith
<1>3. latest \in 0 .. Len(rows)
    <2>1. Stamped /\ IsTable(rows)
        BY DEF RInv, IInv, Shapes, RowsStamped, Stamped
    <2>2. latest # 0 => latest \in DOMAIN rows
        BY <2>1, LatestIsNewest
    <2> QED
        BY <1>1, <2>2
<1>4. \/ /\ own.pc \in {"refused", "nothing"} /\ own.kind \in Kind /\ own.plan \in Plan /\ own.edition = 1
         /\ own.prior = 0 /\ own.seen \in {0, Len(rows)} /\ own.report = <<>>
      \/ /\ own.pc = "running" /\ own.prior = latest /\ own.seen = Len(rows)
         /\ own.plan = job[j].plan /\ own.kind = job[j].kind /\ own.edition = job[j].edition
         /\ own.report = job[j].report
         /\ ~own.all => latest # 0 /\ own.names # {} /\ own.names = Failed(rows[latest])
    <2>1. CASE job[j].kind = "only-failed" /\ (latest = 0 \/ Failed(rows[latest]) = {})
        <3>1. \/ own = [NoJob EXCEPT !.pc = "refused", !.kind = job[j].kind, !.plan = job[j].plan,
                                     !.seen = Len(rows)]
              \/ own = [NoJob EXCEPT !.pc = "nothing"]
            BY <2>1 DEF RInv, IInv, Shapes, List, ListWith, NoNames
        <3>2. job[j].kind \in Kind /\ job[j].plan \in Plan
            BY <2>1 DEF Kind, RInv, Loaded
        <3> HIDE DEF own, latest
        <3> QED
            BY <3>1, <3>2, NoJobIs DEF Kind, IsRecord
    <2>2. CASE ~(job[j].kind = "only-failed" /\ (latest = 0 \/ Failed(rows[latest]) = {}))
        <3> DEFINE again == job[j].kind = "only-failed"
                   names == IF again /\ latest # 0 THEN Failed(rows[latest]) ELSE {}
        <3>1. own = [job[j] EXCEPT !.pc = "running", !.prior = latest, !.seen = Len(rows),
                                   !.all = ~again, !.names = names]
            BY <2>2 DEF RInv, IInv, Shapes, List, ListWith, NoNames
        <3>2. again => latest # 0 /\ names # {} /\ names = Failed(rows[latest])
            BY <2>2
        <3> HIDE DEF own, latest, names, again
        <3> QED
            BY <1>1, <3>1, <3>2 DEF IsRecord
    <2> QED
        BY <2>1, <2>2
<1>5. Loaded(j)'
    <2>1. Loaded(j) /\ own.plan \in Plan
        BY <1>4 DEF RInv, Loaded
    <2>2. 1 \in 1 .. edition[own.plan]
        BY <2>1, EditionNumber
    <2> HIDE DEF latest
    <2> QED
        BY <1>1, <1>3, <1>4, <2>1, <2>2 DEF Loaded, PcOf, Ended
<1>6. Repeats(j)'
    <2> HIDE DEF latest
    <2> QED
        BY <1>1, <1>4 DEF Repeats, Reported, Failed
<1>7. Done(j)'
    <2>1. job[j].report = <<>>
        BY <1>1 DEF RInv, Done, Reported
    <2> QED
        BY <1>4, <2>1 DEF Done, Reported
<1>8. \A k \in Job \ {j} : Apart(j, k)'
    BY <1>4 DEF Apart, Reported
<1> HIDE DEF own
<1> QED
    BY <1>1, <1>2, <1>5, <1>6, <1>7, <1>8, OneGoes DEF RInv, Typed

LEMMA ExecuteGoes ==
    ASSUME RInv, IInv', NEW j \in Job, Execute(j)
    PROVE  RInv'
<1>1. PICK report \in Reports(Steps(j), Selected(j)) :
          job' = [job EXCEPT ![j].report = report, ![j].started = clock + 1, ![j].pc = "flushing"]
    BY DEF Execute
<1> DEFINE own == [job[j] EXCEPT !.report = report, !.started = clock + 1, !.pc = "flushing"]
<1>2. /\ IsRecord(job[j]) /\ job[j].pc = "running" /\ clock \in Nat
      /\ rows' = rows /\ edition' = edition /\ writer' = writer
    BY DEF RInv, IInv, Shapes, Execute
<1>3. job' = [job EXCEPT ![j] = own] /\ job'[j] = own
    BY <1>1 DEF RInv, IInv, Shapes
<1>4. /\ own.pc = "flushing" /\ own.started = clock + 1 /\ own.report = report
      /\ own.kind = job[j].kind /\ own.plan = job[j].plan /\ own.edition = job[j].edition
      /\ own.prior = job[j].prior /\ own.seen = job[j].seen
      /\ own.all = job[j].all /\ own.names = job[j].names
    BY <1>2 DEF IsRecord
<1> HIDE DEF own
<1>5. Loaded(j)' /\ Repeats(j)'
    BY <1>2, <1>3, <1>4 DEF RInv, Loaded, Repeats, Reported, PcOf
<1>6. Done(j)'
    <2>1. Steps(j)' = Steps(j)
        BY <1>3, <1>4 DEF Steps
    <2>2. Selected(j)' = Selected(j)
        BY <1>3, <1>4, <2>1 DEF Selected
    <2> QED
        BY <1>3, <1>4, <2>1, <2>2 DEF Done, Reported
<1>7. \A k \in Job \ {j} : Apart(j, k)'
    <2>1. \A k \in Job \ {j} : job'[k] = job[k]
        BY <1>3 DEF RInv, IInv, Shapes
    <2>2. \A k \in Job : job[k].pc \in Reported => job[k].started \in 1 .. clock
        BY DEF RInv, IInv, JobStamped
    <2> QED
        BY <1>2, <1>3, <1>4, <2>1, <2>2 DEF Apart
<1> QED
    BY <1>2, <1>3, <1>5, <1>6, <1>7, OneGoes DEF RInv, Typed

LEMMA InsertGoes ==
    ASSUME RInv, IInv', NEW j \in Job, Insert(j)
    PROVE  RInv'
<1> DEFINE own == [job[j] EXCEPT !.pc = "inserted"]
<1>1. /\ IsRecord(job[j]) /\ job[j].pc = "flushing"
      /\ rows' = rows /\ edition' = edition /\ writer' = {j}
      /\ job' = [job EXCEPT ![j] = own] /\ job'[j] = own
    BY DEF RInv, IInv, Shapes, Insert, Goes
<1>2. /\ own.pc = "inserted" /\ own.started = job[j].started /\ own.report = job[j].report
      /\ own.kind = job[j].kind /\ own.plan = job[j].plan /\ own.edition = job[j].edition
      /\ own.prior = job[j].prior /\ own.seen = job[j].seen
      /\ own.all = job[j].all /\ own.names = job[j].names
    BY <1>1 DEF IsRecord
<1> HIDE DEF own
<1>3. Loaded(j)' /\ Repeats(j)'
    BY <1>1, <1>2 DEF RInv, Loaded, Repeats, Reported, PcOf
<1>4. Done(j)'
    <2>1. Done(j) /\ job[j].pc \in Reported
        BY <1>1 DEF RInv, Reported
    <2>2. Steps(j)' = Steps(j)
        BY <1>1, <1>2 DEF Steps
    <2>3. Selected(j)' = Selected(j)
        BY <1>1, <1>2, <2>2 DEF Selected
    <2> QED
        BY <1>1, <1>2, <2>1, <2>2, <2>3 DEF Done, Reported
<1>5. \A k \in Job \ {j} : Apart(j, k)'
    <2>1. \A k \in Job \ {j} : job'[k] = job[k] /\ Apart(j, k)
        BY <1>1 DEF RInv, IInv, Shapes
    <2> QED
        BY <1>1, <1>2, <2>1 DEF Apart, Reported
<1> QED
    BY <1>1, <1>3, <1>4, <1>5, OneGoes

LEMMA FailGoes ==
    ASSUME RInv, IInv', NEW j \in Job, Fail(j)
    PROVE  RInv'
<1> DEFINE own == [NoJob EXCEPT !.pc = "failed"]
<1>1. /\ rows' = rows /\ edition' = edition /\ writer' = writer \ {j}
      /\ job' = [job EXCEPT ![j] = own] /\ job'[j] = own /\ Len(rows) \in Nat
    BY TableDomain DEF RInv, IInv, Shapes, Fail
<1>2. /\ own.pc = "failed" /\ own.kind = "run" /\ own.plan \in Plan /\ own.edition = 1
      /\ own.prior = 0 /\ own.seen = 0 /\ own.report = <<>>
    BY NoJobIs DEF IsRecord
<1> HIDE DEF own
<1>3. 1 \in 1 .. edition[own.plan]
    BY <1>2, EditionNumber
<1>4. Loaded(j)'
    BY <1>1, <1>2, <1>3 DEF Loaded, PcOf, Ended, Kind
<1>5. Repeats(j)' /\ Done(j)' /\ \A k \in Job \ {j} : Apart(j, k)'
    BY <1>1, <1>2 DEF Repeats, Done, Apart, Reported
<1> QED
    BY <1>1, <1>4, <1>5, OneGoes DEF RInv, Typed

(***************************************************************************)
(* A commit adds a row at the end: the rows that jobs looked at stay.      *)
(***************************************************************************)
LEMMA RowsStay ==
    ASSUME IInv, NEW row, rows' = Append(rows, row)
    PROVE  /\ Len(rows) \in Nat /\ DOMAIN rows = 1 .. Len(rows)
           /\ Len(rows') = Len(rows) + 1 /\ DOMAIN rows' = 1 .. Len(rows) + 1
           /\ \A i \in 1 .. Len(rows) : rows'[i] = rows[i]
           /\ rows'[Len(rows) + 1] = row
<1> DEFINE S == ToSet(rows) \cup {row}
<1>1. rows \in Seq(S) /\ row \in S
    BY SeqMonotonic DEF IInv, Shapes, IsTable
<1> HIDE DEF S
<1>2. /\ rows' \in Seq(S) /\ Len(rows') = Len(rows) + 1 /\ rows'[Len(rows) + 1] = row
      /\ \A i \in 1 .. Len(rows) : rows'[i] = rows[i]
    BY <1>1, AppendProperties
<1>3. Len(rows) \in Nat /\ DOMAIN rows = 1 .. Len(rows) /\ DOMAIN rows' = 1 .. Len(rows) + 1
    BY <1>1, <1>2, LenProperties
<1> QED
    BY <1>2, <1>3

LEMMA CommitGoes ==
    ASSUME RInv, IInv', NEW j \in Job, Commit(j)
    PROVE  RInv'
<1> DEFINE own == [job[j] EXCEPT !.pc = "saved"]
           n   == Len(rows)
<1>1. /\ IsRecord(job[j]) /\ job[j].pc = "inserted" /\ edition' = edition /\ writer' = {}
      /\ rows' = Append(rows, NewRow(j))
      /\ job' = [job EXCEPT ![j] = own] /\ job'[j] = own
      /\ \A k \in Job \ {j} : job'[k] = job[k]
    BY DEF RInv, IInv, Shapes, Commit, Goes
<1>2. /\ own.pc = "saved" /\ own.started = job[j].started /\ own.report = job[j].report
      /\ own.kind = job[j].kind /\ own.plan = job[j].plan /\ own.edition = job[j].edition
      /\ own.prior = job[j].prior /\ own.seen = job[j].seen
      /\ own.all = job[j].all /\ own.names = job[j].names
    BY <1>1 DEF IsRecord
<1>3. /\ n \in Nat /\ Len(rows') = n + 1
      /\ \A i \in 1 .. n : rows'[i] = rows[i]
    BY <1>1, RowsStay DEF RInv
<1> HIDE DEF own, n
<1>4. ASSUME NEW k \in Job PROVE Loaded(k)'
    <2>1. Loaded(k) /\ Loaded(j) /\ n = Len(rows)
        BY DEF RInv, n
    <2>2. /\ job'[k].pc \in PcOf /\ job'[k].kind = job[k].kind /\ job'[k].plan = job[k].plan
          /\ job'[k].edition = job[k].edition /\ job'[k].prior = job[k].prior /\ job'[k].seen = job[k].seen
        BY <1>1, <1>2, <2>1 DEF Loaded, PcOf, Ended
    <2> QED
        BY <1>1, <1>3, <2>1, <2>2 DEF Loaded
<1>5. ASSUME NEW k \in Job PROVE Repeats(k)'
    <2>1. /\ Repeats(k) /\ Loaded(k) /\ n = Len(rows)
          /\ job'[k].all = job[k].all /\ job'[k].names = job[k].names /\ job'[k].prior = job[k].prior
          /\ job'[k].pc \in {"running"} \cup Reported => job[k].pc \in {"running"} \cup Reported
        BY <1>1, <1>2 DEF RInv, n, Reported
    <2>2. job[k].prior # 0 => rows'[job[k].prior] = rows[job[k].prior]
        BY <1>3, <2>1 DEF Loaded
    <2> QED
        BY <2>1, <2>2 DEF Repeats, Failed
<1>6. ASSUME NEW k \in Job PROVE Done(k)'
    <2>1. /\ job'[k].plan = job[k].plan /\ job'[k].edition = job[k].edition /\ job'[k].all = job[k].all
          /\ job'[k].names = job[k].names /\ job'[k].report = job[k].report
          /\ job'[k].pc \in Reported <=> job[k].pc \in Reported
        BY <1>1, <1>2 DEF Reported
    <2>2. Steps(k)' = Steps(k)
        BY <2>1 DEF Steps
    <2>3. Selected(k)' = Selected(k)
        BY <2>1, <2>2 DEF Selected
    <2> QED
        BY <2>1, <2>2, <2>3 DEF RInv, Done
<1>7. \A i, k \in Job : i # k => Apart(i, k)'
    BY <1>1, <1>2 DEF RInv, Apart, Reported
<1>8. Typed'
    BY <1>1 DEF RInv, Typed
<1> QED
    BY <1>4, <1>5, <1>6, <1>7, <1>8 DEF RInv

LEMMA EditGoes ==
    ASSUME RInv, IInv', NEW p \in Plan, Edit(p)
    PROVE  RInv'
<1>1. /\ rows' = rows /\ writer' = writer /\ job' = job
      /\ edition[p] < Len(StepsOf[p]) /\ edition' = [edition EXCEPT ![p] = @ + 1]
      /\ edition = [q \in Plan |-> edition[q]]
    BY DEF Edit, RInv, Typed
<1>2. \A q \in Plan : /\ edition'[q] \in DOMAIN StepsOf[q] /\ 1 .. edition[q] \subseteq 1 .. edition'[q]
    <2> TAKE q \in Plan
    <2>1. CASE q = p
        BY <1>1, <2>1, EditionNumber
    <2>2. CASE q # p
        BY <1>1, <2>2, EditionNumber DEF RInv, Typed
    <2> QED
        BY <2>1, <2>2
<1>3. Typed'
    BY <1>1, <1>2 DEF RInv, Typed
<1>4. \A k \in Job : Loaded(k)'
    BY <1>1, <1>2 DEF RInv, Loaded
<1>5. \A k \in Job : Repeats(k)' /\ Done(k)'
    BY <1>1 DEF RInv, Repeats, Done, Steps, Selected
<1>6. \A i, k \in Job : i # k => Apart(i, k)'
    BY <1>1 DEF RInv, Apart
<1> QED
    BY <1>3, <1>4, <1>5, <1>6 DEF RInv

LEMMA StepRest == RInv /\ [Next]_vars => RInv'
<1> SUFFICES ASSUME RInv, [Next]_vars PROVE RInv'
    OBVIOUS
<1> IInv'
    BY StepInv DEF RInv
<1>1. ASSUME NEW j \in Job, JobStep(j) PROVE RInv'
    BY <1>1, ListGoes, ExecuteGoes, InsertGoes, CommitGoes DEF JobStep
<1>2. ASSUME NEW j \in Job, Fail(j) PROVE RInv'
    BY <1>2, FailGoes
<1>3. ASSUME NEW j \in Job, NEW a \in Asked, Start(j, a[1], a[2]) PROVE RInv'
    BY <1>3, StartGoes
<1>4. ASSUME NEW p \in Plan, Edit(p) PROVE RInv'
    BY <1>4, EditGoes
<1>5. CASE UNCHANGED vars
    <2>1. rows' = rows /\ writer' = writer /\ edition' = edition /\ job' = job
        BY <1>5 DEF vars
    <2>2. Typed' /\ \A k \in Job : Loaded(k)'
        BY <2>1 DEF RInv, Typed, Loaded
    <2>3. \A k \in Job : Repeats(k)' /\ Done(k)'
        BY <2>1 DEF RInv, Repeats, Done, Steps, Selected
    <2>4. \A i, k \in Job : i # k => Apart(i, k)'
        BY <2>1 DEF RInv, Apart
    <2> QED
        BY <2>2, <2>3, <2>4 DEF RInv
<1> QED
    BY <1>1, <1>2, <1>3, <1>4, <1>5 DEF Next

(***************************************************************************)
(* What is known of a row: the job that stored it, the plan it ran and,    *)
(* step by step, what it reports.                                          *)
(***************************************************************************)
LEMMA RowIs ==
    ASSUME RInv, NEW i \in DOMAIN rows
    PROVE  LET j == rows[i].job
           IN  /\ j \in Job /\ job[j].pc = "saved" /\ RowsBy(j) = {i} /\ rows[i] = NewRow(j)
               /\ rows[i].started = job[j].started /\ rows[i].plan = job[j].plan
               /\ rows[i].steps = job[j].report
               /\ rows[i].base = IF job[j].all THEN 0 ELSE job[j].prior
<1> DEFINE j == rows[i].job
<1>1. j \in Job /\ i \in RowsBy(j)
    BY DEF RInv, IInv, RowsStamped, RowsBy
<1>2. StoredOnce
    BY DEF RInv, IInv
<1>3. job[j].pc = "saved"
    BY <1>1, <1>2 DEF StoredOnce
<1>4. PICK r \in DOMAIN rows : RowsBy(j) = {r} /\ rows[r] = NewRow(j)
    BY <1>1, <1>2, <1>3 DEF StoredOnce
<1>5. r = i
    BY <1>1, <1>4
<1> QED
    BY <1>1, <1>3, <1>4, <1>5 DEF NewRow

LEMMA RowReports ==
    ASSUME RInv, NEW i \in DOMAIN rows
    PROVE  LET j == rows[i].job
           IN  /\ rows[i].steps \in Seq(StepResult)
               /\ \A k \in Selected(j) : Named(i, Steps(j)[k].name)
               /\ \A n : Named(i, n) => \E k \in Selected(j) : Steps(j)[k].name = n
<1> DEFINE j == rows[i].job
           p == job[j].plan
           e == job[j].edition
<1>1. j \in Job /\ job[j].pc = "saved" /\ rows[i].steps = job[j].report
    BY RowIs
<1>2. job[j].report \in Reports(StepsOf[p][e], Selected(j)) /\ Steps(j) = StepsOf[p][e]
    BY <1>1 DEF RInv, Done, Reported, Steps
<1>3. p \in Plan /\ e \in DOMAIN StepsOf[p]
    BY <1>1, EditionNumber DEF RInv, Loaded
<1>4. Selected(j) \in SUBSET DOMAIN StepsOf[p][e]
    BY DEF Selected, Steps
<1> HIDE DEF j, p, e
<1>5. /\ job[j].report \in Seq(StepResult)
      /\ \A k \in Selected(j) : \E r \in DOMAIN job[j].report : job[j].report[r].name = StepsOf[p][e][k].name
      /\ \A r \in DOMAIN job[j].report : \E k \in Selected(j) : job[j].report[r].name = StepsOf[p][e][k].name
    BY <1>2, <1>3, <1>4, ReportHas
<1> QED
    BY <1>1, <1>2, <1>5 DEF Named, j

(***************************************************************************)
(* A row of a run that repeated failed steps, and the row it had them from. *)
(***************************************************************************)
LEMMA RepeatIs ==
    ASSUME RInv, NEW i \in DOMAIN rows, ~job[rows[i].job].all
    PROVE  LET j == rows[i].job
               b == rows[i].base
           IN  /\ b # 0 /\ b \in DOMAIN rows /\ b = job[j].prior
               /\ rows[b].plan = rows[i].plan /\ rows[b].started < rows[i].started
               /\ job[j].names = Failed(rows[b]) /\ Failed(rows[b]) # {}
<1> DEFINE j == rows[i].job
<1>1. /\ j \in Job /\ job[j].pc = "saved" /\ rows[i].base = job[j].prior
      /\ rows[i].started = job[j].started /\ rows[i].plan = job[j].plan
    BY RowIs
<1>2. LookedBack(j) /\ Repeats(j)
    BY <1>1 DEF RInv, IInv
<1> HIDE DEF j
<1> QED
    BY <1>1, <1>2 DEF LookedBack, Repeats, Reported, j

LEMMA FailedIsNamed ==
    ASSUME NEW i, NEW n \in Failed(rows[i])
    PROVE  Named(i, n)
BY DEF Failed, Named
------------------------------------------------------------------------------
(***************************************************************************)
(* Every variable has its type, whatever the jobs do.                      *)
(***************************************************************************)
THEOREM TypeCorrect == Spec => []TypeOK
<1>1. RInv => TypeOK
    <2> SUFFICES ASSUME RInv PROVE TypeOK
        OBVIOUS
    <2>1. ASSUME NEW i \in DOMAIN rows
          PROVE  /\ rows[i].plan \in Plan /\ rows[i].started \in 1 .. clock
                 /\ rows[i].steps \in Seq(StepResult)
                 /\ rows[i].job \in Job /\ rows[i].base \in 0 .. Len(rows)
        <3>1. rows[i].steps \in Seq(StepResult)
            BY RowReports
        <3>2. /\ rows[i].job \in Job /\ rows[i].plan = job[rows[i].job].plan
              /\ rows[i].base = IF job[rows[i].job].all THEN 0 ELSE job[rows[i].job].prior
            BY RowIs
        <3>3. Loaded(rows[i].job) /\ Len(rows) \in Nat
            BY <3>2, TableDomain DEF RInv, IInv, Shapes
        <3>4. rows[i].started \in 1 .. clock
            BY DEF RInv, IInv, RowsStamped
        <3> QED
            BY <3>1, <3>2, <3>3, <3>4 DEF Loaded
    <2>2. ASSUME NEW j \in Job PROVE job[j].report \in Seq(StepResult)
        <3>1. CASE job[j].pc \in Reported
            <4>1. job[j].plan \in Plan /\ job[j].edition \in DOMAIN StepsOf[job[j].plan]
                BY EditionNumber DEF RInv, Loaded
            <4>2. /\ job[j].report \in Reports(Steps(j), Selected(j))
                  /\ Selected(j) \in SUBSET DOMAIN Steps(j)
                BY <3>1 DEF RInv, Done, Selected
            <4> QED
                BY <4>1, <4>2, ReportHas DEF Steps
        <3>2. CASE job[j].pc \notin Reported
            BY <3>2, EmptySeq DEF RInv, Done
        <3> QED
            BY <3>1, <3>2
    <2>3. \A j \in Job : Loaded(j)
        BY DEF RInv
    <2>4. clock \in Nat /\ Typed
        BY DEF RInv, IInv, Shapes
    <2> QED
        BY <2>1, <2>2, <2>3, <2>4 DEF TypeOK, Loaded, Typed
<1> QED
    BY <1>1, InitRest, StepRest, PTL DEF Spec

(***************************************************************************)
(* For any plans, editions and jobs: a run that ran no step, and so is     *)
(* shown as passed though its report did not pass, was to repeat steps     *)
(* that failed in a run of another edition of its plan (cli.py:86-102,     *)
(* sequencer.py:54-57).                                                    *)
(***************************************************************************)
THEOREM EmptyRunsExplained == Spec => []HistoryAgreesWithReports
<1>1. RInv => HistoryAgreesWithReports
    <2> SUFFICES ASSUME RInv, NEW i \in DOMAIN rows,
                        ShownAsPass(rows[i]) # AllPassed(rows[i]), Steps(rows[i].job) # <<>>
                 PROVE  /\ rows[i].base # 0 /\ ~ShownAsPass(rows[rows[i].base])
                        /\ job[rows[rows[i].base].job].edition # job[rows[i].job].edition
        BY DEF HistoryAgreesWithReports
    <2> DEFINE j == rows[i].job
               b == rows[i].base
    <2>1. rows[i].steps = <<>>
        BY DEF ShownAsPass, AllPassed
    <2>2. Selected(j) = {}
        <3>1. \A n : ~Named(i, n)
            BY <2>1 DEF Named
        <3> QED
            BY <3>1, RowReports
    <2>3. j \in Job /\ rows[i].plan = job[j].plan
        BY RowIs
    <2>4. \E k \in DOMAIN Steps(j) : TRUE
        <3>1. job[j].plan \in Plan /\ job[j].edition \in DOMAIN StepsOf[job[j].plan]
            BY <2>3, EditionNumber DEF RInv, Loaded
        <3>2. IsTable(Steps(j))
            BY <3>1, HistoryAssumption DEF Steps, IsSequence, IsTable
        <3>3. Len(Steps(j)) # 0
            BY <3>2, EmptySeq DEF IsTable
        <3>4. 1 \in DOMAIN Steps(j)
            BY <3>2, <3>3, TableDomain
        <3> QED
            BY <3>4
    <2>5. ~job[j].all
        BY <2>2, <2>4 DEF Selected
    <2>6. /\ b # 0 /\ b \in DOMAIN rows /\ rows[b].plan = rows[i].plan
          /\ job[j].names = Failed(rows[b]) /\ Failed(rows[b]) # {}
        BY <2>5, RepeatIs
    <2>7. ASSUME job[rows[b].job].edition = job[j].edition PROVE FALSE
        <3>1. Steps(rows[b].job) = Steps(j)
            <4>1. rows[b].plan = job[rows[b].job].plan
                BY <2>6, RowIs
            <4> QED
                BY <2>3, <2>6, <2>7, <4>1 DEF Steps
        <3>2. PICK n \in Failed(rows[b]) : TRUE
            BY <2>6
        <3>3. PICK k \in Selected(rows[b].job) : Steps(rows[b].job)[k].name = n
            BY <2>6, <3>2, FailedIsNamed, RowReports
        <3>4. k \in Selected(j)
            BY <2>6, <3>1, <3>2, <3>3 DEF Selected
        <3> QED
            BY <2>2, <3>4
    <2> QED
        BY <2>6, <2>7 DEF ShownAsPass
<1> QED
    BY <1>1, InitRest, StepRest, PTL DEF Spec

(***************************************************************************)
(* No two rows were stamped alike, so that the newest is the newest.       *)
(***************************************************************************)
LEMMA RowsApart ==
    ASSUME RInv
    PROVE  /\ \A i \in DOMAIN rows : rows[i].started \in Nat
           /\ \A i, k \in DOMAIN rows : rows[i].started = rows[k].started => i = k
<1>1. \A i \in DOMAIN rows : rows[i].started \in Nat
    BY DEF RInv, IInv, Shapes, RowsStamped
<1>2. ASSUME NEW i \in DOMAIN rows, NEW k \in DOMAIN rows, i # k
      PROVE  rows[i].started # rows[k].started
    <2>1. /\ rows[i].job \in Job /\ job[rows[i].job].pc = "saved" /\ RowsBy(rows[i].job) = {i}
          /\ rows[i].started = job[rows[i].job].started
        BY RowIs
    <2>2. /\ rows[k].job \in Job /\ job[rows[k].job].pc = "saved" /\ RowsBy(rows[k].job) = {k}
          /\ rows[k].started = job[rows[k].job].started
        BY RowIs
    <2>3. rows[i].job # rows[k].job
        BY <1>2, <2>1, <2>2
    <2>4. Apart(rows[i].job, rows[k].job)
        BY <2>1, <2>2, <2>3 DEF RInv
    <2> QED
        BY <2>1, <2>2, <2>4 DEF Apart, Reported
<1> QED
    BY <1>1, <1>2

LEMMA NewestIs ==
    ASSUME RInv, NEW set \in SUBSET DOMAIN rows, set # {}
    PROVE  Newest(set) \in set /\ \A k \in set : rows[k].started <= rows[Newest(set)].started
<1>1. IsTable(rows) /\ Stamped
    BY RowsApart DEF RInv, IInv, Shapes, Stamped
<1>2. \E i \in set : \A k \in set : rows[k].started <= rows[i].started
    BY <1>1, NewestExists
<1> QED
    BY <1>2 DEF Newest

(***************************************************************************)
(* A row of an unedited plan that does not name a step of it repeated the  *)
(* failures of another row, in which that step had not failed.             *)
(***************************************************************************)
LEMMA PassedOver ==
    ASSUME RInv, NEW p \in Plan, edition[p] = 1, NEW i \in RowsOf(p), NEW n, ~Named(i, n),
           NEW r \in RowsOf(p), Named(r, n)
    PROVE  LET b == rows[i].base
           IN  b # 0 /\ b \in RowsOf(p) /\ rows[b].started < rows[i].started /\ n \notin Failed(rows[b])
<1> DEFINE j == rows[i].job
           b == rows[i].base
<1>1. i \in DOMAIN rows /\ r \in DOMAIN rows /\ rows[i].plan = p /\ rows[r].plan = p
    BY DEF RowsOf
<1>2. j \in Job /\ rows[r].job \in Job /\ job[j].plan = p /\ job[rows[r].job].plan = p
    BY <1>1, RowIs
<1>3. job[j].edition = 1 /\ job[rows[r].job].edition = 1
    BY <1>2 DEF RInv, Loaded
<1>4. Steps(rows[r].job) = Steps(j)
    BY <1>2, <1>3 DEF Steps
<1>5. PICK k \in Selected(rows[r].job) : Steps(rows[r].job)[k].name = n
    BY <1>1, RowReports
<1>6. k \in DOMAIN Steps(j) /\ Steps(j)[k].name = n
    BY <1>4, <1>5 DEF Selected
<1>7. k \notin Selected(j)
    BY <1>1, <1>6, RowReports
<1>8. ~job[j].all /\ n \notin job[j].names
    BY <1>6, <1>7 DEF Selected
<1>9. /\ b # 0 /\ b \in DOMAIN rows /\ rows[b].plan = rows[i].plan /\ rows[b].started < rows[i].started
      /\ job[j].names = Failed(rows[b])
    BY <1>1, <1>8, RepeatIs
<1> QED
    BY <1>1, <1>8, <1>9 DEF RowsOf

(***************************************************************************)
(* For any plans, limits of the list and jobs: while nothing gets between  *)
(* a run of failed steps and the run it has them from, and the plan is not *)
(* edited, a step that failed when it last ran is among those that failed  *)
(* in the plan's newest run, however many such runs followed one another   *)
(* (cli.py:86-96, sequencer.py:168-177).                                   *)
(***************************************************************************)
THEOREM FailuresKept == Spec => []FailuresNotForgotten
<1>1. RInv => FailuresNotForgotten
    <2> SUFFICES ASSUME RInv, NEW p \in Plan, RowsOf(p) # {}, Undisturbed(p), edition[p] = 1,
                        NEW n \in {s.name : s \in StepResult},
                        {i \in RowsOf(p) : Named(i, n)} # {},
                        n \in Failed(rows[Newest({i \in RowsOf(p) : Named(i, n)})])
                 PROVE  n \in Failed(rows[Newest(RowsOf(p))])
        BY DEF FailuresNotForgotten
    <2> DEFINE ran  == {i \in RowsOf(p) : Named(i, n)}
               last == Newest(ran)
               bad  == {i \in RowsOf(p) : /\ rows[last].started <= rows[i].started
                                          /\ n \notin Failed(rows[i])}
    <2>1. ran \in SUBSET DOMAIN rows /\ RowsOf(p) \in SUBSET DOMAIN rows /\ bad \in SUBSET DOMAIN rows
        BY DEF RowsOf
    <2>2. last \in ran /\ \A k \in ran : rows[k].started <= rows[last].started
        BY <2>1, NewestIs
    <2>3. /\ Newest(RowsOf(p)) \in RowsOf(p)
          /\ \A k \in RowsOf(p) : rows[k].started <= rows[Newest(RowsOf(p))].started
        BY <2>1, NewestIs
    <2>4. ASSUME bad # {} PROVE FALSE
        <3>1. PICK i \in bad : \A k \in bad : rows[i].started <= rows[k].started
            <4>1. IsTable(rows) /\ Stamped
                BY RowsApart DEF RInv, IInv, Shapes, Stamped
            <4> HIDE DEF bad
            <4> QED
                BY <2>1, <2>4, <4>1, NewestExists
        <3>2. i # last /\ i \in RowsOf(p)
            OBVIOUS
        <3>3. rows[last].started < rows[i].started
            BY <2>1, <2>2, <3>2, RowsApart
        <3>4. ~Named(i, n)
            BY <2>1, <2>2, <3>2, <3>3, RowsApart
        <3> DEFINE b == rows[i].base
        <3>5. /\ b # 0 /\ b \in RowsOf(p) /\ rows[b].started < rows[i].started
              /\ n \notin Failed(rows[b])
            BY <2>2, <3>2, <3>4, PassedOver
        <3>6. rows[last].started <= rows[b].started
            <4>1. ~(rows[b].started < rows[last].started /\ rows[last].started < rows[i].started)
                BY <2>2, <3>2, <3>5 DEF Undisturbed
            <4> QED
                BY <2>1, <2>2, <3>3, <3>5, <4>1, RowsApart
        <3>7. b \in bad
            BY <3>5, <3>6
        <3> HIDE DEF bad, b, last
        <3> QED
            BY <2>1, <3>1, <3>5, <3>7, RowsApart
    <2>5. Newest(RowsOf(p)) \notin bad
        BY <2>4
    <2> HIDE DEF last
    <2> QED
        BY <2>2, <2>3, <2>5
<1> QED
    BY <1>1, InitRest, StepRest, PTL DEF Spec
------------------------------------------------------------------------------
(***************************************************************************)
(* Induction, over a set of numbers: a first one that is missing would     *)
(* follow one that is not.                                                 *)
(***************************************************************************)
LEMMA UpTo ==
    ASSUME NEW n \in Nat, NEW S, 0 \in S, \A k \in 1 .. n : k - 1 \in S => k \in S
    PROVE  n \in S /\ \A k \in 0 .. n : k \in S
<1> DEFINE T == {k \in 0 .. n : k \notin S}
<1> SUFFICES ASSUME T # {} PROVE FALSE
    OBVIOUS
<1>1. PICK m \in T : \A k \in T : m <= k
    <2> DEFINE back == [k \in T |-> - k]
    <2>1. IsFiniteSet(T) /\ \A k \in T : back[k] \in Int
        <3>1. IsFiniteSet(0 .. n)
            BY FS_Interval
        <3> QED
            BY <3>1, FS_Subset
    <2>2. \E m \in T : \A k \in T : back[k] <= back[m]
        <3> HIDE DEF T, back
        <3> QED
            BY <2>1, LargestExists
    <2> QED
        BY <2>2
<1>2. m \in 1 .. n /\ m - 1 \in 0 .. n /\ m - 1 \notin T
    BY <1>1
<1> QED
    BY <1>1, <1>2

(***************************************************************************)
(* The elements of a sequence that are in a set, and where they are.       *)
(***************************************************************************)
At(s, set) == {k \in DOMAIN s : s[k] \in set}

Picked(s, set) ==
    LET at == At(s, set)
        a  == Among(s, set)
    IN  /\ \A k \in at : Rank(k, at) \in 1 .. Cardinality(at) /\ a[Rank(k, at)] = s[k]
        /\ \A r \in 1 .. Cardinality(at) : \E k \in at : Rank(k, at) = r /\ a[r] = s[k]
        /\ \A i, k \in at : Rank(i, at) = Rank(k, at) => i = k

LEMMA AmongIs ==
    ASSUME NEW S, NEW s \in Seq(S), NEW set
    PROVE  /\ At(s, set) \in SUBSET (1 .. Len(s)) /\ IsFiniteSet(At(s, set))
           /\ Cardinality(At(s, set)) \in Nat
           /\ Among(s, set) \in Seq(S \cap set)
           /\ Len(Among(s, set)) = Cardinality(At(s, set))
           /\ DOMAIN Among(s, set) = 1 .. Cardinality(At(s, set))
           /\ Picked(s, set)
<1> DEFINE at == At(s, set)
           c  == Cardinality(at)
           a  == Among(s, set)
<1>1. Len(s) \in Nat /\ at \in SUBSET (1 .. Len(s)) /\ \A k \in at : s[k] \in S \cap set
    BY DEF At
<1>2. a = [r \in 1 .. c |-> s[CHOOSE k \in at : Rank(k, at) = r]]
    BY DEF Among, At
<1> HIDE DEF at, a
<1>3. /\ IsFiniteSet(at) /\ c \in Nat
      /\ \A k \in at : Rank(k, at) \in 1 .. c
      /\ \A r \in 1 .. c : \E k \in at : Rank(k, at) = r
      /\ \A i, k \in at : Rank(i, at) = Rank(k, at) => i = k
    BY <1>1, Ranks
<1> HIDE DEF c
<1>4. DOMAIN a = 1 .. c
    BY <1>2
<1>5. ASSUME NEW k \in at PROVE Rank(k, at) \in 1 .. c /\ a[Rank(k, at)] = s[k]
    <2>1. Rank(k, at) \in 1 .. c
        BY <1>3
    <2> DEFINE x == CHOOSE y \in at : Rank(y, at) = Rank(k, at)
    <2>2. x \in at /\ Rank(x, at) = Rank(k, at)
        OBVIOUS
    <2>3. x = k
        <3> HIDE DEF x
        <3> QED
            BY <1>3, <2>2
    <2> QED
        BY <1>2, <2>1, <2>3
<1>6. \A r \in 1 .. c : \E k \in at : Rank(k, at) = r /\ a[r] = s[k]
    BY <1>3, <1>5
<1>7. a \in [1 .. c -> S \cap set]
    <2>1. \A r \in 1 .. c : a[r] \in S \cap set
        BY <1>1, <1>6
    <2> QED
        BY <1>2, <2>1
<1>8. a \in Seq(S \cap set) /\ Len(a) = c
    BY <1>3, <1>7
<1> QED
    BY <1>1, <1>3, <1>4, <1>5, <1>6, <1>8 DEF at, c, a, Picked

Begins(s, t) == Len(s) <= Len(t) /\ \A i \in 1 .. Len(s) : s[i] = t[i]

LEMMA BeginsIsPrefix ==
    ASSUME NEW S, NEW s \in Seq(S), NEW t \in Seq(S), Begins(s, t)
    PROVE  IsPrefix(s, t)
<1>1. Len(s) \in Nat /\ Len(t) \in Nat
    OBVIOUS
<1>2. /\ SubSeq(s, 1, Len(s)) \in Seq(S) /\ Len(SubSeq(s, 1, Len(s))) = Len(s)
      /\ \A i \in 1 .. Len(s) : SubSeq(s, 1, Len(s))[i] = s[i]
    <2>1. \A i \in 1 .. Len(s) : s[i] \in S
        OBVIOUS
    <2> QED
        BY <1>1, <2>1, SubSeqProperties
<1>3. /\ SubSeq(t, 1, Len(s)) \in Seq(S) /\ Len(SubSeq(t, 1, Len(s))) = Len(s)
      /\ \A i \in 1 .. Len(s) : SubSeq(t, 1, Len(s))[i] = t[i]
    <2>1. \A i \in 1 .. Len(s) : t[i] \in S
        BY <1>1 DEF Begins
    <2> QED
        BY <1>1, <2>1, SubSeqProperties
<1>4. \A i \in 1 .. Len(s) : SubSeq(s, 1, Len(s))[i] = SubSeq(t, 1, Len(s))[i]
    BY <1>2, <1>3 DEF Begins
<1>5. SubSeq(s, 1, Len(s)) = SubSeq(t, 1, Len(s))
    BY <1>2, <1>3, <1>4, SeqEqual
<1> QED
    BY <1>5 DEF IsPrefix, Begins

LEMMA AmongGrows ==
    ASSUME NEW S, NEW s \in Seq(S), NEW t \in Seq(S), Begins(s, t), NEW set
    PROVE  Begins(Among(s, set), Among(t, set))
<1> DEFINE old == At(s, set)
           new == At(t, set)
<1>1. /\ IsFiniteSet(new) /\ Cardinality(old) \in Nat /\ Cardinality(new) \in Nat
      /\ Len(Among(s, set)) = Cardinality(old) /\ Len(Among(t, set)) = Cardinality(new)
      /\ DOMAIN Among(s, set) = 1 .. Cardinality(old)
    BY AmongIs
<1>6. /\ \A r \in 1 .. Cardinality(old) : \E k \in old : Rank(k, old) = r /\ Among(s, set)[r] = s[k]
      /\ \A k \in new : Among(t, set)[Rank(k, new)] = t[k]
    <2>1. Picked(s, set) /\ Picked(t, set)
        BY AmongIs
    <2> QED
        BY <2>1 DEF Picked
<1>2. old \in SUBSET new /\ old = {k \in new : k <= Len(s)} /\ \A k \in new : k \in Nat
    BY DEF At, Begins
<1>3. \A k \in old : k <= Len(s) /\ s[k] = t[k]
    BY DEF At, Begins
<1> HIDE DEF old, new
<1>4. Cardinality(old) <= Cardinality(new)
    BY <1>1, <1>2, FS_Subset
<1>5. ASSUME NEW r \in 1 .. Cardinality(old) PROVE Among(s, set)[r] = Among(t, set)[r]
    <2>1. PICK k \in old : Rank(k, old) = r /\ Among(s, set)[r] = s[k]
        BY <1>6
    <2>2. {i \in new : i <= k} = {i \in old : i <= k}
        <3>1. Len(s) \in Nat /\ k \in Nat /\ k <= Len(s)
            BY <1>2, <1>3
        <3>2. \A i \in new : i <= k => i \in old
            BY <1>2, <3>1
        <3> QED
            BY <1>2, <3>2
    <2>3. Rank(k, new) = r
        BY <2>1, <2>2 DEF Rank
    <2>4. k \in new /\ s[k] = t[k]
        BY <1>2, <1>3
    <2>5. Among(t, set)[Rank(k, new)] = t[k]
        BY <1>6, <2>4
    <2> QED
        BY <2>1, <2>3, <2>4, <2>5
<1> QED
    BY <1>1, <1>4, <1>5 DEF Begins
------------------------------------------------------------------------------
(***************************************************************************)
(* FlattenSeq, as it goes on from one sequence to the next.                *)
(***************************************************************************)
IsFlat(seqs, n, f) == f = [i \in 1 .. n |-> IF i = 1 THEN seqs[i] ELSE f[i-1] \o seqs[i]]

LEMMA FlatGoesOn ==
    ASSUME NEW seqs, NEW n \in Nat, NEW f, IsFlat(seqs, n, f)
    PROVE  \E g : IsFlat(seqs, n + 1, g)
<1> DEFINE last == IF n = 0 THEN seqs[1] ELSE f[n] \o seqs[n + 1]
           g == [i \in 1 .. n + 1 |-> IF i = n + 1 THEN last ELSE f[i]]
           h == [i \in 1 .. n + 1 |-> IF i = 1 THEN seqs[i] ELSE g[i-1] \o seqs[i]]
<1>1. \A i \in 1 .. n + 1 : g[i] = h[i]
    <2> SUFFICES ASSUME NEW i \in 1 .. n + 1 PROVE g[i] = h[i]
        OBVIOUS
    <2>1. CASE i = n + 1
        <3>1. g[i] = last
            BY <2>1
        <3>2. CASE n = 0
            BY <2>1, <3>1, <3>2
        <3>3. CASE n # 0
            <4>1. i # 1 /\ i - 1 = n /\ n \in 1 .. n + 1 /\ n # n + 1
                BY <2>1, <3>3
            <4> QED
                BY <2>1, <3>1, <3>3, <4>1
        <3> QED
            BY <3>2, <3>3
    <2>2. CASE i # n + 1
        <3>1. i \in 1 .. n
            BY <2>2
        <3>2. f[i] = IF i = 1 THEN seqs[i] ELSE f[i-1] \o seqs[i]
            BY <3>1 DEF IsFlat
        <3>3. g[i] = f[i]
            BY <2>2
        <3>4. i # 1 => i - 1 \in 1 .. n + 1 /\ i - 1 # n + 1
            BY <3>1
        <3>5. i # 1 => g[i-1] = f[i-1]
            BY <3>4
        <3>6. h[i] = IF i = 1 THEN seqs[i] ELSE g[i-1] \o seqs[i]
            OBVIOUS
        <3> HIDE DEF g, h
        <3> QED
            BY <3>2, <3>3, <3>5, <3>6
    <2> QED
        BY <2>1, <2>2
<1>2. g = h
    BY <1>1
<1> HIDE DEF g
<1>3. IsFlat(seqs, n + 1, g)
    BY <1>2 DEF IsFlat
<1> QED
    BY <1>3

LEMMA FlatRuns ==
    ASSUME NEW seqs, NEW n \in Nat
    PROVE  \E f : IsFlat(seqs, n, f)
<1> DEFINE S == {m \in Nat : \E f : IsFlat(seqs, m, f)}
<1>1. 0 \in S
    <2>1. IsFlat(seqs, 0, [i \in 1 .. 0 |-> <<>>])
        BY DEF IsFlat
    <2> QED
        BY <2>1
<1>2. \A k \in 1 .. n : k - 1 \in S => k \in S
    <2> SUFFICES ASSUME NEW k \in 1 .. n, k - 1 \in S PROVE k \in S
        OBVIOUS
    <2>1. PICK f : IsFlat(seqs, k - 1, f)
        OBVIOUS
    <2>2. \E g : IsFlat(seqs, (k - 1) + 1, g)
        BY <2>1, FlatGoesOn
    <2> QED
        BY <2>2
<1> HIDE DEF S
<1>3. n \in S
    BY <1>1, <1>2, UpTo
<1> QED
    BY <1>3 DEF S

\* What FlattenSeq has put together after each of the sequences.
Runs(seqs, S, f) ==
    /\ \A i \in 1 .. Len(seqs) : f[i] \in Seq(S)
    /\ f[1] = seqs[1]
    /\ \A i \in 2 .. Len(seqs) : f[i] = f[i-1] \o seqs[i]

LEMMA FlatIs ==
    ASSUME NEW S, NEW seqs \in Seq(Seq(S)), Len(seqs) # 0
    PROVE  \E f : Runs(seqs, S, f) /\ FlattenSeq(seqs) = f[Len(seqs)]
<1> DEFINE n == Len(seqs)
           f == CHOOSE g : IsFlat(seqs, n, g)
           T == {i \in 0 .. n : i = 0 \/ f[i] \in Seq(S)}
<1>1. n \in Nat /\ n # 0 /\ \A i \in 1 .. n : seqs[i] \in Seq(S)
    OBVIOUS
<1>2. FlattenSeq(seqs) = f[n]
    BY DEF FlattenSeq, IsFlat
<1> HIDE DEF n
<1>3. IsFlat(seqs, n, f)
    BY <1>1, FlatRuns
<1> HIDE DEF f
<1>4. \A i \in 1 .. n : f[i] = IF i = 1 THEN seqs[i] ELSE f[i-1] \o seqs[i]
    BY <1>3 DEF IsFlat
<1>5. f[1] = seqs[1] /\ \A i \in 2 .. n : f[i] = f[i-1] \o seqs[i]
    <2>1. 1 \in 1 .. n /\ \A i \in 2 .. n : i \in 1 .. n /\ i # 1
        BY <1>1
    <2> QED
        BY <1>4, <2>1, Zenon
<1>6. 0 \in T
    BY <1>1
<1>7. ASSUME NEW k \in 1 .. n, k - 1 \in T PROVE k \in T
    <2>1. CASE k = 1
        BY <1>1, <1>5, <2>1
    <2>2. CASE k # 1
        <3>1. f[k - 1] \in Seq(S) /\ k \in 2 .. n /\ seqs[k] \in Seq(S)
            BY <1>1, <1>7, <2>2
        <3>2. f[k] = f[k - 1] \o seqs[k]
            BY <1>5, <3>1
        <3>3. f[k] \in Seq(S)
            BY <3>1, <3>2
        <3> QED
            BY <3>3
    <2> QED
        BY <2>1, <2>2
<1> HIDE DEF T
<1>8. \A k \in 0 .. n : k \in T
    BY <1>1, <1>6, <1>7, UpTo
<1>9. \A k \in 1 .. n : f[k] \in Seq(S)
    BY <1>8 DEF T
<1>10. Runs(seqs, S, f)
    BY <1>5, <1>9 DEF Runs, n
<1> QED
    BY <1>2, <1>10 DEF n

LEMMA JoinedIs ==
    ASSUME NEW S, NEW s \in Seq(S), NEW t \in Seq(S)
    PROVE  /\ Len(s \o t) = Len(s) + Len(t)
           /\ \A i \in 1 .. Len(s) : (s \o t)[i] = s[i]
           /\ \A i \in 1 .. Len(t) : (s \o t)[Len(s) + i] = t[i]
<1>1. /\ s \o t \in Seq(S) /\ Len(s \o t) = Len(s) + Len(t)
      /\ \A i \in 1 .. Len(s) + Len(t) : (s \o t)[i] = IF i <= Len(s) THEN s[i] ELSE t[i - Len(s)]
    BY ConcatProperties
<1>2. Len(s) \in Nat /\ Len(t) \in Nat
    OBVIOUS
<1> QED
    BY <1>1, <1>2

LEMMA JoinedBegins ==
    ASSUME NEW S, NEW s \in Seq(S), NEW t \in Seq(S)
    PROVE  Begins(s, s \o t)
<1> DEFINE both == s \o t
<1>1. /\ Len(both) = Len(s) + Len(t)
      /\ \A i \in 1 .. Len(s) : both[i] = s[i]
    BY JoinedIs
<1>2. Len(s) \in Nat /\ Len(t) \in Nat
    OBVIOUS
<1> HIDE DEF both
<1>3. Len(s) <= Len(both)
    BY <1>1, <1>2
<1> QED
    BY <1>1, <1>3 DEF Begins, both

LEMMA FlatGrows ==
    ASSUME NEW S, NEW seqs \in Seq(Seq(S)), NEW more \in Seq(Seq(S)),
           Len(seqs) # 0, Len(more) = Len(seqs) + 1, \A i \in 1 .. Len(seqs) : more[i] = seqs[i]
    PROVE  /\ FlattenSeq(seqs) \in Seq(S) /\ FlattenSeq(more) \in Seq(S)
           /\ Begins(FlattenSeq(seqs), FlattenSeq(more))
<1> DEFINE n == Len(seqs)
<1>1. n \in Nat /\ n # 0 /\ Len(more) # 0
    OBVIOUS
<1>2. PICK f : Runs(seqs, S, f) /\ FlattenSeq(seqs) = f[n]
    BY FlatIs
<1>3. PICK g : Runs(more, S, g) /\ FlattenSeq(more) = g[n + 1]
    BY <1>1, FlatIs
<1> DEFINE T == {i \in 0 .. n : i = 0 \/ f[i] = g[i]}
<1>4. 0 \in T
    BY <1>1
<1>5. ASSUME NEW k \in 1 .. n, k - 1 \in T PROVE k \in T
    <2>1. more[k] = seqs[k]
        OBVIOUS
    <2>2. CASE k = 1
        BY <1>1, <1>2, <1>3, <2>1, <2>2 DEF Runs
    <2>3. CASE k # 1
        <3>1. k \in 2 .. n /\ k \in 2 .. Len(more) /\ f[k-1] = g[k-1]
            BY <1>1, <1>5, <2>3
        <3> QED
            <4>1. f[k] = f[k-1] \o seqs[k]
                BY <1>2, <3>1 DEF Runs
            <4>2. g[k] = g[k-1] \o more[k]
                BY <1>3, <3>1 DEF Runs
            <4>3. f[k] = g[k]
                BY <2>1, <3>1, <4>1, <4>2
            <4> QED
                BY <4>3
    <2> QED
        BY <2>2, <2>3
<1>6. f[n] = g[n]
    <2> HIDE DEF T
    <2>1. n \in T
        BY <1>1, <1>4, <1>5, UpTo
    <2> QED
        BY <1>1, <2>1 DEF T
<1>7. g[n + 1] = g[n] \o more[n + 1] /\ g[n] \in Seq(S) /\ more[n + 1] \in Seq(S) /\ g[n + 1] \in Seq(S)
    <2>1. n + 1 \in 2 .. Len(more) /\ n \in 1 .. Len(more) /\ n + 1 \in 1 .. Len(more) /\ (n + 1) - 1 = n
        BY <1>1
    <2>2. more[n + 1] \in Seq(S)
        BY <2>1
    <2> QED
        BY <1>3, <2>1, <2>2 DEF Runs
<1> HIDE DEF n
<1>8. Begins(g[n], g[n + 1])
    <2>1. g[n] \in Seq(S) /\ more[n + 1] \in Seq(S)
        BY <1>7, Zenon
    <2>2. Begins(g[n], g[n] \o more[n + 1])
        BY ONLY <2>1, JoinedBegins
    <2> QED
        BY <1>7, <2>2, Zenon
<1> QED
    BY <1>2, <1>3, <1>6, <1>7, <1>8 DEF n
------------------------------------------------------------------------------
(***************************************************************************)
(* Rows that were stamped, no two alike, have one order of time.           *)
(***************************************************************************)
Dated(table) ==
    /\ IsTable(table)
    /\ \A i \in DOMAIN table : table[i].started \in Nat
    /\ \A i, k \in DOMAIN table : table[i].started = table[k].started => i = k

Newer(table, i) == Cardinality(NewerThan(table, i))

LEMMA NewerIs ==
    ASSUME NEW table, Dated(table)
    PROVE  LET n == Len(table)
           IN  /\ n \in Nat /\ DOMAIN table = 1 .. n
               /\ \A i \in 1 .. n : IsFiniteSet(NewerThan(table, i)) /\ Newer(table, i) \in 0 .. n - 1
               /\ \A i, k \in 1 .. n : Newer(table, i) = Newer(table, k) => i = k
               /\ \A c \in 0 .. n - 1 : \E i \in 1 .. n : Newer(table, i) = c
<1> DEFINE n == Len(table)
           place == [i \in 1 .. n |-> n - Newer(table, i)]
<1>1. n \in Nat /\ DOMAIN table = 1 .. n /\ IsFiniteSet(1 .. n)
    BY TableDomain DEF Dated
<1> HIDE DEF n
<1>2. \A i \in 1 .. n : NewerThan(table, i) \in SUBSET (1 .. n) /\ i \notin NewerThan(table, i)
    BY <1>1 DEF NewerThan, Dated
<1>3. ASSUME NEW i \in 1 .. n PROVE IsFiniteSet(NewerThan(table, i)) /\ Newer(table, i) \in 0 .. n - 1
    <2>1. Cardinality(1 .. n) = n
        BY <1>1, FS_Interval
    <2>2. NewerThan(table, i) \in SUBSET (1 .. n) /\ NewerThan(table, i) # 1 .. n
        BY <1>2
    <2>3. /\ IsFiniteSet(NewerThan(table, i)) /\ Newer(table, i) <= n
          /\ Newer(table, i) # n
        BY <1>1, <2>1, <2>2, FS_Subset DEF Newer
    <2>4. Newer(table, i) \in Nat
        BY <2>3, FS_CardinalityType DEF Newer
    <2> QED
        BY <1>1, <2>3, <2>4
<1>4. ASSUME NEW i \in 1 .. n, NEW k \in 1 .. n, table[i].started < table[k].started
      PROVE  Newer(table, i) # Newer(table, k)
    <2>1. NewerThan(table, k) \in SUBSET NewerThan(table, i) /\ k \in NewerThan(table, i)
        BY <1>1, <1>4 DEF NewerThan, Dated
    <2>2. NewerThan(table, k) # NewerThan(table, i)
        BY <1>2, <2>1
    <2>3. IsFiniteSet(NewerThan(table, i))
        BY <1>3
    <2> QED
        BY <2>1, <2>2, <2>3, FS_Subset DEF Newer
<1>5. ASSUME NEW i \in 1 .. n, NEW k \in 1 .. n, i # k PROVE Newer(table, i) # Newer(table, k)
    <2>1. /\ table[i].started \in Nat /\ table[k].started \in Nat
          /\ table[i].started # table[k].started
        BY <1>1, <1>5 DEF Dated
    <2>2. table[i].started < table[k].started \/ table[k].started < table[i].started
        BY <2>1
    <2> QED
        BY <1>4, <2>2
<1>6. place \in Surjection(1 .. n, 1 .. n)
    <2>1. place \in [1 .. n -> 1 .. n]
        BY <1>1, <1>3
    <2>2. \A i, k \in 1 .. n : place[i] = place[k] => i = k
        <3> SUFFICES ASSUME NEW i \in 1 .. n, NEW k \in 1 .. n, i # k PROVE place[i] # place[k]
            OBVIOUS
        <3>1. Newer(table, i) # Newer(table, k) /\ Newer(table, i) \in Int /\ Newer(table, k) \in Int
            BY <1>3, <1>5
        <3> QED
            BY <1>1, <3>1
    <2> HIDE DEF place
    <2>3. place \in Injection(1 .. n, 1 .. n)
        BY <2>1, <2>2 DEF Injection, IsInjective
    <2> QED
        BY <1>1, <2>3, FS_Injection
<1>7. ASSUME NEW c \in 0 .. n - 1 PROVE \E i \in 1 .. n : Newer(table, i) = c
    <2>1. n - c \in 1 .. n
        BY <1>1
    <2>2. PICK i \in 1 .. n : place[i] = n - c
        <3> HIDE DEF place
        <3> QED
            BY <1>6, <2>1 DEF Surjection
    <2>3. Newer(table, i) \in Int /\ n - Newer(table, i) = n - c
        BY <1>3, <2>2
    <2> QED
        BY <1>1, <2>3
<1> QED
    BY <1>1, <1>3, <1>5, <1>7 DEF n

LEMMA ChronologicalIs ==
    ASSUME NEW table, Dated(table)
    PROVE  LET n == Len(table)
           IN  /\ n \in Nat /\ DOMAIN table = 1 .. n
               /\ \A k \in 1 .. n : /\ Chronological(table)[k] \in 1 .. n
                                    /\ Newer(table, Chronological(table)[k]) = n - k
               /\ \A i \in 1 .. n : /\ n - Newer(table, i) \in 1 .. n
                                    /\ Chronological(table)[n - Newer(table, i)] = i
<1> DEFINE n == Len(table)
           order == Chronological(table)
<1>1. /\ n \in Nat /\ DOMAIN table = 1 .. n
      /\ \A i \in 1 .. n : Newer(table, i) \in 0 .. n - 1
      /\ \A i, k \in 1 .. n : Newer(table, i) = Newer(table, k) => i = k
      /\ \A c \in 0 .. n - 1 : \E i \in 1 .. n : Newer(table, i) = c
    BY NewerIs
<1>2. ASSUME NEW k \in 1 .. n PROVE order[k] \in 1 .. n /\ Newer(table, order[k]) = n - k
    <2>1. order[k] = CHOOSE i \in 1 .. n : Newer(table, i) = n - k
        BY <1>1 DEF Chronological, Newer
    <2>2. n - k \in 0 .. n - 1
        BY <1>1
    <2> HIDE DEF n, order
    <2>3. \E i \in 1 .. n : Newer(table, i) = n - k
        BY <1>1, <2>2
    <2> QED
        BY <2>1, <2>3
<1> HIDE DEF n, order
<1>3. ASSUME NEW i \in 1 .. n PROVE n - Newer(table, i) \in 1 .. n /\ order[n - Newer(table, i)] = i
    <2> DEFINE k == n - Newer(table, i)
    <2>1. k \in 1 .. n /\ n - k = Newer(table, i)
        BY <1>1
    <2> HIDE DEF k
    <2>2. order[k] \in 1 .. n /\ Newer(table, order[k]) = Newer(table, i)
        BY <1>2, <2>1
    <2>3. order[k] = i
        BY <1>1, <2>2
    <2> QED
        BY <2>1, <2>3 DEF k
<1> QED
    BY <1>1, <1>2, <1>3 DEF n, order

LEMMA ChronologicalGrows ==
    ASSUME NEW table, NEW longer, Dated(table), Dated(longer), Len(longer) = Len(table) + 1,
           \A i \in 1 .. Len(table) : /\ longer[i] = table[i]
                                      /\ table[i].started < longer[Len(table) + 1].started
    PROVE  \A k \in 1 .. Len(table) : Chronological(longer)[k] = Chronological(table)[k]
<1> DEFINE n == Len(table)
<1>1. n \in Nat /\ DOMAIN table = 1 .. n /\ DOMAIN longer = 1 .. n + 1
    BY ChronologicalIs
<1> HIDE DEF n
<1> SUFFICES ASSUME NEW k \in 1 .. n PROVE Chronological(longer)[k] = Chronological(table)[k]
    BY DEF n
<1> DEFINE i == Chronological(table)[k]
<1>2. i \in 1 .. n /\ Newer(table, i) = n - k
    BY ChronologicalIs DEF n
<1> HIDE DEF i
<1>3. NewerThan(longer, i) = NewerThan(table, i) \cup {n + 1} /\ n + 1 \notin NewerThan(table, i)
    <2>1. ASSUME NEW x PROVE x \in NewerThan(longer, i) <=> x \in NewerThan(table, i) \/ x = n + 1
        <3>1. longer[i].started = table[i].started /\ table[i].started < longer[n + 1].started
            BY <1>2 DEF n
        <3>2. \A y \in 1 .. n : longer[y].started = table[y].started
            BY DEF n
        <3>3. longer[n + 1].started \in Nat /\ table[i].started \in Nat
            BY <1>1, <1>2 DEF Dated
        <3>4. CASE x \in 1 .. n
            BY <1>1, <3>1, <3>2, <3>4 DEF NewerThan
        <3>5. CASE x = n + 1
            BY <1>1, <3>1, <3>3, <3>5 DEF NewerThan
        <3>6. CASE x \notin 1 .. n + 1
            BY <1>1, <3>6 DEF NewerThan
        <3> QED
            BY <1>1, <3>4, <3>5, <3>6
    <2>2. n + 1 \notin NewerThan(table, i)
        BY <1>1 DEF NewerThan
    <2> QED
        BY <2>1, <2>2
<1>4. IsFiniteSet(NewerThan(table, i))
    BY <1>2, NewerIs DEF n
<1>5. Newer(longer, i) = (n - k) + 1
    BY <1>2, <1>3, <1>4, FS_AddElement DEF Newer
<1>6. (n + 1) - Newer(longer, i) = k /\ i \in 1 .. n + 1
    BY <1>1, <1>2, <1>5
<1>7. Chronological(longer)[(n + 1) - Newer(longer, i)] = i
    <2>1. \A x \in 1 .. Len(longer) : Chronological(longer)[Len(longer) - Newer(longer, x)] = x
        BY ChronologicalIs
    <2>2. Len(longer) = n + 1
        BY DEF n
    <2> QED
        BY <1>6, <2>1, <2>2
<1> QED
    BY <1>6, <1>7 DEF i
------------------------------------------------------------------------------
(***************************************************************************)
(* The series of a register of a device, put together from all the steps   *)
(* in the order of their runs.                                             *)
(***************************************************************************)
Recorded(table) == Dated(table) /\ \A i \in DOMAIN table : table[i].steps \in Seq(StepResult)

InOrder(table) == [k \in DOMAIN table |-> table[Chronological(table)[k]].steps]

Reads(register)  == {s \in StepResult : IsReading(s) /\ s.register = register}
OfDevice(device) == {s \in StepResult : s.device = device}
AllSteps(table)  == FlattenSeq(InOrder(table))

Trend(table, m) ==
    [device |-> m[1], register |-> m[2],
     series |-> Among(Among(AllSteps(table), Reads(m[2])), OfDevice(m[1]))]

(***************************************************************************)
(* What the trends page shows is these series, and a run that is the last  *)
(* in order of time only adds to their ends.                               *)
(***************************************************************************)
LEMMA TrendsAre ==
    ASSUME NEW table
    PROVE  WebTrends(table) = {Trend(table, m) : m \in MeasuredRegisters(table, "any")}
<1>1. \A r : RegisterHistory(table, r, "any", "any") = Among(AllSteps(table), Reads(r))
    <2> SUFFICES ASSUME NEW r
                 PROVE  RegisterHistory(table, r, "any", "any") = Among(AllSteps(table), Reads(r))
        OBVIOUS
    <2> DEFINE wanted == {s \in StepResult : IsReading(s) /\ s.register = r /\ "any" \in {"any", s.device}}
               order  == Chronological(table)
               all    == [k \in DOMAIN table |-> IF InStation(table[order[k]], "any")
                                                 THEN table[order[k]].steps ELSE <<>>]
    <2>1. RegisterHistory(table, r, "any", "any") = Among(FlattenSeq(all), wanted)
        BY DEF RegisterHistory
    <2>2. wanted = Reads(r)
        BY DEF Reads
    <2>3. all = InOrder(table)
        BY DEF InOrder, InStation
    <2> HIDE DEF all, wanted
    <2> QED
        BY <2>1, <2>2, <2>3 DEF AllSteps
<1>2. \A m : [device |-> m[1], register |-> m[2],
              series |-> Among(RegisterHistory(table, m[2], "any", "any"), {s \in StepResult : s.device = m[1]})]
                = Trend(table, m)
    BY <1>1 DEF Trend, OfDevice
<1> QED
    BY <1>2, Zenon DEF WebTrends

LEMMA InOrderIs ==
    ASSUME NEW table, Recorded(table)
    PROVE  /\ Len(table) \in Nat /\ DOMAIN table = 1 .. Len(table)
           /\ InOrder(table) \in Seq(Seq(StepResult)) /\ Len(InOrder(table)) = Len(table)
           /\ \A k \in 1 .. Len(table) : /\ Chronological(table)[k] \in 1 .. Len(table)
                                         /\ InOrder(table)[k] = table[Chronological(table)[k]].steps
<1>1. /\ Len(table) \in Nat /\ DOMAIN table = 1 .. Len(table)
      /\ \A k \in 1 .. Len(table) : Chronological(table)[k] \in 1 .. Len(table)
    BY ChronologicalIs DEF Recorded
<1>2. InOrder(table) \in [1 .. Len(table) -> Seq(StepResult)]
    BY <1>1 DEF InOrder, Recorded
<1>3. \A k \in 1 .. Len(table) : InOrder(table)[k] = table[Chronological(table)[k]].steps
    BY <1>1 DEF InOrder
<1>4. InOrder(table) \in Seq(Seq(StepResult)) /\ Len(InOrder(table)) = Len(table)
    BY <1>1, <1>2
<1> QED
    BY <1>1, <1>3, <1>4

LEMMA TrendsGrow ==
    ASSUME NEW table, NEW longer, Recorded(table), Recorded(longer), Len(longer) = Len(table) + 1,
           \A i \in 1 .. Len(table) : /\ longer[i] = table[i]
                                      /\ table[i].started < longer[Len(table) + 1].started,
           NEW t \in WebTrends(table)
    PROVE  \E u \in WebTrends(longer) :
               u.device = t.device /\ u.register = t.register /\ IsPrefix(t.series, u.series)
<1> DEFINE n == Len(table)
<1>1. PICK m \in MeasuredRegisters(table, "any") : t = Trend(table, m)
    BY TrendsAre
<1>2. n \in Nat /\ n # 0 /\ DOMAIN table = 1 .. n /\ DOMAIN longer = 1 .. n + 1
    <2>1. n \in Nat /\ DOMAIN table = 1 .. n /\ DOMAIN longer = 1 .. n + 1
        BY InOrderIs
    <2>2. DOMAIN table # {}
        BY <1>1 DEF MeasuredRegisters
    <2> QED
        BY <2>1, <2>2
<1>3. m \in MeasuredRegisters(longer, "any")
    <2>1. PICK i \in DOMAIN table : InStation(table[i], "any") /\
              m \in {<<s.device, s.register>> : s \in {x \in ToSet(table[i].steps) : IsReading(x)}}
        BY <1>1 DEF MeasuredRegisters
    <2>2. i \in DOMAIN longer /\ longer[i] = table[i]
        BY <1>2
    <2> QED
        BY <2>1, <2>2 DEF MeasuredRegisters
<1> DEFINE u == Trend(longer, m)
<1>4. u \in WebTrends(longer)
    BY <1>3, TrendsAre
<1>5. \A k \in 1 .. n : InOrder(longer)[k] = InOrder(table)[k]
    <2> SUFFICES ASSUME NEW k \in 1 .. n PROVE InOrder(longer)[k] = InOrder(table)[k]
        OBVIOUS
    <2>1. Chronological(longer)[k] = Chronological(table)[k]
        BY ChronologicalGrows DEF Recorded
    <2>2. InOrder(table)[k] = table[Chronological(table)[k]].steps /\ Chronological(table)[k] \in 1 .. n
        BY InOrderIs
    <2>3. k \in 1 .. Len(longer)
        BY <1>2
    <2>4. InOrder(longer)[k] = longer[Chronological(longer)[k]].steps
        BY <2>3, InOrderIs
    <2> QED
        BY <2>1, <2>2, <2>4
<1>6. /\ AllSteps(table) \in Seq(StepResult) /\ AllSteps(longer) \in Seq(StepResult)
      /\ Begins(AllSteps(table), AllSteps(longer))
    <2>1. /\ InOrder(table) \in Seq(Seq(StepResult)) /\ InOrder(longer) \in Seq(Seq(StepResult))
          /\ Len(InOrder(table)) = n /\ Len(InOrder(longer)) = n + 1
        BY InOrderIs
    <2> HIDE DEF n
    <2> QED
        BY <1>2, <1>5, <2>1, FlatGrows DEF AllSteps
<1> DEFINE s == Among(AllSteps(table), Reads(m[2]))
           l == Among(AllSteps(longer), Reads(m[2]))
<1>7. /\ s \in Seq(StepResult \cap Reads(m[2])) /\ l \in Seq(StepResult \cap Reads(m[2]))
      /\ Begins(s, l)
    BY <1>6, AmongIs, AmongGrows
<1> HIDE DEF s, l
<1> DEFINE D == OfDevice(m[1])
           S == (StepResult \cap Reads(m[2])) \cap D
<1>8. Among(s, D) \in Seq(S) /\ Among(l, D) \in Seq(S) /\ Begins(Among(s, D), Among(l, D))
    <2> HIDE DEF D
    <2> QED
        BY <1>7, AmongIs, AmongGrows
<1>9. IsPrefix(Among(s, D), Among(l, D))
    <2> HIDE DEF D, S
    <2> QED
        BY <1>8, BeginsIsPrefix
<1>10. t.series = Among(s, D) /\ u.series = Among(l, D) /\ u.device = t.device /\ u.register = t.register
    BY <1>1 DEF Trend, s, l
<1> HIDE DEF u
<1> QED
    BY <1>4, <1>9, <1>10

LEMMA RowsRecorded == RInv => Recorded(rows)
<1> SUFFICES ASSUME RInv PROVE Recorded(rows)
    OBVIOUS
<1>1. IsTable(rows)
    BY DEF RInv, IInv, Shapes
<1>2. \A i \in DOMAIN rows : rows[i].steps \in Seq(StepResult)
    BY RowReports
<1> QED
    BY <1>1, <1>2, RowsApart DEF Recorded, Dated

(***************************************************************************)
(* For any number of runs and of steps in them: a run that was stamped     *)
(* after all that are stored adds to the end of the series of its          *)
(* registers, and no other series changes what it has (store.py:165-190).  *)
(***************************************************************************)
THEOREM SeriesOnlyGrow == Spec => SeriesGrow
<1> DEFINE Grows == \A t \in WebTrends(rows) : \E u \in WebTrends(rows') :
                       u.device = t.device /\ u.register = t.register /\ IsPrefix(t.series, u.series)
           Latest == \A i \in DOMAIN rows : rows[i].started < Last(rows').started
<1>1. ASSUME Recorded(rows), Recorded(rows)', [Next]_vars PROVE [Latest => Grows]_rows
    <2> SUFFICES ASSUME rows' # rows, Latest PROVE Grows
        OBVIOUS
    <2>1. PICK j \in Job : Commit(j)
        BY <1>1 DEF Next, JobStep, vars, Start, List, ListWith, Execute, Insert, Fail, Edit
    <2>2. rows' = Append(rows, NewRow(j))
        BY <2>1 DEF Commit
    <2>3. Recorded(rows) /\ Recorded(rows')
        BY <1>1
    <2> DEFINE n == Len(rows)
    <2>4. /\ n \in Nat /\ DOMAIN rows = 1 .. n /\ Len(rows') = n + 1
          /\ \A i \in 1 .. n : rows'[i] = rows[i]
        <3> DEFINE S == ToSet(rows) \cup {NewRow(j)}
        <3>1. rows \in Seq(S) /\ NewRow(j) \in S
            BY <2>3, SeqMonotonic DEF Recorded, Dated, IsTable
        <3> HIDE DEF S
        <3> QED
            BY <2>2, <3>1, AppendProperties, LenProperties
    <2>5. Last(rows') = rows'[n + 1]
        BY <2>4 DEF Last
    <2>6. \A i \in 1 .. n : rows[i].started < rows'[n + 1].started
        BY <2>4, <2>5
    <2> SUFFICES ASSUME NEW t \in WebTrends(rows)
                 PROVE  \E u \in WebTrends(rows') :
                            u.device = t.device /\ u.register = t.register /\ IsPrefix(t.series, u.series)
        OBVIOUS
    <2> HIDE DEF Latest, Grows
    <2> QED
        BY <2>3, <2>4, <2>6, TrendsGrow
<1>2. Spec => [][Latest => Grows]_rows
    <2> HIDE DEF Latest, Grows
    <2> QED
        BY <1>1, RowsRecorded, InitRest, StepRest, PTL DEF Spec
<1> QED
    BY <1>2 DEF SeriesGrow
------------------------------------------------------------------------------
(***************************************************************************)
(* A function that numbers the elements of one set by those of another.    *)
(***************************************************************************)
OneToOne(g, A, B) ==
    /\ g = [a \in A |-> g[a]] /\ \A a \in A : g[a] \in B
    /\ \A a, b \in A : g[a] = g[b] => a = b
    /\ \A y \in B : \E a \in A : g[a] = y

LEMMA SameNumber ==
    ASSUME NEW A, NEW B, NEW g, OneToOne(g, A, B), IsFiniteSet(A)
    PROVE  Cardinality(A) = Cardinality(B)
<1>1. g \in [A -> B]
    BY DEF OneToOne
<1>2. DOMAIN g = A
    BY <1>1
<1>3. g \in Bijection(A, B)
    BY <1>1, <1>2, Zenon DEF OneToOne, Bijection, Injection, Surjection, IsInjective
<1>4. ExistsBijection(A, B)
    BY <1>3 DEF ExistsBijection
<1> QED
    BY <1>4, FS_Bijection

(***************************************************************************)
(* Where in FlattenSeq the elements of the sequences are.                  *)
(***************************************************************************)
Places(seqs, m) == UNION {{i} \X DOMAIN seqs[i] : i \in 1 .. m}

Placed(seqs, m, s, h) ==
    /\ OneToOne(h, 1 .. Len(s), Places(seqs, m))
    /\ \A j \in 1 .. Len(s) : seqs[h[j][1]][h[j][2]] = s[j]

LEMMA PlaceIs ==
    ASSUME NEW seqs, NEW m, NEW p
    PROVE  p \in Places(seqs, m) <=> \E i \in 1 .. m : \E k \in DOMAIN seqs[i] : p = <<i, k>>
<1>1. p \in Places(seqs, m) <=> \E i \in 1 .. m : p \in {i} \X DOMAIN seqs[i]
    BY DEF Places
<1>2. \A i : p \in {i} \X DOMAIN seqs[i] <=> \E k \in DOMAIN seqs[i] : p = <<i, k>>
    OBVIOUS
<1> QED
    BY <1>1, <1>2

LEMMA PlacesGrow ==
    ASSUME NEW S, NEW seqs, NEW m \in Nat, NEW s \in Seq(S), seqs[m + 1] \in Seq(S),
           NEW h, Placed(seqs, m, s, h)
    PROVE  \E g : Placed(seqs, m + 1, s \o seqs[m + 1], g)
<1> DEFINE e == seqs[m + 1]
           n == Len(s)
           l == Len(e)
           g == [j \in 1 .. n + l |-> IF j <= n THEN h[j] ELSE <<m + 1, j - n>>]
<1>1. n \in Nat /\ l \in Nat /\ DOMAIN e = 1 .. l
    OBVIOUS
<1>2. /\ Len(s \o e) = n + l /\ \A i \in 1 .. n : (s \o e)[i] = s[i]
      /\ \A i \in 1 .. l : (s \o e)[n + i] = e[i]
    BY JoinedIs
<1>3. /\ \A j \in 1 .. n : h[j] \in Places(seqs, m)
      /\ \A i, j \in 1 .. n : h[i] = h[j] => i = j
      /\ \A p \in Places(seqs, m) : \E j \in 1 .. n : h[j] = p
      /\ \A j \in 1 .. n : seqs[h[j][1]][h[j][2]] = s[j]
    BY DEF Placed, OneToOne
<1> DEFINE both == s \o e
<1> HIDE DEF both, n, l
<1>4. \A j \in 1 .. n + l : j \in 1 .. n \/ (j \notin 1 .. n /\ ~(j <= n) /\ j - n \in 1 .. l)
    BY <1>1
<1>5. \A j \in 1 .. n : j \in 1 .. n + l /\ g[j] = h[j]
    BY <1>1
<1>6. \A j \in 1 .. l : n + j \in 1 .. n + l /\ g[n + j] = <<m + 1, j>>
    BY <1>1
<1>7. \A j \in 1 .. n + l : j \in 1 .. n \/ \E x \in 1 .. l : j = n + x
    <2> SUFFICES ASSUME NEW j \in 1 .. n + l, j \notin 1 .. n PROVE \E x \in 1 .. l : j = n + x
        OBVIOUS
    <2>1. j - n \in 1 .. l /\ j = n + (j - n)
        BY <1>1
    <2> QED
        BY <2>1
<1>8. g = [j \in 1 .. n + l |-> g[j]]
    OBVIOUS
<1> HIDE DEF g
<1>9. \A p \in Places(seqs, m) : p \in Places(seqs, m + 1) /\ p[1] \in 1 .. m
    <2> SUFFICES ASSUME NEW p \in Places(seqs, m) PROVE p \in Places(seqs, m + 1) /\ p[1] \in 1 .. m
        OBVIOUS
    <2>1. PICK i \in 1 .. m : \E k \in DOMAIN seqs[i] : p = <<i, k>>
        BY PlaceIs
    <2>2. i \in 1 .. m + 1
        OBVIOUS
    <2> QED
        BY <2>1, <2>2, PlaceIs
<1>10. \A k \in 1 .. l : <<m + 1, k>> \in Places(seqs, m + 1)
    <2>1. m + 1 \in 1 .. m + 1
        OBVIOUS
    <2> QED
        BY <1>1, <2>1, PlaceIs
<1>11. \A p \in Places(seqs, m + 1) : p \in Places(seqs, m) \/ \E k \in 1 .. l : p = <<m + 1, k>>
    <2> SUFFICES ASSUME NEW p \in Places(seqs, m + 1)
                 PROVE  p \in Places(seqs, m) \/ \E k \in 1 .. l : p = <<m + 1, k>>
        OBVIOUS
    <2>1. PICK i \in 1 .. m + 1 : \E k \in DOMAIN seqs[i] : p = <<i, k>>
        BY PlaceIs
    <2>2. i \in 1 .. m \/ i = m + 1
        OBVIOUS
    <2> QED
        BY <1>1, <2>1, <2>2, PlaceIs
<1>12. m + 1 \notin 1 .. m
    OBVIOUS
<1>13. \A j \in 1 .. n + l : g[j] \in Places(seqs, m + 1)
    <2> SUFFICES ASSUME NEW j \in 1 .. n + l PROVE g[j] \in Places(seqs, m + 1)
        OBVIOUS
    <2>1. CASE j \in 1 .. n
        BY <1>3, <1>5, <1>9, <2>1
    <2>2. ASSUME NEW x \in 1 .. l, j = n + x PROVE g[j] \in Places(seqs, m + 1)
        BY <1>6, <1>10, <2>2
    <2> QED
        BY <1>7, <2>1, <2>2
<1>14. ASSUME NEW i \in 1 .. n + l, NEW j \in 1 .. n + l, g[i] = g[j] PROVE i = j
    <2>1. CASE i \in 1 .. n /\ j \in 1 .. n
        BY <1>3, <1>5, <1>14, <2>1
    <2>2. ASSUME NEW x \in 1 .. n, NEW y \in 1 .. l PROVE g[x] # g[n + y]
        <3>1. g[x][1] \in 1 .. m
            BY <1>3, <1>5, <1>9
        <3>2. g[n + y][1] = m + 1
            BY <1>6
        <3> QED
            BY <1>12, <3>1, <3>2
    <2>3. ASSUME NEW x \in 1 .. l, NEW y \in 1 .. l, g[n + x] = g[n + y] PROVE x = y
        BY <1>6, <2>3
    <2> QED
        BY <1>7, <1>14, <2>1, <2>2, <2>3
<1>15. \A p \in Places(seqs, m + 1) : \E j \in 1 .. n + l : g[j] = p
    <2> SUFFICES ASSUME NEW p \in Places(seqs, m + 1) PROVE \E j \in 1 .. n + l : g[j] = p
        OBVIOUS
    <2>1. CASE p \in Places(seqs, m)
        <3>1. PICK j \in 1 .. n : h[j] = p
            BY <1>3, <2>1
        <3> QED
            BY <1>5, <3>1
    <2>2. ASSUME NEW k \in 1 .. l, p = <<m + 1, k>> PROVE \E j \in 1 .. n + l : g[j] = p
        BY <1>6, <2>2
    <2> QED
        BY <1>11, <2>1, <2>2
<1>16. OneToOne(g, 1 .. n + l, Places(seqs, m + 1))
    BY <1>8, <1>13, <1>14, <1>15 DEF OneToOne
<1>17. ASSUME NEW j \in 1 .. n + l PROVE seqs[g[j][1]][g[j][2]] = both[j]
    <2>1. CASE j \in 1 .. n
        BY <1>2, <1>3, <1>5, <2>1 DEF both
    <2>2. ASSUME NEW x \in 1 .. l, j = n + x PROVE seqs[g[j][1]][g[j][2]] = both[j]
        BY <1>2, <1>6, <2>2 DEF both
    <2> QED
        BY <1>7, <2>1, <2>2
<1>18. Placed(seqs, m + 1, both, g)
    BY <1>2, <1>16, <1>17 DEF Placed, both
<1> QED
    BY <1>18 DEF both

LEMMA FlatPlaces ==
    ASSUME NEW S, NEW seqs \in Seq(Seq(S)), Len(seqs) # 0
    PROVE  \E h : Placed(seqs, Len(seqs), FlattenSeq(seqs), h)
<1> DEFINE n == Len(seqs)
<1>1. n \in Nat /\ n # 0 /\ \A i \in 1 .. n : seqs[i] \in Seq(S)
    OBVIOUS
<1>2. PICK f : Runs(seqs, S, f) /\ FlattenSeq(seqs) = f[n]
    BY FlatIs
<1> DEFINE T == {m \in 0 .. n : m = 0 \/ \E h : Placed(seqs, m, f[m], h)}
<1>3. 0 \in T
    BY <1>1
<1>4. \E h : Placed(seqs, 1, f[1], h)
    <2> DEFINE s == seqs[1]
               h == [j \in 1 .. Len(s) |-> <<1, j>>]
    <2>1. s \in Seq(S) /\ 1 \in 1 .. 1 /\ DOMAIN s = 1 .. Len(s)
        BY <1>1
    <2>2. \A p : p \in Places(seqs, 1) <=> \E k \in 1 .. Len(s) : p = <<1, k>>
        <3>1. \A i \in 1 .. 1 : i = 1
            OBVIOUS
        <3> QED
            BY <2>1, <3>1, PlaceIs
    <2>3. \A j \in 1 .. Len(s) : h[j] = <<1, j>> /\ h[j][1] = 1 /\ h[j][2] = j
        OBVIOUS
    <2>4. h = [j \in 1 .. Len(s) |-> h[j]]
        OBVIOUS
    <2> HIDE DEF h
    <2>5. Placed(seqs, 1, s, h)
        <3>1. \A a \in 1 .. Len(s) : h[a] \in Places(seqs, 1)
            BY <2>2, <2>3
        <3>2. \A a, b \in 1 .. Len(s) : h[a] = h[b] => a = b
            BY <2>3, Zenon
        <3>3. ASSUME NEW p \in Places(seqs, 1) PROVE \E a \in 1 .. Len(s) : h[a] = p
            <4>1. PICK k \in 1 .. Len(s) : p = <<1, k>>
                BY <2>2
            <4> QED
                BY <2>3, <4>1
        <3>4. OneToOne(h, 1 .. Len(s), Places(seqs, 1))
            BY <2>4, <3>1, <3>2, <3>3, Zenon DEF OneToOne
        <3>5. \A j \in 1 .. Len(s) : seqs[h[j][1]][h[j][2]] = s[j]
            BY <2>3
        <3> QED
            BY <3>4, <3>5, Zenon DEF Placed
    <2> QED
        BY <1>2, <2>5 DEF Runs
<1>5. ASSUME NEW k \in 1 .. n, k - 1 \in T PROVE k \in T
    <2>1. CASE k = 1
        BY <1>4, <2>1
    <2>2. CASE k # 1
        <3> DEFINE m == k - 1
        <3>1. m \in Nat /\ m \in 1 .. n /\ k = m + 1 /\ k \in 2 .. n
            BY <2>2
        <3>2. PICK h : Placed(seqs, m, f[m], h)
            BY <1>5, <3>1
        <3>3. f[m] \in Seq(S) /\ f[k] = f[m] \o seqs[k]
            BY <1>2, <3>1 DEF Runs
        <3>4. seqs[m + 1] \in Seq(S)
            BY <1>1, <3>1
        <3> HIDE DEF m
        <3>5. \E g : Placed(seqs, m + 1, f[m] \o seqs[m + 1], g)
            BY <3>1, <3>2, <3>3, <3>4, PlacesGrow
        <3>6. \E g : Placed(seqs, k, f[k], g)
            BY <3>1, <3>3, <3>5, Zenon
        <3>7. k \in 0 .. n
            OBVIOUS
        <3> QED
            BY <3>6, <3>7
    <2> QED
        BY <2>1, <2>2
<1> HIDE DEF T, n
<1>6. n \in T
    BY <1>1, <1>3, <1>5, UpTo
<1> QED
    BY <1>1, <1>2, <1>6 DEF T, n

(***************************************************************************)
(* The measurements stored, those among the steps in order of time, and    *)
(* the points of the series: one for one.                                  *)
(***************************************************************************)
Measurements == {s \in StepResult : IsReading(s)}
Stored(table) == UNION {{i} \X ReadingsIn(table[i].steps) : i \in DOMAIN table}
Points(table) == UNION {{t} \X DOMAIN t.series : t \in WebTrends(table)}

LEMMA StoredIs ==
    ASSUME NEW table, NEW p
    PROVE  p \in Stored(table) <=> \E i \in DOMAIN table : \E k \in DOMAIN table[i].steps :
               p = <<i, k>> /\ IsReading(table[i].steps[k])
<1>1. p \in Stored(table) <=> \E i \in DOMAIN table : p \in {i} \X ReadingsIn(table[i].steps)
    BY DEF Stored
<1>2. \A i : p \in {i} \X ReadingsIn(table[i].steps) <=>
          \E k \in DOMAIN table[i].steps : p = <<i, k>> /\ IsReading(table[i].steps[k])
    BY DEF ReadingsIn, IsReading
<1> QED
    BY <1>1, <1>2

LEMMA PointIs ==
    ASSUME NEW table, NEW p
    PROVE  p \in Points(table) <=> \E m \in MeasuredRegisters(table, "any") :
               \E r \in DOMAIN Trend(table, m).series : p = <<Trend(table, m), r>>
<1>1. p \in Points(table) <=> \E t \in WebTrends(table) : p \in {t} \X DOMAIN t.series
    BY DEF Points
<1>2. \A t : p \in {t} \X DOMAIN t.series <=> \E r \in DOMAIN t.series : p = <<t, r>>
    OBVIOUS
<1> QED
    BY <1>1, <1>2, TrendsAre

LEMMA MeasuredIs ==
    ASSUME NEW table, NEW m
    PROVE  m \in MeasuredRegisters(table, "any") <=>
             \E i \in DOMAIN table : \E k \in DOMAIN table[i].steps :
                IsReading(table[i].steps[k])
                    /\ m = <<table[i].steps[k].device, table[i].steps[k].register>>
<1>1. m \in MeasuredRegisters(table, "any") <=>
          \E i \in DOMAIN table : m \in {<<s.device, s.register>> : s \in {x \in ToSet(table[i].steps) : IsReading(x)}}
    BY DEF MeasuredRegisters, InStation
<1>2. \A i : m \in {<<s.device, s.register>> : s \in {x \in ToSet(table[i].steps) : IsReading(x)}} <=>
          \E k \in DOMAIN table[i].steps : IsReading(table[i].steps[k])
              /\ m = <<table[i].steps[k].device, table[i].steps[k].register>>
    BY DEF ToSet
<1> QED
    BY <1>1, <1>2

LEMMA StoredInOrder ==
    ASSUME NEW table, Recorded(table), Len(table) # 0
    PROVE  /\ AllSteps(table) \in Seq(StepResult)
           /\ \A j \in DOMAIN AllSteps(table) : \E i \in DOMAIN table : \E k \in DOMAIN table[i].steps :
                 table[i].steps[k] = AllSteps(table)[j]
           /\ \E g : OneToOne(g, At(AllSteps(table), Measurements), Stored(table))
<1> DEFINE n     == Len(table)
           seqs  == InOrder(table)
           order == Chronological(table)
           flat  == AllSteps(table)
           at    == At(flat, Measurements)
<1>1. /\ n \in Nat /\ DOMAIN table = 1 .. n /\ Len(seqs) = n /\ n # 0
      /\ seqs \in Seq(Seq(StepResult))
      /\ \A k \in 1 .. n : order[k] \in 1 .. n /\ seqs[k] = table[order[k]].steps
    BY InOrderIs
<1>2. /\ \A k \in 1 .. n : Newer(table, order[k]) = n - k
      /\ \A i \in 1 .. n : n - Newer(table, i) \in 1 .. n /\ order[n - Newer(table, i)] = i
    BY ChronologicalIs DEF Recorded
<1> HIDE DEF n, seqs, order
<1>3. flat \in Seq(StepResult)
    <2>1. PICK f : Runs(seqs, StepResult, f) /\ FlattenSeq(seqs) = f[Len(seqs)]
        BY <1>1, FlatIs
    <2>2. Len(seqs) \in 1 .. Len(seqs)
        BY <1>1
    <2> QED
        BY <2>1, <2>2 DEF Runs, AllSteps, seqs
<1>4. PICK h : Placed(seqs, n, flat, h)
    BY <1>1, FlatPlaces DEF AllSteps, seqs
<1> HIDE DEF flat
<1>5. DOMAIN flat = 1 .. Len(flat) /\ Len(flat) \in Nat
    BY <1>3
<1>6. \A k, m \in 1 .. n : order[k] = order[m] => k = m
    <2> SUFFICES ASSUME NEW k \in 1 .. n, NEW m \in 1 .. n, order[k] = order[m] PROVE k = m
        OBVIOUS
    <2>1. n - k = n - m
        BY <1>2
    <2> QED
        BY <1>1, <2>1
<1>7. ASSUME NEW j \in 1 .. Len(flat)
      PROVE  \E x \in 1 .. n : \E k \in DOMAIN seqs[x] :
                h[j] = <<x, k>> /\ seqs[x][k] = flat[j] /\ table[order[x]].steps[k] = flat[j]
    <2>1. h[j] \in Places(seqs, n) /\ seqs[h[j][1]][h[j][2]] = flat[j]
        BY <1>4 DEF Placed, OneToOne
    <2>2. PICK x \in 1 .. n : \E k \in DOMAIN seqs[x] : h[j] = <<x, k>>
        BY <2>1, PlaceIs
    <2>3. PICK k \in DOMAIN seqs[x] : h[j] = <<x, k>>
        BY <2>2
    <2>4. seqs[x][k] = flat[j]
        BY <2>1, <2>3
    <2> QED
        BY <1>1, <2>3, <2>4
<1>8. \A j \in DOMAIN flat : \E i \in DOMAIN table : \E k \in DOMAIN table[i].steps :
          table[i].steps[k] = flat[j]
    <2> SUFFICES ASSUME NEW j \in 1 .. Len(flat)
                 PROVE  \E i \in DOMAIN table : \E k \in DOMAIN table[i].steps : table[i].steps[k] = flat[j]
        BY <1>5
    <2>1. PICK x \in 1 .. n : \E k \in DOMAIN seqs[x] : table[order[x]].steps[k] = flat[j]
        BY <1>7
    <2>2. order[x] \in DOMAIN table /\ seqs[x] = table[order[x]].steps
        BY <1>1
    <2> QED
        BY <2>1, <2>2
<1> DEFINE g == [j \in at |-> <<order[h[j][1]], h[j][2]>>]
<1>9. \A j \in at : j \in 1 .. Len(flat) /\ IsReading(flat[j])
    BY <1>5 DEF At, Measurements
<1>10. \A j \in 1 .. Len(flat) : IsReading(flat[j]) => j \in at
    BY <1>3, <1>5 DEF At, Measurements
<1> HIDE DEF at
<1>11. \A j \in at : g[j] = <<order[h[j][1]], h[j][2]>>
    OBVIOUS
<1>12. g = [j \in at |-> g[j]]
    OBVIOUS
<1> HIDE DEF g
<1>13. ASSUME NEW j \in at PROVE g[j] \in Stored(table)
    <2>1. PICK x \in 1 .. n : \E k \in DOMAIN seqs[x] :
             h[j] = <<x, k>> /\ table[order[x]].steps[k] = flat[j]
        BY <1>7, <1>9
    <2>2. PICK k \in DOMAIN seqs[x] : h[j] = <<x, k>> /\ table[order[x]].steps[k] = flat[j]
        BY <2>1
    <2>3. g[j] = <<order[x], k>>
        BY <1>11, <2>2
    <2>4. order[x] \in DOMAIN table /\ k \in DOMAIN table[order[x]].steps
        BY <1>1, <2>2
    <2>5. IsReading(table[order[x]].steps[k])
        BY <1>9, <2>2
    <2> QED
        BY <2>3, <2>4, <2>5, StoredIs
<1>14. ASSUME NEW a \in at, NEW b \in at, g[a] = g[b] PROVE a = b
    <2>1. PICK x \in 1 .. n : \E k \in DOMAIN seqs[x] : h[a] = <<x, k>>
        BY <1>7, <1>9
    <2>2. PICK y \in 1 .. n : \E k \in DOMAIN seqs[y] : h[b] = <<y, k>>
        BY <1>7, <1>9
    <2>3. PICK k \in DOMAIN seqs[x] : h[a] = <<x, k>>
        BY <2>1
    <2>4. PICK l \in DOMAIN seqs[y] : h[b] = <<y, l>>
        BY <2>2
    <2>5. g[a] = <<order[x], k>> /\ g[b] = <<order[y], l>>
        BY <1>11, <2>3, <2>4
    <2>6. order[x] = order[y] /\ k = l
        <3>1. <<order[x], k>> = <<order[y], l>>
            BY <1>14, <2>5, Zenon
        <3> QED
            BY ONLY <3>1
    <2>7. h[a] = h[b]
        BY <1>6, <2>3, <2>4, <2>6
    <2> QED
        BY <1>4, <1>9, <2>7 DEF Placed, OneToOne
<1>15. ASSUME NEW p \in Stored(table) PROVE \E j \in at : g[j] = p
    <2>1. PICK i \in DOMAIN table : \E k \in DOMAIN table[i].steps :
              p = <<i, k>> /\ IsReading(table[i].steps[k])
        BY StoredIs
    <2>2. PICK k \in DOMAIN table[i].steps : p = <<i, k>> /\ IsReading(table[i].steps[k])
        BY <2>1
    <2> DEFINE x == n - Newer(table, i)
    <2>3. x \in 1 .. n /\ order[x] = i
        BY <1>1, <1>2
    <2> HIDE DEF x
    <2>4. seqs[x] = table[i].steps
        BY <1>1, <2>3
    <2>5. <<x, k>> \in Places(seqs, n)
        BY <2>2, <2>3, <2>4, PlaceIs
    <2>6. PICK j \in 1 .. Len(flat) : h[j] = <<x, k>>
        BY <1>4, <2>5 DEF Placed, OneToOne
    <2>7. flat[j] = table[i].steps[k]
        <3>1. seqs[h[j][1]][h[j][2]] = flat[j]
            BY <1>4 DEF Placed
        <3> QED
            BY <2>4, <2>6, <3>1
    <2>8. j \in at
        BY <1>10, <2>2, <2>7
    <2>9. g[j] = <<order[x], k>>
        BY <1>11, <2>6, <2>8
    <2> QED
        BY <2>2, <2>3, <2>8, <2>9
<1>16. OneToOne(g, at, Stored(table))
    BY <1>12, <1>13, <1>14, <1>15, Zenon DEF OneToOne
<1> QED
    BY <1>3, <1>8, <1>16 DEF at, flat

(***************************************************************************)
(* A step that was taken for its register and then for its device, and     *)
(* its place in the series.                                                *)
(***************************************************************************)
PointOf(flat, device, register, j) ==
    Rank(Rank(j, At(flat, Reads(register))), At(Among(flat, Reads(register)), OfDevice(device)))

TakenFor(flat, device, register) ==
    {j \in DOMAIN flat : IsReading(flat[j]) /\ flat[j].register = register /\ flat[j].device = device}

PointsOf(flat, device, register) ==
    LET taken  == TakenFor(flat, device, register)
        series == Among(Among(flat, Reads(register)), OfDevice(device))
    IN  /\ \A j \in taken : PointOf(flat, device, register, j) \in DOMAIN series
        /\ \A a, b \in taken :
              PointOf(flat, device, register, a) = PointOf(flat, device, register, b) => a = b
        /\ \A r \in DOMAIN series : \E j \in taken :
              PointOf(flat, device, register, j) = r /\ series[r] = flat[j]

LEMMA TakenTwice ==
    ASSUME NEW flat \in Seq(StepResult), NEW device, NEW register
    PROVE  PointsOf(flat, device, register)
<1> DEFINE R      == Reads(register)
           D      == OfDevice(device)
           first  == At(flat, R)
           kept   == Among(flat, R)
           second == At(kept, D)
           series == Among(kept, D)
           taken  == TakenFor(flat, device, register)
<1>1. kept \in Seq(StepResult \cap R) /\ DOMAIN kept = 1 .. Cardinality(first) /\ Picked(flat, R)
    BY AmongIs
<1>2. /\ DOMAIN series = 1 .. Cardinality(second) /\ Picked(kept, D)
      /\ \A q \in DOMAIN kept : kept[q] \in StepResult
    <2> DEFINE S == StepResult \cap R
    <2>1. kept \in Seq(S)
        BY <1>1
    <2>2. \A x \in S : x \in StepResult
        OBVIOUS
    <2> HIDE DEF kept, D, S
    <2>3. \A q \in DOMAIN kept : kept[q] \in StepResult
        BY <2>1, <2>2
    <2>4. DOMAIN series = 1 .. Cardinality(second)
        BY <2>1, AmongIs
    <2>5. Picked(kept, D)
        BY <2>1, AmongIs
    <2> QED
        BY <2>3, <2>4, <2>5
<1>3. /\ \A j \in first : Rank(j, first) \in 1 .. Cardinality(first) /\ kept[Rank(j, first)] = flat[j]
      /\ \A q \in 1 .. Cardinality(first) : \E j \in first : Rank(j, first) = q /\ kept[q] = flat[j]
      /\ \A a, b \in first : Rank(a, first) = Rank(b, first) => a = b
    BY <1>1 DEF Picked
<1>4. /\ \A q \in second : Rank(q, second) \in 1 .. Cardinality(second) /\ series[Rank(q, second)] = kept[q]
      /\ \A r \in 1 .. Cardinality(second) : \E q \in second : Rank(q, second) = r /\ series[r] = kept[q]
      /\ \A a, b \in second : Rank(a, second) = Rank(b, second) => a = b
    BY <1>2 DEF Picked
<1>5. \A j : j \in taken <=> j \in first /\ flat[j].device = device
    <2>1. \A j \in DOMAIN flat : flat[j] \in StepResult
        OBVIOUS
    <2> QED
        BY <2>1 DEF TakenFor, At, Reads
<1>6. \A q : q \in second <=> q \in 1 .. Cardinality(first) /\ kept[q].device = device
    <2> HIDE DEF kept, first
    <2> QED
        BY <1>1, <1>2 DEF At, OfDevice
<1>7. \A j : PointOf(flat, device, register, j) = Rank(Rank(j, first), second)
    BY DEF PointOf
<1> HIDE DEF R, D, first, kept, second, series, taken
<1>8. ASSUME NEW j \in taken PROVE Rank(j, first) \in second
    BY <1>3, <1>5, <1>6
<1>9. \A j \in taken : PointOf(flat, device, register, j) \in DOMAIN series
    BY <1>2, <1>4, <1>7, <1>8
<1>10. ASSUME NEW a \in taken, NEW b \in taken,
              PointOf(flat, device, register, a) = PointOf(flat, device, register, b)
       PROVE  a = b
    <2>1. Rank(a, first) = Rank(b, first)
        BY <1>4, <1>7, <1>8, <1>10
    <2> QED
        BY <1>3, <1>5, <2>1
<1>11. ASSUME NEW r \in DOMAIN series
       PROVE  \E j \in taken : PointOf(flat, device, register, j) = r /\ series[r] = flat[j]
    <2>1. PICK q \in second : Rank(q, second) = r /\ series[r] = kept[q]
        BY <1>2, <1>4
    <2>2. PICK j \in first : Rank(j, first) = q /\ kept[q] = flat[j]
        BY <1>3, <1>6
    <2>3. j \in taken
        BY <1>5, <1>6, <2>2
    <2> QED
        BY <1>7, <2>1, <2>2, <2>3
<1> QED
    BY <1>9, <1>10, <1>11, Zenon DEF PointsOf, series, kept, R, D, taken

LEMMA PointsInOrder ==
    ASSUME NEW table, Recorded(table), Len(table) # 0
    PROVE  \E g : OneToOne(g, At(AllSteps(table), Measurements), Points(table))
<1> DEFINE flat  == AllSteps(table)
           at    == At(flat, Measurements)
           m(j)  == <<flat[j].device, flat[j].register>>
           at2(j) == PointOf(flat, flat[j].device, flat[j].register, j)
           g     == [j \in at |-> <<Trend(table, m(j)), at2(j)>>]
<1>1. /\ flat \in Seq(StepResult)
      /\ \A j \in DOMAIN flat : \E i \in DOMAIN table : \E k \in DOMAIN table[i].steps :
            table[i].steps[k] = flat[j]
    BY StoredInOrder
<1>2. \A d, r : /\ Trend(table, <<d, r>>).device = d /\ Trend(table, <<d, r>>).register = r
                 /\ Trend(table, <<d, r>>).series = Among(Among(flat, Reads(r)), OfDevice(d))
    BY DEF Trend
<1> HIDE DEF flat
<1>3. \A j : j \in at <=> j \in DOMAIN flat /\ IsReading(flat[j])
    BY <1>1 DEF At, Measurements
<1>4. \A j \in at : j \in TakenFor(flat, flat[j].device, flat[j].register)
    BY <1>3 DEF TakenFor
<1>5. \A d, r : PointsOf(flat, d, r)
    BY <1>1, TakenTwice
<1>6. ASSUME NEW j \in at PROVE m(j) \in MeasuredRegisters(table, "any")
    <2>1. PICK i \in DOMAIN table : \E k \in DOMAIN table[i].steps : table[i].steps[k] = flat[j]
        BY <1>1, <1>3
    <2>2. IsReading(flat[j])
        BY <1>3
    <2> QED
        BY <2>1, <2>2, MeasuredIs
<1>7. \A j \in at : g[j] = <<Trend(table, m(j)), at2(j)>>
    OBVIOUS
<1>8. g = [j \in at |-> g[j]]
    OBVIOUS
<1> HIDE DEF g, at
<1>9. ASSUME NEW j \in at PROVE g[j] \in Points(table)
    <2> DEFINE d == flat[j].device
               r == flat[j].register
    <2>1. at2(j) \in DOMAIN Among(Among(flat, Reads(r)), OfDevice(d))
        BY <1>4, <1>5 DEF PointsOf
    <2>2. Trend(table, m(j)).series = Among(Among(flat, Reads(r)), OfDevice(d))
        BY <1>2
    <2> HIDE DEF d, r
    <2>3. at2(j) \in DOMAIN Trend(table, m(j)).series
        BY <2>1, <2>2
    <2> QED
        BY <1>6, <1>7, <2>3, PointIs
<1>10. ASSUME NEW a \in at, NEW b \in at, g[a] = g[b] PROVE a = b
    <2>1. Trend(table, m(a)) = Trend(table, m(b)) /\ at2(a) = at2(b)
        <3>1. <<Trend(table, m(a)), at2(a)>> = <<Trend(table, m(b)), at2(b)>>
            BY <1>7, <1>10, Zenon
        <3> HIDE DEF m, at2
        <3> QED
            BY ONLY <3>1
    <2>2. flat[a].device = flat[b].device /\ flat[a].register = flat[b].register
        <3>1. /\ Trend(table, m(a)).device = flat[a].device /\ Trend(table, m(b)).device = flat[b].device
              /\ Trend(table, m(a)).register = flat[a].register /\ Trend(table, m(b)).register = flat[b].register
            BY <1>2
        <3> HIDE DEF m
        <3> QED
            BY <2>1, <3>1
    <2> DEFINE d == flat[a].device
               r == flat[a].register
    <2>3. /\ a \in TakenFor(flat, d, r) /\ b \in TakenFor(flat, d, r)
          /\ PointOf(flat, d, r, a) = PointOf(flat, d, r, b)
        BY <1>4, <2>1, <2>2
    <2> HIDE DEF d, r
    <2> QED
        BY <1>5, <2>3 DEF PointsOf
<1>11. ASSUME NEW p \in Points(table) PROVE \E j \in at : g[j] = p
    <2>1. PICK n \in MeasuredRegisters(table, "any") :
              \E r \in DOMAIN Trend(table, n).series : p = <<Trend(table, n), r>>
        BY PointIs
    <2>2. PICK r \in DOMAIN Trend(table, n).series : p = <<Trend(table, n), r>>
        BY <2>1
    <2>3. \E d, q : n = <<d, q>>
        BY MeasuredIs
    <2>4. PICK d, q : n = <<d, q>>
        BY <2>3
    <2>5. Trend(table, n).series = Among(Among(flat, Reads(q)), OfDevice(d))
        BY <1>2, <2>4
    <2>6. PICK j \in TakenFor(flat, d, q) : PointOf(flat, d, q, j) = r
        BY <1>5, <2>2, <2>5 DEF PointsOf
    <2>7. j \in at /\ flat[j].device = d /\ flat[j].register = q
        BY <1>3 DEF TakenFor
    <2>8. g[j] = <<Trend(table, n), r>>
        BY <1>7, <2>4, <2>6, <2>7
    <2> QED
        BY <2>2, <2>7, <2>8
<1>12. OneToOne(g, at, Points(table))
    BY <1>8, <1>9, <1>10, <1>11, Zenon DEF OneToOne
<1> QED
    BY <1>12 DEF at, flat

LEMMA PointsAreStored ==
    ASSUME NEW table, Recorded(table)
    PROVE  Cardinality(Points(table)) = Cardinality(Stored(table))
<1>1. CASE Len(table) = 0
    <2>1. DOMAIN table = {}
        BY <1>1, InOrderIs
    <2>2. \A p : p \notin Stored(table)
        BY <2>1, StoredIs
    <2>3. \A p : p \notin Points(table)
        BY <2>1, PointIs, MeasuredIs
    <2> QED
        BY <2>2, <2>3
<1>2. CASE Len(table) # 0
    <2> DEFINE at == At(AllSteps(table), Measurements)
    <2>1. IsFiniteSet(at)
        BY <1>2, StoredInOrder, AmongIs
    <2>2. PICK g : OneToOne(g, at, Stored(table))
        BY <1>2, StoredInOrder
    <2>3. PICK h : OneToOne(h, at, Points(table))
        BY <1>2, PointsInOrder
    <2> HIDE DEF at
    <2>4. Cardinality(at) = Cardinality(Stored(table))
        BY <2>1, <2>2, SameNumber
    <2>5. Cardinality(at) = Cardinality(Points(table))
        BY <2>1, <2>3, SameNumber
    <2> QED
        BY <2>4, <2>5
<1> QED
    BY <1>1, <1>2

LEMMA SeriesOwn ==
    ASSUME NEW table, Recorded(table), NEW t \in WebTrends(table), NEW s \in ToSet(t.series)
    PROVE  s.action = "read" /\ s.measured # <<>> /\ s.device = t.device /\ s.register = t.register
<1>1. PICK m \in MeasuredRegisters(table, "any") : t = Trend(table, m)
    BY TrendsAre
<1>2. Len(table) # 0
    <2>1. DOMAIN table # {} /\ DOMAIN table = 1 .. Len(table)
        BY <1>1, MeasuredIs, InOrderIs
    <2> QED
        BY <2>1
<1> DEFINE flat == AllSteps(table)
           kept == Among(flat, Reads(m[2]))
           D    == OfDevice(m[1])
<1>3. flat \in Seq(StepResult)
    BY <1>2, StoredInOrder
<1>4. kept \in Seq(StepResult \cap Reads(m[2]))
    BY <1>3, AmongIs
<1>5. t.series = Among(kept, D) /\ t.device = m[1] /\ t.register = m[2]
    BY <1>1 DEF Trend
<1> DEFINE S == (StepResult \cap Reads(m[2])) \cap D
<1>6. t.series \in Seq(S)
    <2> HIDE DEF kept, D
    <2> QED
        BY <1>4, <1>5, AmongIs
<1>7. s \in S
    <2> HIDE DEF S
    <2> QED
        BY <1>6 DEF ToSet
<1> QED
    BY <1>5, <1>7 DEF Reads, OfDevice, IsReading

(***************************************************************************)
(* For any runs and any steps in them: a series of the trends page holds   *)
(* reads of its register of its device and nothing else, and all series    *)
(* together every measurement stored, once (app.py:369-379,                *)
(* store.py:165-206).                                                      *)
(***************************************************************************)
THEOREM TrendsAreComplete == Spec => []TrendsAreReadings
<1>1. RInv => TrendsAreReadings
    <2> SUFFICES ASSUME RInv PROVE TrendsAreReadings
        OBVIOUS
    <2>1. Recorded(rows)
        BY RowsRecorded
    <2>2. Cardinality(Points(rows)) = Cardinality(Stored(rows))
        BY <2>1, PointsAreStored
    <2>3. \A t \in WebTrends(rows) : \A s \in ToSet(t.series) :
              s.action = "read" /\ s.measured # <<>> /\ s.device = t.device /\ s.register = t.register
        BY <2>1, SeriesOwn
    <2> QED
        BY <2>2, <2>3, Zenon DEF TrendsAreReadings, Points, Stored
<1> QED
    BY <1>1, InitRest, StepRest, PTL DEF Spec
==============================================================================
