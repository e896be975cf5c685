------------------------------- MODULE History -------------------------------
(***************************************************************************)
(* The run history that the commands `run`, `run --only-failed` and        *)
(* `replay` and the web server share: each job is one of them in a process *)
(* of its own, and all save into one SQLite file.  What a run does to the  *)
(* devices is in Station; here it ends in any outcomes, or in an exception. *)
(*                                                                         *)
(* started_at is filled in when the row is flushed; then the INSERT waits  *)
(* for the write lock of the file, and what was inserted is seen by others *)
(* when it is committed.  A wait of five seconds ends in an exception.     *)
(***************************************************************************)
EXTENDS RunStore

CONSTANTS
    Jobs,        \* how many commands and web runs, numbered as they start
    StepsOf,     \* per plan: the editions of its file, each a sequence of steps
    Asked,       \* what is asked of jobs: pairs of a kind and a plan
    Outcomes(_), \* the step results a step can end in
    ListLimit    \* the runs a command looks through (50)

Kind == {"run", "only-failed", "replay"}
Job  == 1 .. Jobs

IsSequence(s) == s \in Seq(ToSet(s))

ASSUME HistoryAssumption ==
    /\ Jobs \in Nat /\ ListLimit \in Nat /\ Plan # {} /\ Asked \subseteq Kind \X Plan
    /\ \A p \in Plan : /\ IsSequence(StepsOf[p]) /\ StepsOf[p] # <<>>
                      /\ \A e \in DOMAIN StepsOf[p] : IsSequence(StepsOf[p][e])
    /\ \A p \in Plan : \A e \in DOMAIN StepsOf[p] : \A k \in DOMAIN StepsOf[p][e] :
          /\ Outcomes(StepsOf[p][e][k]) \subseteq StepResult
          /\ \A s \in Outcomes(StepsOf[p][e][k]) : s.name = StepsOf[p][e][k].name

VARIABLES
    rows,        \* the committed runs, in id order
    clock,       \* the time, as often as it is looked at
    writer,      \* the jobs that hold the write lock: one at most
    edition,     \* per plan: the edition of its file
    job          \* per job: how far it is, what it was asked, what it read and what it did

vars == <<rows, clock, writer, edition, job>>

Ended == {"saved", "failed", "refused", "nothing"}

NoJob == [pc |-> "idle", kind |-> "run", plan |-> CHOOSE p \in Plan : TRUE, edition |-> 1,
          prior |-> 0, seen |-> 0, all |-> TRUE, names |-> {}, report |-> <<>>, started |-> 0]

Init ==
    /\ rows = <<>>
    /\ clock = 0
    /\ writer = {}
    /\ edition = [p \in Plan |-> 1]
    /\ job = [j \in Job |-> NoJob]

Steps(j) == StepsOf[job[j].plan][job[j].edition]
Goes(j, pc) == job' = [job EXCEPT ![j].pc = pc]
------------------------------------------------------------------------------
\* The command loads its plan file; a web run does so on its thread.
Start(j, kind, p) ==
    /\ job[j].pc = "idle" /\ (j > 1 => job[j - 1].pc # "idle")
    /\ job' = [job EXCEPT ![j] = [NoJob EXCEPT
                 !.pc = IF kind = "run" THEN "running" ELSE "listing",
                 !.kind = kind, !.plan = p, !.edition = edition[p]]]
    /\ UNCHANGED <<rows, clock, writer, edition>>

NoNames(names) == names = {}

\* The most recent runs are listed and those of other plans passed over; the steps that
\* failed in the latest are the ones that will be run again.
ListWith(j, nothingToDo(_), failed(_)) ==
    LET latest == LatestOf(rows, ListLimit, job[j].plan)
        again  == job[j].kind = "only-failed"
        names  == IF again /\ latest # 0 THEN failed(rows[latest]) ELSE {}
    IN  /\ job[j].pc = "listing"
        /\ job' = [job EXCEPT ![j] =
                     IF again /\ latest = 0
                     THEN [NoJob EXCEPT !.pc = "refused", !.kind = job[j].kind, !.plan = job[j].plan, !.seen = Len(rows)]
                     ELSE IF again /\ nothingToDo(names) THEN [NoJob EXCEPT !.pc = "nothing"]
                     ELSE [@ EXCEPT !.pc = "running", !.prior = latest, !.seen = Len(rows),
                                    !.all = ~again, !.names = names]]
        /\ UNCHANGED <<rows, clock, writer, edition>>

\* Mutant: the first failed step only.
ListFirst(j) == ListWith(j, NoNames, LAMBDA row : IF Failed(row) = {} THEN {} ELSE {CHOOSE n \in Failed(row) : TRUE})
\* Mutant: a run without failed steps is run again too.
ListAlways(j) == ListWith(j, LAMBDA names : FALSE, Failed)

List(j) == ListWith(j, NoNames, Failed)

\* The steps the sequencer runs, by their places in the plan.
Selected(j) == {k \in DOMAIN Steps(j) : job[j].all \/ Steps(j)[k].name \in job[j].names}

\* What can come of it: a result of each of these steps, in their order.
Reports(steps, chosen) ==
    {r \in [1 .. Cardinality(chosen) -> UNION {Outcomes(steps[k]) : k \in chosen}] :
        \A k \in chosen : r[Rank(k, chosen)] \in Outcomes(steps[k])}

\* Mutant: started_at is not filled in.
ExecuteUnstamped(j) ==
    /\ job[j].pc = "running"
    /\ \E report \in Reports(Steps(j), Selected(j)) :
          job' = [job EXCEPT ![j].report = report, ![j].pc = "flushing"]
    /\ UNCHANGED <<rows, clock, writer, edition>>

\* The plan is run, and save_report flushes its row, which stamps started_at.
Execute(j) ==
    /\ job[j].pc = "running"
    /\ clock' = clock + 1
    /\ \E report \in Reports(Steps(j), Selected(j)) :
          job' = [job EXCEPT ![j].report = report, ![j].started = clock + 1, ![j].pc = "flushing"]
    /\ UNCHANGED <<rows, writer, edition>>
------------------------------------------------------------------------------
NewRow(j) == [plan |-> job[j].plan, started |-> job[j].started, steps |-> job[j].report,
              job |-> j, base |-> IF job[j].all THEN 0 ELSE job[j].prior]

\* Mutant: rows that others see before the commit.
InsertCommits(j) ==
    /\ job[j].pc = "flushing" /\ writer = {}
    /\ writer' = {j}
    /\ rows' = Append(rows, NewRow(j))
    /\ Goes(j, "inserted")
    /\ UNCHANGED <<clock, edition>>

Insert(j) ==
    /\ job[j].pc = "flushing" /\ writer = {}
    /\ writer' = {j}
    /\ Goes(j, "inserted")
    /\ UNCHANGED <<rows, clock, edition>>

\* Mutant: the lock is kept.
FailKeepsLock(j) ==
    /\ job[j].pc \in {"listing", "running", "flushing", "inserted"}
    /\ job' = [job EXCEPT ![j] = [NoJob EXCEPT !.pc = "failed"]]
    /\ UNCHANGED <<rows, clock, writer, edition>>

Commit(j) ==
    /\ job[j].pc = "inserted"
    /\ rows' = Append(rows, NewRow(j))
    /\ writer' = {}
    /\ Goes(j, "saved")
    /\ UNCHANGED <<clock, edition>>

\* A step of it raises, the lock is not to be had, or the process is killed.
Fail(j) ==
    /\ job[j].pc \in {"listing", "running", "flushing", "inserted"}
    /\ writer' = writer \ {j}
    /\ job' = [job EXCEPT ![j] = [NoJob EXCEPT !.pc = "failed"]]
    /\ UNCHANGED <<rows, clock, edition>>

\* Somebody edits the plan file.
Edit(p) ==
    /\ edition[p] < Len(StepsOf[p])
    /\ edition' = [edition EXCEPT ![p] = @ + 1]
    /\ UNCHANGED <<rows, clock, writer, job>>
------------------------------------------------------------------------------
JobStep(j) == List(j) \/ Execute(j) \/ Insert(j) \/ Commit(j)

Next ==
    \/ \E j \in Job : JobStep(j) \/ Fail(j) \/ \E a \in Asked : Start(j, a[1], a[2])
    \/ \E p \in Plan : Edit(p)

(***************************************************************************)
(* Processes run; nobody has to start a job, to fail or to edit a plan.    *)
(***************************************************************************)
Spec == Init /\ [][Next]_vars /\ \A j \in Job : WF_vars(JobStep(j))
------------------------------------------------------------------------------
PcOf == Ended \cup {"idle", "listing", "running", "flushing", "inserted"}

\* Every variable has its type.
TypeOK ==
    /\ \A i \in DOMAIN rows :
          /\ rows[i].plan \in Plan /\ rows[i].started \in 1 .. clock
          /\ rows[i].steps \in Seq(StepResult)
          /\ rows[i].job \in Job /\ rows[i].base \in 0 .. Len(rows)
    /\ clock \in Nat
    /\ writer \subseteq Job
    /\ \A p \in Plan : edition[p] \in DOMAIN StepsOf[p]
    /\ \A j \in Job : /\ job[j].pc \in PcOf /\ job[j].kind \in Kind /\ job[j].plan \in Plan
                      /\ job[j].prior \in 0 .. Len(rows) /\ job[j].seen \in 0 .. Len(rows)
                      /\ job[j].report \in Seq(StepResult)

(***************************************************************************)
(* A run is stored once and whole if it was saved, and not at all if it    *)
(* failed, wherever its process stopped and whoever else was saving        *)
(* (store.py:107-147).                                                     *)
(***************************************************************************)
RowsBy(j) == {i \in DOMAIN rows : rows[i].job = j}

StoredOnce ==
    \A j \in Job : IF job[j].pc = "saved"
                   THEN \E i \in DOMAIN rows : RowsBy(j) = {i} /\ rows[i] = NewRow(j)
                   ELSE RowsBy(j) = {}

(***************************************************************************)
(* Re-running failed steps loses none of them.  While the runs of a plan   *)
(* do not get between a --only-failed run and the run it took the failures *)
(* from, and the plan is not edited, a step that failed when it last ran   *)
(* failed in the plan's newest run, which is where the next --only-failed  *)
(* looks (cli.py:86-96, sequencer.py:168-177).                             *)
(***************************************************************************)
RowsOf(p)   == {i \in DOMAIN rows : rows[i].plan = p}
Newest(set) == CHOOSE i \in set : \A k \in set : rows[k].started <= rows[i].started
Named(i, n) == \E k \in DOMAIN rows[i].steps : rows[i].steps[k].name = n

Undisturbed(p) ==
    \A i \in RowsOf(p) : rows[i].base # 0 =>
        \A k \in RowsOf(p) : ~(/\ rows[rows[i].base].started < rows[k].started
                               /\ rows[k].started < rows[i].started)

FailuresNotForgotten ==
    \A p \in Plan : RowsOf(p) # {} /\ Undisturbed(p) /\ edition[p] = 1 =>
        \A n \in {s.name : s \in StepResult} :
            LET ran == {i \in RowsOf(p) : Named(i, n)}
            IN  ran # {} /\ n \in Failed(rows[Newest(ran)]) => n \in Failed(rows[Newest(RowsOf(p))])

(***************************************************************************)
(* The history shows a run as passed that its report did not, because it   *)
(* ran no step, only if it was to repeat the failed steps of a run of      *)
(* another edition of the plan, in which they had other names              *)
(* (cli.py:86-102, 141, 172; sequencer.py:54-57; web/app.py:233).          *)
(***************************************************************************)
HistoryAgreesWithReports ==
    \A i \in DOMAIN rows :
        ShownAsPass(rows[i]) # AllPassed(rows[i]) /\ Steps(rows[i].job) # <<>> =>
            /\ rows[i].base # 0 /\ ~ShownAsPass(rows[rows[i].base])
            /\ job[rows[rows[i].base].job].edition # job[rows[i].job].edition

(***************************************************************************)
(* The run that replay compares with, or --only-failed takes the failures  *)
(* from, is the one before its own in the list of the plan's runs, but for *)
(* runs that were saved after it looked, and its own comes after it.  It   *)
(* finds none, and --only-failed is refused, only if each run of the plan  *)
(* it could see had a full list of newer runs before it, of other plans    *)
(* (cli.py:86-91, 187-201, store.py:158-163).                              *)
(***************************************************************************)
FoundNone(j) ==
    job[j].kind # "run" /\ job[j].pc # "listing" /\ job[j].prior = 0 =>
        \A k \in RowsOf(job[j].plan) : k <= job[j].seen =>
            Cardinality({m \in 1 .. job[j].seen : rows[m].started > rows[k].started}) >= ListLimit

PriorIsNewestSeen ==
    /\ \A i \in DOMAIN rows :
          LET p == job[rows[i].job].prior
          IN  p # 0 => /\ rows[p].started < rows[i].started
                       /\ \A k \in RowsOf(rows[i].plan) :
                            rows[p].started < rows[k].started /\ rows[k].started < rows[i].started
                                => k > job[rows[i].job].seen
    /\ \A j \in Job : FoundNone(j)

(***************************************************************************)
(* The trends page accounts for every measurement once: a series holds the *)
(* reads of one register of one device, and all series together as many as *)
(* the runs measured; what steps wrote, and reads that failed, are in none *)
(* (app.py:369-379, store.py:165-206).                                     *)
(***************************************************************************)
ReadingsIn(steps) == {k \in DOMAIN steps : steps[k].action = "read" /\ steps[k].measured # <<>>}

TrendsAreReadings ==
    /\ \A t \in WebTrends(rows) : \A s \in ToSet(t.series) :
          s.action = "read" /\ s.measured # <<>> /\ s.device = t.device /\ s.register = t.register
    /\ Cardinality(UNION {{t} \X DOMAIN t.series : t \in WebTrends(rows)})
         = Cardinality(UNION {{i} \X ReadingsIn(rows[i].steps) : i \in DOMAIN rows})

(***************************************************************************)
(* A committed run is the last point of the series it adds to, unless a    *)
(* run that was flushed after it was committed before it: what is known of *)
(* a register is extended and never rewritten (store.py:165-190).          *)
(***************************************************************************)
SeriesGrow ==
    [][(\A i \in DOMAIN rows : rows[i].started < Last(rows').started) =>
         \A t \in WebTrends(rows) : \E u \in WebTrends(rows') :
             u.device = t.device /\ u.register = t.register /\ IsPrefix(t.series, u.series)]_rows

(***************************************************************************)
(* What `mfg-ctl trends` prints for a register of a device was measured at *)
(* that device (cli.py:283-305).  It is not: see the run trends_mixed.     *)
(***************************************************************************)
CliTrendsOwnDevice ==
    \A t \in CliTrends(rows, "any", "any", "any") : \A s \in ToSet(t.series) : s.device = t.device

\* Every job comes to an end: the lock is never left to a job that will not give it back.
JobsEnd == \A j \in Job : job[j].pc # "idle" ~> job[j].pc \in Ended
==============================================================================
