------------------------------ MODULE RunStore ------------------------------
(***************************************************************************)
(* The queries of RunStore over its committed rows, and what the command   *)
(* line and the web pages make of them.                                    *)
(*                                                                         *)
(* `rows` is the test_run table in id order, each row with its step        *)
(* results.  `started` is started_at; two rows never have the same.  A     *)
(* step result keeps what the queries look at; `measured` is <<>> for NULL *)
(* and <<value>> otherwise.                                                *)
(***************************************************************************)
EXTENDS Integers, Sequences, FiniteSets, SequencesExt

CONSTANTS
    Plan,        \* plan names, which are also the --station names
    StepResult   \* the step results a run can have

Row == [plan : Plan, started : Nat, steps : Seq(StepResult)]

------------------------------------------------------------------------------
\* Rows that list_runs puts before row i.
NewerThan(rows, i) == {k \in DOMAIN rows : rows[k].started > rows[i].started}

\* Mutant: in the order of ids, which is the order of the commits.
RecentById(rows, limit) == {i \in DOMAIN rows : Len(rows) - i < limit}

\* The ids that list_runs(limit) returns.
Recent(rows, limit) == {i \in DOMAIN rows : Cardinality(NewerThan(rows, i)) < limit}

\* The first run of the plan among them, or 0.
LatestOf(rows, limit, plan) ==
    LET mine == {i \in Recent(rows, limit) : rows[i].plan = plan}
    IN  IF mine = {} THEN 0
        ELSE CHOOSE i \in mine : \A k \in mine : rows[k].started <= rows[i].started

Failed(row) == {row.steps[k].name : k \in {x \in DOMAIN row.steps : ~row.steps[x].passed}}

\* What the history shows of a run, and what its report said when it ended.
ShownAsPass(row) == Failed(row) = {}
AllPassed(row)   == Failed(row) = {} /\ row.steps # <<>>
------------------------------------------------------------------------------
IsReading(s) == s.action = "read" /\ s.measured # <<>>

Rank(k, chosen) == Cardinality({i \in chosen : i <= k})

\* The elements of s that are in the set, in their order.
Among(s, set) ==
    LET at == {k \in DOMAIN s : s[k] \in set}
    IN  [r \in 1 .. Cardinality(at) |-> s[CHOOSE k \in at : Rank(k, at) = r]]

\* register_history and measured_registers; `station` and `device` may be "any".
InStation(row, station) == station = "any" \/ row.plan = station

\* Mutant: the newest first, as list_runs has them.
ReverseChronological(rows) ==
    [k \in DOMAIN rows |-> CHOOSE i \in DOMAIN rows : Cardinality(NewerThan(rows, i)) = k - 1]

\* The ids in the order of started_at.
Chronological(rows) ==
    [k \in DOMAIN rows |-> CHOOSE i \in DOMAIN rows : Cardinality(NewerThan(rows, i)) = Len(rows) - k]

RegisterHistory(rows, register, station, device) ==
    LET stepsOf(i) == IF InStation(rows[i], station) THEN rows[i].steps ELSE <<>>
        wanted     == {s \in StepResult : IsReading(s) /\ s.register = register /\ device \in {"any", s.device}}
        order      == Chronological(rows)
    IN  Among(FlattenSeq([k \in DOMAIN rows |-> stepsOf(order[k])]), wanted)

MeasuredRegisters(rows, station) ==
    UNION {{<<s.device, s.register>> : s \in {x \in ToSet(rows[i].steps) : IsReading(x)}} :
              i \in {k \in DOMAIN rows : InStation(rows[k], station)}}

\* Mutant: not filtered by device.
WebTrendsMixed(rows) ==
    {[device |-> t[1], register |-> t[2], series |-> RegisterHistory(rows, t[2], "any", "any")] :
        t \in MeasuredRegisters(rows, "any")}

\* The trends page: one series per register of a device.
WebTrends(rows) ==
    {[device |-> t[1], register |-> t[2],
      series |-> Among(RegisterHistory(rows, t[2], "any", "any"), {s \in StepResult : s.device = t[1]})] :
        t \in MeasuredRegisters(rows, "any")}

\* mfg-ctl trends: what it prints of the registers it finds, or of the one asked for.
CliTargets(rows, register, station, device) ==
    LET found == {t \in MeasuredRegisters(rows, station) : register \in {"any", t[2]}}
    IN  IF found = {} /\ register # "any" THEN {<<device, register>>} ELSE found

CliTrends(rows, register, station, device) ==
    {t \in {[device |-> t[1], register |-> t[2],
             series |-> RegisterHistory(rows, t[2], station, device)] :
                t \in CliTargets(rows, register, station, device)} : t.series # <<>>}
==============================================================================
