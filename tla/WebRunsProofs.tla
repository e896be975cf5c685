---------------------------- MODULE WebRunsProofs ----------------------------
(***************************************************************************)
(* WebRuns for any number of runs, event streams, steps, request threads,  *)
(* restarts and rows saved by other processes: first what is stored, then  *)
(* that every event reaches one browser at most and in order, and that a   *)
(* browser alone on a run misses none.                                     *)
(***************************************************************************)
EXTENDS WebRuns, SequenceTheorems, TLAPS

USE StepsAssumption, ThreadsAssumption, BoundsAssumption

Row == [run : Run \cup {"cli"}, verdicts : Seq(BOOLEAN)]

LEMMA NoEventType == NoEvent \in Event /\ Error \in Event
BY DEF NoEvent, Error, Event, Terminal

LEMMA StepEventType ==
    ASSUME NEW v \in Seq(BOOLEAN), NEW k \in 1 .. Len(v)
    PROVE  StepEvent(v, k) \in Event
BY ElementOfSeq DEF StepEvent, Event

LEMMA DoneType ==
    ASSUME NEW v \in Seq(BOOLEAN), NEW id \in Nat
    PROVE  Done(v, id) \in Event
<1>1. Len(v) \in Nat
    BY LenProperties
<1>2. (\A k \in DOMAIN v : v[k]) \in BOOLEAN
    OBVIOUS
<1> QED
    BY <1>1, <1>2 DEF Done, Event, Terminal

LEMMA InitTyped == Init => TypeOK
<1> SUFFICES ASSUME Init PROVE TypeOK
    OBVIOUS
<1>1. /\ report \in [Run -> Seq(BOOLEAN)] /\ queue \in [Run -> Seq(Event)]
      /\ rows \in Seq(Row) /\ seen \in [Stream -> Seq(Event)]
    BY EmptySeq DEF Init
<1>2. stream \in [Stream -> [pc : {"unused", "queued"} \cup Holding \cup Over, event : Event]]
    BY NoEventType DEF Init
<1>3. \A r \in Run : published[r] <= Len(report[r]) /\ Len(report[r]) <= Steps
    BY EmptySeq DEF Init
<1>4. runId \in [Run -> 0 .. Len(rows)]
    BY <1>1, LenProperties DEF Init
<1> QED
    BY <1>1, <1>2, <1>3, <1>4 DEF Init, TypeOK, Row

(***************************************************************************)
(* A row added to the table leaves the others where they are.              *)
(***************************************************************************)
LEMMA RowAdded ==
    ASSUME TypeOK, NEW row \in Row, rows' = Append(rows, row)
    PROVE  /\ rows' \in Seq(Row) /\ Len(rows) \in Nat /\ Len(rows') = Len(rows) + 1
           /\ DOMAIN rows' = 1 .. Len(rows) + 1 /\ DOMAIN rows = 1 .. Len(rows)
           /\ \A i \in DOMAIN rows : rows'[i] = rows[i]
           /\ rows'[Len(rows) + 1] = row
<1>1. rows \in Seq(Row)
    BY DEF TypeOK, Row
<1> QED
    BY <1>1, AppendProperties, LenProperties

LEMMA StepTyped == TypeOK /\ [Next]_vars => TypeOK'
<1> SUFFICES ASSUME TypeOK, [Next]_vars PROVE TypeOK'
    OBVIOUS
<1> USE DEF threadVars, brokerVars, streamVars
<1>0. Len(rows) \in Nat /\ \A r \in Run : Len(report[r]) \in Nat
    BY LenProperties DEF TypeOK
<1>1. ASSUME NEW r \in Run, Post(r) PROVE TypeOK'
    BY <1>1 DEF Post, TypeOK
<1>2. ASSUME NEW r \in Run, RunStep(r) PROVE TypeOK'
    <2>1. PICK passed \in BOOLEAN : report' = [report EXCEPT ![r] = Append(@, passed)]
        BY <1>2 DEF RunStep
    <2>2. /\ Append(report[r], passed) \in Seq(BOOLEAN)
          /\ Len(Append(report[r], passed)) = Len(report[r]) + 1
        BY AppendProperties DEF TypeOK
    <2>3. published[r] <= Len(report[r]) /\ Len(report[r]) < Steps /\ published[r] \in Nat
        BY <1>2 DEF RunStep, TypeOK
    <2>4. report'[r] = Append(report[r], passed) /\ \A o \in Run \ {r} : report'[o] = report[o]
        BY <2>1 DEF TypeOK
    <2>5. published[r] <= Len(report'[r]) /\ Len(report'[r]) <= Steps
        BY <1>0, <2>2, <2>3, <2>4
    <2>6. \A o \in Run : published[o] <= Len(report'[o]) /\ Len(report'[o]) <= Steps
        BY <2>4, <2>5 DEF TypeOK
    <2>7. report' \in [Run -> Seq(BOOLEAN)]
        BY <2>1, <2>2 DEF TypeOK
    <2> QED
        BY <1>2, <2>6, <2>7 DEF RunStep, TypeOK
<1>3. ASSUME NEW r \in Run, RunReturns(r) \/ RunRaises(r) \/ SaveRaises(r) PROVE TypeOK'
    <2>1. worker' = [worker EXCEPT ![r] = "publishing"] \/ worker' = [worker EXCEPT ![r] = "failing"]
        BY <1>3 DEF RunReturns, RunRaises, SaveRaises
    <2>2. UNCHANGED <<report, published, runId, brokerVars, rows, streamVars, restarts>>
        BY <1>3 DEF RunReturns, RunRaises, SaveRaises
    <2> QED
        BY <2>1, <2>2 DEF TypeOK
<1>4. ASSUME NEW r \in Run, PublishStep(r) PROVE TypeOK'
    <2>1. published[r] + 1 \in 1 .. Len(report[r])
        BY <1>0, <1>4 DEF PublishStep, TypeOK
    <2>2. Append(queue[r], StepEvent(report[r], published[r] + 1)) \in Seq(Event)
        BY <2>1, StepEventType, AppendProperties DEF TypeOK
    <2>3. published' \in [Run -> Nat] /\ \A o \in Run : published'[o] <= Len(report[o])
        BY <1>0, <1>4 DEF PublishStep, TypeOK
    <2> QED
        BY <1>4, <2>2, <2>3 DEF PublishStep, TypeOK
<1>5. ASSUME NEW r \in Run, Save(r) PROVE TypeOK'
    <2>1. [run |-> r, verdicts |-> report[r]] \in Row
        BY DEF TypeOK, Row
    <2>2. rows' \in Seq(Row) /\ Len(rows') = Len(rows) + 1
        BY <1>5, <2>1, RowAdded DEF Save
    <2>3. runId' \in [Run -> 0 .. Len(rows')]
        BY <1>0, <1>5, <2>2 DEF Save, TypeOK
    <2> QED
        BY <1>5, <2>2, <2>3 DEF Save, TypeOK, Row
<1>6. ASSUME NEW r \in Run, NEW event \in Event, Publish(r, event) PROVE TypeOK'
    <2>1. Append(queue[r], event) \in Seq(Event)
        BY AppendProperties DEF TypeOK
    <2> QED
        BY <1>6, <2>1 DEF Publish, TypeOK
<1>7. ASSUME NEW r \in Run, PublishDone(r) \/ PublishError(r) PROVE TypeOK'
    <2>1. runId[r] \in Nat
        BY <1>0 DEF TypeOK
    <2>2. Done(report[r], runId[r]) \in Event
        BY <2>1, DoneType DEF TypeOK
    <2>3. \E event \in Event : Publish(r, event)
        BY <1>7, <2>2, NoEventType DEF PublishDone, PublishError
    <2> QED
        BY <1>6, <2>3
<1>8. ASSUME NEW r \in Run, SetFinished(r) PROVE TypeOK'
    BY <1>8 DEF SetFinished, TypeOK
<1>9. ASSUME NEW r \in Run, ExecuteRun(r) PROVE TypeOK'
    BY <1>2, <1>3, <1>4, <1>5, <1>7, <1>8, <1>9 DEF ExecuteRun
<1>10. ASSUME NEW s \in Stream, NEW pc \in {"unused", "queued"} \cup Holding \cup Over,
              NEW event \in Event, Move(s, pc, event),
              queue' \in [Run -> Seq(Event)], seen' \in [Stream -> Seq(Event)],
              reading' \in [Stream -> BOOLEAN]
       PROVE  TypeOK'
    BY <1>10 DEF Move, TypeOK
<1>11. ASSUME NEW s \in Stream, Get(s) PROVE TypeOK'
    <2> DEFINE q == queue[target[s]]
    <2>1. q \in Seq(Event) /\ q # <<>>
        BY <1>11 DEF Get, TypeOK
    <2>2. Head(q) \in Event /\ Tail(q) \in Seq(Event)
        BY <2>1, HeadTailProperties
    <2>3. queue' \in [Run -> Seq(Event)]
        BY <1>11, <2>2 DEF Get, TypeOK
    <2> QED
        BY <1>10, <1>11, <2>2, <2>3 DEF Get, TypeOK, Holding
<1>12. ASSUME NEW s \in Stream, Send(s) PROVE TypeOK'
    <2>1. Append(seen[s], stream[s].event) \in Seq(Event)
        BY AppendProperties DEF TypeOK
    <2>2. seen' \in [Stream -> Seq(Event)]
        BY <1>12, <2>1 DEF Send, TypeOK
    <2> QED
        BY <1>10, <1>12, <2>2, NoEventType DEF Send, TypeOK, Holding, Over
<1>13. ASSUME NEW s \in Stream,
              OpenStream(s) \/ Admit(s) \/ OpenFails(s) \/ KeepAlive(s) \/ EndOrContinue(s) \/ WriteFails(s)
       PROVE  TypeOK'
    <2>1. /\ queue' \in [Run -> Seq(Event)] /\ seen' \in [Stream -> Seq(Event)]
          /\ reading' \in [Stream -> BOOLEAN]
        BY <1>13 DEF OpenStream, Admit, OpenFails, KeepAlive, EndOrContinue, WriteFails, TypeOK
    <2>2. \E pc \in {"unused", "queued"} \cup Holding \cup Over : Move(s, pc, NoEvent)
        BY <1>13 DEF OpenStream, Admit, OpenFails, KeepAlive, EndOrContinue, WriteFails, Holding, Over
    <2> QED
        BY <1>10, <2>1, <2>2, NoEventType
<1>14. ASSUME NEW s \in Stream, Leave(s) PROVE TypeOK'
    BY <1>14 DEF Leave, TypeOK
<1>15. ASSUME Restart PROVE TypeOK'
    <2>1. queue' \in [Run -> Seq(Event)]
        BY <1>15, EmptySeq DEF Restart
    <2>2. stream' \in [Stream -> [pc : {"unused", "queued"} \cup Holding \cup Over, event : Event]]
        BY <1>15, NoEventType DEF Restart, TypeOK, Over
    <2>3. worker' \in [Run -> {"none", "killed"}]
        BY <1>15 DEF Restart
    <2> QED
        BY <1>15, <2>1, <2>2, <2>3 DEF Restart, TypeOK
<1>16. ASSUME CliSaves PROVE TypeOK'
    <2>1. [run |-> "cli", verdicts |-> <<>>] \in Row
        BY EmptySeq DEF Row
    <2>2. rows' \in Seq(Row) /\ Len(rows') = Len(rows) + 1
        BY <1>16, <2>1, RowAdded DEF CliSaves
    <2>3. runId \in [Run -> 0 .. Len(rows')]
        BY <1>0, <2>2 DEF TypeOK
    <2> QED
        BY <1>16, <2>2, <2>3 DEF CliSaves, TypeOK, Row
<1>17. CASE UNCHANGED vars
    BY <1>17 DEF vars, TypeOK
<1> QED
    BY <1>1, <1>9, <1>11, <1>12, <1>13, <1>14, <1>15, <1>16, <1>17 DEF Next, StreamRun

(***************************************************************************)
(* Type correctness; with it, no more steps are published than were run    *)
(* and no run holds the id of a row that is not there.                     *)
(***************************************************************************)
THEOREM WebTyping == Spec => []TypeOK
BY InitTyped, StepTyped, PTL DEF Spec
------------------------------------------------------------------------------
(***************************************************************************)
(* Why an announcement can be trusted.  Wherever a terminal event of a run *)
(* is (in the queue, held by a stream, seen), it agrees with the table,    *)
(* and the run's thread is past every step that could still save.  Before  *)
(* the commit the run has no row; between the commit and the announcement  *)
(* it has the one whose id the thread holds.                               *)
(***************************************************************************)
Truthful(e, r) ==
    /\ e.kind \in Terminal => worker[r] \in {"finishing", "over", "killed"}
    /\ e.kind = "done" => RowsOf(r) = {e.id} /\ e = Done(rows[e.id].verdicts, e.id)
    /\ e.kind = "error" => RowsOf(r) = {}

QueueTruthful(r) == \A i \in DOMAIN queue[r] : Truthful(queue[r][i], r)

StreamTruthful(s) ==
    /\ Truthful(stream[s].event, target[s])
    /\ \A i \in DOMAIN seen[s] : Truthful(seen[s][i], target[s])

RowKnown(r) ==
    /\ worker[r] \in {"none", "executing", "publishing", "failing"} => RowsOf(r) = {}
    /\ worker[r] = "announcing" =>
          RowsOf(r) = {runId[r]} /\ rows[runId[r]].verdicts = report[r]

RunInv(r) == QueueTruthful(r) /\ RowKnown(r)

IInv == (\A r \in Run : RunInv(r)) /\ (\A s \in Stream : StreamTruthful(s))

LEMMA NoEventTruthful == ASSUME NEW r PROVE Truthful(NoEvent, r)
BY DEF Truthful, NoEvent, Terminal

LEMMA StepEventTruthful ==
    ASSUME NEW r, NEW v, NEW k PROVE Truthful(StepEvent(v, k), r)
BY DEF Truthful, StepEvent, Terminal

LEMMA InitStored == Init => IInv
<1> SUFFICES ASSUME Init PROVE IInv
    OBVIOUS
<1>1. \A r \in Run : RunInv(r)
    BY DEF Init, RunInv, QueueTruthful, RowKnown, RowsOf
<1>2. \A s \in Stream : StreamTruthful(s)
    BY NoEventTruthful DEF Init, StreamTruthful
<1> QED
    BY <1>1, <1>2 DEF IInv

(***************************************************************************)
(* An event stays truthful while its run's thread goes on from where it    *)
(* may have been published and the table keeps the run's rows.             *)
(***************************************************************************)
Keeps(r) ==
    /\ worker[r] \in {"finishing", "over", "killed"} =>
          worker'[r] \in {"finishing", "over", "killed"}
    /\ worker[r] \in {"finishing", "over", "killed"} => RowsOf(r)' = RowsOf(r)
    /\ \A i \in RowsOf(r) : rows'[i] = rows[i]

LEMMA StaysTruthful ==
    ASSUME NEW r, NEW e, Truthful(e, r), Keeps(r)
    PROVE  Truthful(e, r)'
<1>1. CASE e.kind = "done"
    <2>1. e.id \in RowsOf(r) /\ worker[r] \in {"finishing", "over", "killed"}
        BY <1>1 DEF Truthful, Terminal
    <2>2. rows'[e.id] = rows[e.id] /\ RowsOf(r)' = RowsOf(r)
        BY <2>1 DEF Keeps
    <2> QED
        BY <1>1, <2>1, <2>2 DEF Truthful, Keeps
<1>2. CASE e.kind # "done"
    BY <1>2 DEF Truthful, Keeps, Terminal
<1> QED
    BY <1>1, <1>2

LEMMA QueueStays ==
    ASSUME NEW r, QueueTruthful(r), Keeps(r), queue'[r] = queue[r]
    PROVE  QueueTruthful(r)'
BY StaysTruthful DEF QueueTruthful

LEMMA StreamStays ==
    ASSUME NEW s, StreamTruthful(s), Keeps(target[s]), target'[s] = target[s],
           stream'[s].event = stream[s].event, seen'[s] = seen[s]
    PROVE  StreamTruthful(s)'
BY StaysTruthful DEF StreamTruthful

(***************************************************************************)
(* A truthful event may be added to a run's queue.                         *)
(***************************************************************************)
LEMMA QueueGrows ==
    ASSUME TypeOK, NEW r \in Run, NEW e \in Event, QueueTruthful(r), Keeps(r),
           queue'[r] = Append(queue[r], e), Truthful(e, r)'
    PROVE  QueueTruthful(r)'
<1> DEFINE q == queue[r]
<1>1. q \in Seq(Event)
    BY DEF TypeOK
<1>2. /\ DOMAIN q = 1 .. Len(q) /\ Len(q) \in Nat /\ DOMAIN Append(q, e) = 1 .. Len(q) + 1
      /\ \A i \in 1 .. Len(q) : Append(q, e)[i] = q[i]
      /\ Append(q, e)[Len(q) + 1] = e
    BY <1>1, AppendProperties, LenProperties
<1>3. \A i \in DOMAIN Append(q, e) : i \in DOMAIN q \/ Append(q, e)[i] = e
    BY <1>2
<1>4. \A i \in DOMAIN q : Append(q, e)[i] = q[i]
    BY <1>2
<1>5. \A f : Truthful(f, r) => Truthful(f, r)'
    BY StaysTruthful
<1> HIDE DEF q
<1>6. \A i \in DOMAIN Append(q, e) : \A f : f = Append(q, e)[i] => Truthful(f, r)'
    <2>1. \A i \in DOMAIN q : Truthful(q[i], r)
        BY DEF QueueTruthful, q
    <2> QED
        BY <1>3, <1>4, <1>5, <2>1
<1> QED
    BY <1>6 DEF QueueTruthful, q

LEMMA QueueShrinks ==
    ASSUME TypeOK, NEW r \in Run, QueueTruthful(r), Keeps(r),
           queue[r] # <<>>, queue'[r] = Tail(queue[r])
    PROVE  QueueTruthful(r)'
<1> DEFINE q == queue[r]
<1>1. q \in Seq(Event) /\ q # <<>>
    BY DEF TypeOK
<1>2. Tail(q) \in Seq(Event) /\ Len(Tail(q)) = Len(q) - 1 /\ Len(q) \in Nat /\ DOMAIN q = 1 .. Len(q)
    BY <1>1, HeadTailProperties, LenProperties
<1>3. \A i \in DOMAIN Tail(q) : i + 1 \in DOMAIN q /\ Tail(q)[i] = q[i + 1]
    BY <1>1, <1>2
<1>4. \A f : Truthful(f, r) => Truthful(f, r)'
    BY StaysTruthful
<1> HIDE DEF q
<1>5. \A i \in DOMAIN Tail(q) : \A f : f = Tail(q)[i] => Truthful(f, r)'
    <2>1. \A i \in DOMAIN q : Truthful(q[i], r)
        BY DEF QueueTruthful, q
    <2> QED
        BY <1>3, <1>4, <2>1
<1> QED
    BY <1>5 DEF QueueTruthful, q

(***************************************************************************)
(* A step of a run's thread that saves nothing, or of another run, or of   *)
(* no run, keeps the run's rows.                                           *)
(***************************************************************************)
LEMMA RowsKept ==
    ASSUME TypeOK, NEW r \in Run,
           \/ UNCHANGED rows
           \/ \E row \in Row : rows' = Append(rows, row) /\ row.run # r
    PROVE  RowsOf(r)' = RowsOf(r) /\ \A i \in RowsOf(r) : rows'[i] = rows[i]
<1>1. CASE UNCHANGED rows
    BY <1>1 DEF RowsOf
<1>2. ASSUME NEW row \in Row, rows' = Append(rows, row), row.run # r
      PROVE  RowsOf(r)' = RowsOf(r) /\ \A i \in RowsOf(r) : rows'[i] = rows[i]
    <2>1. /\ Len(rows) \in Nat /\ DOMAIN rows = 1 .. Len(rows)
          /\ DOMAIN rows' = 1 .. Len(rows) + 1
          /\ \A i \in DOMAIN rows : rows'[i] = rows[i]
          /\ rows'[Len(rows) + 1] = row
        BY <1>2, RowAdded
    <2>2. \A i \in DOMAIN rows' : i \in DOMAIN rows \/ i = Len(rows) + 1
        BY <2>1
    <2>3. DOMAIN rows \subseteq DOMAIN rows'
        BY <2>1
    <2>4. \A i : i \in RowsOf(r)' <=> i \in RowsOf(r)
        BY <1>2, <2>1, <2>2, <2>3, Zenon DEF RowsOf
    <2> QED
        BY <2>1, <2>4 DEF RowsOf
<1> QED
    BY <1>1, <1>2

\* A run's rows and thread that stay where they are.
LEMMA RunStays ==
    ASSUME TypeOK, NEW r \in Run, RunInv(r),
           RowsOf(r)' = RowsOf(r), \A i \in RowsOf(r) : rows'[i] = rows[i],
           worker'[r] = worker[r], report'[r] = report[r], runId'[r] = runId[r]
    PROVE  Keeps(r) /\ RowKnown(r)'
BY DEF RunInv, RowKnown, Keeps

LEMMA StepStored == TypeOK /\ IInv /\ [Next]_vars => IInv'
<1> SUFFICES ASSUME TypeOK, IInv, [Next]_vars PROVE IInv'
    OBVIOUS
<1> USE DEF threadVars, brokerVars, streamVars
<1>0. /\ \A r \in Run : RunInv(r) /\ QueueTruthful(r) /\ RowKnown(r)
      /\ \A s \in Stream : StreamTruthful(s) /\ target[s] \in Run
    BY DEF IInv, RunInv, TypeOK
\* A step of run r's thread touches neither the streams nor the other runs.
<1>1. ASSUME NEW r \in Run, UNCHANGED streamVars, Keeps(r), RunInv(r)',
             \/ UNCHANGED rows
             \/ \E row \in Row : rows' = Append(rows, row) /\ row.run = r,
             \A o \in Run \ {r} : /\ worker'[o] = worker[o] /\ report'[o] = report[o]
                                  /\ runId'[o] = runId[o] /\ queue'[o] = queue[o]
      PROVE  IInv'
    <2>1. ASSUME NEW o \in Run \ {r} PROVE Keeps(o) /\ RunInv(o)'
        <3>1. RowsOf(o)' = RowsOf(o) /\ \A i \in RowsOf(o) : rows'[i] = rows[i]
            BY <1>1, RowsKept
        <3>2. Keeps(o) /\ RowKnown(o)'
            BY <1>0, <1>1, <3>1, RunStays
        <3> QED
            BY <1>0, <1>1, <3>2, QueueStays DEF RunInv
    <2>2. \A o \in Run : Keeps(o) /\ RunInv(o)'
        BY <1>1, <2>1
    <2>3. \A s \in Stream : StreamTruthful(s)'
        BY <1>0, <1>1, <2>2, StreamStays
    <2> QED
        BY <2>2, <2>3 DEF IInv
\* A step that touches no thread and no row, and changes one stream and its run's queue.
<1>2. ASSUME UNCHANGED <<worker, report, runId, rows, target>>,
             \A r \in Run : QueueTruthful(r)',
             \A s \in Stream : StreamTruthful(s)'
      PROVE  IInv'
    BY <1>0, <1>2 DEF IInv, RunInv, RowKnown, RowsOf
<1>3. UNCHANGED <<worker, rows>> => \A r \in Run : Keeps(r)
    BY DEF Keeps, RowsOf
<1>4. ASSUME NEW r \in Run, Post(r) PROVE IInv'
    <2>1. worker'[r] = "executing" /\ worker[r] = "none" /\ UNCHANGED <<rows, queue, report, runId>>
        BY <1>4 DEF Post, TypeOK
    <2>2. Keeps(r) /\ RowKnown(r)'
        BY <1>0, <2>1 DEF Keeps, RowKnown, RowsOf
    <2>3. RunInv(r)'
        BY <1>0, <2>1, <2>2, QueueStays DEF RunInv
    <2> QED
        BY <1>1, <1>4, <2>1, <2>2, <2>3 DEF Post, TypeOK
<1>5. ASSUME NEW r \in Run, RunStep(r) PROVE IInv'
    <2>1. worker[r] = "executing" /\ UNCHANGED <<worker, rows, queue, runId>>
        BY <1>5 DEF RunStep
    <2>2. Keeps(r) /\ RowKnown(r)'
        BY <1>0, <2>1 DEF Keeps, RowKnown, RowsOf
    <2>3. RunInv(r)'
        BY <1>0, <2>1, <2>2, QueueStays DEF RunInv
    <2>4. \A o \in Run \ {r} : report'[o] = report[o]
        BY <1>5 DEF RunStep, TypeOK
    <2> QED
        BY <1>1, <1>5, <2>1, <2>2, <2>3, <2>4 DEF RunStep
<1>6. ASSUME NEW r \in Run, RunReturns(r) \/ RunRaises(r) \/ SaveRaises(r) PROVE IInv'
    <2>1. /\ worker[r] \in {"executing", "publishing"} /\ worker'[r] \in {"publishing", "failing"}
          /\ UNCHANGED <<rows, queue, report, runId, streamVars>>
          /\ \A o \in Run \ {r} : worker'[o] = worker[o]
        BY <1>6 DEF RunReturns, RunRaises, SaveRaises, TypeOK
    <2>2. Keeps(r) /\ RowKnown(r)'
        BY <1>0, <2>1 DEF Keeps, RowKnown, RowsOf
    <2>3. RunInv(r)'
        BY <1>0, <2>1, <2>2, QueueStays DEF RunInv
    <2> QED
        BY <1>1, <2>1, <2>2, <2>3
<1>7. ASSUME NEW r \in Run, PublishStep(r) PROVE IInv'
    <2> PICK e : e = StepEvent(report[r], published[r] + 1)
        OBVIOUS
    <2>1. /\ UNCHANGED <<worker, rows, report, runId, streamVars>>
          /\ queue'[r] = Append(queue[r], e) /\ \A o \in Run \ {r} : queue'[o] = queue[o]
        BY <1>7 DEF PublishStep, TypeOK
    <2>2. published[r] + 1 \in 1 .. Len(report[r])
        BY <1>7, LenProperties DEF PublishStep, TypeOK
    <2>3. e \in Event
        BY <2>2, StepEventType DEF TypeOK
    <2>4. Truthful(e, r)'
        BY DEF Truthful, StepEvent, Terminal
    <2>5. Keeps(r)
        BY <1>3, <2>1
    <2>6. QueueTruthful(r)'
        BY <1>0, <2>1, <2>3, <2>4, <2>5, QueueGrows
    <2>7. RowKnown(r)'
        BY <1>0, <2>1 DEF RowKnown, RowsOf
    <2> QED
        BY <1>1, <2>1, <2>5, <2>6, <2>7 DEF RunInv
<1>8. ASSUME NEW r \in Run, Save(r) PROVE IInv'
    <2> DEFINE row == [run |-> r, verdicts |-> report[r]]
    <2>1. /\ worker[r] = "publishing" /\ worker'[r] = "announcing" /\ runId'[r] = Len(rows) + 1
          /\ rows' = Append(rows, row) /\ UNCHANGED <<report, queue, streamVars>>
          /\ \A o \in Run \ {r} : worker'[o] = worker[o] /\ runId'[o] = runId[o]
        BY <1>8 DEF Save, TypeOK
    <2>2. row \in Row
        BY DEF TypeOK, Row
    <2>3. /\ Len(rows) \in Nat /\ DOMAIN rows = 1 .. Len(rows)
          /\ DOMAIN rows' = 1 .. Len(rows) + 1
          /\ \A i \in DOMAIN rows : rows'[i] = rows[i]
          /\ rows'[Len(rows) + 1] = row
        BY <2>1, <2>2, RowAdded
    <2>4. RowsOf(r) = {}
        BY <1>0, <2>1 DEF RowKnown
    <2>5. RowsOf(r)' = {Len(rows) + 1}
        BY <2>3, <2>4 DEF RowsOf
    <2>6. RowKnown(r)' /\ Keeps(r)
        BY <2>1, <2>3, <2>4, <2>5 DEF RowKnown, Keeps
    <2>7. RunInv(r)'
        BY <1>0, <2>1, <2>6, QueueStays DEF RunInv
    <2> QED
        BY <1>1, <2>1, <2>2, <2>6, <2>7
<1>9. ASSUME NEW r \in Run, PublishDone(r) PROVE IInv'
    <2> PICK e : e = Done(report[r], runId[r])
        OBVIOUS
    <2>1. /\ worker[r] = "announcing" /\ worker'[r] = "finishing"
          /\ UNCHANGED <<rows, report, runId, streamVars>>
          /\ queue'[r] = Append(queue[r], e)
          /\ \A o \in Run \ {r} : worker'[o] = worker[o] /\ queue'[o] = queue[o]
        BY <1>9 DEF PublishDone, Publish, TypeOK
    <2>2. report[r] \in Seq(BOOLEAN) /\ runId[r] \in Nat
        BY LenProperties DEF TypeOK
    <2>3. e \in Event
        BY <2>2, DoneType
    <2>4. RowsOf(r) = {runId[r]} /\ rows[runId[r]].verdicts = report[r]
        BY <1>0, <2>1 DEF RowKnown
    <2>5. e.kind = "done" /\ e.id = runId[r]
        BY DEF Done
    <2>6. Truthful(e, r)'
        BY <2>1, <2>4, <2>5 DEF Truthful, RowsOf
    <2>7. Keeps(r) /\ RowKnown(r)'
        BY <2>1 DEF Keeps, RowKnown
    <2>8. QueueTruthful(r)'
        BY <1>0, <2>1, <2>3, <2>6, <2>7, QueueGrows
    <2> QED
        BY <1>1, <2>1, <2>7, <2>8 DEF RunInv
<1>10. ASSUME NEW r \in Run, PublishError(r) PROVE IInv'
    <2>1. /\ worker[r] = "failing" /\ worker'[r] = "finishing"
          /\ UNCHANGED <<rows, report, runId, streamVars>>
          /\ queue'[r] = Append(queue[r], Error)
          /\ \A o \in Run \ {r} : worker'[o] = worker[o] /\ queue'[o] = queue[o]
        BY <1>10 DEF PublishError, Publish, TypeOK
    <2>2. RowsOf(r) = {}
        BY <1>0, <2>1 DEF RowKnown
    <2>3. Truthful(Error, r)'
        BY <2>1, <2>2 DEF Truthful, RowsOf, Error
    <2>4. Keeps(r) /\ RowKnown(r)'
        BY <2>1 DEF Keeps, RowKnown
    <2>5. QueueTruthful(r)'
        BY <1>0, <2>1, <2>3, <2>4, NoEventType, QueueGrows
    <2> QED
        BY <1>1, <2>1, <2>4, <2>5 DEF RunInv
<1>11. ASSUME NEW r \in Run, SetFinished(r) PROVE IInv'
    <2>1. /\ worker[r] = "finishing" /\ worker'[r] = "over"
          /\ UNCHANGED <<rows, report, runId, queue, streamVars>>
          /\ \A o \in Run \ {r} : worker'[o] = worker[o]
        BY <1>11 DEF SetFinished, TypeOK
    <2>2. Keeps(r) /\ RowKnown(r)'
        BY <2>1 DEF Keeps, RowKnown, RowsOf
    <2>3. RunInv(r)'
        BY <1>0, <2>1, <2>2, QueueStays DEF RunInv
    <2> QED
        BY <1>1, <2>1, <2>2, <2>3
<1>12. ASSUME NEW r \in Run, ExecuteRun(r) PROVE IInv'
    BY <1>5, <1>6, <1>7, <1>8, <1>9, <1>10, <1>11, <1>12 DEF ExecuteRun
<1>13. ASSUME NEW s \in Stream, Get(s) PROVE IInv'
    <2> PICK t \in Run : t = target[s]
        BY <1>0
    <2>1. /\ UNCHANGED <<worker, report, runId, rows, target, seen>> /\ target'[s] = t
          /\ queue[t] # <<>> /\ queue'[t] = Tail(queue[t])
          /\ \A o \in Run \ {t} : queue'[o] = queue[o]
          /\ stream'[s].event = Head(queue[t])
          /\ \A o \in Stream \ {s} : stream'[o] = stream[o]
        BY <1>13 DEF Get, Move, TypeOK
    <2>2. \A r \in Run : QueueTruthful(r)'
        BY <1>0, <1>3, <2>1, QueueStays, QueueShrinks
    <2>3. Head(queue[t]) = queue[t][1] /\ 1 \in DOMAIN queue[t]
        <3>1. queue[t] \in Seq(Event)
            BY <2>1 DEF TypeOK
        <3> QED
            BY <2>1, <3>1, HeadTailProperties, EmptySeq, LenProperties
    <2>4. \A e : Truthful(e, t) => Truthful(e, t)'
        BY <1>3, <2>1, StaysTruthful
    <2>5. \A e : e = Head(queue[t]) => Truthful(e, t)'
        BY <1>0, <2>1, <2>3, <2>4 DEF QueueTruthful
    <2>6. StreamTruthful(s)'
        BY <1>0, <2>1, <2>4, <2>5 DEF StreamTruthful
    <2>7. \A o \in Stream \ {s} : StreamTruthful(o)'
        BY <1>0, <1>3, <2>1, StreamStays
    <2> QED
        BY <1>2, <2>1, <2>2, <2>6, <2>7
\* A stream that holds no event now, and saw what it had seen or what it held as well.
<1>14. ASSUME NEW s \in Stream, NEW pc, Move(s, pc, NoEvent), UNCHANGED queue,
              \/ seen' = seen
              \/ seen' = [seen EXCEPT ![s] = Append(@, stream[s].event)]
       PROVE  IInv'
    <2>1. /\ UNCHANGED <<worker, report, runId, rows, target>>
          /\ stream'[s].event = NoEvent
          /\ \A o \in Stream \ {s} : stream'[o] = stream[o] /\ seen'[o] = seen[o]
        BY <1>14 DEF Move, TypeOK
    <2>2. \A r \in Run : QueueTruthful(r)'
        BY <1>0, <1>3, <1>14, <2>1, QueueStays
    <2>3. \A o \in Stream \ {s} : StreamTruthful(o)'
        BY <1>0, <1>3, <2>1, StreamStays
    <2> PICK t \in Run : t = target[s]
        BY <1>0
    <2>4. \A e : Truthful(e, t) => Truthful(e, t)'
        BY <1>3, <2>1, StaysTruthful
    <2>5. Truthful(NoEvent, t)'
        BY DEF Truthful, NoEvent, Terminal
    <2>6. \A i \in DOMAIN seen[s] : \A e : e = seen[s][i] => Truthful(e, t)'
        BY <1>0, <2>4 DEF StreamTruthful
    <2>7. \A i \in DOMAIN seen'[s] : \A e : e = seen'[s][i] => Truthful(e, t)'
        <3> PICK q, h : q = seen[s] /\ h = stream[s].event
            OBVIOUS
        <3>1. q \in Seq(Event) /\ h \in Event
            BY DEF TypeOK
        <3>2. CASE seen' = seen
            BY <2>6, <3>2
        <3>3. CASE seen' = [seen EXCEPT ![s] = Append(@, stream[s].event)]
            <4>1. seen'[s] = Append(q, h)
                BY <3>3 DEF TypeOK
            <4>2. /\ DOMAIN Append(q, h) = 1 .. Len(q) + 1 /\ DOMAIN q = 1 .. Len(q)
                  /\ \A i \in 1 .. Len(q) : Append(q, h)[i] = q[i]
                  /\ Append(q, h)[Len(q) + 1] = h /\ Len(q) \in Nat
                BY <3>1, AppendProperties, LenProperties
            <4>3. \A i \in DOMAIN Append(q, h) :
                     Append(q, h)[i] = h \/ (i \in DOMAIN q /\ Append(q, h)[i] = q[i])
                BY <4>2
            <4>4. Truthful(h, t)'
                BY <1>0, <2>4 DEF StreamTruthful
            <4> QED
                BY <2>6, <4>1, <4>3, <4>4
        <3> QED
            BY <1>14, <3>2, <3>3
    <2>8. StreamTruthful(s)'
        BY <2>1, <2>5, <2>7 DEF StreamTruthful
    <2> QED
        BY <1>2, <2>1, <2>2, <2>3, <2>8
<1>15. ASSUME NEW s \in Stream,
              \/ OpenStream(s) \/ Admit(s) \/ OpenFails(s) \/ Send(s)
              \/ KeepAlive(s) \/ EndOrContinue(s) \/ WriteFails(s)
       PROVE  IInv'
    <2>1. /\ UNCHANGED queue
          /\ seen' = seen \/ seen' = [seen EXCEPT ![s] = Append(@, stream[s].event)]
          /\ \E pc \in {"queued"} \cup Holding \cup Over : Move(s, pc, NoEvent)
        BY <1>15 DEF OpenStream, Admit, OpenFails, Send, KeepAlive, EndOrContinue, WriteFails, Holding, Over
    <2> QED
        BY <1>14, <2>1
<1>16. ASSUME UNCHANGED <<worker, report, runId, rows, target, queue, stream, seen>> PROVE IInv'
    <2>1. \A r \in Run : QueueTruthful(r)'
        BY <1>0, <1>3, <1>16, QueueStays
    <2>2. \A s \in Stream : StreamTruthful(s)'
        BY <1>0, <1>3, <1>16, StreamStays
    <2> QED
        BY <1>2, <1>16, <2>1, <2>2
<1>17. ASSUME NEW s \in Stream, Leave(s) PROVE IInv'
    BY <1>16, <1>17 DEF Leave
<1>18. ASSUME Restart PROVE IInv'
    <2>1. UNCHANGED <<report, runId, rows, target, seen>>
        BY <1>18 DEF Restart
    <2>2. ASSUME NEW r \in Run PROVE Keeps(r) /\ RunInv(r)'
        <3>1. /\ worker[r] = "none" => worker'[r] = "none"
              /\ worker[r] # "none" => worker'[r] = "killed"
              /\ queue'[r] = <<>>
            BY <1>18 DEF Restart
        <3>2. Keeps(r) /\ RowKnown(r)'
            BY <1>0, <2>1, <3>1 DEF Keeps, RowKnown, RowsOf
        <3>3. QueueTruthful(r)'
            BY <3>1, EmptySeq DEF QueueTruthful
        <3> QED
            BY <3>2, <3>3 DEF RunInv
    <2>3. ASSUME NEW s \in Stream PROVE StreamTruthful(s)'
        <3> PICK t \in Run : t = target[s]
            BY <1>0
        <3>1. stream'[s].event = stream[s].event \/ stream'[s].event = NoEvent
            BY <1>18 DEF Restart
        <3>2. \A e : Truthful(e, t) => Truthful(e, t)'
            BY <2>2, StaysTruthful
        <3>3. Truthful(NoEvent, t)'
            BY DEF Truthful, NoEvent, Terminal
        <3> QED
            BY <1>0, <2>1, <3>1, <3>2, <3>3 DEF StreamTruthful
    <2> QED
        BY <2>2, <2>3 DEF IInv
<1>19. ASSUME CliSaves PROVE IInv'
    <2>1. /\ rows' = Append(rows, [run |-> "cli", verdicts |-> <<>>])
          /\ UNCHANGED <<worker, report, runId, queue, target, stream, seen>>
        BY <1>19 DEF CliSaves
    <2>2. [run |-> "cli", verdicts |-> <<>>] \in Row
        BY EmptySeq DEF Row
    <2>3. \A r \in Run : RowsOf(r)' = RowsOf(r) /\ \A i \in RowsOf(r) : rows'[i] = rows[i]
        BY <2>1, <2>2, RowsKept, CliAssumption
    <2>4. \A r \in Run : Keeps(r) /\ RowKnown(r)'
        BY <1>0, <2>1, <2>3, RunStays
    <2>5. \A r \in Run : RunInv(r)'
        BY <1>0, <2>1, <2>4, QueueStays DEF RunInv
    <2>6. \A s \in Stream : StreamTruthful(s)'
        BY <1>0, <2>1, <2>4, StreamStays
    <2> QED
        BY <2>5, <2>6 DEF IInv
<1>20. CASE UNCHANGED vars
    BY <1>16, <1>20 DEF vars
<1> QED
    BY <1>4, <1>12, <1>13, <1>15, <1>17, <1>18, <1>19, <1>20 DEF Next, StreamRun

LEMMA Stored == Spec => []IInv
BY InitTyped, StepTyped, InitStored, StepStored, PTL DEF Spec

(***************************************************************************)
(* What `done` announced is the run's one row, with the verdicts of the    *)
(* summary, and what `error` announced has no row: for ever, whatever      *)
(* other runs, other processes and restarts do (app.py:199-225,            *)
(* store.py:107-147).                                                      *)
(***************************************************************************)
THEOREM StoredWhenDone == Spec => []DoneIsStored
<1>1. IInv => DoneIsStored
    BY DEF IInv, StreamTruthful, Truthful, DoneIsStored
<1> QED
    BY <1>1, Stored, PTL
------------------------------------------------------------------------------
(***************************************************************************)
(* The events of a run are numbered as they are published: the steps from  *)
(* one, then how it ended.  An event is in the queue, in the hands of a    *)
(* stream, or seen by its browser.                                         *)
(***************************************************************************)
N(e) == IF e.kind = "step" THEN e.ordinal ELSE Steps + 1

Ordered(q) == \A i, j \in DOMAIN q : i < j => N(q[i]) < N(q[j])

Elems(q) == {q[i] : i \in DOMAIN q}
Held(v)  == IF v.event.kind = "none" THEN {} ELSE {v.event}

\* Where a run's thread is once nothing more is published.
Published == {"finishing", "over", "killed"}

USE DEF Published

\* Until a run's last event is published, its events are the steps published so far.
Known(e, w, p) ==
    /\ e \in Event /\ e.kind # "none" /\ (e.kind = "step" => e.ordinal <= Steps)
    /\ w \notin Published => e.kind = "step" /\ e.ordinal <= p

\* A run with its thread at w, p events published and q in its queue.
RunOK(q, w, p) == Ordered(q) /\ \A e \in Elems(q) : Known(e, w, p)

\* A stream of such a run whose request is at v and whose browser has seen h.
StreamOK(v, h, q, w, p) ==
    /\ v.pc = "sending" <=> Held(v) # {}
    /\ Ordered(h)
    /\ \A e \in Elems(h), f \in Held(v) : N(e) < N(f)
    /\ \A e \in Elems(h) \cup Held(v) : Known(e, w, p)
    /\ \A e \in Elems(h) \cup Held(v), f \in Elems(q) : N(e) < N(f)

Once ==
    /\ \A r \in Run : RunOK(queue[r], worker[r], published[r])
    /\ \A s \in Stream : StreamOK(stream[s], seen[s], queue[target[s]], worker[target[s]],
                                  published[target[s]])
    /\ \A s, t \in Stream : s # t /\ target[s] = target[t] =>
          \A e \in Elems(seen[s]) \cup Held(stream[s]),
             f \in Elems(seen[t]) \cup Held(stream[t]) : N(e) # N(f)

LEMMA InitOnce == Init => Once
<1> SUFFICES ASSUME Init PROVE Once
    OBVIOUS
<1>1. \A r \in Run : queue[r] = <<>>
    BY DEF Init
<1>2. \A s \in Stream : Elems(seen[s]) = {} /\ Held(stream[s]) = {} /\ seen[s] = <<>>
    BY DEF Init, Elems, Held, NoEvent
<1>3. target \in [Stream -> Run]
    BY DEF Init
<1>4. Ordered(<<>>) /\ Elems(<<>>) = {}
    BY DEF Ordered, Elems
<1>5. \A r \in Run : RunOK(queue[r], worker[r], published[r])
    BY <1>1, <1>4 DEF RunOK
<1>6. \A s \in Stream : stream[s].pc = "unused"
    BY DEF Init
<1>7. \A s \in Stream : StreamOK(stream[s], seen[s], queue[target[s]], worker[target[s]],
                                published[target[s]])
    BY <1>2, <1>4, <1>6 DEF StreamOK
<1> QED
    BY <1>2, <1>5, <1>7 DEF Once

(***************************************************************************)
(* Taking the first event of an ordered queue, and adding one at its end.  *)
(***************************************************************************)
LEMMA OrderedTail ==
    ASSUME NEW q \in Seq(Event), q # <<>>, Ordered(q)
    PROVE  /\ Ordered(Tail(q)) /\ Head(q) = q[1] /\ 1 \in DOMAIN q
           /\ \A i \in DOMAIN Tail(q) : \E j \in DOMAIN q : Tail(q)[i] = q[j] /\ N(q[1]) < N(q[j])
<1>1. /\ Tail(q) \in Seq(Event) /\ Len(Tail(q)) = Len(q) - 1 /\ Len(q) \in Nat
      /\ DOMAIN q = 1 .. Len(q) /\ Head(q) = q[1] /\ Len(q) > 0
    BY HeadTailProperties, LenProperties
<1>2. \A i \in DOMAIN Tail(q) : i \in Nat /\ i >= 1 /\ i + 1 \in DOMAIN q /\ Tail(q)[i] = q[i + 1]
    BY <1>1
<1>3. Ordered(Tail(q))
    BY <1>1, <1>2 DEF Ordered
<1>4. \A i \in DOMAIN Tail(q) : N(q[1]) < N(q[i + 1])
    BY <1>1, <1>2 DEF Ordered
<1> QED
    BY <1>1, <1>2, <1>3, <1>4

LEMMA OrderedAppend ==
    ASSUME NEW q \in Seq(Event), Ordered(q), NEW e \in Event,
           \A i \in DOMAIN q : N(q[i]) < N(e)
    PROVE  /\ Ordered(Append(q, e))
           /\ \A i \in DOMAIN Append(q, e) : Append(q, e)[i] = e \/ \E j \in DOMAIN q : Append(q, e)[i] = q[j]
<1>1. /\ DOMAIN q = 1 .. Len(q) /\ Len(q) \in Nat /\ DOMAIN Append(q, e) = 1 .. Len(q) + 1
      /\ \A i \in 1 .. Len(q) : Append(q, e)[i] = q[i]
      /\ Append(q, e)[Len(q) + 1] = e
    BY AppendProperties, LenProperties
<1>2. \A i \in DOMAIN Append(q, e) : i \in DOMAIN q \/ i = Len(q) + 1
    BY <1>1
<1> QED
    BY <1>1, <1>2 DEF Ordered

(***************************************************************************)
(* What is known of an event stays true as its run's thread goes on.       *)
(***************************************************************************)
LEMMA KnownStays ==
    ASSUME NEW e, NEW w, NEW p \in Nat, Known(e, w, p), NEW v, NEW o \in Nat,
           v \notin Published => w \notin Published /\ p <= o
    PROVE  Known(e, v, o)
BY DEF Known, Event

LEMMA Numbered ==
    ASSUME NEW e, NEW w, NEW p, Known(e, w, p)
    PROVE  N(e) \in Nat /\ N(e) <= Steps + 1
<1>1. e.ordinal \in Nat /\ (e.kind = "step" => e.ordinal <= Steps)
    BY DEF Known, Event
<1> QED
    BY <1>1 DEF N

(***************************************************************************)
(* A step that takes and publishes no event, though it may drop what is in *)
(* a queue or in a stream's hands, and after which no thread is before a   *)
(* publication it had passed.                                              *)
(***************************************************************************)
LEMMA NothingTaken ==
    ASSUME TypeOK, Once, UNCHANGED <<seen, target>>,
           \A r \in Run : queue'[r] = queue[r] \/ queue'[r] = <<>>,
           \A s \in Stream : /\ Held(stream'[s]) = Held(stream[s]) \/ Held(stream'[s]) = {}
                             /\ stream'[s].pc = "sending" <=> Held(stream'[s]) # {},
           \A r \in Run : published'[r] \in Nat,
           \A r \in Run : worker'[r] \notin Published =>
               worker[r] \notin Published /\ published[r] <= published'[r]
    PROVE  Once'
<1>1. ASSUME NEW r \in Run, NEW e, Known(e, worker[r], published[r])
      PROVE  Known(e, worker'[r], published'[r])
    <2>1. published[r] \in Nat /\ published'[r] \in Nat
        BY DEF TypeOK
    <2> QED
        BY <1>1, <2>1, KnownStays
<1>2. \A r \in Run : Elems(queue'[r]) \subseteq Elems(queue[r])
    BY DEF Elems
<1>3. ASSUME NEW r \in Run PROVE RunOK(queue'[r], worker'[r], published'[r])
    <2>1. RunOK(queue[r], worker[r], published[r])
        BY DEF Once
    <2>2. Ordered(queue'[r])
        <3>1. CASE queue'[r] = queue[r]
            BY <2>1, <3>1 DEF RunOK
        <3>2. CASE queue'[r] = <<>>
            BY <3>2 DEF Ordered
        <3> QED
            BY <3>1, <3>2
    <2> QED
        BY <1>1, <1>2, <2>1, <2>2 DEF RunOK
<1>4. ASSUME NEW s \in Stream
      PROVE  StreamOK(stream'[s], seen'[s], queue'[target'[s]], worker'[target'[s]], published'[target'[s]])
    <2> DEFINE r == target[s]
    <2>1. r \in Run /\ StreamOK(stream[s], seen[s], queue[r], worker[r], published[r])
        BY DEF TypeOK, Once
    <2>2. /\ Held(stream'[s]) \subseteq Held(stream[s]) /\ seen'[s] = seen[s] /\ target'[s] = r
          /\ stream'[s].pc = "sending" <=> Held(stream'[s]) # {}
        OBVIOUS
    <2> QED
        BY <1>1, <1>2, <2>1, <2>2 DEF StreamOK
<1> QED
    BY <1>3, <1>4 DEF Once

(***************************************************************************)
(* An event is published: it comes after all others of its run.            *)
(***************************************************************************)
LEMMA EventPublished ==
    ASSUME TypeOK, Once, NEW r \in Run, NEW e \in Event,
           worker[r] \notin Published,
           UNCHANGED <<stream, seen, target>>,
           queue' = [queue EXCEPT ![r] = Append(@, e)],
           published' \in [Run -> Nat], published[r] <= published'[r],
           Known(e, worker'[r], published'[r]),
           N(e) > published[r],
           \A o \in Run \ {r} : worker'[o] = worker[o] /\ published'[o] = published[o]
    PROVE  Once'
<1> DEFINE q == queue[r]
<1>1. q \in Seq(Event) /\ published[r] \in Nat /\ published'[r] \in Nat /\ RunOK(q, worker[r], published[r])
    BY DEF TypeOK, Once
<1>2. ASSUME NEW o \in Run, NEW f, Known(f, worker[o], published[o])
      PROVE  Known(f, worker'[o], published'[o])
    <2>1. CASE o = r
        BY <1>1, <1>2, <2>1, KnownStays
    <2>2. CASE o # r
        BY <1>2, <2>2
    <2> QED
        BY <2>1, <2>2
<1>3. ASSUME NEW f, Known(f, worker[r], published[r]) PROVE N(f) < N(e)
    <2>1. N(f) = f.ordinal /\ f.ordinal <= published[r] /\ f.ordinal \in Nat
        BY <1>3 DEF Known, N, Event
    <2>2. N(e) \in Nat
        BY Numbered
    <2> QED
        BY <1>1, <2>1, <2>2
<1>4. /\ queue'[r] = Append(q, e) /\ \A o \in Run \ {r} : queue'[o] = queue[o]
    BY DEF TypeOK
<1>5. Ordered(queue'[r]) /\ Elems(queue'[r]) \subseteq Elems(q) \cup {e}
    <2>1. Ordered(q) /\ \A i \in DOMAIN q : N(q[i]) < N(e)
        BY <1>1, <1>3 DEF RunOK, Elems
    <2>2. /\ Ordered(Append(q, e))
          /\ \A i \in DOMAIN Append(q, e) : Append(q, e)[i] = e \/ \E j \in DOMAIN q : Append(q, e)[i] = q[j]
        BY <1>1, <2>1, OrderedAppend
    <2> QED
        BY <1>4, <2>2 DEF Elems
<1>6. ASSUME NEW o \in Run PROVE RunOK(queue'[o], worker'[o], published'[o])
    <2>1. CASE o = r
        BY <1>1, <1>2, <1>5, <2>1 DEF RunOK
    <2>2. CASE o # r
        BY <1>4, <2>2 DEF Once
    <2> QED
        BY <2>1, <2>2
<1>7. ASSUME NEW s \in Stream
      PROVE  StreamOK(stream'[s], seen'[s], queue'[target'[s]], worker'[target'[s]], published'[target'[s]])
    <2>1. target[s] \in Run /\ StreamOK(stream[s], seen[s], queue[target[s]], worker[target[s]], published[target[s]])
        BY DEF TypeOK, Once
    <2>2. CASE target[s] = r
        BY <1>2, <1>3, <1>5, <2>1, <2>2 DEF StreamOK
    <2>3. CASE target[s] # r
        BY <1>4, <2>1, <2>3
    <2> QED
        BY <2>2, <2>3
<1> QED
    BY <1>6, <1>7 DEF Once

(***************************************************************************)
(* A stream takes the first event of its run's queue: it comes after all   *)
(* that were taken before, whoever took them.                              *)
(***************************************************************************)
LEMMA EventTaken ==
    ASSUME TypeOK, Once, NEW s \in Stream, Get(s)
    PROVE  Once'
<1> DEFINE r == target[s]
           q == queue[r]
           e == Head(q)
<1>1. /\ r \in Run /\ q \in Seq(Event) /\ q # <<>> /\ RunOK(q, worker[r], published[r])
      /\ StreamOK(stream[s], seen[s], q, worker[r], published[r]) /\ Held(stream[s]) = {}
    BY DEF TypeOK, Once, Get, StreamOK
<1>2. /\ UNCHANGED <<seen, target, worker, published>>
      /\ queue'[r] = Tail(q) /\ \A o \in Run \ {r} : queue'[o] = queue[o]
      /\ \A t \in Stream \ {s} : stream'[t] = stream[t]
      /\ stream'[s] = [pc |-> "sending", event |-> e]
    BY <1>1 DEF Get, Move, threadVars, TypeOK
<1>3. /\ Ordered(Tail(q)) /\ e \in Elems(q)
      /\ \A f \in Elems(Tail(q)) : f \in Elems(q) /\ N(e) < N(f)
    BY <1>1, OrderedTail DEF RunOK, Elems
<1>4. Known(e, worker[r], published[r]) /\ Held(stream'[s]) = {e}
    BY <1>1, <1>2, <1>3 DEF RunOK, Known, Held
<1>5. \A o \in Run : Elems(queue'[o]) \subseteq Elems(queue[o])
    BY <1>2, <1>3
<1>6. ASSUME NEW t \in Stream, target[t] = r, NEW x \in Elems(seen[t]) \cup Held(stream[t])
      PROVE  N(x) < N(e) /\ N(x) \in Nat /\ N(e) \in Nat
    <2>1. StreamOK(stream[t], seen[t], q, worker[r], published[r])
        BY <1>6 DEF Once
    <2> QED
        BY <1>3, <1>4, <1>6, <2>1, Numbered DEF StreamOK
<1>7. ASSUME NEW o \in Run PROVE RunOK(queue'[o], worker'[o], published'[o])
    BY <1>1, <1>2, <1>3, <1>5 DEF Once, RunOK
<1>8. ASSUME NEW t \in Stream
      PROVE  StreamOK(stream'[t], seen'[t], queue'[target'[t]], worker'[target'[t]], published'[target'[t]])
    <2>1. target[t] \in Run /\ StreamOK(stream[t], seen[t], queue[target[t]], worker[target[t]], published[target[t]])
        BY DEF TypeOK, Once
    <2>2. CASE t = s
        <3>1. \A x \in Elems(seen[s]) : N(x) < N(e)
            BY <1>6
        <3> QED
            <4> HIDE DEF e, q
            <4>1. stream'[s].pc = "sending" /\ seen'[s] = seen[s]
                BY <1>2
            <4> QED
                BY <1>1, <1>2, <1>3, <1>4, <2>2, <3>1, <4>1 DEF StreamOK
    <2>3. CASE t # s
        BY <1>2, <1>5, <2>1, <2>3 DEF StreamOK
    <2> QED
        BY <2>2, <2>3
<1>9. ASSUME NEW t \in Stream, NEW u \in Stream, t # u, target[t] = target[u],
             NEW x \in Elems(seen[t]) \cup Held(stream'[t]), NEW y \in Elems(seen[u]) \cup Held(stream'[u])
      PROVE  N(x) # N(y)
    <2> HIDE DEF e
    <2>1. CASE t = s
        BY <1>1, <1>2, <1>4, <1>6, <1>9, <2>1 DEF Once
    <2>2. CASE u = s
        BY <1>1, <1>2, <1>4, <1>6, <1>9, <2>2 DEF Once
    <2>3. CASE t # s /\ u # s
        BY <1>2, <1>9, <2>3 DEF Once
    <2> QED
        BY <2>1, <2>2, <2>3
<1> QED
    BY <1>2, <1>7, <1>8, <1>9 DEF Once

(***************************************************************************)
(* A stream sends the event it holds, and its browser sees it or has left. *)
(***************************************************************************)
LEMMA EventSent ==
    ASSUME TypeOK, Once, NEW s \in Stream, Send(s)
    PROVE  Once'
<1> DEFINE v == stream[s]
           e == v.event
           r == target[s]
<1>1. /\ r \in Run /\ seen[s] \in Seq(Event) /\ e \in Event /\ v.pc = "sending"
      /\ StreamOK(v, seen[s], queue[r], worker[r], published[r])
    BY DEF TypeOK, Once, Send
<1>2. /\ UNCHANGED <<queue, target, worker, published>>
      /\ \A t \in Stream \ {s} : stream'[t] = stream[t] /\ seen'[t] = seen[t]
      /\ Held(stream'[s]) = {}
      /\ seen'[s] = seen[s] \/ seen'[s] = Append(seen[s], e)
    <2>1. stream'[s].event = NoEvent
        BY DEF Send, Move, TypeOK
    <2> QED
        BY <2>1 DEF Send, Move, threadVars, TypeOK, Held, NoEvent
<1>3. Held(v) = {e}
    BY <1>1 DEF StreamOK, Held
<1>4. Ordered(seen'[s]) /\ Elems(seen'[s]) \subseteq Elems(seen[s]) \cup Held(v)
    <2>1. CASE seen'[s] = seen[s]
        BY <1>1, <2>1 DEF StreamOK
    <2>2. CASE seen'[s] = Append(seen[s], e)
        <3>1. Ordered(seen[s]) /\ \A i \in DOMAIN seen[s] : N(seen[s][i]) < N(e)
            BY <1>1, <1>3 DEF StreamOK, Elems
        <3> QED
            BY <1>1, <1>3, <2>2, <3>1, OrderedAppend DEF Elems
    <2> QED
        BY <1>2, <2>1, <2>2
<1>5. ASSUME NEW t \in Stream
      PROVE  /\ StreamOK(stream'[t], seen'[t], queue'[target'[t]], worker'[target'[t]], published'[target'[t]])
             /\ Elems(seen'[t]) \cup Held(stream'[t]) \subseteq Elems(seen[t]) \cup Held(stream[t])
    <2>1. CASE t = s
        <3>1. stream'[s].pc # "sending"
            BY <1>1 DEF Send, Move, TypeOK, Terminal
        <3>2. StreamOK(stream'[s], seen'[s], queue[r], worker[r], published[r])
            BY <1>1, <1>2, <1>4, <3>1 DEF StreamOK
        <3> QED
            BY <1>2, <1>4, <2>1, <3>2
    <2>2. CASE t # s
        BY <1>2, <2>2 DEF Once
    <2> QED
        BY <2>1, <2>2
<1>6. ASSUME NEW t \in Stream, NEW u \in Stream, t # u, target[t] = target[u],
             NEW x \in Elems(seen'[t]) \cup Held(stream'[t]), NEW y \in Elems(seen'[u]) \cup Held(stream'[u])
      PROVE  N(x) # N(y)
    BY <1>5, <1>6 DEF Once
<1>7. \A o \in Run : RunOK(queue'[o], worker'[o], published'[o])
    BY <1>2 DEF Once
<1> QED
    BY <1>2, <1>5, <1>6, <1>7 DEF Once

(***************************************************************************)
(* One case per kind of step: only four of them move an event.             *)
(***************************************************************************)
LEMMA StepOnce == TypeOK /\ TypeOK' /\ Once /\ [Next]_vars => Once'
<1> SUFFICES ASSUME TypeOK, TypeOK', Once, [Next]_vars PROVE Once'
    OBVIOUS
<1> USE DEF threadVars, brokerVars, streamVars
<1>0. /\ \A s \in Stream : stream[s].pc = "sending" <=> Held(stream[s]) # {}
      /\ \A r \in Run : published[r] \in Nat /\ published'[r] \in Nat
      /\ \A v : v.event = NoEvent => Held(v) = {}
    BY DEF Once, StreamOK, TypeOK, Held, NoEvent
<1>1. ASSUME NEW r \in Run, Post(r) \/ RunStep(r) \/ RunReturns(r) \/ RunRaises(r)
                         \/ Save(r) \/ SaveRaises(r) \/ SetFinished(r)
      PROVE  Once'
    <2>1. UNCHANGED <<published, queue, stream, target, seen>>
        BY <1>1 DEF Post, RunStep, RunReturns, RunRaises, Save, SaveRaises, SetFinished
    <2>2. \A o \in Run : worker'[o] \notin Published =>
                         worker[o] \notin Published
        BY <1>1 DEF Post, RunStep, RunReturns, RunRaises, Save, SaveRaises, SetFinished, TypeOK
    <2> QED
        BY <1>0, <2>1, <2>2, NothingTaken
<1>2. ASSUME NEW r \in Run, PublishStep(r) PROVE Once'
    <2> DEFINE e == StepEvent(report[r], published[r] + 1)
    <2>1. /\ published[r] \in Nat /\ published[r] + 1 \in 1 .. Len(report[r])
          /\ report[r] \in Seq(BOOLEAN) /\ published[r] + 1 <= Steps
        <3>1. Len(report[r]) \in Nat /\ Len(report[r]) <= Steps /\ published[r] < Len(report[r])
            BY <1>2, LenProperties DEF TypeOK, PublishStep
        <3> QED
            BY <3>1 DEF TypeOK
    <2>2. e \in Event
        BY <2>1, StepEventType
    <2>3. e.kind = "step" /\ e.ordinal = published[r] + 1
        BY DEF StepEvent
    <2>4. /\ UNCHANGED <<stream, seen, target, worker>>
          /\ queue' = [queue EXCEPT ![r] = Append(@, e)]
          /\ published' \in [Run -> Nat] /\ published'[r] = published[r] + 1
          /\ \A o \in Run \ {r} : published'[o] = published[o]
          /\ worker[r] \notin Published
        BY <1>2, <2>1 DEF PublishStep, TypeOK
    <2>5. Known(e, worker'[r], published'[r]) /\ N(e) > published[r] /\ published[r] <= published'[r]
        <3> HIDE DEF e
        <3> QED
            BY <2>1, <2>2, <2>3, <2>4 DEF Known, N
    <2> HIDE DEF e
    <2> QED
        BY <2>2, <2>4, <2>5, EventPublished
<1>3. ASSUME NEW r \in Run, NEW e \in Event, e.kind \in Terminal, Publish(r, e),
             worker[r] \in {"announcing", "failing"}
      PROVE  Once'
    <2>1. published[r] \in Nat /\ published[r] <= Steps
        <3>1. Len(report[r]) \in Nat /\ Len(report[r]) <= Steps /\ published[r] <= Len(report[r])
            BY LenProperties DEF TypeOK
        <3> QED
            BY <1>0, <3>1
    <2>2. /\ UNCHANGED <<stream, seen, target, published>>
          /\ queue' = [queue EXCEPT ![r] = Append(@, e)]
          /\ worker'[r] = "finishing" /\ \A o \in Run \ {r} : worker'[o] = worker[o]
          /\ published' \in [Run -> Nat]
          /\ worker[r] \notin Published
        BY <1>3 DEF Publish, TypeOK
    <2>3. Known(e, worker'[r], published'[r]) /\ N(e) > published[r] /\ published[r] <= published'[r]
        BY <1>3, <2>1, <2>2 DEF Known, N, Terminal
    <2> QED
        BY <2>2, <2>3, EventPublished
<1>4. ASSUME NEW r \in Run, PublishDone(r) PROVE Once'
    <2>1. runId[r] \in Nat /\ report[r] \in Seq(BOOLEAN)
        BY LenProperties DEF TypeOK
    <2>2. Done(report[r], runId[r]) \in Event /\ Done(report[r], runId[r]).kind \in Terminal
        BY <2>1, DoneType DEF Done, Terminal
    <2> QED
        BY <1>3, <1>4, <2>2 DEF PublishDone
<1>5. ASSUME NEW r \in Run, PublishError(r) PROVE Once'
    BY <1>3, <1>5, NoEventType DEF PublishError, Error, Terminal
<1>6. ASSUME NEW s \in Stream,
             \/ OpenStream(s) \/ Admit(s) \/ OpenFails(s)
             \/ KeepAlive(s) \/ EndOrContinue(s) \/ WriteFails(s)
      PROVE  Once'
    <2>1. UNCHANGED <<published, worker, queue, target, seen>>
        BY <1>6 DEF OpenStream, Admit, OpenFails, KeepAlive, EndOrContinue, WriteFails, Move
    <2>2. /\ \A t \in Stream \ {s} : stream'[t] = stream[t]
          /\ stream'[s].pc # "sending" /\ stream'[s].event = NoEvent
        <3>1. PICK pc \in {"queued", "waiting", "refused", "idling", "ended"} : Move(s, pc, NoEvent)
            BY <1>6 DEF OpenStream, Admit, OpenFails, KeepAlive, EndOrContinue, WriteFails
        <3> QED
            BY <3>1 DEF Move, TypeOK
    <2>3. \A t \in Stream : /\ Held(stream'[t]) = Held(stream[t]) \/ Held(stream'[t]) = {}
                            /\ stream'[t].pc = "sending" <=> Held(stream'[t]) # {}
        BY <1>0, <2>2
    <2> QED
        BY <1>0, <2>1, <2>3, NothingTaken
<1>7. ASSUME NEW s \in Stream, Leave(s) PROVE Once'
    BY <1>0, <1>7, NothingTaken DEF Leave
<1>8. ASSUME Restart PROVE Once'
    <2>1. UNCHANGED <<published, target, seen>> /\ \A r \in Run : queue'[r] = <<>>
        BY <1>8 DEF Restart
    <2>2. \A r \in Run : worker'[r] \notin Published =>
                         worker[r] \notin Published
        BY <1>8 DEF Restart
    <2>3. \A t \in Stream : /\ Held(stream'[t]) = Held(stream[t]) \/ Held(stream'[t]) = {}
                            /\ stream'[t].pc = "sending" <=> Held(stream'[t]) # {}
        BY <1>0, <1>8 DEF Restart
    <2>4. \A r \in Run : published'[r] \in Nat /\ published[r] <= published'[r]
        BY <1>0, <2>1
    <2> QED
        BY <2>1, <2>2, <2>3, <2>4, NothingTaken
<1>9. ASSUME CliSaves PROVE Once'
    <2>1. UNCHANGED <<published, worker, queue, stream, target, seen>>
        BY <1>9 DEF CliSaves
    <2>2. \A r \in Run : published'[r] \in Nat /\ published[r] <= published'[r]
        BY <1>0, <2>1
    <2>3. \A t \in Stream : stream'[t].pc = "sending" <=> Held(stream'[t]) # {}
        BY <1>0, <2>1
    <2> QED
        BY <2>1, <2>2, <2>3, NothingTaken
<1>10. ASSUME UNCHANGED vars PROVE Once'
    BY <1>0, <1>10, NothingTaken DEF vars
<1> QED
    BY <1>1, <1>2, <1>4, <1>5, <1>6, <1>7, <1>8, <1>9, <1>10, EventTaken, EventSent
       DEF Next, ExecuteRun, StreamRun

(***************************************************************************)
(* Whatever the runs, the streams and the restarts, no event of a run      *)
(* reaches two browsers or one browser twice, and a browser sees a run's   *)
(* events in the order they were published in (app.py:94-142, 326-338).    *)
(***************************************************************************)
THEOREM EachOnce == Spec => []EachEventOnce
<1>1. Once => EachEventOnce
    <2> SUFFICES ASSUME Once PROVE EachEventOnce
        OBVIOUS
    <2>1. ASSUME NEW s \in Stream
          PROVE  Ordered(seen[s]) /\ \A i \in DOMAIN seen[s] :
                     seen[s][i] \in Event /\ seen[s][i].kind # "none"
                     /\ (seen[s][i].kind = "step" => seen[s][i].ordinal <= Steps)
        <3>1. StreamOK(stream[s], seen[s], queue[target[s]], worker[target[s]], published[target[s]])
            BY DEF Once
        <3> QED
            BY <3>1 DEF StreamOK, Elems, Known
    <2>2. ASSUME NEW e \in Event, NEW f \in Event, e.kind # "none", f.kind # "none",
                 f.kind = "step" => f.ordinal <= Steps, N(e) < N(f)
          PROVE  Later(e, f)
        <3>1. e.ordinal \in Nat /\ f.ordinal \in Nat /\ f.kind \in {"step"} \cup Terminal
            BY <2>2 DEF Event
        <3>2. f.kind = "step" => "step" \notin Terminal
            BY DEF Terminal
        <3>3. CASE e.kind = "step"
            BY <2>2, <3>1, <3>3 DEF Later, N
        <3>4. CASE e.kind # "step"
            <4>1. N(e) = Steps + 1 /\ N(f) <= Steps + 1 /\ N(f) \in Nat
                BY <2>2, <3>1, <3>4 DEF N
            <4> QED
                BY <2>2, <4>1
        <3> QED
            BY <3>3, <3>4
    <2>3. ASSUME NEW s \in Stream, NEW i \in DOMAIN seen[s], NEW j \in DOMAIN seen[s], i < j
          PROVE  Later(seen[s][i], seen[s][j])
        BY <2>1, <2>2, <2>3 DEF Ordered
    <2>4. ASSUME NEW s \in Stream, NEW t \in Stream, s # t, target[s] = target[t],
                 NEW i \in DOMAIN seen[s], NEW j \in DOMAIN seen[t]
          PROVE  seen[s][i] # seen[t][j]
        <3>1. N(seen[s][i]) # N(seen[t][j])
            BY <2>4 DEF Once, Elems
        <3> QED
            BY <3>1
    <2> QED
        BY <2>3, <2>4 DEF EachEventOnce
<1>2. TypeOK /\ Once /\ [Next]_vars => TypeOK' /\ Once'
    BY StepTyped, StepOnce
<1> QED
    BY <1>1, <1>2, InitTyped, InitOnce, PTL DEF Spec

(***************************************************************************)
(* The events a run has published so far.  A stream that nobody shares its *)
(* run with has shown the first of them, holds the next if it is sending,  *)
(* and the rest are in the queue.                                          *)
(***************************************************************************)
SoFar(r) ==
    [k \in 1 .. published[r] + (IF worker[r] \in Published THEN 1 ELSE 0) |->
        IF k <= published[r] THEN StepEvent(report[r], k)
        ELSE IF runId[r] # 0 THEN Done(report[r], runId[r]) ELSE Error]

InHand(v) == IF v.pc = "sending" THEN 1 ELSE 0

\* A stream at v has shown h of the events f, with q in the queue.
Follows(v, h, q, f) ==
    LET n == Len(h) + InHand(v)
    IN  /\ Len(f) = n + Len(q)
        /\ \A i \in 1 .. Len(h) : f[i] = h[i]
        /\ v.pc = "sending" => f[n] = v.event
        /\ \A i \in 1 .. Len(q) : f[n + i] = q[i]

Following == {"unused", "queued", "waiting", "sending", "idling"}

Told(s) ==
    LET r == target[s] IN
    Alone(s) /\ reading[s] =>
        /\ stream[s].pc \in Following /\ worker[r] # "killed" =>
              Follows(stream[s], seen[s], queue[r], SoFar(r))
        /\ stream[s].pc = "ended" => worker[r] \in Published /\ seen[s] = SoFar(r)

\* The run's thread has saved when it announces, and marks its channel at the end.
Working(r) ==
    /\ worker[r] \in {"none", "executing", "publishing", "failing"} => runId[r] = 0
    /\ worker[r] = "announcing" => runId[r] # 0
    /\ worker[r] = "none" => published[r] = 0
    /\ r \in channels => worker[r] \notin {"none", "killed"}
    /\ finished[r] => worker[r] = "over"

Shown ==
    /\ \A r \in Run : Working(r)
    /\ \A s \in Stream : Told(s) /\ (stream[s].pc \in Holding => target[s] \in channels)

LEMMA SoFarType ==
    ASSUME TypeOK, NEW r \in Run
    PROVE  /\ SoFar(r) \in Seq(Event) /\ published[r] \in Nat
           /\ Len(SoFar(r)) = published[r] + (IF worker[r] \in Published THEN 1 ELSE 0)
<1> DEFINE n == published[r] + (IF worker[r] \in Published THEN 1 ELSE 0)
<1>1. /\ report[r] \in Seq(BOOLEAN) /\ runId[r] \in Nat /\ published[r] \in Nat
      /\ published[r] <= Len(report[r]) /\ Len(report[r]) \in Nat
    BY LenProperties DEF TypeOK
<1>2. n \in Nat
    BY <1>1
<1>3. \A k \in 1 .. n : SoFar(r)[k] \in Event
    <2>1. \A k \in 1 .. n : k <= published[r] => k \in 1 .. Len(report[r])
        BY <1>1, <1>2
    <2>2. \A k \in 1 .. n : k <= published[r] => StepEvent(report[r], k) \in Event
        BY <1>1, <2>1, StepEventType
    <2>3. Done(report[r], runId[r]) \in Event /\ Error \in Event
        BY <1>1, DoneType, NoEventType
    <2> QED
        BY <2>2, <2>3 DEF SoFar
<1>4. SoFar(r) = [k \in 1 .. n |-> SoFar(r)[k]]
    BY DEF SoFar
<1> HIDE DEF n
<1>5. SoFar(r) \in Seq(Event)
    BY <1>2, <1>3, <1>4, IsASeq
<1>6. Len(SoFar(r)) \in Nat /\ 1 .. Len(SoFar(r)) = 1 .. n
    BY <1>4, <1>5, LenProperties
<1>7. Len(SoFar(r)) = n
    BY <1>2, <1>6
<1> QED
    BY <1>1, <1>5, <1>7 DEF n

LEMMA InitShown == Init => Shown
<1> SUFFICES ASSUME Init PROVE Shown
    OBVIOUS
<1>1. \A s \in Stream : stream[s].pc = "unused" /\ seen[s] = <<>> /\ target[s] \in Run
    BY DEF Init
<1>2. \A r \in Run : queue[r] = <<>> /\ published[r] = 0 /\ worker[r] = "none" /\ runId[r] = 0
                     /\ ~finished[r] /\ r \notin channels
    BY DEF Init
<1>3. ASSUME NEW s \in Stream PROVE Told(s)
    <2>1. /\ InHand(stream[s]) = 0 /\ Len(seen[s]) = 0 /\ Len(queue[target[s]]) = 0
          /\ stream[s].pc = "unused"
        BY <1>1, <1>2, EmptySeq DEF InHand
    <2>2. Len(SoFar(target[s])) = 0
        BY <1>1, <1>2, InitTyped, SoFarType
    <2> QED
        BY <2>1, <2>2 DEF Told, Follows
<1> QED
    BY <1>1, <1>2, <1>3 DEF Shown, Working, Holding

\* A stream that is alone on its run has been, and one that is read has been.
LEMMA WasAlone ==
    ASSUME TypeOK, [Next]_vars, NEW s \in Stream, Alone(s)', reading'[s]
    PROVE  Alone(s) /\ reading[s] /\ target' = target
<1> USE DEF threadVars, brokerVars, streamVars
<1>1. target' = target
    BY DEF Next, ExecuteRun, StreamRun, Post, RunStep, RunReturns, RunRaises, PublishStep, Save,
           SaveRaises, PublishDone, PublishError, Publish, SetFinished, OpenStream, Admit, OpenFails, Get, Send,
           KeepAlive, EndOrContinue, WriteFails, Move, Leave, Restart, CliSaves, vars
<1>2. ASSUME NEW t \in Stream, stream'[t].pc \in {"unused", "queued", "refused"}
      PROVE  stream[t].pc \in {"unused", "queued", "refused"}
    <2>1. ASSUME NEW u \in Stream, OpenStream(u) \/ StreamRun(u)
          PROVE  stream[t].pc \in {"unused", "queued", "refused"}
        <3>1. CASE OpenStream(u) \/ Admit(u) \/ OpenFails(u)
            BY <1>2, <3>1 DEF OpenStream, Admit, OpenFails, Move, TypeOK
        <3>2. CASE Get(u) \/ Send(u) \/ KeepAlive(u) \/ EndOrContinue(u) \/ WriteFails(u)
            <4>1. PICK pc \in {"sending", "ended", "waiting", "idling"} : \E e : Move(u, pc, e)
                BY <3>2 DEF Get, Send, KeepAlive, EndOrContinue, WriteFails
            <4> QED
                BY <1>2, <4>1 DEF Move, TypeOK
        <3> QED
            BY <2>1, <3>1, <3>2 DEF StreamRun
    <2>2. CASE \/ \E r \in Run : Post(r) \/ ExecuteRun(r)
               \/ \E u \in Stream : Leave(u)
               \/ CliSaves \/ UNCHANGED vars
        <3>1. stream' = stream
            BY <2>2 DEF Post, ExecuteRun, RunStep, RunReturns, RunRaises, PublishStep, Save,
                        SaveRaises, PublishDone, PublishError, Publish, SetFinished, Leave, CliSaves, vars
        <3> QED
            BY <1>2, <3>1
    <2>3. CASE Restart
        BY <1>2, <2>3 DEF Restart
    <2> QED
        BY <2>1, <2>2, <2>3 DEF Next
<1>3. reading[s]
    BY DEF Next, ExecuteRun, StreamRun, Post, RunStep, RunReturns, RunRaises, PublishStep, Save,
           SaveRaises, PublishDone, PublishError, Publish, SetFinished, OpenStream, Admit, OpenFails, Get, Send,
           KeepAlive, EndOrContinue, WriteFails, Move, Leave, Restart, CliSaves, vars, TypeOK
<1> QED
    BY <1>1, <1>2, <1>3 DEF Alone

(***************************************************************************)
(* The four ways a stream goes on: an event is added to the queue, taken   *)
(* from it, sent, or none of these.                                        *)
(***************************************************************************)
LEMMA FollowsGrows ==
    ASSUME NEW v, NEW h \in Seq(Event), NEW q \in Seq(Event), NEW f \in Seq(Event), NEW e \in Event,
           Follows(v, h, q, f)
    PROVE  Follows(v, h, Append(q, e), Append(f, e))
<1> DEFINE n == Len(h) + InHand(v)
<1>1. /\ Len(h) \in Nat /\ Len(q) \in Nat /\ Len(f) \in Nat /\ n \in Nat /\ n >= Len(h)
      /\ v.pc = "sending" => n \in Nat \ {0}
    BY LenProperties DEF InHand
<1>2. /\ Len(Append(q, e)) = Len(q) + 1 /\ Append(q, e)[Len(q) + 1] = e
      /\ \A i \in 1 .. Len(q) : Append(q, e)[i] = q[i]
      /\ Len(Append(f, e)) = Len(f) + 1 /\ Append(f, e)[Len(f) + 1] = e
      /\ \A i \in 1 .. Len(f) : Append(f, e)[i] = f[i]
    BY AppendProperties
<1>3. Len(f) = n + Len(q)
    BY DEF Follows
<1> HIDE DEF n
<1>4. /\ \A i \in 1 .. Len(h) : i \in 1 .. Len(f)
      /\ v.pc = "sending" => n \in 1 .. Len(f)
      /\ \A i \in 1 .. Len(q) : n + i \in 1 .. Len(f)
      /\ \A i \in 1 .. Len(q) + 1 : i \in 1 .. Len(q) \/ i = Len(q) + 1
      /\ n + (Len(q) + 1) = Len(f) + 1
    BY <1>1, <1>3
<1>5. \A i \in 1 .. Len(q) + 1 : Append(f, e)[n + i] = Append(q, e)[i]
    BY <1>2, <1>4 DEF Follows, n
<1> QED
    BY <1>2, <1>4, <1>5 DEF Follows, n

LEMMA FollowsTaken ==
    ASSUME NEW v, NEW h \in Seq(Event), NEW q \in Seq(Event), NEW f \in Seq(Event),
           Follows(v, h, q, f), v.pc # "sending", q # <<>>
    PROVE  Follows([pc |-> "sending", event |-> Head(q)], h, Tail(q), f)
<1>1. /\ Len(h) \in Nat /\ Len(q) \in Nat \ {0} /\ Len(Tail(q)) = Len(q) - 1 /\ Head(q) = q[1]
      /\ \A i \in 1 .. Len(Tail(q)) : Tail(q)[i] = q[i + 1]
    BY EmptySeq, LenProperties, HeadTailProperties
<1>2. /\ Len(f) = Len(h) + Len(q) /\ \A i \in 1 .. Len(h) : f[i] = h[i]
      /\ \A i \in 1 .. Len(q) : f[Len(h) + i] = q[i]
    BY <1>1 DEF Follows, InHand
<1>3. /\ Len(f) = Len(h) + 1 + Len(Tail(q)) /\ 1 \in 1 .. Len(q)
      /\ \A i \in 1 .. Len(Tail(q)) : i + 1 \in 1 .. Len(q) /\ Len(h) + 1 + i = Len(h) + (i + 1)
    BY <1>1, <1>2
<1> QED
    BY <1>1, <1>2, <1>3 DEF Follows, InHand

LEMMA FollowsSent ==
    ASSUME NEW v, NEW h \in Seq(Event), NEW q \in Seq(Event), NEW f \in Seq(Event),
           Follows(v, h, q, f), v.pc = "sending", v.event \in Event, NEW w, w.pc # "sending"
    PROVE  Follows(w, Append(h, v.event), q, f)
<1>1. /\ Len(h) \in Nat /\ Len(Append(h, v.event)) = Len(h) + 1
      /\ Append(h, v.event)[Len(h) + 1] = v.event
      /\ \A i \in 1 .. Len(h) : Append(h, v.event)[i] = h[i]
    BY AppendProperties, LenProperties
<1>2. /\ Len(f) = Len(h) + 1 + Len(q) /\ \A i \in 1 .. Len(h) : f[i] = h[i]
      /\ f[Len(h) + 1] = v.event
      /\ \A i \in 1 .. Len(q) : f[Len(h) + 1 + i] = q[i]
    BY DEF Follows, InHand
<1>3. \A i \in 1 .. Len(h) + 1 : i \in 1 .. Len(h) \/ i = Len(h) + 1
    BY <1>1
<1>4. InHand(w) = 0
    BY DEF InHand
<1> DEFINE g == Append(h, v.event)
<1>5. Len(g) + InHand(w) = Len(h) + 1 /\ \A i \in 1 .. Len(g) : f[i] = g[i]
    BY <1>1, <1>2, <1>3, <1>4
<1> HIDE DEF g
<1>6. Follows(w, g, q, f)
    BY <1>2, <1>5 DEF Follows
<1> QED
    BY <1>6 DEF g

LEMMA FollowsOn ==
    ASSUME NEW v, NEW h, NEW q, NEW f, Follows(v, h, q, f), v.pc # "sending", NEW w, w.pc # "sending"
    PROVE  Follows(w, h, q, f)
BY DEF Follows, InHand

\* A stream that has shown all there is.
LEMMA FollowsAll ==
    ASSUME NEW v, NEW h \in Seq(Event), NEW f \in Seq(Event), NEW q \in Seq(Event), v.pc # "sending",
           Follows(v, h, q, f), Len(q) = 0
    PROVE  h = f
<1>1. Len(h) \in Nat /\ Len(f) = Len(h) /\ \A i \in 1 .. Len(h) : f[i] = h[i]
    BY LenProperties DEF Follows, InHand
<1> QED
    BY <1>1, SeqEqual

(***************************************************************************)
(* What a run has published changes only when it publishes.                *)
(***************************************************************************)
LEMMA SoFarKept ==
    ASSUME TypeOK, NEW r \in Run, published'[r] = published[r], report'[r] = report[r],
           worker'[r] \in Published <=> worker[r] \in Published,
           worker[r] \in Published => runId'[r] = runId[r]
    PROVE  SoFar(r)' = SoFar(r)
<1>1. CASE worker[r] \in Published
    BY <1>1 DEF SoFar
<1>2. CASE worker[r] \notin Published
    <2>1. \A k \in 1 .. published[r] + 0 : k <= published[r]
        BY DEF TypeOK
    <2> QED
        BY <1>2, <2>1 DEF SoFar
<1> QED
    BY <1>1, <1>2

LEMMA SoFarAtStep ==
    ASSUME TypeOK, NEW r \in Run, RunStep(r)
    PROVE  SoFar(r)' = SoFar(r)
<1>1. /\ report[r] \in Seq(BOOLEAN) /\ published[r] \in Nat /\ Len(report[r]) \in Nat
      /\ published[r] <= Len(report[r])
    BY LenProperties DEF TypeOK
<1>2. PICK b \in BOOLEAN : report'[r] = Append(report[r], b)
    BY DEF RunStep, TypeOK
<1>3. \A k \in 1 .. published[r] : report'[r][k] = report[r][k]
    <2>1. \A k \in 1 .. Len(report[r]) : Append(report[r], b)[k] = report[r][k]
        BY <1>1, AppendProperties
    <2> QED
        BY <1>1, <1>2, <2>1
<1>4. \A k \in 1 .. published[r] : StepEvent(report'[r], k) = StepEvent(report[r], k)
    BY <1>3 DEF StepEvent
<1>5. published' = published /\ worker' = worker /\ worker[r] \notin Published
    BY DEF RunStep
<1> QED
    BY <1>1, <1>4, <1>5 DEF SoFar

LEMMA SoFarGrows ==
    ASSUME TypeOK, TypeOK', NEW r \in Run, NEW e \in Event, worker[r] \notin Published,
           report'[r] = report[r], runId'[r] = runId[r],
           \/ /\ worker'[r] \notin Published /\ published'[r] = published[r] + 1
              /\ e = StepEvent(report[r], published[r] + 1)
           \/ /\ worker'[r] \in Published /\ published'[r] = published[r]
              /\ e = IF runId[r] # 0 THEN Done(report[r], runId[r]) ELSE Error
    PROVE  SoFar(r)' = Append(SoFar(r), e)
<1> DEFINE f == SoFar(r)
           g == SoFar(r)'
           n == published[r]
<1>1. f \in Seq(Event) /\ n \in Nat /\ Len(f) = n
    BY SoFarType
<1>2. SoFar(r)' \in Seq(Event) /\ Len(SoFar(r)') = n + 1
    <2>1. /\ SoFar(r)' \in Seq(Event)
          /\ Len(SoFar(r)') = published'[r] + (IF worker'[r] \in Published THEN 1 ELSE 0)
        <3>1. Event' = Event
            BY DEF Event
        <3>2. (SoFar(r) \in Seq(Event) /\ published[r] \in Nat
                /\ Len(SoFar(r)) = published[r] + (IF worker[r] \in Published THEN 1 ELSE 0))'
            BY SoFarType, PTL
        <3> QED
            BY <3>2
    <2> QED
        BY <1>1, <2>1
<1>3. /\ Append(f, e) \in Seq(Event) /\ Len(Append(f, e)) = n + 1 /\ Append(f, e)[n + 1] = e
      /\ \A k \in 1 .. n : Append(f, e)[k] = f[k]
    BY <1>1, AppendProperties
<1>4. \A k \in 1 .. n : f[k] = StepEvent(report[r], k)
    BY <1>1 DEF SoFar
<1>5. /\ \A k \in 1 .. n : g[k] = StepEvent(report[r], k)
      /\ g[n + 1] = e
    <2>1. CASE worker'[r] \notin Published
        <3>1. g = [k \in 1 .. (n + 1) + 0 |->
                      IF k <= n + 1 THEN StepEvent(report[r], k)
                      ELSE IF runId[r] # 0 THEN Done(report[r], runId[r]) ELSE Error]
            BY <2>1 DEF SoFar
        <3>2. e = StepEvent(report[r], n + 1)
            BY <2>1
        <3> HIDE DEF n, g
        <3> QED
            BY <1>1, <3>1, <3>2
    <2>2. CASE worker'[r] \in Published
        <3>1. g = [k \in 1 .. n + 1 |->
                      IF k <= n THEN StepEvent(report[r], k)
                      ELSE IF runId[r] # 0 THEN Done(report[r], runId[r]) ELSE Error]
            BY <2>2 DEF SoFar
        <3>2. e = IF runId[r] # 0 THEN Done(report[r], runId[r]) ELSE Error
            BY <2>2
        <3> HIDE DEF n, g
        <3> QED
            BY <1>1, <3>1, <3>2
    <2> QED
        BY <2>1, <2>2
<1> HIDE DEF f, g, n
<1>6. \A k \in 1 .. n + 1 : g[k] = Append(f, e)[k]
    <2>1. \A k \in 1 .. n + 1 : k \in 1 .. n \/ k = n + 1
        BY <1>1
    <2> QED
        BY <1>3, <1>4, <1>5, <2>1
<1>7. g = Append(f, e)
    BY <1>2, <1>3, <1>6, SeqEqual DEF g
<1> QED
    BY <1>7 DEF f, g

(***************************************************************************)
(* Told is kept by a step that leaves the stream alone, and its run's      *)
(* queue and events; and by one that adds an event to both.                *)
(***************************************************************************)
LEMMA ToldKept ==
    ASSUME NEW s \in Stream, Told(s), Alone(s)' /\ reading'[s] => Alone(s) /\ reading[s],
           target'[s] = target[s], stream'[s] = stream[s], seen'[s] = seen[s],
           queue'[target[s]] = queue[target[s]], SoFar(target[s])' = SoFar(target[s]),
           worker'[target[s]] # "killed" => worker[target[s]] # "killed",
           worker[target[s]] \in Published => worker'[target[s]] \in Published
    PROVE  Told(s)'
BY DEF Told

LEMMA ToldMore ==
    ASSUME TypeOK, NEW s \in Stream, Told(s), Alone(s)' /\ reading'[s] => Alone(s) /\ reading[s],
           target'[s] = target[s], stream'[s] = stream[s], seen'[s] = seen[s], NEW e \in Event,
           queue'[target[s]] = Append(queue[target[s]], e),
           SoFar(target[s])' = Append(SoFar(target[s]), e),
           worker[target[s]] \notin Published
    PROVE  Told(s)'
<1> DEFINE r == target[s]
<1>1. /\ r \in Run /\ seen[s] \in Seq(Event) /\ queue[r] \in Seq(Event)
      /\ SoFar(r) \in Seq(Event)
    BY SoFarType DEF TypeOK
<1>2. ASSUME Alone(s)', reading'[s], stream[s].pc \in Following
      PROVE  Follows(stream[s], seen[s], queue'[r], SoFar(r)')
    <2>1. Follows(stream[s], seen[s], queue[r], SoFar(r))
        BY <1>2 DEF Told
    <2> QED
        BY <1>1, <2>1, FollowsGrows
<1>3. Alone(s)' /\ reading'[s] => stream[s].pc # "ended"
    BY DEF Told
<1> QED
    BY <1>2, <1>3 DEF Told

LEMMA GetTold ==
    ASSUME TypeOK, Shown, [Next]_vars, NEW u \in Stream, Get(u), NEW s \in Stream
    PROVE  Told(s)'
<1> DEFINE r == target[s]
<1>1. /\ UNCHANGED <<threadVars, channels, target, reading, seen>> /\ stream[u].pc = "waiting"
      /\ queue[target[u]] # <<>> /\ queue'[target[u]] = Tail(queue[target[u]])
      /\ \A o \in Run \ {target[u]} : queue'[o] = queue[o]
      /\ stream'[u] = [pc |-> "sending", event |-> Head(queue[target[u]])]
      /\ \A t \in Stream \ {u} : stream'[t] = stream[t]
    BY DEF Get, Move, TypeOK
<1>2. /\ Alone(s)' /\ reading'[s] => Alone(s) /\ reading[s]
      /\ Told(s) /\ r \in Run /\ seen[s] \in Seq(Event) /\ queue[r] \in Seq(Event)
      /\ SoFar(r) \in Seq(Event)
    BY WasAlone, SoFarType DEF Shown, TypeOK
<1>3. SoFar(r)' = SoFar(r)
    BY <1>1 DEF SoFar, threadVars
<1>4. CASE s = u
    <2>1. ASSUME Alone(s), reading[s], worker[r] # "killed"
          PROVE  Follows(stream'[s], seen[s], Tail(queue[r]), SoFar(r))
        <3>1. Follows(stream[s], seen[s], queue[r], SoFar(r))
            BY <1>1, <1>2, <1>4, <2>1 DEF Told, Following
        <3> QED
            BY <1>1, <1>2, <1>4, <3>1, FollowsTaken
    <2>2. stream'[s].pc # "ended"
        BY <1>1, <1>4
    <2> QED
        BY <1>1, <1>2, <1>3, <1>4, <2>1, <2>2 DEF Told, threadVars
<1>5. CASE s # u /\ target[s] = target[u]
    <2>1. ~Alone(s)'
        BY <1>1, <1>5 DEF Alone
    <2> QED
        BY <2>1 DEF Told
<1>6. CASE s # u /\ target[s] # target[u]
    BY <1>1, <1>2, <1>3, <1>6, ToldKept DEF threadVars, TypeOK
<1> QED
    BY <1>4, <1>5, <1>6

LEMMA SendTold ==
    ASSUME TypeOK, Shown, [Next]_vars, NEW u \in Stream, Send(u), NEW s \in Stream
    PROVE  Told(s)'
<1> DEFINE r == target[s]
           e == stream[s].event
<1>1. /\ UNCHANGED <<threadVars, channels, target, reading, queue>> /\ stream[u].pc = "sending"
      /\ stream'[u] = [pc |-> IF stream[u].event.kind \in Terminal THEN "ended" ELSE "waiting",
                       event |-> NoEvent]
      /\ \A t \in Stream \ {u} : stream'[t] = stream[t] /\ seen'[t] = seen[t]
      /\ reading[u] => seen'[u] = Append(seen[u], stream[u].event)
    BY DEF Send, Move, TypeOK
<1>2. /\ Alone(s)' /\ reading'[s] => Alone(s) /\ reading[s]
      /\ Told(s) /\ r \in Run /\ seen[s] \in Seq(Event) /\ queue[r] \in Seq(Event) /\ e \in Event
    BY WasAlone DEF Shown, TypeOK
<1>3. SoFar(r)' = SoFar(r)
    BY <1>1 DEF SoFar, threadVars
<1>4. CASE s # u
    BY <1>1, <1>2, <1>3, <1>4, ToldKept DEF threadVars
<1>5. CASE s = u
    <2>1. SUFFICES ASSUME Alone(s), reading[s]
                   PROVE  /\ Follows(stream'[s], seen'[s], queue[r], SoFar(r))
                          /\ stream'[s].pc = "ended" => worker[r] \in Published /\ seen'[s] = SoFar(r)
        BY <1>1, <1>2, <1>3 DEF Told, threadVars
    <2>2. SoFar(r) \in Seq(Event) /\ published[r] \in Nat
          /\ Len(SoFar(r)) = published[r] + (IF worker[r] \in Published THEN 1 ELSE 0)
        BY <1>2, SoFarType
    <2>3. Follows(stream[s], seen[s], queue[r], SoFar(r))
        <3>1. r \in channels
            BY <1>1, <1>5 DEF Shown, Holding
        <3>2. worker[r] # "killed"
            BY <1>2, <3>1 DEF Shown, Working
        <3> QED
            BY <1>1, <1>2, <1>5, <2>1, <3>2 DEF Told, Following
    <2>4. stream'[s].pc # "sending" /\ seen'[s] = Append(seen[s], e)
        BY <1>1, <1>5, <2>1
    <2>5. Follows(stream'[s], seen'[s], queue[r], SoFar(r))
        BY <1>1, <1>2, <1>5, <2>2, <2>3, <2>4, FollowsSent
    <2>6. ASSUME stream'[s].pc = "ended"
          PROVE  worker[r] \in Published /\ Len(queue[r]) = 0
        <3> DEFINE n == Len(seen[s]) + 1
                   f == SoFar(r)
        <3>1. e.kind \in Terminal
            BY <1>1, <1>5, <2>6
        <3>2. n \in Nat /\ n >= 1 /\ Len(queue[r]) \in Nat /\ Len(f) = n + Len(queue[r]) /\ f[n] = e
            BY <1>1, <1>2, <1>5, <2>3, LenProperties DEF Follows, InHand
        <3>3. ~(n <= published[r])
            <4>1. n <= published[r] => n \in 1 .. published[r] + (IF worker[r] \in Published THEN 1 ELSE 0)
                BY <2>2, <3>2
            <4>2. n <= published[r] => f[n] = StepEvent(report[r], n)
                BY <4>1 DEF SoFar
            <4>3. StepEvent(report[r], n).kind \notin Terminal
                BY DEF StepEvent, Terminal
            <4> QED
                BY <3>1, <3>2, <4>2, <4>3
        <3> HIDE DEF n, f
        <3>4. Len(f) = published[r] + (IF worker[r] \in Published THEN 1 ELSE 0)
            BY <2>2 DEF f
        <3> QED
            BY <2>2, <3>2, <3>3, <3>4
    <2>7. stream'[s].pc = "ended" => seen'[s] = SoFar(r)
        <3>1. seen'[s] \in Seq(Event)
            BY <1>2, <2>4, AppendProperties
        <3> QED
            BY <1>2, <2>2, <2>4, <2>5, <2>6, <3>1, FollowsAll
    <2> QED
        BY <2>5, <2>6, <2>7
<1> QED
    BY <1>4, <1>5

LEMMA MoveTold ==
    ASSUME TypeOK, Shown, [Next]_vars, NEW u \in Stream,
           OpenStream(u) \/ Admit(u) \/ OpenFails(u) \/ KeepAlive(u) \/ EndOrContinue(u) \/ WriteFails(u),
           NEW s \in Stream
    PROVE  Told(s)'
<1> DEFINE r == target[s]
<1>1. PICK pc \in {"queued", "waiting", "refused", "idling", "ended"} : Move(u, pc, NoEvent)
    BY DEF OpenStream, Admit, OpenFails, KeepAlive, EndOrContinue, WriteFails
<1>2. /\ UNCHANGED <<threadVars, channels, target, reading, seen, queue>>
      /\ stream'[u] = [pc |-> pc, event |-> NoEvent]
      /\ \A t \in Stream \ {u} : stream'[t] = stream[t]
    BY <1>1 DEF OpenStream, Admit, OpenFails, KeepAlive, EndOrContinue, WriteFails, Move, TypeOK
<1>3. /\ Alone(s)' /\ reading'[s] => Alone(s) /\ reading[s]
      /\ Told(s) /\ r \in Run /\ seen[s] \in Seq(Event) /\ queue[r] \in Seq(Event)
      /\ SoFar(r) \in Seq(Event)
    BY WasAlone, SoFarType DEF Shown, TypeOK
<1>4. SoFar(r)' = SoFar(r)
    BY <1>2 DEF SoFar, threadVars
<1>5. CASE s # u
    BY <1>2, <1>3, <1>4, <1>5, ToldKept DEF threadVars
<1>6. CASE s = u
    <2>1. \/ stream[s].pc \in Following /\ stream[s].pc # "sending"
          \/ ~reading[s]
        BY <1>6 DEF OpenStream, Admit, OpenFails, KeepAlive, EndOrContinue, WriteFails, Following
    <2>2. SUFFICES ASSUME Alone(s), reading[s]
                   PROVE  /\ pc # "refused" /\ worker[r] # "killed"
                                => Follows(stream'[s], seen[s], queue[r], SoFar(r))
                          /\ pc = "ended" => worker[r] \in Published /\ seen[s] = SoFar(r)
        BY <1>2, <1>3, <1>4, <1>6 DEF Told, threadVars, Following
    <2>3. stream[s].pc \in Following /\ stream[s].pc # "sending" /\ stream'[s].pc # "sending"
        BY <1>2, <1>6, <2>1, <2>2
    <2>4. worker[r] # "killed" => Follows(stream[s], seen[s], queue[r], SoFar(r))
        BY <1>3, <2>2, <2>3 DEF Told
    <2>5. worker[r] # "killed" => Follows(stream'[s], seen[s], queue[r], SoFar(r))
        BY <2>3, <2>4, FollowsOn
    <2>6. ASSUME pc = "ended" PROVE worker[r] \in Published /\ seen[s] = SoFar(r)
        <3>1. stream'[s].pc = "ended"
            BY <1>2, <1>6, <2>6
        <3>2. EndOrContinue(s) /\ finished[r] /\ queue[r] = <<>>
            BY <1>6, <2>2, <3>1 DEF OpenStream, Admit, OpenFails, KeepAlive, EndOrContinue, WriteFails,
                                    Move, TypeOK
        <3>3. worker[r] = "over"
            BY <1>3, <3>2 DEF Shown, Working
        <3>4. Len(queue[r]) = 0
            BY <3>2, EmptySeq
        <3> QED
            BY <1>3, <2>3, <2>4, <3>3, <3>4, FollowsAll
    <2> QED
        BY <2>5, <2>6
<1> QED
    BY <1>5, <1>6

\* The thread of a run keeps its order: save, announce, mark the channel.
LEMMA StepWorking ==
    ASSUME TypeOK, Shown, [Next]_vars, NEW r \in Run
    PROVE  Working(r)'
<1> USE DEF threadVars, brokerVars, streamVars
<1>0. Working(r)
    BY DEF Shown
<1>1. ASSUME NEW o \in Run, Post(o) \/ RunStep(o) \/ RunReturns(o) \/ RunRaises(o) \/ PublishStep(o)
                         \/ SaveRaises(o) \/ SetFinished(o)
      PROVE  Working(r)'
    BY <1>0, <1>1 DEF Working, Post, RunStep, RunReturns, RunRaises, PublishStep, SaveRaises,
                      SetFinished, TypeOK
<1>2. ASSUME NEW o \in Run, Save(o) PROVE Working(r)'
    <2>1. Len(rows) + 1 # 0
        BY LenProperties DEF TypeOK
    <2> QED
        BY <1>0, <1>2, <2>1 DEF Working, Save, TypeOK
<1>3. ASSUME NEW o \in Run, PublishDone(o) \/ PublishError(o) PROVE Working(r)'
    BY <1>0, <1>3 DEF Working, PublishDone, PublishError, Publish, TypeOK
<1>4. CASE Restart
    BY <1>0, <1>4 DEF Working, Restart, TypeOK
<1>5. CASE \/ \E s \in Stream : OpenStream(s) \/ StreamRun(s) \/ Leave(s)
           \/ CliSaves \/ UNCHANGED vars
    <2>1. UNCHANGED <<worker, runId, published, channels, finished>>
        BY <1>5 DEF StreamRun, OpenStream, Admit, OpenFails, Get, Send, KeepAlive, EndOrContinue, WriteFails,
                    Move, Leave, CliSaves, vars
    <2> QED
        BY <1>0, <2>1 DEF Working
<1> QED
    BY <1>1, <1>2, <1>3, <1>4, <1>5 DEF Next, ExecuteRun

\* A stream in service asks for a run the broker knows.
LEMMA StepServed ==
    ASSUME TypeOK, Shown, [Next]_vars, NEW s \in Stream, stream'[s].pc \in Holding
    PROVE  target'[s] \in channels'
<1> USE DEF threadVars, brokerVars, streamVars, Holding
<1>0. stream[s].pc \in Holding => target[s] \in channels
    BY DEF Shown
<1>1. ASSUME NEW u \in Stream, OpenStream(u) \/ Admit(u) \/ OpenFails(u) PROVE target'[s] \in channels'
    <2>1. /\ UNCHANGED <<target, channels>> /\ \A t \in Stream \ {u} : stream'[t] = stream[t]
          /\ stream'[u].pc \in {"queued", "refused"} \/ target[u] \in channels
        BY <1>1 DEF OpenStream, Admit, OpenFails, Move, TypeOK
    <2> QED
        BY <1>0, <2>1
<1>2. ASSUME NEW u \in Stream, Get(u) \/ Send(u) \/ KeepAlive(u) \/ EndOrContinue(u) \/ WriteFails(u)
      PROVE  target'[s] \in channels'
    <2>1. /\ stream[u].pc \in Holding /\ UNCHANGED <<target, channels>>
          /\ \A t \in Stream \ {u} : stream'[t] = stream[t]
        BY <1>2 DEF Get, Send, KeepAlive, EndOrContinue, WriteFails, Move, TypeOK
    <2> QED
        BY <1>0, <2>1
<1>3. CASE Restart
    BY <1>3 DEF Restart
<1>4. CASE \/ \E r \in Run : Post(r) \/ ExecuteRun(r)
           \/ \E u \in Stream : Leave(u)
           \/ CliSaves \/ UNCHANGED vars
    <2>1. UNCHANGED <<stream, target>> /\ channels \subseteq channels'
        BY <1>4 DEF Post, ExecuteRun, RunStep, RunReturns, RunRaises, PublishStep, Save, SaveRaises,
                    PublishDone, PublishError, Publish, SetFinished, Leave, CliSaves, vars
    <2> QED
        BY <1>0, <2>1
<1> QED
    BY <1>1, <1>2, <1>3, <1>4 DEF Next, StreamRun

LEMMA StepTold ==
    ASSUME TypeOK, TypeOK', Shown, [Next]_vars, NEW s \in Stream
    PROVE  Told(s)'
<1> USE DEF threadVars, brokerVars, streamVars
<1> DEFINE r == target[s]
<1>0. /\ Alone(s)' /\ reading'[s] => Alone(s) /\ reading[s]
      /\ Told(s) /\ r \in Run /\ runId[r] \in Nat /\ report[r] \in Seq(BOOLEAN) /\ published[r] \in Nat
    <2>1. Alone(s)' /\ reading'[s] => Alone(s) /\ reading[s]
        BY WasAlone
    <2>2. r \in Run /\ Told(s)
        BY DEF Shown, TypeOK
    <2>3. runId[r] \in Nat /\ report[r] \in Seq(BOOLEAN) /\ published[r] \in Nat
        BY <2>2, LenProperties DEF TypeOK
    <2> QED
        BY <2>1, <2>2, <2>3
<1>1. ASSUME NEW o \in Run, Post(o) \/ RunReturns(o) \/ RunRaises(o) \/ Save(o)
                         \/ SaveRaises(o) \/ SetFinished(o)
      PROVE  Told(s)'
    <2>1. UNCHANGED <<published, report, queue, stream, seen, target>>
        BY <1>1 DEF Post, RunReturns, RunRaises, Save, SaveRaises, SetFinished
    <2>2. /\ worker'[r] \in Published <=> worker[r] \in Published
          /\ worker'[r] = "killed" <=> worker[r] = "killed"
          /\ worker[r] \in Published => runId'[r] = runId[r]
        BY <1>0, <1>1 DEF Post, RunReturns, RunRaises, Save, SaveRaises, SetFinished, TypeOK
    <2>3. SoFar(r)' = SoFar(r)
        BY <1>0, <2>1, <2>2, SoFarKept
    <2> QED
        BY <1>0, <2>1, <2>2, <2>3, ToldKept
<1>2. ASSUME NEW o \in Run, RunStep(o) PROVE Told(s)'
    <2>1. UNCHANGED <<published, worker, runId, queue, stream, seen, target>>
        BY <1>2 DEF RunStep
    <2>2. SoFar(r)' = SoFar(r)
        <3>1. CASE o = r
            <4>1. RunStep(r)
                BY <1>2, <3>1, Zenon
            <4> QED
                BY <1>0, <2>1, <4>1, SoFarAtStep
        <3>2. CASE o # r
            <4>1. report'[r] = report[r]
                BY <1>0, <1>2, <3>2 DEF RunStep, TypeOK
            <4> QED
                BY <1>0, <2>1, <4>1, SoFarKept
        <3> QED
            BY <3>1, <3>2
    <2> QED
        BY <1>0, <2>1, <2>2, ToldKept
<1>3. ASSUME NEW o \in Run, NEW e \in Event, worker[o] \notin Published,
             UNCHANGED <<report, runId, stream, seen, target>>,
             queue' = [queue EXCEPT ![o] = Append(@, e)],
             \A p \in Run \ {o} : worker'[p] = worker[p] /\ published'[p] = published[p],
             \/ /\ worker'[o] \notin Published /\ published'[o] = published[o] + 1
                /\ e = StepEvent(report[o], published[o] + 1)
             \/ /\ worker'[o] \in Published /\ published'[o] = published[o]
                /\ e = IF runId[o] # 0 THEN Done(report[o], runId[o]) ELSE Error
      PROVE  Told(s)'
    <2>1. CASE o = r
        <3>1. SoFar(r)' = Append(SoFar(r), e)
            BY <1>3, <2>1, SoFarGrows
        <3>2. queue'[r] = Append(queue[r], e)
            BY <1>0, <1>3, <2>1 DEF TypeOK
        <3> QED
            BY <1>0, <1>3, <2>1, <3>1, <3>2, ToldMore
    <2>2. CASE o # r
        <3>1. queue'[r] = queue[r] /\ worker'[r] = worker[r] /\ published'[r] = published[r]
            BY <1>0, <1>3, <2>2 DEF TypeOK
        <3>2. SoFar(r)' = SoFar(r)
            BY <1>0, <1>3, <3>1, SoFarKept
        <3> QED
            BY <1>0, <1>3, <3>1, <3>2, ToldKept
    <2> QED
        BY <2>1, <2>2
<1>4. ASSUME NEW o \in Run, PublishStep(o) PROVE Told(s)'
    <2> DEFINE e == StepEvent(report[o], published[o] + 1)
    <2>1. published[o] + 1 \in 1 .. Len(report[o]) /\ report[o] \in Seq(BOOLEAN) /\ published[o] \in Nat
        BY <1>4, LenProperties DEF PublishStep, TypeOK
    <2>2. e \in Event
        BY <2>1, StepEventType
    <2>3. /\ UNCHANGED <<report, runId, stream, seen, target, worker>> /\ worker[o] \notin Published
          /\ queue' = [queue EXCEPT ![o] = Append(@, e)]
          /\ published'[o] = published[o] + 1
          /\ \A p \in Run \ {o} : published'[p] = published[p]
        BY <1>4 DEF PublishStep, TypeOK
    <2> QED
        BY <1>3, <2>2, <2>3
<1>5. ASSUME NEW o \in Run, PublishDone(o) \/ PublishError(o) PROVE Told(s)'
    <2> DEFINE e == IF runId[o] # 0 THEN Done(report[o], runId[o]) ELSE Error
    <2>1. Working(o) /\ runId[o] \in Nat /\ report[o] \in Seq(BOOLEAN)
        BY LenProperties DEF Shown, TypeOK
    <2>2. e \in Event
        BY <2>1, DoneType, NoEventType
    <2>3. Publish(o, e) /\ worker[o] \in {"announcing", "failing"}
        BY <1>5, <2>1 DEF PublishDone, PublishError, Working
    <2>4. /\ UNCHANGED <<report, runId, stream, seen, target, published>> /\ worker[o] \notin Published
          /\ queue' = [queue EXCEPT ![o] = Append(@, e)]
          /\ worker'[o] \in Published
          /\ \A p \in Run \ {o} : worker'[p] = worker[p]
        BY <2>3 DEF Publish, TypeOK
    <2> QED
        BY <1>3, <2>2, <2>4
<1>6. CASE Restart
    <2>1. /\ UNCHANGED <<report, published, runId, target, reading, seen>>
          /\ queue'[r] = <<>> /\ worker'[r] = IF worker[r] = "none" THEN "none" ELSE "killed"
          /\ stream'[s] = IF stream[s].pc \in Holding \cup {"queued"}
                          THEN [pc |-> "cut", event |-> NoEvent] ELSE stream[s]
        BY <1>0, <1>6 DEF Restart
    <2>2. CASE stream[s].pc = "ended"
        <3>1. stream'[s] = stream[s]
            BY <2>1, <2>2 DEF Holding
        <3>2. SUFFICES ASSUME Alone(s), reading[s] PROVE worker'[r] \in Published /\ seen[s] = SoFar(r)'
            BY <1>0, <2>1, <2>2, <3>1 DEF Told, Following
        <3>3. worker[r] \in Published /\ seen[s] = SoFar(r)
            BY <1>0, <2>2, <3>2 DEF Told
        <3>4. worker'[r] \in Published
            BY <2>1, <3>3
        <3> QED
            BY <1>0, <2>1, <3>3, <3>4, SoFarKept
    <2>3. CASE stream[s].pc # "ended"
        <3>1. stream'[s].pc # "ended" /\ stream'[s].pc \in Following =>
                  stream[s].pc = "unused" /\ stream'[s] = stream[s]
            BY <2>1, <2>3 DEF Holding, Following
        <3>2. SUFFICES ASSUME Alone(s), reading[s], stream[s].pc = "unused", stream'[s] = stream[s],
                              worker'[r] # "killed"
                       PROVE  Follows(stream[s], seen[s], <<>>, SoFar(r)')
            BY <1>0, <2>1, <2>3, <3>1 DEF Told
        <3>3. worker[r] = "none" /\ worker'[r] = "none" /\ published[r] = 0
            BY <1>0, <2>1, <3>2 DEF Shown, Working
        <3>4. SoFar(r)' = SoFar(r)
            BY <1>0, <2>1, <3>3, SoFarKept
        <3>5. Follows(stream[s], seen[s], queue[r], SoFar(r))
            BY <1>0, <3>2, <3>3 DEF Told, Following
        <3>6. Len(SoFar(r)) = 0
            BY <1>0, <3>3, SoFarType
        <3>7. Len(seen[s]) \in Nat /\ Len(queue[r]) \in Nat
            BY <1>0, LenProperties DEF TypeOK
        <3>8. Len(queue[r]) = 0
            <4>1. InHand(stream[s]) = 0
                BY <3>2 DEF InHand
            <4>2. Len(SoFar(r)) = Len(seen[s]) + InHand(stream[s]) + Len(queue[r])
                BY <3>5 DEF Follows
            <4>3. \A m, n \in Nat : 0 = m + 0 + n => n = 0
                OBVIOUS
            <4> HIDE DEF r
            <4>4. 0 = Len(seen[s]) + 0 + Len(queue[r])
                BY <3>6, <4>1, <4>2
            <4> QED
                BY <3>7, <4>3, <4>4
        <3>9. Len(<<>>) = 0
            BY EmptySeq
        <3>10. Follows(stream[s], seen[s], <<>>, SoFar(r))
            BY <3>5, <3>8, <3>9 DEF Follows
        <3> QED
            BY <3>4, <3>10, Zenon
    <2> QED
        BY <2>2, <2>3
<1>7. CASE CliSaves \/ UNCHANGED vars \/ \E u \in Stream : Leave(u)
    <2>1. UNCHANGED <<threadVars, queue, stream, seen, target>>
        BY <1>7 DEF CliSaves, vars, Leave
    <2>2. SoFar(r)' = SoFar(r)
        BY <2>1 DEF SoFar
    <2> QED
        BY <1>0, <2>1, <2>2, ToldKept
<1>8. ASSUME NEW u \in Stream, OpenStream(u) \/ StreamRun(u) PROVE Told(s)'
    BY <1>8, GetTold, SendTold, MoveTold DEF StreamRun
<1> QED
    BY <1>1, <1>2, <1>4, <1>5, <1>6, <1>7, <1>8 DEF Next, ExecuteRun

(***************************************************************************)
(* What the thread publishes is what a stream that is alone with it shows: *)
(* when such a stream ends, its browser saw the whole run (app.py:8,       *)
(* 219-225), whatever restarts and other runs do.                          *)
(***************************************************************************)
THEOREM SoleReader == Spec => []SoleReaderSeesRun
<1>1. TypeOK /\ Shown => SoleReaderSeesRun
    <2> SUFFICES ASSUME TypeOK, Shown, NEW s \in Stream, stream[s].pc = "ended", reading[s], Alone(s)
                 PROVE  seen[s] = Feed(target[s])
        BY DEF SoleReaderSeesRun
    <2> DEFINE r == target[s]
               last == IF runId[r] # 0 THEN Done(report[r], runId[r]) ELSE Error
               steps == [k \in 1 .. published[r] |-> StepEvent(report[r], k)]
    <2>1. r \in Run /\ worker[r] \in Published /\ seen[s] = SoFar(r)
        BY DEF Shown, Told, TypeOK
    <2>2. SoFar(r) \in Seq(Event) /\ Len(SoFar(r)) = published[r] + 1 /\ published[r] \in Nat
        BY <2>1, SoFarType
    <2>3. steps \in Seq(Event) /\ Len(steps) = published[r] /\ last \in Event
        <3>1. /\ runId[r] \in Nat /\ report[r] \in Seq(BOOLEAN) /\ Len(report[r]) \in Nat
              /\ published[r] <= Len(report[r])
            BY <2>1, LenProperties DEF TypeOK
        <3>2. last \in Event
            BY <3>1, DoneType, NoEventType
        <3>3. \A k \in 1 .. published[r] : StepEvent(report[r], k) \in Event
            BY <2>2, <3>1, StepEventType
        <3>4. steps \in Seq(Event)
            BY <2>2, <3>3, IsASeq
        <3>5. Len(steps) \in Nat /\ 1 .. Len(steps) = 1 .. published[r]
            BY <3>4, LenProperties
        <3> HIDE DEF steps
        <3>6. Len(steps) = published[r]
            BY <2>2, <3>5
        <3> QED
            BY <3>2, <3>4, <3>6
    <2>4. Feed(r) = steps \o <<last>>
        BY DEF Feed
    <2>5. <<last>> \in Seq(Event) /\ Len(<<last>>) = 1 /\ <<last>>[1] = last
        BY <2>3
    <2>6. /\ \A i \in 1 .. published[r] : steps[i] = SoFar(r)[i]
          /\ last = SoFar(r)[published[r] + 1]
        <3> DEFINE n == published[r]
        <3>1. SoFar(r) = [k \in 1 .. n + 1 |-> IF k <= n THEN StepEvent(report[r], k) ELSE last]
            BY <2>1 DEF SoFar
        <3>2. steps = [k \in 1 .. n |-> StepEvent(report[r], k)]
            OBVIOUS
        <3> HIDE DEF n, last, steps
        <3>3. n \in Nat
            BY <2>2 DEF n
        <3>4. /\ \A i \in 1 .. n : steps[i] = SoFar(r)[i]
              /\ last = SoFar(r)[n + 1]
            BY <3>1, <3>2, <3>3
        <3> QED
            BY <3>4 DEF n
    <2> HIDE DEF steps, last
    <2>7. /\ steps \o <<last>> \in Seq(Event) /\ Len(steps \o <<last>>) = published[r] + 1
          /\ \A i \in 1 .. published[r] + 1 :
                (steps \o <<last>>)[i] = IF i <= published[r] THEN steps[i] ELSE <<last>>[i - published[r]]
        BY <2>3, <2>5, ConcatProperties
    <2>8. \A i \in 1 .. published[r] + 1 : (steps \o <<last>>)[i] = SoFar(r)[i]
        <3>1. \A i \in 1 .. published[r] + 1 : i \in 1 .. published[r] \/ i = published[r] + 1
            BY <2>2
        <3>2. (published[r] + 1) - published[r] = 1 /\ ~(published[r] + 1 <= published[r])
              /\ published[r] + 1 \in 1 .. published[r] + 1
            BY <2>2
        <3>3. \A i \in 1 .. published[r] : (steps \o <<last>>)[i] = SoFar(r)[i]
            BY <2>2, <2>6, <2>7
        <3>4. (steps \o <<last>>)[published[r] + 1] = SoFar(r)[published[r] + 1]
            BY <2>5, <2>6, <2>7, <3>2
        <3> QED
            BY <3>1, <3>3, <3>4
    <2>9. steps \o <<last>> = SoFar(r)
        BY <2>2, <2>7, <2>8, SeqEqual
    <2> QED
        BY <2>1, <2>4, <2>9
<1>2. TypeOK /\ TypeOK' /\ Shown /\ [Next]_vars => Shown'
    BY StepTold, StepWorking, StepServed DEF Shown
<1> QED
    BY <1>1, <1>2, InitShown, WebTyping, PTL DEF Spec
==============================================================================
