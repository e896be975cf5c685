------------------------------- MODULE WebRuns -------------------------------
(***************************************************************************)
(* The web layer: a POST starts a run on a thread of its own, the thread   *)
(* runs the plan, saves the report and publishes it to the run's queue,    *)
(* and event streams take from that queue.  The server has a pool of       *)
(* Threads request threads, and an event stream holds one of them until it *)
(* ends.  The history database is shared with the command line.            *)
(***************************************************************************)
EXTENDS Integers, Sequences, FiniteSets

CONSTANTS
    Run,           \* the run uuids broker.open can allocate
    Stream,        \* GET requests for an event stream
    Steps,         \* the steps of the plan
    Threads,       \* the server's request threads (waitress: 4)
    MaxCliRows,    \* bound on rows saved by the command line
    MaxRestarts    \* bound on restarts of the web process

ASSUME StepsAssumption   == Steps \in Nat
ASSUME ThreadsAssumption == Threads \in Nat \ {0}
ASSUME BoundsAssumption  == MaxCliRows \in Nat /\ MaxRestarts \in Nat
ASSUME CliAssumption     == "cli" \notin Run

VARIABLES
    worker,        \* per run: where its thread is in _execute_run
    report,        \* per run: the verdicts of the steps done
    published,     \* per run: how many of them were published
    runId,         \* per run: the row save_report returned, or 0
    channels,      \* the runs the broker knows
    queue,         \* per run: channel.queue
    finished,      \* per run: channel.finished
    rows,          \* the test_run table, in id order
    stream,        \* per stream: where its request is, and the event it holds
    target,        \* per stream: the run it asks for
    reading,       \* per stream: whether the browser still reads it
    seen,          \* per stream: the events that reached the browser
    restarts

threadVars == <<worker, report, published, runId>>
brokerVars == <<channels, queue, finished>>
streamVars == <<stream, target, reading, seen>>
vars       == <<threadVars, brokerVars, rows, streamVars, restarts>>

StepEvent(verdicts, k) == [kind |-> "step", ordinal |-> k, passed |-> verdicts[k], id |-> 0]
Done(verdicts, id) == [kind |-> "done", ordinal |-> Len(verdicts),
                       passed |-> \A k \in DOMAIN verdicts : verdicts[k], id |-> id]
Error    == [kind |-> "error", ordinal |-> 0, passed |-> FALSE, id |-> 0]
NoEvent  == [kind |-> "none", ordinal |-> 0, passed |-> FALSE, id |-> 0]
Terminal == {"done", "error"}

\* A stream's request: not made, waiting for a thread, in queue.get, about to
\* yield an event, past a keepalive, and over: by itself, as a 404, or cut off.
Holding    == {"waiting", "sending", "idling"}
Over       == {"ended", "refused", "cut"}
FreeThread == Cardinality({s \in Stream : stream[s].pc \in Holding}) < Threads

Init ==
    /\ worker    = [r \in Run |-> "none"]
    /\ report    = [r \in Run |-> <<>>]
    /\ published = [r \in Run |-> 0]
    /\ runId     = [r \in Run |-> 0]
    /\ channels  = {}
    /\ queue     = [r \in Run |-> <<>>]
    /\ finished  = [r \in Run |-> FALSE]
    /\ rows      = <<>>
    /\ stream    = [s \in Stream |-> [pc |-> "unused", event |-> NoEvent]]
    /\ target \in [Stream -> Run]
    /\ reading   = [s \in Stream |-> TRUE]
    /\ seen      = [s \in Stream |-> <<>>]
    /\ restarts  = 0
------------------------------------------------------------------------------
(***************************************************************************)
(* The run's thread.                                                       *)
(***************************************************************************)
Post(r) ==
    /\ worker[r] = "none" /\ FreeThread
    /\ worker' = [worker EXCEPT ![r] = "executing"]
    /\ channels' = channels \cup {r}
    /\ UNCHANGED <<report, published, runId, queue, finished, rows, streamVars, restarts>>

\* Mutant: one step too many.
RunStepPastEnd(r) ==
    /\ worker[r] = "executing" /\ Len(report[r]) <= Steps
    /\ \E passed \in BOOLEAN : report' = [report EXCEPT ![r] = Append(@, passed)]
    /\ UNCHANGED <<worker, published, runId, brokerVars, rows, streamVars, restarts>>

RunStep(r) ==
    /\ worker[r] = "executing" /\ Len(report[r]) < Steps
    /\ \E passed \in BOOLEAN : report' = [report EXCEPT ![r] = Append(@, passed)]
    /\ UNCHANGED <<worker, published, runId, brokerVars, rows, streamVars, restarts>>

RunReturns(r) ==
    /\ worker[r] = "executing" /\ Len(report[r]) = Steps
    /\ worker' = [worker EXCEPT ![r] = "publishing"]
    /\ UNCHANGED <<report, published, runId, brokerVars, rows, streamVars, restarts>>

\* Loading the plan or its profiles, or running it, raises.
RunRaises(r) ==
    /\ worker[r] = "executing"
    /\ worker' = [worker EXCEPT ![r] = "failing"]
    /\ UNCHANGED <<report, published, runId, brokerVars, rows, streamVars, restarts>>

PublishStep(r) ==
    /\ worker[r] = "publishing" /\ published[r] < Len(report[r])
    /\ published' = [published EXCEPT ![r] = @ + 1]
    /\ queue' = [queue EXCEPT ![r] = Append(@, StepEvent(report[r], published[r] + 1))]
    /\ UNCHANGED <<worker, report, runId, channels, finished, rows, streamVars, restarts>>

\* save_report: the run, its devices and its steps in one transaction.
Save(r) ==
    /\ worker[r] = "publishing" /\ published[r] = Len(report[r])
    /\ rows' = Append(rows, [run |-> r, verdicts |-> report[r]])
    /\ runId' = [runId EXCEPT ![r] = Len(rows) + 1]
    /\ worker' = [worker EXCEPT ![r] = "announcing"]
    /\ UNCHANGED <<report, published, brokerVars, streamVars, restarts>>

\* Mutant: the exception comes when the row is committed.
SaveRaisesLate(r) ==
    /\ worker[r] = "publishing" /\ published[r] = Len(report[r])
    /\ rows' = Append(rows, [run |-> r, verdicts |-> report[r]])
    /\ worker' = [worker EXCEPT ![r] = "failing"]
    /\ UNCHANGED <<report, published, runId, brokerVars, streamVars, restarts>>

\* The database is locked, or gone: rolled back, and the exception is published.
SaveRaises(r) ==
    /\ worker[r] = "publishing" /\ published[r] = Len(report[r])
    /\ worker' = [worker EXCEPT ![r] = "failing"]
    /\ UNCHANGED <<report, published, runId, brokerVars, rows, streamVars, restarts>>

Publish(r, event) ==
    /\ queue' = [queue EXCEPT ![r] = Append(@, event)]
    /\ worker' = [worker EXCEPT ![r] = "finishing"]
    /\ UNCHANGED <<report, published, runId, channels, finished, rows, streamVars, restarts>>

PublishDone(r)  == worker[r] = "announcing" /\ Publish(r, Done(report[r], runId[r]))
PublishError(r) == worker[r] = "failing" /\ Publish(r, Error)

SetFinished(r) ==
    /\ worker[r] = "finishing"
    /\ finished' = [finished EXCEPT ![r] = TRUE]
    /\ worker' = [worker EXCEPT ![r] = "over"]
    /\ UNCHANGED <<report, published, runId, channels, queue, rows, streamVars, restarts>>

ExecuteRun(r) ==
    \/ RunStep(r) \/ RunReturns(r) \/ RunRaises(r) \/ PublishStep(r) \/ Save(r) \/ SaveRaises(r)
    \/ PublishDone(r) \/ PublishError(r) \/ SetFinished(r)
------------------------------------------------------------------------------
(***************************************************************************)
(* The event streams.                                                      *)
(***************************************************************************)
Move(s, pc, event) ==
    /\ stream' = [stream EXCEPT ![s] = [pc |-> pc, event |-> event]]
    /\ UNCHANGED <<threadVars, channels, finished, rows, target, restarts>>

\* The browser has the stream's URL from the POST.
OpenStream(s) ==
    /\ stream[s].pc = "unused" /\ worker[target[s]] # "none"
    /\ Move(s, "queued", NoEvent)
    /\ UNCHANGED <<queue, reading, seen>>

Admit(s) ==
    /\ stream[s].pc = "queued" /\ FreeThread
    /\ Move(s, IF target[s] \in channels THEN "waiting" ELSE "refused", NoEvent)
    /\ UNCHANGED <<queue, reading, seen>>

\* The browser has left before its first event, `open`, is written: the generator is closed there.
OpenFails(s) ==
    /\ stream[s].pc = "queued" /\ FreeThread /\ target[s] \in channels /\ ~reading[s]
    /\ Move(s, "ended", NoEvent)
    /\ UNCHANGED <<queue, reading, seen>>

\* Mutant: the queue is looked at, not taken from.
GetPeeks(s) ==
    /\ stream[s].pc = "waiting" /\ queue[target[s]] # <<>>
    /\ Move(s, "sending", Head(queue[target[s]]))
    /\ UNCHANGED <<queue, reading, seen>>

Get(s) ==
    /\ stream[s].pc = "waiting" /\ queue[target[s]] # <<>>
    /\ Move(s, "sending", Head(queue[target[s]]))
    /\ queue' = [queue EXCEPT ![target[s]] = Tail(@)]
    /\ UNCHANGED <<reading, seen>>

Send(s) ==
    /\ stream[s].pc = "sending"
    /\ Move(s, IF stream[s].event.kind \in Terminal THEN "ended" ELSE "waiting", NoEvent)
    /\ seen' = IF reading[s] THEN [seen EXCEPT ![s] = Append(@, stream[s].event)] ELSE seen
    /\ UNCHANGED <<queue, reading>>

\* queue.get timed out; the keepalive is written before the queue is looked at.
KeepAlive(s) ==
    /\ stream[s].pc = "waiting" /\ queue[target[s]] = <<>>
    /\ Move(s, "idling", NoEvent)
    /\ UNCHANGED <<queue, reading, seen>>

\* Mutants: a finished run ends the stream at once, and never does.
EndIfFinished(s) ==
    /\ stream[s].pc = "idling"
    /\ Move(s, IF finished[target[s]] THEN "ended" ELSE "waiting", NoEvent)
    /\ UNCHANGED <<queue, reading, seen>>
NeverEnd(s) ==
    /\ stream[s].pc = "idling"
    /\ Move(s, "waiting", NoEvent)
    /\ UNCHANGED <<queue, reading, seen>>

EndOrContinue(s) ==
    /\ stream[s].pc = "idling"
    /\ Move(s, IF finished[target[s]] /\ queue[target[s]] = <<>> THEN "ended" ELSE "waiting", NoEvent)
    /\ UNCHANGED <<queue, reading, seen>>

\* A write to a browser that left may fail: the generator is closed where it yields.
\* An event it holds is lost.
WriteFails(s) ==
    /\ stream[s].pc \in {"sending", "idling"} /\ ~reading[s]
    /\ Move(s, "ended", NoEvent)
    /\ UNCHANGED <<queue, reading, seen>>

StreamRun(s) ==
    \/ Admit(s) \/ OpenFails(s) \/ Get(s) \/ Send(s) \/ KeepAlive(s) \/ EndOrContinue(s)
    \/ WriteFails(s)

Leave(s) ==
    /\ stream[s].pc \in Holding \cup {"queued"} /\ reading[s]
    /\ reading' = [reading EXCEPT ![s] = FALSE]
    /\ UNCHANGED <<threadVars, brokerVars, rows, stream, target, seen, restarts>>
------------------------------------------------------------------------------
(***************************************************************************)
(* The process is restarted: threads, channels and connections are gone,   *)
(* the database is not.  mfg-ctl run and replay save into it as well.      *)
(***************************************************************************)
Restart ==
    /\ restarts < MaxRestarts
    /\ restarts' = restarts + 1
    /\ worker' = [r \in Run |-> IF worker[r] = "none" THEN "none" ELSE "killed"]
    /\ channels' = {}
    /\ queue' = [r \in Run |-> <<>>]
    /\ finished' = [r \in Run |-> FALSE]
    /\ stream' = [s \in Stream |->
                    IF stream[s].pc \in Holding \cup {"queued"}
                    THEN [pc |-> "cut", event |-> NoEvent] ELSE stream[s]]
    /\ UNCHANGED <<report, published, runId, rows, target, reading, seen>>

CliSaves ==
    /\ Cardinality({i \in DOMAIN rows : rows[i].run = "cli"}) < MaxCliRows
    /\ rows' = Append(rows, [run |-> "cli", verdicts |-> <<>>])
    /\ UNCHANGED <<threadVars, brokerVars, streamVars, restarts>>

Next ==
    \/ \E r \in Run : Post(r) \/ ExecuteRun(r)
    \/ \E s \in Stream : OpenStream(s) \/ StreamRun(s) \/ Leave(s)
    \/ Restart \/ CliSaves

(***************************************************************************)
(* Threads that can run do; run_plan_locally returns or raises (Station).  *)
(* Nobody has to post, to open or leave a stream, or to restart.           *)
(***************************************************************************)
Spec ==
    /\ Init /\ [][Next]_vars
    /\ \A r \in Run : WF_vars(ExecuteRun(r))
    /\ \A s \in Stream : WF_vars(StreamRun(s))
------------------------------------------------------------------------------
Event == [kind : {"none", "step"} \cup Terminal, ordinal : Nat, passed : BOOLEAN, id : Nat]

\* Every variable has its type.
TypeOK ==
    /\ worker \in [Run -> {"none", "executing", "publishing", "announcing", "failing",
                           "finishing", "over", "killed"}]
    /\ report \in [Run -> Seq(BOOLEAN)] /\ published \in [Run -> Nat]
    /\ \A r \in Run : published[r] <= Len(report[r]) /\ Len(report[r]) <= Steps
    /\ runId \in [Run -> 0 .. Len(rows)]
    /\ channels \subseteq Run
    /\ queue \in [Run -> Seq(Event)] /\ finished \in [Run -> BOOLEAN]
    /\ rows \in Seq([run : Run \cup {"cli"}, verdicts : Seq(BOOLEAN)])
    /\ stream \in [Stream -> [pc : {"unused", "queued"} \cup Holding \cup Over, event : Event]]
    /\ target \in [Stream -> Run] /\ reading \in [Stream -> BOOLEAN]
    /\ seen \in [Stream -> Seq(Event)]
    /\ restarts \in Nat

(***************************************************************************)
(* No event reaches two browsers, nor one browser twice, and what one      *)
(* browser sees of a run comes in the order it was published in, however   *)
(* many streams take from the run's queue (app.py:94-142, 326-338).        *)
(***************************************************************************)
Later(e, f) == e.kind = "step" /\ (f.kind \in Terminal \/ e.ordinal < f.ordinal)

EachEventOnce ==
    /\ \A s \in Stream : \A i, j \in DOMAIN seen[s] : i < j => Later(seen[s][i], seen[s][j])
    /\ \A s, t \in Stream : s # t /\ target[s] = target[t] =>
          \A i \in DOMAIN seen[s], j \in DOMAIN seen[t] : seen[s][i] # seen[t][j]

(***************************************************************************)
(* A stream that is alone on its run and is read to its end shows the      *)
(* whole run: every step, then how it ended (app.py:8, 219-225).           *)
(***************************************************************************)
Feed(r) ==
    [k \in 1 .. published[r] |-> StepEvent(report[r], k)]
      \o << IF runId[r] # 0 THEN Done(report[r], runId[r]) ELSE Error >>

Alone(s) ==
    \A t \in Stream \ {s} : target[t] = target[s] => stream[t].pc \in {"unused", "queued", "refused"}

SoleReaderSeesRun ==
    \A s \in Stream :
        stream[s].pc = "ended" /\ reading[s] /\ Alone(s) => seen[s] = Feed(target[s])

(***************************************************************************)
(* A browser that saw `done` can follow its link, even after a restart:    *)
(* the id is that of the run's only row, which holds the verdicts of the   *)
(* summary.  A browser that saw `error` is not shown a stored run later    *)
(* (app.py:222-225, store.py:107-147).                                     *)
(***************************************************************************)
RowsOf(r) == {i \in DOMAIN rows : rows[i].run = r}

DoneIsStored ==
    \A s \in Stream : \A i \in DOMAIN seen[s] :
        LET e == seen[s][i] IN
        /\ e.kind = "done" => RowsOf(target[s]) = {e.id} /\ e = Done(rows[e.id].verdicts, e.id)
        /\ e.kind = "error" => RowsOf(target[s]) = {}

(***************************************************************************)
(* Every event stream that is asked for ends, and gives its thread back,   *)
(* though streams may fill the pool, and other streams may have taken the  *)
(* events that would have ended it (app.py:328-338).                       *)
(***************************************************************************)
StreamsEnd == \A s \in Stream : stream[s].pc = "queued" ~> stream[s].pc \in Over
==============================================================================
