# Specifications of mfg-test-controller

TLA+ models of the test station: the simulated devices, the TCP link between a
client and a device, as messages and as bytes, a run of a test plan over several
devices, the web layer that starts runs and streams their events, the run
history that commands and web server share, and the trend analysis over it. Each module is translated from
the code under `src/src/mfg_test_controller/` (paths below are relative to it);
`PROJECT.json` names the lines behind every definition.

## The system

```
 browser ──SSE──> web/app.py ──thread──┐            cli.py (run, replay, trends)
                     │                 v                │
                     │          runner.run_plan_locally <┘
                     │                 │ one server + one client per profile
                     v                 v
                 store.py       sequencer ── client ══TCP══ server ── simulated device
                 (SQLite)       thresholds   (framing, codec)          + fault engine
```

| component | state it keeps | operations | interacts through |
|---|---|---|---|
| `device/simulated.py` | holding and input registers | `handle_frame` | called by every connection handler of its server |
| `device/faults.py` | `request_count` | `note_request`, `should_drop`, `apply_delay`, `apply_read_drift`, `is_stuck`, `corrupt_crc` | called by the device and the server |
| `modbus/frame.py`, `codec.py`, `exceptions.py` | none | encode, decode, CRC check | both ends |
| `modbus/framing.py`, `mbap.py` | the client's next transaction id | wrap and unwrap requests and responses, two wire formats | both ends |
| `controller/client.py` | reader, writer, transaction id | `connect`, `close`, five calls over `_exchange` | TCP stream to a server |
| `server.py` | listening socket, one handler per connection | `start`, `stop`, `_handle` | TCP streams, the shared device |
| `controller/sequencer.py`, `thresholds.py` | the report being built | `run`, `_run_step`, `evaluate_step` | awaits one client call at a time |
| `runner.py` | servers, exit stack of clients | `run_plan_locally` | starts, connects, closes, stops the above |
| `web/app.py` | channels of the broker, one queue and `finished` flag per run | `POST /plans/<name>/run`, `_execute_run`, `GET /runs/stream/<id>`, history pages | a thread per run, the server's request threads, the store |
| `store.py` | the SQLite history | `save_report`, `list_runs`, `get_run`, `register_history`, `measured_registers` | web threads and command-line processes |
| `cli.py` | none | `run`, `replay`, `report`, `trends`, `serve`, `serve-web`, `simulate-fault` | runner, store |
| `trends.py` | none | control limits, out-of-control and drift rules | values from the store |
| `config.py`, `device/profiles.py`, `report.py`, templates, `app.js` | none | validation, tables, rendering | |

### What is hard

* **The stream outlives the call.** `_exchange` gives up after a timeout but
  leaves the connection up, so the late reply is there for the next call.
  Nothing in either wire format is used to tell the two apart.
* **Handlers interleave.** The handlers of two connections share registers and
  `request_count`; they can only interleave at the sleep of a delay fault.
* **A handler dies in many ways**: a drop fault, a read too large to encode, a
  reply the modbus-tcp framing cannot translate. What the client notices
  depends on whether it has written since.
* **Errors cross layers.** `_run_step` expects two exception types; the link
  raises four.
* **TCP delivers bytes.** A message is read in two awaits, and a timeout between
  them throws away what the first one took. What bytes mean depends on a CRC,
  two byte orders, and lengths of one and two bytes.
* **Processes share the history.** A run is stamped when it is flushed, then
  waits for the write lock; ids and times of overlapping runs disagree, and
  `--only-failed` and `replay` decide by what they listed before their run.
* **Run, store and streams are not synchronised** except by the order of a few
  statements in `_execute_run`; streams of one run compete for one queue and
  hold request threads; the process may be restarted between any two steps.

`PROJECT.json` lists these and the other hazards, each at its line.

### What makes each component correct

| component | properties |
|---|---|
| device and faults | it is a register file when no fault distorts it; a refused block write changes nothing; the first stuck fault of the list freezes what it names and nothing else; the first drop fault drops exactly what comes after its `after_requests`, for ever; a drifting register stays a word |
| link | replies in request order, none invented; the lag of replies is the number of calls given up; a call in step tells the truth; every call and handler ends; several clients on one device see atomic calls |
| sequencer and runner | verdicts follow from plan and fault configuration alone; one outcome per selected step, in order; no abort but for a word that does not fit or a device that hung up before; a report only after teardown |
| web | no event twice or out of order; a stream alone on its run sees all of it; `done` implies the stored row, `error` its absence; every stream ends |
| codec and wire | the bytes of a message mean at one end what they meant at the other, however TCP cuts them; what a late or misread reply can be taken for |
| history | a run is stored once and whole, or not; failures are not forgotten by re-running them; a run is compared with the one before it; series only grow |
| trends | what each control rule can see at each length; falling is judged like rising; estimates count down |

## Modules

| module | models | notes |
|---|---|---|
| `SimulatedDevice` | `handle_frame` and the fault engine as operators | no state: used by the three modules below |
| `Device` | one device given frames directly | state `holding`, `count`; one action `Handle` |
| `RegisterFile` | abstract: memory cells with reads, block writes, refusals | implemented by `Device` |
| `DeviceLink` | clients, streams, connection handlers, time | the core; see below |
| `DeviceLinkProperties` | properties of the link | |
| `RemoteCalls` | abstract: atomic calls to a shared device | implemented by `DeviceLink` through `DeviceLinkRefinement` |
| `Station` | `run_plan_locally` and the sequencer | extends `DeviceLink`, one client per device |
| `TestRun` | abstract: one verdict per selected step and then a report, or an abort at a step that can end in one | implemented by `Station` |
| `StationProperties` | reference verdicts, refinement to `TestRun` | |
| `Codec` | frames, read responses, register blocks, exceptions, CRC, MBAP, and the translations of `framing.py`, as sequences of bytes | operators only |
| `Wire` | one client and one server exchanging those bytes over streams cut anywhere | extends `Codec` |
| `WireProperties` | what can be misread, and the refinement to `DeviceLink` | |
| `WebRuns` | POST, run threads, broker, queue, event streams, store rows, restart | |
| `RunStore` | the queries of `store.py` and what `trends` and the trends page make of them | operators only |
| `History` | run, run --only-failed and replay in processes of their own on one database | extends `RunStore` |
| `Trends`, `TrendsProperties` | `trends.py` over a history that grows | |
| `MC*` | constants for TLC | |
| `SimulatedDeviceProofs`, `DeviceProofs` | proofs about the device | |
| `DeviceLinkProofs` | proofs about the link: types and order, what its calls promise, and `RemoteCalls` | |
| `WireProofs` | proofs about the bytes: what the codec writes and reads, what the streams hold, and `DeviceLink` | |
| `StationProofs` | proofs about a run of a plan | on those of the link, which holds in every run |
| `WebRunsProofs` | proofs about the web layer: stored results, and events | |
| `HistoryProofs`, `TrendsProofs` | proofs about the history, and about what the control rules see in a series | |

### DeviceLink and the code

A request is a record of unit, function code, address and quantity. What the
code only asks of bytes is a Boolean (`intact`: length and CRC check out;
`even`: the block is whole registers). A reply is its kind, its words or
exception code, and whether its CRC is right. The id on a message is a history
variable: the code has nothing that plays its part.

| action | code |
|---|---|
| `Connect`, `Close` | `DeviceClient.connect`, `close` |
| `Send` | `_exchange` up to the `await` of the reply: encode, write, drain; on a connection the server has closed the write is lost and provokes the reset |
| `Refuse` | the calls that raise before that: fields that do not fit, no connection, a connection that was reset |
| `Receive` | the reply arrives: unwrap, decode, return or raise |
| `Expire`, `Eof`, `ReadRaises` | `wait_for` times out; the reader is at EOF; the reader holds the reset |
| `ApplyDelay` | `read_wire_message` returned and `apply_delay` sleeps |
| `Answer` | `handle_frame`, `corrupt_crc`, `wrap_response`, write: there is no `await` that suspends between them |
| `Hang` | the same, when there is no reply or it cannot be framed: the handler's `finally` closes the writer |
| `EndOfRequests` | `read_wire_message` raises `IncompleteReadError`: the stream has ended |
| `Tick` | the clock, when no coroutine can run |

Messages are told apart by their kind here. The late echo of a write to 0x0300..0x03FF has the
bytes of a read response, and a read would take it for one where `Decode` says `DeviceError`;
`Wire` has the bytes, and `MisreadIsLateEcho` says when it happens.

The server closing with unread requests in its receive buffer resets the
connection, and whether they had arrived is up to the kernel: `Hang` chooses
between `closed` and `aborted`. A reply and a timeout that fall on the same tick
are in either order. `Station` adds the program counter of `run_plan_locally`,
the plan position, the outcomes, and the set of listening servers.

### Wire and the code

`Wire` has the actions of `DeviceLink` for one client, with streams of bytes in
place of messages: what flies, what is in the `StreamReader`'s buffer, and the
header its reader has taken. `Receive`, `Answer` and `Hang` work on the bytes with
the operators of `Codec`, which follow `frame.py`, `codec.py`, `exceptions.py`,
`mbap.py` and `framing.py` function by function; where the code raises there is an
operator that says so (`IsFrame`, `IsMbap`, `IsResponsePdu`, `PduFits`, ...). `Expire` may
come at any time of a call and clears the taken header, as the cancellation of
`read_wire_message` does. `asked` and `owed` are what `DeviceLink` has as `toServer`
and `toClient`; the properties compare the two, so `DeviceLink`'s `Decode`,
`WrapResponse`, `Encodable` and `Packable`, which go by kinds of replies, are
derived there from the bytes.

### History and the code

| action | code |
|---|---|
| `Start` | the command loads its plan file (`cli.py:82`, `187`) |
| `List` | `list_runs(limit=50)`, the filter by plan, `get_run` and the early returns |
| `Execute` | `run_plan_locally` ends with a report, and `save_report` flushes, which stamps `started_at` |
| `Insert` | the INSERT has the write lock of the file |
| `Commit` | `session.commit` |
| `Fail` | an exception or a kill before that; SQLite rolls back |
| `Edit` | the plan file changes between jobs |

`started` is a clock that goes up by one with each flush: stamps are taken to be different and
never to go back. `_utcnow` has microseconds and follows the system clock, which an operator may
set back; what the queries do with equal stamps is left to SQLite but for the run id.

### Trends and the code

`Measure` appends what a run measured. Everything the code computes in floating
point is exact: words are small integers, and fractions are kept over their
denominators and compared by multiplication. Rounding is not modelled; the
properties are about comparisons that come out the same unless the two sides
agree to within a rounding error.

### WebRuns and the code

`worker[r]` is where the run's thread is in `_execute_run`; every statement that
others can observe is a step of its own (publish a step, commit, queue the last
event, set `finished`). `stream[s].pc` is where `stream_run`'s generator is:
waiting in `queue.get`, about to yield what it took, or past a keepalive with
the two conditions still to read. `FreeThread` is the request pool of waitress,
an event stream holding a thread from its admission to its end. A browser that left is noticed
when something is written to it, which may be the `open` event (`OpenFails`), a keepalive or an
event (`WriteFails`), or not at all. What the plan
does is abstracted to a verdict per step or an exception: `Station` has the rest.

## Runs

| run | question | bounds, and why they are enough |
|---|---|---|
| `device` | is the device a register file (`IsRegisterFile`), and do stuck and drop faults do what they say | 3 holding and 1 input register, addresses 0..4 beyond both banks, reads of 0..3 registers over a limit of 2, block writes of 0..2 words, every kind of bad frame; eleven fault lists, with and without a register, two of a kind in either order and mixed, so that a later fault that counts, or a drop one request early, shows; 3 requests, which is a write, another write or a drop, and a read |
| `link_alone` | order, truth and termination for one client | both framings, ten fault lists: delays below, at and beyond the timeout of 2 ticks and beyond two timeouts (5), drops before and after the first answer, corruption alone and with a delay; 3 requests let a lag of two build up and a write reach a reset connection |
| `link_shared` | what two clients on one device cost each other, and is a dependable link an atomic call (`Linearizable`) | 2 requests each, single and block writes against reads; a delay below the timeout with drift, which shows the order in every value read, and one beyond it with a drop the other client's requests bring nearer; one framing, as they differ in corrupted replies and large blocks only |
| `station_run` | verdicts, outcomes, what can end in an abort, teardown | 2 devices, 9 x 9 fault combinations in both framings, 6 plans (writes to input registers, unknown device and register, a word that does not fit, repeated names, none at all), 4 selections |
| `wire` | do the bytes carry what `DeviceLink` says (`CarriesDeviceLink`), and what can be misread | both framings, 16-bit words, a real CRC, the code's limit of 125 registers; one direction at a time in pieces of any size; drift that wraps at the word, corruption, a drop; 2 requests out of a block write with a value to mask, a write whose echo looks like a read response, a read, a refused read, a foreign unit, a block of 128 registers. Messages stay short, since a CRC costs eight steps of recursion for each byte |
| `web_streams` | order and completeness of event streams, is what was announced stored, and does each stream end | 1 run of 1 step, 3 streams over 2 threads: two compete for events, one has to wait for a thread and may be alone later; 1 row of another process, 1 restart. Two runs share only the row numbers and the threads, which the theorems cover for any number |
| `history` | is what is stored, listed and compared what the jobs did | 3 jobs: a failure, what it is re-run by, and a run that comes between; two plans, one of them edited once; 2 devices with a register of the same name; a list of one run in place of 50, so that another plan's run hides the one looked for |
| `trends` | what the control rules see | all series of 4 values up to length 7 and of 2 values up to 12, where a point first gets beyond three sigma; staircases up to 10 and straight lines of slopes -2 to 2 up to 9 for drift |

Runs that end in a counterexample state a sentence of the documentation that the
code does not keep (`findings` in `PROJECT.json` quote it):

| run | the code does |
|---|---|
| `link_crc` | under modbus-tcp a corrupted read returns values |
| `station_abort` | a third call to a device that dropped its connection gets a connection error instead of a `DeviceTimeout`, and it ends the run without a report |
| `station_slow` | a step beyond the timeout passes on the reply to the step before it; nothing compares the MBAP transaction ids that could tell them apart |
| `trends_mixed` | without `--device`, `mfg-ctl trends` computes a device's line from the readings of every device with a register of that name |

Other disagreements need no exploration to see, or are near to one of these, and
have no run:

* when a run raises, its servers go on listening (`runner.py:52-54`; `runner.py:6` says
  everything is torn down);
* two streams of one run each see a part of its events (`web/app.py:330`);
* only the first fault of a kind in a profile counts (`faults.py:35`);
* step events are published after the whole plan has run (`web/app.py:219`), not as
  it runs;
* a message of length 0, or a stream read out of step, raises `ValueError` from
  `server.py:44` through `_exchange`, which `client.py:4-6` does not mention;
* the rule of `trends.py:134` for a series without deviation never applies.

Words are 2 or 3 bits in the runs of the device, link and station (`WordMod` is a parameter, 2^16 in the code):
the code treats values only by comparison, addition modulo the word, and the
test whether they fit, and each of these has both outcomes. `MaxSent`,
`MaxRequests`, `MaxCliRows`, `MaxRestarts`, `Jobs` and `InScope` bound what the code leaves
unbounded. Deadlock is checked for the link and the station (a finished run
stutters in `Ended`); it is off for the others, where requests,
runs, streams, jobs and measurements are finitely many and the system may come to
rest.

## Fairness

* `DeviceLink`: each client's return and each server step is weakly fair, and
  so is `Tick`: the asyncio loop runs every ready coroutine and the clock
  advances. Issuing calls, connecting and closing are not fair.
* `Station`: the sequencer is one coroutine that runs when it can, and the link
  beneath it as above. It follows that a run returns or raises.
* `WebRuns`: each run's thread and each stream's request thread are weakly fair;
  browsers, POSTs and restarts are not. A stream waits for a free thread under
  weak fairness only, which suffices because every stream ends and the pool is
  bounded by the streams there are.
* `History`: each job's own steps are weakly fair; starting jobs, failing and
  editing are not. A job that waits for the write lock gets it because whoever
  holds it commits or fails.
* `Wire`, `Trends` and `Device` have no liveness.

## Proofs

TLAPS proves, for every value of the constants:

| theorem | statement |
|---|---|
| `DeviceLinkProofs!Typing` | `Spec => []TypeOK` of `DeviceLink` |
| `DeviceLinkProofs!InOrder` | `Spec => []Alignment`: replies and requests continue the ids read without a gap |
| `DeviceLinkProofs!LagIsExact` | `Spec => []ReplyLag`: a returned reply answers the call made exactly `lost` calls before |
| `DeviceLinkProofs!NoFalseTimeout` | `Spec => []DependableAnswers`: no call is given up to a device that delays less than the timeout, drops nothing and whose replies can be framed, however many clients share it |
| `DeviceLinkProofs!ServedExactlyOnce` | `Spec => []HandledOnce`: a request is handled at most once, and once by the time its reply can be read |
| `DeviceLinkProofs!CorruptNeverPasses` | `Spec => []CorruptionCaught`: no corrupted reply acknowledges a write or, in the custom framing, returns values |
| `DeviceLinkProofs!DropIsFinal` | `Spec => []NothingAfterDrop`: no reply answers a request past the drop |
| `DeviceLinkProofs!AcknowledgedIsApplied` | `Spec => []AckedWriteApplied`: for a client in step and alone, an acknowledged write is in the registers |
| `DeviceLinkProofs!ReadsAreCurrent` | `Spec => []ReadIsCurrent`: for such a client, what it reads is what they hold |
| `DeviceLinkProofs!CallsTakeEffectOnce` | `Spec => Calls!Init /\ [][Calls!Next]_(Calls!vars)`: `DeviceLink` implements `RemoteCalls`, all but its fairness |
| `StationProofs!StationIsLink` | `StationSpec => Spec`: what is proved of the link holds in every run of a plan |
| `StationProofs!VerdictsDecided` | `StationSpec => []VerdictsAreReference`: verdicts on predictable devices follow from the plan and the faults |
| `StationProofs!TornDownFirst` | `StationSpec => []ReportAfterTeardown`: a report is returned when all clients have left and no server listens |
| `StationProofs!ReportIsThePlan` | `StationSpec => Promise!Init /\ [][Promise!Next]_(Promise!vars)`: `Station` implements `TestRun`, all but its fairness: outcomes in plan order, and no abort without a cause |
| `WebRunsProofs!WebTyping` | `Spec => []TypeOK` of `WebRuns` |
| `WebRunsProofs!StoredWhenDone` | `Spec => []DoneIsStored`: what `done` announced is stored, what `error` announced is not |
| `WebRunsProofs!EachOnce` | `Spec => []EachEventOnce`: no event reaches two browsers or one twice, and they come in order |
| `WebRunsProofs!SoleReader` | `Spec => []SoleReaderSeesRun`: a browser alone on a run has seen every step, in order, and how it ended |
| `HistoryProofs!TypeCorrect` | `Spec => []TypeOK` of `History` |
| `HistoryProofs!SavedOnce` | `Spec => []StoredOnce`: a saved run has one whole row, any other none |
| `HistoryProofs!PriorIsNewest` | `Spec => []PriorIsNewestSeen`: a job looks back at its plan's newest run among those it saw, or at none if other plans' newer runs fill the list |
| `HistoryProofs!EmptyRunsExplained` | `Spec => []HistoryAgreesWithReports`: the history and a report disagree on a run only if it repeated failures of another edition of its plan |
| `HistoryProofs!FailuresKept` | `Spec => []FailuresNotForgotten`: re-running failed steps, any number of times, loses none that failed when it last ran |
| `HistoryProofs!TrendsAreComplete` | `Spec => []TrendsAreReadings`: the series of the trends page hold every stored measurement once, under its own device and register |
| `HistoryProofs!SeriesOnlyGrow` | `Spec => SeriesGrow`: a run stamped last extends series at their ends and rewrites none |
| `TrendsProofs!LongestStretchFound` | `Spec => []LongestRunIsLongest`: the loop of `_longest_monotonic_run` finds the longest stretch that rises or falls throughout |
| `TrendsProofs!RunsAreKept` | `Spec => TrendIsKept`: after six points in a row a register is never in control again |
| `TrendsProofs!RulesNeedPoints` | `Spec => []RulesNeedLength`: no point can be beyond three sigma, nor a line fit, in a series shorter than the rule needs |
| `TrendsProofs!EitherWayAlike` | `Spec => []SameEitherWay`: a falling series is judged like the rising one it mirrors |
| `TrendsProofs!LineCountsDown` | `Spec => CountsDown`: while readings follow a straight line, the estimate shrinks with every run |
| `WireProofs!BytesAndWords` | `Spec => []TypeOK` of `Wire`: bytes travel, words arrive, also out of step |
| `WireProofs!StaysInStep` | `Spec => []IInv`: the streams hold the messages of the requests not yet handled and of the replies not yet read, in order |
| `WireProofs!OnlyLateEchoesAreMisread` | `Spec => []MisreadIsLateEcho`: what an echo of a write must be to pass for registers read |
| `WireProofs!WholeMessagesStayInStep` | `Spec => []WholeRepliesKeepStep`: replies in one piece are not torn apart by a timeout |
| `WireProofs!BytesCarryTheLink` | `Spec => CarriesDeviceLink`: the bytes implement `DeviceLink` but for the two exceptions it names |
| `DeviceProofs!Frozen` | `Spec => []StuckFreezes`: what the first stuck fault names keeps its value, and everything else takes what is written |
| `DeviceProofs!NeverBack` | `Spec => DropIsForever`: the first drop fault drops nothing before its boundary and everything after it |
| `DeviceProofs!ImplementsRegisterFile` | `Spec => IsRegisterFile`: `Device` implements `RegisterFile` |

The assumptions are those the modules name: a device per client, profiles whose
registers are words, well-formed fault lists, requests of the type of a request,
natural numbers for the bounds and the list limit, and that the command line
is not a run of the web server. Of plans they ask what `PlanStep` validates
(`IsStep`; readings are whole numbers, so a fractional bound can be rounded to one),
that `Requests` has what the known steps ask for (it stands for what clients may
send), and that named registers are in the bank of their kind, at addresses that are words, and one
of them fits a reply (`NamedAssumption`; the banks are filled from the named registers). TLC evaluates all of them. `MaxSent` and the other bounds are
arbitrary naturals in the proofs, so they do not limit what is proved.

`SimulatedDeviceProofs` has the lemmas on the operators: a well-formed request
leaves every register a word and gets a well-formed reply, under any faults.

**Device.** `StuckFreezes` and `DropIsForever` name the fault that counts by its place in
the list (`FirstOf`), not by the operator the device looks it up with; `FaultIsFirst` says that
the two agree, and `StuckIsFrozen` and `DropIsFirst` draw from it which registers are frozen
and which request is the first dropped. `IInv` of `DeviceProofs` is the types, `StuckFreezes`,
and `Dropped`: a device whose last answer was none has a request count past its drop. Counts
only grow (`DropStays`), so no later answer comes. For the refinement, a frame that is
refused leaves the cells (`Declined`), and one that is served is a load of what a read
returns or a store of every word of a write (`LoadStep`, `StoreStep`); the fault list
is without drift and stuck there, and every step is a stutter otherwise.

**Link.** `Alignment` alone is not inductive: a step of the client needs to know
how many replies it has taken. `IInv` of `DeviceLinkProofs` adds, per client,
`Accounted` (every request sent has been answered, given up or is waiting for
its reply; a connection starts with nothing in flight and a client that left has
nothing to read) and `Lagging` (`ReplyLag` of one client). From `Aligned` the head of
`toClient` has the id `got + 1`, and `Accounted` turns that into `sent - lost`.
The lemmas `TakeFirst` and `AddNext` are about streams of consecutive ids; there
is one lemma per action that touches a stream, and `OtherClients` for the rest.

**What calls promise.** `DependableAnswers`, `CorruptionCaught`, `NothingAfterDrop`,
`AckedWriteApplied` and `ReadIsCurrent` speak of results and of calls given up; none is
inductive. `Promised`, of `DeviceLinkProofs`, says per client where they come
from: `Living` (what each state of a connection excludes), `Synced` (a client that
gave up nothing has at most the call in progress in flight, and the reply to it is one
to its kind of request), `Corruption` (what marks a reply on its way), `Counted` (a client
alone on its device accounts for the device's count, so ids tell which requests came
before a drop), `Truthful` (a reply on its way already says what its result will say, of
the registers as they are now: nobody else can change them), and `InTime`: the time left of
a call is the timeout less what has been slept of the delay, so it cannot run out first.
The timer of a handler counts from the instant its call began because nothing else of
that client can be in flight; other clients of the device do not enter. A step of one
client leaves the promises of the others (`Bystander`): only serving a request touches a
device, and `Counted` and `Truthful` ask for no other client there.

`HandledOnce` is about all clients of a device at once. `Tally` adds what is between: the
count lies between the replies given and the requests taken off the streams, each kept as
the set of pairs of a client and a number up to its own count, so that no sum over clients
is needed; the sets differ by one element per request (`NumberedNext`).

**Calls as atomic.** `CallsTakeEffectOnce` takes each action of `DeviceLink` to one of
`RemoteCalls`: `Send` begins a call, `Answer` is the instant it takes effect
(`AnswerTakesEffect`), `Receive` returns it, `Refuse` is a call that raises at once, and all
else is a stutter, as is everything on devices with clients the mapping hides. Its
abstract state holds a device's registers and count, and its operators are those of
`SimulatedDevice`, instantiated (`SameDevice`). It rests on `Promised`: a step of a dependable
client that gives up or hangs would be no step of `RemoteCalls`, and there is none.

**Wire.** The lemmas go from bytes to streams. A CRC is a recursive function over a string of
bytes; it exists, is a word and depends on those bytes alone (`CrcRuns`, `CrcIsWord`, `CrcAt`),
so a string with its CRC appended passes (`Checked`) and one with its last bit flipped does not
(`Spoiled`). Nothing else of the polynomial is needed. What one end encodes the other decodes:
`FrameIs`, `BlockDecoded`, `ReadIs`, `ExceptionIs` and `MbapIs` of the parts, `RequestIs` of a request
in either framing, and `ReplyWireIs` of a reply: with `Means`, whatever call reads it makes of
the bytes what the reply says, or takes an echo for registers.

The invariant `IInv` says that all a stream holds (the header taken, the buffer and what flies)
is cut into messages (`Cuts`), each with a header that tells its length (`Framed`), of which those
to the server are the requests `asked`, and those to the client, until one is torn apart, the
replies `owed`. That is inductive: arrivals move bytes within a stream (`ArrivedIs`), a header taken is
still at its front (`HeaderTakenIs`), a message read is the first (`CarriesRead`) and leaves the
rest cut as it was (`CutsTail`), a message written is a last one (`CutsAppend`). For
`MisreadIsLateEcho` it adds `Alone`: while no call was given up, only the call in progress is
under way, so the echo of a write is read by a write. For `WholeRepliesKeepStep` it says that what has
arrived ends where a message ends (`Whole`), so no reader waits between header and body.

With it each action is one of `DeviceLink` (`SendMaps`, `ReceiveMaps`, `AnswerMaps`, ...): the server
reads the request asked first and serves it as the simulated device would (`ServerReads`, `Serves`),
it hangs up on the replies `DeviceLink` calls unwrappable, and the client decodes what `Decode` says
(`MeansDecode`). `SameDevice` identifies the operators of the device with those of the instance.
The theorems need that words are of 16 bits, that no read is longer than a byte can count (the code's
limit is 125 registers), that unit ids are bytes, as `config.py` validates, and that requests have
the shape the client builds; `WireAssumption` and `RequestsAssumption` name these, and faults without a
delay, since `Wire` has no clock.

**Station.** A run calls the link in a fixed order. `Walk` keeps what `run_plan_locally`
and the sequencer hold: the plan, the position, the outcomes of the selected steps before
it (`Filled`). From it every step is a step of the link (`StepIsLink`), which gives
`StationIsLink` and, with it, `Promised` in every run. `Torn` says which clients have left in
each state of the teardown. That the i-th outcome is that of the i-th selected step
(`ReportIsThePlan`) is an argument about cardinalities: the selected steps up to a position
grow by one or stay (`ChosenGrows`), so places are unique (`PlaceUnique`). That an abort has
a cause is `Causes`: every request on its way to a device belongs to a step up to the
present one (`Traced`), so a handler that hangs up does so on one of those, and a
connection found closed or reset was hung up on by an earlier step (`Tracked`). A run that
reaches a device which kept its connection can only end the step with a verdict.

`VerdictsDecided` has to know where each predictable device is while the sequencer is at
step k, also when it is busy with another: `Idle` (connected or not yet, with the
registers, the count and the drop that the steps before k leave), `Called`, `Replied` (the
reply on its way is the reference verdict of step k), `HungUp` (the drop of step k or
earlier) or `Back`. `OnCourse` says so of all of them, and `Correct` that outcomes recorded so
far are the reference. The lemmas `RequestsGrow` and `ContentChanges` say what one step does to the
reference's requests and register contents, which it computes from the whole plan;
`StepHandled` that the device answers what the reference says, and `StepJudged` that this is
judged alike. Time enters once (`TimeLeft`): the delay ends before the timeout, as in `InTime`.

**Web.** `DoneIsStored` speaks of what browsers saw and is not inductive: the
event was in a stream's hands before, in the queue before that, and its truth
rests on where the thread is. `IInv` of `WebRunsProofs` says that a terminal event
is `Truthful` wherever it is, and that the thread which may have published it is
past every step that could still save (`Truthful`); that a run has no row before
its commit and exactly the one its thread holds between commit and announcement
(`RowKnown`). Steps of other runs, of the command line and restarts keep a run's
rows (`RowsKept`), so events stay truthful (`StaysTruthful`).

`EachEventOnce` needs to know where an event can be. `Once` numbers
the events of a run (`N`): in a queue, in what a browser saw, and from what a stream
holds to what is still queued, the numbers go up; no number is with two streams; and
before the last event all of them are steps published so far (`Known`), so that what
is published next has the highest number. `EventPublished`, `EventTaken` and `EventSent`
are the steps that move an event, `NothingTaken` all others.

For `SoleReaderSeesRun` order is not enough: nothing may be missing. `SoFar` is the sequence
a run has published; a stream that was always alone on its run has shown the first of
it, holds the next if it is sending, and the queue has the rest (`Follows`). A stream ends
after a terminal event or when it finds the channel finished and the queue empty, and either
way there is no rest (`Told`); the second needs that `finished` is set after the last event
was queued (`Working`). There is one lemma for each way a stream goes on.

**History.** `StoredOnce` is a part of its own induction, with the stamps of rows and
jobs, none of which is later than the clock. For `PriorIsNewestSeen`, `LookedBack` keeps
the rows a job saw when it listed, over which its choice was the newest of its plan,
and says that its own stamp is later. That the choice was newest in the first place is
`LatestIsNewest`: the plan's newest run within the limit is its newest run of all, since
a newer one would have fewer rows before it and be within the limit too; it rests on
`LargestExists`, by the well-foundedness of strict inclusion of finite sets. A job that found no
run had each one of its plan behind as many newer ones as the list holds (`NoneListed`), and
goes on having it, since the rows it saw do not change (`Missed`).

For the rest `RInv` says of each job what it loaded (`Loaded`), that a re-run has the failed
steps of the run it looked back at (`Repeats`), that its report is one of its selected steps
(`Done`), and that no two jobs have the same stamp (`Apart`). `FailuresNotForgotten` compares
an old run with the newest one, over any number of runs between. Take the oldest run, of
those since the step last ran and failed, without that failure (`NewestExists`). It did not
run the step, so it repeated the failures of a run that had it not (`PassedOver`); while
nothing gets between, that one is no older than the run of the step (`Undisturbed`), and
so the taken run was not the oldest.

The trends page rests on three operators. `Chronological` is an order of all rows, since no two
have the same stamp: how many are newer than a row is a different number for each of
them (`ChronologicalIs`). What `FlattenSeq` makes of the steps in that order has a place for
each step of each run, and no other (`FlatPlaces`), by induction over its loop. `Among`
numbers what it takes, so a step taken for its register and then for its device has a
place in one series, and every place is one step's (`TakenTwice`). So the stored
measurements and the points of all series are both as many as the measurements in that
order. For `SeriesGrow`, each of the three keeps what it had and goes on
(`ChronologicalGrows`, `FlatGrows`, `AmongGrows`) if the new row comes last.

**Trends.** The loop is a recursive function over the points of a series. The provers
cannot use the library's induction theorems, which take an operator, but they can use that
a set of naturals has a least element (`FirstExists`): if the function did not exist up to
every point, or did not hold there what it should, there would be a first such point
(`LoopRuns`, `LoopHolds`). What it should hold (`Ends`) is how far the longest rise
and the longest fall go back from a point, exactly, and the longest of all so far; one turn of the
loop keeps that (`TurnKeeps`). That runs are kept follows: the stretches of a series are
stretches of every longer one.

The sums of `_mean`, `_stdev` and the least squares fit are one recursive function
(`Total`), which exists by the same argument (`SumRuns`); by induction a sum goes through
additions, factors and the order of its terms. A point beyond three sigma needs at least
eleven points because its own deviation is balanced by the others and, by
Cauchy-Schwarz, theirs add to the variance. Mirrored or reversed, the sums of the fit
change sign or stay (`SameEitherWay`). On a straight line, the fit is the line itself: the
sum of squares of the positions is positive and the residuals are none, so the slope is
the step, and each run that follows the line leaves one step less to the bound
(`CountsDown`).

### What the attempts changed

Where a proof would not go through, the model or the property was wrong or opaque:

* `NothingAfterDrop` said less than the code keeps: late replies, too, are to requests
  from before the drop.
* `RemoteCalls` did not let a call end in `struct.error`, which `wrap_request` raises for a
  block of more than 127 registers under modbus-tcp.
* `Station` took any plan; the reference verdicts need that a step has the shape `PlanStep`
  validates and that `Requests` has what it asks for. Both are now assumptions.
* `History` selected steps with `SelectSeq`, and `HandledOnce` summed with a fold, which the
  provers see through no better than through recursion. They are sets of positions and
  cardinalities now, and mean the same; so are the readings that the queries of `RunStore`
  select, and `TrendsAreReadings` counts points and readings instead of summing lengths. The
  loop of `_longest_monotonic_run` was a fold and is a recursive function now, with a turn of
  the loop as an operator; so are the sums of `Trends`.
* `Packable` bounded blocks under modbus-tcp only; `frame_message` declares the length of a
  request in two bytes, and raises `struct.error` for a block that exceeds it.
* `Wire` did not say which requests a client builds: for one with half a register, or a block
  where its code has none, the two ends do not agree. That is an assumption now.
* `Codec` numbered bits by exponents; by weights, they are linear arithmetic. `WrapRequest` takes the
  number of the request, so that what is on its way can be named.

### Only model-checked

* Everything under fairness, which is out of the prover's reach: `EveryCallReturns`,
  `HandlersEnd`, `StreamsEnd`, `JobsEnd`, and the liveness in `Linearizable` and `IsTestRun`, whose
  steps are proved.

## Not modelled, and what is next

* A client that connects a second time after `close`; streams that a browser
  opens again (the queue they find is that of `WebRuns`).
* `serve_forever`, YAML loading, rendering, templates, the browser script, the
  profile tables, `simulate-fault` and the benchmark: I/O, constants, or loops
  around what is modelled. `split_stream`, `decode_response`, `decode_request` and
  `parse_framing_mode` are not called by the rest of the code.
* Rounding in `trends.py`; the order SQLite gives to readings with equal sort keys.

What could follow: a `Wire` with the clock of `DeviceLink`, for delays as bytes see them.
