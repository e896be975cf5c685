-------------------------- MODULE StationProperties --------------------------
(***************************************************************************)
(* What a run promises.  The reference verdict of a step is computed from  *)
(* the plan and the fault configuration alone, without clients, servers,   *)
(* streams or a request count that is kept anywhere.                       *)
(***************************************************************************)
EXTENDS Station, FiniteSetsExt

Address(s) == Profile[s.device].named[s.register].address

\* What was asked for: every step, or those of the given names, which may be shared.
Wants(k) == only.all \/ plan[k].name \in only.names

\* The steps up to k that put a request to device d.
RequestsTo(d, k) == {j \in 1 .. k : Wants(j) /\ KnownStep(plan[j]) /\ plan[j].device = d}

\* Step k's request comes too late for a device that drops.
Dropped(k) ==
    LET d == plan[k].device IN ShouldDrop(faults[d], Cardinality(RequestsTo(d, k)))

\* The steps before k whose write reached address a of device d.
WritesBefore(d, a, k) ==
    {j \in RequestsTo(d, k - 1) :
        /\ plan[j].action = "write" /\ Address(plan[j]) = a
        /\ a \in DOMAIN Profile[d].holding /\ ~IsStuck(faults[d], a) /\ ~Dropped(j)}

Content(d, a, k) ==
    LET writes == WritesBefore(d, a, k)
    IN  IF writes = {} THEN Profile[d].holding[a] ELSE plan[Max(writes)].write

ReferenceRead(k) ==
    LET s == plan[k]
        a == Address(s)
        n == Cardinality(RequestsTo(s.device, k))
        raw == IF Profile[s.device].named[s.register].kind = "input"
               THEN Profile[s.device].input[a] ELSE Content(s.device, a, k)
    IN  ReadDrift(faults[s.device], n, a, raw)

\* The values a read step accepts.
Accepted(s) ==
    IF s.range # <<>> THEN s.range[1] .. s.range[2]
    ELSE s.value - s.tolerance .. s.value + s.tolerance

Reference(k) ==
    LET s == plan[k]
        f == faults[s.device]
        refused == s.action = "write" /\ Address(s) \notin DOMAIN Profile[s.device].holding
    IN  IF ~KnownStep(s) THEN Outcome(s, FALSE, "unknown", <<>>)
        ELSE IF Dropped(k) THEN Outcome(s, FALSE, "DeviceTimeout", <<>>)
        ELSE IF refused THEN Outcome(s, FALSE, "ModbusException", <<>>)
        ELSE IF HasFault(f, "crc_corrupt") THEN Outcome(s, FALSE, "DeviceError", <<>>)
        ELSE IF s.action = "write" THEN Outcome(s, TRUE, "wrote", <<s.write>>)
        ELSE Outcome(s, ReferenceRead(k) \in Accepted(s), "measured", <<ReferenceRead(k)>>)

\* The plan position of the i-th outcome.
Position(i) ==
    CHOOSE k \in DOMAIN plan : Wants(k) /\ Cardinality({j \in 1 .. k : Wants(j)}) = i

\* Devices whose every verdict the configuration decides.
Predictable(d) ==
    /\ DelayOf(faults[d]) < Timeout
    /\ ~(framing = "modbus-tcp" /\ HasFault(faults[d], "crc_corrupt"))

(***************************************************************************)
(* Each verdict is the reference one, whatever the other devices of the    *)
(* station do: their drops, delays and late replies stay theirs            *)
(* (sequencer.py:81-177, thresholds.py:25-47).                             *)
(***************************************************************************)
VerdictsAreReference ==
    \A i \in DOMAIN outcomes :
        LET k == Position(i) IN
        (plan[k].device \in Device => Predictable(plan[k].device)) => outcomes[i] = Reference(k)

(***************************************************************************)
(* Under a selection that names every step, and under none, the report is  *)
(* the plan: one outcome per step.  In general the run refines TestRun:    *)
(* the selected steps in order, then the report, and one step can keep it  *)
(* from coming: a write of more than a word, always, and one to a device   *)
(* that has hung up on an earlier step, possibly (sequencer.py:81-177,     *)
(* frame.py:73-81, client.py:85-98, server.py:83-103, runner.py:44-56).    *)
(***************************************************************************)
StepNames == UNION {{p[k].name : k \in DOMAIN p} : p \in Plans}

\* Step k's request makes the device's handler close the connection.
HangsUp(k) ==
    LET s == plan[k] IN
    \/ Dropped(k)
    \/ /\ framing = "modbus-tcp" /\ HasFault(faults[s.device], "crc_corrupt")
       /\ s.action = "write" /\ Address(s) \in DOMAIN Profile[s.device].holding

HungUpBefore(d, k) == \E j \in RequestsTo(d, k) : HangsUp(j)

Ends(k) ==
    LET s == plan[k] IN
    IF ~KnownStep(s) THEN {"verdict"}
    ELSE IF s.action = "write" /\ s.write \notin Word THEN {"abort"}
    ELSE {"verdict"} \cup {end \in {"abort"} : HungUpBefore(s.device, k - 1)}

SelectedSteps ==
    [i \in 1 .. Cardinality({k \in DOMAIN plan : Wants(k)}) |->
        [name |-> plan[Position(i)].name, ends |-> Ends(Position(i))]]

Promise == INSTANCE TestRun WITH
    Names    <- StepNames,
    wanted   <- SelectedSteps,
    verdicts <- [i \in DOMAIN outcomes |-> [name |-> outcomes[i].name, passed |-> outcomes[i].passed]],
    state    <- IF run \in {"unwinding", "raised"} THEN "aborted"
                ELSE IF run = "returned" THEN "reported" ELSE "running"

IsTestRun == Promise!Spec

(***************************************************************************)
(* A report comes only when the station has been torn down: no client left *)
(* connected, no server listening (runner.py:44-56).                       *)
(***************************************************************************)
ReportAfterTeardown ==
    run = "returned" => up = {} /\ \A c \in Client : link[c] = "left"

(***************************************************************************)
(* What the documents say and the code does not do.                        *)
(***************************************************************************)
\* ARCHITECTURE.md:96: device errors fail their steps instead of aborting the run.
DeviceErrorsDoNotAbort ==
    run \in {"unwinding", "raised"} => \E k \in DOMAIN plan :
        plan[k].action = "write" /\ plan[k].write \notin Word

\* fault-injection.md:45: a delay beyond the timeout fails the steps it hits.
DelayedStepsFail ==
    \A i \in DOMAIN outcomes :
        outcomes[i].device \in Device /\ DelayOf(faults[outcomes[i].device]) > Timeout
          => ~outcomes[i].passed
==============================================================================
