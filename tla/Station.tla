------------------------------- MODULE Station -------------------------------
(***************************************************************************)
(* run_plan_locally: a server and a client per device profile, and the     *)
(* Sequencer walking a test plan over them.  It composes with DeviceLink   *)
(* with one client per device; the sequencer awaits one call at a time.    *)
(***************************************************************************)
EXTENDS DeviceLink

CONSTANTS
    Plans,       \* the plans to start from: sequences of steps
    Selections   \* only_failed: [all |-> TRUE, ..], or a set of step names

ASSUME OneClientPerDevice == Client = Device /\ \A d \in Device : DeviceOf[d] = d

(***************************************************************************)
(* A step names its device and register; neither need exist.  A read has   *)
(* a range, or if that is empty a value and a tolerance.                   *)
(***************************************************************************)
VARIABLES
    plan, only,    \* what the run was asked to do
    run,           \* connecting, stepping, closing, stopping, unwinding, returned, raised
    pos,           \* the step the sequencer is at
    awaiting,      \* whether that step's call is in progress
    outcomes,      \* report.outcomes
    up             \* the servers that listen

job         == <<plan, only>>
sequencer   == <<pos, awaiting, outcomes>>
stationVars == <<job, run, sequencer, up>>
allVars     == <<vars, stationVars>>

step     == plan[pos]

KnownStep(s) == s.device \in Device /\ s.register \in DOMAIN Profile[s.device].named
Known        == KnownStep(step)

\* Mutant: an empty selection selects every step.
SelectedUnlessEmpty(s) == only.all \/ only.names = {} \/ s.name \in only.names

Selected(s)  == only.all \/ s.name \in only.names

\* A write goes to the holding bank, whatever the kind of the register it names.
RequestOf(s) ==
    LET profile == Profile[s.device]
        reg     == profile.named[s.register]
    IN  IF s.action = "write" THEN EncodeWriteSingle(profile.unit, reg.address, s.write)
        ELSE EncodeRead(profile.unit,
                        IF reg.kind = "input" THEN "READ_INPUT_REGISTERS"
                        ELSE "READ_HOLDING_REGISTERS",
                        reg.address, 1)

\* PlanStep; readings are whole numbers, so a bound can be rounded to one.
IsStep(s) == /\ s.action \in {"read", "write"} /\ s.range \in {<<>>} \cup (Int \X Int)
             /\ {s.value, s.tolerance, s.write} \subseteq Int

\* Requests are those the plans can ask for.
ASSUME PlansAssumption ==
    \A p \in Plans : /\ p \in Seq({p[k] : k \in DOMAIN p})
                     /\ \A k \in DOMAIN p :
                           /\ IsStep(p[k])
                           /\ KnownStep(p[k]) => RequestOf(p[k]) \in Requests

\* A named register is one of the bank of its kind, its address a word, and one register
\* can be asked for and fits a reply.
ASSUME NamedAssumption ==
    /\ \A d \in Device : \A r \in DOMAIN Profile[d].named :
          LET reg == Profile[d].named[r]
          IN  /\ reg.address \in Word
              /\ reg.address \in DOMAIN (IF reg.kind = "input" THEN Profile[d].input ELSE Profile[d].holding)
    /\ 1 \in Word /\ MaxRegisters >= 1

\* Mutant: the bounds of the threshold are exclusive.
MeetsStrictly(s, measured) ==
    IF s.range # <<>> THEN s.range[1] < measured /\ measured < s.range[2]
    ELSE measured - s.value < s.tolerance /\ s.value - measured < s.tolerance

Meets(s, measured) ==
    IF s.range # <<>> THEN s.range[1] <= measured /\ measured <= s.range[2]
    ELSE measured - s.value <= s.tolerance /\ s.value - measured <= s.tolerance

\* `why` stands for the detail text.
Outcome(s, passed, why, measured) ==
    [name |-> s.name, device |-> s.device, passed |-> passed, why |-> why, measured |-> measured]

Judge(s, res) ==
    IF res.what \notin {"values", "written"} THEN Outcome(s, FALSE, res.what, <<>>)
    ELSE IF s.action = "write" THEN Outcome(s, TRUE, "wrote", <<s.write>>)
    ELSE Outcome(s, Meets(s, res.words[1]), "measured", <<res.words[1]>>)

Record(outcome) == outcomes' = Append(outcomes, outcome) /\ pos' = pos + 1
------------------------------------------------------------------------------
StationInit ==
    /\ Init
    /\ plan \in Plans /\ only \in Selections
    /\ run = "connecting"
    /\ pos = 1 /\ awaiting = FALSE /\ outcomes = <<>>
    /\ up = Device                     \* every server starts before the first connect

ConnectAll(c) ==
    /\ run = "connecting" /\ Connect(c)
    /\ run' = IF \A o \in Client \ {c} : link[o] # "unconnected" THEN "stepping" ELSE run
    /\ UNCHANGED <<job, sequencer, up>>

Stepping == run = "stepping" /\ ~awaiting /\ pos <= Len(plan)

SkipStep ==
    /\ Stepping /\ ~Selected(step)
    /\ pos' = pos + 1
    /\ UNCHANGED <<vars, job, run, awaiting, outcomes, up>>

UnknownStep ==
    /\ Stepping /\ Selected(step) /\ ~Known
    /\ Record(Outcome(step, FALSE, "unknown", <<>>))
    /\ UNCHANGED <<vars, job, run, awaiting, up>>

IssueStep ==
    /\ Stepping /\ Selected(step) /\ Known
    /\ Send(step.device, RequestOf(step))
    /\ awaiting' = TRUE
    /\ UNCHANGED <<job, run, pos, outcomes, up>>

\* _run_step catches DeviceError and ModbusException, nothing else.
IssueRaises ==
    /\ Stepping /\ Selected(step) /\ Known
    /\ Refuse(step.device, RequestOf(step))
    /\ run' = "unwinding"
    /\ UNCHANGED <<job, sequencer, up>>

FinishStep ==
    /\ run = "stepping" /\ awaiting /\ ~call[step.device].waiting
    /\ awaiting' = FALSE
    /\ IF result[step.device].what = "ConnectionError"
       THEN run' = "unwinding" /\ UNCHANGED <<pos, outcomes>>
       ELSE run' = run /\ Record(Judge(step, result[step.device]))
    /\ UNCHANGED <<vars, job, up>>

\* Mutant: the servers are stopped while the clients are connected.
FinishPlanAtOnce ==
    /\ run = "stepping" /\ pos > Len(plan)
    /\ run' = "stopping"
    /\ UNCHANGED <<vars, job, sequencer, up>>

FinishPlan ==
    /\ run = "stepping" /\ pos > Len(plan)
    /\ run' = "closing"
    /\ UNCHANGED <<vars, job, sequencer, up>>

\* AsyncExitStack closes the clients on both paths; server.stop() is on one only.
CloseClient(c) ==
    /\ run \in {"closing", "unwinding"} /\ Close(c)
    /\ UNCHANGED stationVars

ClientsClosed ==
    /\ \A c \in Client : link[c] = "left"
    /\ \/ run = "closing" /\ run' = "stopping"
       \/ run = "unwinding" /\ run' = "raised"
    /\ UNCHANGED <<vars, job, sequencer, up>>

StopServer(d) ==
    /\ run = "stopping" /\ d \in up
    /\ up' = up \ {d}
    /\ run' = IF up = {d} THEN "returned" ELSE run
    /\ UNCHANGED <<vars, job, sequencer>>

Sequence ==
    \/ SkipStep \/ UnknownStep \/ IssueStep \/ IssueRaises \/ FinishStep \/ FinishPlan
    \/ ClientsClosed
    \/ \E c \in Client : ConnectAll(c) \/ CloseClient(c) \/ StopServer(c)

\* Time passes while the sequencer awaits a call, or the servers their handlers.
Awaits == (awaiting /\ call[step.device].waiting) \/ run = "stopping"

StationNet ==
    /\ \/ Awaits /\ Tick
       \/ \E c \in Client : ClientReturns(c) \/ ServerStep(c)
    /\ UNCHANGED stationVars

Ended == run \in {"returned", "raised"} /\ UNCHANGED allVars

StationNext == Sequence \/ StationNet \/ Ended

StationSpec ==
    /\ StationInit /\ [][StationNext]_allVars
    /\ WF_allVars(Sequence) /\ WF_allVars(StationNet)
==============================================================================
