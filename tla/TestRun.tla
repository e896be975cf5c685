------------------------------- MODULE TestRun -------------------------------
(***************************************************************************)
(* What an operator is promised of a run: one verdict per selected step,   *)
(* in the order of the plan, and then the report; or no report at all, but *)
(* only if a step it got to can end it.  How a verdict is reached is not   *)
(* said.                                                                   *)
(***************************************************************************)
EXTENDS Integers, Sequences

CONSTANT Names       \* the names steps may have

End    == {"verdict", "abort"}
Wanted == [name : Names, ends : SUBSET End]

VARIABLES
    wanted,          \* the selected steps in plan order, and how each can end
    verdicts,        \* [name, passed] of the steps done
    state            \* running, reported or aborted

vars == <<wanted, verdicts, state>>

Init == wanted \in Seq(Wanted) /\ verdicts = <<>> /\ state = "running"

Due         == Len(verdicts) + 1
CanEnd(end) == Due <= Len(wanted) /\ end \in wanted[Due].ends

Step == /\ state = "running" /\ CanEnd("verdict")
        /\ \E passed \in BOOLEAN :
              verdicts' = Append(verdicts, [name |-> wanted[Due].name, passed |-> passed])
        /\ UNCHANGED <<wanted, state>>

Report == /\ state = "running" /\ Len(verdicts) = Len(wanted)
          /\ state' = "reported"
          /\ UNCHANGED <<wanted, verdicts>>

Abort == /\ state = "running" /\ CanEnd("abort")
         /\ state' = "aborted"
         /\ UNCHANGED <<wanted, verdicts>>

Next == Step \/ Report \/ Abort

Spec == Init /\ [][Next]_vars /\ WF_vars(Next)
==============================================================================
