----------------------------- MODULE MCHistory -----------------------------
(***************************************************************************)
(* Two devices that both have a register "volts", and three jobs.  The     *)
(* first plan reads the register of both, and its file is edited once; the *)
(* second writes it and reads it back.                                     *)
(***************************************************************************)
EXTENDS History

Step(name, device, action) == [name |-> name, device |-> device, action |-> action]

A == Step("a", "psu", "read")
B == Step("b", "dmm", "read")
C == Step("c", "psu", "read")
W == Step("w", "psu", "write")

TwoPlans == {"rig", "cal"}
Editions == [rig |-> << <<A, B>>, <<A, C>> >>, cal |-> << <<W, C>> >>]
AnyJob   == {<<"run", "cal">>, <<"only-failed", "rig">>, <<"replay", "rig">>}

Ends(s, passed, measured) ==
    [name |-> s.name, device |-> s.device, register |-> "volts", action |-> s.action,
     passed |-> passed, measured |-> measured]

\* It passes, is out of its limits, or the device did not answer.
AnyEnd(s) == CASE s = A -> {Ends(s, TRUE, <<1>>), Ends(s, FALSE, <<>>)}
               [] s = B -> {Ends(s, TRUE, <<1>>), Ends(s, FALSE, <<2>>)}
               [] s = C -> {Ends(s, TRUE, <<1>>)}
               [] s = W -> {Ends(s, TRUE, <<3>>)}

Results == UNION {AnyEnd(s) : s \in {A, B, C, W}}
==============================================================================
