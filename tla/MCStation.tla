------------------------------ MODULE MCStation ------------------------------
(***************************************************************************)
(* Two devices, a source and a meter, and plans that set, read back and    *)
(* measure.  Words are three bits; a step asks for one register.           *)
(***************************************************************************)
EXTENDS StationProperties

TwoDevices == {"psu", "dmm"}
Own == [c \in Client |-> c]

TwoProfiles ==
    [psu |-> [unit |-> 1, holding |-> [a \in 0..1 |-> 0], input |-> [a \in {0} |-> 5],
              named |-> [set   |-> [address |-> 0, kind |-> "holding"],
                         limit |-> [address |-> 1, kind |-> "holding"],
                         back  |-> [address |-> 0, kind |-> "input"]]],
     dmm |-> [unit |-> 2, holding |-> [a \in {} |-> 0], input |-> [a \in 0..1 |-> 3 + a],
              named |-> [volts |-> [address |-> 0, kind |-> "input"],
                         amps  |-> [address |-> 1, kind |-> "input"]]]]

Read(name, dev, register, low, high) ==
    [name |-> name, device |-> dev, action |-> "read", register |-> register,
     range |-> <<low, high>>, value |-> 0, tolerance |-> 0, write |-> 0]
ReadNear(name, dev, register, value, tolerance) ==
    [Read(name, dev, register, 0, 0) EXCEPT
        !.range = <<>>, !.value = value, !.tolerance = tolerance]
Write(name, dev, register, value) ==
    [Read(name, dev, register, 0, 0) EXCEPT !.action = "write", !.range = <<>>, !.write = value]

BringUp  == << Write("on", "psu", "set", 6), Read("volts", "dmm", "volts", 2, 3),
               ReadNear("held", "psu", "set", 6, 0), Read("amps", "dmm", "amps", 4, 6) >>
Twice    == << Write("on", "psu", "set", 6), Write("off", "psu", "set", 1),
               ReadNear("off", "psu", "set", 2, 1), Read("amps", "dmm", "amps", 0, 3),
               Read("amps", "dmm", "amps", 4, 7) >>
Clumsy   == << Write("on", "psu", "back", 7), Write("bad", "dmm", "volts", 1),
               Read("none", "psu", "gone", 0, 7), Read("none", "rig", "set", 0, 7),
               ReadNear("held", "psu", "set", 7, 0), Read("back", "psu", "back", 5, 5) >>
Overflow == << Write("on", "psu", "limit", 8), Read("held", "psu", "limit", 0, 7) >>
Patient  == << Read("back", "psu", "back", 5, 5), Read("limit", "psu", "limit", 4, 6),
               Read("set", "psu", "set", 0, 0), Read("volts", "dmm", "volts", 3, 3),
               Read("amps", "dmm", "amps", 4, 4) >>
Empty    == << >>

AllPlans   == {BringUp, Twice, Clumsy, Overflow, Patient, Empty}
OnePlan    == {Patient}
All        == {[all |-> TRUE, names |-> {}]}
Selecting  == All \cup {[all |-> FALSE, names |-> n] : n \in {{}, {"on", "held"}, {"off", "amps", "none"}}}

NoFault == [kind |-> "drift", whole |-> TRUE, register |-> 0, amount |-> 3, delay |-> 0, after |-> 0]
Drift        == NoFault
StuckAt(a)   == [NoFault EXCEPT !.kind = "stuck", !.whole = FALSE, !.register = a]
CrcCorrupt   == [NoFault EXCEPT !.kind = "crc_corrupt"]
DropAfter(k) == [NoFault EXCEPT !.kind = "drop", !.after = k]
DelayBy(t)   == [NoFault EXCEPT !.kind = "delay", !.delay = t]

FaultLists == { <<>>, <<Drift>>, <<StuckAt(0)>>, <<CrcCorrupt>>, <<DropAfter(1)>>, <<DropAfter(0)>>,
                <<DelayBy(1), Drift>>, <<DelayBy(3)>>, <<DelayBy(5), DropAfter(1)>> }
With(lists) == [framing : {"custom", "modbus-tcp"}, faults : [Device -> lists]]

AnySetup  == With(FaultLists)
DropSetup == With({ <<>>, <<DropAfter(0)>> })
SlowSetup == With({ <<>>, <<DelayBy(3)>> })

StepsOfPlans == UNION {{p[k] : k \in DOMAIN p} : p \in Plans}
PlanRequests == {RequestOf(s) : s \in {x \in StepsOfPlans : KnownStep(x)}}
==============================================================================
