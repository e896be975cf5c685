---------------------------- MODULE MCDeviceLink ----------------------------
(***************************************************************************)
(* One device and its clients, small enough for TLC: two holding registers *)
(* and one input register of two-bit words, reads of at most one register. *)
(***************************************************************************)
EXTENDS DeviceLinkRefinement

CONSTANT d1

OneDevice == {d1}
AllClientsOfOne == [c \in Client |-> d1]
OneProfile ==
    [d \in Device |-> [unit |-> 1, holding |-> [a \in 0..1 |-> a], input |-> [a \in {0} |-> 2]]]

NoFault    == [kind |-> "drift", whole |-> TRUE, register |-> 0, amount |-> 0,
               delay |-> 0, after |-> 0]
Drift      == [NoFault EXCEPT !.amount = 3]
Stuck      == [NoFault EXCEPT !.kind = "stuck", !.whole = FALSE]
CrcCorrupt == [NoFault EXCEPT !.kind = "crc_corrupt"]
DropAfter(k) == [NoFault EXCEPT !.kind = "drop", !.after = k]
DelayBy(t)   == [NoFault EXCEPT !.kind = "delay", !.delay = t]

ReadHolding  == EncodeRead(1, "READ_HOLDING_REGISTERS", 0, 1)
ReadInput    == EncodeRead(1, "READ_INPUT_REGISTERS", 0, 1)
ReadTooMany  == EncodeRead(1, "READ_HOLDING_REGISTERS", 0, 2)
ReadMissing  == EncodeRead(1, "READ_HOLDING_REGISTERS", 2, 1)
WriteOne     == EncodeWriteSingle(1, 0, 2)
WriteBig     == EncodeWriteSingle(1, 0, WordMod)
WriteBoth    == EncodeWriteMultiple(1, 0, <<3, 6>>)
WriteTooMany == EncodeWriteMultiple(1, 0, [k \in 1 .. 128 |-> 0])

MixedRequests  == {ReadHolding, ReadInput, ReadMissing, WriteOne, WriteBig, WriteBoth}
AnyRequest     == MixedRequests \cup {ReadTooMany, WriteTooMany}
FewRequests    == {ReadHolding, WriteOne}
SharedRequests == {ReadHolding, WriteOne, WriteBoth}

With(faultLists) == [framing : {"custom", "modbus-tcp"}, faults : [Device -> faultLists]]

AnySetup == With({ <<>>, <<Drift, Stuck>>, <<CrcCorrupt>>, <<DropAfter(1)>>, <<DropAfter(0)>>,
                   <<DelayBy(1)>>, <<DelayBy(2)>>, <<DelayBy(3)>>, <<DelayBy(5), DropAfter(1)>>,
                   <<DelayBy(3), CrcCorrupt>> })
\* The framings differ in large blocks and corrupted replies only, and here are none.
SharedSetup  == {s \in With({ <<DelayBy(1), Drift>>, <<DelayBy(3), DropAfter(1)>> }) :
                    s.framing = "custom"}
CorruptSetup == With({ <<CrcCorrupt>> })
==============================================================================
