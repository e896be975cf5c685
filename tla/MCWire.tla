------------------------------- MODULE MCWire -------------------------------
(***************************************************************************)
(* Real words and bytes.  The device has a register at 0x0300, whose write *)
(* echo is as long as a read response of three bytes would be.             *)
(***************************************************************************)
EXTENDS WireProperties

OneProfile == [unit |-> 1, holding |-> (0 :> 258) @@ (1 :> 65535) @@ (768 :> 7), input |-> (0 :> 0)]

NoFault == [kind |-> "drift", whole |-> TRUE, register |-> 0, amount |-> 515, delay |-> 0, after |-> 0]
Drift      == NoFault
CrcCorrupt == [NoFault EXCEPT !.kind = "crc_corrupt"]
DropSecond == [NoFault EXCEPT !.kind = "drop", !.after = 1]

Setup(faultLists, cut) == [framing : {"custom", "modbus-tcp"}, faults : faultLists, pieces : {cut}]

AnySetup == Setup({ <<Drift>> }, "up") \cup Setup({ <<Drift>>, <<CrcCorrupt>>, <<DropSecond>> }, "down")

ReadBoth    == EncodeRead(1, "READ_HOLDING_REGISTERS", 0, 2)
ReadMissing == EncodeRead(1, "READ_INPUT_REGISTERS", 1, 1)
WriteFar    == EncodeWriteSingle(1, 768, 513)
WriteBoth   == EncodeWriteMultiple(1, 0, <<66051, 772>>)
WriteOther  == EncodeWriteSingle(2, 0, 0)
WriteHuge   == EncodeWriteMultiple(1, 0, [k \in 1 .. 128 |-> 0])

Sent       == {ReadBoth, ReadMissing, WriteFar, WriteBoth, WriteOther}
AnyRequest == ("custom" :> Sent) @@ ("modbus-tcp" :> Sent \cup {WriteHuge})
==============================================================================
