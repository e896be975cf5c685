------------------------------ MODULE MCDevice ------------------------------
(***************************************************************************)
(* A device with three holding registers and one input register, given     *)
(* every frame over four addresses, good or bad.                           *)
(***************************************************************************)
EXTENDS Device

FourRegisters == [unit |-> 1, holding |-> [a \in 0..2 |-> a], input |-> [a \in 0..0 |-> 2]]

NoFault == [kind |-> "drift", whole |-> TRUE, register |-> 0, amount |-> 3, delay |-> 0, after |-> 0]
Drift     == NoFault
DriftOf(a) == [NoFault EXCEPT !.whole = FALSE, !.register = a]
StuckAt(a) == [NoFault EXCEPT !.kind = "stuck", !.whole = FALSE, !.register = a]
DropAfter(k) == [NoFault EXCEPT !.kind = "drop", !.after = k]

AnySetup == { <<>>, <<DropAfter(2)>>, <<DropAfter(0)>>, <<Drift>>, <<DriftOf(1), Drift>>,
              <<StuckAt(1)>>, <<StuckAt(0), Drift>>, <<DropAfter(1), StuckAt(0)>>,
              <<DropAfter(2), Drift>>, <<StuckAt(2), StuckAt(0)>>,
              <<DropAfter(1), DropAfter(2)>> }

Reads   == {EncodeRead(1, fc, a, n) : fc \in ReadCodes, a \in 0..3, n \in 0..3}
Singles == {EncodeWriteSingle(1, a, v) : a \in 0..3, v \in {0, 3}}
Blocks  == {EncodeWriteMultiple(1, a, b) : a \in 0..2, b \in {<<>>, <<5>>, <<2, 3>>}}
Broken  == LET f == EncodeWriteMultiple(1, 0, <<2, 3>>)
           IN  { [f EXCEPT !.intact = FALSE], [f EXCEPT !.unit = 2], [f EXCEPT !.fc = "UNKNOWN"],
                 [f EXCEPT !.qty = 1], [f EXCEPT !.even = FALSE], [f EXCEPT !.block = <<1>>] }
AllFrames == Reads \cup Singles \cup Blocks \cup Broken
==============================================================================
