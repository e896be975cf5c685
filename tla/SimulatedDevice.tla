--------------------------- MODULE SimulatedDevice ---------------------------
(***************************************************************************)
(* What one call of SimulatedDevice.handle_frame does: a register map      *)
(* behind a fault engine.  The operators are pure; Device.tla and          *)
(* DeviceLink.tla hold the state they act on.                              *)
(*                                                                         *)
(* A frame is a record; bytes are abstracted to what the code branches on: *)
(* `intact` is "length and CRC check out" and `even` is "the register      *)
(* block has an even number of bytes".  `block` is the decoded block.      *)
(***************************************************************************)
EXTENDS Integers, Sequences

CONSTANTS
    WordMod,       \* 2^16 in the code: registers hold 0 .. WordMod-1
    MaxRegisters   \* codec.MAX_REGISTERS, the largest read that is encoded

ASSUME WordModAssumption == WordMod \in Nat \ {0}
ASSUME MaxRegistersAssumption == MaxRegisters \in Nat

Word == 0 .. WordMod - 1

ReadCodes  == {"READ_HOLDING_REGISTERS", "READ_INPUT_REGISTERS"}
WriteCodes == {"WRITE_SINGLE_REGISTER", "WRITE_MULTIPLE_REGISTERS"}
\* UNKNOWN stands for every code the device does not implement, "-" for no request yet.
FunctionCode == ReadCodes \cup WriteCodes \cup {"UNKNOWN", "-"}

ExceptionCode == {"ILLEGAL_FUNCTION", "ILLEGAL_DATA_ADDRESS",
                  "ILLEGAL_DATA_VALUE", "DEVICE_FAILURE", "CRC_ERROR"}

(***************************************************************************)
(* The frames a DeviceClient builds: always intact, the block as long as   *)
(* the declared quantity.                                                  *)
(***************************************************************************)
Frame(unit, fc, addr, qty) ==
    [unit |-> unit, fc |-> fc, addr |-> addr, qty |-> qty,
     intact |-> TRUE, block |-> <<>>, even |-> TRUE]

EncodeRead(unit, fc, addr, quantity)  == Frame(unit, fc, addr, quantity)
EncodeWriteSingle(unit, addr, value)  == Frame(unit, "WRITE_SINGLE_REGISTER", addr, value)
EncodeWriteMultiple(unit, addr, vals) ==
    [Frame(unit, "WRITE_MULTIPLE_REGISTERS", addr, Len(vals)) EXCEPT
        !.block = [i \in DOMAIN vals |-> vals[i] % WordMod]]

RequestType == [unit : Int, fc : FunctionCode, addr : Int, qty : Int,
                intact : BOOLEAN, block : Seq(Word), even : BOOLEAN]

\* DeviceProfile, its registers keyed by address.
IsProfile(profile) ==
    /\ profile.holding \in [DOMAIN profile.holding -> Word]
    /\ profile.input   \in [DOMAIN profile.input -> Word]

(***************************************************************************)
(* Replies.  "none" is the None of a drop fault; "raise" is the FrameError *)
(* of encode_read_response, which handle_frame lets escape.  The fields a  *)
(* write reply echoes are left out: no caller looks at them.               *)
(***************************************************************************)
Reply(kind, words, code) ==
    [kind |-> kind, words |-> words, code |-> code, crcOk |-> TRUE]

ReplyType == [kind : {"none", "raise", "exception", "read", "write"},
              words : Seq(Word), code : ExceptionCode \cup {"-"}, crcOk : BOOLEAN]

NoReply         == Reply("none", <<>>, "-")
Raises          == Reply("raise", <<>>, "-")
Exception(code) == Reply("exception", <<>>, code)
ReadReply(ws)   == IF Len(ws) > MaxRegisters THEN Raises ELSE Reply("read", ws, "-")
Echo            == Reply("write", <<>>, "-")

------------------------------------------------------------------------------
(***************************************************************************)
(* The fault engine.  A fault record has every field of FaultConfig that   *)
(* matters: kind, whole (register is None), register, amount, delay,       *)
(* after.  Only the first configured fault of a kind is ever consulted.    *)
(***************************************************************************)
HasFault(faults, kind) == \E i \in DOMAIN faults : faults[i].kind = kind

\* Mutant: the last fault of the kind.
LastFault(faults, kind) ==
    faults[CHOOSE i \in DOMAIN faults :
              /\ faults[i].kind = kind
              /\ \A j \in i + 1 .. Len(faults) : faults[j].kind # kind]

Fault(faults, kind) ==
    faults[CHOOSE i \in DOMAIN faults :
              /\ faults[i].kind = kind
              /\ \A j \in 1 .. i - 1 : faults[j].kind # kind]

Hits(fault, addr) == fault.whole \/ fault.register = addr

\* Mutants: a drop that comes one request late, and one that comes early.
ShouldDropLate(faults, count) ==
    HasFault(faults, "drop") /\ count > Fault(faults, "drop").after + 1
ShouldDropEarly(faults, count) ==
    HasFault(faults, "drop") /\ count >= Fault(faults, "drop").after

ShouldDrop(faults, count) ==
    HasFault(faults, "drop") /\ count > Fault(faults, "drop").after

DelayOf(faults) ==
    IF HasFault(faults, "delay") THEN Fault(faults, "delay").delay ELSE 0

\* Mutant: a drifting value that leaves the word.
ReadDriftUnwrapped(faults, count, addr, value) ==
    IF HasFault(faults, "drift") /\ Hits(Fault(faults, "drift"), addr)
    THEN value + Fault(faults, "drift").amount * count ELSE value

ReadDrift(faults, count, addr, value) ==
    IF HasFault(faults, "drift") /\ Hits(Fault(faults, "drift"), addr)
    THEN (value + Fault(faults, "drift").amount * count) % WordMod
    ELSE value

\* Mutant: a stuck fault that names its register is overlooked.
IsStuckWhole(faults, addr) == HasFault(faults, "stuck") /\ Fault(faults, "stuck").whole

IsStuck(faults, addr) ==
    HasFault(faults, "stuck") /\ Hits(Fault(faults, "stuck"), addr)

\* Mutant: write echoes are not corrupted.
CorruptReads(faults, reply) ==
    [reply EXCEPT !.crcOk = ~(HasFault(faults, "crc_corrupt") /\ reply.kind = "read")]

CorruptCrc(faults, reply) ==
    [reply EXCEPT !.crcOk = ~HasFault(faults, "crc_corrupt")]

FaultKind == {"drift", "stuck", "delay", "crc_corrupt", "drop"}

FaultConfig == [kind : FaultKind, whole : BOOLEAN, register : Int,
                amount : Int, delay : Nat, after : Int]
------------------------------------------------------------------------------
(***************************************************************************)
(* handle_frame.  Refusal is the first check that fails, in the order of   *)
(* the code, or "-"; a refused request leaves the registers alone.         *)
(***************************************************************************)
Bank(profile, holding, fc) ==
    IF fc = "READ_INPUT_REGISTERS" THEN profile.input ELSE holding

Span(req) ==
    IF req.fc = "WRITE_SINGLE_REGISTER" THEN {req.addr}
    ELSE req.addr .. req.addr + req.qty - 1

Refusal(profile, holding, req) ==
    IF ~req.intact THEN "CRC_ERROR"
    ELSE IF req.unit # profile.unit THEN "DEVICE_FAILURE"
    ELSE IF req.fc \notin ReadCodes \cup WriteCodes THEN "ILLEGAL_FUNCTION"
    ELSE IF req.fc = "WRITE_MULTIPLE_REGISTERS" /\ ~(req.even /\ Len(req.block) = req.qty)
         THEN "ILLEGAL_DATA_VALUE"
    ELSE IF ~(Span(req) \subseteq DOMAIN Bank(profile, holding, req.fc))
         THEN "ILLEGAL_DATA_ADDRESS"
    ELSE "-"

ReadOut(profile, faults, holding, count, req) ==
    [i \in 1 .. req.qty |->
        ReadDrift(faults, count, req.addr + i - 1,
                  Bank(profile, holding, req.fc)[req.addr + i - 1])]

WrittenWord(req, addr) ==
    IF req.fc = "WRITE_SINGLE_REGISTER" THEN req.qty
    ELSE req.block[addr - req.addr + 1]

\* Mutant: the loop over the block stops after its first register.
WrittenFirst(faults, holding, req) ==
    [a \in DOMAIN holding |->
        IF a = req.addr /\ a \in Span(req) /\ ~IsStuck(faults, a)
        THEN WrittenWord(req, a) ELSE holding[a]]

Written(faults, holding, req) ==
    [a \in DOMAIN holding |->
        IF a \in Span(req) /\ ~IsStuck(faults, a) THEN WrittenWord(req, a) ELSE holding[a]]

\* `count` is request_count after note_request has counted this request.
HandleFrame(profile, faults, holding, count, req) ==
    LET refusal == Refusal(profile, holding, req)
        served  == ~ShouldDrop(faults, count) /\ refusal = "-"
    IN  [holding |-> IF served /\ req.fc \in WriteCodes
                     THEN Written(faults, holding, req) ELSE holding,
         reply   |-> IF ShouldDrop(faults, count) THEN NoReply
                     ELSE IF refusal # "-" THEN Exception(refusal)
                     ELSE IF req.fc \in ReadCodes
                     THEN ReadReply(ReadOut(profile, faults, holding, count, req))
                     ELSE Echo]
==============================================================================
