-------------------------------- MODULE Codec --------------------------------
(***************************************************************************)
(* The bytes of frames, read responses, exceptions and register blocks     *)
(* (frame.py, codec.py, exceptions.py), of Modbus TCP messages (mbap.py)   *)
(* and of the translations between the two (framing.py).  A byte string is *)
(* a sequence of 0 .. 255.  Where the code raises, there is an operator    *)
(* that says so, and what it would have returned is not looked at.         *)
(***************************************************************************)
EXTENDS SimulatedDevice, SequencesExt

Byte == 0 .. 255

\* ">H", both ways, and "<H".
U16(v)       == <<v \div 256, v % 256>>
Int16(b)     == 256 * b[1] + b[2]
LowFirst(v)  == <<v % 256, v \div 256>>
Bytes(b, first, count) == SubSeq(b, first, first + count - 1)
------------------------------------------------------------------------------
(***************************************************************************)
(* crc16: bit by bit, polynomial 0xA001, seed 0xFFFF.                      *)
(***************************************************************************)
\* The bit of weight w.
Bit(v, w)  == (v \div w) % 2
Flip(v, w) == IF Bit(v, w) = 1 THEN v - w ELSE v + w

Xor8(v, byte) == LET at(w) == IF Bit(v, w) = Bit(byte, w) THEN 0 ELSE w
                 IN  at(1) + at(2) + at(4) + at(8) + at(16) + at(32) + at(64) + at(128)

\* One pass of the inner loop; mutant: added where it is to be exclusively or-ed.
ShiftOutAdding(c) == IF c % 2 = 1 THEN c \div 2 + 40961 ELSE c \div 2
ShiftOut(c) == IF c % 2 = 1 THEN Flip(Flip(Flip(c \div 2, 1), 8192), 32768) ELSE c \div 2

Crc16(data) ==
    LET crc[n \in 0 .. 8 * Len(data)] ==
            IF n = 0 THEN 65535
            ELSE LET c == crc[n - 1]
                 IN  ShiftOut(IF n % 8 = 1 THEN 256 * (c \div 256) + Xor8(c, data[n \div 8 + 1]) ELSE c)
    IN  crc[8 * Len(data)]

WithCrc(body) == body \o LowFirst(Crc16(body))
CrcHolds(b)   == SubSeq(b, Len(b) - 1, Len(b)) = LowFirst(Crc16(SubSeq(b, 1, Len(b) - 2)))
------------------------------------------------------------------------------
(***************************************************************************)
(* Frames, read responses, exceptions, register blocks.                    *)
(***************************************************************************)
CodeOf == [READ_HOLDING_REGISTERS |-> 3, READ_INPUT_REGISTERS |-> 4,
           WRITE_SINGLE_REGISTER |-> 6, WRITE_MULTIPLE_REGISTERS |-> 16]
NameOf(fc) == IF \E name \in DOMAIN CodeOf : CodeOf[name] = fc
              THEN CHOOSE name \in DOMAIN CodeOf : CodeOf[name] = fc ELSE "UNKNOWN"
ReadBytes  == {3, 4}
WriteMultiple == 16

ExceptionByte == [ILLEGAL_FUNCTION |-> 1, ILLEGAL_DATA_ADDRESS |-> 2, ILLEGAL_DATA_VALUE |-> 3,
                  DEVICE_FAILURE |-> 4, CRC_ERROR |-> 5]
ExceptionName(byte) == CHOOSE name \in DOMAIN ExceptionByte : ExceptionByte[name] = byte

\* Frame.encode and decode.
FrameBytes(unit, fc, addr, value) == WithCrc(<<unit, fc>> \o U16(addr) \o U16(value))
IsFrame(b)    == Len(b) = 8 /\ CrcHolds(b)
FrameAddr(b)  == Int16(Bytes(b, 3, 2))
FrameValue(b) == Int16(Bytes(b, 5, 2))

RegisterBlock(words)   ==
    [k \in 1 .. 2 * Len(words) |-> U16(words[(k + 1) \div 2] % 65536)[IF k % 2 = 1 THEN 1 ELSE 2]]
BlockIsEven(b)         == Len(b) % 2 = 0
DecodeRegisterBlock(b) == [k \in 1 .. Len(b) \div 2 |-> Int16(Bytes(b, 2 * k - 1, 2))]

ReadResponse(unit, fc, words) == WithCrc(<<unit, fc, 2 * Len(words)>> \o RegisterBlock(words))
\* Mutant: the length is not compared with the byte count.
IsReadResponseAnyLength(b) == Len(b) >= 5 /\ CrcHolds(b)
IsReadResponse(b)    == Len(b) >= 5 /\ Len(b) = 3 + b[3] + 2 /\ CrcHolds(b)
\* With an odd byte count the last register ends in the first byte of the CRC.
ReadResponseWords(b) == [k \in 1 .. (b[3] + 1) \div 2 |-> Int16(Bytes(b, 2 * k + 2, 2))]

ExceptionFrame(unit, fc, code) == WithCrc(<<unit, IF fc < 128 THEN fc + 128 ELSE fc, code, 0, 0, 0>>)
IsExceptionFrame(b) == Len(b) = 8 /\ b[2] >= 128

\* FaultEngine.corrupt_crc.
FlipLastBit(b) == [b EXCEPT ![Len(b)] = Flip(@, 1)]
------------------------------------------------------------------------------
(***************************************************************************)
(* Modbus TCP messages and the PDUs in them.                               *)
(***************************************************************************)
\* Mutant: the length does not count the unit id.
MbapShort(txid, unit, pdu) == U16(txid) \o U16(0) \o U16(Len(pdu)) \o <<unit>> \o pdu

Mbap(txid, unit, pdu) == U16(txid) \o U16(0) \o U16(1 + Len(pdu)) \o <<unit>> \o pdu

IsMbap(b) == /\ Len(b) > 7
             /\ Bytes(b, 3, 2) = U16(0)
             /\ Int16(Bytes(b, 5, 2)) = Len(b) - 6
MbapTxid(b) == Int16(Bytes(b, 1, 2))
MbapUnit(b) == b[7]
MbapPdu(b)  == SubSeq(b, 8, Len(b))

\* _custom_request_to_pdu, of a frame the client built; more than 255 bytes are a struct.error.
PduFits(payload) == Len(payload) <= 255
RequestPdu(request, payload) ==
    Bytes(request, 2, 5) \o IF request[2] # WriteMultiple THEN <<>> ELSE <<Len(payload)>> \o payload

\* _pdu_to_custom_request.
IsRequestPdu(pdu) ==
    Len(pdu) >= 5 /\ (pdu[1] = WriteMultiple => Len(pdu) >= 6 /\ Len(pdu) = 6 + pdu[6])
RequestOfPdu(unit, pdu) == FrameBytes(unit, pdu[1], Int16(Bytes(pdu, 2, 2)), Int16(Bytes(pdu, 4, 2)))
PayloadOfPdu(pdu) == IF pdu[1] = WriteMultiple THEN SubSeq(pdu, 7, Len(pdu)) ELSE <<>>

\* _custom_response_to_pdu: to echo a write it decodes the frame.
HasResponsePdu(response) ==
    IsExceptionFrame(response) \/ response[2] \in ReadBytes \/ IsFrame(response)
ResponsePdu(response) ==
    IF IsExceptionFrame(response) THEN Bytes(response, 2, 2)
    ELSE IF response[2] \in ReadBytes THEN Bytes(response, 2, 2 + response[3])
    ELSE Bytes(response, 2, 5)

\* _pdu_to_internal_response.
IsResponsePdu(pdu) ==
    IF pdu[1] >= 128 THEN Len(pdu) >= 2
    ELSE IF pdu[1] \in ReadBytes THEN Len(pdu) >= 2 /\ Len(pdu) >= 2 + pdu[2] /\ pdu[2] % 2 = 0
                                        /\ pdu[2] \div 2 <= MaxRegisters
    ELSE Len(pdu) >= 5
ResponseOfPdu(unit, pdu) ==
    IF pdu[1] >= 128 THEN ExceptionFrame(unit, pdu[1] - 128, pdu[2])
    ELSE IF pdu[1] \in ReadBytes
    THEN ReadResponse(unit, pdu[1], DecodeRegisterBlock(Bytes(pdu, 3, pdu[2])))
    ELSE FrameBytes(unit, pdu[1], Int16(Bytes(pdu, 2, 2)), Int16(Bytes(pdu, 4, 2)))
==============================================================================
