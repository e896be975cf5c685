-------------------------------- MODULE Wire --------------------------------
(***************************************************************************)
(* One DeviceClient and one DeviceServer, byte by byte.  A direction of    *)
(* the connection is a stream: bytes on their way (`flying`), bytes in the *)
(* StreamReader's buffer, and the header its reader has taken and is       *)
(* waiting for the rest of.  TCP may cut a stream anywhere; `pieces` names *)
(* the direction in which it does.                                         *)
(*                                                                         *)
(* Time is left out: the timeout of a call may fire whenever it waits, and *)
(* delay faults only add to that.  The ghosts `asked` and `owed` are the   *)
(* requests not yet handled and the replies not yet read, as records;      *)
(* `garbled` is set when a timeout throws a header away, and `misread`     *)
(* while the last call returned the echo of a write as the registers read. *)
(***************************************************************************)
EXTENDS Codec

CONSTANTS
    Profile,       \* of the device
    Setups,        \* framing, faults and pieces to start from
    Requests,      \* per framing: the requests the client may issue
    MaxSent        \* bound on the requests put on the wire

\* The byte count of a read response is a byte, and so are unit ids (config.py:55).
ASSUME WireAssumption ==
    /\ WordMod = 65536 /\ 2 * MaxRegisters \in Byte /\ MaxSent \in Nat
    /\ IsProfile(Profile) /\ Profile.unit \in Byte
    /\ \A s \in Setups : /\ s.framing \in {"custom", "modbus-tcp"}
                         /\ s.faults \in Seq(FaultConfig) /\ ~HasFault(s.faults, "delay")

\* What a client builds: whole blocks, and only for a write of several registers.
ASSUME RequestsAssumption ==
    /\ DOMAIN Requests = {"custom", "modbus-tcp"}
    /\ \A f \in DOMAIN Requests : \A r \in Requests[f] :
          /\ r \in RequestType /\ r.fc \in DOMAIN CodeOf /\ r.unit \in Byte
          /\ r.intact /\ r.even /\ (r.fc # "WRITE_MULTIPLE_REGISTERS" => r.block = <<>>)

VARIABLES
    framing, faults, pieces,
    holding, count,
    link, up, down, handler,
    call, result,
    sent, got, lost, asked, owed, garbled, misread

config == <<framing, faults, pieces>>
device == <<holding, count>>
ghosts == <<sent, got, lost, asked, owed, garbled, misread>>
vars   == <<config, device, link, up, down, handler, call, result, ghosts>>

NoBytes  == [flying |-> <<>>, buffer |-> <<>>, header |-> <<>>]
NoResult == [what |-> "none", words |-> <<>>, code |-> "-", id |-> 0]
Raised(what) == [NoResult EXCEPT !.what = what]

Init ==
    /\ \E s \in Setups : framing = s.framing /\ faults = s.faults /\ pieces = s.pieces
    /\ holding = Profile.holding /\ count = 0
    /\ link = "unconnected" /\ up = NoBytes /\ down = NoBytes /\ handler = "none"
    /\ call = [waiting |-> FALSE, req |-> Frame(0, "-", 0, 0)]
    /\ result = NoResult
    /\ sent = 0 /\ got = 0 /\ lost = 0 /\ asked = <<>> /\ owed = <<>>
    /\ garbled = FALSE /\ misread = FALSE
------------------------------------------------------------------------------
(***************************************************************************)
(* Streams: read_message and read_mbap_message.                            *)
(***************************************************************************)
Tcp == framing = "modbus-tcp"

HeaderLen == IF Tcp THEN 7 ELSE 2
BodyLen(header) == IF Tcp THEN Int16(Bytes(header, 5, 2)) - 1 ELSE Int16(header)

Transport(wire) == IF Tcp THEN wire ELSE U16(Len(wire)) \o wire

HasHeader(s) == s.header # <<>> \/ Len(s.buffer) >= HeaderLen
Header(s)    == IF s.header # <<>> THEN s.header ELSE SubSeq(s.buffer, 1, HeaderLen)
Unread(s)    == IF s.header # <<>> THEN s.buffer ELSE SubSeq(s.buffer, HeaderLen + 1, Len(s.buffer))

\* readexactly(-1)
NegativeBody(s) == HasHeader(s) /\ BodyLen(Header(s)) < 0

HasMessage(s)   == HasHeader(s) /\ BodyLen(Header(s)) \in 0 .. Len(Unread(s))
Message(s)      == (IF Tcp THEN Header(s) ELSE <<>>) \o SubSeq(Unread(s), 1, BodyLen(Header(s)))
AfterMessage(s) == [s EXCEPT !.header = <<>>,
                             !.buffer = SubSeq(Unread(s), BodyLen(Header(s)) + 1, Len(Unread(s)))]

WrittenTo(s, wire)  == [s EXCEPT !.flying = @ \o Transport(wire)]
Arrived(s, n)     == [s EXCEPT !.flying = SubSeq(@, n + 1, Len(@)),
                               !.buffer = @ \o SubSeq(s.flying, 1, n)]

\* Mutant: the header is taken first, however much has arrived.
MustWaitAlways(s) == HasHeader(s) /\ s.header = <<>> /\ ~NegativeBody(s)

\* The reader takes the header and has to wait for the body.
MustWait(s)    == HasHeader(s) /\ s.header = <<>> /\ ~NegativeBody(s) /\ ~HasMessage(s)
HeaderTaken(s) == [s EXCEPT !.header = Header(s), !.buffer = Unread(s)]

Sizes(s, direction) == IF pieces = direction THEN 1 .. Len(s.flying) ELSE {Len(s.flying)} \ {0}

UpMoves ==
    /\ \/ \E n \in Sizes(up, "up") : up' = Arrived(up, n)
       \/ handler = "reading" /\ MustWait(up) /\ up' = HeaderTaken(up)
    /\ UNCHANGED <<config, device, link, down, handler, call, result, ghosts>>

DownMoves ==
    /\ \/ \E n \in Sizes(down, "down") : down' = Arrived(down, n)
       \/ call.waiting /\ MustWait(down) /\ down' = HeaderTaken(down)
    /\ UNCHANGED <<config, device, link, up, handler, call, result, ghosts>>
------------------------------------------------------------------------------
(***************************************************************************)
(* The client.                                                             *)
(***************************************************************************)
Connect ==
    /\ link = "unconnected"
    /\ link' = "open" /\ handler' = "reading"
    /\ UNCHANGED <<config, device, up, down, call, result, ghosts>>

RequestFrame(req) == FrameBytes(req.unit, CodeOf[req.fc], req.addr, req.qty)

Encodable(req) == req.addr \in Word /\ req.qty \in Word
Packable(req)  == IF Tcp THEN PduFits(RegisterBlock(req.block))
                  ELSE 8 + Len(RegisterBlock(req.block)) \in Word

\* wrap_request; the transaction id counts the requests.
WrapRequest(req, number) ==
    IF Tcp THEN Mbap(number % 65536, req.unit, RequestPdu(RequestFrame(req), RegisterBlock(req.block)))
    ELSE RequestFrame(req) \o RegisterBlock(req.block)

\* A call that raises before anything is on the wire.
Refuse(req) ==
    /\ ~call.waiting
    /\ \/ ~Encodable(req) /\ result' = Raised("FrameError")
       \/ /\ Encodable(req) /\ link \in {"unconnected", "left"}
          /\ result' = Raised("DeviceError")
       \/ /\ Encodable(req) /\ link \notin {"unconnected", "left"} /\ ~Packable(req)
          /\ result' = Raised("struct.error")
       \/ /\ Encodable(req) /\ link \in {"reset", "aborted"} /\ Packable(req)
          /\ result' = Raised("ConnectionError")
    /\ call' = [call EXCEPT !.req = req]
    /\ misread' = FALSE
    /\ UNCHANGED <<config, device, link, up, down, handler, sent, got, lost, asked, owed, garbled>>

Send(req) ==
    /\ ~call.waiting /\ Encodable(req) /\ Packable(req) /\ sent < MaxSent
    /\ link \in {"open", "closed"}
    /\ sent' = sent + 1
    /\ call' = [waiting |-> TRUE, req |-> req]
    /\ result' = NoResult /\ misread' = FALSE
    /\ IF link = "open"
       THEN /\ up' = WrittenTo(up, WrapRequest(req, sent))
            /\ asked' = Append(asked, [id |-> sent + 1, req |-> req])
            /\ link' = link
       ELSE link' = "reset" /\ UNCHANGED <<up, asked>>
    /\ UNCHANGED <<config, device, down, handler, got, lost, owed, garbled>>

\* What a client method makes of an internal response.
Interpreted(req, response) ==
    IF IsExceptionFrame(response)
    THEN IF ~CrcHolds(response) THEN [Raised("ModbusException") EXCEPT !.code = "CRC_ERROR"]
         ELSE IF response[3] \notin 1 .. 5 THEN Raised("ValueError")
         ELSE [Raised("ModbusException") EXCEPT !.code = ExceptionName(response[3])]
    ELSE IF req.fc \in ReadCodes
    THEN IF IsReadResponse(response)
         THEN [Raised("values") EXCEPT !.words = ReadResponseWords(response)]
         ELSE Raised("DeviceError")
    ELSE Raised(IF IsFrame(response) THEN "written" ELSE "DeviceError")

\* unwrap_response, and what the method makes of it.
Outcome(req, wire) ==
    IF ~Tcp THEN Interpreted(req, wire)
    ELSE IF ~IsMbap(wire) \/ ~IsResponsePdu(MbapPdu(wire)) THEN Raised("DeviceError")
    ELSE LET pdu == MbapPdu(wire)
         IN  IF pdu[1] >= 128 /\ pdu[2] \notin 1 .. 5 THEN Raised("ValueError")
             ELSE Interpreted(req, ResponseOfPdu(MbapUnit(wire), pdu))

\* The id is that of the reply whose bytes these are, or 0 when they are not those of one.
InTurn == ~garbled /\ owed # <<>>

Receive ==
    /\ call.waiting /\ HasMessage(down)
    /\ result' = [Outcome(call.req, Message(down)) EXCEPT !.id = IF InTurn THEN Head(owed).id ELSE 0]
    /\ down' = AfterMessage(down)
    /\ call' = [call EXCEPT !.waiting = FALSE]
    /\ owed' = IF InTurn THEN Tail(owed) ELSE owed
    /\ got' = IF InTurn THEN got + 1 ELSE got
    /\ misread' = (InTurn /\ Head(owed).reply.kind = "write" /\ result'.what = "values")
    /\ UNCHANGED <<config, device, link, up, handler, sent, lost, asked, garbled>>

\* The wait for a message ends without one.
GiveUp(what) ==
    /\ call.waiting
    /\ result' = Raised(what)
    /\ lost' = lost + 1
    /\ call' = [call EXCEPT !.waiting = FALSE]
    /\ UNCHANGED <<config, device, link, up, handler, sent, got, asked, owed, misread>>

\* A body of negative length; the header is gone.
ReadRaisesValueError ==
    /\ NegativeBody(down) /\ GiveUp("ValueError")
    /\ down' = [down EXCEPT !.header = <<>>, !.buffer = Unread(down)]
    /\ garbled' = garbled

\* What the reader had taken is lost with it.
Expire ==
    /\ GiveUp("DeviceTimeout")
    /\ garbled' = (garbled \/ down.header # <<>>)
    /\ down' = [down EXCEPT !.header = <<>>]

AtEof == down.flying = <<>> /\ ~HasMessage(down) /\ ~NegativeBody(down)

Eof ==
    /\ AtEof /\ link \in {"closed", "reset"} /\ GiveUp("DeviceTimeout")
    /\ down' = NoBytes
    /\ UNCHANGED garbled

ReadRaises ==
    /\ AtEof /\ link = "aborted" /\ GiveUp("ConnectionError")
    /\ UNCHANGED <<down, garbled>>

Close ==
    /\ ~call.waiting /\ link \in {"open", "closed", "reset", "aborted"}
    /\ link' = "left" /\ down' = NoBytes /\ owed' = <<>>
    /\ UNCHANGED <<config, device, up, handler, call, result, sent, got, lost, asked, garbled, misread>>
------------------------------------------------------------------------------
(***************************************************************************)
(* The server.                                                             *)
(***************************************************************************)
\* parse_request; what it cannot parse raises.
Parses(wire)  == Tcp => IsMbap(wire) /\ IsRequestPdu(MbapPdu(wire))
Request(wire) == IF Tcp THEN RequestOfPdu(MbapUnit(wire), MbapPdu(wire)) ELSE SubSeq(wire, 1, 8)
Payload(wire) == IF Tcp THEN PayloadOfPdu(MbapPdu(wire)) ELSE SubSeq(wire, 9, Len(wire))

\* What the device makes of a frame and its payload.
Decoded(request, payload) ==
    IF ~IsFrame(request) THEN [Frame(0, "UNKNOWN", 0, 0) EXCEPT !.intact = FALSE]
    ELSE [Frame(request[1], NameOf(request[2]), FrameAddr(request), FrameValue(request)) EXCEPT
             !.block = DecodeRegisterBlock(payload), !.even = BlockIsEven(payload)]

Handled(wire) ==
    HandleFrame(Profile, faults, holding, count + 1, Decoded(Request(wire), Payload(wire)))

ResponseBytes(request, reply) ==
    IF reply.kind = "exception"
    THEN IF reply.code = "CRC_ERROR" THEN ExceptionFrame(Profile.unit, 3, 5)
         ELSE ExceptionFrame(request[1], request[2], ExceptionByte[reply.code])
    ELSE IF reply.kind = "read" THEN ReadResponse(Profile.unit, request[2], reply.words)
    ELSE SubSeq(request, 1, 8)

Response(wire) ==
    LET response == ResponseBytes(Request(wire), Handled(wire).reply)
    IN  IF HasFault(faults, "crc_corrupt") THEN FlipLastBit(response) ELSE response

\* wrap_response.
WrapResponse(response, wire) ==
    IF Tcp THEN Mbap(MbapTxid(wire), MbapUnit(wire), ResponsePdu(response)) ELSE response

\* The handler leaves its loop: a drop, or something raised.
Ends(wire) ==
    \/ ~Parses(wire)
    \/ Handled(wire).reply.kind \in {"none", "raise"}
    \/ Tcp /\ ~HasResponsePdu(Response(wire))

UpdateDevice(wire) == holding' = Handled(wire).holding /\ count' = count + 1

Answer ==
    LET wire  == Message(up)
        reply == CorruptCrc(faults, Handled(wire).reply)
    IN  /\ handler = "reading" /\ HasMessage(up) /\ ~Ends(wire)
        /\ UpdateDevice(wire)
        /\ up' = AfterMessage(up)
        /\ asked' = Tail(asked)
        /\ IF link = "open"
           THEN /\ down' = WrittenTo(down, WrapResponse(Response(wire), wire))
                /\ owed' = Append(owed, [id |-> Head(asked).id,
                                         reply |-> IF Tcp THEN [reply EXCEPT !.crcOk = TRUE] ELSE reply])
           ELSE UNCHANGED <<down, owed>>
        /\ UNCHANGED <<config, link, handler, call, result, sent, got, lost, garbled, misread>>

\* The server closes its end; requests it has not read turn the close into a reset.
Hang ==
    /\ handler = "reading" /\ HasMessage(up) /\ Ends(Message(up))
    /\ IF Parses(Message(up)) THEN UpdateDevice(Message(up)) ELSE UNCHANGED device
    /\ up' = NoBytes /\ asked' = <<>> /\ handler' = "done"
    /\ \E after \in IF link = "left" THEN {"left"}
                    ELSE IF Len(asked) = 1 THEN {"closed"} ELSE {"closed", "aborted"} : link' = after
    /\ UNCHANGED <<config, down, call, result, sent, got, lost, owed, garbled, misread>>

EndOfRequests ==
    /\ handler = "reading" /\ link = "left"
    /\ handler' = "done" /\ up' = NoBytes /\ asked' = <<>>
    /\ UNCHANGED <<config, device, link, down, call, result, sent, got, lost, owed, garbled, misread>>
------------------------------------------------------------------------------
ClientReturns == Receive \/ ReadRaisesValueError \/ Expire \/ Eof \/ ReadRaises

Next ==
    \/ UpMoves \/ DownMoves
    \/ Connect \/ Close \/ ClientReturns
    \/ Answer \/ Hang \/ EndOfRequests
    \/ \E req \in Requests[framing] : Refuse(req) \/ Send(req)

Spec == Init /\ [][Next]_vars
==============================================================================
