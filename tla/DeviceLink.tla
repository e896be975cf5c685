------------------------------ MODULE DeviceLink ------------------------------
(***************************************************************************)
(* DeviceClients talking to DeviceServers over TCP: the exchange of        *)
(* controller/client.py, the per-connection handler of server.py and the   *)
(* simulated device behind it, with the two wire formats of framing.py.    *)
(*                                                                         *)
(* A client has at most one call in progress.  The server runs one handler *)
(* coroutine per connection; the handlers of one device share its          *)
(* registers and its request count.  Time passes in ticks: `left` is what  *)
(* remains of wait_for's timeout, `timer` what remains of a delay fault.   *)
(* The event loop and the loopback network take no time: Tick waits until  *)
(* nothing else can run.                                                   *)
(***************************************************************************)
EXTENDS SimulatedDevice

CONSTANTS
    Device, Client,
    DeviceOf,      \* the device each client is a client of
    Profile,       \* per device: unit, holding and input registers
    Setups,        \* the configurations to start from: framing, and faults per device
    Requests,      \* the requests clients may issue
    Timeout,       \* the client's timeout, in ticks
    MaxSent        \* bound on the requests one client puts on the wire

ASSUME DeviceOfAssumption == DeviceOf \in [Client -> Device]
ASSUME ProfileAssumption  == \A d \in Device : IsProfile(Profile[d])
ASSUME SetupsAssumption   == \A s \in Setups : /\ s.framing \in {"custom", "modbus-tcp"}
                                               /\ s.faults \in [Device -> Seq(FaultConfig)]
ASSUME RequestsAssumption == Requests \subseteq RequestType
ASSUME TimeoutAssumption  == Timeout \in Nat /\ MaxSent \in Nat

VARIABLES
    framing, faults,       \* configuration, fixed at the start
    holding, count,        \* per device: holding registers, request_count
    link,                  \* per client: the connection, as its transport sees it
    toServer, toClient,    \* per client: requests not yet handled, replies not yet read
    handler,               \* per client: the server's handler coroutine
    call,                  \* per client: the call in progress
    result,                \* per client: how its last call returned or raised
    sent, got, lost        \* per client: requests sent, replies read, calls given up

config  == <<framing, faults>>
device  == <<holding, count>>
counts  == <<sent, got, lost>>
vars    == <<config, device, link, toServer, toClient, handler, call, result, counts>>

Framing == {"custom", "modbus-tcp"}

(***************************************************************************)
(* open: both ends up.  closed: the server closed, the client's reader is  *)
(* at EOF.  reset: the client wrote after that, so its next write fails.   *)
(* aborted: the server closed with requests unread, so the client's reader *)
(* holds the ConnectionResetError.  left: the client closed.               *)
(***************************************************************************)
LinkState == {"unconnected", "open", "closed", "reset", "aborted", "left"}

\* values, written: the call returned.  The others name what it raised.
ResultKind == {"none", "values", "written", "ModbusException", "DeviceError",
               "DeviceTimeout", "ConnectionError", "FrameError", "struct.error"}

NoResult == [what |-> "none", words |-> <<>>, code |-> "-", id |-> 0]
Raised(what) == [NoResult EXCEPT !.what = what]

\* Frame.__post_init__: the fields must fit the wire.
Encodable(req) == req.addr \in Word /\ req.qty \in Word

\* Modbus TCP declares the length of a register block in one byte (wrap_request), the
\* custom framing that of the request in two (frame_message).
Packable(req) == 2 * Len(req.block) <= IF framing = "modbus-tcp" THEN 255 ELSE 65535 - 8

(***************************************************************************)
(* What reaches the client of a device reply.  Modbus TCP carries no CRC,  *)
(* and the client rebuilds one; but to rebuild a write echo the server     *)
(* decodes it first, so a corrupted one raises inside the handler.         *)
(***************************************************************************)
Unwrappable(reply) ==
    \/ reply.kind \in {"none", "raise"}
    \/ framing = "modbus-tcp" /\ reply.kind = "write" /\ ~reply.crcOk

WrapResponse(reply) ==
    IF framing = "modbus-tcp" THEN [reply EXCEPT !.crcOk = TRUE] ELSE reply

(***************************************************************************)
(* How a client method interprets a reply: only its shape and CRC.  A late *)
(* write echo with the bytes of a read response is told from one here;     *)
(* Wire, which has the bytes, does not tell them apart.                    *)
(***************************************************************************)
Decode(req, msg) ==
    LET reply == msg.reply
        what  == IF reply.kind = "exception" THEN "ModbusException"
                 ELSE IF ~reply.crcOk \/ (reply.kind = "read") # (req.fc \in ReadCodes)
                 THEN "DeviceError"
                 ELSE IF reply.kind = "read" THEN "values" ELSE "written"
    IN  [what  |-> what,
         words |-> IF what = "values" THEN reply.words ELSE <<>>,
         code  |-> IF what # "ModbusException" THEN "-"
                   ELSE IF reply.crcOk THEN reply.code ELSE "CRC_ERROR",
         id    |-> msg.id]
------------------------------------------------------------------------------
Init ==
    /\ \E s \in Setups : framing = s.framing /\ faults = s.faults
    /\ holding  = [d \in Device |-> Profile[d].holding]
    /\ count    = [d \in Device |-> 0]
    /\ link     = [c \in Client |-> "unconnected"]
    /\ toServer = [c \in Client |-> <<>>]
    /\ toClient = [c \in Client |-> <<>>]
    /\ handler  = [c \in Client |-> [pc |-> "none", timer |-> 0]]
    /\ call     = [c \in Client |-> [waiting |-> FALSE, req |-> Frame(0, "-", 0, 0), left |-> 0]]
    /\ result   = [c \in Client |-> NoResult]
    /\ sent     = [c \in Client |-> 0]
    /\ got      = [c \in Client |-> 0]
    /\ lost     = [c \in Client |-> 0]

(***************************************************************************)
(* The client.                                                             *)
(***************************************************************************)
Connect(c) ==
    /\ link[c] = "unconnected"
    /\ link' = [link EXCEPT ![c] = "open"]
    /\ handler' = [handler EXCEPT ![c].pc = "reading"]
    /\ UNCHANGED <<config, device, toServer, toClient, call, result, counts>>

\* A call that raises before anything is on the wire.
Refuse(c, req) ==
    /\ ~call[c].waiting
    /\ \/ /\ ~Encodable(req)
          /\ result' = [result EXCEPT ![c] = Raised("FrameError")]
       \/ /\ Encodable(req) /\ link[c] \in {"unconnected", "left"}
          /\ result' = [result EXCEPT ![c] = Raised("DeviceError")]
       \/ /\ Encodable(req) /\ link[c] \notin {"unconnected", "left"} /\ ~Packable(req)
          /\ result' = [result EXCEPT ![c] = Raised("struct.error")]
       \/ /\ Encodable(req) /\ link[c] \in {"reset", "aborted"} /\ Packable(req)
          /\ result' = [result EXCEPT ![c] = Raised("ConnectionError")]
    /\ call' = [call EXCEPT ![c].req = req]
    /\ UNCHANGED <<config, device, link, toServer, toClient, handler, counts>>

\* write and drain succeed on a connection the server has closed; what is sent is lost.
Send(c, req) ==
    /\ ~call[c].waiting /\ Encodable(req) /\ Packable(req) /\ sent[c] < MaxSent
    /\ link[c] \in {"open", "closed"}
    /\ sent' = [sent EXCEPT ![c] = @ + 1]
    /\ call' = [call EXCEPT ![c] = [waiting |-> TRUE, req |-> req, left |-> Timeout]]
    /\ result' = [result EXCEPT ![c] = NoResult]
    /\ IF link[c] = "open"
       THEN /\ toServer' = [toServer EXCEPT ![c] = Append(@, [id |-> sent[c] + 1, req |-> req])]
            /\ link' = link
       ELSE /\ link' = [link EXCEPT ![c] = "reset"]
            /\ toServer' = toServer
    /\ UNCHANGED <<config, device, toClient, handler, got, lost>>

Receive(c) ==
    /\ call[c].waiting /\ toClient[c] # <<>>
    /\ result' = [result EXCEPT ![c] = Decode(call[c].req, Head(toClient[c]))]
    /\ toClient' = [toClient EXCEPT ![c] = Tail(@)]
    /\ got' = [got EXCEPT ![c] = @ + 1]
    /\ call' = [call EXCEPT ![c].waiting = FALSE, ![c].left = 0]
    /\ UNCHANGED <<config, device, link, toServer, handler, sent, lost>>

\* Mutants: a call that is retried for ever, and one that discards what is pending.
RetryForever(c, what) ==
    /\ call[c].waiting
    /\ call' = [call EXCEPT ![c].left = Timeout]
    /\ UNCHANGED <<config, device, link, toServer, toClient, handler, result, counts>>
GiveUpAndDrain(c, what) ==
    /\ call[c].waiting
    /\ result' = [result EXCEPT ![c] = Raised(what)]
    /\ lost' = [lost EXCEPT ![c] = @ + 1]
    /\ call' = [call EXCEPT ![c].waiting = FALSE, ![c].left = 0]
    /\ toClient' = [toClient EXCEPT ![c] = <<>>]
    /\ UNCHANGED <<config, device, link, toServer, handler, sent, got>>

GiveUp(c, what) ==
    /\ call[c].waiting
    /\ result' = [result EXCEPT ![c] = Raised(what)]
    /\ lost' = [lost EXCEPT ![c] = @ + 1]
    /\ call' = [call EXCEPT ![c].waiting = FALSE, ![c].left = 0]
    /\ UNCHANGED <<config, device, link, toServer, toClient, handler, sent, got>>

\* The timeout fires: the connection stays up and the reply, if any, stays pending.
Expire(c) == call[c].left = 0 /\ GiveUp(c, "DeviceTimeout")

Eof(c) == toClient[c] = <<>> /\ link[c] \in {"closed", "reset"} /\ GiveUp(c, "DeviceTimeout")

ReadRaises(c) == toClient[c] = <<>> /\ link[c] = "aborted" /\ GiveUp(c, "ConnectionError")

Close(c) ==
    /\ ~call[c].waiting
    /\ link[c] \in {"open", "closed", "reset", "aborted"}
    /\ link' = [link EXCEPT ![c] = "left"]
    /\ toClient' = [toClient EXCEPT ![c] = <<>>]
    /\ UNCHANGED <<config, device, toServer, handler, call, result, counts>>
------------------------------------------------------------------------------
(***************************************************************************)
(* The server.  The request a handler is working on stays at the head of   *)
(* toServer until it is answered.                                          *)
(***************************************************************************)
Delay(c) == DelayOf(faults[DeviceOf[c]])

\* Mutant: the device sleeps for one handler at a time.
ApplyDelayInTurn(c) ==
    /\ handler[c].pc = "reading" /\ toServer[c] # <<>> /\ Delay(c) > 0
    /\ \E o \in Client :
          /\ DeviceOf[o] = DeviceOf[c]
          /\ \A p \in Client : DeviceOf[p] = DeviceOf[c] => handler[p].timer <= handler[o].timer
          /\ handler' = [handler EXCEPT ![c] = [pc |-> "sleeping", timer |-> handler[o].timer + Delay(c)]]
    /\ UNCHANGED <<config, device, link, toServer, toClient, call, result, counts>>

ApplyDelay(c) ==
    /\ handler[c].pc = "reading" /\ toServer[c] # <<>> /\ Delay(c) > 0
    /\ handler' = [handler EXCEPT ![c] = [pc |-> "sleeping", timer |-> Delay(c)]]
    /\ UNCHANGED <<config, device, link, toServer, toClient, call, result, counts>>

\* No await separates reading a request from answering it when there is no delay.
Ready(c) ==
    /\ toServer[c] # <<>>
    /\ \/ handler[c].pc = "reading" /\ Delay(c) = 0
       \/ handler[c].pc = "sleeping" /\ handler[c].timer = 0

\* Mutant: handled before note_request has counted the request.
HandledUncounted(c) ==
    LET d == DeviceOf[c]
    IN  HandleFrame(Profile[d], faults[d], holding[d], count[d], Head(toServer[c]).req)

Handled(c) ==
    LET d == DeviceOf[c]
    IN  HandleFrame(Profile[d], faults[d], holding[d], count[d] + 1, Head(toServer[c]).req)

Response(c) == CorruptCrc(faults[DeviceOf[c]], Handled(c).reply)

\* Mutant: only the requests that read are counted.
UpdateCountingReads(c) ==
    /\ holding' = [holding EXCEPT ![DeviceOf[c]] = Handled(c).holding]
    /\ count' = [count EXCEPT ![DeviceOf[c]] =
                    @ + IF Head(toServer[c]).req.fc \in ReadCodes THEN 1 ELSE 0]

UpdateDevice(c) ==
    /\ holding' = [holding EXCEPT ![DeviceOf[c]] = Handled(c).holding]
    /\ count' = [count EXCEPT ![DeviceOf[c]] = @ + 1]

Answer(c) ==
    /\ Ready(c) /\ ~Unwrappable(Response(c))
    /\ UpdateDevice(c)
    /\ toServer' = [toServer EXCEPT ![c] = Tail(@)]
    /\ toClient' = IF link[c] = "open"
                   THEN [toClient EXCEPT ![c] = Append(@, [id    |-> Head(toServer[c]).id,
                                                           reply |-> WrapResponse(Response(c))])]
                   ELSE toClient
    /\ handler' = [handler EXCEPT ![c] = [pc |-> "reading", timer |-> 0]]
    /\ UNCHANGED <<config, link, call, result, counts>>

\* Mutant: the handler passes over a request it cannot answer and serves the next.
HangKeepsServing(c) ==
    /\ Ready(c) /\ Unwrappable(Response(c))
    /\ UpdateDevice(c)
    /\ toServer' = [toServer EXCEPT ![c] = Tail(@)]
    /\ handler' = [handler EXCEPT ![c] = [pc |-> "reading", timer |-> 0]]
    /\ UNCHANGED <<config, link, toClient, call, result, counts>>

\* Dropped, or an exception left the handler: it closes its end without replying.
\* Requests that are in the kernel by then, unread, turn the close into a reset.
Hang(c) ==
    /\ Ready(c) /\ Unwrappable(Response(c))
    /\ UpdateDevice(c)
    /\ toServer' = [toServer EXCEPT ![c] = <<>>]
    /\ \E after \in IF link[c] = "left" THEN {"left"}
                    ELSE IF Len(toServer[c]) = 1 THEN {"closed"} ELSE {"closed", "aborted"} :
          link' = [link EXCEPT ![c] = after]
    /\ handler' = [handler EXCEPT ![c] = [pc |-> "done", timer |-> 0]]
    /\ UNCHANGED <<config, toClient, call, result, counts>>

\* Mutant: the handler passes over the IncompleteReadError of read_wire_message.
EndIgnored(c) ==
    /\ handler[c].pc = "reading" /\ link[c] = "left"
    /\ toServer' = [toServer EXCEPT ![c] = <<>>]
    /\ UNCHANGED <<config, device, link, toClient, handler, call, result, counts>>

\* The client is gone: EOF after the last request, or a reset before it.
EndOfRequests(c) ==
    /\ handler[c].pc = "reading" /\ link[c] = "left"
    /\ handler' = [handler EXCEPT ![c].pc = "done"]
    /\ toServer' = [toServer EXCEPT ![c] = <<>>]
    /\ UNCHANGED <<config, device, link, toClient, call, result, counts>>
------------------------------------------------------------------------------
(***************************************************************************)
(* Time passes when no coroutine can run, and something is being timed.    *)
(***************************************************************************)
Runnable(c) ==
    \/ call[c].waiting /\ (\/ call[c].left = 0
                           \/ toClient[c] # <<>>
                           \/ link[c] \in {"closed", "reset", "aborted"})
    \/ handler[c].pc = "reading" /\ (toServer[c] # <<>> \/ link[c] = "left")
    \/ handler[c].pc = "sleeping" /\ handler[c].timer = 0

Timing(c) == call[c].waiting \/ handler[c].pc = "sleeping"

Tick ==
    /\ \A c \in Client : ~Runnable(c)
    /\ \E c \in Client : Timing(c)
    /\ call' = [c \in Client |->
                  IF call[c].waiting THEN [call[c] EXCEPT !.left = @ - 1] ELSE call[c]]
    /\ handler' = [c \in Client |->
                     IF handler[c].pc = "sleeping" THEN [handler[c] EXCEPT !.timer = @ - 1]
                     ELSE handler[c]]
    /\ UNCHANGED <<config, device, link, toServer, toClient, result, counts>>

ClientReturns(c) == Receive(c) \/ Expire(c) \/ Eof(c) \/ ReadRaises(c)
ServerStep(c)    == ApplyDelay(c) \/ Answer(c) \/ Hang(c) \/ EndOfRequests(c)

Network == \/ Tick
           \/ \E c \in Client : ClientReturns(c) \/ ServerStep(c)

Next == \/ Network
        \/ \E c \in Client : Connect(c) \/ Close(c)
        \/ \E c \in Client, req \in Requests : Send(c, req) \/ Refuse(c, req)

Spec == Init /\ [][Next]_vars

(***************************************************************************)
(* The event loop runs every coroutine that can run, and clocks advance.   *)
(* Nothing makes a client issue a call, connect or close.                  *)
(***************************************************************************)
Fairness == /\ WF_vars(Tick)
            /\ \A c \in Client : WF_vars(ClientReturns(c)) /\ WF_vars(ServerStep(c))

FairSpec == Spec /\ Fairness
------------------------------------------------------------------------------
WireRequest  == [id : Nat, req : {r \in RequestType : Encodable(r)}]
WireReply    == [id : Nat, reply : ReplyType]
HandlerState == [pc : {"none", "reading", "sleeping", "done"}, timer : Nat]
CallState    == [waiting : BOOLEAN, req : RequestType, left : Nat]
ResultType   == [what : ResultKind, words : Seq(Word), code : ExceptionCode \cup {"-"}, id : Nat]

\* Every variable has its type; what travels to the server fits its frame.
TypeOK ==
    /\ framing \in Framing
    /\ faults \in [Device -> Seq(FaultConfig)]
    /\ DOMAIN holding = Device
    /\ \A d \in Device : holding[d] \in [DOMAIN Profile[d].holding -> Word]
    /\ count \in [Device -> Nat]
    /\ link \in [Client -> LinkState]
    /\ toServer \in [Client -> Seq(WireRequest)]
    /\ toClient \in [Client -> Seq(WireReply)]
    /\ handler \in [Client -> HandlerState]
    /\ call \in [Client -> CallState]
    /\ result \in [Client -> ResultType]
    /\ sent \in [Client -> Nat] /\ got \in [Client -> Nat] /\ lost \in [Client -> Nat]

\* The messages of a stream carry the ids that follow `last`.
Consecutive(messages, last) == \A i \in DOMAIN messages : messages[i].id = last + i

(***************************************************************************)
(* Replies come back one per request, in request order, and none is made   *)
(* up: what is unread, and on an open connection what is unanswered,       *)
(* continues the ids the client has read without a gap (server.py:83-103,  *)
(* client.py:85-98).                                                       *)
(***************************************************************************)
Aligned(c) ==
    /\ Consecutive(toClient[c], got[c])
    /\ link[c] = "open" =>
          /\ Consecutive(toServer[c], got[c] + Len(toClient[c]))
          /\ sent[c] = got[c] + Len(toClient[c]) + Len(toServer[c])

Alignment == \A c \in Client : Aligned(c)

(***************************************************************************)
(* The reply a call returns answers the call made `lost` calls before it:  *)
(* a timeout leaves its reply on the stream (client.py:97), and nothing in *)
(* _exchange ever skips one.  So a client that has given up no call gets   *)
(* its own answers, and one that has given up a call never does again.     *)
(***************************************************************************)
ReplyLag ==
    \A c \in Client : result[c].id # 0 => sent[c] = result[c].id + lost[c]
==============================================================================
