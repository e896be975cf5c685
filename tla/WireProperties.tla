--------------------------- MODULE WireProperties ---------------------------
(***************************************************************************)
(* The bytes carry what DeviceLink says the clients and servers exchange.  *)
(***************************************************************************)
EXTENDS Wire

\* What travels are bytes, and what arrives are words.
StreamType == [flying : Seq(Byte), buffer : Seq(Byte), header : Seq(Byte)]

TypeOK ==
    /\ holding \in [DOMAIN Profile.holding -> Word] /\ count \in Nat
    /\ up \in StreamType /\ down \in StreamType
    /\ result.words \in Seq(Word)

Link == INSTANCE DeviceLink WITH
    Device   <- {"device"}, Client <- {"client"},
    DeviceOf <- [c \in {"client"} |-> "device"],
    Profile  <- [d \in {"device"} |-> Profile],
    Setups   <- {[framing |-> s.framing, faults |-> [d \in {"device"} |-> s.faults]] : s \in Setups},
    Requests <- UNION {Requests[f] : f \in DOMAIN Requests},
    Timeout  <- 0,
    faults   <- [d \in {"device"} |-> faults],
    holding  <- [d \in {"device"} |-> holding],
    count    <- [d \in {"device"} |-> count],
    link     <- [c \in {"client"} |-> link],
    toServer <- [c \in {"client"} |-> asked],
    toClient <- [c \in {"client"} |-> owed],
    handler  <- [c \in {"client"} |-> [pc |-> handler, timer |-> 0]],
    call     <- [c \in {"client"} |-> [waiting |-> call.waiting, req |-> call.req, left |-> 0]],
    result   <- [c \in {"client"} |-> result],
    sent     <- [c \in {"client"} |-> sent],
    got      <- [c \in {"client"} |-> got],
    lost     <- [c \in {"client"} |-> lost]

(***************************************************************************)
(* Wherever TCP cuts the streams and whenever timeouts fire, each request  *)
(* is handled as the client meant it, the device answers it, drops it or   *)
(* raises as DeviceLink says, and the client makes of the bytes of a reply *)
(* what DeviceLink makes of the reply, with two exceptions: after a        *)
(* timeout between the two reads of one message (server.py:28-45,          *)
(* client.py:91-98) nothing is claimed, and a read call that takes a late  *)
(* echo of a write may return it as registers (codec.py:83-98).            *)
(***************************************************************************)
CarriesDeviceLink == Link!Init /\ [][garbled' \/ misread' \/ [Link!Next]_(Link!vars)]_vars

(***************************************************************************)
(* Only the echo of a write to one of the registers 0x0300 to 0x03FF can   *)
(* be misread, and only after a call was given up: the high byte of the    *)
(* address stands where a read response has its byte count.  It passes for *)
(* two registers (codec.py:83-98, client.py:109-127).                      *)
(***************************************************************************)
MisreadIsLateEcho ==
    misread => /\ lost > 0 /\ Len(result.words) = 2
               /\ \E r \in Requests[framing] : r.fc \in WriteCodes /\ r.addr \in 768 .. 1023

(***************************************************************************)
(* A timeout leaves the client in step with the bytes if every reply comes *)
(* in one piece, however late: header and body are read without a pause    *)
(* (server.py:28-45, client.py:91-98).                                     *)
(***************************************************************************)
WholeRepliesKeepStep == pieces = "up" => ~garbled
==============================================================================
