------------------------ MODULE DeviceLinkProperties ------------------------
(***************************************************************************)
(* What a test station relies on when it talks to a device, stated over    *)
(* DeviceLink.  A call is in step when its client has given up no call.    *)
(***************************************************************************)
EXTENDS DeviceLink, FiniteSetsExt

Faults(c)      == faults[DeviceOf[c]]
Has(c, kind)   == HasFault(Faults(c), kind)
SoleClient(c)  == \A o \in Client \ {c} : DeviceOf[o] # DeviceOf[c]
ClientsOf(d)   == {c \in Client : DeviceOf[c] = d}
InStep(c)      == result[c].id # 0 /\ lost[c] = 0

\* Nothing about the device can keep an answer from coming in time.
Dependable(c) ==
    /\ Delay(c) < Timeout /\ ~Has(c, "drop")
    /\ ~(framing = "modbus-tcp" /\ Has(c, "crc_corrupt"))
    /\ \A req \in Requests : req.fc \in ReadCodes => req.qty <= MaxRegisters

(***************************************************************************)
(* No false timeout: a delay below the timeout only slows a call, however  *)
(* many clients share the device (fault-injection.md:45, client.py:91-98). *)
(***************************************************************************)
DependableAnswers == \A c \in Client : Dependable(c) => lost[c] = 0

\* The first n[c] messages of each client of d.
Numbered(d, n) == UNION {{c} \X (1 .. n[c]) : c \in ClientsOf(d)}

Given == [c \in Client |-> got[c] + Len(toClient[c])]

(***************************************************************************)
(* A request is handled at most once, and once by the time its reply can   *)
(* be read: the device's request count lies between the replies it gave    *)
(* and the requests it was sent.                                           *)
(***************************************************************************)
HandledOnce ==
    \A d \in Device :
        /\ Cardinality(Numbered(d, Given)) <= count[d]
        /\ count[d] <= Cardinality(Numbered(d, sent))

(***************************************************************************)
(* An acknowledged write is in the registers, except for those a stuck     *)
(* fault freezes, when the call is in step and nobody else writes          *)
(* (simulated.py:103-142, client.py:129-149).                              *)
(***************************************************************************)
AckedWriteApplied ==
    \A c \in Client :
        InStep(c) /\ SoleClient(c) /\ result[c].what = "written" =>
            \A a \in Span(call[c].req) :
                ~IsStuck(Faults(c), a) => holding[DeviceOf[c]][a] = WrittenWord(call[c].req, a)

(***************************************************************************)
(* A read in step returns the registers as they are, walked off by the     *)
(* drift fault only.                                                       *)
(***************************************************************************)
ReadIsCurrent ==
    \A c \in Client :
        LET d == DeviceOf[c] IN
        InStep(c) /\ SoleClient(c) /\ result[c].what = "values" =>
            result[c].words = ReadOut(Profile[d], faults[d], holding[d], count[d], call[c].req)

(***************************************************************************)
(* A reply with a corrupted CRC never passes for an answer in the custom   *)
(* framing, and never acknowledges a write in either (codec.py:95,         *)
(* frame.py:107, framing.py:111).                                          *)
(***************************************************************************)
CorruptionCaught ==
    \A c \in Client : Has(c, "crc_corrupt") =>
        /\ result[c].what # "written"
        /\ framing = "custom" => result[c].what # "values"

(***************************************************************************)
(* A device that drops after k requests answers none after the k-th, even  *)
(* to a client that reads late replies (faults.py:49-54, server.py:94).    *)
(***************************************************************************)
NothingAfterDrop ==
    \A c \in Client :
        SoleClient(c) /\ Has(c, "drop") /\ result[c].id # 0 =>
            result[c].id <= Fault(Faults(c), "drop").after

(***************************************************************************)
(* Every call returns or raises: no fault can hang a client.               *)
(***************************************************************************)
EveryCallReturns == \A c \in Client : call[c].waiting ~> ~call[c].waiting

(***************************************************************************)
(* A handler outlives its client only as long as it has requests to serve: *)
(* no connection leaves a coroutine behind (server.py:83-103).             *)
(***************************************************************************)
HandlersEnd == \A c \in Client : link[c] = "left" ~> handler[c].pc = "done"
------------------------------------------------------------------------------
(***************************************************************************)
(* What the documents say and the code does not do.                        *)
(***************************************************************************)
\* fault-injection.md:47: a corrupted CRC surfaces as a DeviceError.
CrcCorruptSurfaces ==
    \A c \in Client : Has(c, "crc_corrupt") => result[c].what # "values"
==============================================================================
