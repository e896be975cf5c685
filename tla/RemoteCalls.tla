----------------------------- MODULE RemoteCalls -----------------------------
(***************************************************************************)
(* What a client wants of a device behind a wire: each call takes effect   *)
(* on the device exactly once, at one moment between its start and its     *)
(* return, and returns what the device said at that moment.  There is no   *)
(* stream, no server and no time here.                                     *)
(***************************************************************************)
EXTENDS SimulatedDevice

CONSTANTS Device, Client, DeviceOf, Profile, Requests

VARIABLES
    faults, holding, count,    \* the devices
    phase,                     \* idle, called or effective
    asked, answer,             \* the call in progress and what the device said
    returned                   \* what the last call returned

vars == <<faults, holding, count, phase, asked, answer, returned>>

NoRequest == Frame(0, "-", 0, 0)
Outcome(what, words, code) == [what |-> what, words |-> words, code |-> code]
Local(what) == Outcome(what, <<>>, "-")

\* How a reply reads to the caller.
Told(reply) ==
    IF reply.kind = "exception" THEN Outcome("ModbusException", <<>>, reply.code)
    ELSE Outcome(IF reply.kind = "read" THEN "values" ELSE "written", reply.words, "-")

Init ==
    /\ holding  = [d \in Device |-> Profile[d].holding]
    /\ count    = [d \in Device |-> 0]
    /\ phase    = [c \in Client |-> "idle"]
    /\ asked    = [c \in Client |-> NoRequest]
    /\ answer   = [c \in Client |-> NoReply]
    /\ returned = [c \in Client |-> Local("none")]

Call(c, req) ==
    /\ phase[c] = "idle"
    /\ phase' = [phase EXCEPT ![c] = "called"]
    /\ asked' = [asked EXCEPT ![c] = req]
    /\ returned' = [returned EXCEPT ![c] = Local("none")]
    /\ UNCHANGED <<faults, holding, count, answer>>

TakeEffect(c) ==
    LET d   == DeviceOf[c]
        out == HandleFrame(Profile[d], faults[d], holding[d], count[d] + 1, asked[c])
    IN  /\ phase[c] = "called"
        /\ phase' = [phase EXCEPT ![c] = "effective"]
        /\ holding' = [holding EXCEPT ![d] = out.holding]
        /\ count' = [count EXCEPT ![d] = @ + 1]
        /\ answer' = [answer EXCEPT ![c] = out.reply]
        /\ UNCHANGED <<faults, asked, returned>>

Return(c) ==
    /\ phase[c] = "effective"
    /\ phase' = [phase EXCEPT ![c] = "idle"]
    /\ asked' = [asked EXCEPT ![c] = NoRequest]
    /\ answer' = [answer EXCEPT ![c] = NoReply]
    /\ returned' = [returned EXCEPT ![c] = Told(answer[c])]
    /\ UNCHANGED <<faults, holding, count>>

\* A call that cannot be encoded, or made on a closed client, never reaches the device.
Refuse(c) ==
    /\ phase[c] = "idle"
    /\ \E what \in {"FrameError", "struct.error", "DeviceError"} :
          returned' = [returned EXCEPT ![c] = Local(what)]
    /\ UNCHANGED <<faults, holding, count, phase, asked, answer>>

Next == \E c \in Client : \/ \E req \in Requests : Call(c, req)
                          \/ TakeEffect(c) \/ Return(c) \/ Refuse(c)

Spec == Init /\ [][Next]_vars /\ \A c \in Client : WF_vars(TakeEffect(c)) /\ WF_vars(Return(c))
==============================================================================
