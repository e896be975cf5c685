-------------------------------- MODULE Device --------------------------------
(***************************************************************************)
(* One SimulatedDevice given any sequence of frames, well-formed or not:   *)
(* every branch of handle_frame under every choice of faults.              *)
(***************************************************************************)
EXTENDS SimulatedDevice

CONSTANTS
    Profile,       \* unit and registers of the device
    FaultSetups,   \* the fault lists to start from
    Frames,        \* the frames it may be given
    MaxRequests    \* bound on request_count

ASSUME DeviceAssumption ==
    /\ IsProfile(Profile)
    /\ FaultSetups \subseteq Seq(FaultConfig)
    /\ Frames \subseteq RequestType
    /\ \A f \in Frames : f.fc = "WRITE_SINGLE_REGISTER" => f.qty \in Word
    /\ MaxRequests \in Nat

VARIABLES faults, holding, count, request, reply

vars == <<faults, holding, count, request, reply>>

Init ==
    /\ faults \in FaultSetups
    /\ holding = Profile.holding
    /\ count = 0
    /\ request = Frame(0, "-", 0, 0)
    /\ reply = Reply("write", <<>>, "-")

Handle(req) ==
    LET out == HandleFrame(Profile, faults, holding, count + 1, req)
    IN  /\ count < MaxRequests
        /\ holding' = out.holding
        /\ count' = count + 1
        /\ request' = req
        /\ reply' = out.reply
        /\ UNCHANGED faults

Next == \E req \in Frames : Handle(req)

Spec == Init /\ [][Next]_vars
------------------------------------------------------------------------------
\* The command a frame puts to the register map.
Command(req) ==
    [op    |-> IF req.fc \in WriteCodes THEN "store" ELSE IF req.fc \in ReadCodes THEN "load" ELSE "none",
     bank  |-> IF req.fc = "READ_INPUT_REGISTERS" THEN "input" ELSE "holding",
     first |-> req.addr,
     size  |-> IF req.fc = "WRITE_SINGLE_REGISTER" THEN 1 ELSE req.qty,
     words |-> IF req.fc = "WRITE_SINGLE_REGISTER" THEN <<req.qty>> ELSE req.block]

\* Nothing distorts what is read or written.
Undistorted == ~HasFault(faults, "drift") /\ ~HasFault(faults, "stuck")

File == INSTANCE RegisterFile WITH
    Initial  <- [holding |-> Profile.holding, input |-> Profile.input],
    Commands <- {Command(f) : f \in Frames},
    memory   <- [holding |-> IF Undistorted THEN holding ELSE Profile.holding,
                 input   |-> Profile.input],
    command  <- Command(IF Undistorted THEN request ELSE Frame(0, "-", 0, 0)),
    answer   <- IF Undistorted THEN [ok |-> reply.kind \in {"read", "write"}, words |-> reply.words]
                ELSE [ok |-> TRUE, words |-> <<>>]

(***************************************************************************)
(* Without drift and stuck faults the device is a register file: reads are *)
(* exact, an acknowledged write wrote every register it names and no       *)
(* other, and a refused or dropped request changes nothing                 *)
(* (simulated.py:52-142).  With them it promises nothing, and no step of   *)
(* it shows in the file.                                                   *)
(***************************************************************************)
IsRegisterFile == File!Spec

\* Fault i of the list is a fault of that kind, and none before it is.
FirstOf(kind, i) == faults[i].kind = kind /\ \A j \in 1 .. i - 1 : faults[j].kind # kind

(***************************************************************************)
(* A device answers as many requests as its first drop fault says, be they *)
(* reads, writes or refused ones, and none after them, whatever it is      *)
(* asked; without a drop fault it answers all (faults.py:33-38, 49-54).    *)
(***************************************************************************)
DropIsForever ==
    [][reply'.kind = "none" <=>
         reply.kind = "none" \/ \E i \in DOMAIN faults : FirstOf("drop", i) /\ faults[i].after <= count]_vars

(***************************************************************************)
(* The first stuck fault of a device freezes its register, or all, against *)
(* everything that is written; any other register holds what was last      *)
(* acknowledged, also if a later stuck fault names it                      *)
(* (faults.py:33-38, 71-76, simulated.py:103-142).                         *)
(***************************************************************************)
FrozenAt(a) == \E i \in DOMAIN faults : FirstOf("stuck", i) /\ (faults[i].whole \/ faults[i].register = a)

StuckFreezes ==
    \A a \in DOMAIN holding :
        /\ FrozenAt(a) => holding[a] = Profile.holding[a]
        /\ ~FrozenAt(a) /\ reply.kind = "write" /\ a \in Span(request)
              => holding[a] = WrittenWord(request, a)
==============================================================================
