----------------------------- MODULE DeviceProofs -----------------------------
(***************************************************************************)
(* The simulated device under any fault lists, given any frames.           *)
(***************************************************************************)
EXTENDS Device, SimulatedDeviceProofs

Typed ==
    /\ faults \in Seq(FaultConfig)
    /\ DOMAIN holding = DOMAIN Profile.holding
    /\ count \in Nat

\* A device that has dropped a request is past its drop.
Dropped == reply.kind = "none" => ShouldDrop(faults, count)

IInv == Typed /\ Dropped /\ StuckFreezes

(***************************************************************************)
(* FaultEngine.fault finds the first fault of its kind if there is one, so *)
(* what the code asks of it is what a reader finds in the list.            *)
(***************************************************************************)
LEMMA FaultIsFirst ==
    ASSUME Typed, NEW kind
    PROVE  /\ HasFault(faults, kind) => \E i \in DOMAIN faults : FirstOf(kind, i)
           /\ \A i \in DOMAIN faults :
                 FirstOf(kind, i) => HasFault(faults, kind) /\ Fault(faults, kind) = faults[i]
<1>1. DOMAIN faults = 1 .. Len(faults) /\ Len(faults) \in Nat
    BY DEF Typed
<1>2. ASSUME HasFault(faults, kind) PROVE \E i \in DOMAIN faults : FirstOf(kind, i)
    <2>1. faults \in Seq(FaultConfig)
        BY DEF Typed
    <2> QED
        BY <1>2, <2>1, FirstOfKind DEF FirstOf
<1>3. ASSUME NEW i \in DOMAIN faults, FirstOf(kind, i)
      PROVE  HasFault(faults, kind) /\ Fault(faults, kind) = faults[i]
    <2> DEFINE First(k) == faults[k].kind = kind /\ \A j \in 1 .. k - 1 : faults[j].kind # kind
    <2>1. First(i)
        BY <1>3 DEF FirstOf
    <2>2. \A k \in DOMAIN faults : First(k) => k = i
        <3> SUFFICES ASSUME NEW k \in DOMAIN faults, First(k) PROVE k = i
            OBVIOUS
        <3>1. i \in Int /\ k \in Int /\ 1 <= i /\ 1 <= k
            BY <1>1
        <3>2. ~(i < k)
            <4>1. i < k => i \in 1 .. k - 1
                BY <3>1
            <4> QED
                BY <2>1, <4>1
        <3>3. ~(k < i)
            <4>1. k < i => k \in 1 .. i - 1
                BY <3>1
            <4> QED
                BY <2>1, <4>1
        <3> QED
            BY <3>1, <3>2, <3>3
    <2>3. (CHOOSE k \in DOMAIN faults : First(k)) = i
        <3> HIDE DEF First
        <3> QED
            BY <2>1, <2>2
    <2> QED
        BY <2>1, <2>3 DEF HasFault, Fault
<1> QED
    BY <1>2, <1>3

LEMMA StuckIsFrozen ==
    ASSUME Typed, NEW a
    PROVE  IsStuck(faults, a) <=> FrozenAt(a)
BY FaultIsFirst DEF IsStuck, Hits, FrozenAt

LEMMA DropIsFirst ==
    ASSUME Typed
    PROVE  ShouldDrop(faults, count + 1)
              <=> \E i \in DOMAIN faults : FirstOf("drop", i) /\ faults[i].after <= count
<1>1. ASSUME NEW i \in DOMAIN faults PROVE faults[i].after \in Int
    <2>1. faults \in Seq(FaultConfig) /\ DOMAIN faults = 1 .. Len(faults)
        BY DEF Typed
    <2>2. faults[i] \in FaultConfig
        BY <2>1, ElementOfSeq
    <2> QED
        BY <2>2 DEF FaultConfig
<1>2. ASSUME NEW i \in DOMAIN faults, FirstOf("drop", i)
      PROVE  ShouldDrop(faults, count + 1) <=> faults[i].after <= count
    <2>1. HasFault(faults, "drop") /\ Fault(faults, "drop") = faults[i]
        BY <1>2, FaultIsFirst
    <2>2. faults[i].after \in Int /\ count \in Int
        BY <1>1 DEF Typed
    <2> QED
        BY <2>1, <2>2 DEF ShouldDrop
<1>3. ShouldDrop(faults, count + 1) => \E i \in DOMAIN faults : FirstOf("drop", i)
    BY FaultIsFirst DEF ShouldDrop
<1> QED
    BY <1>2, <1>3

LEMMA InitInv == Init => IInv
<1> SUFFICES ASSUME Init PROVE IInv
    OBVIOUS
<1>1. Typed
    BY DeviceAssumption DEF Init, Typed
<1>2. Dropped
    BY DEF Init, Dropped, Reply
<1>3. StuckFreezes
    <2>1. Span(request) = {}
        BY DEF Init, Span, Frame
    <2> QED
        BY <2>1 DEF Init, StuckFreezes
<1> QED
    BY <1>1, <1>2, <1>3 DEF IInv

(***************************************************************************)
(* What a step leaves: the faults, the addresses, and what a stuck fault   *)
(* freezes.                                                                *)
(***************************************************************************)
LEMMA HandleEffects ==
    ASSUME IInv, NEW req \in Frames, Handle(req)
    PROVE  /\ faults' = faults /\ count' = count + 1 /\ DOMAIN holding' = DOMAIN holding
           /\ \A a \in DOMAIN holding : IsStuck(faults, a) => holding'[a] = holding[a]
           /\ reply'.kind = "none" <=> ShouldDrop(faults, count + 1)
           /\ request' = req /\ (reply'.kind = "write" => holding' = Written(faults, holding, req))
<1>1. faults' = faults /\ count' = count + 1 /\ request' = req
    BY DEF Handle
<1>2. holding' \in {holding, Written(faults, holding, req)}
    BY DEF Handle, HandleFrame
<1>3. DOMAIN holding' = DOMAIN holding /\ \A a \in DOMAIN holding : IsStuck(faults, a) => holding'[a] = holding[a]
    BY <1>2 DEF Written
<1>4. reply'.kind = "none" <=> ShouldDrop(faults, count + 1)
    BY DEF Handle, HandleFrame, NoReply, Exception, ReadReply, Raises, Echo, Reply
<1>5. reply'.kind = "write" => holding' = Written(faults, holding, req)
    <2>1. ASSUME req.fc \in ReadCodes PROVE reply'.kind # "write"
        BY <2>1 DEF Handle, HandleFrame, NoReply, Exception, ReadReply, Raises, Reply
    <2>2. ASSUME req.fc \notin ReadCodes, reply'.kind = "write"
          PROVE  ~ShouldDrop(faults, count + 1) /\ Refusal(Profile, holding, req) = "-" /\ req.fc \in WriteCodes
        BY <2>2 DEF Handle, HandleFrame, NoReply, Exception, Reply, Refusal
    <2> QED
        BY <2>1, <2>2 DEF Handle, HandleFrame
<1> QED
    BY <1>1, <1>3, <1>4, <1>5

LEMMA DropStays ==
    ASSUME Typed, ShouldDrop(faults, count)
    PROVE  ShouldDrop(faults, count + 1)
<1>1. Fault(faults, "drop") \in FaultConfig
    BY FaultType DEF Typed, ShouldDrop
<1>2. Fault(faults, "drop").after \in Int
    BY <1>1 DEF FaultConfig
<1> QED
    BY <1>2 DEF Typed, ShouldDrop

LEMMA StepInv == IInv /\ [Next]_vars => IInv'
<1> SUFFICES ASSUME IInv, [Next]_vars PROVE IInv'
    OBVIOUS
<1>1. ASSUME NEW req \in Frames, Handle(req) PROVE IInv'
    <2>1. Typed'
        BY <1>1, HandleEffects DEF IInv, Typed
    <2>2. Dropped'
        BY <1>1, HandleEffects DEF Dropped
    <2>3. StuckFreezes'
        <3> SUFFICES ASSUME NEW a \in DOMAIN holding'
                     PROVE  /\ FrozenAt(a)' => holding'[a] = Profile.holding[a]
                            /\ ~FrozenAt(a)' /\ reply'.kind = "write" /\ a \in Span(request')
                                  => holding'[a] = WrittenWord(request', a)
            BY DEF StuckFreezes
        <3>1. a \in DOMAIN holding /\ (FrozenAt(a)' <=> FrozenAt(a)) /\ (IsStuck(faults, a) <=> FrozenAt(a))
            BY <1>1, HandleEffects, StuckIsFrozen DEF IInv, FrozenAt, FirstOf
        <3>2. FrozenAt(a) => holding'[a] = Profile.holding[a]
            BY <1>1, <3>1, HandleEffects DEF IInv, StuckFreezes
        <3>3. ASSUME ~FrozenAt(a), reply'.kind = "write", a \in Span(request')
              PROVE  holding'[a] = WrittenWord(request', a)
            <4>1. request' = req /\ holding' = Written(faults, holding, req)
                BY <1>1, <3>3, HandleEffects
            <4> QED
                BY <3>1, <3>3, <4>1 DEF Written
        <3> QED
            BY <3>1, <3>2, <3>3
    <2> QED
        BY <2>1, <2>2, <2>3 DEF IInv
<1>2. CASE UNCHANGED vars
    BY <1>2 DEF vars, IInv, Typed, Dropped, StuckFreezes, FrozenAt, FirstOf
<1> QED
    BY <1>1, <1>2 DEF Next
------------------------------------------------------------------------------
(***************************************************************************)
(* The register the first stuck fault names keeps its value under any      *)
(* sequence of frames and beside any other faults, and no other register   *)
(* does (faults.py:33-38, 71-76).                                          *)
(***************************************************************************)
THEOREM Frozen == Spec => []StuckFreezes
<1>1. IInv => StuckFreezes
    BY DEF IInv
<1> QED
    BY <1>1, InitInv, StepInv, PTL DEF Spec

(***************************************************************************)
(* A device answers exactly the requests before its drop                   *)
(* (faults.py:33-38, 49-54).                                               *)
(***************************************************************************)
THEOREM NeverBack == Spec => DropIsForever
<1> DEFINE Drops == \E i \in DOMAIN faults : FirstOf("drop", i) /\ faults[i].after <= count
<1>1. IInv /\ [Next]_vars => [reply'.kind = "none" <=> reply.kind = "none" \/ Drops]_vars
    <2> SUFFICES ASSUME IInv, NEW req \in Frames, Handle(req)
                 PROVE  reply'.kind = "none" <=> reply.kind = "none" \/ Drops
        BY DEF Next
    <2>1. reply'.kind = "none" <=> ShouldDrop(faults, count + 1)
        BY HandleEffects
    <2>2. ShouldDrop(faults, count + 1) <=> Drops
        BY DropIsFirst DEF IInv
    <2>3. reply.kind = "none" => ShouldDrop(faults, count + 1)
        BY DropStays DEF IInv, Dropped
    <2> QED
        BY <2>1, <2>2, <2>3
<1> QED
    BY <1>1, InitInv, StepInv, PTL DEF Spec, DropIsForever
------------------------------------------------------------------------------
(***************************************************************************)
(* What the register file sees of a request handled without drift and      *)
(* stuck faults: a load, a store, or a command declined.                   *)
(***************************************************************************)
Memory(regs) == [holding |-> regs, input |-> Profile.input]

LEMMA Declined ==
    ASSUME NEW req \in Frames, Handle(req), Undistorted,
           reply'.kind \notin {"read", "write"}
    PROVE  holding' = holding /\ reply'.words = <<>>
BY DEF Handle, HandleFrame, NoReply, Exception, ReadReply, Raises, Echo, Reply, ReadCodes, WriteCodes

LEMMA Served ==
    ASSUME NEW req \in Frames, Handle(req), reply'.kind \in {"read", "write"}
    PROVE  /\ Refusal(Profile, holding, req) = "-"
           /\ \/ /\ req.fc \in ReadCodes /\ holding' = holding
                 /\ reply'.words = ReadOut(Profile, faults, holding, count + 1, req)
              \/ /\ req.fc \in WriteCodes /\ reply'.words = <<>>
                 /\ holding' = Written(faults, holding, req)
<1> DEFINE out == ReadOut(Profile, faults, holding, count + 1, req)
<1>1. ~ShouldDrop(faults, count + 1) /\ Refusal(Profile, holding, req) = "-"
    BY DEF Handle, HandleFrame, NoReply, Exception, Reply
<1>2. req.fc \in ReadCodes \/ req.fc \in WriteCodes
    BY <1>1 DEF Refusal
<1>3. CASE req.fc \in ReadCodes
    <2>1. req.fc \notin WriteCodes
        BY <1>3 DEF ReadCodes, WriteCodes
    <2>2. reply' = ReadReply(out) /\ holding' = holding
        BY <1>1, <1>3, <2>1 DEF Handle, HandleFrame
    <2>3. reply'.words = out
        BY <2>2 DEF ReadReply, Raises, Reply
    <2> QED
        BY <1>1, <1>3, <2>2, <2>3
<1>4. CASE req.fc \in WriteCodes
    <2>1. req.fc \notin ReadCodes
        BY <1>4 DEF ReadCodes, WriteCodes
    <2>2. reply' = Echo /\ holding' = Written(faults, holding, req)
        BY <1>1, <1>4, <2>1 DEF Handle, HandleFrame
    <2> QED
        BY <1>1, <1>4, <2>2 DEF Echo, Reply
<1> QED
    BY <1>2, <1>3, <1>4

LEMMA LoadStep ==
    ASSUME NEW req \in Frames, Handle(req), Undistorted, Undistorted', req.fc \in ReadCodes,
           Refusal(Profile, holding, req) = "-", holding' = holding, reply'.kind \in {"read", "write"},
           reply'.words = ReadOut(Profile, faults, holding, count + 1, req)
    PROVE  File!Load(Command(req))
<1> DEFINE c   == Command(req)
           mem == Memory(holding)
<1>1. /\ c.op = "load" /\ c.first = req.addr /\ c.size = req.qty
      /\ mem[c.bank] = Bank(Profile, holding, req.fc)
    BY DEF Command, ReadCodes, WriteCodes, Bank, Memory
<1>2. Span(req) \subseteq DOMAIN Bank(Profile, holding, req.fc) /\ Span(req) = req.addr .. req.addr + req.qty - 1
    BY DEF Refusal, Span, ReadCodes
<1>3. reply'.words = [i \in 1 .. c.size |-> mem[c.bank][c.first + i - 1]]
    <2>1. reply'.words = [i \in 1 .. req.qty |-> Bank(Profile, holding, req.fc)[req.addr + i - 1]]
        BY DEF Undistorted, ReadOut, ReadDrift
    <2> HIDE DEF c, mem
    <2> QED
        BY <1>1, <2>1
<1> HIDE DEF c
<1> QED
    BY <1>1, <1>2, <1>3 DEF File!Load, File!Cells, Memory, c

LEMMA StoreStep ==
    ASSUME NEW req \in Frames, Handle(req), Undistorted, Undistorted', req.fc \in WriteCodes,
           Refusal(Profile, holding, req) = "-", holding' = Written(faults, holding, req),
           reply'.kind \in {"read", "write"}, reply'.words = <<>>
    PROVE  File!Store(Command(req))
<1> DEFINE c == Command(req)
<1>1. req \in RequestType /\ req.addr \in Int
    BY DeviceAssumption DEF RequestType
<1>2. c.op = "store" /\ c.bank = "holding" /\ c.first = req.addr
    BY DEF Command, WriteCodes
<1>3. /\ c.first .. c.first + c.size - 1 = Span(req) /\ Span(req) \subseteq DOMAIN holding
      /\ Len(c.words) = c.size
      /\ \A a \in Span(req) : c.words[a - c.first + 1] = WrittenWord(req, a)
    <2>1. CASE req.fc = "WRITE_SINGLE_REGISTER"
        <3>1. c.size = 1 /\ c.words = <<req.qty>> /\ Span(req) = {req.addr}
            BY <2>1 DEF Command, Span
        <3>2. Span(req) \subseteq DOMAIN holding
            BY <2>1 DEF Refusal, Bank
        <3> QED
            BY <1>1, <1>2, <2>1, <3>1, <3>2 DEF WrittenWord
    <2>2. CASE req.fc = "WRITE_MULTIPLE_REGISTERS"
        <3>1. c.size = req.qty /\ c.words = req.block /\ Span(req) = req.addr .. req.addr + req.qty - 1
            BY <2>2 DEF Command, Span
        <3>2. Span(req) \subseteq DOMAIN holding /\ Len(req.block) = req.qty
            BY <2>2 DEF Refusal, Bank
        <3> QED
            BY <1>2, <2>2, <3>1, <3>2 DEF WrittenWord
    <2> QED
        BY <2>1, <2>2 DEF WriteCodes
<1>4. holding' = [a \in DOMAIN holding |->
                    IF a \in c.first .. c.first + c.size - 1 THEN c.words[a - c.first + 1] ELSE holding[a]]
    <2>1. holding' = [a \in DOMAIN holding |-> IF a \in Span(req) THEN WrittenWord(req, a) ELSE holding[a]]
        BY DEF Written, IsStuck, Undistorted
    <2> HIDE DEF c
    <2> QED
        BY <1>3, <2>1
<1> HIDE DEF c
<1>5. Memory(holding)[c.bank] = holding
    BY <1>2 DEF Memory
<1>6. /\ File!Cells(c) \subseteq DOMAIN Memory(holding)[c.bank] /\ Len(c.words) = c.size
      /\ Memory(holding') = [Memory(holding) EXCEPT ![c.bank] =
            [a \in DOMAIN Memory(holding)[c.bank] |->
                IF a \in File!Cells(c) THEN c.words[a - c.first + 1] ELSE Memory(holding)[c.bank][a]]]
    <2> DEFINE regs == [a \in DOMAIN holding |->
                          IF a \in c.first .. c.first + c.size - 1 THEN c.words[a - c.first + 1] ELSE holding[a]]
    <2>1. [Memory(holding) EXCEPT !["holding"] = regs] = Memory(regs)
        <3> HIDE DEF regs
        <3> QED
            BY DEF Memory
    <2> QED
        BY <1>2, <1>3, <1>4, <1>5, <2>1 DEF File!Cells
<1> QED
    BY <1>2, <1>6 DEF File!Store, Memory, c

(***************************************************************************)
(* The device implements the register file, whatever its map, its faults   *)
(* and the frames it is given (simulated.py:52-142).                       *)
(***************************************************************************)
THEOREM ImplementsRegisterFile == Spec => IsRegisterFile
<1>1. Init => File!Init
    <2> SUFFICES ASSUME Init PROVE File!Init
        OBVIOUS
    <2> QED
        BY DEF Init, File!Init, Reply
<1>2. [Next]_vars => [File!Next]_File!vars
    <2>1. ASSUME UNCHANGED vars PROVE UNCHANGED File!vars
        BY <2>1 DEF vars, File!vars, Undistorted
    <2>2. ASSUME NEW req \in Frames, Handle(req) PROVE [File!Next]_File!vars
        <3>1. faults' = faults /\ (Undistorted <=> Undistorted')
            BY <2>2 DEF Handle, Undistorted
        <3>2. CASE ~Undistorted
            BY <3>1, <3>2 DEF File!vars
        <3>3. CASE Undistorted
            <4>1. Command(req) \in {Command(f) : f \in Frames}
                OBVIOUS
            <4>2. CASE reply'.kind \notin {"read", "write"}
                <5>1. holding' = holding /\ reply'.words = <<>>
                    BY <2>2, <3>3, <4>2, Declined
                <5>2. File!Decline
                    <6>1. (reply'.kind \in {"read", "write"}) = FALSE
                        BY <4>2
                    <6> QED
                        BY <3>1, <3>3, <5>1, <6>1 DEF File!Decline
                <5>3. request' = req
                    BY <2>2 DEF Handle
                <5> QED
                    BY <3>1, <3>3, <4>1, <5>2, <5>3 DEF File!Next
            <4>3. CASE reply'.kind \in {"read", "write"}
                <5>1. File!Load(Command(req)) \/ File!Store(Command(req))
                    <6>1. Undistorted'
                        BY <3>1, <3>3
                    <6>2. CASE req.fc \in ReadCodes /\ req.fc \notin WriteCodes
                        BY <2>2, <3>3, <4>3, <6>1, <6>2, Served, LoadStep
                    <6>3. CASE req.fc \in WriteCodes /\ req.fc \notin ReadCodes
                        BY <2>2, <3>3, <4>3, <6>1, <6>3, Served, StoreStep
                    <6>4. req.fc \in ReadCodes \/ req.fc \in WriteCodes
                        BY <2>2, <4>3, Served
                    <6> QED
                        BY <6>2, <6>3, <6>4 DEF ReadCodes, WriteCodes
                <5>2. request' = req
                    BY <2>2 DEF Handle
                <5> QED
                    BY <3>1, <3>3, <4>1, <5>1, <5>2 DEF File!Next
            <4> QED
                BY <4>2, <4>3
        <3> QED
            BY <3>2, <3>3
    <2> QED
        BY <2>1, <2>2 DEF Next
<1> QED
    BY <1>1, <1>2, PTL DEF Spec, IsRegisterFile, File!Spec
==============================================================================
