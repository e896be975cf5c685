------------------------ MODULE SimulatedDeviceProofs ------------------------
(***************************************************************************)
(* What handle_frame returns, for every configuration: lemmas for the      *)
(* modules that compose the device with a transport.                       *)
(***************************************************************************)
EXTENDS SimulatedDevice, TLAPS, WellFoundedInduction, SequenceTheorems

(***************************************************************************)
(* FaultEngine.fault returns the first configured fault of the kind asked  *)
(* for, if there is any.                                                   *)
(***************************************************************************)
LEMMA FirstOfKind ==
    ASSUME NEW faults \in Seq(FaultConfig), NEW kind, HasFault(faults, kind)
    PROVE  \E i \in DOMAIN faults : /\ faults[i].kind = kind
                                    /\ \A j \in 1 .. i - 1 : faults[j].kind # kind
<1> DEFINE T == {i \in DOMAIN faults : faults[i].kind = kind}
<1>1. T \subseteq Nat /\ T # {} /\ DOMAIN faults = 1 .. Len(faults) /\ Len(faults) \in Nat
    BY DEF HasFault
<1>2. PICK x \in T : \A y \in T : ~(<<y, x>> \in OpToRel(<, Nat))
    BY <1>1, WFMin, NatLessThanWellFounded
<1>3. \A y \in T : ~(y < x)
    BY <1>1, <1>2 DEF OpToRel
<1>4. \A j \in 1 .. x - 1 : faults[j].kind # kind
    BY <1>1, <1>3
<1> QED
    BY <1>4

LEMMA FaultType ==
    ASSUME NEW faults \in Seq(FaultConfig), NEW kind, HasFault(faults, kind)
    PROVE  Fault(faults, kind) \in FaultConfig /\ Fault(faults, kind).kind = kind
<1>1. \E i \in DOMAIN faults : /\ faults[i].kind = kind
                               /\ \A j \in 1 .. i - 1 : faults[j].kind # kind
    BY FirstOfKind
<1> QED
    BY <1>1, ElementOfSeq DEF Fault

LEMMA DelayType ==
    ASSUME NEW faults \in Seq(FaultConfig)
    PROVE  DelayOf(faults) \in Nat
BY FaultType DEF DelayOf, FaultConfig

(***************************************************************************)
(* apply_read_drift stays within a register word: the walk-off wraps.      *)
(***************************************************************************)
LEMMA ReadDriftType ==
    ASSUME NEW faults \in Seq(FaultConfig), NEW count \in Nat, NEW addr \in Int,
           NEW value \in Word
    PROVE  ReadDrift(faults, count, addr, value) \in Word
<1>1. CASE HasFault(faults, "drift")
    <2> DEFINE step == Fault(faults, "drift").amount * count
    <2>1. Fault(faults, "drift").amount \in Int
        BY <1>1, FaultType DEF FaultConfig
    <2>2. step \in Int
        BY <2>1
    <2>3. value + step \in Int
        BY <2>2 DEF Word
    <2> HIDE DEF step
    <2>4. (value + step) % WordMod \in Word
        BY <2>3, WordModAssumption DEF Word
    <2> QED
        BY <2>4 DEF ReadDrift, step
<1>2. CASE ~HasFault(faults, "drift")
    BY <1>2 DEF ReadDrift
<1> QED
    BY <1>1, <1>2

(***************************************************************************)
(* A register map keeps its addresses and stays within words, and the      *)
(* reply is one the codec can put on the wire, whatever the frame.         *)
(***************************************************************************)
LEMMA HandleFrameType ==
    ASSUME NEW faults \in Seq(FaultConfig), NEW count \in Nat, NEW req \in RequestType,
           NEW profile, NEW holding, IsProfile(profile),
           holding \in [DOMAIN holding -> Word],
           req.fc = "WRITE_SINGLE_REGISTER" => req.qty \in Word
    PROVE  LET out == HandleFrame(profile, faults, holding, count, req)
           IN  /\ out.holding \in [DOMAIN holding -> Word]
               /\ out.reply \in ReplyType
               /\ out.reply.crcOk
<1> DEFINE refusal == Refusal(profile, holding, req)
           bank    == Bank(profile, holding, req.fc)
<1>1. refusal \in ExceptionCode \cup {"-"}
    BY DEF Refusal, ExceptionCode
<1>2. ASSUME refusal = "-"
      PROVE  /\ req.fc \in ReadCodes \cup WriteCodes
             /\ req.fc = "WRITE_MULTIPLE_REGISTERS" => Len(req.block) = req.qty
             /\ Span(req) \subseteq DOMAIN bank
    BY <1>2 DEF Refusal
<1>3. ASSUME refusal = "-", req.fc \in WriteCodes
      PROVE  Written(faults, holding, req) \in [DOMAIN holding -> Word]
    <2> SUFFICES ASSUME NEW a \in DOMAIN holding, a \in Span(req)
                 PROVE  WrittenWord(req, a) \in Word
        BY DEF Written
    <2>1. CASE req.fc = "WRITE_SINGLE_REGISTER"
        BY <2>1 DEF WrittenWord
    <2>2. CASE req.fc # "WRITE_SINGLE_REGISTER"
        <3>1. req.fc = "WRITE_MULTIPLE_REGISTERS" /\ Len(req.block) = req.qty
            BY <1>2, <1>3, <2>2 DEF WriteCodes
        <3>2. req.block \in Seq(Word) /\ req.addr \in Int /\ req.qty \in Int
            BY DEF RequestType
        <3>3. a - req.addr + 1 \in 1 .. Len(req.block)
            BY <2>2, <3>1, <3>2 DEF Span
        <3> QED
            BY <2>2, <3>2, <3>3, ElementOfSeq DEF WrittenWord
    <2> QED
        BY <2>1, <2>2
<1>4. ASSUME refusal = "-", req.fc \in ReadCodes
      PROVE  ReadOut(profile, faults, holding, count, req) \in Seq(Word)
    <2>1. req.addr \in Int /\ req.qty \in Int
        BY DEF RequestType
    <2>2. bank \in [DOMAIN bank -> Word]
        BY DEF Bank, IsProfile
    <2>3. ASSUME NEW i \in 1 .. req.qty
          PROVE  ReadDrift(faults, count, req.addr + i - 1, bank[req.addr + i - 1]) \in Word
        <3>1. req.addr + i - 1 \in Span(req)
            BY <1>4, <2>1 DEF Span, ReadCodes
        <3> DEFINE a == req.addr + i - 1
                   v == bank[req.addr + i - 1]
        <3>2. a \in Int /\ v \in Word
            BY <1>2, <1>4, <2>1, <2>2, <3>1
        <3> HIDE DEF a, v
        <3>3. ReadDrift(faults, count, a, v) \in Word
            BY <3>2, ReadDriftType
        <3> QED
            BY <3>3 DEF a, v
    <2> DEFINE n == IF req.qty \in Nat THEN req.qty ELSE 0
    <2>4. n \in Nat /\ 1 .. req.qty = 1 .. n
        BY <2>1
    <2> QED
        BY <2>3, <2>4, IsASeq DEF ReadOut
<1> HIDE DEF refusal
<1>5. HandleFrame(profile, faults, holding, count, req).holding \in [DOMAIN holding -> Word]
    BY <1>3 DEF HandleFrame, refusal
<1>6. /\ NoReply \in ReplyType /\ Raises \in ReplyType /\ Echo \in ReplyType
      /\ \A code \in ExceptionCode : Exception(code) \in ReplyType
      /\ \A ws \in Seq(Word) : ReadReply(ws) \in ReplyType
    BY EmptySeq DEF NoReply, Raises, Echo, Exception, ReadReply, Reply, ReplyType
<1>7. HandleFrame(profile, faults, holding, count, req).reply \in ReplyType
    BY <1>1, <1>4, <1>6 DEF HandleFrame, refusal
<1>8. HandleFrame(profile, faults, holding, count, req).reply.crcOk
    BY DEF HandleFrame, NoReply, Raises, Echo, Exception, ReadReply, Reply
<1> QED
    BY <1>5, <1>7, <1>8
==============================================================================
