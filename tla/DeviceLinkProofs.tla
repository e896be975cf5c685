--------------------------- MODULE DeviceLinkProofs ---------------------------
(***************************************************************************)
(* DeviceLink for every set of clients and devices, every configuration of *)
(* faults, every timeout and any number of requests: first the types of    *)
(* its variables and the order of replies, then what a test station relies *)
(* on when it talks to a device.                                           *)
(***************************************************************************)
EXTENDS DeviceLinkRefinement, SimulatedDeviceProofs, FiniteSetTheorems

USE DeviceOfAssumption, ProfileAssumption, SetupsAssumption, RequestsAssumption,
    TimeoutAssumption

(***************************************************************************)
(* What a client makes of a reply is a well-formed result.                 *)
(***************************************************************************)
LEMMA DecodeType ==
    ASSUME NEW req \in RequestType, NEW msg \in WireReply
    PROVE  Decode(req, msg) \in ResultType /\ Decode(req, msg).id = msg.id
BY EmptySeq DEF Decode, WireReply, ReplyType, ResultType, ResultKind, ExceptionCode

LEMMA RaisedType ==
    ASSUME NEW what \in ResultKind
    PROVE  Raised(what) \in ResultType /\ Raised(what).id = 0
BY EmptySeq DEF Raised, NoResult, ResultType

LEMMA InitTyped == Init => TypeOK
<1> SUFFICES ASSUME Init PROVE TypeOK
    OBVIOUS
<1>1. framing \in Framing /\ faults \in [Device -> Seq(FaultConfig)]
    BY DEF Init, Framing
<1>2. DOMAIN holding = Device /\ \A d \in Device : holding[d] \in [DOMAIN Profile[d].holding -> Word]
    BY DEF Init, IsProfile
<1>3. Frame(0, "-", 0, 0) \in RequestType
    BY EmptySeq DEF Frame, RequestType, FunctionCode
<1>4. NoResult \in ResultType
    BY EmptySeq DEF NoResult, ResultType, ResultKind
<1>5. call \in [Client -> CallState] /\ result \in [Client -> ResultType]
    BY <1>3, <1>4 DEF Init, CallState
<1>6. toServer \in [Client -> Seq(WireRequest)] /\ toClient \in [Client -> Seq(WireReply)]
    BY EmptySeq DEF Init
<1>7. /\ count \in [Device -> Nat] /\ link \in [Client -> LinkState]
      /\ handler \in [Client -> HandlerState]
      /\ sent \in [Client -> Nat] /\ got \in [Client -> Nat] /\ lost \in [Client -> Nat]
    BY DEF Init, LinkState, HandlerState
<1> QED
    BY <1>1, <1>2, <1>5, <1>6, <1>7 DEF TypeOK

(***************************************************************************)
(* Serving the request at the head keeps registers and count well-typed,   *)
(* and the reply can be put on the wire.                                   *)
(***************************************************************************)
LEMMA HandledTyped ==
    ASSUME TypeOK, NEW c \in Client, Ready(c)
    PROVE  /\ Handled(c).holding \in [DOMAIN Profile[DeviceOf[c]].holding -> Word]
           /\ Response(c) \in ReplyType
           /\ WrapResponse(Response(c)) \in ReplyType
           /\ Head(toServer[c]) \in WireRequest
<1> DEFINE d == DeviceOf[c]
<1>1. d \in Device /\ IsProfile(Profile[d])
    OBVIOUS
<1>2. Head(toServer[c]) \in WireRequest
    BY HeadTailProperties DEF TypeOK, Ready
<1>3. /\ faults[d] \in Seq(FaultConfig) /\ count[d] + 1 \in Nat
      /\ holding[d] \in [DOMAIN holding[d] -> Word]
      /\ DOMAIN holding[d] = DOMAIN Profile[d].holding
    BY <1>1 DEF TypeOK
<1>4. /\ Head(toServer[c]).req \in RequestType
      /\ Head(toServer[c]).req.qty \in Word
    BY <1>2 DEF WireRequest, Encodable
<1>5. /\ Handled(c).holding \in [DOMAIN Profile[d].holding -> Word]
      /\ Handled(c).reply \in ReplyType
    BY <1>1, <1>3, <1>4, HandleFrameType DEF Handled
<1>6. Response(c) \in ReplyType
    BY <1>5 DEF Response, CorruptCrc, ReplyType, HasFault
<1>7. WrapResponse(Response(c)) \in ReplyType
    BY <1>6 DEF WrapResponse, ReplyType
<1> QED
    BY <1>2, <1>5, <1>6, <1>7

(***************************************************************************)
(* Every step of the client, the server and the clock keeps the types.     *)
(***************************************************************************)
LEMMA StepTyped == TypeOK /\ [Next]_vars => TypeOK'
<1> SUFFICES ASSUME TypeOK, [Next]_vars PROVE TypeOK'
    OBVIOUS
<1> USE DEF config, device, counts
<1>0. call \in [Client -> CallState] /\ link \in [Client -> LinkState]
    BY DEF TypeOK
<1>1. ASSUME NEW c \in Client, Connect(c) PROVE TypeOK'
    BY <1>1 DEF Connect, TypeOK, LinkState, HandlerState
<1>2. ASSUME NEW c \in Client, NEW req \in Requests, Refuse(c, req) PROVE TypeOK'
    <2>1. \E what \in ResultKind : result' = [result EXCEPT ![c] = Raised(what)]
        BY <1>2 DEF Refuse, ResultKind
    <2>2. result' \in [Client -> ResultType]
        BY <2>1, RaisedType DEF TypeOK
    <2>3. call[c] \in CallState /\ req \in RequestType
        BY <1>0
    <2>4. [call[c] EXCEPT !.req = req] \in CallState
        BY <2>3 DEF CallState
    <2>5. call' = [call EXCEPT ![c] = [call[c] EXCEPT !.req = req]]
        BY <1>2 DEF Refuse
    <2>6. call' \in [Client -> CallState]
        BY <1>0, <2>4, <2>5
    <2> QED
        BY <1>2, <2>2, <2>6 DEF Refuse, TypeOK
<1>3. ASSUME NEW c \in Client, NEW req \in Requests, Send(c, req) PROVE TypeOK'
    <2>1. NoResult \in ResultType
        BY EmptySeq DEF NoResult, ResultType, ResultKind
    <2>2. result' \in [Client -> ResultType] /\ sent' \in [Client -> Nat]
        BY <1>3, <2>1 DEF Send, TypeOK
    <2>3. call' \in [Client -> CallState]
        <3>1. [waiting |-> TRUE, req |-> req, left |-> Timeout] \in CallState
            BY DEF CallState
        <3> QED
            BY <1>0, <1>3, <3>1 DEF Send
    <2>4. [id |-> sent[c] + 1, req |-> req] \in WireRequest
        BY <1>3 DEF Send, TypeOK, WireRequest
    <2>5. Append(toServer[c], [id |-> sent[c] + 1, req |-> req]) \in Seq(WireRequest)
        BY <2>4, AppendProperties DEF TypeOK
    <2>6. toServer' \in [Client -> Seq(WireRequest)]
        BY <1>3, <2>5 DEF Send, TypeOK
    <2>7. link' \in [Client -> LinkState]
        <3>1. link' = link \/ link' = [link EXCEPT ![c] = "reset"]
            BY <1>3 DEF Send
        <3> QED
            BY <1>0, <3>1 DEF LinkState
    <2> QED
        BY <1>3, <2>2, <2>3, <2>6, <2>7 DEF Send, TypeOK
<1>4. ASSUME NEW c \in Client, Receive(c) PROVE TypeOK'
    <2>1. Head(toClient[c]) \in WireReply /\ Tail(toClient[c]) \in Seq(WireReply)
        BY <1>4, HeadTailProperties DEF Receive, TypeOK
    <2>2. call[c].req \in RequestType
        BY DEF TypeOK, CallState
    <2>3. result' \in [Client -> ResultType]
        BY <1>4, <2>1, <2>2, DecodeType DEF Receive, TypeOK
    <2>4. call' \in [Client -> CallState]
        <3>1. call' = [call EXCEPT ![c] = [call[c] EXCEPT !.waiting = FALSE, !.left = 0]]
            BY <1>4 DEF Receive
        <3>2. [call[c] EXCEPT !.waiting = FALSE, !.left = 0] \in CallState
            BY <1>0 DEF CallState
        <3> QED
            BY <1>0, <3>1, <3>2
    <2>5. toClient' \in [Client -> Seq(WireReply)]
        BY <1>4, <2>1 DEF Receive, TypeOK
    <2>6. got' \in [Client -> Nat]
        BY <1>4 DEF Receive, TypeOK
    <2> QED
        BY <1>4, <2>3, <2>4, <2>5, <2>6 DEF Receive, TypeOK
<1>5. ASSUME NEW c \in Client, NEW what \in ResultKind, GiveUp(c, what) PROVE TypeOK'
    <2>1. result' \in [Client -> ResultType]
        BY <1>5, RaisedType DEF GiveUp, TypeOK
    <2>2. call' \in [Client -> CallState]
        <3>1. call' = [call EXCEPT ![c] = [call[c] EXCEPT !.waiting = FALSE, !.left = 0]]
            BY <1>5 DEF GiveUp
        <3>2. [call[c] EXCEPT !.waiting = FALSE, !.left = 0] \in CallState
            BY <1>0 DEF CallState
        <3> QED
            BY <1>0, <3>1, <3>2
    <2> QED
        BY <1>5, <2>1, <2>2 DEF GiveUp, TypeOK
<1>6. ASSUME NEW c \in Client, ClientReturns(c) PROVE TypeOK'
    BY <1>4, <1>5, <1>6 DEF ClientReturns, Expire, Eof, ReadRaises, ResultKind
<1>7. ASSUME NEW c \in Client, Close(c) PROVE TypeOK'
    BY <1>7, EmptySeq DEF Close, TypeOK, LinkState
<1>8. ASSUME NEW c \in Client, ApplyDelay(c) PROVE TypeOK'
    <2>1. Delay(c) \in Nat
        BY DelayType DEF Delay, TypeOK
    <2> QED
        BY <1>8, <2>1 DEF ApplyDelay, TypeOK, HandlerState
<1>9. ASSUME NEW c \in Client, Ready(c), UpdateDevice(c)
      PROVE  /\ DOMAIN holding' = Device /\ count' \in [Device -> Nat]
             /\ \A d \in Device : holding'[d] \in [DOMAIN Profile[d].holding -> Word]
    <2>1. DeviceOf[c] \in Device /\ Handled(c).holding \in [DOMAIN Profile[DeviceOf[c]].holding -> Word]
        BY <1>9, HandledTyped
    <2>2. count' \in [Device -> Nat]
        BY <1>9 DEF UpdateDevice, TypeOK
    <2>3. /\ DOMAIN holding = Device
          /\ \A d \in Device : holding[d] \in [DOMAIN Profile[d].holding -> Word]
        BY DEF TypeOK
    <2>4. holding' = [holding EXCEPT ![DeviceOf[c]] = Handled(c).holding]
        BY <1>9 DEF UpdateDevice
    <2> QED
        BY <2>1, <2>2, <2>3, <2>4
<1>10. ASSUME NEW c \in Client, Answer(c) PROVE TypeOK'
    <2>1. Ready(c) /\ UpdateDevice(c)
        BY <1>10 DEF Answer
    <2>2. Tail(toServer[c]) \in Seq(WireRequest)
        BY <2>1, HeadTailProperties DEF Ready, TypeOK
    <2>3. [id |-> Head(toServer[c]).id, reply |-> WrapResponse(Response(c))] \in WireReply
        BY <2>1, HandledTyped DEF WireReply, WireRequest
    <2>4. toClient' \in [Client -> Seq(WireReply)]
        BY <1>10, <2>3 DEF Answer, TypeOK
    <2>5. toServer' \in [Client -> Seq(WireRequest)] /\ handler' \in [Client -> HandlerState]
        BY <1>10, <2>2 DEF Answer, TypeOK, HandlerState
    <2> QED
        BY <1>9, <1>10, <2>1, <2>4, <2>5 DEF Answer, TypeOK
<1>11. ASSUME NEW c \in Client, Hang(c) PROVE TypeOK'
    <2>1. Ready(c) /\ UpdateDevice(c)
        BY <1>11 DEF Hang
    <2>2. link' \in [Client -> LinkState]
        BY <1>11 DEF Hang, TypeOK, LinkState
    <2>3. toServer' \in [Client -> Seq(WireRequest)] /\ handler' \in [Client -> HandlerState]
        BY <1>11, EmptySeq DEF Hang, TypeOK, HandlerState
    <2> QED
        BY <1>9, <1>11, <2>1, <2>2, <2>3 DEF Hang, TypeOK
<1>12. ASSUME NEW c \in Client, EndOfRequests(c) PROVE TypeOK'
    BY <1>12, EmptySeq DEF EndOfRequests, TypeOK, HandlerState
<1>13. ASSUME NEW c \in Client, ServerStep(c) PROVE TypeOK'
    BY <1>8, <1>10, <1>11, <1>12, <1>13 DEF ServerStep
<1>14. ASSUME Tick PROVE TypeOK'
    <2>1. \A c \in Client : /\ call[c].waiting => call[c].left \in Nat \ {0}
                            /\ handler[c].pc = "sleeping" => handler[c].timer \in Nat \ {0}
        BY <1>14 DEF Tick, Runnable, TypeOK, CallState, HandlerState
    <2>2. call \in [Client -> CallState] /\ handler \in [Client -> HandlerState]
        BY DEF TypeOK
    <2>3. \A c \in Client :
             (IF call[c].waiting THEN [call[c] EXCEPT !.left = @ - 1] ELSE call[c]) \in CallState
        BY <2>1, <2>2 DEF CallState
    <2>4. \A c \in Client : handler[c].pc = "sleeping" =>
                               [handler[c] EXCEPT !.timer = @ - 1] \in HandlerState
        BY <2>1, <2>2 DEF HandlerState
    <2>5. call' \in [Client -> CallState]
        BY <1>14, <2>2, <2>3 DEF Tick
    <2>6. handler' \in [Client -> HandlerState]
        BY <1>14, <2>2, <2>4 DEF Tick
    <2> QED
        BY <1>14, <2>5, <2>6 DEF Tick, TypeOK
<1>15. CASE UNCHANGED vars
    BY <1>15 DEF vars, TypeOK
<1> QED
    BY <1>1, <1>2, <1>3, <1>6, <1>7, <1>13, <1>14, <1>15 DEF Next, Network

(***************************************************************************)
(* Type correctness of every execution.                                    *)
(***************************************************************************)
THEOREM Typing == Spec => []TypeOK
BY InitTyped, StepTyped, PTL DEF Spec
------------------------------------------------------------------------------
(***************************************************************************)
(* The bookkeeping that makes ReplyLag inductive.  Every call a client put *)
(* on the wire has been answered, given up or is in progress; a reply read *)
(* by a call therefore carries the id that `lost` leaves room for.  A      *)
(* connection starts with nothing in flight and ends with nothing to read. *)
(***************************************************************************)
Accounted(c) ==
    /\ sent[c] = got[c] + lost[c] + (IF call[c].waiting THEN 1 ELSE 0)
    /\ link[c] = "unconnected" => /\ toServer[c] = <<>> /\ toClient[c] = <<>>
                                  /\ sent[c] = 0 /\ got[c] = 0
    /\ link[c] = "left" => ~call[c].waiting /\ toClient[c] = <<>>

Lagging(c) == result[c].id # 0 => sent[c] = result[c].id + lost[c]

LinkInv(c) == Aligned(c) /\ Accounted(c) /\ Lagging(c)

IInv == \A c \in Client : LinkInv(c)

PerClient(c) == <<link[c], toServer[c], toClient[c], call[c], result[c], sent[c], got[c], lost[c]>>

LEMMA InitAligned == Init => IInv
BY EmptySeq DEF Init, IInv, LinkInv, Aligned, Accounted, Lagging, NoResult, Consecutive

\* What a step does not touch of a client's connection stays as it was.
LEMMA OtherClients ==
    ASSUME NEW c \in Client, LinkInv(c), UNCHANGED PerClient(c)
    PROVE  LinkInv(c)'
BY DEF PerClient, LinkInv, Aligned, Accounted, Lagging

(***************************************************************************)
(* Taking the first message of a stream, and adding the next one.          *)
(***************************************************************************)
LEMMA TakeFirst ==
    ASSUME NEW S, NEW q \in Seq(S), q # <<>>, NEW last \in Nat, Consecutive(q, last)
    PROVE  Head(q).id = last + 1 /\ Consecutive(Tail(q), last + 1)
<1>1. /\ Len(q) \in Nat \ {0} /\ DOMAIN q = 1 .. Len(q) /\ Head(q) = q[1]
      /\ Tail(q) \in Seq(S) /\ Len(Tail(q)) = Len(q) - 1
      /\ \A i \in 1 .. Len(Tail(q)) : Tail(q)[i] = q[i + 1]
    BY HeadTailProperties, EmptySeq, LenProperties
<1>2. DOMAIN Tail(q) = 1 .. Len(q) - 1
    BY <1>1, LenProperties
<1> DEFINE t == Tail(q)
           n == Len(q)
<1>3. n \in Nat \ {0} /\ DOMAIN q = 1 .. n /\ DOMAIN t = 1 .. n - 1
    BY <1>1, <1>2
<1>4. \A i \in 1 .. n - 1 : t[i] = q[i + 1]
    BY <1>1
<1> HIDE DEF t, n
<1>5. Consecutive(t, last + 1)
    <2> SUFFICES ASSUME NEW i \in 1 .. n - 1 PROVE t[i].id = (last + 1) + i
        BY <1>3 DEF Consecutive
    <2>1. i + 1 \in DOMAIN q
        BY <1>3
    <2>2. q[i + 1].id = last + (i + 1)
        BY <2>1 DEF Consecutive
    <2> QED
        BY <1>3, <1>4, <2>2
<1>6. q[1].id = last + 1
    BY <1>3 DEF Consecutive
<1> QED
    BY <1>1, <1>5, <1>6 DEF t

LEMMA AddNext ==
    ASSUME NEW S, NEW q \in Seq(S), NEW m \in S, NEW last \in Nat, Consecutive(q, last),
           m.id = last + Len(q) + 1
    PROVE  Consecutive(Append(q, m), last)
<1> DEFINE t == Append(q, m)
           n == Len(q)
<1>1. /\ n \in Nat /\ DOMAIN q = 1 .. n /\ DOMAIN t = 1 .. n + 1
      /\ \A i \in 1 .. n : t[i] = q[i]
      /\ t[n + 1] = m /\ m.id = last + n + 1
    BY AppendProperties, LenProperties
<1> HIDE DEF t, n
<1>2. Consecutive(t, last)
    BY <1>1 DEF Consecutive
<1> QED
    BY <1>2 DEF t

\* The counts are naturals, and so are the lengths of the streams.
LEMMA Counting ==
    ASSUME TypeOK, NEW c \in Client
    PROVE  /\ sent[c] \in Nat /\ got[c] \in Nat /\ lost[c] \in Nat
           /\ Len(toServer[c]) \in Nat /\ Len(toClient[c]) \in Nat
BY LenProperties DEF TypeOK

\* A message moves on: the stream it leaves and the count it joins.
LEMMA MovesOn ==
    /\ \A a, b \in Nat : a + b \in Nat /\ a + b = (a + 1) + (b - 1) /\ (a + b) + 1 = a + (b + 1)
    /\ \A a, b, d \in Nat : a + b + d = (a + 1) + (b - 1) + d
OBVIOUS

LEMMA SendAligned ==
    ASSUME TypeOK, NEW c \in Client, LinkInv(c), NEW req \in Requests, Send(c, req)
    PROVE  LinkInv(c)'
<1> USE DEF LinkInv
<1>0. /\ sent[c] \in Nat /\ got[c] \in Nat /\ lost[c] \in Nat
      /\ Len(toServer[c]) \in Nat /\ Len(toClient[c]) \in Nat
    BY Counting
<1>1. /\ sent'[c] = sent[c] + 1 /\ call'[c].waiting /\ result'[c].id = 0
      /\ got'[c] = got[c] /\ lost'[c] = lost[c] /\ toClient'[c] = toClient[c]
      /\ ~call[c].waiting /\ link'[c] \in {"open", "reset"}
    BY DEF Send, TypeOK, CallState, NoResult
<1>2. Accounted(c)' /\ Lagging(c)'
    BY <1>1, <1>0 DEF Accounted, Lagging
<1>3. CASE link[c] = "open"
    <2> DEFINE m == [id |-> sent[c] + 1, req |-> req]
    <2>1. m \in WireRequest /\ toServer[c] \in Seq(WireRequest)
        BY DEF Send, TypeOK, WireRequest
    <2>2. toServer'[c] = Append(toServer[c], m) /\ m.id = sent[c] + 1
        BY <1>3 DEF Send, TypeOK
    <2> HIDE DEF m
    <2>3. Len(toServer'[c]) = Len(toServer[c]) + 1
        BY <2>1, <2>2, AppendProperties
    <2>4. Consecutive(toServer'[c], got[c] + Len(toClient[c]))
        BY <1>3, <2>1, <2>2, <1>0, AddNext DEF Aligned
    <2>5. sent[c] = got[c] + Len(toClient[c]) + Len(toServer[c]) /\ Consecutive(toClient[c], got[c])
        BY <1>3 DEF Aligned
    <2>6. sent'[c] = got'[c] + Len(toClient'[c]) + Len(toServer'[c])
        <3> DEFINE a == Len(toClient[c])
                   b == Len(toServer[c])
        <3>1. a \in Nat /\ b \in Nat /\ sent[c] = got[c] + a + b
            BY <1>0, <2>5
        <3>2. sent'[c] = sent[c] + 1 /\ got'[c] = got[c] /\ Len(toClient'[c]) = a /\ Len(toServer'[c]) = b + 1
            BY <1>1, <2>3
        <3> HIDE DEF a, b
        <3>3. sent[c] + 1 = got[c] + a + (b + 1)
            BY <1>0, <3>1
        <3> QED
            BY <3>2, <3>3, Zenon
    <2>7. Consecutive(toClient'[c], got'[c]) /\ Consecutive(toServer'[c], got'[c] + Len(toClient'[c]))
        BY <1>1, <2>4, <2>5
    <2>8. Aligned(c)'
        BY <2>6, <2>7 DEF Aligned
    <2> QED
        BY <1>2, <2>8
<1>4. CASE link[c] # "open"
    <2>1. link'[c] # "open"
        BY <1>4 DEF Send, TypeOK
    <2>2. Aligned(c)'
        BY <1>1, <2>1 DEF Aligned
    <2> QED
        BY <1>2, <2>2
<1> QED
    BY <1>3, <1>4

LEMMA ReceiveAligned ==
    ASSUME TypeOK, NEW c \in Client, LinkInv(c), Receive(c)
    PROVE  LinkInv(c)'
<1> USE DEF LinkInv
<1>0. /\ sent[c] \in Nat /\ got[c] \in Nat /\ lost[c] \in Nat
      /\ Len(toServer[c]) \in Nat /\ Len(toClient[c]) \in Nat
    BY Counting
<1>1. toClient[c] \in Seq(WireReply) /\ toClient[c] # <<>> /\ call[c].waiting
    BY DEF Receive, TypeOK
<1>2. /\ Head(toClient[c]).id = got[c] + 1 /\ Head(toClient[c]) \in WireReply
      /\ Consecutive(Tail(toClient[c]), got[c] + 1)
      /\ Len(Tail(toClient[c])) = Len(toClient[c]) - 1
    BY <1>1, <1>0, TakeFirst, HeadTailProperties DEF Aligned
<1>3. /\ toClient'[c] = Tail(toClient[c]) /\ got'[c] = got[c] + 1
      /\ ~call'[c].waiting /\ link' = link /\ sent' = sent /\ lost' = lost
      /\ toServer' = toServer
    BY DEF Receive, TypeOK, CallState, counts
<1>4. result'[c].id = got[c] + 1
    BY <1>2, DecodeType DEF Receive, TypeOK, CallState
<1>5. sent[c] = got[c] + lost[c] + 1 /\ link[c] \notin {"unconnected", "left"}
    BY <1>1 DEF Accounted
<1>6. Accounted(c)' /\ Lagging(c)'
    BY <1>3, <1>4, <1>5, <1>0 DEF Accounted, Lagging
<1>7. Aligned(c)'
    <2>1. /\ got[c] + Len(toClient[c]) = (got[c] + 1) + (Len(toClient[c]) - 1)
          /\ got[c] + Len(toClient[c]) + Len(toServer[c])
                = (got[c] + 1) + (Len(toClient[c]) - 1) + Len(toServer[c])
        BY <1>0, MovesOn, Zenon
    <2> QED
        BY <1>2, <1>3, <2>1 DEF Aligned
<1> QED
    BY <1>6, <1>7

LEMMA GiveUpAligned ==
    ASSUME TypeOK, NEW c \in Client, LinkInv(c), NEW what \in ResultKind, GiveUp(c, what)
    PROVE  LinkInv(c)'
<1>0. /\ sent[c] \in Nat /\ got[c] \in Nat /\ lost[c] \in Nat
      /\ Len(toServer[c]) \in Nat /\ Len(toClient[c]) \in Nat
    BY Counting
<1>1. /\ lost'[c] = lost[c] + 1 /\ call[c].waiting /\ ~call'[c].waiting
      /\ result'[c].id = 0
    BY RaisedType DEF GiveUp, TypeOK, CallState
<1>2. Aligned(c)'
    BY DEF GiveUp, LinkInv, Aligned
<1>3. sent'[c] = sent[c] /\ got'[c] = got[c] /\ link'[c] = link[c]
    BY DEF GiveUp
<1>4. sent[c] = got[c] + lost[c] + 1 /\ link[c] \notin {"unconnected", "left"}
    BY <1>0, <1>1 DEF LinkInv, Accounted
<1>5. Accounted(c)' /\ Lagging(c)'
    BY <1>0, <1>1, <1>3, <1>4 DEF Accounted, Lagging
<1> QED
    BY <1>2, <1>5 DEF LinkInv

LEMMA AnswerAligned ==
    ASSUME TypeOK, NEW c \in Client, LinkInv(c), Answer(c)
    PROVE  LinkInv(c)'
<1> USE DEF LinkInv
<1>0. /\ sent[c] \in Nat /\ got[c] \in Nat /\ lost[c] \in Nat
      /\ Len(toServer[c]) \in Nat /\ Len(toClient[c]) \in Nat
    BY Counting
<1> DEFINE m == [id |-> Head(toServer[c]).id, reply |-> WrapResponse(Response(c))]
<1>1. /\ toServer[c] \in Seq(WireRequest) /\ toServer[c] # <<>>
      /\ toClient[c] \in Seq(WireReply)
    BY DEF Answer, Ready, TypeOK
<1>2. /\ toServer'[c] = Tail(toServer[c]) /\ link' = link /\ call' = call
      /\ result' = result /\ sent' = sent /\ got' = got /\ lost' = lost
      /\ toClient'[c] = IF link[c] = "open" THEN Append(toClient[c], m) ELSE toClient[c]
    BY DEF Answer, TypeOK, counts
<1>3. m \in WireReply
    BY HandledTyped DEF Answer, WireReply, WireRequest
<1>4. m.id = Head(toServer[c]).id
    OBVIOUS
<1> HIDE DEF m
<1>5. Len(Tail(toServer[c])) = Len(toServer[c]) - 1
    BY <1>1, HeadTailProperties
<1>6. Len(Append(toClient[c], m)) = Len(toClient[c]) + 1
    BY <1>1, <1>3, AppendProperties
<1>7. Accounted(c)' /\ Lagging(c)'
    <2>1. Accounted(c)'
        BY <1>1, <1>2 DEF Accounted
    <2>2. Lagging(c)'
        BY <1>1, <1>2 DEF Lagging
    <2> QED
        BY <2>1, <2>2
<1>8. CASE link[c] = "open"
    <2> DEFINE last == got[c] + Len(toClient[c])
    <2>1. last \in Nat /\ last + 1 = got[c] + (Len(toClient[c]) + 1)
        BY <1>0, MovesOn, Zenon
    <2>2. Consecutive(toClient[c], got[c]) /\ Consecutive(toServer[c], last)
        BY <1>8 DEF Aligned
    <2> HIDE DEF last
    <2>3. Head(toServer[c]).id = last + 1 /\ Consecutive(Tail(toServer[c]), last + 1)
        BY <1>1, <2>1, <2>2, TakeFirst
    <2>4. m.id = got[c] + Len(toClient[c]) + 1
        BY <1>4, <2>3 DEF last
    <2>5. Consecutive(Append(toClient[c], m), got[c])
        BY <1>1, <1>3, <2>2, <2>4, <1>0, AddNext
    <2>6. sent[c] = got[c] + (Len(toClient[c]) + 1) + (Len(toServer[c]) - 1)
        <3>1. sent[c] = got[c] + Len(toClient[c]) + Len(toServer[c])
            BY <1>8 DEF Aligned
        <3> DEFINE g == got[c]
                   u == Len(toClient[c])
                   r == Len(toServer[c])
        <3>2. g \in Nat /\ u \in Nat /\ r \in Nat
            BY <1>0
        <3> HIDE DEF g, u, r
        <3>3. g + u + r = g + (u + 1) + (r - 1)
            BY <3>2
        <3> QED
            BY <3>1, <3>3 DEF g, u, r
    <2>7. Aligned(c)'
        BY <1>2, <1>5, <1>6, <1>8, <2>1, <2>3, <2>5, <2>6 DEF Aligned
    <2> QED
        BY <1>7, <2>7
<1>9. CASE link[c] # "open"
    BY <1>2, <1>7, <1>9 DEF Aligned
<1> QED
    BY <1>8, <1>9

(***************************************************************************)
(* Closing either end: what is left to read keeps its ids, nothing more    *)
(* is promised about what was on its way to the server.                    *)
(***************************************************************************)
LEMMA ClosingAligned ==
    ASSUME TypeOK, NEW c \in Client, LinkInv(c),
           Connect(c) \/ Close(c) \/ Hang(c) \/ EndOfRequests(c)
    PROVE  LinkInv(c)'
<1> USE DEF LinkInv, counts
<1>1. CASE Connect(c)
    BY <1>1, EmptySeq DEF Connect, Aligned, Accounted, Lagging, Consecutive, TypeOK
<1>2. CASE Close(c)
    BY <1>2, EmptySeq DEF Close, Aligned, Accounted, Lagging, Consecutive, TypeOK
<1>3. CASE Hang(c)
    <2>1. link[c] # "unconnected"
        BY <1>3 DEF Hang, Ready, Accounted
    <2>2. link'[c] \in {"left", "closed", "aborted"} /\ (link'[c] = "left" <=> link[c] = "left")
        BY <1>3 DEF Hang, TypeOK
    <2> QED
        BY <1>3, <2>1, <2>2 DEF Hang, Aligned, Accounted, Lagging, TypeOK
<1>4. CASE EndOfRequests(c)
    BY <1>4 DEF EndOfRequests, Aligned, Accounted, Lagging, TypeOK
<1> QED
    BY <1>1, <1>2, <1>3, <1>4

LEMMA StepAligned == TypeOK /\ IInv /\ [Next]_vars => IInv'
<1> SUFFICES ASSUME TypeOK, IInv, [Next]_vars, NEW o \in Client PROVE LinkInv(o)'
    BY DEF IInv
<1>0. \A v \in {link, toServer, toClient, call, result, sent, got, lost} :
         v = [c \in Client |-> v[c]]
    BY DEF TypeOK
<1>1. LinkInv(o)
    BY DEF IInv
<1>2. ASSUME UNCHANGED PerClient(o) PROVE LinkInv(o)'
    BY <1>1, <1>2, OtherClients
<1>3. CASE \E c \in Client, req \in Requests : Send(c, req) \/ Refuse(c, req)
    <2> PICK c \in Client, req \in Requests : Send(c, req) \/ Refuse(c, req)
        BY <1>3
    <2>1. CASE o # c
        <3>1. UNCHANGED PerClient(o)
            BY <1>0, <2>1 DEF Send, Refuse, PerClient, counts
        <3> QED
            BY <1>2, <3>1
    <2>2. CASE o = c /\ Send(c, req)
        BY <1>1, <2>2, SendAligned
    <2>3. CASE o = c /\ Refuse(c, req)
        <3>1. result'[c].id = 0
            BY <2>3 DEF Refuse, TypeOK, Raised, NoResult
        <3>2. call'[c].waiting = call[c].waiting
            BY <2>3 DEF Refuse, TypeOK, CallState
        <3> QED
            BY <1>1, <2>3, <3>1, <3>2 DEF Refuse, LinkInv, Aligned, Accounted, Lagging, counts
    <2> QED
        BY <2>1, <2>2, <2>3
<1>4. CASE \E c \in Client : ClientReturns(c)
    <2> PICK c \in Client : ClientReturns(c)
        BY <1>4
    <2>1. Receive(c) \/ \E what \in ResultKind : GiveUp(c, what)
        BY DEF ClientReturns, Expire, Eof, ReadRaises, ResultKind
    <2>2. CASE o # c
        <3>1. UNCHANGED PerClient(o)
            BY <1>0, <2>1, <2>2 DEF Receive, GiveUp, PerClient, counts
        <3> QED
            BY <1>2, <3>1
    <2>3. CASE o = c
        BY <1>1, <2>1, <2>3, ReceiveAligned, GiveUpAligned
    <2> QED
        BY <2>2, <2>3
<1>5. CASE \E c \in Client : Connect(c) \/ Close(c) \/ Hang(c) \/ EndOfRequests(c)
    <2> PICK c \in Client : Connect(c) \/ Close(c) \/ Hang(c) \/ EndOfRequests(c)
        BY <1>5
    <2>1. CASE o # c
        <3>1. UNCHANGED PerClient(o)
            BY <1>0, <2>1 DEF Connect, Close, Hang, EndOfRequests, PerClient, counts
        <3> QED
            BY <1>2, <3>1
    <2>2. CASE o = c
        BY <1>1, <2>2, ClosingAligned
    <2> QED
        BY <2>1, <2>2
<1>6. CASE \E c \in Client : Answer(c)
    <2> PICK c \in Client : Answer(c)
        BY <1>6
    <2>1. CASE o # c
        <3>1. UNCHANGED PerClient(o)
            BY <2>1 DEF Answer, PerClient, TypeOK, counts
        <3> QED
            BY <1>2, <3>1
    <2>2. CASE o = c
        BY <1>1, <2>2, AnswerAligned
    <2> QED
        BY <2>1, <2>2
<1>7. CASE \E c \in Client : ApplyDelay(c)
    BY <1>2, <1>7 DEF ApplyDelay, PerClient, counts
<1>8. CASE Tick
    <2>1. call'[o].waiting = call[o].waiting
        BY <1>8 DEF Tick, TypeOK, CallState
    <2> QED
        BY <1>1, <1>8, <2>1 DEF Tick, LinkInv, Aligned, Accounted, Lagging, counts
<1>9. CASE UNCHANGED vars
    BY <1>2, <1>9 DEF vars, PerClient, counts
<1> QED
    BY <1>3, <1>4, <1>5, <1>6, <1>7, <1>8, <1>9 DEF Next, Network, ClientReturns, ServerStep

LEMMA Invariance == Spec => []IInv
<1>1. Init => TypeOK /\ IInv
    BY InitTyped, InitAligned
<1>2. TypeOK /\ IInv /\ [Next]_vars => (TypeOK /\ IInv)'
    BY StepTyped, StepAligned
<1> QED
    BY <1>1, <1>2, PTL DEF Spec

(***************************************************************************)
(* Replies are delivered one per request and in order, whatever the        *)
(* devices do.                                                             *)
(***************************************************************************)
THEOREM InOrder == Spec => []Alignment
<1>1. IInv => Alignment
    BY DEF IInv, LinkInv, Alignment
<1> QED
    BY <1>1, Invariance, PTL

(***************************************************************************)
(* A call returns the answer to the call made `lost` calls before it.      *)
(***************************************************************************)
THEOREM LagIsExact == Spec => []ReplyLag
<1>1. IInv => ReplyLag
    BY DEF IInv, LinkInv, Lagging, ReplyLag
<1> QED
    BY <1>1, Invariance, PTL
------------------------------------------------------------------------------
(***************************************************************************)
(* The life of a connection: what is on its way to the server is on an     *)
(* open connection, or its client has left; a call in progress has no      *)
(* result yet and asks what clients may ask.                               *)
(***************************************************************************)
Living(c) ==
    /\ toServer[c] # <<>> => link[c] \in {"open", "left"}
    /\ link[c] = "unconnected" => handler[c].pc = "none"
    /\ link[c] = "open" => handler[c].pc \in {"reading", "sleeping"}
    /\ call[c].waiting => result[c].id = 0 /\ call[c].req \in Requests

(***************************************************************************)
(* A client that has given up no call has nothing in flight but the call   *)
(* in progress, and the reply to it is one to its kind of request.         *)
(***************************************************************************)
Suits(reply, req) ==
    /\ reply.kind = "read" => req.fc \in ReadCodes
    /\ reply.kind = "write" => req.fc \in WriteCodes

Synced(c) ==
    lost[c] = 0 =>
        IF call[c].waiting
        THEN /\ toServer[c] # <<>> => /\ Len(toServer[c]) = 1 /\ toServer[c][1].req = call[c].req
                                      /\ toClient[c] = <<>>
             /\ toClient[c] # <<>> => Len(toClient[c]) = 1 /\ Suits(toClient[c][1].reply, call[c].req)
        ELSE toServer[c] = <<>> /\ toClient[c] = <<>>

(***************************************************************************)
(* What a reply that is on its way was made of.                            *)
(***************************************************************************)
Marked(c, reply) ==
    /\ reply.kind \notin {"none", "raise"}
    /\ Has(c, "crc_corrupt") => IF framing = "custom" THEN ~reply.crcOk ELSE reply.kind # "write"
    /\ ~Has(c, "crc_corrupt") => reply.crcOk
    /\ reply.kind = "write" => reply.words = <<>>
    /\ reply.kind # "exception" => reply.code = "-"

Corruption(c) ==
    /\ \A i \in DOMAIN toClient[c] : Marked(c, toClient[c][i].reply)
    /\ Has(c, "crc_corrupt") => /\ result[c].what # "written"
                                /\ framing = "custom" => result[c].what # "values"

(***************************************************************************)
(* While a client is the only one of its device, the requests counted are  *)
(* those it was answered.                                                  *)
(***************************************************************************)
Counted(c) ==
    SoleClient(c) =>
        /\ link[c] \in {"unconnected", "open"} => count[DeviceOf[c]] = got[c] + Len(toClient[c])
        /\ Has(c, "drop") =>
              /\ \A i \in DOMAIN toClient[c] : toClient[c][i].id <= Fault(Faults(c), "drop").after
              /\ result[c].id # 0 => result[c].id <= Fault(Faults(c), "drop").after

(***************************************************************************)
(* What a result says of the device it is about.                           *)
(***************************************************************************)
Tells(c, res) ==
    LET d == DeviceOf[c] IN
    /\ res.what = "written" =>
          \A a \in Span(call[c].req) :
              ~IsStuck(Faults(c), a) => holding[d][a] = WrittenWord(call[c].req, a)
    /\ res.what = "values" =>
          res.words = ReadOut(Profile[d], faults[d], holding[d], count[d], call[c].req)

Truthful(c) ==
    SoleClient(c) /\ lost[c] = 0 =>
        /\ result[c].id # 0 => Tells(c, result[c])
        /\ call[c].waiting /\ toClient[c] # <<>> => Tells(c, Decode(call[c].req, Head(toClient[c])))

(***************************************************************************)
(* The time that is left of a call is more than that left of the delay.    *)
(***************************************************************************)
InTime(c) ==
    Dependable(c) =>
        /\ lost[c] = 0 /\ link[c] \in {"unconnected", "open", "left"}
        /\ handler[c].pc = "sleeping" => toServer[c] # <<>>
        /\ call[c].waiting =>
              /\ link[c] = "open" /\ call[c].left > 0
              /\ toServer[c] # <<>> <=> toClient[c] = <<>>
              /\ toServer[c] # <<>> => handler[c].pc \in {"reading", "sleeping"}
              /\ toServer[c] # <<>> =>
                    call[c].left = Timeout - (IF handler[c].pc = "sleeping"
                                              THEN Delay(c) - handler[c].timer ELSE 0)

Promises(c) ==
    Living(c) /\ Synced(c) /\ Corruption(c) /\ Counted(c) /\ Truthful(c) /\ InTime(c)

Promised == \A c \in Client : Promises(c)
------------------------------------------------------------------------------
(***************************************************************************)
(* What a step leaves alone.                                               *)
(***************************************************************************)
Own(c) == <<link[c], toServer[c], toClient[c], handler[c], call[c], result[c], sent[c], got[c], lost[c]>>

Served(c) == <<holding[DeviceOf[c]], count[DeviceOf[c]]>>

LEMMA ConfigFixed == [Next]_vars => UNCHANGED config
BY DEF Next, Network, vars, Tick, ClientReturns, ServerStep, Receive, Expire, Eof, ReadRaises,
       GiveUp, ApplyDelay, Answer, Hang, EndOfRequests, Connect, Close, Send, Refuse

\* Clients other than the one that steps see nothing of it.
LEMMA OthersOwn ==
    ASSUME TypeOK, NEW c \in Client, NEW o \in Client, o # c,
           \/ ClientReturns(c) \/ ServerStep(c) \/ Connect(c) \/ Close(c)
           \/ \E req \in Requests : Send(c, req) \/ Refuse(c, req)
    PROVE  UNCHANGED Own(o)
<1>1. CASE \E req \in Requests : Send(c, req) \/ Refuse(c, req)
    BY <1>1 DEF Send, Refuse, Own, counts, TypeOK
<1>2. CASE ClientReturns(c)
    BY <1>2 DEF ClientReturns, Receive, Expire, Eof, ReadRaises, GiveUp, Own, counts, TypeOK
<1>3. CASE Connect(c) \/ Close(c) \/ ServerStep(c)
    BY <1>3 DEF Connect, Close, ServerStep, ApplyDelay, Answer, Hang, EndOfRequests, Own, counts, TypeOK
<1> QED
    BY <1>1, <1>2, <1>3

\* Only serving a request touches a device, and only its own.
LEMMA OtherUnits ==
    ASSUME TypeOK, NEW c \in Client, NEW d \in Device,
           \/ ClientReturns(c) \/ ServerStep(c) \/ Connect(c) \/ Close(c)
           \/ \E req \in Requests : Send(c, req) \/ Refuse(c, req)
    PROVE  \/ UNCHANGED <<holding[d], count[d]>>
           \/ d = DeviceOf[c] /\ (Answer(c) \/ Hang(c))
<1>1. CASE \E req \in Requests : Send(c, req) \/ Refuse(c, req)
    BY <1>1 DEF Send, Refuse, device
<1>2. CASE ClientReturns(c)
    BY <1>2 DEF ClientReturns, Receive, Expire, Eof, ReadRaises, GiveUp, device
<1>3. CASE Connect(c) \/ Close(c) \/ ApplyDelay(c) \/ EndOfRequests(c)
    BY <1>3 DEF Connect, Close, ApplyDelay, EndOfRequests, device
<1>4. CASE Answer(c) \/ Hang(c)
    BY <1>4 DEF Answer, Hang, UpdateDevice, TypeOK
<1> QED
    BY <1>1, <1>2, <1>3, <1>4 DEF ServerStep

\* The configuration decides what is expected of a client.
LEMMA ConfigDecides ==
    ASSUME NEW c \in Client, UNCHANGED config
    PROVE  /\ framing' = framing /\ Faults(c)' = Faults(c) /\ Delay(c)' = Delay(c)
           /\ \A kind : Has(c, kind)' <=> Has(c, kind)
           /\ SoleClient(c)' <=> SoleClient(c)
           /\ Dependable(c)' <=> Dependable(c)
<1>1. framing' = framing /\ faults' = faults
    BY DEF config
<1>2. Faults(c)' = Faults(c) /\ Delay(c)' = Delay(c)
    BY <1>1 DEF Faults, Delay
<1>3. \A kind : Has(c, kind)' <=> Has(c, kind)
    BY <1>2 DEF Has
<1> QED
    BY <1>1, <1>2, <1>3 DEF Dependable, SoleClient

LEMMA Bystander ==
    ASSUME NEW c \in Client, Promises(c), UNCHANGED config, UNCHANGED Own(c),
           SoleClient(c) => UNCHANGED Served(c)
    PROVE  Promises(c)'
<1> USE ConfigDecides DEF Own, Served
<1>1. Living(c)' /\ Synced(c)'
    BY DEF Promises, Living, Synced
<1>2. Corruption(c)'
    BY DEF Promises, Corruption, Marked
<1>3. Counted(c)'
    BY DEF Promises, Counted
<1>4. Truthful(c)'
    BY DEF Promises, Truthful, Tells, config
<1>5. InTime(c)'
    BY DEF Promises, InTime
<1> QED
    BY <1>1, <1>2, <1>3, <1>4, <1>5 DEF Promises

LEMMA InitPromised == Init => Promised
<1> SUFFICES ASSUME Init, NEW c \in Client PROVE Promises(c)
    BY DEF Promised
<1>1. /\ link[c] = "unconnected" /\ toServer[c] = <<>> /\ toClient[c] = <<>>
      /\ handler[c].pc = "none" /\ ~call[c].waiting /\ result[c] = NoResult
      /\ got[c] = 0 /\ lost[c] = 0 /\ count[DeviceOf[c]] = 0
    BY DEF Init
<1>2. Living(c) /\ Synced(c) /\ InTime(c)
    BY <1>1 DEF Living, Synced, InTime
<1>3. Corruption(c) /\ Truthful(c)
    BY <1>1, EmptySeq DEF Corruption, Truthful, NoResult
<1>4. Counted(c)
    BY <1>1, EmptySeq DEF Counted, NoResult
<1> QED
    BY <1>2, <1>3, <1>4 DEF Promises
------------------------------------------------------------------------------
(***************************************************************************)
(* A call that ends without an answer, and one that is never made, leave   *)
(* the client as it was.                                                   *)
(***************************************************************************)
LEMMA RefusePromises ==
    ASSUME TypeOK, NEW c \in Client, Promises(c), NEW req \in Requests, Refuse(c, req)
    PROVE  Promises(c)'
<1> USE DEF Promises
<1>1. UNCHANGED config
    BY DEF Refuse
<1> USE <1>1, ConfigDecides
<1>2. /\ link'[c] = link[c] /\ toServer'[c] = toServer[c] /\ toClient'[c] = toClient[c]
      /\ handler'[c] = handler[c] /\ got'[c] = got[c] /\ lost'[c] = lost[c]
      /\ holding' = holding /\ count' = count
      /\ ~call[c].waiting /\ ~call'[c].waiting
    BY DEF Refuse, counts, device, TypeOK, CallState
<1>3. result'[c].id = 0 /\ result'[c].what \notin {"written", "values"}
    BY DEF Refuse, Raised, NoResult, TypeOK
<1>4. Living(c)' /\ Synced(c)'
    BY <1>2, <1>3 DEF Living, Synced
<1>5. Corruption(c)'
    BY <1>2, <1>3 DEF Corruption, Marked
<1>6. Counted(c)' /\ Truthful(c)'
    BY <1>2, <1>3 DEF Counted, Truthful
<1>7. InTime(c)'
    BY <1>2 DEF InTime
<1> QED
    BY <1>4, <1>5, <1>6, <1>7

LEMMA GiveUpPromises ==
    ASSUME TypeOK, NEW c \in Client, Promises(c), Expire(c) \/ Eof(c) \/ ReadRaises(c)
    PROVE  Promises(c)'
<1> USE DEF Promises
<1>1. PICK what \in {"DeviceTimeout", "ConnectionError"} : GiveUp(c, what)
    BY DEF Expire, Eof, ReadRaises
<1>2. ~Dependable(c)
    BY DEF InTime, Expire, Eof, ReadRaises, GiveUp
<1>3. UNCHANGED config
    BY <1>1 DEF GiveUp
<1> USE <1>3, ConfigDecides
<1>4. /\ link'[c] = link[c] /\ toServer'[c] = toServer[c] /\ toClient'[c] = toClient[c]
      /\ handler'[c] = handler[c] /\ got'[c] = got[c] /\ lost'[c] = lost[c] + 1
      /\ holding' = holding /\ count' = count /\ ~call'[c].waiting
    BY <1>1 DEF GiveUp, device, TypeOK, CallState
<1>5. result'[c].id = 0 /\ result'[c].what \notin {"written", "values"}
    BY <1>1 DEF GiveUp, Raised, NoResult, TypeOK
<1>6. lost'[c] # 0
    BY <1>4 DEF TypeOK
<1>7. Living(c)' /\ Synced(c)' /\ Truthful(c)'
    BY <1>4, <1>5, <1>6 DEF Living, Synced, Truthful
<1>8. Corruption(c)'
    BY <1>4, <1>5 DEF Corruption, Marked
<1>9. Counted(c)'
    BY <1>4, <1>5 DEF Counted
<1>10. InTime(c)'
    BY <1>2 DEF InTime
<1> QED
    BY <1>7, <1>8, <1>9, <1>10

(***************************************************************************)
(* The other steps of a client.                                            *)
(***************************************************************************)
LEMMA ConnectPromises ==
    ASSUME TypeOK, NEW c \in Client, LinkInv(c), Promises(c), Connect(c)
    PROVE  Promises(c)'
<1> USE DEF Promises
<1>1. UNCHANGED config
    BY DEF Connect
<1> USE <1>1, ConfigDecides
<1>2. /\ toServer'[c] = toServer[c] /\ toClient'[c] = toClient[c]
      /\ link[c] = "unconnected" /\ link'[c] = "open" /\ handler'[c].pc = "reading"
      /\ call'[c] = call[c] /\ result'[c] = result[c] /\ got'[c] = got[c] /\ lost'[c] = lost[c]
      /\ holding' = holding /\ count' = count
    BY DEF Connect, counts, device, TypeOK, HandlerState
<1>3. ~call[c].waiting /\ toServer[c] = <<>> /\ toClient[c] = <<>>
    BY <1>2 DEF TypeOK, LinkInv, Accounted
<1>4. Living(c)' /\ Synced(c)'
    BY <1>2, <1>3 DEF Living, Synced
<1>5. Corruption(c)'
    BY <1>2 DEF Corruption, Marked
<1>6. Counted(c)'
    BY <1>2 DEF Counted
<1>7. Truthful(c)'
    BY <1>2 DEF Truthful, Tells, config
<1>8. InTime(c)'
    BY <1>2, <1>3 DEF InTime
<1> QED
    BY <1>4, <1>5, <1>6, <1>7, <1>8

LEMMA ClosePromises ==
    ASSUME TypeOK, NEW c \in Client, LinkInv(c), Promises(c), Close(c)
    PROVE  Promises(c)'
<1> USE DEF Promises
<1>1. UNCHANGED config
    BY DEF Close
<1> USE <1>1, ConfigDecides
<1>2. /\ toServer'[c] = toServer[c] /\ toClient'[c] = <<>>
      /\ link[c] # "unconnected" /\ link'[c] = "left" /\ handler'[c] = handler[c]
      /\ ~call[c].waiting /\ call'[c] = call[c] /\ result'[c] = result[c]
      /\ got'[c] = got[c] /\ lost'[c] = lost[c]
      /\ holding' = holding /\ count' = count
    BY DEF Close, counts, device, TypeOK
<1>3. Living(c)' /\ Synced(c)'
    BY <1>2 DEF Living, Synced
<1>4. Corruption(c)'
    BY <1>2, EmptySeq DEF Corruption, Marked
<1>5. Counted(c)'
    BY <1>2, EmptySeq DEF Counted
<1>6. Truthful(c)'
    BY <1>2 DEF Truthful, Tells, config
<1>7. InTime(c)'
    BY <1>2 DEF InTime
<1> QED
    BY <1>3, <1>4, <1>5, <1>6, <1>7

LEMMA SendPromises ==
    ASSUME TypeOK, NEW c \in Client, LinkInv(c), Promises(c), NEW req \in Requests, Send(c, req)
    PROVE  Promises(c)'
<1> USE DEF Promises
<1>1. UNCHANGED config
    BY DEF Send
<1> USE <1>1, ConfigDecides
<1>2. /\ toClient'[c] = toClient[c] /\ handler'[c] = handler[c]
      /\ got'[c] = got[c] /\ lost'[c] = lost[c]
      /\ holding' = holding /\ count' = count /\ link[c] \in {"open", "closed"}
    BY DEF Send, device
<1>3. /\ ~call[c].waiting
      /\ call'[c] = [waiting |-> TRUE, req |-> req, left |-> Timeout] /\ result'[c] = NoResult
    BY DEF Send, TypeOK
<1> DEFINE m == [id |-> sent[c] + 1, req |-> req]
<1>4. \/ link[c] = "open" /\ link'[c] = "open" /\ toServer'[c] = Append(toServer[c], m)
      \/ link[c] = "closed" /\ link'[c] = "reset" /\ toServer'[c] = toServer[c]
    BY DEF Send, TypeOK
<1>5. Append(<<>>, m) # <<>> /\ Len(Append(<<>>, m)) = 1 /\ Append(<<>>, m)[1] = m
    OBVIOUS
<1>6. m.req = req
    OBVIOUS
<1> HIDE DEF m
<1>7. toServer[c] = <<>> /\ link[c] = "open" =>
         toServer'[c] # <<>> /\ Len(toServer'[c]) = 1 /\ toServer'[c][1].req = req
    BY <1>4, <1>5, <1>6
<1>8. Living(c)'
    BY <1>2, <1>3, <1>4 DEF Living, NoResult
<1>9. Synced(c)'
    BY <1>2, <1>3, <1>4, <1>7 DEF Synced
<1>10. Corruption(c)'
    BY <1>2, <1>3 DEF Corruption, Marked, NoResult
<1>11. Counted(c)'
    BY <1>2, <1>3, <1>4 DEF Counted, NoResult
<1>12. Truthful(c)'
    BY <1>2, <1>3 DEF Truthful, Synced, NoResult
<1>13. InTime(c)'
    <2> SUFFICES ASSUME Dependable(c) PROVE InTime(c)'
        BY DEF InTime
    <2>1. lost[c] = 0 /\ toServer[c] = <<>> /\ toClient[c] = <<>>
        BY <1>3 DEF InTime, Synced
    <2>2. link[c] = "open" /\ handler[c].pc = "reading"
        BY <1>4, <2>1 DEF InTime, Living
    <2>3. Delay(c) \in Nat /\ Delay(c) < Timeout
        BY DelayType DEF Dependable, Delay, TypeOK
    <2>4. toServer'[c] # <<>>
        BY <1>7, <2>1, <2>2
    <2> QED
        BY <1>2, <1>3, <1>4, <2>1, <2>2, <2>3, <2>4 DEF InTime
<1> QED
    BY <1>8, <1>9, <1>10, <1>11, <1>12, <1>13

LEMMA ReceivePromises ==
    ASSUME TypeOK, NEW c \in Client, LinkInv(c), Promises(c), Receive(c)
    PROVE  Promises(c)'
<1> USE DEF Promises
<1>1. UNCHANGED config
    BY DEF Receive
<1> USE <1>1, ConfigDecides
<1> DEFINE first == Head(toClient[c])
<1>2. /\ toServer'[c] = toServer[c] /\ toClient'[c] = Tail(toClient[c]) /\ toClient[c] # <<>>
      /\ link'[c] = link[c] /\ handler'[c] = handler[c]
      /\ call[c].waiting /\ ~call'[c].waiting /\ call'[c].req = call[c].req
      /\ result'[c] = Decode(call[c].req, first)
      /\ got'[c] = got[c] + 1 /\ lost'[c] = lost[c]
      /\ holding' = holding /\ count' = count
    BY DEF Receive, device, TypeOK, CallState
<1>3. /\ toClient[c] \in Seq(WireReply) /\ first = toClient[c][1] /\ 1 \in DOMAIN toClient[c]
      /\ Tail(toClient[c]) \in Seq(WireReply) /\ Len(Tail(toClient[c])) = Len(toClient[c]) - 1
      /\ Len(toClient[c]) \in Nat \ {0} /\ got[c] \in Nat
    BY <1>2, HeadTailProperties, EmptySeq DEF TypeOK
<1>4. \A i \in DOMAIN Tail(toClient[c]) :
         i + 1 \in DOMAIN toClient[c] /\ Tail(toClient[c])[i] = toClient[c][i + 1]
    BY <1>2, <1>3, HeadTailProperties
<1> HIDE DEF first
<1>5. result'[c].id = first.id
    BY <1>2 DEF Decode
<1>6. Living(c)'
    BY <1>2 DEF Living
<1>7. Synced(c)'
    <2>1. lost[c] = 0 => toServer[c] = <<>> /\ Len(toClient[c]) = 1
        BY <1>2 DEF Synced
    <2> DEFINE rest == Tail(toClient[c])
    <2>2. rest \in Seq(WireReply) /\ (lost[c] = 0 => Len(rest) = 0)
        BY <1>3, <2>1
    <2> HIDE DEF rest
    <2>3. lost[c] = 0 => rest = <<>>
        BY <2>2, EmptySeq
    <2> QED
        BY <1>2, <2>1, <2>3 DEF Synced, rest
<1>8. Corruption(c)'
    <2>1. (\A i \in DOMAIN toClient[c] : Marked(c, toClient[c][i].reply))'
        <3> SUFFICES ASSUME NEW i \in DOMAIN Tail(toClient[c])
                     PROVE  Marked(c, toClient[c][i].reply)'
            BY <1>2
        <3>1. Marked(c, toClient[c][i + 1].reply) /\ toClient'[c][i] = toClient[c][i + 1]
            BY <1>2, <1>4 DEF Corruption
        <3> QED
            BY <3>1 DEF Marked
    <2>2. Marked(c, first.reply)
        BY <1>3 DEF Corruption
    <2>3. Has(c, "crc_corrupt") => /\ result'[c].what # "written"
                                   /\ framing = "custom" => result'[c].what # "values"
        <3>1. first \in WireReply
            BY <1>3
        <3> QED
            BY <1>2, <2>2, <3>1 DEF Marked, Decode, WireReply, ReplyType
    <2> QED
        BY <2>1, <2>3 DEF Corruption
<1>9. Counted(c)'
    <2> SUFFICES ASSUME SoleClient(c) PROVE Counted(c)'
        BY DEF Counted
    <2>1. link[c] \in {"unconnected", "open"} => count[DeviceOf[c]] = got'[c] + Len(toClient'[c])
        BY <1>2, <1>3 DEF Counted
    <2>2. ASSUME Has(c, "drop")
          PROVE  /\ \A i \in DOMAIN toClient'[c] : toClient'[c][i].id <= Fault(Faults(c), "drop").after
                 /\ result'[c].id <= Fault(Faults(c), "drop").after
        BY <1>2, <1>3, <1>4, <1>5, <2>2 DEF Counted
    <2> QED
        BY <1>2, <2>1, <2>2 DEF Counted
<1>10. Truthful(c)'
    <2>1. SoleClient(c) /\ lost[c] = 0 => Tells(c, Decode(call[c].req, first))
        BY <1>2 DEF Truthful, first
    <2> QED
        BY <1>2, <2>1 DEF Truthful, Tells, config
<1>11. InTime(c)'
    BY <1>2 DEF InTime
<1> QED
    BY <1>6, <1>7, <1>8, <1>9, <1>10, <1>11
------------------------------------------------------------------------------
(***************************************************************************)
(* What a reply of handle_frame says: why there is none, what was read,    *)
(* what was written.                                                       *)
(***************************************************************************)
LEMMA ReplySays ==
    ASSUME NEW profile, NEW flts, NEW regs, NEW n, NEW req
    PROVE  LET out == HandleFrame(profile, flts, regs, n, req)
           IN  /\ out.reply.kind = "none" <=> ShouldDrop(flts, n)
               /\ out.reply.kind = "raise" =>
                     /\ req.fc \in ReadCodes
                     /\ Len(ReadOut(profile, flts, regs, n, req)) > MaxRegisters
               /\ out.reply.kind = "read" =>
                     /\ req.fc \in ReadCodes /\ out.holding = regs
                     /\ out.reply.words = ReadOut(profile, flts, regs, n, req)
               /\ out.reply.kind = "write" =>
                     /\ req.fc \in WriteCodes /\ out.reply.words = <<>>
                     /\ Span(req) \subseteq DOMAIN regs
                     /\ out.holding = Written(flts, regs, req)
               /\ out.reply.kind # "exception" => out.reply.code = "-"
<1> DEFINE refusal == Refusal(profile, regs, req)
           read    == ReadOut(profile, flts, regs, n, req)
           written == Written(flts, regs, req)
<1>1. refusal = "-" => /\ req.fc \in ReadCodes \cup WriteCodes
                       /\ req.fc \in WriteCodes => Span(req) \subseteq DOMAIN regs
    BY DEF Refusal, Bank, WriteCodes
<1> HIDE DEF refusal, read, written
<1>2. HandleFrame(profile, flts, regs, n, req) =
         [holding |-> IF (~ShouldDrop(flts, n) /\ refusal = "-") /\ req.fc \in WriteCodes
                      THEN written ELSE regs,
          reply   |-> IF ShouldDrop(flts, n) THEN NoReply
                      ELSE IF refusal # "-" THEN Exception(refusal)
                      ELSE IF req.fc \in ReadCodes THEN ReadReply(read) ELSE Echo]
    BY DEF HandleFrame, refusal, read, written
<1>3. ReadCodes \cap WriteCodes = {}
    BY DEF ReadCodes, WriteCodes
<1> DEFINE out == HandleFrame(profile, flts, regs, n, req)
<1>4. CASE ShouldDrop(flts, n)
    <2>1. out.reply = NoReply
        BY <1>2, <1>4
    <2> HIDE DEF out
    <2> QED
        BY <1>4, <2>1 DEF NoReply, Reply, out
<1>5. CASE ~ShouldDrop(flts, n) /\ refusal # "-"
    <2>1. out.reply = Exception(refusal)
        BY <1>2, <1>5
    <2> HIDE DEF out
    <2> QED
        BY <1>5, <2>1 DEF Exception, Reply, out
<1>6. CASE ~ShouldDrop(flts, n) /\ refusal = "-" /\ req.fc \in ReadCodes
    <2>1. out.reply = ReadReply(read) /\ out.holding = regs
        BY <1>2, <1>3, <1>6
    <2> HIDE DEF out
    <2>2. \/ out.reply = Raises /\ Len(read) > MaxRegisters
          \/ out.reply = Reply("read", read, "-")
        BY <2>1 DEF ReadReply
    <2> QED
        BY <1>6, <2>1, <2>2 DEF Raises, Reply, out, read
<1>7. CASE ~ShouldDrop(flts, n) /\ refusal = "-" /\ req.fc \notin ReadCodes
    <2>1. out.reply = Echo /\ out.holding = written /\ req.fc \in WriteCodes
          /\ Span(req) \subseteq DOMAIN regs
        BY <1>1, <1>2, <1>7
    <2> HIDE DEF out
    <2> QED
        BY <1>7, <2>1 DEF Echo, Reply, out, written
<1> QED
    BY <1>4, <1>5, <1>6, <1>7

\* The same of the reply that goes on the wire.
LEMMA WireReplySays ==
    ASSUME TypeOK, NEW c \in Client, Ready(c)
    PROVE  LET d     == DeviceOf[c]
               req   == Head(toServer[c]).req
               n     == count[d] + 1
               reply == WrapResponse(Response(c))
           IN  /\ reply.kind = "none" <=> ShouldDrop(faults[d], n)
               /\ reply.kind = "raise" =>
                     /\ req.fc \in ReadCodes
                     /\ Len(ReadOut(Profile[d], faults[d], holding[d], n, req)) > MaxRegisters
               /\ reply.kind = "read" =>
                     /\ req.fc \in ReadCodes /\ Handled(c).holding = holding[d]
                     /\ reply.words = ReadOut(Profile[d], faults[d], holding[d], n, req)
               /\ reply.kind = "write" =>
                     /\ req.fc \in WriteCodes /\ Span(req) \subseteq DOMAIN holding[d]
                     /\ Handled(c).holding = Written(faults[d], holding[d], req)
               /\ Response(c).kind = reply.kind
               /\ Response(c).crcOk = ~Has(c, "crc_corrupt")
               /\ ~Unwrappable(Response(c)) => Marked(c, reply)
<1> DEFINE d   == DeviceOf[c]
           req == Head(toServer[c]).req
           n   == count[d] + 1
           out == HandleFrame(Profile[d], faults[d], holding[d], n, req)
           reply == WrapResponse(Response(c))
<1>1. Handled(c) = out
    BY DEF Handled
<1>2. out.reply \in ReplyType
    <2>1. /\ faults[d] \in Seq(FaultConfig) /\ n \in Nat /\ IsProfile(Profile[d])
          /\ holding[d] \in [DOMAIN holding[d] -> Word]
        <3>1. d \in Device /\ IsProfile(Profile[d])
            OBVIOUS
        <3> HIDE DEF d
        <3>2. /\ faults[d] \in Seq(FaultConfig) /\ count[d] \in Nat
              /\ holding[d] \in [DOMAIN Profile[d].holding -> Word]
            BY <3>1 DEF TypeOK
        <3>3. n \in Nat
            BY <3>2
        <3> QED
            BY <3>1, <3>2, <3>3
    <2>2. req \in RequestType /\ req.qty \in Word
        BY HandledTyped DEF WireRequest, Encodable
    <2> QED
        BY <2>1, <2>2, HandleFrameType
<1>3. Response(c) = [out.reply EXCEPT !.crcOk = ~Has(c, "crc_corrupt")]
    BY <1>1 DEF Response, CorruptCrc, Has, Faults
<1>4. /\ out.reply.kind = "none" <=> ShouldDrop(faults[d], n)
      /\ out.reply.kind = "raise" =>
            /\ req.fc \in ReadCodes
            /\ Len(ReadOut(Profile[d], faults[d], holding[d], n, req)) > MaxRegisters
      /\ out.reply.kind = "read" =>
            /\ req.fc \in ReadCodes /\ out.holding = holding[d]
            /\ out.reply.words = ReadOut(Profile[d], faults[d], holding[d], n, req)
      /\ out.reply.kind = "write" =>
            /\ req.fc \in WriteCodes /\ out.reply.words = <<>>
            /\ Span(req) \subseteq DOMAIN holding[d]
            /\ out.holding = Written(faults[d], holding[d], req)
      /\ out.reply.kind # "exception" => out.reply.code = "-"
    BY ReplySays
<1> HIDE DEF out
<1>5. /\ Response(c).kind = out.reply.kind /\ Response(c).words = out.reply.words
      /\ Response(c).code = out.reply.code /\ Response(c).crcOk = ~Has(c, "crc_corrupt")
      /\ DOMAIN Response(c) = {"kind", "words", "code", "crcOk"}
    BY <1>2, <1>3 DEF ReplyType, Has, HasFault
<1>6. /\ reply.kind = out.reply.kind /\ reply.words = out.reply.words
      /\ reply.code = out.reply.code
      /\ reply.crcOk = IF framing = "modbus-tcp" THEN TRUE ELSE ~Has(c, "crc_corrupt")
    BY <1>5 DEF WrapResponse
<1> HIDE DEF reply
<1>7. ~Unwrappable(Response(c)) => Marked(c, reply)
    <2> SUFFICES ASSUME ~Unwrappable(Response(c)) PROVE Marked(c, reply)
        OBVIOUS
    <2>1. reply.kind \notin {"none", "raise"}
        BY <1>5, <1>6 DEF Unwrappable
    <2>2. Has(c, "crc_corrupt") => IF framing = "custom" THEN ~reply.crcOk ELSE reply.kind # "write"
        BY <1>5, <1>6 DEF Unwrappable, TypeOK, Framing
    <2>3. ~Has(c, "crc_corrupt") => reply.crcOk
        BY <1>6
    <2> QED
        BY <1>4, <1>6, <2>1, <2>2, <2>3 DEF Marked
<1> QED
    BY <1>1, <1>4, <1>5, <1>6, <1>7 DEF reply

(***************************************************************************)
(* The server's steps.                                                     *)
(***************************************************************************)
LEMMA AnswerPromises ==
    ASSUME TypeOK, NEW c \in Client, LinkInv(c), Promises(c), Answer(c)
    PROVE  Promises(c)'
<1> USE DEF Promises
<1>0. UNCHANGED config
    BY DEF Answer
<1> USE <1>0, ConfigDecides
<1> DEFINE d     == DeviceOf[c]
           req   == Head(toServer[c]).req
           reply == WrapResponse(Response(c))
           m     == [id |-> Head(toServer[c]).id, reply |-> reply]
           n     == count[d] + 1
<1>1. /\ Ready(c) /\ ~Unwrappable(Response(c)) /\ toServer[c] # <<>>
      /\ toServer'[c] = Tail(toServer[c]) /\ link'[c] = link[c] /\ call'[c] = call[c]
      /\ result'[c] = result[c] /\ got'[c] = got[c] /\ lost'[c] = lost[c]
      /\ handler'[c] = [pc |-> "reading", timer |-> 0]
      /\ toClient'[c] = IF link[c] = "open" THEN Append(toClient[c], m) ELSE toClient[c]
      /\ count'[d] = n
      /\ holding'[d] = Handled(c).holding
    BY DEF Answer, Ready, UpdateDevice, TypeOK, counts
<1>2. /\ Marked(c, reply) /\ ~ShouldDrop(faults[d], n)
      /\ reply.kind = "read" =>
            /\ req.fc \in ReadCodes /\ Handled(c).holding = holding[d]
            /\ reply.words = ReadOut(Profile[d], faults[d], holding[d], n, req)
      /\ reply.kind = "write" =>
            /\ req.fc \in WriteCodes /\ Span(req) \subseteq DOMAIN holding[d]
            /\ Handled(c).holding = Written(faults[d], holding[d], req)
    <2>1. reply.kind # "none"
        BY <1>1, WireReplySays DEF Unwrappable
    <2> QED
        BY <1>1, <2>1, WireReplySays
<1>3. /\ toServer[c] \in Seq(WireRequest) /\ toServer[c][1] = Head(toServer[c])
      /\ toClient[c] \in Seq(WireReply)
      /\ Len(toServer[c]) = 1 => Tail(toServer[c]) = <<>>
      /\ toClient[c] = <<>> => Len(toClient[c]) = 0
      /\ Tail(toServer[c]) \in Seq(WireRequest)
    <2> DEFINE rest == Tail(toServer[c])
    <2>1. toServer[c] \in Seq(WireRequest) /\ toClient[c] \in Seq(WireReply)
        BY DEF TypeOK
    <2>2. rest \in Seq(WireRequest) /\ Len(rest) = Len(toServer[c]) - 1
          /\ toServer[c][1] = Head(toServer[c])
        BY <1>1, <2>1, HeadTailProperties
    <2> HIDE DEF rest
    <2>3. Len(toServer[c]) = 1 => rest = <<>>
        BY <2>2, EmptySeq
    <2> QED
        BY <2>1, <2>2, <2>3 DEF rest
<1>4. m \in WireReply /\ m.reply = reply /\ m.id = Head(toServer[c]).id
    BY <1>1, HandledTyped DEF WireReply, WireRequest
<1> HIDE DEF m, reply
<1>5. /\ Append(toClient[c], m) # <<>> /\ Len(Append(toClient[c], m)) = Len(toClient[c]) + 1
      /\ DOMAIN Append(toClient[c], m) = 1 .. Len(toClient[c]) + 1
      /\ DOMAIN toClient[c] = 1 .. Len(toClient[c]) /\ Len(toClient[c]) \in Nat
      /\ \A i \in 1 .. Len(toClient[c]) : Append(toClient[c], m)[i] = toClient[c][i]
      /\ Append(toClient[c], m)[Len(toClient[c]) + 1] = m
      /\ toClient[c] = <<>> => Head(Append(toClient[c], m)) = m
    BY <1>3, <1>4, AppendProperties, LenProperties
<1>6. /\ lost[c] = 0 =>
            /\ call[c].waiting /\ toServer'[c] = <<>> /\ toClient[c] = <<>> /\ req = call[c].req
            /\ link[c] = "open" => toClient'[c] # <<>> /\ Len(toClient'[c]) = 1
                                   /\ Head(toClient'[c]) = m /\ toClient'[c][1] = m
    <2>1. lost[c] = 0 => /\ call[c].waiting /\ toServer'[c] = <<>> /\ toClient[c] = <<>>
                         /\ req = call[c].req
        BY <1>1, <1>3 DEF Synced
    <2>2. lost[c] = 0 /\ link[c] = "open" =>
             /\ toClient'[c] # <<>> /\ Len(toClient'[c]) = 1
             /\ Head(toClient'[c]) = m /\ toClient'[c][1] = m
        BY <1>1, <1>3, <1>5, <2>1
    <2> QED
        BY <2>1, <2>2
<1>7. Living(c)'
    BY <1>1, <1>3 DEF Living
<1>8. Synced(c)'
    BY <1>1, <1>2, <1>4, <1>6 DEF Synced, Suits
<1>9. Corruption(c)'
    <2>1. (\A i \in DOMAIN toClient[c] : Marked(c, toClient[c][i].reply))'
        <3> SUFFICES ASSUME NEW i \in DOMAIN toClient'[c]
                     PROVE  Marked(c, toClient[c][i].reply)'
            OBVIOUS
        <3>1. Marked(c, toClient'[c][i].reply)
            BY <1>1, <1>2, <1>4, <1>5 DEF Corruption
        <3> QED
            BY <3>1 DEF Marked
    <2> QED
        BY <1>1, <2>1 DEF Corruption
<1>10. Counted(c)'
    <2> SUFFICES ASSUME SoleClient(c) PROVE Counted(c)'
        BY DEF Counted
    <2>1. link[c] # "unconnected"
        BY <1>1 DEF Living
    <2>2. CASE link[c] = "open"
        <3>1. count[d] = got[c] + Len(toClient[c]) /\ got[c] \in Nat
            BY <2>2 DEF Counted, TypeOK
        <3>2. count'[d] = got'[c] + Len(toClient'[c])
            BY <1>1, <1>5, <2>2, <3>1
        <3>3. m.id = n
            <4>1. Consecutive(toServer[c], got[c] + Len(toClient[c]))
                BY <2>2 DEF LinkInv, Aligned
            <4>2. got[c] + Len(toClient[c]) \in Nat
                BY <1>5, <3>1
            <4>3. Head(toServer[c]).id = got[c] + Len(toClient[c]) + 1
                BY <1>1, <1>3, <4>1, <4>2, TakeFirst
            <4> QED
                BY <1>4, <3>1, <4>3
        <3>4. Has(c, "drop") => m.id <= Fault(Faults(c), "drop").after
            <4>1. Has(c, "drop") => /\ Fault(Faults(c), "drop").after \in Int
                                    /\ ~(n > Fault(Faults(c), "drop").after)
                BY <1>2, FaultType DEF Has, Faults, ShouldDrop, FaultConfig, TypeOK
            <4>2. n \in Nat
                BY DEF TypeOK
            <4> QED
                BY <3>3, <4>1, <4>2
        <3>5. Has(c, "drop") =>
                 \A i \in DOMAIN toClient'[c] : toClient'[c][i].id <= Fault(Faults(c), "drop").after
            BY <1>1, <1>5, <2>2, <3>4 DEF Counted
        <3> QED
            BY <1>1, <3>2, <3>5 DEF Counted
    <2>3. CASE link[c] # "open"
        BY <1>1, <2>1, <2>3 DEF Counted
    <2> QED
        BY <2>2, <2>3
<1>11. Truthful(c)'
    <2> SUFFICES ASSUME SoleClient(c), lost[c] = 0 PROVE Truthful(c)'
        BY <1>1 DEF Truthful
    <2>1. call[c].waiting /\ result'[c].id = 0 /\ req = call[c].req
        BY <1>1, <1>6 DEF Living
    <2>2. toClient'[c] # <<>> => Head(toClient'[c]) = m
        BY <1>1, <1>6
    <2> DEFINE res == Decode(req, m)
    <2>3. /\ res.what = "written" => reply.kind = "write"
          /\ res.what = "values" => reply.kind = "read" /\ res.words = reply.words
        BY <1>2, <1>4, DecodeType DEF Decode, Marked, WireReply, ReplyType
    <2> HIDE DEF res
    <2>4. res.what = "written" =>
             \A a \in Span(req) : ~IsStuck(Faults(c), a) => holding'[d][a] = WrittenWord(req, a)
        BY <1>1, <1>2, <2>3 DEF Written, Faults
    <2>5. res.what = "values" =>
             res.words = ReadOut(Profile[d], faults[d], holding'[d], count'[d], req)
        BY <1>1, <1>2, <2>3
    <2>6. toClient'[c] # <<>> => Decode(call'[c].req, Head(toClient'[c])) = res
        BY <1>1, <2>1, <2>2 DEF res
    <2>7. (toClient[c] # <<>> => Tells(c, Decode(call[c].req, Head(toClient[c]))))'
        BY <1>1, <2>1, <2>4, <2>5, <2>6 DEF Tells, config
    <2> QED
        BY <1>1, <2>1, <2>7 DEF Truthful
<1>12. InTime(c)'
    BY <1>1, <1>6 DEF InTime
<1> QED
    BY <1>7, <1>8, <1>9, <1>10, <1>11, <1>12

(***************************************************************************)
(* A dependable device answers every request of a client in step.          *)
(***************************************************************************)
LEMMA DependableAnswered ==
    ASSUME TypeOK, NEW c \in Client, Living(c), Synced(c), InTime(c), Dependable(c), Ready(c)
    PROVE  ~Unwrappable(Response(c)) /\ call[c].waiting /\ Head(toServer[c]).req = call[c].req
<1> DEFINE d    == DeviceOf[c]
           req  == Head(toServer[c]).req
           n    == count[d] + 1
           read == ReadOut(Profile[d], faults[d], holding[d], n, req)
<1>1. /\ toServer[c] # <<>> /\ toServer[c][1] = Head(toServer[c])
      /\ Head(toServer[c]) \in WireRequest
    BY HandledTyped, HeadTailProperties DEF Ready, TypeOK
<1>2. call[c].waiting /\ req = call[c].req /\ req \in Requests
    BY <1>1 DEF InTime, Synced, Living
<1>3. ~ShouldDrop(faults[d], n) /\ ~(framing = "modbus-tcp" /\ Has(c, "crc_corrupt"))
    BY DEF Dependable, ShouldDrop, Has, Faults
<1>4. req.fc \in ReadCodes => ~(Len(read) > MaxRegisters)
    <2> SUFFICES ASSUME req.fc \in ReadCodes PROVE ~(Len(read) > MaxRegisters)
        OBVIOUS
    <2> DEFINE q == req.qty
    <2>1. q \in Nat /\ q <= MaxRegisters
        BY <1>1, <1>2, WordModAssumption DEF Dependable, WireRequest, Encodable, Word
    <2>2. read = [i \in 1 .. q |-> read[i]]
        BY DEF ReadOut
    <2> HIDE DEF q, read
    <2>3. Len(read) = q
        BY <2>1, <2>2
    <2> QED
        BY <2>1, <2>3, MaxRegistersAssumption
<1>5. Response(c).kind \notin {"none", "raise"}
    BY <1>3, <1>4, WireReplySays
<1>6. framing = "modbus-tcp" => Response(c).crcOk
    BY <1>3, WireReplySays
<1> QED
    BY <1>2, <1>5, <1>6 DEF Unwrappable

LEMMA HangPromises ==
    ASSUME TypeOK, NEW c \in Client, LinkInv(c), Promises(c), Hang(c)
    PROVE  Promises(c)'
<1> USE DEF Promises
<1>0. UNCHANGED config
    BY DEF Hang
<1> USE <1>0, ConfigDecides
<1>1. /\ Ready(c) /\ Unwrappable(Response(c)) /\ toServer[c] # <<>>
      /\ toServer'[c] = <<>> /\ toClient'[c] = toClient[c] /\ call'[c] = call[c]
      /\ result'[c] = result[c] /\ got'[c] = got[c] /\ lost'[c] = lost[c]
      /\ handler'[c].pc = "done"
      /\ link'[c] \in {"left", "closed", "aborted"}
    BY DEF Hang, Ready, TypeOK, counts
<1>2. lost[c] = 0 => /\ call[c].waiting /\ Len(toServer[c]) = 1 /\ toClient[c] = <<>>
                     /\ toServer[c][1].req = call[c].req
    BY <1>1 DEF Synced
<1>3. ~Dependable(c)
    BY <1>1, DependableAnswered
<1>4. Living(c)' /\ Synced(c)'
    BY <1>1, <1>2, EmptySeq DEF Living, Synced
<1>5. Corruption(c)'
    BY <1>1 DEF Corruption, Marked
<1>6. Counted(c)'
    BY <1>1 DEF Counted
<1>7. Truthful(c)'
    BY <1>1, <1>2 DEF Truthful, Living
<1>8. InTime(c)'
    BY <1>3 DEF InTime
<1> QED
    BY <1>4, <1>5, <1>6, <1>7, <1>8

LEMMA HandlerPromises ==
    ASSUME TypeOK, NEW c \in Client, LinkInv(c), Promises(c), ApplyDelay(c) \/ EndOfRequests(c)
    PROVE  Promises(c)'
<1> USE DEF Promises
<1>0. UNCHANGED config
    BY DEF ApplyDelay, EndOfRequests
<1> USE <1>0, ConfigDecides
<1>1. /\ link'[c] = link[c] /\ toClient'[c] = toClient[c] /\ call'[c] = call[c]
      /\ result'[c] = result[c] /\ got'[c] = got[c] /\ lost'[c] = lost[c]
      /\ holding' = holding /\ count' = count
    BY DEF ApplyDelay, EndOfRequests, counts, device
<1>2. \/ /\ toServer'[c] = toServer[c] /\ toServer[c] # <<>>
         /\ handler[c].pc = "reading" /\ handler'[c] = [pc |-> "sleeping", timer |-> Delay(c)]
      \/ /\ toServer'[c] = <<>> /\ link[c] = "left" /\ handler[c].pc = "reading"
         /\ handler'[c].pc = "done"
    BY DEF ApplyDelay, EndOfRequests, TypeOK, HandlerState
<1>3. link[c] = "left" => ~call[c].waiting /\ toClient[c] = <<>>
    BY DEF LinkInv, Accounted
<1>4. Living(c)' /\ Synced(c)'
    BY <1>1, <1>2, <1>3 DEF Living, Synced
<1>5. Corruption(c)'
    BY <1>1 DEF Corruption, Marked
<1>6. Counted(c)'
    BY <1>1 DEF Counted
<1>7. Truthful(c)'
    BY <1>1 DEF Truthful, Tells, config
<1>8. InTime(c)'
    <2> SUFFICES ASSUME Dependable(c) PROVE InTime(c)'
        BY DEF InTime
    <2>1. Delay(c) \in Nat /\ call[c].left \in Nat
        BY DelayType DEF Delay, TypeOK, CallState
    <2>2. Delay(c) - Delay(c) = 0
        BY <2>1
    <2> QED
        BY <1>1, <1>2, <1>3, <2>1, <2>2 DEF InTime
<1> QED
    BY <1>4, <1>5, <1>6, <1>7, <1>8

(***************************************************************************)
(* The clock.                                                              *)
(***************************************************************************)
LEMMA TickPromises ==
    ASSUME TypeOK, NEW c \in Client, LinkInv(c), Promises(c), Tick
    PROVE  Promises(c)'
<1> USE DEF Promises
<1>0. UNCHANGED config
    BY DEF Tick
<1> USE <1>0, ConfigDecides
<1>1. /\ link'[c] = link[c] /\ toServer'[c] = toServer[c] /\ toClient'[c] = toClient[c]
      /\ result'[c] = result[c] /\ got'[c] = got[c] /\ lost'[c] = lost[c]
      /\ holding' = holding /\ count' = count
    BY DEF Tick, counts, device
<1>2. /\ call'[c].waiting = call[c].waiting /\ call'[c].req = call[c].req
      /\ call[c].waiting => call'[c].left = call[c].left - 1
      /\ handler'[c].pc = handler[c].pc
      /\ handler[c].pc = "sleeping" => handler'[c].timer = handler[c].timer - 1
    BY DEF Tick, TypeOK, CallState, HandlerState
<1>3. Living(c)' /\ Synced(c)'
    BY <1>1, <1>2 DEF Living, Synced
<1>4. Corruption(c)'
    BY <1>1 DEF Corruption, Marked
<1>5. Counted(c)'
    BY <1>1 DEF Counted
<1>6. Truthful(c)'
    BY <1>1, <1>2 DEF Truthful, Tells, config
<1>7. InTime(c)'
    <2> SUFFICES ASSUME Dependable(c) PROVE InTime(c)'
        BY DEF InTime
    <2>1. CASE ~call[c].waiting
        BY <1>1, <1>2, <2>1 DEF InTime
    <2>2. CASE call[c].waiting
        <3>1. toClient[c] = <<>> /\ toServer[c] # <<>>
            BY <2>2 DEF Tick, Runnable, InTime
        <3>2. /\ handler[c].pc = "sleeping" /\ handler[c].timer # 0
              /\ call[c].left = Timeout - (Delay(c) - handler[c].timer)
            BY <2>2, <3>1 DEF Tick, Runnable, InTime
        <3>3. handler[c].timer \in Nat /\ Delay(c) \in Nat /\ Delay(c) < Timeout /\ Timeout \in Nat
            BY DelayType DEF TypeOK, HandlerState, Dependable, Delay
        <3>4. /\ call'[c].left = Timeout - (Delay(c) - handler'[c].timer)
              /\ call'[c].left > 0
            <4> DEFINE t == handler[c].timer
                       w == Delay(c)
            <4>1. t \in Nat \ {0} /\ w \in Nat /\ w < Timeout /\ Timeout \in Nat
                BY <3>2, <3>3
            <4> HIDE DEF t, w
            <4>2. /\ Timeout - (w - t) - 1 = Timeout - (w - (t - 1))
                  /\ Timeout - (w - (t - 1)) > 0
                BY <4>1
            <4>3. /\ call[c].left = Timeout - (w - t) /\ call'[c].left = call[c].left - 1
                  /\ handler'[c].timer = t - 1
                BY <1>2, <2>2, <3>2 DEF t, w
            <4> QED
                BY <4>2, <4>3 DEF w
        <3> QED
            BY <1>1, <1>2, <2>2, <3>1, <3>2, <3>4 DEF InTime
    <2> QED
        BY <2>1, <2>2
<1> QED
    BY <1>3, <1>4, <1>5, <1>6, <1>7

LEMMA StepPromised == TypeOK /\ IInv /\ Promised /\ [Next]_vars => Promised'
<1> SUFFICES ASSUME TypeOK, IInv, Promised, [Next]_vars, NEW o \in Client PROVE Promises(o)'
    BY DEF Promised
<1>0. LinkInv(o) /\ Promises(o)
    BY DEF IInv, Promised
<1>1. UNCHANGED config
    BY ConfigFixed
<1>2. ASSUME UNCHANGED Own(o), SoleClient(o) => UNCHANGED Served(o) PROVE Promises(o)'
    BY <1>0, <1>1, <1>2, Bystander
<1>3. CASE \E c \in Client, req \in Requests : Send(c, req) \/ Refuse(c, req)
    <2> PICK c \in Client, req \in Requests : Send(c, req) \/ Refuse(c, req)
        BY <1>3
    <2>1. CASE o # c
        <3>1. UNCHANGED Own(o) /\ UNCHANGED Served(o)
            BY <2>1 DEF Send, Refuse, Own, Served, counts, device, TypeOK
        <3> QED
            BY <1>2, <3>1
    <2>2. CASE o = c
        BY <1>0, <2>2, SendPromises, RefusePromises
    <2> QED
        BY <2>1, <2>2
<1>4. CASE \E c \in Client : ClientReturns(c)
    <2> PICK c \in Client : ClientReturns(c)
        BY <1>4
    <2>1. CASE o # c
        <3>1. UNCHANGED Own(o) /\ UNCHANGED Served(o)
            BY <2>1 DEF ClientReturns, Receive, Expire, Eof, ReadRaises, GiveUp, Own, Served,
                        counts, device, TypeOK
        <3> QED
            BY <1>2, <3>1
    <2>2. CASE o = c
        BY <1>0, <2>2, ReceivePromises, GiveUpPromises DEF ClientReturns
    <2> QED
        BY <2>1, <2>2
<1>5. CASE \E c \in Client : Connect(c) \/ Close(c) \/ ApplyDelay(c) \/ EndOfRequests(c)
    <2> PICK c \in Client : Connect(c) \/ Close(c) \/ ApplyDelay(c) \/ EndOfRequests(c)
        BY <1>5
    <2>1. CASE o # c
        <3>1. UNCHANGED Own(o) /\ UNCHANGED Served(o)
            BY <2>1 DEF Connect, Close, ApplyDelay, EndOfRequests, Own, Served, counts, device, TypeOK
        <3> QED
            BY <1>2, <3>1
    <2>2. CASE o = c
        BY <1>0, <2>2, ConnectPromises, ClosePromises, HandlerPromises
    <2> QED
        BY <2>1, <2>2
<1>6. CASE \E c \in Client : Answer(c) \/ Hang(c)
    <2> PICK c \in Client : Answer(c) \/ Hang(c)
        BY <1>6
    <2>1. CASE o # c
        <3>1. UNCHANGED Own(o)
            BY <2>1 DEF Answer, Hang, Own, counts, TypeOK
        <3>2. SoleClient(o) => DeviceOf[c] # DeviceOf[o]
            BY <2>1 DEF SoleClient
        <3>3. SoleClient(o) => UNCHANGED Served(o)
            BY <3>2 DEF Answer, Hang, UpdateDevice, Served, TypeOK
        <3> QED
            BY <1>2, <3>1, <3>3
    <2>2. CASE o = c
        BY <1>0, <2>2, AnswerPromises, HangPromises
    <2> QED
        BY <2>1, <2>2
<1>7. CASE Tick
    BY <1>0, <1>7, TickPromises
<1>8. CASE UNCHANGED vars
    BY <1>2, <1>8 DEF vars, Own, Served, counts, device
<1> QED
    BY <1>3, <1>4, <1>5, <1>6, <1>7, <1>8 DEF Next, Network, ServerStep

LEMMA AlwaysPromised == Spec => [](TypeOK /\ IInv /\ Promised)
<1>1. Init => Promised
    BY InitPromised
<1>2. TypeOK /\ IInv /\ Promised /\ [Next]_vars => Promised'
    BY StepPromised
<1> QED
    BY <1>1, <1>2, Typing, Invariance, PTL DEF Spec

(***************************************************************************)
(* No false timeout: a delay below the timeout only slows a call, however  *)
(* many clients share the device.                                          *)
(***************************************************************************)
THEOREM NoFalseTimeout == Spec => []DependableAnswers
<1>1. Promised => DependableAnswers
    BY DEF Promised, Promises, InTime, DependableAnswers
<1> QED
    BY <1>1, AlwaysPromised, PTL

(***************************************************************************)
(* A corrupted CRC never passes for an answer in the custom framing, and   *)
(* never acknowledges a write in either.                                   *)
(***************************************************************************)
THEOREM CorruptNeverPasses == Spec => []CorruptionCaught
<1>1. Promised => CorruptionCaught
    BY DEF Promised, Promises, Corruption, CorruptionCaught
<1> QED
    BY <1>1, AlwaysPromised, PTL

(***************************************************************************)
(* A device that drops after k requests answers none after the k-th, even  *)
(* to a client that reads late replies.                                    *)
(***************************************************************************)
THEOREM DropIsFinal == Spec => []NothingAfterDrop
<1>1. Promised => NothingAfterDrop
    BY DEF Promised, Promises, Counted, NothingAfterDrop
<1> QED
    BY <1>1, AlwaysPromised, PTL

(***************************************************************************)
(* An acknowledged write is in the registers, for a client in step and     *)
(* alone at its device.                                                    *)
(***************************************************************************)
THEOREM AcknowledgedIsApplied == Spec => []AckedWriteApplied
<1>1. Promised => AckedWriteApplied
    BY DEF Promised, Promises, Truthful, Tells, AckedWriteApplied, InStep
<1> QED
    BY <1>1, AlwaysPromised, PTL

(***************************************************************************)
(* What such a client reads is what the registers hold.                    *)
(***************************************************************************)
THEOREM ReadsAreCurrent == Spec => []ReadIsCurrent
<1>1. Promised => ReadIsCurrent
    BY DEF Promised, Promises, Truthful, Tells, ReadIsCurrent, InStep
<1> QED
    BY <1>1, AlwaysPromised, PTL
------------------------------------------------------------------------------
(***************************************************************************)
(* What a device counts, among the requests of its clients: those taken    *)
(* off the streams, answered or not.                                       *)
(***************************************************************************)
Taken == [c \in Client |-> sent[c] - Len(toServer[c])]

Tally(d) ==
    /\ IsFiniteSet(Numbered(d, sent))
    /\ \A c \in ClientsOf(d) : got[c] + Len(toClient[c]) + Len(toServer[c]) <= sent[c]
    /\ Cardinality(Numbered(d, Given)) <= count[d]
    /\ count[d] <= Cardinality(Numbered(d, Taken))

Tallied == \A d \in Device : Tally(d)

LEMMA NumberedIn ==
    ASSUME NEW d, NEW n, NEW x
    PROVE  x \in Numbered(d, n) <=> \E c \in ClientsOf(d) : \E i \in 1 .. n[c] : x = <<c, i>>
BY DEF Numbered

LEMMA NumberedFewer ==
    ASSUME NEW d, NEW n \in [Client -> Int], NEW m \in [Client -> Int],
           \A c \in ClientsOf(d) : n[c] <= m[c], IsFiniteSet(Numbered(d, m))
    PROVE  /\ IsFiniteSet(Numbered(d, n)) /\ Cardinality(Numbered(d, n)) \in Nat
           /\ Cardinality(Numbered(d, n)) <= Cardinality(Numbered(d, m))
<1>1. \A c \in ClientsOf(d) : 1 .. n[c] \subseteq 1 .. m[c]
    BY DEF ClientsOf
<1>2. ASSUME NEW x \in Numbered(d, n) PROVE x \in Numbered(d, m)
    <2>1. PICK c \in ClientsOf(d) : \E i \in 1 .. n[c] : x = <<c, i>>
        BY DEF Numbered
    <2>2. PICK i \in 1 .. n[c] : x = <<c, i>>
        BY <2>1
    <2> QED
        BY <1>1, <2>2, NumberedIn
<1>3. Numbered(d, n) \subseteq Numbered(d, m)
    BY <1>2
<1> QED
    BY <1>3, FS_Subset, FS_CardinalityType

LEMMA NumberedNext ==
    ASSUME NEW d, NEW n \in [Client -> Nat], NEW m \in [Client -> Nat], NEW c \in ClientsOf(d),
           m[c] = n[c] + 1, \A o \in ClientsOf(d) \ {c} : m[o] = n[o],
           IsFiniteSet(Numbered(d, n))
    PROVE  /\ IsFiniteSet(Numbered(d, m))
           /\ Cardinality(Numbered(d, m)) = Cardinality(Numbered(d, n)) + 1
<1> DEFINE x == <<c, n[c] + 1>>
<1>1. c \in Client
    BY DEF ClientsOf
<1>2. n[c] \in Nat /\ m[c] = n[c] + 1 /\ \A o \in ClientsOf(d) \ {c} : m[o] = n[o]
    BY <1>1
<1>3. \A i : i \in 1 .. m[c] <=> i \in 1 .. n[c] \/ i = n[c] + 1
    BY <1>2
<1>4. Numbered(d, m) = Numbered(d, n) \cup {x}
    <2>1. ASSUME NEW y \in Numbered(d, m) PROVE y \in Numbered(d, n) \cup {x}
        <3>1. PICK o \in ClientsOf(d) : \E i \in 1 .. m[o] : y = <<o, i>>
            BY <2>1 DEF Numbered
        <3>2. PICK i \in 1 .. m[o] : y = <<o, i>>
            BY <3>1
        <3>3. o \in Client
            BY DEF ClientsOf
        <3>4. CASE o = c
            <4>1. i \in 1 .. n[c] \/ i = n[c] + 1
                BY <1>3, <3>2, <3>4
            <4> QED
                BY <3>2, <3>4, <4>1, NumberedIn
        <3>5. CASE o # c
            <4>1. i \in 1 .. n[o]
                BY <1>2, <3>2, <3>3, <3>5
            <4> QED
                BY <3>2, <4>1, NumberedIn
        <3> QED
            BY <3>4, <3>5
    <2>2. ASSUME NEW y \in Numbered(d, n) PROVE y \in Numbered(d, m)
        <3>1. PICK o \in ClientsOf(d) : \E i \in 1 .. n[o] : y = <<o, i>>
            BY <2>2 DEF Numbered
        <3>2. PICK i \in 1 .. n[o] : y = <<o, i>>
            BY <3>1
        <3>3. o \in Client
            BY DEF ClientsOf
        <3>4. i \in 1 .. m[o]
            BY <1>2, <1>3, <3>2, <3>3
        <3> QED
            BY <3>2, <3>4, NumberedIn
    <2>3. x \in Numbered(d, m)
        <3>1. n[c] + 1 \in 1 .. m[c]
            BY <1>2
        <3> QED
            BY <3>1, NumberedIn
    <2> QED
        BY <2>1, <2>2, <2>3
<1>5. x \notin Numbered(d, n)
    <2> SUFFICES ASSUME x \in Numbered(d, n) PROVE FALSE
        OBVIOUS
    <2>1. PICK o \in ClientsOf(d) : \E i \in 1 .. n[o] : x = <<o, i>>
        BY NumberedIn
    <2>2. n[c] + 1 \in 1 .. n[c]
        BY <2>1
    <2> QED
        BY <1>2, <2>2
<1> HIDE DEF x
<1> QED
    BY <1>4, <1>5, FS_AddElement

\* A step that counts nothing, and one that counts a request of c.
LEMMA NothingCounted ==
    ASSUME NEW d, Tally(d), Given \in [Client -> Nat], Taken \in [Client -> Int],
           Given' \in [Client -> Nat], Taken' \in [Client -> Int], sent' \in [Client -> Nat],
           IsFiniteSet(Numbered(d, sent))', count'[d] = count[d], count[d] \in Nat,
           sent \in [Client -> Nat],
           \A c \in ClientsOf(d) : /\ got'[c] + Len(toClient'[c]) + Len(toServer'[c]) <= sent'[c]
                                   /\ Given'[c] <= Given[c] /\ Taken[c] <= Taken'[c]
                                   /\ Given[c] <= sent[c] /\ Taken'[c] <= sent'[c]
    PROVE  Tally(d)'
<1> DEFINE G0 == Given
           G1 == Given'
           T0 == Taken
           T1 == Taken'
           S0 == sent
           S1 == sent'
<1>1. /\ IsFiniteSet(Numbered(d, S0)) /\ IsFiniteSet(Numbered(d, S1))
      /\ Cardinality(Numbered(d, G0)) <= count[d] /\ count[d] <= Cardinality(Numbered(d, T0))
    BY DEF Tally, Numbered, ClientsOf
<1>2. /\ G0 \in [Client -> Int] /\ G1 \in [Client -> Int]
      /\ T0 \in [Client -> Int] /\ T1 \in [Client -> Int]
      /\ S0 \in [Client -> Int] /\ S1 \in [Client -> Int]
    OBVIOUS
<1>3. \A c \in ClientsOf(d) : /\ G1[c] <= G0[c] /\ T0[c] <= T1[c]
                              /\ G0[c] <= S0[c] /\ T1[c] <= S1[c]
    OBVIOUS
<1> HIDE DEF G0, G1, T0, T1, S0, S1
<1>4. IsFiniteSet(Numbered(d, G0)) /\ IsFiniteSet(Numbered(d, T1))
    BY <1>1, <1>2, <1>3, NumberedFewer
<1>5. /\ Cardinality(Numbered(d, G1)) \in Nat /\ Cardinality(Numbered(d, G0)) \in Nat
      /\ Cardinality(Numbered(d, G1)) <= Cardinality(Numbered(d, G0))
    BY <1>2, <1>3, <1>4, NumberedFewer, FS_CardinalityType
<1>6. /\ Cardinality(Numbered(d, T0)) \in Nat /\ Cardinality(Numbered(d, T1)) \in Nat
      /\ Cardinality(Numbered(d, T0)) <= Cardinality(Numbered(d, T1))
    BY <1>2, <1>3, <1>4, NumberedFewer, FS_CardinalityType
<1>7. /\ Cardinality(Numbered(d, G1)) <= count'[d]
      /\ count'[d] <= Cardinality(Numbered(d, T1))
    BY <1>1, <1>5, <1>6
<1> QED
    BY <1>7 DEF Tally, Numbered, ClientsOf, G1, T1

LEMMA RequestCounted ==
    ASSUME NEW d, Tally(d), Given \in [Client -> Nat], Taken \in [Client -> Nat],
           Given' \in [Client -> Nat], Taken' \in [Client -> Int], sent \in [Client -> Nat],
           sent' = sent, count'[d] = count[d] + 1, count[d] \in Nat,
           NEW c \in ClientsOf(d), Given'[c] <= Given[c] + 1, Taken[c] + 1 <= Taken'[c],
           Given[c] + 1 <= sent[c],
           \A o \in ClientsOf(d) \ {c} : Given'[o] = Given[o] /\ Taken'[o] = Taken[o],
           \A o \in ClientsOf(d) : /\ got'[o] + Len(toClient'[o]) + Len(toServer'[o]) <= sent'[o]
                                   /\ Given[o] <= sent[o] /\ Taken'[o] <= sent[o] /\ Taken[o] <= sent[o]
    PROVE  Tally(d)'
<1> DEFINE G0 == Given
           G1 == Given'
           T0 == Taken
           T1 == Taken'
           G2 == [G0 EXCEPT ![c] = G0[c] + 1]
           T2 == [T0 EXCEPT ![c] = T0[c] + 1]
<1>1. /\ IsFiniteSet(Numbered(d, sent)) /\ IsFiniteSet(Numbered(d, sent))'
      /\ Cardinality(Numbered(d, G0)) <= count[d] /\ count[d] <= Cardinality(Numbered(d, T0))
    BY DEF Tally, Numbered, ClientsOf
<1>2. /\ G0 \in [Client -> Nat] /\ G1 \in [Client -> Nat] /\ T0 \in [Client -> Nat]
      /\ T1 \in [Client -> Int] /\ sent \in [Client -> Nat] /\ c \in Client
    BY DEF ClientsOf
<1>3. /\ \A o \in ClientsOf(d) : G0[o] <= sent[o] /\ T0[o] <= sent[o] /\ T1[o] <= sent[o] /\ o \in Client
      /\ \A o \in ClientsOf(d) \ {c} : G1[o] = G0[o] /\ T1[o] = T0[o]
      /\ G1[c] <= G0[c] + 1 /\ T0[c] + 1 <= T1[c]
    BY DEF ClientsOf
<1> HIDE DEF G0, G1, T0, T1
<1>4. /\ G2 \in [Client -> Nat] /\ T2 \in [Client -> Nat]
      /\ G2[c] = G0[c] + 1 /\ T2[c] = T0[c] + 1
      /\ \A o \in ClientsOf(d) \ {c} : G2[o] = G0[o] /\ T2[o] = T0[o]
      /\ \A o \in ClientsOf(d) : G1[o] <= G2[o] /\ T2[o] <= T1[o]
    <2>1. G2 \in [Client -> Nat] /\ T2 \in [Client -> Nat]
        BY <1>2
    <2>2. G2[c] = G0[c] + 1 /\ T2[c] = T0[c] + 1
        BY <1>2
    <2>3. \A o \in ClientsOf(d) \ {c} : G2[o] = G0[o] /\ T2[o] = T0[o]
        BY <1>2 DEF ClientsOf
    <2>4. \A o \in ClientsOf(d) \ {c} : G1[o] <= G2[o] /\ T2[o] <= T1[o]
        <3> SUFFICES ASSUME NEW o \in ClientsOf(d) \ {c} PROVE G1[o] <= G2[o] /\ T2[o] <= T1[o]
            OBVIOUS
        <3>1. G1[o] = G2[o] /\ T2[o] = T1[o]
            BY <1>3, <2>3
        <3>2. G2[o] \in Nat /\ T2[o] \in Nat
            BY <1>3, <2>1
        <3> QED
            BY <3>1, <3>2
    <2>5. G1[c] <= G2[c] /\ T2[c] <= T1[c]
        BY <1>3, <2>2
    <2> QED
        BY <2>1, <2>2, <2>3, <2>4, <2>5
<1> HIDE DEF G2, T2
<1>5. /\ G0 \in [Client -> Int] /\ G1 \in [Client -> Int] /\ G2 \in [Client -> Int]
      /\ T0 \in [Client -> Int] /\ T2 \in [Client -> Int] /\ sent \in [Client -> Int]
    BY <1>2, <1>4
<1>6. IsFiniteSet(Numbered(d, G0)) /\ IsFiniteSet(Numbered(d, T0)) /\ IsFiniteSet(Numbered(d, T1))
    BY <1>1, <1>2, <1>3, <1>5, NumberedFewer
<1>7. /\ IsFiniteSet(Numbered(d, G2))
      /\ Cardinality(Numbered(d, G2)) = Cardinality(Numbered(d, G0)) + 1
    <2>1. /\ G0 \in [Client -> Nat] /\ G2 \in [Client -> Nat] /\ c \in ClientsOf(d)
          /\ IsFiniteSet(Numbered(d, G0)) /\ G2[c] = G0[c] + 1
        BY <1>2, <1>4, <1>6
    <2>2. \A o \in ClientsOf(d) \ {c} : G2[o] = G0[o]
        BY <1>4
    <2> QED
        BY ONLY <2>1, <2>2, NumberedNext
<1>8. /\ IsFiniteSet(Numbered(d, T2))
      /\ Cardinality(Numbered(d, T2)) = Cardinality(Numbered(d, T0)) + 1
    <2>1. /\ T0 \in [Client -> Nat] /\ T2 \in [Client -> Nat] /\ c \in ClientsOf(d)
          /\ IsFiniteSet(Numbered(d, T0)) /\ T2[c] = T0[c] + 1
        BY <1>2, <1>4, <1>6
    <2>2. \A o \in ClientsOf(d) \ {c} : T2[o] = T0[o]
        BY <1>4
    <2> QED
        BY ONLY <2>1, <2>2, NumberedNext
<1>9. /\ Cardinality(Numbered(d, G1)) \in Nat /\ Cardinality(Numbered(d, G0)) \in Nat
      /\ Cardinality(Numbered(d, G1)) <= Cardinality(Numbered(d, G2))
    BY <1>4, <1>5, <1>6, <1>7, NumberedFewer, FS_CardinalityType
<1>10. /\ Cardinality(Numbered(d, T0)) \in Nat /\ Cardinality(Numbered(d, T1)) \in Nat
       /\ Cardinality(Numbered(d, T2)) <= Cardinality(Numbered(d, T1))
    BY <1>2, <1>4, <1>5, <1>6, NumberedFewer, FS_CardinalityType
<1>11. Cardinality(Numbered(d, G1)) <= count'[d] /\ count'[d] <= Cardinality(Numbered(d, T1))
    <2> DEFINE g0 == Cardinality(Numbered(d, G0))
               g1 == Cardinality(Numbered(d, G1))
               g2 == Cardinality(Numbered(d, G2))
               t0 == Cardinality(Numbered(d, T0))
               t1 == Cardinality(Numbered(d, T1))
               t2 == Cardinality(Numbered(d, T2))
    <2>1. /\ g0 \in Nat /\ g1 \in Nat /\ t0 \in Nat /\ t1 \in Nat
          /\ g2 = g0 + 1 /\ t2 = t0 + 1 /\ g1 <= g2 /\ t2 <= t1
          /\ g0 <= count[d] /\ count[d] <= t0
        BY <1>1, <1>7, <1>8, <1>9, <1>10
    <2>2. count[d] \in Nat /\ count'[d] = count[d] + 1
        OBVIOUS
    <2> HIDE DEF g0, g1, g2, t0, t1, t2
    <2>3. g1 <= count'[d] /\ count'[d] <= t1
        BY <2>1, <2>2
    <2> QED
        BY <2>3 DEF g1, t1
<1> QED
    BY <1>1, <1>11 DEF Tally, Numbered, ClientsOf, G1, T1

\* What a step of a client's connection does to its three counts.
Balanced(c) == got[c] + Len(toClient[c]) + Len(toServer[c]) <= sent[c]

LEMMA StreamsShift ==
    ASSUME TypeOK, NEW c \in Client, Balanced(c),
           \/ ClientReturns(c) \/ ApplyDelay(c) \/ EndOfRequests(c) \/ Connect(c) \/ Close(c)
           \/ \E req \in Requests : Send(c, req) \/ Refuse(c, req)
    PROVE  /\ Balanced(c)' /\ Given'[c] <= Given[c] /\ Taken[c] <= Taken'[c]
           /\ count' = count
           /\ sent' = sent \/ sent' = [sent EXCEPT ![c] = sent[c] + 1]
<1> DEFINE g == got[c]
           n == Len(toClient[c])
           m == Len(toServer[c])
           s == sent[c]
           g1 == got'[c]
           n1 == Len(toClient'[c])
           m1 == Len(toServer'[c])
           s1 == sent'[c]
<1>0. g \in Nat /\ n \in Nat /\ m \in Nat /\ s \in Nat /\ g + n + m <= s /\ Len(<<>>) = 0
    BY Counting DEF Balanced
<1>1. /\ Given[c] = g + n /\ Taken[c] = s - m
      /\ Given'[c] = g1 + n1 /\ Taken'[c] = s1 - m1
      /\ g1 + n1 + m1 <= s1 => Balanced(c)'
    BY DEF Given, Taken, Balanced
<1>2. /\ count' = count /\ (sent' = sent \/ sent' = [sent EXCEPT ![c] = sent[c] + 1])
      /\ \/ g1 = g /\ n1 = n /\ m1 \in {m, m + 1} /\ s1 = s + 1
         \/ g1 = g + 1 /\ n >= 1 /\ n1 = n - 1 /\ m1 = m /\ s1 = s
         \/ g1 = g /\ n1 \in {n, 0} /\ m1 \in {m, 0} /\ s1 = s
    <2>1. CASE \E req \in Requests : Send(c, req)
        <3> PICK req \in Requests : Send(c, req)
            BY <2>1
        <3>1. /\ count' = count /\ sent' = [sent EXCEPT ![c] = sent[c] + 1] /\ s1 = s + 1
              /\ g1 = g /\ toClient'[c] = toClient[c]
              /\ \/ toServer'[c] = Append(toServer[c], [id |-> sent[c] + 1, req |-> req])
                 \/ toServer'[c] = toServer[c]
            BY DEF Send, device, TypeOK
        <3>2. m1 \in {m, m + 1}
            BY <3>1 DEF TypeOK
        <3>3. n1 = n
            BY <3>1
        <3> QED
            BY <3>1, <3>2, <3>3
    <2>2. CASE Receive(c)
        <3>1. /\ count' = count /\ sent' = sent /\ g1 = g + 1
              /\ toClient'[c] = Tail(toClient[c]) /\ toServer'[c] = toServer[c]
              /\ toClient[c] # <<>> /\ toClient[c] \in Seq(WireReply)
            BY <2>2 DEF Receive, device, TypeOK
        <3>2. n1 = n - 1 /\ n >= 1
            BY <3>1, HeadTailProperties
        <3>3. m1 = m /\ s1 = s
            BY <3>1
        <3> QED
            BY <3>1, <3>2, <3>3
    <2>3. CASE \/ \E req \in Requests : Refuse(c, req)
               \/ Expire(c) \/ Eof(c) \/ ReadRaises(c) \/ ApplyDelay(c) \/ Connect(c)
        <3>1. /\ count' = count /\ sent' = sent /\ got' = got
              /\ toClient' = toClient /\ toServer' = toServer
            BY <2>3 DEF Refuse, Expire, Eof, ReadRaises, GiveUp, ApplyDelay, Connect, device, counts
        <3> QED
            BY <3>1
    <2>4. CASE Close(c) \/ EndOfRequests(c)
        <3>1. /\ count' = count /\ sent' = sent /\ got' = got
              /\ toClient'[c] = <<>> \/ toClient'[c] = toClient[c]
              /\ toServer'[c] = <<>> \/ toServer'[c] = toServer[c]
            BY <2>4 DEF Close, EndOfRequests, device, counts, TypeOK
        <3>2. n1 \in {n, 0} /\ m1 \in {m, 0}
            BY <1>0, <3>1
        <3> QED
            BY <3>1, <3>2
    <2> QED
        BY <2>1, <2>2, <2>3, <2>4 DEF ClientReturns
<1> HIDE DEF g, n, m, s, g1, n1, m1, s1
<1>3. g1 + n1 + m1 <= s1 /\ g1 + n1 <= g + n /\ s - m <= s1 - m1
    BY <1>0, <1>2
<1> QED
    BY <1>1, <1>2, <1>3

LEMMA StreamsServed ==
    ASSUME TypeOK, NEW c \in Client, Balanced(c), Answer(c) \/ Hang(c)
    PROVE  /\ Balanced(c)' /\ Given'[c] <= Given[c] + 1 /\ Taken[c] + 1 <= Taken'[c]
           /\ Given[c] + 1 <= sent[c] /\ sent' = sent
           /\ count'[DeviceOf[c]] = count[DeviceOf[c]] + 1
<1> DEFINE g == got[c]
           n == Len(toClient[c])
           m == Len(toServer[c])
           s == sent[c]
           g1 == got'[c]
           n1 == Len(toClient'[c])
           m1 == Len(toServer'[c])
           s1 == sent'[c]
<1>0. g \in Nat /\ n \in Nat /\ m \in Nat /\ s \in Nat /\ g + n + m <= s /\ Len(<<>>) = 0
    BY Counting DEF Balanced
<1>1. /\ Given[c] = g + n /\ Taken[c] = s - m
      /\ Given'[c] = g1 + n1 /\ Taken'[c] = s1 - m1 /\ sent[c] = s
      /\ g1 + n1 + m1 <= s1 => Balanced(c)'
    BY DEF Given, Taken, Balanced
<1>2. /\ sent' = sent /\ got' = got /\ count'[DeviceOf[c]] = count[DeviceOf[c]] + 1
      /\ toServer[c] # <<>> /\ toServer[c] \in Seq(WireRequest)
    BY DeviceOfAssumption DEF Answer, Hang, Ready, UpdateDevice, counts, TypeOK
<1>3. m >= 1 /\ Len(Tail(toServer[c])) = m - 1
    BY <1>2, HeadTailProperties
<1>4. n1 \in {n, n + 1} /\ m1 \in {m - 1, 0}
    <2>1. CASE Answer(c)
        <3> DEFINE r == [id |-> Head(toServer[c]).id, reply |-> WrapResponse(Response(c))]
        <3>1. /\ toServer'[c] = Tail(toServer[c])
              /\ toClient'[c] = Append(toClient[c], r) \/ toClient'[c] = toClient[c]
            BY <2>1 DEF Answer, TypeOK
        <3> HIDE DEF r
        <3>2. Len(toClient'[c]) = n + 1 \/ Len(toClient'[c]) = n
            BY <3>1 DEF TypeOK
        <3> QED
            BY <1>3, <3>1, <3>2
    <2>2. CASE Hang(c)
        <3>1. toServer'[c] = <<>> /\ toClient'[c] = toClient[c]
            BY <2>2 DEF Hang, TypeOK
        <3> QED
            BY <1>0, <3>1
    <2> QED
        BY <2>1, <2>2
<1>5. g1 = g /\ s1 = s
    BY <1>2
<1> HIDE DEF g, n, m, s, g1, n1, m1, s1
<1>6. /\ g1 + n1 + m1 <= s1 /\ g1 + n1 <= g + n + 1 /\ s - m + 1 <= s1 - m1
      /\ g + n + 1 <= s
    BY <1>0, <1>3, <1>4, <1>5
<1> QED
    BY <1>1, <1>2, <1>6

LEMMA InitTallied == Init => Tallied
<1> SUFFICES ASSUME Init, NEW d \in Device PROVE Tally(d)
    BY DEF Tallied
<1>1. Len(<<>>) = 0
    OBVIOUS
<1>2. \A c \in ClientsOf(d) : sent[c] = 0 /\ Given[c] = 0 /\ Taken[c] = 0 /\ Balanced(c)
    BY <1>1 DEF Init, Given, Taken, Balanced, ClientsOf
<1>3. \A n : (\A c \in ClientsOf(d) : n[c] = 0) => Numbered(d, n) = {}
    <2> SUFFICES ASSUME NEW n, \A c \in ClientsOf(d) : n[c] = 0, NEW x \in Numbered(d, n) PROVE FALSE
        OBVIOUS
    <2>1. PICK c \in ClientsOf(d) : \E i \in 1 .. n[c] : x = <<c, i>>
        BY DEF Numbered
    <2> QED
        BY <2>1
<1>4. Numbered(d, sent) = {} /\ Numbered(d, Given) = {} /\ Numbered(d, Taken) = {}
    BY <1>2, <1>3
<1>5. count[d] = 0 /\ Cardinality({}) = 0 /\ IsFiniteSet({})
    BY FS_EmptySet DEF Init
<1> QED
    BY <1>2, <1>4, <1>5 DEF Tally, Balanced

LEMMA StepTallied == TypeOK /\ TypeOK' /\ Tallied /\ [Next]_vars => Tallied'
<1> SUFFICES ASSUME TypeOK, TypeOK', Tallied, [Next]_vars, NEW d \in Device PROVE Tally(d)'
    BY DEF Tallied
<1>1. Tally(d) /\ \A c \in Client : Balanced(c)
    BY DeviceOfAssumption DEF Tallied, Tally, ClientsOf, Balanced
<1>2. ASSUME NEW c \in Client
      PROVE  /\ Given[c] \in Nat /\ Taken[c] \in Nat /\ Given'[c] \in Nat /\ Taken'[c] \in Int
             /\ Given[c] <= sent[c] /\ Taken[c] <= sent[c] /\ Taken'[c] <= sent'[c]
    <2> DEFINE g == got[c]
               n == Len(toClient[c])
               m == Len(toServer[c])
               s == sent[c]
               g1 == got'[c]
               n1 == Len(toClient'[c])
               m1 == Len(toServer'[c])
               s1 == sent'[c]
    <2>1. /\ g \in Nat /\ n \in Nat /\ m \in Nat /\ s \in Nat
          /\ g1 \in Nat /\ n1 \in Nat /\ m1 \in Nat /\ s1 \in Nat
        BY LenProperties DEF TypeOK
    <2>2. g + n + m <= s
        BY <1>1 DEF Balanced
    <2>3. /\ Given[c] = g + n /\ Taken[c] = s - m /\ sent[c] = s
          /\ Given'[c] = g1 + n1 /\ Taken'[c] = s1 - m1 /\ sent'[c] = s1
        BY DEF Given, Taken
    <2> HIDE DEF g, n, m, s, g1, n1, m1, s1
    <2> QED
        BY <2>1, <2>2, <2>3
<1>3. /\ Given \in [Client -> Nat] /\ Taken \in [Client -> Nat] /\ Taken \in [Client -> Int]
      /\ Given' \in [Client -> Nat] /\ Taken' \in [Client -> Int]
      /\ sent \in [Client -> Nat] /\ sent' \in [Client -> Nat] /\ count[d] \in Nat
    <2>1. \A c \in Client : Given[c] = got[c] + Len(toClient[c]) /\ Taken[c] = sent[c] - Len(toServer[c])
        BY DEF Given, Taken
    <2>2. \A c \in Client : Given'[c] = got'[c] + Len(toClient'[c])
                            /\ Taken'[c] = sent'[c] - Len(toServer'[c])
        BY DEF Given, Taken
    <2>3. \A c \in Client : /\ got[c] + Len(toClient[c]) \in Nat /\ sent[c] - Len(toServer[c]) \in Nat
                            /\ got'[c] + Len(toClient'[c]) \in Nat /\ sent'[c] - Len(toServer'[c]) \in Int
        BY <1>2, <2>1, <2>2
    <2> QED
        BY <2>3 DEF Given, Taken, TypeOK
<1>4. CASE Tick \/ UNCHANGED vars
    <2>1. sent' = sent /\ got' = got /\ toClient' = toClient /\ toServer' = toServer /\ count' = count
        BY <1>4 DEF Tick, vars, counts, device
    <2> QED
        BY <1>1, <2>1 DEF Tally, Given, Taken, Numbered, ClientsOf
<1>5. ASSUME NEW c \in Client,
             \/ ClientReturns(c) \/ ServerStep(c) \/ Connect(c) \/ Close(c)
             \/ \E req \in Requests : Send(c, req) \/ Refuse(c, req)
      PROVE  Tally(d)'
    <2>1. \A o \in Client \ {c} : UNCHANGED Own(o)
        BY <1>5, OthersOwn
    <2>2. \A o \in Client \ {c} : /\ Balanced(o)' /\ sent'[o] = sent[o]
                                  /\ Given'[o] = Given[o] /\ Taken'[o] = Taken[o]
        BY <1>1, <2>1 DEF Own, Balanced, Given, Taken
    <2>3. \A o \in ClientsOf(d) : o \in Client /\ DeviceOf[o] = d
        BY DEF ClientsOf
    <2>4. IsFiniteSet(Numbered(d, sent))
        BY <1>1 DEF Tally
    <2>5. CASE Answer(c) \/ Hang(c)
        <3>1. /\ Balanced(c)' /\ Given'[c] <= Given[c] + 1 /\ Taken[c] + 1 <= Taken'[c]
              /\ Given[c] + 1 <= sent[c] /\ sent' = sent
              /\ count'[DeviceOf[c]] = count[DeviceOf[c]] + 1
            BY <1>1, <2>5, StreamsServed
        <3>2. \A o \in ClientsOf(d) : /\ got'[o] + Len(toClient'[o]) + Len(toServer'[o]) <= sent'[o]
                                      /\ Given[o] <= sent[o] /\ Taken'[o] <= sent[o] /\ Taken[o] <= sent[o]
            BY <1>2, <2>2, <2>3, <3>1 DEF Balanced
        <3>3. CASE d = DeviceOf[c]
            <4>1. c \in ClientsOf(d) /\ \A o \in ClientsOf(d) \ {c} : o \in Client \ {c}
                BY <3>3 DEF ClientsOf
            <4>2. \A o \in ClientsOf(d) \ {c} : Given'[o] = Given[o] /\ Taken'[o] = Taken[o]
                BY <2>2, <4>1
            <4> QED
                BY <1>1, <1>3, <3>1, <3>2, <3>3, <4>1, <4>2, RequestCounted
        <3>4. CASE d # DeviceOf[c]
            <4>1. count'[d] = count[d]
                BY <2>5, <3>4 DEF Answer, Hang, UpdateDevice, TypeOK
            <4>2. \A o \in ClientsOf(d) : o \in Client \ {c}
                BY <2>3, <3>4
            <4>3. \A o \in ClientsOf(d) : /\ Given'[o] <= Given[o] /\ Taken[o] <= Taken'[o]
                                          /\ Taken'[o] <= sent'[o]
                BY <1>2, <2>2, <4>2
            <4>4. IsFiniteSet(Numbered(d, sent))'
                BY <2>4, <3>1 DEF Numbered, ClientsOf
            <4> QED
                BY <1>1, <1>3, <3>2, <4>1, <4>3, <4>4, NothingCounted
        <3> QED
            BY <3>3, <3>4
    <2>6. CASE ~(Answer(c) \/ Hang(c))
        <3>1. /\ Balanced(c)' /\ Given'[c] <= Given[c] /\ Taken[c] <= Taken'[c]
              /\ count' = count
              /\ sent' = sent \/ sent' = [sent EXCEPT ![c] = sent[c] + 1]
            BY <1>1, <1>5, <2>6, StreamsShift DEF ServerStep
        <3>2. \A o \in ClientsOf(d) :
                  /\ got'[o] + Len(toClient'[o]) + Len(toServer'[o]) <= sent'[o]
                  /\ Given'[o] <= Given[o] /\ Taken[o] <= Taken'[o]
                  /\ Given[o] <= sent[o] /\ Taken'[o] <= sent'[o]
            BY <1>2, <2>2, <2>3, <3>1 DEF Balanced
        <3>3. IsFiniteSet(Numbered(d, sent))'
            <4> DEFINE S1 == sent'
            <4>1. S1 \in [Client -> Nat] /\ sent \in [Client -> Nat]
                BY <1>3
            <4>2. CASE \A o \in ClientsOf(d) : S1[o] = sent[o]
                <5>1. S1 \in [Client -> Int] /\ sent \in [Client -> Int]
                      /\ \A o \in ClientsOf(d) : S1[o] <= sent[o]
                    BY <2>3, <4>1, <4>2
                <5> HIDE DEF S1
                <5>2. IsFiniteSet(Numbered(d, S1))
                    BY <2>4, <5>1, NumberedFewer
                <5> QED
                    BY <5>2 DEF S1, Numbered, ClientsOf
            <4>3. CASE c \in ClientsOf(d) /\ sent' = [sent EXCEPT ![c] = sent[c] + 1]
                <5>1. S1[c] = sent[c] + 1 /\ c \in ClientsOf(d)
                    BY <4>1, <4>3
                <5>2. \A o \in ClientsOf(d) \ {c} : S1[o] = sent[o]
                    BY <2>3, <4>1, <4>3
                <5> HIDE DEF S1
                <5>3. IsFiniteSet(Numbered(d, S1))
                    BY ONLY <2>4, <4>1, <5>1, <5>2, NumberedNext
                <5> QED
                    BY <5>3 DEF S1, Numbered, ClientsOf
            <4> QED
                BY <2>2, <2>3, <3>1, <4>2, <4>3
        <3> QED
            BY <1>1, <1>3, <3>1, <3>2, <3>3, NothingCounted
    <2> QED
        BY <2>5, <2>6
<1> QED
    BY <1>4, <1>5 DEF Next, Network

LEMMA AlwaysTallied == Spec => []Tallied
<1>1. Init => Tallied
    BY InitTallied
<1>2. TypeOK /\ TypeOK' /\ Tallied /\ [Next]_vars => Tallied'
    BY StepTallied
<1> QED
    BY <1>1, <1>2, Typing, PTL DEF Spec

(***************************************************************************)
(* A request is handled at most once, and once by the time its reply can   *)
(* be read, whatever the number of clients of a device.                    *)
(***************************************************************************)
THEOREM ServedExactlyOnce == Spec => []HandledOnce
<1>1. TypeOK /\ Tallied => HandledOnce
    <2> SUFFICES ASSUME TypeOK, Tallied, NEW d \in Device
                 PROVE  /\ Cardinality(Numbered(d, Given)) <= count[d]
                        /\ count[d] <= Cardinality(Numbered(d, sent))
        BY DEF HandledOnce
    <2>1. Tally(d) /\ count[d] \in Nat
        BY DEF Tallied, TypeOK
    <2>2. \A c \in Client : Len(toServer[c]) \in Nat /\ sent[c] \in Nat
        BY Counting
    <2>3. Taken \in [Client -> Int] /\ sent \in [Client -> Int]
        BY <2>2 DEF Taken, TypeOK
    <2>4. \A c \in ClientsOf(d) : Taken[c] <= sent[c]
        BY <2>2 DEF Taken, ClientsOf
    <2>5. IsFiniteSet(Numbered(d, sent)) /\ count[d] <= Cardinality(Numbered(d, Taken))
        BY <2>1 DEF Tally
    <2>6. /\ Cardinality(Numbered(d, Taken)) \in Nat /\ Cardinality(Numbered(d, sent)) \in Nat
          /\ Cardinality(Numbered(d, Taken)) <= Cardinality(Numbered(d, sent))
        BY <2>3, <2>4, <2>5, NumberedFewer, FS_CardinalityType
    <2>7. count[d] <= Cardinality(Numbered(d, sent))
        BY <2>1, <2>5, <2>6
    <2> QED
        BY <2>1, <2>7 DEF Tally
<1> QED
    BY <1>1, Typing, AlwaysTallied, PTL

------------------------------------------------------------------------------
(***************************************************************************)
(* The device of the abstract specification is the simulated device.       *)
(***************************************************************************)
LEMMA SameDevice ==
    ASSUME NEW profile, NEW flts, NEW regs, NEW n, NEW req
    PROVE  Calls!HandleFrame(profile, flts, regs, n, req) = HandleFrame(profile, flts, regs, n, req)
<1>1. \A kind : /\ Calls!HasFault(flts, kind) = HasFault(flts, kind)
                /\ Calls!Fault(flts, kind) = Fault(flts, kind)
    BY DEF Calls!HasFault, HasFault, Calls!Fault, Fault
<1>2. Calls!ShouldDrop(flts, n) = ShouldDrop(flts, n)
    BY <1>1 DEF Calls!ShouldDrop, ShouldDrop
<1>3. Calls!Refusal(profile, regs, req) = Refusal(profile, regs, req)
    BY DEF Calls!Refusal, Refusal, Calls!Span, Span, Calls!Bank, Bank, Calls!ReadCodes, ReadCodes,
           Calls!WriteCodes, WriteCodes
<1>4. \A a : Calls!IsStuck(flts, a) = IsStuck(flts, a)
    BY <1>1 DEF Calls!IsStuck, IsStuck, Calls!Hits, Hits
<1>5. \A a, v : Calls!ReadDrift(flts, n, a, v) = ReadDrift(flts, n, a, v)
    BY <1>1 DEF Calls!ReadDrift, ReadDrift, Calls!Hits, Hits
<1>6. Calls!ReadOut(profile, flts, regs, n, req) = ReadOut(profile, flts, regs, n, req)
    BY <1>5 DEF Calls!ReadOut, ReadOut, Calls!Bank, Bank
<1>7. Calls!Written(flts, regs, req) = Written(flts, regs, req)
    BY <1>4 DEF Calls!Written, Written, Calls!Span, Span, Calls!WrittenWord, WrittenWord
<1> QED
    BY <1>2, <1>3, <1>6, <1>7
       DEF Calls!HandleFrame, HandleFrame, Calls!NoReply, NoReply, Calls!Reply, Reply,
           Calls!Exception, Exception, Calls!ReadReply, ReadReply, Calls!Raises, Raises,
           Calls!Echo, Echo, Calls!ReadCodes, ReadCodes, Calls!WriteCodes, WriteCodes

View(c) == <<Phase(c), Asked(c), Answered(c), Returned(c)>>

Unit(d) == <<Registers(d), Counter(d)>>

LEMMA SameHonesty ==
    ASSUME UNCHANGED config
    PROVE  /\ \A c \in Client : Honest(c)' <=> Honest(c)
           /\ \A d \in Device : HonestDevice(d)' <=> HonestDevice(d)
<1>1. \A c \in Client : Honest(c)' <=> Honest(c)
    BY ConfigDecides DEF Honest
<1> QED
    BY <1>1 DEF HonestDevice, ClientsOf

\* The clients of a device are honest together.
LEMMA OneHonesty ==
    ASSUME NEW c \in Client, Honest(c)
    PROVE  HonestDevice(DeviceOf[c])
BY DEF HonestDevice, ClientsOf, Honest, Dependable, Has, Faults, Delay

LEMMA SameView ==
    ASSUME NEW c \in Client, UNCHANGED config, ~Honest(c) \/ UNCHANGED Own(c)
    PROVE  UNCHANGED View(c)
BY SameHonesty DEF View, Phase, Asked, Answered, Returned, Own

LEMMA SameUnit ==
    ASSUME NEW d \in Device, UNCHANGED config,
           ~HonestDevice(d) \/ UNCHANGED <<holding[d], count[d]>>
    PROVE  UNCHANGED Unit(d)
BY SameHonesty DEF Unit, Registers, Counter

\* A step nobody sees.
LEMMA Unseen ==
    ASSUME UNCHANGED config, \A c \in Client : UNCHANGED View(c),
           \A d \in Device : UNCHANGED Unit(d)
    PROVE  UNCHANGED Calls!vars
BY DEF Calls!vars, View, Unit, config

\* A step one client sees.
LEMMA SeenByOne ==
    ASSUME NEW c \in Client, UNCHANGED config, \A o \in Client \ {c} : UNCHANGED View(o)
    PROVE  /\ [o \in Client |-> Phase(o)]' = [[o \in Client |-> Phase(o)] EXCEPT ![c] = Phase(c)']
           /\ [o \in Client |-> Asked(o)]' = [[o \in Client |-> Asked(o)] EXCEPT ![c] = Asked(c)']
           /\ [o \in Client |-> Answered(o)]' =
                 [[o \in Client |-> Answered(o)] EXCEPT ![c] = Answered(c)']
           /\ [o \in Client |-> Returned(o)]' =
                 [[o \in Client |-> Returned(o)] EXCEPT ![c] = Returned(c)']
BY DEF View

(***************************************************************************)
(* Each action of the abstract specification, by the step that refines it. *)
(***************************************************************************)
LEMMA SendCalls ==
    ASSUME TypeOK, NEW c \in Client, Promises(c), Honest(c), NEW req \in Requests, Send(c, req),
           UNCHANGED config, \A o \in Client \ {c} : UNCHANGED View(o),
           \A d \in Device : UNCHANGED Unit(d)
    PROVE  Calls!Call(c, req)
<1>1. /\ Dependable(c) /\ ~call[c].waiting /\ toServer[c] = <<>> /\ toClient[c] = <<>>
      /\ link[c] = "open"
    BY DEF Honest, Promises, InTime, Synced, Send
<1>2. /\ call'[c] = [waiting |-> TRUE, req |-> req, left |-> Timeout] /\ result'[c] = NoResult
      /\ toServer'[c] = Append(toServer[c], [id |-> sent[c] + 1, req |-> req])
    BY <1>1 DEF Send, TypeOK
<1>3. toServer'[c] # <<>>
    BY <1>1, <1>2
<1>4. Honest(c)'
    BY SameHonesty
<1>5. Phase(c) = "idle" /\ Phase(c)' = "called"
    BY <1>1, <1>2, <1>3, <1>4 DEF Phase
<1>6. Asked(c)' = req /\ Answered(c)' = NoReply /\ Answered(c) = NoReply
    BY <1>2, <1>5 DEF Asked, Answered
<1>7. Returned(c)' = Calls!Local("none")
    BY <1>2, <1>4 DEF Returned, NoResult, Calls!Local, Calls!Outcome
<1>8. [o \in Client |-> Answered(o)]' = [o \in Client |-> Answered(o)]
    BY <1>6 DEF View
<1> QED
    BY <1>5, <1>6, <1>7, <1>8, SeenByOne DEF Calls!Call, Unit, config

LEMMA RefuseRefuses ==
    ASSUME TypeOK, NEW c \in Client, Promises(c), Honest(c), NEW req \in Requests, Refuse(c, req),
           UNCHANGED config, \A o \in Client \ {c} : UNCHANGED View(o),
           \A d \in Device : UNCHANGED Unit(d)
    PROVE  Calls!Refuse(c)
<1>1. ~call[c].waiting /\ ~call'[c].waiting
    BY DEF Refuse, TypeOK, CallState
<1>2. link[c] \in {"unconnected", "open", "left"}
    BY DEF Honest, Promises, InTime
<1>3. PICK what \in {"FrameError", "struct.error", "DeviceError"} : result'[c] = Raised(what)
    BY <1>2 DEF Refuse, TypeOK
<1>4. Honest(c)'
    BY SameHonesty
<1>5. Phase(c) = "idle" /\ Phase(c)' = "idle"
    BY <1>1 DEF Phase
<1>6. Asked(c)' = Asked(c) /\ Answered(c)' = Answered(c)
    BY <1>5 DEF Asked, Answered
<1>7. Returned(c)' = Calls!Local(what)
    BY <1>3, <1>4 DEF Returned, Raised, NoResult, Calls!Local, Calls!Outcome
<1>8. /\ [o \in Client |-> Phase(o)]' = [o \in Client |-> Phase(o)]
      /\ [o \in Client |-> Asked(o)]' = [o \in Client |-> Asked(o)]
      /\ [o \in Client |-> Answered(o)]' = [o \in Client |-> Answered(o)]
    BY <1>5, <1>6 DEF View
<1> QED
    BY <1>3, <1>5, <1>7, <1>8, SeenByOne DEF Calls!Refuse, Unit, config

LEMMA ReceiveReturns ==
    ASSUME TypeOK, NEW c \in Client, Promises(c), Honest(c), Receive(c),
           UNCHANGED config, \A o \in Client \ {c} : UNCHANGED View(o),
           \A d \in Device : UNCHANGED Unit(d)
    PROVE  Calls!Return(c)
<1> DEFINE req   == call[c].req
           msg   == Head(toClient[c])
           reply == msg.reply
<1>1. /\ Dependable(c) /\ lost[c] = 0 /\ call[c].waiting /\ ~call'[c].waiting
      /\ toClient[c] # <<>> /\ result'[c] = Decode(req, msg)
    BY DEF Honest, Promises, InTime, Receive, TypeOK, CallState
<1>2. /\ msg \in WireReply /\ msg = toClient[c][1] /\ 1 \in DOMAIN toClient[c]
    BY <1>1, HeadTailProperties, EmptySeq DEF TypeOK
<1>3. toServer[c] = <<>> /\ Suits(reply, req)
    BY <1>1, <1>2 DEF Promises, InTime, Synced
<1>4. Marked(c, reply) /\ ~Has(c, "crc_corrupt")
    BY <1>2 DEF Promises, Corruption, Honest
<1>5. Honest(c)'
    BY SameHonesty
<1>6. Phase(c) = "effective" /\ Phase(c)' = "idle"
    BY <1>1, <1>3 DEF Phase
<1>7. /\ Answered(c) = reply /\ Asked(c)' = Frame(0, "-", 0, 0) /\ Answered(c)' = NoReply
    BY <1>6 DEF Asked, Answered
<1> HIDE DEF req, msg
<1>8. Returned(c)' = Calls!Told(reply)
    <2>1. /\ reply \in ReplyType /\ reply.crcOk /\ reply.kind \in {"exception", "read", "write"}
          /\ reply.kind = "write" => reply.words = <<>>
          /\ reply.kind # "exception" => reply.code = "-"
          /\ reply.kind = "read" => req.fc \in ReadCodes
          /\ reply.kind = "write" => req.fc \notin ReadCodes
        BY <1>2, <1>3, <1>4 DEF WireReply, ReplyType, Marked, Suits, ReadCodes, WriteCodes
    <2>2. Returned(c)' = [what |-> Decode(req, msg).what, words |-> Decode(req, msg).words,
                          code |-> Decode(req, msg).code]
        BY <1>1, <1>5 DEF Returned
    <2>3. CASE reply.kind = "exception"
        BY <2>1, <2>2, <2>3 DEF Decode, Calls!Told, Calls!Outcome
    <2>4. CASE reply.kind = "read"
        BY <2>1, <2>2, <2>4 DEF Decode, Calls!Told, Calls!Outcome
    <2>5. CASE reply.kind = "write"
        BY <2>1, <2>2, <2>5 DEF Decode, Calls!Told, Calls!Outcome
    <2> QED
        BY <2>1, <2>3, <2>4, <2>5
<1> HIDE DEF reply
<1>9. Calls!NoRequest = Frame(0, "-", 0, 0) /\ Calls!NoReply = NoReply
    BY DEF Calls!NoRequest, Calls!Frame, Frame, Calls!NoReply, Calls!Reply, NoReply, Reply
<1> QED
    BY <1>6, <1>7, <1>8, <1>9, SeenByOne DEF Calls!Return, Unit, config

LEMMA AnswerTakesEffect ==
    ASSUME TypeOK, NEW c \in Client, Promises(c), Honest(c), Answer(c),
           UNCHANGED config, \A o \in Client \ {c} : UNCHANGED View(o),
           \A d \in Device \ {DeviceOf[c]} : UNCHANGED Unit(d)
    PROVE  Calls!TakeEffect(c)
<1> DEFINE d   == DeviceOf[c]
           req == Head(toServer[c]).req
           out == HandleFrame(Profile[d], faults[d], holding[d], count[d] + 1, req)
<1>1. /\ Ready(c) /\ Dependable(c) /\ lost[c] = 0 /\ toServer[c] # <<>> /\ ~Has(c, "crc_corrupt")
    BY DEF Answer, Ready, Honest, Promises, InTime
<1>2. call[c].waiting /\ req = call[c].req
    BY <1>1, DependableAnswered DEF Promises
<1>3. toServer'[c] = <<>> /\ toClient[c] = <<>> /\ link[c] = "open"
    <2>1. Len(toServer[c]) = 1 /\ toClient[c] = <<>> /\ link[c] = "open"
        BY <1>1, <1>2 DEF Promises, Synced, InTime
    <2> DEFINE rest == Tail(toServer[c])
    <2>2. rest \in Seq(WireRequest) /\ Len(rest) = 0
        BY <1>1, <2>1, HeadTailProperties DEF TypeOK
    <2>3. toServer'[c] = rest
        BY DEF Answer, TypeOK
    <2> HIDE DEF rest
    <2>4. rest = <<>>
        BY <2>2, EmptySeq
    <2> QED
        BY <2>1, <2>3, <2>4
<1>4. Handled(c) = out
    BY DEF Handled
<1>5. out.reply \in ReplyType /\ out.reply.crcOk
    <2>1. d \in Device /\ IsProfile(Profile[d])
        OBVIOUS
    <2>2. req \in RequestType /\ req.qty \in Word
        BY <1>1, HandledTyped DEF WireRequest, Encodable
    <2> HIDE DEF d, req
    <2>3. /\ faults[d] \in Seq(FaultConfig) /\ count[d] \in Nat
          /\ holding[d] \in [DOMAIN Profile[d].holding -> Word]
        BY <2>1 DEF TypeOK
    <2>4. count[d] + 1 \in Nat /\ holding[d] \in [DOMAIN holding[d] -> Word]
        BY <2>3
    <2> QED
        BY <2>1, <2>2, <2>3, <2>4, HandleFrameType
<1> HIDE DEF out
<1>6. WrapResponse(Response(c)) = out.reply
    <2>1. \A r \in ReplyType : r.crcOk => [r EXCEPT !.crcOk = TRUE] = r
        BY DEF ReplyType
    <2>2. Response(c) = [out.reply EXCEPT !.crcOk = TRUE]
        BY <1>1, <1>4 DEF Response, CorruptCrc, Has, Faults
    <2> QED
        BY <1>5, <2>1, <2>2 DEF WrapResponse
<1>7. Head(toClient'[c]).reply = out.reply
    <2> DEFINE m == [id |-> Head(toServer[c]).id, reply |-> WrapResponse(Response(c))]
    <2>1. toClient'[c] = Append(toClient[c], m) /\ m.reply = out.reply
        BY <1>3, <1>6 DEF Answer, TypeOK
    <2> HIDE DEF m
    <2>2. Head(Append(<<>>, m)) = m
        OBVIOUS
    <2> QED
        BY <1>3, <2>1, <2>2
<1>8. Honest(c)' /\ HonestDevice(d) /\ HonestDevice(d)'
    BY SameHonesty, OneHonesty
<1>9. call'[c] = call[c] /\ result'[c] = result[c]
    BY DEF Answer
<1>10. Phase(c) = "called" /\ Phase(c)' = "effective"
    BY <1>1, <1>2, <1>3, <1>8, <1>9 DEF Phase
<1>11. /\ Asked(c) = req /\ Asked(c)' = Asked(c) /\ Answered(c)' = out.reply
       /\ Returned(c)' = Returned(c)
    BY <1>2, <1>7, <1>8, <1>9, <1>10 DEF Asked, Answered, Returned
<1>12. /\ Registers(d) = holding[d] /\ Counter(d) = count[d]
       /\ Registers(d)' = out.holding /\ Counter(d)' = count[d] + 1
    BY <1>4, <1>8 DEF Registers, Counter, Answer, UpdateDevice, TypeOK
<1>13. Calls!HandleFrame(Profile[d], faults[d], Registers(d), Counter(d) + 1, Asked(c)) = out
    BY <1>11, <1>12, SameDevice DEF out
<1>14. /\ [e \in Device |-> Registers(e)]' = [[e \in Device |-> Registers(e)] EXCEPT ![d] = out.holding]
       /\ [e \in Device |-> Counter(e)]' = [[e \in Device |-> Counter(e)] EXCEPT ![d] = @ + 1]
    BY <1>12 DEF Unit
<1>15. /\ [o \in Client |-> Asked(o)]' = [o \in Client |-> Asked(o)]
       /\ [o \in Client |-> Returned(o)]' = [o \in Client |-> Returned(o)]
    BY <1>11 DEF View
<1> HIDE DEF req
<1> QED
    BY <1>10, <1>11, <1>13, <1>14, <1>15, SeenByOne DEF Calls!TakeEffect, config

(***************************************************************************)
(* The first state and every step.                                         *)
(***************************************************************************)
LEMMA InitCalls == Init => Calls!Init
<1> SUFFICES ASSUME Init PROVE Calls!Init
    OBVIOUS
<1>1. \A c \in Client : ~call[c].waiting /\ result[c] = NoResult
    BY DEF Init
<1>2. \A c \in Client : /\ Phase(c) = "idle" /\ Asked(c) = Frame(0, "-", 0, 0)
                        /\ Answered(c) = NoReply
                        /\ Returned(c) = [what |-> "none", words |-> <<>>, code |-> "-"]
    BY <1>1 DEF Phase, Asked, Answered, Returned, NoResult
<1>3. \A d \in Device : Registers(d) = Profile[d].holding /\ Counter(d) = 0
    BY DEF Init, Registers, Counter
<1>4. /\ Calls!NoRequest = Frame(0, "-", 0, 0) /\ Calls!NoReply = NoReply
      /\ Calls!Local("none") = [what |-> "none", words |-> <<>>, code |-> "-"]
    BY DEF Calls!NoRequest, Calls!Frame, Frame, Calls!NoReply, Calls!Reply, NoReply, Reply,
           Calls!Local, Calls!Outcome
<1> QED
    BY <1>2, <1>3, <1>4 DEF Calls!Init

LEMMA StepCalls == TypeOK /\ IInv /\ Promised /\ [Next]_vars => [Calls!Next]_(Calls!vars)
<1> SUFFICES ASSUME TypeOK, IInv, Promised, [Next]_vars PROVE [Calls!Next]_(Calls!vars)
    OBVIOUS
<1>1. UNCHANGED config
    BY ConfigFixed
<1>2. CASE UNCHANGED vars
    <2>1. \A c \in Client : UNCHANGED View(c)
        BY <1>1, <1>2, SameView DEF vars, Own, counts
    <2>2. \A d \in Device : UNCHANGED Unit(d)
        BY <1>1, <1>2, SameUnit DEF vars, device
    <2> QED
        BY <1>1, <2>1, <2>2, Unseen
<1>3. CASE Tick
    <2>1. \A c \in Client : UNCHANGED View(c)
        <3> SUFFICES ASSUME NEW c \in Client PROVE UNCHANGED View(c)
            OBVIOUS
        <3>1. /\ toServer'[c] = toServer[c] /\ toClient'[c] = toClient[c] /\ result'[c] = result[c]
              /\ call'[c].waiting = call[c].waiting /\ call'[c].req = call[c].req
            BY <1>3 DEF Tick, TypeOK, CallState
        <3> QED
            BY <1>1, <3>1, SameHonesty DEF View, Phase, Asked, Answered, Returned
    <2>2. \A d \in Device : UNCHANGED Unit(d)
        BY <1>1, <1>3, SameUnit DEF Tick, device
    <2> QED
        BY <1>1, <2>1, <2>2, Unseen
<1>4. ASSUME NEW c \in Client,
             \/ ClientReturns(c) \/ ServerStep(c) \/ Connect(c) \/ Close(c)
             \/ \E req \in Requests : Send(c, req) \/ Refuse(c, req)
      PROVE  [Calls!Next]_(Calls!vars)
    <2>1. Promises(c)
        BY DEF Promised
    <2>2. \A o \in Client \ {c} : UNCHANGED View(o)
        BY <1>1, <1>4, OthersOwn, SameView
    <2>3. \A d \in Device : UNCHANGED Unit(d) \/ (d = DeviceOf[c] /\ (Answer(c) \/ Hang(c)))
        BY <1>1, <1>4, OtherUnits, SameUnit
    <2>4. CASE ~Honest(c)
        <3>1. ~HonestDevice(DeviceOf[c])
            BY <2>4 DEF HonestDevice, ClientsOf
        <3>2. \A d \in Device : UNCHANGED Unit(d)
            BY <1>1, <2>3, <3>1, SameUnit
        <3>3. UNCHANGED View(c)
            BY <1>1, <2>4, SameView
        <3> QED
            BY <1>1, <2>2, <3>2, <3>3, Unseen
    <2>5. CASE Honest(c) /\ Answer(c)
        <3>1. Calls!TakeEffect(c)
            BY <1>1, <2>1, <2>2, <2>3, <2>5, AnswerTakesEffect
        <3> QED
            BY <3>1 DEF Calls!Next
    <2>6. ~(Honest(c) /\ Hang(c))
        BY <2>1, DependableAnswered DEF Hang, Honest, Promises
    <2>7. CASE Honest(c) /\ ~Answer(c)
        <3>1. \A d \in Device : UNCHANGED Unit(d)
            BY <2>3, <2>6, <2>7
        <3>2. CASE \E req \in Requests : Send(c, req)
            BY <1>1, <2>1, <2>2, <2>7, <3>1, <3>2, SendCalls DEF Calls!Next
        <3>3. CASE \E req \in Requests : Refuse(c, req)
            BY <1>1, <2>1, <2>2, <2>7, <3>1, <3>3, RefuseRefuses DEF Calls!Next
        <3>4. CASE Receive(c)
            BY <1>1, <2>1, <2>2, <2>7, <3>1, <3>4, ReceiveReturns DEF Calls!Next
        <3>5. ~(Expire(c) \/ Eof(c) \/ ReadRaises(c))
            BY <2>1, <2>7 DEF Expire, Eof, ReadRaises, GiveUp, Honest, Promises, InTime
        <3>6. CASE Connect(c) \/ Close(c) \/ ApplyDelay(c) \/ EndOfRequests(c)
            <4>1. link[c] = "left" \/ link[c] = "unconnected" => ~call[c].waiting
                BY DEF TypeOK, IInv, LinkInv, Accounted
            <4>2. call'[c] = call[c] /\ result'[c] = result[c]
                BY <3>6 DEF Connect, Close, ApplyDelay, EndOfRequests
            <4>3. call[c].waiting => toServer'[c] = toServer[c] /\ toClient'[c] = toClient[c]
                BY <3>6, <4>1 DEF Connect, Close, ApplyDelay, EndOfRequests
            <4>4. UNCHANGED View(c)
                BY <1>1, <4>2, <4>3, SameHonesty DEF View, Phase, Asked, Answered, Returned
            <4> QED
                BY <1>1, <2>2, <3>1, <4>4, Unseen
        <3> QED
            BY <1>4, <2>6, <2>7, <3>2, <3>3, <3>4, <3>5, <3>6 DEF ClientReturns, ServerStep
    <2> QED
        BY <2>4, <2>5, <2>7
<1> QED
    BY <1>2, <1>3, <1>4 DEF Next, Network

(***************************************************************************)
(* Linearizability, its safety part: every call takes effect at most once, *)
(* between its start and its return, and returns what the device said at   *)
(* that moment (client.py:85-149, server.py:83-103, simulated.py:52-142).  *)
(***************************************************************************)
THEOREM CallsTakeEffectOnce == Spec => Calls!Init /\ [][Calls!Next]_(Calls!vars)
<1>1. Init => Calls!Init
    BY InitCalls
<1>2. TypeOK /\ IInv /\ Promised /\ [Next]_vars => [Calls!Next]_(Calls!vars)
    BY StepCalls
<1> QED
    BY <1>1, <1>2, AlwaysPromised, PTL DEF Spec
==============================================================================
