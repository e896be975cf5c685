------------------------ MODULE DeviceLinkRefinement ------------------------
(***************************************************************************)
(* When nothing corrupts, drops or outwaits a reply, the clients, streams  *)
(* and handlers of DeviceLink are a linearizable call to the device, also  *)
(* for several clients that share one.                                     *)
(***************************************************************************)
EXTENDS DeviceLinkProperties

\* The others are mapped to a client that never calls.
Honest(c) == Dependable(c) /\ ~Has(c, "crc_corrupt")

HonestDevice(d) == \A c \in ClientsOf(d) : Honest(c)

\* What the call of a client looks like from the device.
Phase(c) == IF ~Honest(c) \/ ~call[c].waiting THEN "idle"
            ELSE IF toServer[c] # <<>> THEN "called" ELSE "effective"

Asked(c) == IF Phase(c) = "idle" THEN Frame(0, "-", 0, 0) ELSE call[c].req

Answered(c) == IF Phase(c) = "effective" THEN Head(toClient[c]).reply ELSE NoReply

Returned(c) ==
    IF Honest(c)
    THEN [what |-> result[c].what, words |-> result[c].words, code |-> result[c].code]
    ELSE [what |-> "none", words |-> <<>>, code |-> "-"]

Registers(d) == IF HonestDevice(d) THEN holding[d] ELSE Profile[d].holding
Counter(d)   == IF HonestDevice(d) THEN count[d] ELSE 0

Calls == INSTANCE RemoteCalls WITH
    holding  <- [d \in Device |-> Registers(d)],
    count    <- [d \in Device |-> Counter(d)],
    phase    <- [c \in Client |-> Phase(c)],
    asked    <- [c \in Client |-> Asked(c)],
    answer   <- [c \in Client |-> Answered(c)],
    returned <- [c \in Client |-> Returned(c)]

(***************************************************************************)
(* Every call takes effect once between its start and its return, returns  *)
(* what the device said then, and does return (client.py:85-149,           *)
(* server.py:83-103, simulated.py:52-142).                                 *)
(***************************************************************************)
Linearizable == Calls!Spec
==============================================================================
