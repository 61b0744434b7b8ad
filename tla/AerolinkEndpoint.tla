-------------------------- MODULE AerolinkEndpoint --------------------------
(***************************************************************************)
(* The flight controller's AEROLINK endpoint (main/io/aerolink.c): session *)
(* binding, the checks every received frame passes, the control state      *)
(* machine and the watchdog that aerolinkEndpointUpdate runs.              *)
(*                                                                         *)
(* A frame is a record of what aerolinkEndpointAccept reads from its       *)
(* bytes.  `ok` stands for every length and range check of the frame's     *)
(* type; a control payload too short to hold a nonce carries NoSession.    *)
(* Frames aerolinkDecode refuses are the "DAMAGED" ones.  lastReject and   *)
(* the transition and rejection counters are written for telemetry only    *)
(* and left out: Verdict is the value the call returns.                    *)
(*                                                                         *)
(* Milliseconds and sequence numbers are unsigned and wrap, at ClockMod    *)
(* and SeqMod instead of 2^32.                                             *)
(***************************************************************************)
EXTENDS Integers

CONSTANTS
    Nonces,             \* session nonces a companion process can draw
    NoSession,          \* no HELLO accepted since boot
    NoSequence,         \* sequenceSeen[slot] is false
    ClockMod,           \* the millisecond clock counts modulo this
    SeqMod,             \* sequence numbers count modulo this
    HeartbeatTimeout,   \* config.heartbeatTimeoutMs, also the heartbeat TTL bound
    SetpointTimeout,    \* config.setpointTimeoutMs, also the setpoint TTL bound
    ModeTtlMax,         \* TTL bound of SET_MODE
    Uptimes,            \* sender clock readings that frames carry
    Sequences,          \* sequence numbers that frames carry
    Ttls                \* TTLs that frames carry

ASSUME NoSessionAssumption == NoSession \notin Nonces

ASSUME ClockAssumption ==
    /\ ClockMod \in Nat \ {0}
    /\ SeqMod \in Nat \ {0}
    /\ HeartbeatTimeout \in Nat
    /\ SetpointTimeout \in Nat
    /\ ModeTtlMax \in Nat
    /\ NoSequence \notin 0 .. SeqMod - 1

ASSUME FrameAssumption ==
    /\ Uptimes \subseteq 0 .. ClockMod - 1
    /\ Sequences \subseteq 0 .. SeqMod - 1
    /\ Ttls \subseteq Nat

VARIABLES
    enabled,            \* config.enabled, with config.vehicleId in 1..15
    state,
    peerSession,        \* NoSession until sessionBound
    lastSequence,       \* per slot, NoSequence until sequenceSeen
    lastHeartbeatAtMs,
    lastSetpointAtMs,
    peerClockOffsetMs,
    now,                \* the nowMs argument of the calls
    lines               \* the override arguments that are true

endpoint == <<enabled, state, peerSession, lastSequence, lastHeartbeatAtMs,
              lastSetpointAtMs, peerClockOffsetMs>>
vars == <<endpoint, now, lines>>

States == {"DISABLED", "STANDBY", "READY", "ACTIVE", "DEGRADED", "ABORTING", "FAULT"}
Lines == {"disarm", "rc", "safety"}
Clock == 0 .. ClockMod - 1

\* The types a bound session can execute; each has a sequence slot of its own.
Slots == {"HEARTBEAT", "SET_MODE", "SET_STABILIZED_SETPOINT"}

HelloFrames ==
    [type : {"HELLO"}, nonce : Nonces, uptimeMs : Uptimes, ok : BOOLEAN]
ModeFrames ==
    [type : {"SET_MODE"}, nonce : Nonces \union {NoSession}, sequence : Sequences,
     uptimeMs : Uptimes, ttl : Ttls, ok : BOOLEAN, mode : States]
OtherFrames ==
    [type : {"HEARTBEAT", "SET_STABILIZED_SETPOINT", "SET_PAYLOAD_STATE"},
     nonce : Nonces \union {NoSession}, sequence : Sequences,
     uptimeMs : Uptimes, ttl : Ttls, ok : BOOLEAN]
DamagedFrames == [type : {"DAMAGED"}]
Frames == HelloFrames \union ModeFrames \union OtherFrames \union DamagedFrames

-----------------------------------------------------------------------------

\* A slip the properties must expose: subtracting without the wrap.
MinusSigned(a, b, m) == a - b

\* Unsigned subtraction a - b of two readings counted modulo m.
Minus(a, b, m) == IF a >= b THEN a - b ELSE a - b + m

Plus(a, b, m) == IF a + b < m THEN a + b ELSE a + b - m

\* The (int32_t) cast of an unsigned difference.
Signed(d) == IF 2 * d < ClockMod THEN d ELSE d - ClockMod

\* The age of a control frame on this clock, from the offset HELLO set.
Age(f) == Signed(Minus(now, Plus(f.uptimeMs, peerClockOffsetMs, ClockMod), ClockMod))

TtlMax(type) ==
    CASE type = "HEARTBEAT" -> HeartbeatTimeout
      [] type = "SET_MODE" -> ModeTtlMax
      [] OTHER -> SetpointTimeout

\* Slips the properties must expose: no session check, no age check, a HELLO
\* of the session in use bound again, the READY rung skipped, and a watchdog
\* that forgets READY.
AnySession == TRUE
TtlOnly(f) == f.ttl # 0
RepeatedHelloBinds(f) ==
    /\ enabled
    /\ f.type = "HELLO"
    /\ f.ok
    /\ peerSession' = f.nonce
    /\ lastSequence' = [s \in Slots |-> NoSequence]
    /\ peerClockOffsetMs' = Minus(now, f.uptimeMs, ClockMod)
    /\ state' = "STANDBY"
    /\ UNCHANGED <<enabled, lastHeartbeatAtMs, lastSetpointAtMs, now, lines>>
ReadySkipped(from, to) ==
    to \in {"DISABLED", "ABORTING", "FAULT"} \/ from = "STANDBY" \/ to = "STANDBY"
WatchdogForgetsReady ==
    IF ~enabled \/ "disarm" \in lines THEN "DISABLED"
    ELSE IF state # "ACTIVE" THEN state
    ELSE IF Minus(now, lastHeartbeatAtMs, ClockMod) > HeartbeatTimeout THEN "ABORTING"
    ELSE IF Minus(now, lastSetpointAtMs, ClockMod) > SetpointTimeout THEN "DEGRADED"
    ELSE state

SequenceValidate(f) ==
    LET last  == lastSequence[f.type]
        delta == Minus(f.sequence, last, SeqMod)
    IN  IF last = NoSequence THEN "OK"
        ELSE IF delta = 0 THEN "DUPLICATE"
        ELSE IF 2 * delta >= SeqMod THEN "REORDERED"
        ELSE "OK"

TransitionAllowed(from, to) ==
    \/ to \in {"DISABLED", "ABORTING", "FAULT"}
    \/ <<from, to>> \in
         { <<"DISABLED", "STANDBY">>, <<"STANDBY", "READY">>, <<"READY", "STANDBY">>,
           <<"READY", "ACTIVE">>, <<"ACTIVE", "READY">>, <<"ACTIVE", "DEGRADED">>,
           <<"DEGRADED", "READY">>, <<"ABORTING", "STANDBY">> }

SessionBound == peerSession # NoSession

OfSession(f) == f.nonce = peerSession

Fresh(f) == f.ttl # 0 /\ -f.ttl <= Age(f) /\ Age(f) <= f.ttl

\* What aerolinkEndpointAccept answers to a control frame of the bound
\* session once no override line is asserted.
ControlVerdict(f) ==
    IF ~OfSession(f) THEN "SESSION_MISMATCH"
    ELSE IF ~Fresh(f) THEN "STALE"
    ELSE IF f.type \notin Slots THEN "FEATURE_DISABLED"
    ELSE IF SequenceValidate(f) # "OK" THEN SequenceValidate(f)
    ELSE IF ~f.ok \/ f.ttl > TtlMax(f.type) THEN "OUT_OF_RANGE"
    ELSE IF f.type = "SET_MODE" /\ ~TransitionAllowed(state, f.mode) THEN "INVALID_STATE"
    ELSE IF f.type = "SET_STABILIZED_SETPOINT" /\ state # "ACTIVE" THEN "INVALID_STATE"
    ELSE "OK"

-----------------------------------------------------------------------------

\* aerolinkEndpointInit: zeroed memory; config decides once and for all
\* whether the endpoint listens.
Init ==
    /\ enabled \in BOOLEAN
    /\ state = "DISABLED"
    /\ peerSession = NoSession
    /\ lastSequence = [s \in Slots |-> NoSequence]
    /\ lastHeartbeatAtMs = 0
    /\ lastSetpointAtMs = 0
    /\ peerClockOffsetMs = 0
    /\ now = 0
    /\ lines \in SUBSET Lines

\* HELLO is handled before the session and override checks.  The nonce in
\* use cannot be bound again; a new one starts in STANDBY.
AcceptHello(f) ==
    /\ enabled
    /\ f.type = "HELLO"
    /\ f.ok
    /\ f.nonce # peerSession
    /\ peerSession' = f.nonce
    /\ lastSequence' = [s \in Slots |-> NoSequence]
    /\ peerClockOffsetMs' = Minus(now, f.uptimeMs, ClockMod)
    /\ state' = "STANDBY"
    /\ UNCHANGED <<enabled, lastHeartbeatAtMs, lastSetpointAtMs, now, lines>>

\* A decodable control frame of a bound session that meets an asserted line
\* is refused, and the line takes effect at once: disarm before RC before
\* safety.
AcceptOverridden(f) ==
    /\ enabled
    /\ f.type \notin {"HELLO", "DAMAGED"}
    /\ SessionBound
    /\ lines # {}
    /\ state' = IF "disarm" \in lines THEN "DISABLED"
                ELSE IF "rc" \in lines THEN (IF state = "ACTIVE" THEN "READY" ELSE state)
                ELSE "FAULT"
    /\ UNCHANGED <<enabled, peerSession, lastSequence, lastHeartbeatAtMs,
                   lastSetpointAtMs, peerClockOffsetMs, now, lines>>

\* A control frame that passes every check is executed and its sequence
\* number committed.
Executes(f) ==
    /\ enabled
    /\ f.type \in Slots
    /\ SessionBound
    /\ lines = {}
    /\ ControlVerdict(f) = "OK"

AcceptControl(f) ==
    /\ Executes(f)
    /\ state' = IF f.type = "SET_MODE" THEN f.mode ELSE state
    /\ lastHeartbeatAtMs' = IF f.type = "HEARTBEAT" THEN now ELSE lastHeartbeatAtMs
    /\ lastSetpointAtMs' = IF f.type = "SET_STABILIZED_SETPOINT" THEN now ELSE lastSetpointAtMs
    /\ lastSequence' = [lastSequence EXCEPT ![f.type] = f.sequence]
    /\ UNCHANGED <<enabled, peerSession, peerClockOffsetMs, now, lines>>

\* Every other frame is refused and changes nothing.
RejectFrame(f) ==
    /\ \/ ~enabled
       \/ f.type = "DAMAGED"
       \/ f.type = "HELLO" /\ (~f.ok \/ f.nonce = peerSession)
       \/ f.type \notin {"HELLO", "DAMAGED"} /\ ~SessionBound
       \/ f.type \notin {"HELLO", "DAMAGED"} /\ lines = {} /\ ControlVerdict(f) # "OK"
    /\ UNCHANGED vars

\* aerolinkEndpointUpdate: overrides first (safety before RC here), then the
\* heartbeat watchdog of READY and ACTIVE, then the setpoint watchdog.
UpdatedState ==
    IF ~enabled \/ "disarm" \in lines THEN "DISABLED"
    ELSE IF "safety" \in lines THEN "FAULT"
    ELSE IF "rc" \in lines /\ state = "ACTIVE" THEN "READY"
    ELSE IF /\ state \in {"READY", "ACTIVE"}
            /\ Minus(now, lastHeartbeatAtMs, ClockMod) > HeartbeatTimeout THEN "ABORTING"
    ELSE IF /\ state = "ACTIVE"
            /\ Minus(now, lastSetpointAtMs, ClockMod) > SetpointTimeout THEN "DEGRADED"
    ELSE state

Update ==
    /\ state' = UpdatedState
    /\ UNCHANGED <<enabled, peerSession, lastSequence, lastHeartbeatAtMs,
                   lastSetpointAtMs, peerClockOffsetMs, now, lines>>

\* The pilot and the FC safety logic assert and release lines at any time.
SetLines ==
    /\ lines' \in SUBSET Lines
    /\ UNCHANGED <<endpoint, now>>

Tick ==
    /\ now' = Plus(now, 1, ClockMod)
    /\ UNCHANGED <<endpoint, lines>>

Accept(f) ==
    AcceptHello(f) \/ AcceptOverridden(f) \/ AcceptControl(f) \/ RejectFrame(f)

Next ==
    \/ \E f \in Frames : Accept(f)
    \/ Update
    \/ SetLines
    \/ Tick

Spec == Init /\ [][Next]_vars

-----------------------------------------------------------------------------

\* Every variable keeps the type its C declaration gives it.
TypeOK ==
    /\ enabled \in BOOLEAN
    /\ state \in States
    /\ peerSession \in Nonces \union {NoSession}
    /\ lastSequence \in [Slots -> (0 .. SeqMod - 1) \union {NoSequence}]
    /\ lastHeartbeatAtMs \in Clock
    /\ lastSetpointAtMs \in Clock
    /\ peerClockOffsetMs \in Clock
    /\ now \in Clock
    /\ lines \in SUBSET Lines

\* Without a HELLO since boot, or with the feature off, no sequence of frames,
\* overrides and watchdog runs gets the endpoint out of the states that hold
\* no authority (the gates of aerolink.c:114 and :128).
PowerNeedsSession ==
    /\ peerSession = NoSession => state \in {"DISABLED", "FAULT"}
    /\ ~enabled => state = "DISABLED" /\ peerSession = NoSession

\* The endpoint implements the authority promise: one rung at a time, only in
\* the bound session, never under an override line, and a new session starts
\* from STANDBY whatever the old one had reached.
Authority == INSTANCE AuthoritySpec
AuthorityPromise == Authority!Spec
=============================================================================
