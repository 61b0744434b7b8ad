---------------------------- MODULE UartSession ----------------------------
(***************************************************************************)
(* The endpoint driven the way the SITL transport drives it                *)
(* (aerolinkSitlTask: aerolinkEndpointUpdate, then the frames received)    *)
(* by a companion that speaks like SitlUartClient: a HELLO with a nonce of *)
(* its own, then heartbeats, mode requests and setpoints numbered per      *)
(* type.  The link may lose, delay, duplicate and reorder frames, and the  *)
(* companion may rebind or restart at any time.                            *)
(*                                                                         *)
(* A companion sends one HELLO with each nonce, but the endpoint compares  *)
(* a HELLO with the session it is in only: a second copy of an older one   *)
(* binds that session again, with empty sequence slots.                    *)
(*                                                                         *)
(* Bounds: MaxTime on the clock, which does not wrap here, MaxSent on the  *)
(* frames sent and MaxBindings on the HELLOs accepted.                     *)
(***************************************************************************)
EXTENDS AerolinkEndpoint, FiniteSets, Sequences

CONSTANTS
    MaxTime,
    MaxSent,
    MaxBindings,
    PeerSkew,     \* companion clock minus FC clock
    ModesAsked    \* the modes the companion requests

ASSUME BoundAssumption ==
    /\ MaxTime \in Nat /\ MaxTime < ClockMod
    /\ MaxSent \in Nat
    /\ MaxBindings \in Nat
    /\ PeerSkew \in Clock
    /\ ModesAsked \subseteq States

\* A session numbers fewer than 2^31 frames (SitlUartClient counts from zero):
\* beyond that a copy half the range old passes for a newer frame.
ASSUME NumberAssumption == 2 * MaxSent < SeqMod

\* 49 days less a TTL: from then on a frame as old as the clock is wide passes
\* for a fresh one.
ASSUME AgeAssumption == \A t \in Slots : MaxTime + TtlMax(t) < ClockMod

VARIABLES
    sent,         \* every frame sent, with the time it was; the link delivers
                  \* any of them any number of times, or never
    piSession,    \* SitlUartClient.session
    piSequence,   \* SitlUartClient.sequences
    serviced,     \* the 200 Hz task ran at this clock reading
    executed,     \* history: every control frame executed since boot, in order
    bound         \* history: how many HELLOs were accepted, when the last one
                  \* was and its link delay

link == <<sent, piSession, piSequence, serviced>>
history == <<executed, bound>>
allVars == <<vars, link, history>>

PiClock == Plus(now, PeerSkew, ClockMod)

SessionInit ==
    /\ Init
    /\ enabled
    /\ lines = {}
    /\ sent = {}
    /\ piSession = NoSession
    /\ piSequence = [t \in Slots |-> 0]
    /\ serviced = FALSE
    /\ executed = <<>>
    /\ bound = [number |-> 0, at |-> 0, delay |-> 0]

\* A session starts with an unused nonce; a restarted process counts its
\* sequence numbers from zero again, a rebinding one goes on.
Connect(n) ==
    /\ Cardinality(sent) < MaxSent
    /\ n \notin {f.nonce : f \in sent}
    /\ piSession' = n
    /\ piSequence' \in {piSequence, [t \in Slots |-> 0]}
    /\ sent' = sent \union
         {[type |-> "HELLO", nonce |-> n, uptimeMs |-> PiClock, ok |-> TRUE, sentAt |-> now]}
    /\ UNCHANGED <<vars, serviced, history>>

\* A frame of the companion's session carries the longest TTL of its type.
Send(t, m) ==
    /\ Cardinality(sent) < MaxSent
    /\ piSession # NoSession
    /\ piSequence' = [piSequence EXCEPT ![t] = @ + 1]
    /\ sent' = sent \union
         {[type |-> t, nonce |-> piSession, sequence |-> piSequence[t] + 1, uptimeMs |-> PiClock,
           ttl |-> TtlMax(t), ok |-> TRUE, mode |-> m, sentAt |-> now]}
    /\ UNCHANGED <<vars, piSession, serviced, history>>

\* The task first runs the watchdog ...
Service ==
    /\ Update
    /\ serviced' = TRUE
    /\ UNCHANGED <<sent, piSession, piSequence, history>>

\* ... then accepts what arrived, at the same clock reading.  The task never
\* asserts an override line (aerolink_sitl.c:55).
Bind(f) ==
    /\ bound.number < MaxBindings
    /\ AcceptHello(f)
    /\ bound' = [number |-> bound.number + 1, at |-> now, delay |-> now - f.sentAt]
    /\ UNCHANGED executed

Recorded(f) ==
    [type |-> f.type, nonce |-> f.nonce, sequence |-> f.sequence, mode |-> f.mode,
     ttl |-> f.ttl, age |-> now - f.sentAt, at |-> now,
     binding |-> bound.number, delay |-> bound.delay]

Execute(f) ==
    /\ AcceptControl(f)
    /\ executed' = Append(executed, Recorded(f))
    /\ UNCHANGED bound

Refuse(f) == RejectFrame(f) /\ UNCHANGED history

Deliver(f) ==
    /\ serviced
    /\ Bind(f) \/ Execute(f) \/ Refuse(f)
    /\ UNCHANGED link

\* The scheduler runs the task at least once between two clock readings.
Wait ==
    /\ serviced
    /\ now < MaxTime
    /\ Tick
    /\ serviced' = FALSE
    /\ UNCHANGED <<sent, piSession, piSequence, history>>

SessionNext ==
    \/ \E n \in Nonces : Connect(n)
    \/ \E t \in {"HEARTBEAT", "SET_STABILIZED_SETPOINT"} : Send(t, "STANDBY")
    \/ \E m \in ModesAsked : Send("SET_MODE", m)
    \/ Service
    \/ \E f \in sent : Deliver(f)
    \/ Wait

SessionSpec == SessionInit /\ [][SessionNext]_allVars

-----------------------------------------------------------------------------

\* What has been executed since the last HELLO.
Executed(t) ==
    {i \in DOMAIN executed : executed[i].binding = bound.number /\ executed[i].type = t}
ExecutedModes(m) == {i \in Executed("SET_MODE") : executed[i].mode = m}

\* Whatever the link duplicates, delays or reorders, a frame of a session is
\* executed again, or after a later one of its type, only when another session
\* was bound in between and a copy of the first one's HELLO bound it again;
\* since the last HELLO only frames of the session it bound were executed
\* (aerolink.c:78-93, :121-123, :132).
TwiceOnlyAfterRebinding ==
    /\ \A i, j \in DOMAIN executed :
         /\ i < j
         /\ executed[i].type = executed[j].type
         /\ executed[i].nonce = executed[j].nonce
         => \/ executed[i].sequence < executed[j].sequence
            \/ executed[i].binding + 1 < executed[j].binding
    /\ \A i \in DOMAIN executed :
         executed[i].binding = bound.number => executed[i].nonce = peerSession

\* The true age of an executed frame exceeded its TTL by at most the link
\* delay of the HELLO that had set the clock offset (aerolink.c:124, :134).
StalenessBounded ==
    \A i \in DOMAIN executed : executed[i].age <= executed[i].ttl + executed[i].delay

\* Authority is never inherited: what a session holds it asked for itself
\* since the HELLO that bound it, READY first and ACTIVE after that.  (Where a
\* copy of its HELLO bound it again, copies of its requests ask again.)
AuthorityWasCommanded ==
    /\ state \in {"READY", "DEGRADED", "ACTIVE"} => ExecutedModes("READY") # {}
    /\ state = "ACTIVE" =>
         \E i \in ExecutedModes("READY"), j \in ExecutedModes("ACTIVE") : i < j

\* When the watchdog spares READY or ACTIVE, a session older than the
\* heartbeat timeout has had a heartbeat executed within it; and when it
\* spares ACTIVE, a session older than the setpoint timeout has had a setpoint
\* executed within that (aerolink.c:161-162).
Recent(t, limit) == \E i \in Executed(t) : now - executed[i].at <= limit

WatchdogSparesOnlyFed ==
    [][Service =>
         /\ state' \in {"READY", "ACTIVE"} /\ now - bound.at > HeartbeatTimeout
              => Recent("HEARTBEAT", HeartbeatTimeout)
         /\ state' = "ACTIVE" /\ now - bound.at > SetpointTimeout
              => Recent("SET_STABILIZED_SETPOINT", SetpointTimeout)]_allVars
=============================================================================
