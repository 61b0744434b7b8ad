--------------------------- MODULE VehicleService ---------------------------
(***************************************************************************)
(* A vehicle's Pi service (service.py, fleet.py) between the server's      *)
(* packets and the flight controller: the packet validator, the bounded    *)
(* queue, the tick that executes it, the mission machine and the UART      *)
(* watchdog.  The peer is FakeFc, the FC the repository runs it against.   *)
(*                                                                         *)
(* One thread calls receive_server, connect_fc and tick, so nothing comes  *)
(* between the packets of a tick but what happens outside the process: the *)
(* server sends, the FC or its line fails, the process itself dies.  A     *)
(* tick is one step for each packet it takes and one for its end.          *)
(*                                                                         *)
(* The LAN may lose, delay, duplicate and reorder the packets in `lan`.    *)
(* Packets the validator refuses for version, identity, size or signature  *)
(* never get further and are not sent here, and the payloads are well      *)
(* formed: a malformed one raises out of tick as a forbidden one does.     *)
(* The UART sequence counter, the event log and setpoint values are left   *)
(* out: nothing decides on them.                                           *)
(*                                                                         *)
(* Bounds: MaxTime on the clock, MaxPackets on the packets sent,           *)
(* MaxSessions on FC sessions, MaxRestarts on restarts of the service.     *)
(***************************************************************************)
EXTENDS Integers, Sequences, FiniteSets

CONSTANTS
    Asked,           \* mission states the server asks for
    Kinds,           \* ALLOWED_KINDS, or those the server uses
    Ttl,             \* p.ttl_ms
    Tolerance,       \* how far ahead issued_ms may be
    ServerBehind,    \* how far the server's clock is behind the Pi's
    UartTimeout,     \* 300 ms
    QueueLimit,      \* queue_limit
    MaxTime, MaxPackets, MaxSessions, MaxRestarts

ASSUME ServiceAssumption ==
    /\ Ttl \in Nat \ {0} /\ Tolerance \in Nat /\ ServerBehind \in Int /\ UartTimeout \in Nat
    /\ QueueLimit \in Nat \ {0}
    /\ Kinds \subseteq {"ASSIGN", "TRANSITION", "SETPOINT", "ABORT", "PING"}
    /\ {MaxTime, MaxPackets, MaxRestarts} \subseteq Nat
    /\ MaxSessions \in Nat \ {0}

VARIABLES
    now,
    lan,           \* every packet the server sent
    epoch, last,   \* FleetValidator.epoch, .last_sequence
    queue,         \* accepted packets, each with the FC session it came in
    state,         \* the mission state
    healthy, lastSeen,     \* FcCache
    session,       \* VehicleService.session, numbered as drawn
    drawn,         \* nonces drawn so far
    peer,          \* FakeFc: online, and the session it is bound to
    restarts,
    ticking,       \* inside tick
    handled,       \* history: the numbers of packets taken from the queue by this process
    path,          \* history: mission states of this process, in order
    forwarded      \* history: setpoints the FC took from this process

service == <<epoch, last, queue, state, healthy, lastSeen, session>>
history == <<handled, path, forwarded>>
vars == <<now, lan, service, drawn, peer, restarts, ticking, history>>

MissionStates ==
    {"IDLE", "AUTHORIZED", "LAUNCH", "FORM", "TRANSIT_TO_LOCKER", "PICKUP",
     "TRANSIT_TO_DESTINATION", "DELIVER", "RETURN", "LAND", "ABORT", "FAULT"}

\* TRANSITIONS
Transitions ==
    { <<"IDLE", "AUTHORIZED">>, <<"AUTHORIZED", "LAUNCH">>, <<"LAUNCH", "FORM">>,
      <<"FORM", "TRANSIT_TO_LOCKER">>, <<"TRANSIT_TO_LOCKER", "PICKUP">>,
      <<"PICKUP", "TRANSIT_TO_DESTINATION">>, <<"TRANSIT_TO_DESTINATION", "DELIVER">>,
      <<"DELIVER", "RETURN">>, <<"RETURN", "LAND">>, <<"LAND", "IDLE">>,
      <<"ABORT", "LAND">>, <<"ABORT", "FAULT">>, <<"FAULT", "IDLE">> }
    \union {<<s, "ABORT">> : s \in MissionStates \ {"IDLE", "LAND", "ABORT", "FAULT"}}

Number(p) == <<p.epoch, p.sequence>>
Before(m, n) == m[1] < n[1] \/ (m[1] = n[1] /\ m[2] < n[2])

\* Slips the properties must expose: setpoints followed while aborting; a
\* repeat taken for a new packet; a queue that survives a new session.
FlightOrAbort ==
    {"LAUNCH", "FORM", "TRANSIT_TO_LOCKER", "TRANSIT_TO_DESTINATION", "RETURN", "LAND", "ABORT"}
RepeatAccepted(p) == p.epoch > epoch \/ (p.epoch = epoch /\ p.sequence >= last)
QueueKept == queue

\* The mission states in which a setpoint is forwarded.
FlightStates ==
    {"LAUNCH", "FORM", "TRANSIT_TO_LOCKER", "TRANSIT_TO_DESTINATION", "RETURN", "LAND"}

-----------------------------------------------------------------------------

\* The slip of a queue that survives a restart.
FreshKept ==
    /\ epoch' = 0 /\ last' = -1
    /\ state' = "IDLE"
    /\ healthy' = FALSE /\ lastSeen' = 0
    /\ ticking' = FALSE
    /\ handled' = <<>> /\ path' = <<"IDLE">> /\ forwarded' = <<>>
    /\ UNCHANGED queue

\* A new process: the validator starts from nothing, the FC is unknown.
Fresh ==
    /\ epoch' = 0 /\ last' = -1
    /\ queue' = <<>>
    /\ state' = "IDLE"
    /\ healthy' = FALSE /\ lastSeen' = 0
    /\ ticking' = FALSE
    /\ handled' = <<>> /\ path' = <<"IDLE">> /\ forwarded' = <<>>

Init ==
    /\ now = 0
    /\ lan = {}
    /\ epoch = 0 /\ last = -1
    /\ queue = <<>>
    /\ state = "IDLE"
    /\ healthy = FALSE /\ lastSeen = 0
    /\ session = 1
    /\ drawn = 1
    /\ peer = [online |-> TRUE, session |-> 0]
    /\ restarts = 0
    /\ ticking = FALSE
    /\ handled = <<>> /\ path = <<"IDLE">> /\ forwarded = <<>>

\* What accept asks of a packet it can authenticate.
Timely(p) == p.issued <= now + Tolerance /\ now - p.issued <= Ttl
NotReplayed(p) == p.epoch > epoch \/ (p.epoch = epoch /\ p.sequence > last)

\* receive_server.  The validator has taken the number before the queue is
\* found full, so the packet is then gone for good.
ReceiveServer(p) ==
    /\ ~ticking
    /\ Timely(p)
    /\ NotReplayed(p)
    /\ epoch' = p.epoch
    /\ last' = p.sequence
    /\ queue' = IF Len(queue) = QueueLimit THEN queue
                ELSE Append(queue, [packet |-> p, session |-> peer.session])
    /\ UNCHANGED <<now, lan, state, healthy, lastSeen, session, drawn, peer, restarts, ticking, history>>

\* A queue survives no successful handshake.
QueueCleared == <<>>

\* connect_fc: a nonce never used before; when the FC is offline the call
\* raises with the nonce drawn and nothing else changed.
ConnectFc ==
    /\ ~ticking
    /\ drawn < MaxSessions
    /\ drawn' = drawn + 1
    /\ session' = drawn + 1
    /\ IF peer.online
       THEN /\ peer' = [peer EXCEPT !.session = drawn + 1]
            /\ healthy' = TRUE
            /\ lastSeen' = now
            /\ queue' = QueueCleared
       ELSE UNCHANGED <<peer, healthy, lastSeen, queue>>
    /\ UNCHANGED <<now, lan, epoch, last, state, restarts, ticking, history>>

-----------------------------------------------------------------------------

\* The FC has not been heard of for too long.
Silent == healthy /\ now - lastSeen > UartTimeout

\* A tick with nothing to do changes nothing and is not a step.
Begin ==
    /\ ~ticking
    /\ queue # <<>> \/ Silent
    /\ ticking' = TRUE
    /\ UNCHANGED <<now, lan, service, drawn, peer, restarts, history>>

\* The loop takes the packet at the head of the queue.
Take(kind) ==
    /\ ticking
    /\ queue # <<>>
    /\ Head(queue).packet.kind = kind
    /\ queue' = Tail(queue)
    /\ handled' = Append(handled, Number(Head(queue).packet))
    /\ UNCHANGED <<now, lan, epoch, last, healthy, lastSeen, session, drawn, peer, restarts>>

Enter(new) == state' = new /\ path' = Append(path, new)

\* A packet that raises ends the tick; those behind it stay in the queue.
Raise == ticking' = FALSE /\ UNCHANGED <<state, path, forwarded>>

\* _transition
Transition(new) ==
    IF <<state, new>> \in Transitions
    THEN Enter(new) /\ UNCHANGED <<ticking, forwarded>>
    ELSE Raise

TakeAssign == Take("ASSIGN") /\ Transition("AUTHORIZED")

TakeTransition == Take("TRANSITION") /\ Transition(Head(queue).packet.asked)

TakeAbort == Take("ABORT") /\ Enter("ABORT") /\ UNCHANGED <<ticking, forwarded>>

\* The FC refuses a setpoint when it is offline or bound to another session.
TakeSetpoint ==
    /\ Take("SETPOINT")
    /\ IF state \in FlightStates /\ peer.online /\ peer.session = session
       THEN /\ forwarded' = Append(forwarded,
                  [received |-> Head(queue).session, session |-> session, after |-> Len(path)])
            /\ UNCHANGED <<ticking, state, path>>
       ELSE Raise

TakePing == Take("PING") /\ UNCHANGED <<ticking, state, path, forwarded>>

\* The queue is empty: the UART watchdog, which a raise would have skipped.
End ==
    /\ ticking
    /\ queue = <<>>
    /\ ticking' = FALSE
    /\ IF Silent THEN Enter("ABORT") ELSE UNCHANGED <<state, path>>
    /\ healthy' = (healthy /\ ~Silent)
    /\ UNCHANGED <<now, lan, epoch, last, queue, lastSeen, session, drawn, peer, restarts,
                   handled, forwarded>>

Tick == Begin \/ TakeAssign \/ TakeTransition \/ TakeAbort \/ TakeSetpoint \/ TakePing \/ End

-----------------------------------------------------------------------------

\* The server numbers its packets within an epoch; a restarted one starts a
\* new epoch.
Newest == {p \in lan : \A q \in lan \ {p} : Before(Number(q), Number(p))}
NextNumbers ==
    IF lan = {} THEN {<<1, 1>>}
    ELSE UNION {{<<p.epoch, p.sequence + 1>>, <<p.epoch + 1, 1>>} : p \in Newest}

ServerSend(kind, asked) ==
    /\ Cardinality(lan) < MaxPackets
    /\ \E n \in NextNumbers :
         lan' = lan \union {[epoch |-> n[1], sequence |-> n[2], issued |-> now - ServerBehind,
                             kind |-> kind, asked |-> asked]}
    /\ UNCHANGED <<now, service, drawn, peer, restarts, ticking, history>>

\* The UART goes and comes; a restarted FC has no session.
FcLine ==
    /\ \/ peer' = [peer EXCEPT !.online = ~@]
       \/ (peer.session # 0 /\ peer' = [peer EXCEPT !.session = 0])
    /\ UNCHANGED <<now, lan, service, drawn, restarts, ticking, history>>

PiRestart ==
    /\ restarts < MaxRestarts
    /\ drawn < MaxSessions
    /\ restarts' = restarts + 1
    /\ drawn' = drawn + 1
    /\ session' = drawn + 1
    /\ Fresh
    /\ UNCHANGED <<now, lan, peer>>

Wait ==
    /\ ~ticking
    /\ now < MaxTime
    /\ now' = now + 1
    /\ UNCHANGED <<lan, service, drawn, peer, restarts, ticking, history>>

Next ==
    \/ \E p \in lan : ReceiveServer(p)
    \/ ConnectFc
    \/ Tick
    \/ \E kind \in Kinds : kind # "TRANSITION" /\ ServerSend(kind, "IDLE")
    \/ \E asked \in Asked : "TRANSITION" \in Kinds /\ ServerSend("TRANSITION", asked)
    \/ FcLine
    \/ PiRestart
    \/ Wait

Spec == Init /\ [][Next]_vars

-----------------------------------------------------------------------------

Packets == [epoch : Nat, sequence : Nat, issued : Int, kind : Kinds,
            asked : Asked \union {"IDLE"}]
Setpoints == [received : Nat, session : Nat, after : Nat]

\* Types, and the facts of the queue that need the whole history: it is
\* within its limit and holds packets the server sent, none of them newer
\* than what the validator has taken.
TypeOK ==
    /\ now \in 0..MaxTime /\ lastSeen \in 0..now
    /\ lan \subseteq Packets
    /\ epoch \in Nat /\ last \in Nat \union {-1}
    /\ queue \in Seq([packet : lan, session : 0..drawn])
    /\ Len(queue) <= QueueLimit
    /\ \A i \in 1..Len(queue) : ~Before(<<epoch, last>>, Number(queue[i].packet))
    /\ state \in MissionStates
    /\ healthy \in BOOLEAN
    /\ session \in 1..drawn /\ drawn \in 1..MaxSessions
    /\ peer \in [online : BOOLEAN, session : 0..drawn]
    /\ restarts \in 0..MaxRestarts
    /\ ticking \in BOOLEAN
    /\ handled \in Seq(Nat \X Nat)
    /\ path \in Seq(MissionStates) /\ path # <<>> /\ path[Len(path)] = state
    /\ forwarded \in Seq(Setpoints)

\* However the LAN repeats and reorders packets, a process executes each at
\* most once and in the order the server numbered them, and what still waits
\* comes after what was executed: across the queue and its overflow, a packet
\* that raises and those behind it, and a reconnection (fleet.py accept,
\* service.py receive_server and tick).
HandledOnceInOrder ==
    LET taken == handled \o [i \in 1..Len(queue) |-> Number(queue[i].packet)]
    IN  \A i, j \in 1..Len(taken) : i < j => Before(taken[i], taken[j])

\* A setpoint reaches the FC only in the FC session in which the server's
\* packet was taken in: what was queued before a new session, or before the
\* FC restarted, is not flown after it (connect_fc clears the queue).
ForwardedInItsSession ==
    \A i \in 1..Len(forwarded) : forwarded[i].received = forwarded[i].session

\* Once the mission was aborted, by the server or by the watchdog, the FC
\* gets no setpoint until the vehicle lands or is back at IDLE, whatever the
\* server asks for and whatever was queued.
AbortStopsFlight ==
    \A i \in 1..Len(forwarded) : \A k \in 1..forwarded[i].after :
        path[k] = "ABORT" =>
            \/ path[forwarded[i].after] = "LAND"
            \/ \E m \in k..forwarded[i].after : path[m] = "IDLE"
=============================================================================
