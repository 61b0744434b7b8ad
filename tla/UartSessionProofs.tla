-------------------------- MODULE UartSessionProofs --------------------------
(***************************************************************************)
(* What a session between the companion and the endpoint guarantees over   *)
(* a link that loses, delays, duplicates and reorders: for any number of   *)
(* nonces and frames, any timeouts, any skew of the clocks and any modes   *)
(* asked for.                                                              *)
(***************************************************************************)
EXTENDS UartSession, FiniteSetTheorems, TLAPS

Hellos == [type : {"HELLO"}, nonce : Nonces, uptimeMs : Clock, ok : {TRUE}, sentAt : Nat]
Controls ==
    [type : Slots, nonce : Nonces, sequence : 1 .. MaxSent, uptimeMs : Clock, ttl : Nat,
     ok : {TRUE}, mode : States, sentAt : Nat]
Records ==
    [type : Slots, nonce : Nonces, sequence : 1 .. MaxSent, mode : States, ttl : Nat,
     age : Int, at : Nat, binding : Nat, delay : Nat]

\* The endpoint of an enabled vehicle with no line asserted, on a clock that
\* has not wrapped.
EndpointType ==
    /\ enabled /\ lines = {}
    /\ state \in States
    /\ peerSession \in Nonces \union {NoSession}
    /\ lastSequence \in [Slots -> (1 .. MaxSent) \union {NoSequence}]
    /\ now \in 0 .. MaxTime
    /\ lastHeartbeatAtMs \in 0 .. now
    /\ lastSetpointAtMs \in 0 .. now

HistoryType ==
    /\ executed \in Seq(Records)
    /\ bound \in [number : Nat, at : 0 .. now, delay : Nat] /\ bound.delay <= bound.at

\* What the companion has sent.
SentType ==
    /\ IsFiniteSet(sent) /\ Cardinality(sent) <= MaxSent
    /\ sent \subseteq Hellos \union Controls
    /\ \A f \in sent : /\ f.sentAt <= now
                       /\ f.uptimeMs = Plus(f.sentAt, PeerSkew, ClockMod)
                       /\ f.type \in Slots => f.ttl = TtlMax(f.type)

\* No number is used twice in a session, and none exceeds the frames sent.
NumbersInv ==
    /\ piSession \in Nonces \union {NoSession}
    /\ piSequence \in [Slots -> Nat]
    /\ \A t \in Slots : piSequence[t] <= Cardinality(sent)
    /\ \A f \in sent : f.type \in Slots /\ f.nonce = piSession =>
           f.sequence <= piSequence[f.type]

TypeInv == EndpointType /\ HistoryType /\ SentType /\ NumbersInv

\* What was executed since the last HELLO is the session's own, and no number
\* of it is above lastSequence; what was executed between the last two HELLOs
\* belongs to another session.
OrderInv ==
    \A i \in DOMAIN executed :
        LET x == executed[i] IN
        /\ x.binding <= bound.number
        /\ x.binding = bound.number =>
             /\ x.nonce = peerSession
             /\ lastSequence[x.type] # NoSequence
             /\ x.sequence <= lastSequence[x.type]
        /\ x.binding + 1 = bound.number => x.nonce # peerSession

\* The clock offset is the skew less the delay of the HELLO it comes from.
OffsetInv ==
    peerSession # NoSession =>
        peerClockOffsetMs =
            Minus(bound.at, Plus(bound.at - bound.delay, PeerSkew, ClockMod), ClockMod)

\* The watchdog's times are those of frames executed in this session, or older
\* than it.
FedInv ==
    /\ lastHeartbeatAtMs <= bound.at
         \/ \E i \in Executed("HEARTBEAT") : executed[i].at = lastHeartbeatAtMs
    /\ lastSetpointAtMs <= bound.at
         \/ \E i \in Executed("SET_STABILIZED_SETPOINT") : executed[i].at = lastSetpointAtMs

-----------------------------------------------------------------------------

\* The endpoint executes f, as the session sees it.
Runs(f) ==
    /\ f \in sent /\ f \in Controls
    /\ AcceptControl(f)
    /\ peerSession' = peerSession
    /\ executed' = Append(executed, Recorded(f))
    /\ UNCHANGED <<link, bound>>

\* The endpoint binds the session of f.
Binds(f) ==
    /\ f \in sent /\ f \in Hellos
    /\ AcceptHello(f)
    /\ peerSession' # peerSession
    /\ executed' = executed
    /\ bound' = [number |-> bound.number + 1, at |-> now, delay |-> now - f.sentAt]
    /\ UNCHANGED link

\* A frame is executed, binds a session or changes nothing.
LEMMA DeliverCases ==
    ASSUME TypeInv, NEW f \in sent, Deliver(f)
    PROVE  Runs(f) \/ Binds(f) \/ UNCHANGED allVars
<1>1. f \in Hellos \/ f \in Controls
  BY DEF TypeInv, SentType
<1>2. CASE Bind(f)
  <2>1. f \in Hellos /\ peerSession' # peerSession
    BY <1>1, <1>2 DEF Bind, AcceptHello, Controls, Slots
  <2> QED
    BY <1>2, <2>1 DEF Deliver, Bind, Binds
<1>3. CASE Execute(f)
  <2>1. f \in Controls /\ peerSession' = peerSession
    BY <1>1, <1>3 DEF Execute, AcceptControl, Executes, Hellos, Slots
  <2> QED
    BY <1>3, <2>1 DEF Deliver, Execute, Runs
<1>4. CASE Refuse(f)
  BY <1>4 DEF Deliver, Refuse, RejectFrame, allVars
<1> QED
  BY <1>2, <1>3, <1>4 DEF Deliver

\* The initial states have their types.
LEMMA TypeInitial == SessionInit => TypeInv
<1> SUFFICES ASSUME SessionInit PROVE TypeInv
  OBVIOUS
<1>1. EndpointType
  BY BoundAssumption DEF SessionInit, Init, EndpointType, States
<1>2. HistoryType
  BY <1>1, BoundAssumption DEF SessionInit, Init, HistoryType
<1>3. SentType
  BY FS_EmptySet, BoundAssumption DEF SessionInit, SentType
<1>4. NumbersInv
  BY FS_EmptySet DEF SessionInit, NumbersInv, Slots
<1> QED
  BY <1>1, <1>2, <1>3, <1>4 DEF TypeInv

\* What the companion sends keeps the types.
LEMMA SendingKeepsType ==
    ASSUME TypeInv,
           \/ \E n \in Nonces : Connect(n)
           \/ \E t \in Slots, m \in States : Send(t, m)
    PROVE  TypeInv'
<1>1. EndpointType' /\ HistoryType'
  BY DEF Connect, Send, TypeInv, EndpointType, HistoryType, vars, endpoint, history
<1>2. now \in Clock /\ now \in Nat /\ PiClock \in Clock /\ now' = now
  BY BoundAssumption, ClockAssumption
  DEF TypeInv, EndpointType, Clock, PiClock, Plus, Connect, Send, vars
<1>3. ASSUME NEW n \in Nonces, Connect(n) PROVE SentType' /\ NumbersInv'
  <2> DEFINE f == [type |-> "HELLO", nonce |-> n, uptimeMs |-> PiClock, ok |-> TRUE, sentAt |-> now]
  <2>1. f \in Hellos /\ f.sentAt <= now /\ f.uptimeMs = Plus(f.sentAt, PeerSkew, ClockMod)
        /\ f.type \notin Slots
    BY <1>2 DEF Hellos, Slots, PiClock
  <2>2. sent' = sent \union {f}
    BY <1>3 DEF Connect
  <2>3. IsFiniteSet(sent') /\ Cardinality(sent') \in Nat /\ Cardinality(sent) \in Nat
        /\ Cardinality(sent) <= Cardinality(sent') /\ Cardinality(sent') <= MaxSent
    <3> HIDE DEF f
    <3>1. IsFiniteSet(sent) /\ Cardinality(sent) \in Nat /\ Cardinality(sent) < MaxSent
      BY <1>3, FS_CardinalityType DEF Connect, TypeInv, SentType
    <3>2. /\ IsFiniteSet(sent \union {f})
          /\ \/ Cardinality(sent \union {f}) = Cardinality(sent)
             \/ Cardinality(sent \union {f}) = Cardinality(sent) + 1
      BY <3>1, FS_AddElement
    <3> QED
      BY <2>2, <3>1, <3>2, BoundAssumption
  <2> HIDE DEF f
  <2>4. SentType'
    BY <1>2, <2>1, <2>2, <2>3 DEF TypeInv, SentType
  <2>5. \A g \in sent' : g.type \in Slots => g.nonce # n
    BY <1>3, <2>1, <2>2 DEF Connect
  <2>6. piSession' = n /\ piSequence' \in [Slots -> Nat]
        /\ \A t \in Slots : piSequence'[t] <= Cardinality(sent)
    BY <1>3, <2>3 DEF Connect, TypeInv, NumbersInv
  <2>7. NumbersInv'
    BY <2>3, <2>5, <2>6 DEF NumbersInv
  <2> QED
    BY <2>4, <2>7
<1>4. ASSUME NEW t \in Slots, NEW m \in States, Send(t, m) PROVE SentType' /\ NumbersInv'
  <2> DEFINE f == [type |-> t, nonce |-> piSession, sequence |-> piSequence[t] + 1,
                   uptimeMs |-> PiClock, ttl |-> TtlMax(t), ok |-> TRUE, mode |-> m, sentAt |-> now]
  <2>1. sent' = sent \union {f} /\ piSession' = piSession /\ piSession \in Nonces
        /\ piSequence' = [piSequence EXCEPT ![t] = piSequence[t] + 1]
        /\ Cardinality(sent) < MaxSent
    BY <1>4 DEF Send, TypeInv, NumbersInv
  <2>2. piSequence[t] \in Nat /\ Cardinality(sent) \in Nat /\ piSequence[t] <= Cardinality(sent)
    BY FS_CardinalityType DEF TypeInv, NumbersInv, SentType
  <2>3. f \in Controls
    <3>1. TtlMax(t) \in Nat
      BY ClockAssumption DEF TtlMax
    <3>2. piSequence[t] + 1 \in 1 .. MaxSent
      BY <2>1, <2>2, BoundAssumption
    <3> QED
      BY <1>2, <2>1, <3>1, <3>2 DEF Controls
  <2>4. f.sentAt <= now /\ f.uptimeMs = Plus(f.sentAt, PeerSkew, ClockMod)
        /\ f.ttl = TtlMax(f.type) /\ f.type = t /\ f.nonce = piSession
        /\ f.sequence = piSequence[t] + 1
    BY <1>2 DEF PiClock
  <2> HIDE DEF f
  <2>5. f \notin sent
    BY <2>2, <2>4 DEF TypeInv, NumbersInv
  <2>6. IsFiniteSet(sent') /\ Cardinality(sent') = Cardinality(sent) + 1
    BY <2>1, <2>5, FS_AddElement DEF TypeInv, SentType
  <2>7. SentType'
    BY <1>2, <2>1, <2>2, <2>3, <2>4, <2>6, BoundAssumption DEF TypeInv, SentType
  <2>8. piSequence' \in [Slots -> Nat]
        /\ \A s \in Slots : piSequence'[s] <= Cardinality(sent')
                            /\ piSequence[s] <= piSequence'[s]
        /\ piSequence'[t] = piSequence[t] + 1
    BY <2>1, <2>2, <2>6 DEF TypeInv, NumbersInv
  <2>9. NumbersInv'
    <3>1. ASSUME NEW g \in sent', g.type \in Slots, g.nonce = piSession
          PROVE  g.sequence <= piSequence'[g.type]
      <4>1. CASE g = f
        BY <2>2, <2>4, <2>8, <4>1
      <4>2. CASE g \in sent
        <5>1. g \in Controls
          BY <3>1, <4>2 DEF TypeInv, SentType, Hellos, Slots
        <5>2. g.sequence \in Nat /\ g.sequence <= piSequence[g.type]
          BY <3>1, <4>2, <5>1 DEF TypeInv, NumbersInv, Controls
        <5>3. piSequence[g.type] \in Nat /\ piSequence'[g.type] \in Nat
              /\ piSequence[g.type] <= piSequence'[g.type]
          BY <2>8, <3>1 DEF TypeInv, NumbersInv
        <5> QED
          BY <5>2, <5>3
      <4> QED
        BY <2>1, <3>1, <4>1, <4>2
    <3> QED
      BY <2>1, <2>8, <3>1 DEF NumbersInv
  <2> QED
    BY <2>7, <2>9
<1> QED
  BY <1>1, <1>3, <1>4 DEF TypeInv

\* A frame executed or bound keeps the types.
LEMMA DeliveryKeepsType ==
    ASSUME TypeInv, NEW f \in sent, Runs(f) \/ Binds(f)
    PROVE  TypeInv'
<1>1. SentType' /\ NumbersInv' /\ now' = now /\ now \in Nat
  <2>1. UNCHANGED <<now, sent, piSession, piSequence>>
    BY DEF Runs, Binds, AcceptControl, AcceptHello, link
  <2>2. now \in Nat
    BY BoundAssumption DEF TypeInv, EndpointType
  <2> QED
    BY <2>1, <2>2 DEF TypeInv, SentType, NumbersInv
<1>2. CASE Runs(f)
  <2>1. f \in Controls /\ f.sentAt <= now
    BY <1>2 DEF Runs, TypeInv, SentType
  <2>2. EndpointType'
    <3>1. f.type \in Slots /\ f.sequence \in 1 .. MaxSent /\ f.mode \in States
      BY <2>1 DEF Controls
    <3>2. lastSequence' = [lastSequence EXCEPT ![f.type] = f.sequence]
          /\ state' \in {f.mode, state}
          /\ lastHeartbeatAtMs' \in {now, lastHeartbeatAtMs}
          /\ lastSetpointAtMs' \in {now, lastSetpointAtMs}
          /\ UNCHANGED <<enabled, lines, peerSession>>
      BY <1>2 DEF Runs, AcceptControl
    <3>3. lastSequence' \in [Slots -> (1 .. MaxSent) \union {NoSequence}]
      BY <3>1, <3>2 DEF TypeInv, EndpointType
    <3> QED
      BY <1>1, <3>1, <3>2, <3>3 DEF TypeInv, EndpointType
  <2>3. Recorded(f) \in Records
    BY <1>1, <2>1 DEF Recorded, Records, Controls, TypeInv, HistoryType
  <2>4. HistoryType'
    BY <1>1, <1>2, <2>3 DEF Runs, TypeInv, HistoryType
  <2> QED
    BY <1>1, <2>2, <2>4 DEF TypeInv
<1>3. CASE Binds(f)
  <2>1. f \in Hellos /\ f.sentAt <= now
    BY <1>3 DEF Binds, TypeInv, SentType
  <2>2. EndpointType'
    BY <1>1, <1>3, <2>1 DEF Binds, AcceptHello, TypeInv, EndpointType, Hellos, States
  <2>3. HistoryType'
    <3>1. now - f.sentAt \in Nat /\ now - f.sentAt <= now
      BY <1>1, <2>1 DEF Hellos
    <3>2. executed' = executed /\ bound.number + 1 \in Nat
          /\ bound' = [number |-> bound.number + 1, at |-> now, delay |-> now - f.sentAt]
      BY <1>3 DEF Binds, TypeInv, HistoryType
    <3> QED
      BY <1>1, <3>1, <3>2 DEF TypeInv, HistoryType
  <2> QED
    BY <1>1, <2>2, <2>3 DEF TypeInv
<1> QED
  BY <1>2, <1>3

\* Every step keeps the types.
LEMMA TypeStep == TypeInv /\ [SessionNext]_allVars => TypeInv'
<1> SUFFICES ASSUME TypeInv, [SessionNext]_allVars PROVE TypeInv'
  OBVIOUS
<1>1. ASSUME NEW f \in sent, Deliver(f) PROVE TypeInv'
  <2>1. CASE UNCHANGED allVars
    BY <2>1 DEF allVars, vars, endpoint, link, history, TypeInv, EndpointType, HistoryType,
               SentType, NumbersInv
  <2> QED
    BY <1>1, <2>1, DeliverCases, DeliveryKeepsType
<1>2. CASE Service
  BY <1>2 DEF Service, Update, UpdatedState, history, TypeInv, EndpointType, HistoryType,
             SentType, NumbersInv, States
<1>3. CASE Wait
  <2>1. now' = now + 1 /\ now \in Nat /\ now' \in 0 .. MaxTime
    BY <1>3, BoundAssumption, ClockAssumption DEF Wait, Tick, Plus, TypeInv, EndpointType
  <2>2. EndpointType'
    BY <1>3, <2>1 DEF Wait, Tick, endpoint, TypeInv, EndpointType
  <2>3. HistoryType'
    BY <1>3, <2>1 DEF Wait, history, TypeInv, HistoryType
  <2>4. SentType' /\ NumbersInv'
    <3>1. \A f \in sent : f.sentAt \in Nat
      BY DEF TypeInv, SentType, Hellos, Controls
    <3> QED
      BY <1>3, <2>1, <3>1 DEF Wait, TypeInv, SentType, NumbersInv
  <2> QED
    BY <2>2, <2>3, <2>4 DEF TypeInv
<1>4. CASE UNCHANGED allVars
  BY <1>4 DEF allVars, vars, endpoint, link, history, TypeInv, EndpointType, HistoryType,
             SentType, NumbersInv
<1>5. ASSUME NEW t \in {"HEARTBEAT", "SET_STABILIZED_SETPOINT"}, Send(t, "STANDBY")
      PROVE  TypeInv'
  BY <1>5, SendingKeepsType DEF Slots, States
<1>6. ASSUME NEW m \in ModesAsked, Send("SET_MODE", m)
      PROVE  TypeInv'
  BY <1>6, SendingKeepsType, BoundAssumption DEF Slots
<1>7. ASSUME NEW n \in Nonces, Connect(n)
      PROVE  TypeInv'
  BY <1>7, SendingKeepsType
<1> QED
  BY <1>1, <1>2, <1>3, <1>4, <1>5, <1>6, <1>7 DEF SessionNext

LEMMA TypeHolds == SessionSpec => []TypeInv
BY TypeInitial, TypeStep, PTL DEF SessionSpec

\* Every step but a frame executed or bound leaves the session's history, its
\* sequence slots and the watchdog's times alone.
LEMMA OtherSteps ==
    ASSUME TypeInv, [SessionNext]_allVars
    PROVE  \/ \E f \in sent : Runs(f) \/ Binds(f)
           \/ /\ UNCHANGED <<history, peerSession, lastSequence, peerClockOffsetMs,
                             lastHeartbeatAtMs, lastSetpointAtMs>>
              /\ state' \in {state, UpdatedState}
<1>1. ASSUME NEW f \in sent, Deliver(f)
      PROVE  Runs(f) \/ Binds(f) \/ UNCHANGED allVars
  BY <1>1, DeliverCases
<1>2. CASE \/ \E n \in Nonces : Connect(n)
           \/ \E t \in {"HEARTBEAT", "SET_STABILIZED_SETPOINT"} : Send(t, "STANDBY")
           \/ \E m \in ModesAsked : Send("SET_MODE", m)
           \/ Wait \/ UNCHANGED allVars
  BY <1>2 DEF Connect, Send, Wait, Tick, allVars, vars, endpoint, history
<1>3. CASE Service
  BY <1>3 DEF Service, Update, history
<1>4. CASE UNCHANGED allVars
  BY <1>4 DEF allVars, vars, endpoint
<1> QED
  BY <1>1, <1>2, <1>3, <1>4 DEF SessionNext

-----------------------------------------------------------------------------

\* A number the slot takes is above the last one it took: no session is long
\* enough for the half range of aerolinkSequenceValidate to come round.
LEMMA TakenIsNewer ==
    ASSUME TypeInv, NEW f, Runs(f), lastSequence[f.type] # NoSequence
    PROVE  lastSequence[f.type] < f.sequence
<1> DEFINE last == lastSequence[f.type]
<1>1. SequenceValidate(f) = "OK"
  BY DEF Runs, AcceptControl, Executes, ControlVerdict
<1>2. f.type \in Slots /\ f.sequence \in 1 .. MaxSent
  BY DEF Runs, Controls
<1>3. last \in 1 .. MaxSent
  BY <1>2 DEF TypeInv, EndpointType
<1>4. 2 * Minus(f.sequence, last, SeqMod) < SeqMod /\ Minus(f.sequence, last, SeqMod) # 0
  <2>1. Minus(f.sequence, last, SeqMod) \in Int
    BY <1>2, <1>3, ClockAssumption DEF Minus
  <2> QED
    BY <1>1, <2>1, ClockAssumption DEF SequenceValidate
<1> HIDE DEF last
<1>5. last < f.sequence
  BY <1>2, <1>3, <1>4, BoundAssumption, NumberAssumption, ClockAssumption DEF Minus
<1> QED
  BY <1>5 DEF last

\* What Append does to the history.
LEMMA RunsAppends ==
    ASSUME TypeInv, NEW f, Runs(f)
    PROVE  /\ Len(executed) \in Nat
           /\ DOMAIN executed = 1 .. Len(executed)
           /\ DOMAIN executed' = 1 .. Len(executed) + 1
           /\ \A i \in DOMAIN executed : executed'[i] = executed[i] /\ executed[i] \in Records
           /\ executed'[Len(executed) + 1] = Recorded(f)
BY DEF Runs, TypeInv, HistoryType

\* Executing a frame and binding a session keep the order.
LEMMA OrderStep == TypeInv /\ OrderInv /\ TwiceOnlyAfterRebinding /\ [SessionNext]_allVars
                       => OrderInv' /\ TwiceOnlyAfterRebinding'
<1> SUFFICES ASSUME TypeInv, OrderInv, TwiceOnlyAfterRebinding, [SessionNext]_allVars
             PROVE  OrderInv' /\ TwiceOnlyAfterRebinding'
  OBVIOUS
<1>1. ASSUME NEW f \in sent, Runs(f) PROVE OrderInv' /\ TwiceOnlyAfterRebinding'
  <2> DEFINE n == Len(executed)
             x == Recorded(f)
  <2>1. /\ n \in Nat /\ DOMAIN executed = 1 .. n /\ DOMAIN executed' = 1 .. n + 1
        /\ \A i \in 1 .. n : executed'[i] = executed[i] /\ executed[i] \in Records
        /\ executed'[n + 1] = x
    BY <1>1, RunsAppends
  <2>2. /\ f.type \in Slots /\ f.sequence \in 1 .. MaxSent
        /\ lastSequence' = [lastSequence EXCEPT ![f.type] = f.sequence]
        /\ f.nonce = peerSession /\ peerSession' = peerSession
        /\ bound' = bound /\ bound.number \in Nat
    BY <1>1 DEF Runs, Controls, AcceptControl, Executes, ControlVerdict, OfSession,
               TypeInv, HistoryType
  <2>3. /\ x.type = f.type /\ x.sequence = f.sequence /\ x.nonce = f.nonce
        /\ x.binding = bound.number
    BY DEF Recorded
  <2> HIDE DEF n, x
  <2>4. lastSequence'[f.type] = f.sequence
        /\ \A t \in Slots \ {f.type} : lastSequence'[t] = lastSequence[t]
    BY <2>2 DEF TypeInv, EndpointType
  <2>5. NoSequence \notin 1 .. MaxSent
    BY BoundAssumption, NumberAssumption, ClockAssumption
  <2>6. ASSUME NEW i \in 1 .. n
        PROVE  /\ executed[i].type \in Slots /\ executed[i].sequence \in Nat
               /\ executed[i].binding \in Nat /\ executed[i].binding <= bound.number
               /\ executed[i].binding + 1 = bound.number => executed[i].nonce # peerSession
    <3>1. executed[i] \in Records /\ i \in DOMAIN executed
      BY <2>1
    <3>2. /\ executed[i].binding <= bound.number
          /\ executed[i].binding + 1 = bound.number => executed[i].nonce # peerSession
      BY <3>1 DEF OrderInv
    <3> QED
      BY <3>1, <3>2 DEF Records
  <2>7. ASSUME NEW i \in 1 .. n, executed[i].binding = bound.number
        PROVE  /\ executed[i].nonce = peerSession
               /\ lastSequence[executed[i].type] \in 1 .. MaxSent
               /\ executed[i].sequence <= lastSequence[executed[i].type]
               /\ executed[i].type = f.type => executed[i].sequence < f.sequence
    <3>1. /\ executed[i].nonce = peerSession
          /\ lastSequence[executed[i].type] # NoSequence
          /\ executed[i].sequence <= lastSequence[executed[i].type]
      BY <2>1, <2>7 DEF OrderInv
    <3>2. lastSequence[executed[i].type] \in 1 .. MaxSent
      BY <2>6, <3>1 DEF TypeInv, EndpointType
    <3>3. CASE executed[i].type = f.type
      <4>1. lastSequence[f.type] < f.sequence
        BY <1>1, <3>1, <3>3, TakenIsNewer
      <4> QED
        BY <2>2, <2>6, <3>1, <3>2, <3>3, <4>1
    <3> QED
      BY <3>1, <3>2, <3>3
  <2>8. OrderInv'
    <3> SUFFICES ASSUME NEW i \in 1 .. n + 1
                 PROVE  LET y == executed'[i] IN
                        /\ y.binding <= bound.number
                        /\ y.binding = bound.number =>
                             /\ y.nonce = peerSession
                             /\ lastSequence'[y.type] # NoSequence
                             /\ y.sequence <= lastSequence'[y.type]
                        /\ y.binding + 1 = bound.number => y.nonce # peerSession
      BY <2>1, <2>2 DEF OrderInv
    <3>1. CASE i = n + 1
      BY <2>1, <2>2, <2>3, <2>4, <2>5, <3>1
    <3>2. CASE i \in 1 .. n
      <4>1. executed'[i] = executed[i]
        BY <2>1, <3>2
      <4>2. CASE executed[i].type = f.type
        BY <2>2, <2>4, <2>5, <2>6, <2>7, <3>2, <4>1, <4>2
      <4>3. CASE executed[i].type # f.type
        BY <2>4, <2>5, <2>6, <2>7, <3>2, <4>1, <4>3
      <4> QED
        BY <4>2, <4>3
    <3> QED
      BY <2>1, <3>1, <3>2
  <2>9. ASSUME NEW i \in 1 .. n + 1, NEW j \in 1 .. n + 1, i < j,
               executed'[i].type = executed'[j].type, executed'[i].nonce = executed'[j].nonce
        PROVE  \/ executed'[i].sequence < executed'[j].sequence
               \/ executed'[i].binding + 1 < executed'[j].binding
    <3>1. i \in 1 .. n /\ executed'[i] = executed[i]
      BY <2>1, <2>9
    <3>2. CASE j = n + 1
      <4>1. executed[i].type = f.type /\ executed[i].nonce = peerSession
        BY <2>1, <2>2, <2>3, <2>9, <3>1, <3>2
      <4>2. CASE executed[i].binding = bound.number
        BY <2>1, <2>3, <2>7, <3>1, <3>2, <4>1, <4>2
      <4>3. CASE executed[i].binding # bound.number
        <5>1. executed[i].binding + 1 < bound.number
          BY <2>2, <2>6, <3>1, <4>1, <4>3
        <5> QED
          BY <2>1, <2>3, <3>1, <3>2, <5>1
      <4> QED
        BY <4>2, <4>3
    <3>3. CASE j \in 1 .. n
      BY <2>1, <2>9, <3>1, <3>3 DEF TwiceOnlyAfterRebinding
    <3> QED
      BY <2>1, <3>2, <3>3
  <2> QED
    BY <2>1, <2>2, <2>8, <2>9 DEF TwiceOnlyAfterRebinding, OrderInv
<1>2. ASSUME NEW f \in sent, Binds(f) PROVE OrderInv' /\ TwiceOnlyAfterRebinding'
  <2>1. /\ executed' = executed /\ peerSession' # peerSession
        /\ bound'.number = bound.number + 1 /\ bound.number \in Nat
    BY <1>2 DEF Binds, TypeInv, HistoryType
  <2>2. ASSUME NEW i \in DOMAIN executed
        PROVE  /\ executed[i].binding \in Nat /\ executed[i].binding <= bound.number
               /\ executed[i].binding = bound.number => executed[i].nonce = peerSession
    <3>1. executed[i] \in Records
      BY DEF TypeInv, HistoryType
    <3> QED
      BY <3>1 DEF OrderInv, Records
  <2>3. ASSUME NEW i \in DOMAIN executed
        PROVE  /\ executed[i].binding < bound'.number
               /\ executed[i].binding + 1 = bound'.number => executed[i].nonce # peerSession'
    BY <2>1, <2>2
  <2>4. ASSUME NEW i \in DOMAIN executed
        PROVE  executed[i].binding <= bound'.number /\ executed[i].binding # bound'.number
    BY <2>1, <2>2
  <2> QED
    BY <2>1, <2>3, <2>4 DEF OrderInv, TwiceOnlyAfterRebinding
<1>3. CASE UNCHANGED <<history, peerSession, lastSequence>>
  BY <1>3 DEF history, OrderInv, TwiceOnlyAfterRebinding
<1> QED
  BY <1>1, <1>2, <1>3, OtherSteps

\* Whatever the link does, a frame is executed a second time, or behind a later
\* one of its type and session, only when another session was bound in between
\* and a copy of its own session's HELLO bound that one again
\* (aerolink.c:78-93, :121-123, :132).
THEOREM TwiceOnlyAfterRebindingHolds == SessionSpec => []TwiceOnlyAfterRebinding
<1>1. SessionInit => OrderInv /\ TwiceOnlyAfterRebinding
  BY DEF SessionInit, OrderInv, TwiceOnlyAfterRebinding
<1> QED
  BY <1>1, OrderStep, TypeHolds, PTL DEF SessionSpec

-----------------------------------------------------------------------------

\* The age the endpoint computes is the true one less the delay of the HELLO,
\* as long as neither reaches the width of the clock less a TTL.
LEMMA FreshMeansYoung ==
    ASSUME NEW sentAt \in 0 .. now, NEW helloAt \in 0 .. now, NEW boundAt \in helloAt .. now,
           NEW ttl \in Nat, now \in 0 .. MaxTime, MaxTime + ttl < ClockMod,
           NEW age, age = Signed(Minus(now, Plus(Plus(sentAt, PeerSkew, ClockMod),
                              Minus(boundAt, Plus(helloAt, PeerSkew, ClockMod), ClockMod),
                              ClockMod), ClockMod)),
           -ttl <= age, age <= ttl
    PROVE  now - sentAt <= ttl + (boundAt - helloAt)
<1>1. /\ ClockMod \in Nat /\ now \in Nat /\ MaxTime \in Nat /\ now < ClockMod
      /\ PeerSkew \in 0 .. ClockMod - 1
  BY ClockAssumption, BoundAssumption DEF Clock
<1> DEFINE up == Plus(sentAt, PeerSkew, ClockMod)
           hello == Plus(helloAt, PeerSkew, ClockMod)
           offset == Minus(boundAt, hello, ClockMod)
           there == Plus(up, offset, ClockMod)
           d == Minus(now, there, ClockMod)
<1>2. up \in 0 .. ClockMod - 1 /\ (up = sentAt + PeerSkew \/ up = sentAt + PeerSkew - ClockMod)
  BY <1>1 DEF Plus
<1>3. hello \in 0 .. ClockMod - 1 /\ (hello = helloAt + PeerSkew \/ hello = helloAt + PeerSkew - ClockMod)
  BY <1>1 DEF Plus
<1>4. offset \in 0 .. ClockMod - 1 /\ (offset = boundAt - hello \/ offset = boundAt - hello + ClockMod)
  BY <1>1, <1>3 DEF Minus
<1>5. there \in 0 .. ClockMod - 1 /\ (there = up + offset \/ there = up + offset - ClockMod)
  BY <1>1, <1>2, <1>4 DEF Plus
<1>6. d \in 0 .. ClockMod - 1 /\ (d = now - there \/ d = now - there + ClockMod)
  BY <1>1, <1>5 DEF Minus
<1>7. age = d \/ age = d - ClockMod
  BY DEF Signed
<1> HIDE DEF up, hello, offset, there, d
<1> QED
  BY <1>1, <1>2, <1>3, <1>4, <1>5, <1>6, <1>7

\* The clock offset stays what the HELLO of the session made it.
LEMMA OffsetStep == TypeInv /\ OffsetInv /\ [SessionNext]_allVars => OffsetInv'
<1> SUFFICES ASSUME TypeInv, OffsetInv, [SessionNext]_allVars PROVE OffsetInv'
  OBVIOUS
<1>1. ASSUME NEW f \in sent, Runs(f) PROVE OffsetInv'
  BY <1>1 DEF Runs, AcceptControl, OffsetInv
<1>2. ASSUME NEW f \in sent, Binds(f) PROVE OffsetInv'
  <2>1. /\ peerClockOffsetMs' = Minus(now, Plus(f.sentAt, PeerSkew, ClockMod), ClockMod)
        /\ bound'.at = now /\ bound'.delay = now - f.sentAt
    BY <1>2 DEF Binds, AcceptHello, TypeInv, SentType
  <2>2. bound'.at - bound'.delay = f.sentAt
    <3>1. now \in Nat /\ f.sentAt \in Nat
      BY <1>2, BoundAssumption DEF Binds, Hellos, TypeInv, EndpointType
    <3> QED
      BY <2>1, <3>1
  <2> QED
    BY <2>1, <2>2 DEF OffsetInv
<1>3. CASE UNCHANGED <<history, peerSession, peerClockOffsetMs>>
  BY <1>3 DEF history, OffsetInv
<1> QED
  BY <1>1, <1>2, <1>3, OtherSteps

\* Executing a frame and binding a session keep the bound on the ages.
LEMMA StalenessStep ==
    TypeInv /\ OffsetInv /\ StalenessBounded /\ [SessionNext]_allVars => StalenessBounded'
<1> SUFFICES ASSUME TypeInv, OffsetInv, StalenessBounded, [SessionNext]_allVars
             PROVE  StalenessBounded'
  OBVIOUS
<1>1. ASSUME NEW f \in sent, Runs(f) PROVE StalenessBounded'
  <2>1. now - f.sentAt <= f.ttl + bound.delay
    <3>1. /\ f.type \in Slots /\ f.ttl \in Nat /\ f.ttl = TtlMax(f.type)
          /\ f.sentAt \in 0 .. now /\ now \in 0 .. MaxTime /\ now \in Nat
          /\ f.uptimeMs = Plus(f.sentAt, PeerSkew, ClockMod)
      BY <1>1, BoundAssumption DEF Runs, Controls, TypeInv, SentType, EndpointType
    <3>2. MaxTime + f.ttl < ClockMod
      BY <3>1, AgeAssumption
    <3>3. -f.ttl <= Age(f) /\ Age(f) <= f.ttl /\ peerSession # NoSession
      BY <1>1 DEF Runs, AcceptControl, Executes, ControlVerdict, Fresh, SessionBound
    <3> DEFINE helloAt == bound.at - bound.delay
    <3>4. /\ bound.at \in 0 .. now /\ bound.delay \in Nat /\ helloAt \in 0 .. now
          /\ bound.at \in helloAt .. now /\ bound.at - helloAt = bound.delay
      BY <3>1 DEF TypeInv, HistoryType
    <3>5. Age(f) = Signed(Minus(now, Plus(Plus(f.sentAt, PeerSkew, ClockMod),
                              Minus(bound.at, Plus(helloAt, PeerSkew, ClockMod), ClockMod),
                              ClockMod), ClockMod))
      BY <3>1, <3>3 DEF Age, OffsetInv
    <3> HIDE DEF helloAt
    <3>6. now - f.sentAt <= f.ttl + (bound.at - helloAt)
      BY <3>1, <3>2, <3>3, <3>4, <3>5, FreshMeansYoung
    <3> QED
      BY <3>4, <3>6
  <2>2. /\ Len(executed) \in Nat /\ DOMAIN executed = 1 .. Len(executed)
        /\ DOMAIN executed' = 1 .. Len(executed) + 1
        /\ \A i \in 1 .. Len(executed) : executed'[i] = executed[i]
        /\ executed'[Len(executed) + 1].age = now - f.sentAt
        /\ executed'[Len(executed) + 1].ttl = f.ttl
        /\ executed'[Len(executed) + 1].delay = bound.delay
    <3>1. /\ Recorded(f).age = now - f.sentAt /\ Recorded(f).ttl = f.ttl
          /\ Recorded(f).delay = bound.delay
      BY DEF Recorded
    <3> QED
      BY <1>1, <3>1, RunsAppends
  <2> QED
    BY <2>1, <2>2 DEF StalenessBounded
<1>2. ASSUME NEW f \in sent, Binds(f) PROVE StalenessBounded'
  BY <1>2 DEF Binds, StalenessBounded
<1>3. CASE UNCHANGED history
  BY <1>3 DEF history, StalenessBounded
<1> QED
  BY <1>1, <1>2, <1>3, OtherSteps DEF history

\* No executed frame is older than its TTL and the delay of the HELLO the
\* offset was measured from (aerolink.c:124, :134).
THEOREM StalenessBoundedHolds == SessionSpec => []StalenessBounded
<1>1. SessionInit => OffsetInv /\ StalenessBounded
  BY DEF SessionInit, Init, OffsetInv, StalenessBounded
<1> QED
  BY <1>1, OffsetStep, StalenessStep, TypeHolds, PTL DEF SessionSpec

-----------------------------------------------------------------------------

\* The watchdog gives nobody authority.
LEMMA WatchdogOnlyTakes ==
    ASSUME TypeInv
    PROVE  UpdatedState \in {state, "ABORTING"} \/ (state = "ACTIVE" /\ UpdatedState = "DEGRADED")
BY DEF TypeInv, EndpointType, UpdatedState

\* One rung at a time, each asked for in the session.
LEMMA AuthorityStep ==
    TypeInv /\ AuthorityWasCommanded /\ [SessionNext]_allVars => AuthorityWasCommanded'
<1> SUFFICES ASSUME TypeInv, AuthorityWasCommanded, [SessionNext]_allVars
             PROVE  AuthorityWasCommanded'
  OBVIOUS
<1>1. ASSUME NEW f \in sent, Runs(f) PROVE AuthorityWasCommanded'
  <2> DEFINE n == Len(executed)
  <2>1. /\ n \in Nat /\ DOMAIN executed = 1 .. n /\ DOMAIN executed' = 1 .. n + 1
        /\ \A i \in 1 .. n : executed'[i] = executed[i]
        /\ executed'[n + 1].type = f.type /\ executed'[n + 1].mode = f.mode
        /\ executed'[n + 1].binding = bound.number /\ bound' = bound
    <3>1. /\ Recorded(f).type = f.type /\ Recorded(f).mode = f.mode
          /\ Recorded(f).binding = bound.number
      BY DEF Recorded
    <3>2. /\ n \in Nat /\ DOMAIN executed = 1 .. n /\ DOMAIN executed' = 1 .. n + 1
          /\ \A i \in 1 .. n : executed'[i] = executed[i]
          /\ executed'[n + 1] = Recorded(f)
      BY <1>1, RunsAppends
    <3>3. bound' = bound
      BY <1>1 DEF Runs
    <3> QED
      BY <3>1, <3>2, <3>3
  <2> HIDE DEF n
  <2>2. \A m : ExecutedModes(m) \subseteq 1 .. n /\ ExecutedModes(m) \subseteq ExecutedModes(m)'
    BY <2>1 DEF ExecutedModes, Executed
  <2>3. CASE f.type = "SET_MODE"
    <3>1. state' = f.mode /\ TransitionAllowed(state, f.mode)
      BY <1>1, <2>3 DEF Runs, AcceptControl, Executes, ControlVerdict
    <3>2. n + 1 \in ExecutedModes(f.mode)'
      BY <2>1, <2>3 DEF ExecutedModes, Executed
    <3>3. CASE f.mode = "READY"
      BY <2>2, <3>1, <3>2, <3>3 DEF AuthorityWasCommanded
    <3>4. CASE f.mode = "ACTIVE"
      <4>1. state = "READY"
        BY <3>1, <3>4 DEF TransitionAllowed
      <4>2. PICK i \in ExecutedModes("READY") : TRUE
        BY <4>1 DEF AuthorityWasCommanded
      <4>3. i \in ExecutedModes("READY")' /\ i < n + 1
        BY <2>1, <2>2, <4>2
      <4> QED
        BY <3>1, <3>2, <3>4, <4>3 DEF AuthorityWasCommanded
    <3>5. CASE f.mode = "DEGRADED"
      <4>1. state = "ACTIVE"
        BY <3>1, <3>5 DEF TransitionAllowed
      <4> QED
        BY <2>2, <3>1, <3>5, <4>1 DEF AuthorityWasCommanded
    <3>6. CASE f.mode \notin {"READY", "ACTIVE", "DEGRADED"}
      BY <3>1, <3>6 DEF AuthorityWasCommanded
    <3> QED
      BY <3>3, <3>4, <3>5, <3>6
  <2>4. CASE f.type # "SET_MODE"
    <3>1. state' = state
      BY <1>1, <2>4 DEF Runs, AcceptControl
    <3> QED
      BY <2>2, <3>1 DEF AuthorityWasCommanded
  <2> QED
    BY <2>3, <2>4
<1>2. ASSUME NEW f \in sent, Binds(f) PROVE AuthorityWasCommanded'
  BY <1>2 DEF Binds, AcceptHello, AuthorityWasCommanded
<1>3. CASE UNCHANGED history /\ state' \in {state, UpdatedState}
  <2>1. state' \in {state, "ABORTING"} \/ (state = "ACTIVE" /\ state' = "DEGRADED")
    BY <1>3, WatchdogOnlyTakes
  <2>2. \A m : ExecutedModes(m)' = ExecutedModes(m)
    BY <1>3 DEF history, ExecutedModes, Executed
  <2> QED
    BY <2>1, <2>2 DEF AuthorityWasCommanded
<1> QED
  BY <1>1, <1>2, <1>3, OtherSteps DEF history

\* A session holds only what it asked for itself, READY before ACTIVE
\* (aerolinkTransitionAllowed and the binding of aerolink.c:118-126).
THEOREM AuthorityWasCommandedHolds == SessionSpec => []AuthorityWasCommanded
<1>1. SessionInit => AuthorityWasCommanded
  BY DEF SessionInit, Init, AuthorityWasCommanded
<1> QED
  BY <1>1, AuthorityStep, TypeHolds, PTL DEF SessionSpec

-----------------------------------------------------------------------------

\* The watchdog's times stay tied to the history.
LEMMA FedStep == TypeInv /\ FedInv /\ [SessionNext]_allVars => FedInv'
<1> SUFFICES ASSUME TypeInv, FedInv, [SessionNext]_allVars PROVE FedInv'
  OBVIOUS
<1>1. ASSUME NEW f \in sent, Runs(f) PROVE FedInv'
  <2> DEFINE n == Len(executed)
  <2>1. /\ n \in Nat /\ DOMAIN executed = 1 .. n /\ DOMAIN executed' = 1 .. n + 1
        /\ \A i \in 1 .. n : executed'[i] = executed[i]
        /\ executed'[n + 1].type = f.type /\ executed'[n + 1].at = now
        /\ executed'[n + 1].binding = bound.number /\ bound' = bound
    BY <1>1, RunsAppends DEF Runs, Recorded
  <2> HIDE DEF n
  <2>2. \A t : /\ Executed(t) \subseteq Executed(t)'
               /\ \A i \in Executed(t) : executed'[i] = executed[i]
    BY <2>1 DEF Executed
  <2>3. n + 1 \in Executed(f.type)'
    BY <2>1 DEF Executed
  <2>4. /\ lastHeartbeatAtMs' = IF f.type = "HEARTBEAT" THEN now ELSE lastHeartbeatAtMs
        /\ lastSetpointAtMs' = IF f.type = "SET_STABILIZED_SETPOINT" THEN now ELSE lastSetpointAtMs
    BY <1>1 DEF Runs, AcceptControl
  <2> QED
    BY <2>1, <2>2, <2>3, <2>4 DEF FedInv
<1>2. ASSUME NEW f \in sent, Binds(f) PROVE FedInv'
  <2>1. bound'.at = now /\ UNCHANGED <<lastHeartbeatAtMs, lastSetpointAtMs>>
    BY <1>2 DEF Binds, AcceptHello
  <2> QED
    BY <2>1 DEF FedInv, TypeInv, EndpointType
<1>3. CASE UNCHANGED <<history, lastHeartbeatAtMs, lastSetpointAtMs>>
  BY <1>3 DEF history, FedInv, Executed
<1> QED
  BY <1>1, <1>2, <1>3, OtherSteps

\* A time within the limit that no frame of this session set is older than
\* the session.
LEMMA FedRecently ==
    ASSUME TypeInv, NEW t, NEW last \in 0 .. now, NEW limit \in Nat,
           last <= bound.at \/ \E i \in Executed(t) : executed[i].at = last,
           Minus(now, last, ClockMod) <= limit, now - bound.at > limit
    PROVE  Recent(t, limit)
<1>1. now \in Nat /\ bound.at \in Nat
  BY BoundAssumption DEF TypeInv, EndpointType, HistoryType
<1>2. now - last <= limit
  BY <1>1 DEF Minus
<1>3. PICK i \in Executed(t) : executed[i].at = last
  BY <1>1, <1>2
<1> QED
  BY <1>2, <1>3 DEF Recent

\* When the watchdog spares a state of authority, the frames it needs were
\* executed within their timeouts, or the session is younger than those
\* (aerolink.c:161-162).
THEOREM WatchdogSparesOnlyFedHolds == SessionSpec => WatchdogSparesOnlyFed
<1>1. SessionInit => FedInv
  BY DEF SessionInit, Init, FedInv
<1>2. TypeInv /\ FedInv /\ [SessionNext]_allVars =>
        [Service =>
           /\ state' \in {"READY", "ACTIVE"} /\ now - bound.at > HeartbeatTimeout
                => Recent("HEARTBEAT", HeartbeatTimeout)
           /\ state' = "ACTIVE" /\ now - bound.at > SetpointTimeout
                => Recent("SET_STABILIZED_SETPOINT", SetpointTimeout)]_allVars
  <2> SUFFICES ASSUME TypeInv, FedInv, Service
               PROVE  /\ state' \in {"READY", "ACTIVE"} /\ now - bound.at > HeartbeatTimeout
                           => Recent("HEARTBEAT", HeartbeatTimeout)
                      /\ state' = "ACTIVE" /\ now - bound.at > SetpointTimeout
                           => Recent("SET_STABILIZED_SETPOINT", SetpointTimeout)
    OBVIOUS
  <2>1. state' = UpdatedState /\ enabled /\ lines = {}
    BY DEF Service, Update, TypeInv, EndpointType
  <2>2. state' \in {"READY", "ACTIVE"} =>
          Minus(now, lastHeartbeatAtMs, ClockMod) <= HeartbeatTimeout
    <3>1. Minus(now, lastHeartbeatAtMs, ClockMod) \in Int
      BY ClockAssumption, BoundAssumption DEF TypeInv, EndpointType, Minus
    <3> QED
      BY <2>1, <3>1, ClockAssumption DEF UpdatedState
  <2>3. state' = "ACTIVE" => Minus(now, lastSetpointAtMs, ClockMod) <= SetpointTimeout
    <3>1. Minus(now, lastSetpointAtMs, ClockMod) \in Int
      BY ClockAssumption, BoundAssumption DEF TypeInv, EndpointType, Minus
    <3> QED
      BY <2>1, <3>1, ClockAssumption DEF UpdatedState
  <2>4. lastHeartbeatAtMs \in 0 .. now /\ lastSetpointAtMs \in 0 .. now
    BY DEF TypeInv, EndpointType
  <2> QED
    BY <2>2, <2>3, <2>4, FedRecently, ClockAssumption DEF FedInv
<1> QED
  BY <1>1, <1>2, FedStep, TypeHolds, PTL DEF SessionSpec, WatchdogSparesOnlyFed

=============================================================================
