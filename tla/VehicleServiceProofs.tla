------------------------ MODULE VehicleServiceProofs ------------------------
(***************************************************************************)
(* Proofs about the vehicle's Pi service, for every value of the           *)
(* constants that ServiceAssumption admits.  Types come first; the rest    *)
(* are three invariants that lean on the types only: the order of the      *)
(* packets taken and waiting (OrderInv), the FC session of what waits      *)
(* (SessionInv), and where the mission can be after an abort (PathInv).    *)
(***************************************************************************)
EXTENDS VehicleService, TLAPS

Waiting == [packet : lan, session : 0..drawn]

\* Every variable has its type; the queue is within its limit and holds
\* packets the server sent.
TypeInv ==
    /\ now \in 0..MaxTime /\ lastSeen \in 0..now
    /\ lan \subseteq Packets
    /\ epoch \in Nat /\ last \in Nat \union {-1}
    /\ queue \in Seq(Waiting) /\ Len(queue) <= QueueLimit
    /\ state \in MissionStates
    /\ healthy \in BOOLEAN
    /\ session \in 1..drawn /\ drawn \in 1..MaxSessions
    /\ peer \in [online : BOOLEAN, session : 0..drawn]
    /\ restarts \in 0..MaxRestarts
    /\ ticking \in BOOLEAN
    /\ handled \in Seq(Nat \X Nat)
    /\ path \in Seq(MissionStates) /\ path # <<>> /\ path[Len(path)] = state
    /\ forwarded \in Seq(Setpoints)

-----------------------------------------------------------------------------

\* A sequence over a set is one over any larger set.
LEMMA SeqWider ==
    ASSUME NEW S, NEW T, S \subseteq T, NEW q \in Seq(S)
    PROVE  q \in Seq(T)
<1>1. q = [i \in 1..Len(q) |-> q[i]] /\ Len(q) \in Nat
    OBVIOUS
<1>2. \A i \in 1..Len(q) : q[i] \in T
    OBVIOUS
<1> QED
    BY <1>1, <1>2

\* What an append does to the elements of a sequence.
LEMMA Appended ==
    ASSUME NEW S, NEW q \in Seq(S), NEW e \in S
    PROVE  /\ Append(q, e) \in Seq(S)
           /\ Append(q, e) # <<>>
           /\ Len(Append(q, e)) = Len(q) + 1
           /\ \A i \in 1..Len(q) : Append(q, e)[i] = q[i]
           /\ Append(q, e)[Len(q) + 1] = e
    OBVIOUS

\* What taking the first element away does.
LEMMA Popped ==
    ASSUME NEW S, NEW q \in Seq(S), q # <<>>
    PROVE  /\ Head(q) \in S /\ Head(q) = q[1]
           /\ Tail(q) \in Seq(S)
           /\ Len(q) \in Nat \ {0}
           /\ Len(Tail(q)) = Len(q) - 1
           /\ \A i \in 1..Len(Tail(q)) : Tail(q)[i] = q[i + 1]
    OBVIOUS

\* The numbers of packets are pairs of naturals, and so are the next ones.
LEMMA NumbersTyped ==
    ASSUME lan \subseteq Packets
    PROVE  /\ \A p \in lan : Number(p) \in Nat \X Nat
           /\ NextNumbers \subseteq Nat \X Nat
<1>1. \A p \in Packets : p.epoch \in Nat /\ p.sequence \in Nat
    BY DEF Packets
<1>2. \A p \in lan : Number(p) \in Nat \X Nat
    BY <1>1 DEF Number
<1>3. ASSUME NEW n \in NextNumbers
      PROVE  n \in Nat \X Nat
    <2>1. CASE lan = {}
        BY <2>1, <1>3 DEF NextNumbers
    <2>2. CASE lan # {}
        <3>1. PICK p \in Newest : n \in {<<p.epoch, p.sequence + 1>>, <<p.epoch + 1, 1>>}
            BY <2>2, <1>3 DEF NextNumbers
        <3>2. p.epoch \in Nat /\ p.sequence \in Nat
            BY <1>1 DEF Newest
        <3> QED
            BY <3>1, <3>2
    <2> QED
        BY <2>1, <2>2
<1> QED
    BY <1>2, <1>3

\* The mission states a transition can lead to.
LEMMA TransitionsTyped ==
    ASSUME NEW s, NEW t, <<s, t>> \in Transitions
    PROVE  t \in MissionStates
    BY DEF Transitions, MissionStates

-----------------------------------------------------------------------------

\* Entering a mission state keeps the path up to date.
LEMMA EnterTyped ==
    ASSUME TypeInv, NEW new \in MissionStates, Enter(new)
    PROVE  /\ state' \in MissionStates
           /\ path' \in Seq(MissionStates) /\ path' # <<>> /\ path'[Len(path')] = state'
<1>1. path \in Seq(MissionStates)
    BY DEF TypeInv
<1> QED
    BY <1>1, Appended DEF Enter

\* A transition leaves the types of what it writes.
LEMMA TransitionTyped ==
    ASSUME TypeInv, NEW new, Transition(new)
    PROVE  /\ state' \in MissionStates
           /\ path' \in Seq(MissionStates) /\ path' # <<>> /\ path'[Len(path')] = state'
           /\ ticking' \in BOOLEAN
           /\ forwarded' = forwarded
<1>1. CASE <<state, new>> \in Transitions
    <2>1. new \in MissionStates
        BY <1>1, TransitionsTyped
    <2>2. Enter(new) /\ ticking' = ticking /\ forwarded' = forwarded
        BY <1>1 DEF Transition
    <2> QED
        BY <2>1, <2>2, EnterTyped DEF TypeInv
<1>2. CASE <<state, new>> \notin Transitions
    BY <1>2 DEF Transition, Raise, TypeInv
<1> QED
    BY <1>1, <1>2

\* Taking a packet from the queue leaves the types of what it writes.
LEMMA TakeTyped ==
    ASSUME TypeInv, NEW kind, Take(kind)
    PROVE  /\ now' \in 0..MaxTime /\ lastSeen' \in 0..now'
           /\ lan' \subseteq Packets
           /\ epoch' \in Nat /\ last' \in Nat \union {-1}
           /\ queue' \in Seq(Waiting') /\ Len(queue') <= QueueLimit
           /\ healthy' \in BOOLEAN
           /\ session' \in 1..drawn' /\ drawn' \in 1..MaxSessions
           /\ peer' \in [online : BOOLEAN, session : 0..drawn']
           /\ restarts' \in 0..MaxRestarts
           /\ handled' \in Seq(Nat \X Nat)
<1>1. Head(queue) \in Waiting /\ Tail(queue) \in Seq(Waiting) /\ Len(Tail(queue)) < Len(queue)
    <2>1. queue \in Seq(Waiting) /\ queue # <<>>
        BY DEF TypeInv, Take
    <2> QED
        BY <2>1, Popped
<1>2. Waiting' = Waiting
    BY DEF Take, Waiting
<1>3. Number(Head(queue).packet) \in Nat \X Nat
    BY <1>1, NumbersTyped DEF TypeInv, Waiting
<1>4. handled' \in Seq(Nat \X Nat)
    BY <1>3, Appended DEF Take, TypeInv
<1>5. queue' \in Seq(Waiting') /\ Len(queue') <= QueueLimit
    <2>1. queue' = Tail(queue) /\ Len(queue) \in Nat /\ Len(Tail(queue)) \in Nat
        BY <1>1 DEF Take, TypeInv
    <2> QED
        BY <1>1, <1>2, <2>1, ServiceAssumption DEF TypeInv, ServiceAssumption
<1> QED
    BY <1>4, <1>5 DEF Take, TypeInv

\* What the FC can do to its side of the session, and what binding it does.
LEMMA PeerTyped ==
    ASSUME NEW d, NEW p \in [online : BOOLEAN, session : 0..d],
           NEW e, NEW x \in 0..e, 0..d \subseteq 0..e
    PROVE  /\ p \in [online : BOOLEAN, session : 0..e]
           /\ [p EXCEPT !.online = ~@] \in [online : BOOLEAN, session : 0..e]
           /\ [p EXCEPT !.session = x] \in [online : BOOLEAN, session : 0..e]
<1>1. p.online \in BOOLEAN /\ p.session \in 0..e /\ p = [online |-> p.online, session |-> p.session]
    BY SMT
<1>2. p \in [online : BOOLEAN, session : 0..e]
    BY <1>1, Zenon
<1>3. [p EXCEPT !.session = x] = [online |-> p.online, session |-> x]
    BY <1>1
<1>4. [p EXCEPT !.online = ~@] = [online |-> ~p.online, session |-> p.session]
    BY <1>1
<1> QED
    BY <1>1, <1>2, <1>3, <1>4

\* The first state is well typed.
LEMMA InitTyped == Init => TypeInv
<1> SUFFICES ASSUME Init
             PROVE  TypeInv
    OBVIOUS
<1>1. MaxTime \in Nat /\ MaxRestarts \in Nat /\ MaxSessions \in Nat \ {0} /\ QueueLimit \in Nat
    BY ServiceAssumption DEF ServiceAssumption
<1>2. peer \in [online : BOOLEAN, session : 0..drawn]
    BY DEF Init
<1>3. queue \in Seq(Waiting) /\ Len(queue) = 0 /\ handled \in Seq(Nat \X Nat)
    BY DEF Init
<1>8. forwarded \in Seq(Setpoints)
    BY DEF Init
<1>4. path \in Seq(MissionStates) /\ path # <<>> /\ path[Len(path)] = state /\ state \in MissionStates
    BY DEF Init, MissionStates
<1>5. epoch \in Nat /\ last \in Nat \union {-1} /\ healthy \in BOOLEAN /\ ticking \in BOOLEAN
    BY DEF Init
<1>6. /\ now \in 0..MaxTime /\ lastSeen \in 0..now /\ restarts \in 0..MaxRestarts
      /\ session \in 1..drawn /\ drawn \in 1..MaxSessions
    BY <1>1 DEF Init
<1>7. lan \subseteq Packets /\ Len(queue) <= QueueLimit
    BY <1>1, <1>3 DEF Init
<1> QED
    BY <1>2, <1>3, <1>4, <1>5, <1>6, <1>7, <1>8 DEF TypeInv

\* Every step of the loop keeps the types.
LEMMA TickTyped == TypeInv /\ Tick => TypeInv'
<1> SUFFICES ASSUME TypeInv, Tick
             PROVE  TypeInv'
    OBVIOUS
<1>1. CASE Begin
    BY <1>1 DEF Begin, service, history, TypeInv, Waiting
<1>2. CASE TakeAssign
    BY <1>2, TakeTyped, TransitionTyped DEF TakeAssign, TypeInv
<1>3. CASE TakeTransition
    BY <1>3, TakeTyped, TransitionTyped DEF TakeTransition, TypeInv
<1>4. CASE TakeAbort
    <2>1. "ABORT" \in MissionStates
        BY DEF MissionStates
    <2> QED
        BY <1>4, <2>1, TakeTyped, EnterTyped DEF TakeAbort, TypeInv
<1>5. CASE TakeSetpoint
    <2>1. state' = state /\ path' = path /\ ticking' \in BOOLEAN
        BY <1>5 DEF TakeSetpoint, Raise, TypeInv
    <2>2. [received |-> Head(queue).session, session |-> session, after |-> Len(path)] \in Setpoints
        <3>1. Head(queue) \in Waiting
            BY <1>5, Popped DEF TakeSetpoint, Take, TypeInv
        <3>2. Head(queue).session \in Nat
            BY <3>1 DEF Waiting
        <3>3. session \in Nat /\ Len(path) \in Nat
            BY DEF TypeInv
        <3> QED
            BY <3>2, <3>3 DEF Setpoints
    <2>3. forwarded' = forwarded \/ forwarded' = Append(forwarded,
            [received |-> Head(queue).session, session |-> session, after |-> Len(path)])
        BY <1>5 DEF TakeSetpoint, Raise
    <2>4. forwarded' \in Seq(Setpoints)
        <3>1. forwarded \in Seq(Setpoints)
            BY DEF TypeInv
        <3> QED
            BY <3>1, <2>2, <2>3, Appended
    <2> QED
        BY <1>5, <2>1, <2>4, TakeTyped DEF TakeSetpoint, TypeInv
<1>6. CASE TakePing
    BY <1>6, TakeTyped DEF TakePing, TypeInv
<1>7. CASE End
    <2>1. /\ state' \in MissionStates
          /\ path' \in Seq(MissionStates) /\ path' # <<>> /\ path'[Len(path')] = state'
        <3>1. CASE Silent
            <4>1. "ABORT" \in MissionStates /\ Enter("ABORT")
                BY <1>7, <3>1 DEF End, MissionStates
            <4> QED
                BY <4>1, EnterTyped
        <3>2. CASE ~Silent
            BY <1>7, <3>2 DEF End, TypeInv
        <3> QED
            BY <3>1, <3>2
    <2>2. healthy' \in BOOLEAN
        BY <1>7 DEF End
    <2> QED
        BY <1>7, <2>1, <2>2 DEF End, TypeInv, Waiting
<1> QED
    BY <1>1, <1>2, <1>3, <1>4, <1>5, <1>6, <1>7 DEF Tick

\* Every step keeps the types.
LEMMA StepTyped == TypeInv /\ [Next]_vars => TypeInv'
<1> SUFFICES ASSUME TypeInv, [Next]_vars
             PROVE  TypeInv'
    OBVIOUS
<1> USE ServiceAssumption DEF ServiceAssumption
<1>1. ASSUME NEW p \in lan, ReceiveServer(p)
      PROVE  TypeInv'
    <2>1. p \in Packets /\ p.epoch \in Nat /\ p.sequence \in Nat
        BY DEF TypeInv, Packets
    <2>2. Waiting' = Waiting
        BY <1>1 DEF ReceiveServer, Waiting
    <2>3. queue' \in Seq(Waiting) /\ Len(queue') <= QueueLimit
        <3>1. CASE Len(queue) = QueueLimit
            BY <1>1, <3>1 DEF ReceiveServer, TypeInv
        <3>2. CASE Len(queue) # QueueLimit
            <4>1. [packet |-> p, session |-> peer.session] \in Waiting
                BY DEF TypeInv, Waiting
            <4>2. queue' = Append(queue, [packet |-> p, session |-> peer.session])
                BY <1>1, <3>2 DEF ReceiveServer
            <4>3. queue \in Seq(Waiting) /\ Len(queue) < QueueLimit
                BY <3>2 DEF TypeInv
            <4> QED
                BY <4>1, <4>2, <4>3, Appended
        <3> QED
            BY <3>1, <3>2
    <2> QED
        BY <1>1, <2>1, <2>2, <2>3 DEF ReceiveServer, TypeInv, history
<1>2. CASE ConnectFc
    <2>1. Waiting \subseteq Waiting'
        <3>1. lan' = lan /\ drawn' = drawn + 1 /\ drawn \in Nat
            BY <1>2 DEF ConnectFc, TypeInv
        <3>2. 0..drawn \subseteq 0..drawn'
            BY <3>1
        <3> QED
            BY <3>1, <3>2 DEF Waiting
    <2>2. queue' \in Seq(Waiting') /\ Len(queue') <= QueueLimit
        <3>1. CASE peer.online
            BY <1>2, <3>1 DEF ConnectFc, QueueCleared
        <3>2. CASE ~peer.online
            BY <1>2, <3>2, <2>1, SeqWider DEF ConnectFc, TypeInv
        <3> QED
            BY <3>1, <3>2
    <2>3. drawn' = drawn + 1 /\ drawn \in Nat /\ drawn' \in 1..MaxSessions /\ session' \in 1..drawn'
        <3>1. drawn < MaxSessions /\ drawn' = drawn + 1 /\ session' = drawn + 1
            BY <1>2 DEF ConnectFc
        <3>2. drawn \in 1..MaxSessions
            BY DEF TypeInv
        <3> QED
            BY <3>1, <3>2
    <2>4. drawn + 1 \in 0..drawn' /\ 0..drawn \subseteq 0..drawn'
        BY <2>3
    <2>5. peer' = peer \/ peer' = [peer EXCEPT !.session = drawn + 1]
        BY <1>2 DEF ConnectFc
    <2>6. peer \in [online : BOOLEAN, session : 0..drawn]
        BY DEF TypeInv
    <2>7. peer' \in [online : BOOLEAN, session : 0..drawn']
        BY <2>4, <2>5, <2>6, PeerTyped
    <2>8. healthy' \in BOOLEAN
        BY <1>2, Zenon DEF ConnectFc, TypeInv
    <2>9. now' = now /\ now \in 0..MaxTime /\ lastSeen' \in 0..now'
        <3>1. now' = now /\ (lastSeen' = now \/ lastSeen' = lastSeen)
            BY <1>2 DEF ConnectFc
        <3>2. now \in 0..MaxTime /\ lastSeen \in 0..now
            BY DEF TypeInv
        <3> QED
            BY <3>1, <3>2
    <2>10. /\ UNCHANGED <<lan, epoch, last, state, restarts, ticking>>
           /\ UNCHANGED <<handled, path, forwarded>>
        BY <1>2 DEF ConnectFc, history
    <2> QED
        BY <2>2, <2>3, <2>7, <2>8, <2>9, <2>10 DEF TypeInv
<1>3. CASE Tick
    BY <1>3, TickTyped
<1>4. ASSUME NEW kind \in Kinds, NEW asked \in Asked \union {"IDLE"}, ServerSend(kind, asked)
      PROVE  TypeInv'
    <2>1. PICK n \in NextNumbers :
            lan' = lan \union {[epoch |-> n[1], sequence |-> n[2], issued |-> now - ServerBehind,
                                kind |-> kind, asked |-> asked]}
        BY <1>4 DEF ServerSend
    <2>2. n[1] \in Nat /\ n[2] \in Nat
        BY NumbersTyped DEF TypeInv
    <2>3. lan' \subseteq Packets
        <3>1. now - ServerBehind \in Int
            BY DEF TypeInv
        <3>2. [epoch |-> n[1], sequence |-> n[2], issued |-> now - ServerBehind,
               kind |-> kind, asked |-> asked] \in Packets
            BY <2>2, <3>1 DEF Packets
        <3> QED
            BY <2>1, <3>2 DEF TypeInv
    <2>4. Waiting \subseteq Waiting'
        BY <1>4, <2>1 DEF ServerSend, Waiting
    <2>5. queue' \in Seq(Waiting')
        BY <1>4, <2>4, SeqWider DEF ServerSend, service, TypeInv
    <2> QED
        BY <1>4, <2>3, <2>5 DEF ServerSend, service, history, TypeInv
<1>5. CASE FcLine
    <2>1. peer' \in [online : BOOLEAN, session : 0..drawn]
        <3>1. drawn \in Nat /\ 0 \in 0..drawn
            BY DEF TypeInv
        <3>2. peer' = [peer EXCEPT !.online = ~@] \/ peer' = [peer EXCEPT !.session = 0]
            BY <1>5 DEF FcLine
        <3>3. peer \in [online : BOOLEAN, session : 0..drawn]
            BY DEF TypeInv
        <3> QED
            BY <3>1, <3>2, <3>3, PeerTyped
    <2> QED
        BY <1>5, <2>1 DEF FcLine, service, history, TypeInv, Waiting
<1>6. CASE PiRestart
    <2>1. peer' \in [online : BOOLEAN, session : 0..drawn']
        <3>1. drawn \in Nat /\ drawn' = drawn + 1 /\ peer' = peer
            BY <1>6 DEF PiRestart, TypeInv
        <3>2. 0 \in 0..drawn' /\ 0..drawn \subseteq 0..drawn'
            BY <3>1
        <3>3. peer \in [online : BOOLEAN, session : 0..drawn]
            BY DEF TypeInv
        <3> QED
            BY <3>1, <3>2, <3>3, PeerTyped
    <2>2. drawn' \in 1..MaxSessions /\ session' \in 1..drawn' /\ restarts' \in 0..MaxRestarts
        <3>1. /\ drawn < MaxSessions /\ drawn' = drawn + 1 /\ session' = drawn + 1
              /\ restarts < MaxRestarts /\ restarts' = restarts + 1
            BY <1>6 DEF PiRestart
        <3>2. drawn \in 1..MaxSessions /\ restarts \in 0..MaxRestarts
            BY DEF TypeInv
        <3> QED
            BY <3>1, <3>2
    <2>3. /\ epoch' \in Nat /\ last' \in Nat \union {-1}
          /\ healthy' \in BOOLEAN /\ ticking' \in BOOLEAN
        BY <1>6 DEF PiRestart, Fresh
    <2>4. /\ queue' \in Seq(Waiting') /\ Len(queue') <= QueueLimit /\ handled' \in Seq(Nat \X Nat)
          /\ forwarded' \in Seq(Setpoints)
        BY <1>6 DEF PiRestart, Fresh
    <2>5. /\ path' \in Seq(MissionStates) /\ path' # <<>> /\ path'[Len(path')] = state'
          /\ state' \in MissionStates
        BY <1>6 DEF PiRestart, Fresh, MissionStates
    <2>6. lan' \subseteq Packets /\ now' \in 0..MaxTime /\ lastSeen' \in 0..now'
        BY <1>6 DEF PiRestart, Fresh, TypeInv
    <2> QED
        BY <2>1, <2>2, <2>3, <2>4, <2>5, <2>6 DEF TypeInv
<1>7. CASE Wait
    BY <1>7 DEF Wait, service, history, TypeInv, Waiting
<1>8. CASE UNCHANGED vars
    BY <1>8 DEF vars, service, history, TypeInv, Waiting
<1> QED
    BY <1>1, <1>2, <1>3, <1>4, <1>5, <1>6, <1>7, <1>8 DEF Next

-----------------------------------------------------------------------------

\* The packets executed and those waiting are in the order of their numbers,
\* and none of them is past the last number the validator has taken.
OrderInv ==
    /\ \A i, j \in 1..Len(handled) : i < j => Before(handled[i], handled[j])
    /\ \A i, j \in 1..Len(queue) :
         i < j => Before(Number(queue[i].packet), Number(queue[j].packet))
    /\ \A i \in 1..Len(handled), j \in 1..Len(queue) :
         Before(handled[i], Number(queue[j].packet))
    /\ \A i \in 1..Len(handled) : ~Before(<<epoch, last>>, handled[i])
    /\ \A i \in 1..Len(queue) : ~Before(<<epoch, last>>, Number(queue[i].packet))

\* What comes no later than a number comes before all that come after it.
LEMMA BeforeCarries ==
    ASSUME NEW a \in Int \X Int, NEW b \in Int \X Int, NEW c \in Int \X Int,
           ~Before(b, a), Before(b, c)
    PROVE  Before(a, c) /\ ~Before(c, a)
    BY DEF Before

\* No number comes before itself.
LEMMA BeforeIrreflexive == ASSUME NEW a \in Int \X Int PROVE ~Before(a, a)
    BY DEF Before

\* Numbers the invariant compares are pairs of integers.
LEMMA NumbersCompare ==
    ASSUME TypeInv
    PROVE  /\ \A i \in 1..Len(handled) : handled[i] \in Int \X Int
           /\ \A i \in 1..Len(queue) : Number(queue[i].packet) \in Int \X Int
           /\ <<epoch, last>> \in Int \X Int
<1>1. handled \in Seq(Nat \X Nat) /\ queue \in Seq(Waiting) /\ lan \subseteq Packets
    BY DEF TypeInv
<1>2. \A i \in 1..Len(queue) : queue[i].packet \in lan
    <2>1. \A i \in 1..Len(queue) : queue[i] \in Waiting
        BY <1>1
    <2> QED
        BY <2>1 DEF Waiting
<1>3. \A i \in 1..Len(queue) : Number(queue[i].packet) \in Nat \X Nat
    BY <1>1, <1>2, NumbersTyped
<1>4. \A i \in 1..Len(handled) : handled[i] \in Nat \X Nat
    BY <1>1
<1>5. epoch \in Int /\ last \in Int
    BY DEF TypeInv
<1> QED
    BY <1>3, <1>4, <1>5

\* A packet let in comes after everything taken before it.
LEMMA ReceiveInOrder ==
    ASSUME TypeInv, OrderInv, NEW p \in lan, ReceiveServer(p)
    PROVE  OrderInv'
<1>1. Number(p) \in Int \X Int
    BY NumbersTyped DEF TypeInv
<1>2. Before(<<epoch, last>>, Number(p)) /\ <<epoch', last'>> = Number(p) /\ handled' = handled
    BY DEF ReceiveServer, NotReplayed, Before, Number, history
<1>3. \A i \in 1..Len(handled) : Before(handled[i], Number(p)) /\ ~Before(Number(p), handled[i])
    BY <1>1, <1>2, NumbersCompare, BeforeCarries DEF OrderInv
<1>4. \A i \in 1..Len(queue) :
        /\ Before(Number(queue[i].packet), Number(p))
        /\ ~Before(Number(p), Number(queue[i].packet))
    BY <1>1, <1>2, NumbersCompare, BeforeCarries DEF OrderInv
<1>5. CASE queue' = queue
    BY <1>2, <1>3, <1>4, <1>5 DEF OrderInv
<1>6. CASE queue' = Append(queue, [packet |-> p, session |-> peer.session])
    <2>1. queue \in Seq(Waiting) /\ [packet |-> p, session |-> peer.session] \in Waiting
        BY DEF TypeInv, Waiting
    <2>2. /\ Len(queue') = Len(queue) + 1 /\ Len(queue) \in Nat
          /\ \A i \in 1..Len(queue) : queue'[i] = queue[i]
          /\ queue'[Len(queue) + 1].packet = p
        BY <1>6, <2>1, Appended
    <2>3. \A i \in 1..Len(queue') : i \in 1..Len(queue) \/ i = Len(queue) + 1
        BY <2>2
    <2>4. ~Before(Number(p), Number(p))
        BY <1>1, BeforeIrreflexive
    <2>5. \A i \in 1..Len(queue') :
            ~Before(<<epoch', last'>>, Number(queue'[i].packet))
        BY <1>2, <1>4, <2>2, <2>3, <2>4
    <2>6. \A i \in 1..Len(handled'), j \in 1..Len(queue') :
            Before(handled'[i], Number(queue'[j].packet))
        BY <1>2, <1>3, <2>2, <2>3 DEF OrderInv
    <2>7. ASSUME NEW i \in 1..Len(queue'), NEW j \in 1..Len(queue'), i < j
          PROVE  Before(Number(queue'[i].packet), Number(queue'[j].packet))
        <3>1. i \in 1..Len(queue)
            BY <2>2, <2>7
        <3>2. CASE j \in 1..Len(queue)
            BY <3>1, <3>2, <2>2, <2>7 DEF OrderInv
        <3>3. CASE j = Len(queue) + 1
            BY <3>1, <3>3, <2>2, <1>4
        <3> QED
            BY <3>2, <3>3, <2>3
    <2>8. \A i, j \in 1..Len(handled') : i < j => Before(handled'[i], handled'[j])
        BY <1>2 DEF OrderInv
    <2>9. \A i \in 1..Len(handled') : ~Before(<<epoch', last'>>, handled'[i])
        BY <1>2, <1>3
    <2> QED
        BY <2>5, <2>6, <2>7, <2>8, <2>9 DEF OrderInv
<1> QED
    BY <1>5, <1>6 DEF ReceiveServer

\* The packet at the head moves from the queue to the end of what is done.
LEMMA TakeInOrder ==
    ASSUME TypeInv, OrderInv, NEW kind, Take(kind)
    PROVE  OrderInv'
<1> DEFINE first == Number(Head(queue).packet)
<1>1. /\ queue \in Seq(Waiting) /\ queue # <<>> /\ queue' = Tail(queue)
      /\ handled \in Seq(Nat \X Nat) /\ handled' = Append(handled, first)
      /\ epoch' = epoch /\ last' = last
    BY DEF TypeInv, Take
<1>2. /\ Head(queue) = queue[1] /\ Head(queue) \in Waiting
      /\ Len(queue) \in Nat \ {0}
      /\ Len(queue') = Len(queue) - 1
      /\ \A i \in 1..Len(queue') : queue'[i] = queue[i + 1]
    BY <1>1, Popped
<1>3. first \in Nat \X Nat /\ first = Number(queue[1].packet)
    BY <1>2, NumbersTyped DEF TypeInv, Waiting
<1> HIDE DEF first
<1>4. /\ Len(handled') = Len(handled) + 1 /\ Len(handled) \in Nat
      /\ \A i \in 1..Len(handled) : handled'[i] = handled[i]
      /\ handled'[Len(handled) + 1] = first
    BY <1>1, <1>3, Appended
<1>5. \A i \in 1..Len(handled') : i \in 1..Len(handled) \/ i = Len(handled) + 1
    BY <1>4
<1>6. \A i \in 1..Len(queue') : i + 1 \in 1..Len(queue) /\ 1 < i + 1
    BY <1>2
<1>7. 1 \in 1..Len(queue)
    BY <1>2
<1>8. ASSUME NEW i \in 1..Len(handled'), NEW j \in 1..Len(handled'), i < j
      PROVE  Before(handled'[i], handled'[j])
    <2>1. i \in 1..Len(handled)
        BY <1>4, <1>8
    <2>2. CASE j \in 1..Len(handled)
        BY <2>1, <2>2, <1>4, <1>8 DEF OrderInv
    <2>3. CASE j = Len(handled) + 1
        BY <2>1, <2>3, <1>3, <1>4, <1>7 DEF OrderInv
    <2> QED
        BY <2>2, <2>3, <1>5
<1>9. \A i, j \in 1..Len(queue') :
        i < j => Before(Number(queue'[i].packet), Number(queue'[j].packet))
    <2> TAKE i, j \in 1..Len(queue')
    <2>1. /\ queue'[i] = queue[i + 1] /\ i + 1 \in 1..Len(queue)
          /\ queue'[j] = queue[j + 1] /\ j + 1 \in 1..Len(queue)
          /\ i < j => i + 1 < j + 1
        BY <1>2, <1>6
    <2> QED
        BY <2>1 DEF OrderInv
<1>10. ASSUME NEW i \in 1..Len(handled'), NEW j \in 1..Len(queue')
       PROVE  Before(handled'[i], Number(queue'[j].packet))
    <2>0. queue'[j] = queue[j + 1] /\ j + 1 \in 1..Len(queue) /\ 1 < j + 1
        BY <1>2, <1>6
    <2>1. CASE i \in 1..Len(handled)
        BY <2>0, <2>1, <1>4 DEF OrderInv
    <2>2. CASE i = Len(handled) + 1
        <3>1. handled'[i] = Number(queue[1].packet)
            BY <2>2, <1>3, <1>4
        <3> QED
            BY <2>0, <3>1, <1>7 DEF OrderInv
    <2> QED
        BY <2>1, <2>2, <1>5
<1>11. \A i \in 1..Len(handled') : ~Before(<<epoch', last'>>, handled'[i])
    BY <1>1, <1>3, <1>4, <1>5, <1>7 DEF OrderInv
<1>12. \A i \in 1..Len(queue') : ~Before(<<epoch', last'>>, Number(queue'[i].packet))
    BY <1>1, <1>2, <1>6 DEF OrderInv
<1> QED
    BY <1>8, <1>9, <1>10, <1>11, <1>12 DEF OrderInv

\* Every step keeps the order.
LEMMA StepInOrder == TypeInv /\ OrderInv /\ [Next]_vars => OrderInv'
<1> SUFFICES ASSUME TypeInv, OrderInv, [Next]_vars
             PROVE  OrderInv'
    OBVIOUS
<1>1. ASSUME NEW p \in lan, ReceiveServer(p)
      PROVE  OrderInv'
    BY <1>1, ReceiveInOrder
<1>2. CASE ConnectFc
    <2>1. UNCHANGED <<handled, epoch, last>> /\ (queue' = queue \/ queue' = <<>>)
        BY <1>2 DEF ConnectFc, QueueCleared, history
    <2> QED
        BY <2>1 DEF OrderInv
<1>3. CASE Tick
    <2>1. CASE Begin \/ End
        BY <2>1 DEF Begin, End, service, history, OrderInv
    <2>2. CASE \E kind \in {"ASSIGN", "TRANSITION", "ABORT", "SETPOINT", "PING"} : Take(kind)
        BY <2>2, TakeInOrder
    <2> QED
        BY <1>3, <2>1, <2>2
           DEF Tick, TakeAssign, TakeTransition, TakeAbort, TakeSetpoint, TakePing
<1>4. ASSUME NEW kind, NEW asked, ServerSend(kind, asked)
      PROVE  OrderInv'
    BY <1>4 DEF ServerSend, service, history, OrderInv
<1>5. CASE PiRestart
    BY <1>5 DEF PiRestart, Fresh, OrderInv
<1>6. CASE FcLine \/ Wait \/ UNCHANGED vars
    BY <1>6 DEF FcLine, Wait, vars, service, history, OrderInv
<1> QED
    BY <1>1, <1>2, <1>3, <1>4, <1>5, <1>6 DEF Next

-----------------------------------------------------------------------------

\* While the FC is bound to the session the service holds, every packet that
\* waits was taken in during that session.
SessionInv ==
    /\ peer.session = session => \A i \in 1..Len(queue) : queue[i].session = session
    /\ ForwardedInItsSession

\* What one packet forwards keeps the sessions together.
LEMMA TakeInSession ==
    ASSUME TypeInv, SessionInv, NEW kind, Take(kind),
           \/ forwarded' = forwarded
           \/ /\ peer.session = session
              /\ forwarded' = Append(forwarded,
                    [received |-> Head(queue).session, session |-> session, after |-> Len(path)])
    PROVE  SessionInv'
<1>1. queue \in Seq(Waiting) /\ queue # <<>> /\ queue' = Tail(queue) /\ UNCHANGED <<peer, session>>
    BY DEF TypeInv, Take
<1>2. /\ Head(queue) = queue[1] /\ 1 \in 1..Len(queue)
      /\ \A i \in 1..Len(queue') : queue'[i] = queue[i + 1] /\ i + 1 \in 1..Len(queue)
    BY <1>1, Popped
<1>3. (peer.session = session => \A i \in 1..Len(queue) : queue[i].session = session)'
    BY <1>1, <1>2 DEF SessionInv
<1>4. CASE forwarded' = forwarded
    BY <1>3, <1>4 DEF SessionInv, ForwardedInItsSession
<1>5. CASE /\ peer.session = session
           /\ forwarded' = Append(forwarded,
                 [received |-> Head(queue).session, session |-> session, after |-> Len(path)])
    <2> DEFINE e == [received |-> Head(queue).session, session |-> session, after |-> Len(path)]
    <2>1. Head(queue).session = session
        BY <1>2, <1>5 DEF SessionInv
    <2>2. e.received = e.session
        BY <2>1
    <2>3. e \in Setpoints
        <3>1. session \in Nat /\ Len(path) \in Nat
            BY DEF TypeInv
        <3> QED
            BY <2>1, <3>1 DEF Setpoints
    <2> HIDE DEF e
    <2>4. forwarded' = Append(forwarded, e) /\ forwarded \in Seq(Setpoints)
        BY <1>5 DEF e, TypeInv
    <2>5. /\ Len(forwarded') = Len(forwarded) + 1 /\ Len(forwarded) \in Nat
          /\ \A i \in 1..Len(forwarded) : forwarded'[i] = forwarded[i]
          /\ forwarded'[Len(forwarded) + 1] = e
        BY <2>3, <2>4, Appended
    <2>6. \A i \in 1..Len(forwarded') : i \in 1..Len(forwarded) \/ i = Len(forwarded) + 1
        BY <2>5
    <2> QED
        BY <1>3, <2>2, <2>5, <2>6 DEF SessionInv, ForwardedInItsSession
<1> QED
    BY <1>4, <1>5

\* Every step keeps the sessions together.
LEMMA StepInSession == TypeInv /\ SessionInv /\ [Next]_vars => SessionInv'
<1> SUFFICES ASSUME TypeInv, SessionInv, [Next]_vars
             PROVE  SessionInv'
    OBVIOUS
<1> USE DEF ForwardedInItsSession
<1>1. ASSUME NEW p \in lan, ReceiveServer(p)
      PROVE  SessionInv'
    <2>1. UNCHANGED <<peer, session, forwarded>>
        BY <1>1 DEF ReceiveServer, history
    <2>2. CASE queue' = queue
        BY <2>1, <2>2 DEF SessionInv
    <2>3. CASE queue' = Append(queue, [packet |-> p, session |-> peer.session])
        <3>1. queue \in Seq(Waiting) /\ [packet |-> p, session |-> peer.session] \in Waiting
            BY DEF TypeInv, Waiting
        <3>2. /\ Len(queue') = Len(queue) + 1 /\ Len(queue) \in Nat
              /\ \A i \in 1..Len(queue) : queue'[i] = queue[i]
              /\ queue'[Len(queue) + 1].session = peer.session
            BY <2>3, <3>1, Appended
        <3>3. \A i \in 1..Len(queue') : i \in 1..Len(queue) \/ i = Len(queue) + 1
            BY <3>2
        <3> QED
            BY <2>1, <3>2, <3>3 DEF SessionInv
    <2> QED
        BY <1>1, <2>2, <2>3 DEF ReceiveServer
<1>2. CASE ConnectFc
    <2>1. session' = drawn + 1 /\ forwarded' = forwarded
        BY <1>2 DEF ConnectFc, history
    <2>2. CASE peer.online
        <3>1. queue' = <<>>
            BY <1>2, <2>2 DEF ConnectFc, QueueCleared
        <3> QED
            BY <2>1, <3>1 DEF SessionInv
    <2>3. CASE ~peer.online
        <3>1. peer' = peer
            BY <1>2, <2>3 DEF ConnectFc
        <3>2. drawn \in Nat /\ peer.session \in 0..drawn
            BY DEF TypeInv
        <3>3. peer'.session # session'
            BY <2>1, <3>1, <3>2
        <3> QED
            BY <2>1, <3>3 DEF SessionInv
    <2> QED
        BY <2>2, <2>3
<1>3. CASE Tick
    <2>1. CASE Begin \/ End
        BY <2>1 DEF Begin, End, service, history, SessionInv
    <2>2. CASE TakeAssign \/ TakeTransition \/ TakeAbort \/ TakePing
        <3>1. forwarded' = forwarded
            BY <2>2 DEF TakeAssign, TakeTransition, TakeAbort, TakePing, Transition, Raise
        <3> QED
            BY <2>2, <3>1, TakeInSession DEF TakeAssign, TakeTransition, TakeAbort, TakePing
    <2>3. CASE TakeSetpoint
        BY <2>3, TakeInSession DEF TakeSetpoint, Raise
    <2> QED
        BY <1>3, <2>1, <2>2, <2>3 DEF Tick
<1>4. ASSUME NEW kind, NEW asked, ServerSend(kind, asked)
      PROVE  SessionInv'
    BY <1>4 DEF ServerSend, service, history, SessionInv
<1>5. CASE PiRestart
    BY <1>5 DEF PiRestart, Fresh, SessionInv
<1>6. CASE FcLine
    <2>1. UNCHANGED <<queue, session, forwarded>> /\ session \in 1..drawn /\ drawn \in Nat
        BY <1>6 DEF FcLine, service, history, TypeInv
    <2>2. peer'.session = peer.session \/ peer'.session = 0
        BY <1>6 DEF FcLine, TypeInv
    <2> QED
        BY <2>1, <2>2 DEF SessionInv
<1>7. CASE Wait \/ UNCHANGED vars
    BY <1>7 DEF Wait, vars, service, history, SessionInv
<1> QED
    BY <1>1, <1>2, <1>3, <1>4, <1>5, <1>6, <1>7 DEF Next

-----------------------------------------------------------------------------

\* After an abort the mission stays among ABORT, LAND and FAULT until it has
\* been IDLE; and each setpoint was forwarded in a state of flight.
PathInv ==
    /\ \A k, n \in 1..Len(path) :
         k <= n /\ path[k] = "ABORT" =>
            \/ path[n] \in {"ABORT", "LAND", "FAULT"}
            \/ \E m \in k..n : path[m] = "IDLE"
    /\ \A i \in 1..Len(forwarded) :
         /\ forwarded[i].after \in 1..Len(path)
         /\ path[forwarded[i].after] \in FlightStates

\* The only way out of the states after an abort is to IDLE.
LEMMA WayOut ==
    ASSUME NEW s \in {"ABORT", "LAND", "FAULT"}, NEW t, <<s, t>> \in Transitions
    PROVE  t \in {"LAND", "FAULT", "IDLE"}
    BY DEF Transitions, MissionStates

\* A new mission state extends the path as the invariant says.
LEMMA EnterOnPath ==
    ASSUME TypeInv, PathInv, NEW new \in MissionStates, Enter(new), forwarded' = forwarded,
           new = "ABORT" \/ <<state, new>> \in Transitions
    PROVE  PathInv'
<1>1. path \in Seq(MissionStates) /\ path # <<>> /\ path[Len(path)] = state
    BY DEF TypeInv
<1>2. /\ Len(path') = Len(path) + 1 /\ Len(path) \in Nat \ {0}
      /\ \A i \in 1..Len(path) : path'[i] = path[i]
      /\ path'[Len(path) + 1] = new
    BY <1>1, Appended DEF Enter
<1>3. \A n \in 1..Len(path') : n \in 1..Len(path) \/ n = Len(path) + 1
    BY <1>2
<1>4. ASSUME NEW k \in 1..Len(path'), NEW n \in 1..Len(path'), k <= n, path'[k] = "ABORT"
      PROVE  path'[n] \in {"ABORT", "LAND", "FAULT"} \/ \E m \in k..n : path'[m] = "IDLE"
    <2>1. CASE n \in 1..Len(path)
        <3>1. k \in 1..Len(path) /\ path[k] = "ABORT" /\ path'[n] = path[n]
            BY <1>2, <1>4, <2>1
        <3>2. \A m \in k..n : path'[m] = path[m]
            BY <1>2, <2>1, <3>1
        <3> QED
            BY <1>4, <2>1, <3>1, <3>2 DEF PathInv
    <2>2. CASE n = Len(path) + 1 /\ k = n
        BY <1>4, <2>2
    <2>3. CASE n = Len(path) + 1 /\ k # n
        <3>1. k \in 1..Len(path) /\ Len(path) \in 1..Len(path) /\ path[k] = "ABORT"
            BY <1>2, <1>4, <2>3
        <3>2. state \in {"ABORT", "LAND", "FAULT"} \/ \E m \in k..Len(path) : path[m] = "IDLE"
            BY <1>1, <3>1 DEF PathInv
        <3>3. CASE state \in {"ABORT", "LAND", "FAULT"}
            <4>1. new \in {"ABORT", "LAND", "FAULT", "IDLE"}
                BY <3>3, WayOut
            <4>2. n \in k..n /\ path'[n] = new
                BY <1>2, <2>3, <3>1
            <4> QED
                BY <4>1, <4>2
        <3>4. CASE \E m \in k..Len(path) : path[m] = "IDLE"
            <4>1. PICK m \in k..Len(path) : path[m] = "IDLE"
                BY <3>4
            <4>2. m \in k..n /\ path'[m] = path[m]
                BY <1>2, <2>3, <3>1
            <4> QED
                BY <4>1, <4>2
        <3> QED
            BY <3>2, <3>3, <3>4
    <2> QED
        BY <1>3, <2>1, <2>2, <2>3
<1>5. \A i \in 1..Len(forwarded') :
        /\ forwarded'[i].after \in 1..Len(path')
        /\ path'[forwarded'[i].after] \in FlightStates
    <2>1. 1..Len(path) \subseteq 1..Len(path')
        BY <1>2
    <2> QED
        BY <1>2, <2>1 DEF PathInv
<1> QED
    BY <1>4, <1>5 DEF PathInv

\* A transition keeps the path, whether the machine allows it or raises.
LEMMA TransitionOnPath ==
    ASSUME TypeInv, PathInv, NEW new, Transition(new)
    PROVE  PathInv'
<1>1. CASE <<state, new>> \in Transitions
    <2>1. new \in MissionStates
        BY <1>1, TransitionsTyped
    <2> QED
        BY <1>1, <2>1, EnterOnPath DEF Transition
<1>2. CASE <<state, new>> \notin Transitions
    BY <1>2 DEF Transition, Raise, PathInv
<1> QED
    BY <1>1, <1>2

\* A setpoint is forwarded in the state the path ends in.
LEMMA SetpointOnPath ==
    ASSUME TypeInv, PathInv, TakeSetpoint
    PROVE  PathInv'
<1>1. CASE forwarded' = forwarded /\ path' = path
    BY <1>1 DEF PathInv
<1>2. CASE /\ state \in FlightStates /\ path' = path
           /\ forwarded' = Append(forwarded,
                 [received |-> Head(queue).session, session |-> session, after |-> Len(path)])
    <2> DEFINE e == [received |-> Head(queue).session, session |-> session, after |-> Len(path)]
    <2>1. e \in Setpoints
        <3>1. Head(queue) \in Waiting
            BY Popped DEF TakeSetpoint, Take, TypeInv
        <3>2. Head(queue).session \in Nat
            BY <3>1 DEF Waiting
        <3>3. session \in Nat /\ Len(path) \in Nat
            BY DEF TypeInv
        <3> QED
            BY <3>2, <3>3 DEF Setpoints
    <2>2. e.after = Len(path) /\ forwarded' = Append(forwarded, e)
        BY <1>2
    <2>3. Len(path) \in 1..Len(path) /\ path[Len(path)] \in FlightStates
        BY <1>2 DEF TypeInv
    <2> HIDE DEF e
    <2>4. forwarded \in Seq(Setpoints)
        BY DEF TypeInv
    <2>5. /\ Len(forwarded') = Len(forwarded) + 1 /\ Len(forwarded) \in Nat
          /\ \A i \in 1..Len(forwarded) : forwarded'[i] = forwarded[i]
          /\ forwarded'[Len(forwarded) + 1] = e
        BY <2>1, <2>2, <2>4, Appended
    <2>6. \A i \in 1..Len(forwarded') : i \in 1..Len(forwarded) \/ i = Len(forwarded) + 1
        BY <2>5
    <2> QED
        BY <1>2, <2>2, <2>3, <2>5, <2>6 DEF PathInv
<1> QED
    BY <1>1, <1>2 DEF TakeSetpoint, Raise

\* Every step keeps the path.
LEMMA StepOnPath == TypeInv /\ PathInv /\ [Next]_vars => PathInv'
<1> SUFFICES ASSUME TypeInv, PathInv, [Next]_vars
             PROVE  PathInv'
    OBVIOUS
<1>1. ASSUME NEW p \in lan, ReceiveServer(p)
      PROVE  PathInv'
    BY <1>1 DEF ReceiveServer, history, PathInv
<1>2. CASE ConnectFc
    BY <1>2 DEF ConnectFc, history, PathInv
<1>3. CASE Tick
    <2>1. "ABORT" \in MissionStates
        BY DEF MissionStates
    <2>2. CASE Begin
        BY <2>2 DEF Begin, history, PathInv
    <2>3. CASE TakeAssign \/ TakeTransition
        BY <2>3, TransitionOnPath DEF TakeAssign, TakeTransition
    <2>4. CASE TakeAbort
        BY <2>1, <2>4, EnterOnPath DEF TakeAbort
    <2>5. CASE TakeSetpoint
        BY <2>5, SetpointOnPath
    <2>6. CASE TakePing
        BY <2>6 DEF TakePing, PathInv
    <2>7. CASE End
        <3>1. CASE Silent
            BY <2>1, <2>7, <3>1, EnterOnPath DEF End
        <3>2. CASE ~Silent
            BY <2>7, <3>2 DEF End, PathInv
        <3> QED
            BY <3>1, <3>2
    <2> QED
        BY <1>3, <2>2, <2>3, <2>4, <2>5, <2>6, <2>7 DEF Tick
<1>4. ASSUME NEW kind, NEW asked, ServerSend(kind, asked)
      PROVE  PathInv'
    BY <1>4 DEF ServerSend, history, PathInv
<1>5. CASE PiRestart
    BY <1>5 DEF PiRestart, Fresh, PathInv
<1>6. CASE FcLine \/ Wait \/ UNCHANGED vars
    BY <1>6 DEF FcLine, Wait, vars, history, PathInv
<1> QED
    BY <1>1, <1>2, <1>3, <1>4, <1>5, <1>6 DEF Next

-----------------------------------------------------------------------------

\* The inductive invariant.
IInv == TypeInv /\ OrderInv /\ SessionInv /\ PathInv

LEMMA Inductive == Spec => []IInv
<1>1. Init => IInv
    BY InitTyped DEF Init, IInv, OrderInv, SessionInv, ForwardedInItsSession, PathInv
<1>2. IInv /\ [Next]_vars => IInv'
    BY StepTyped, StepInOrder, StepInSession, StepOnPath DEF IInv
<1> QED
    BY <1>1, <1>2, PTL DEF Spec

\* The service's variables keep their types, and what waits in the queue was
\* sent by the server and is not past the validator's memory.
THEOREM ServiceTypeCorrect == Spec => []TypeOK
<1>1. IInv => TypeOK
    BY DEF IInv, TypeInv, Waiting, OrderInv, TypeOK
<1> QED
    BY <1>1, Inductive, PTL

\* Whatever the LAN repeats, delays and reorders, one process of the service
\* executes each packet at most once and in the order of the server's numbers.
THEOREM HandledOnceInOrderHolds == Spec => []HandledOnceInOrder
<1>1. ASSUME IInv
      PROVE  HandledOnceInOrder
    <2> DEFINE rest == [i \in 1..Len(queue) |-> Number(queue[i].packet)]
               taken == handled \o rest
    <2>1. handled \in Seq(Nat \X Nat) /\ queue \in Seq(Waiting) /\ lan \subseteq Packets
        BY <1>1 DEF IInv, TypeInv
    <2>2. Len(handled) \in Nat /\ Len(queue) \in Nat
        BY <2>1
    <2>3. rest \in Seq(Nat \X Nat) /\ Len(rest) = Len(queue)
        <3>1. \A i \in 1..Len(queue) : queue[i] \in Waiting
            BY <2>1
        <3>2. \A i \in 1..Len(queue) : Number(queue[i].packet) \in Nat \X Nat
            BY <2>1, <3>1, NumbersTyped DEF Waiting
        <3> QED
            BY <2>2, <3>2
    <2>4. \A i \in 1..Len(queue) : rest[i] = Number(queue[i].packet)
        OBVIOUS
    <2> HIDE DEF rest
    <2>5. /\ Len(taken) = Len(handled) + Len(queue)
          /\ \A i \in 1..Len(taken) : taken[i] = IF i <= Len(handled) THEN handled[i]
                                                   ELSE rest[i - Len(handled)]
        BY <2>1, <2>3
    <2> HIDE DEF taken
    <2>6. ASSUME NEW i \in 1..Len(taken), NEW j \in 1..Len(taken), i < j
          PROVE  Before(taken[i], taken[j])
        <3>1. CASE j <= Len(handled)
            BY <1>1, <2>2, <2>5, <2>6, <3>1 DEF IInv, OrderInv
        <3>2. CASE i <= Len(handled) /\ j > Len(handled)
            <4>1. i \in 1..Len(handled) /\ j - Len(handled) \in 1..Len(queue)
                BY <2>2, <2>5, <3>2
            <4>2. /\ taken[i] = handled[i]
                  /\ taken[j] = Number(queue[j - Len(handled)].packet)
                BY <2>2, <2>4, <2>5, <3>2, <4>1
            <4> QED
                BY <1>1, <4>1, <4>2 DEF IInv, OrderInv
        <3>3. CASE i > Len(handled)
            <4>1. /\ i - Len(handled) \in 1..Len(queue) /\ j - Len(handled) \in 1..Len(queue)
                  /\ i - Len(handled) < j - Len(handled)
                BY <2>2, <2>5, <2>6, <3>3
            <4>2. /\ taken[i] = Number(queue[i - Len(handled)].packet)
                  /\ taken[j] = Number(queue[j - Len(handled)].packet)
                <5>1. ~(i <= Len(handled)) /\ ~(j <= Len(handled))
                    BY <2>2, <2>5, <2>6, <3>3
                <5>2. taken[i] = rest[i - Len(handled)] /\ taken[j] = rest[j - Len(handled)]
                    BY <2>5, <5>1
                <5> QED
                    BY <2>4, <4>1, <5>2
            <4>3. \A k, l \in 1..Len(queue) :
                    k < l => Before(Number(queue[k].packet), Number(queue[l].packet))
                BY <1>1 DEF IInv, OrderInv
            <4> QED
                BY <4>1, <4>2, <4>3
        <3> QED
            BY <2>2, <3>1, <3>2, <3>3
    <2> QED
        BY <2>6 DEF taken, rest, HandledOnceInOrder
<1> QED
    BY <1>1, Inductive, PTL

\* No setpoint reaches the FC in another FC session than the one in which
\* the server's packet was taken in.
THEOREM ForwardedInItsSessionHolds == Spec => []ForwardedInItsSession
<1>1. IInv => ForwardedInItsSession
    BY DEF IInv, SessionInv
<1> QED
    BY <1>1, Inductive, PTL

\* After an abort no setpoint reaches the FC before the vehicle lands or has
\* been back at IDLE.
THEOREM AbortStopsFlightHolds == Spec => []AbortStopsFlight
<1>1. ASSUME IInv
      PROVE  AbortStopsFlight
    <2>1. ASSUME NEW i \in 1..Len(forwarded), NEW k \in 1..forwarded[i].after, path[k] = "ABORT"
          PROVE  \/ path[forwarded[i].after] = "LAND"
                 \/ \E m \in k..forwarded[i].after : path[m] = "IDLE"
        <3> DEFINE n == forwarded[i].after
        <3>1. n \in 1..Len(path) /\ path[n] \in FlightStates /\ Len(path) \in Nat
            BY <1>1 DEF IInv, PathInv, TypeInv
        <3>2. k \in 1..Len(path) /\ k <= n
            BY <3>1
        <3>3. path[n] \in {"ABORT", "LAND", "FAULT"} \/ \E m \in k..n : path[m] = "IDLE"
            BY <1>1, <2>1, <3>1, <3>2 DEF IInv, PathInv
        <3>4. path[n] \in {"ABORT", "LAND", "FAULT"} => path[n] = "LAND"
            BY <3>1 DEF FlightStates
        <3> QED
            BY <3>3, <3>4
    <2> QED
        BY <2>1 DEF AbortStopsFlight
<1> QED
    BY <1>1, Inductive, PTL
=============================================================================
