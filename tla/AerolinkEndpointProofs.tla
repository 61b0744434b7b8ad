----------------------- MODULE AerolinkEndpointProofs -----------------------
(***************************************************************************)
(* Proofs about the flight controller's endpoint, for any number of        *)
(* companion sessions, any clock and sequence width, any timeouts and any  *)
(* frames.                                                                 *)
(***************************************************************************)
EXTENDS AerolinkEndpoint, TLAPS

USE NoSessionAssumption, ClockAssumption, FrameAssumption

-----------------------------------------------------------------------------

\* Arithmetic modulo m stays below m.
LEMMA MinusInRange ==
    ASSUME NEW m \in Nat \ {0}, NEW a \in 0 .. m - 1, NEW b \in 0 .. m - 1
    PROVE  Minus(a, b, m) \in 0 .. m - 1
BY DEF Minus

\* So does a sum, as the C addition of two clock readings wraps.
LEMMA PlusInRange ==
    ASSUME NEW m \in Nat \ {0}, NEW a \in 0 .. m - 1, NEW b \in 0 .. m
    PROVE  Plus(a, b, m) \in 0 .. m - 1
BY DEF Plus

-----------------------------------------------------------------------------

\* A frame that is executed asks for a state of the machine, if for any.
LEMMA ModeIsAState ==
    ASSUME NEW f \in Frames, f.type = "SET_MODE"
    PROVE  f.mode \in States
<1>1. f \in ModeFrames
  BY DEF Frames, HelloFrames, ModeFrames, OtherFrames, DamagedFrames
<1> QED
  BY <1>1 DEF ModeFrames

\* The sequence number of a control frame fits its slot.
LEMMA SequenceIsANumber ==
    ASSUME NEW f \in Frames, f.type \in Slots
    PROVE  f.sequence \in 0 .. SeqMod - 1
<1>1. f \in ModeFrames \union OtherFrames
  BY DEF Slots, Frames, HelloFrames, DamagedFrames
<1> QED
  BY <1>1 DEF ModeFrames, OtherFrames

\* A HELLO carries a session nonce and a time of the sender's clock.
LEMMA HelloIsWellFormed ==
    ASSUME NEW f \in Frames, f.type = "HELLO"
    PROVE  f.nonce \in Nonces /\ f.uptimeMs \in Clock
<1>1. f \in HelloFrames
  BY DEF Frames, HelloFrames, ModeFrames, OtherFrames, DamagedFrames
<1> QED
  BY <1>1 DEF HelloFrames, Clock

\* The endpoint's variables keep their types (aerolink.h:58-72).
THEOREM TypeCorrect == Spec => []TypeOK
<1>1. Init => TypeOK
  BY DEF Init, TypeOK, States, Clock
<1>2. TypeOK /\ [Next]_vars => TypeOK'
  <2> SUFFICES ASSUME TypeOK, [Next]_vars
               PROVE  TypeOK'
    OBVIOUS
  <2> USE DEF TypeOK
  <2>1. ASSUME NEW f \in Frames, AcceptHello(f)
        PROVE  TypeOK'
    <3>1. f.nonce \in Nonces /\ f.uptimeMs \in Clock
      BY <2>1, HelloIsWellFormed DEF AcceptHello
    <3>2. peerClockOffsetMs' \in Clock
      BY <2>1, <3>1, MinusInRange DEF AcceptHello, Clock
    <3> QED
      BY <2>1, <3>1, <3>2 DEF AcceptHello, States
  <2>2. ASSUME NEW f \in Frames, AcceptOverridden(f)
        PROVE  TypeOK'
    BY <2>2 DEF AcceptOverridden, States
  <2>3. ASSUME NEW f \in Frames, AcceptControl(f)
        PROVE  TypeOK'
    <3>1. f.sequence \in 0 .. SeqMod - 1
      BY <2>3, SequenceIsANumber DEF AcceptControl, Executes
    <3>2. state' \in States
      BY <2>3, ModeIsAState DEF AcceptControl
    <3>3. lastSequence' \in [Slots -> (0 .. SeqMod - 1) \union {NoSequence}]
      BY <2>3, <3>1 DEF AcceptControl
    <3> QED
      BY <2>3, <3>2, <3>3 DEF AcceptControl
  <2>4. ASSUME NEW f \in Frames, RejectFrame(f)
        PROVE  TypeOK'
    BY <2>4 DEF RejectFrame, vars, endpoint
  <2>5. CASE Update
    BY <2>5 DEF Update, UpdatedState, States
  <2>6. CASE SetLines
    BY <2>6 DEF SetLines, endpoint
  <2>7. CASE Tick
    <3>1. now' \in Clock
      BY <2>7, PlusInRange DEF Tick, Clock
    <3> QED
      BY <2>7, <3>1 DEF Tick, endpoint
  <2>8. CASE UNCHANGED vars
    BY <2>8 DEF vars, endpoint
  <2> QED
    BY <2>1, <2>2, <2>3, <2>4, <2>5, <2>6, <2>7, <2>8 DEF Next, Accept
<1> QED
  BY <1>1, <1>2, PTL DEF Spec

-----------------------------------------------------------------------------

\* No frame, override or watchdog run gives an endpoint authority before a
\* companion has bound a session, or with the feature off.
THEOREM PowerNeedsSessionHolds == Spec => []PowerNeedsSession
<1>1. Init => PowerNeedsSession
  BY DEF Init, PowerNeedsSession
<1>2. TypeOK /\ PowerNeedsSession /\ [Next]_vars => PowerNeedsSession'
  <2> SUFFICES ASSUME TypeOK, PowerNeedsSession, [Next]_vars
               PROVE  PowerNeedsSession'
    OBVIOUS
  <2> USE DEF PowerNeedsSession
  <2>1. ASSUME NEW f \in Frames, AcceptHello(f)
        PROVE  PowerNeedsSession'
    BY <2>1, HelloIsWellFormed DEF AcceptHello
  <2>2. ASSUME NEW f \in Frames, AcceptOverridden(f)
        PROVE  PowerNeedsSession'
    BY <2>2 DEF AcceptOverridden, SessionBound
  <2>3. ASSUME NEW f \in Frames, AcceptControl(f)
        PROVE  PowerNeedsSession'
    BY <2>3 DEF AcceptControl, Executes, SessionBound
  <2>4. ASSUME NEW f \in Frames, RejectFrame(f)
        PROVE  PowerNeedsSession'
    BY <2>4 DEF RejectFrame, vars, endpoint
  <2>5. CASE Update
    BY <2>5 DEF Update, UpdatedState
  <2>6. CASE SetLines \/ Tick \/ UNCHANGED vars
    BY <2>6 DEF SetLines, Tick, vars, endpoint
  <2> QED
    BY <2>1, <2>2, <2>3, <2>4, <2>5, <2>6 DEF Next, Accept
<1> QED
  BY <1>1, <1>2, TypeCorrect, PTL DEF Spec

-----------------------------------------------------------------------------

\* The mode requests the endpoint grants climb one rung at most.
LEMMA GrantsClimbOneRung ==
    ASSUME NEW from \in States, NEW to \in States, TransitionAllowed(from, to)
    PROVE  Authority!Rung(to) <= Authority!Rung(from) + 1
BY DEF States, TransitionAllowed, Authority!Rung

\* Every step of the endpoint is a step of AuthoritySpec or changes nothing
\* AuthoritySpec sees: authority rises one rung at a time, in the bound
\* session, with no override line asserted.
THEOREM EndpointKeepsAuthorityPromise == Spec => AuthorityPromise
<1>1. Init => Authority!Init
  BY DEF Init, Authority!Init, Lines, Authority!Lines
<1>2. TypeOK /\ [Next]_vars => [Authority!Next]_(Authority!vars)
  <2> SUFFICES ASSUME TypeOK, [Next]_vars
               PROVE  [Authority!Next]_(Authority!vars)
    OBVIOUS
  <2> USE DEF TypeOK
  <2>1. ASSUME NEW f \in Frames, AcceptHello(f)
        PROVE  Authority!Bind
    BY <2>1, HelloIsWellFormed DEF AcceptHello, Authority!Bind
  <2>2. ASSUME NEW f \in Frames, AcceptOverridden(f)
        PROVE  [Authority!Next]_(Authority!vars)
    <3>1. CASE state' = state
      BY <2>2, <3>1 DEF AcceptOverridden, Authority!vars
    <3>2. CASE state' # state
      <4>1. Authority!Withdraw
        BY <2>2, <3>2
           DEF AcceptOverridden, Authority!Withdraw, Authority!Rung, States, Authority!States
      <4> QED
        BY <4>1 DEF Authority!Next
    <3> QED
      BY <3>1, <3>2
  <2>3. ASSUME NEW f \in Frames, AcceptControl(f)
        PROVE  [Authority!Next]_(Authority!vars)
    <3>1. CASE f.type = "SET_MODE"
      <4>1. TransitionAllowed(state, f.mode) /\ f.mode \in States /\ state' = f.mode
        BY <2>3, <3>1, ModeIsAState
           DEF AcceptControl, Executes, ControlVerdict, SequenceValidate
      <4>2. Authority!Rung(state') <= Authority!Rung(state) + 1
        BY <4>1, GrantsClimbOneRung
      <4>3. Authority!Grant
        BY <2>3, <4>1, <4>2
           DEF AcceptControl, Executes, SessionBound, Authority!Grant, States, Authority!States
      <4> QED
        BY <4>3 DEF Authority!Next
    <3>2. CASE f.type # "SET_MODE"
      BY <2>3, <3>2 DEF AcceptControl, Authority!vars
    <3> QED
      BY <3>1, <3>2
  <2>4. ASSUME NEW f \in Frames, RejectFrame(f)
        PROVE  UNCHANGED Authority!vars
    BY <2>4 DEF RejectFrame, vars, endpoint, Authority!vars
  <2>5. CASE Update
    <3>1. CASE state' = state
      BY <2>5, <3>1 DEF Update, Authority!vars
    <3>2. CASE state' # state
      <4>1. Authority!Withdraw
        BY <2>5, <3>2
           DEF Update, UpdatedState, Authority!Withdraw, Authority!Rung, States, Authority!States
      <4> QED
        BY <4>1 DEF Authority!Next
    <3> QED
      BY <3>1, <3>2
  <2>6. CASE SetLines
    <3>1. Authority!SetLines
      BY <2>6 DEF SetLines, endpoint, Authority!SetLines, Lines, Authority!Lines
    <3> QED
      BY <3>1 DEF Authority!Next
  <2>7. CASE Tick \/ UNCHANGED vars
    BY <2>7 DEF Tick, vars, endpoint, Authority!vars
  <2> QED
    BY <2>1, <2>2, <2>3, <2>4, <2>5, <2>6, <2>7 DEF Next, Accept, Authority!Next
<1> QED
  BY <1>1, <1>2, TypeCorrect, PTL DEF Spec, AuthorityPromise, Authority!Spec
=============================================================================
