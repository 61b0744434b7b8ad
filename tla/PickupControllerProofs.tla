---------------------- MODULE PickupControllerProofs ----------------------
(***************************************************************************)
(* What the pickup firmware keeps for every clock width, sampling period   *)
(* and debounce time.  TogglesAreEarned and NoChatter follow from an       *)
(* invariant that ties the timer of a crossing, taken modulo the clock, to *)
(* the time the samples really lasted.                                     *)
(***************************************************************************)
EXTENDS PickupController, TLAPS

\* The timer of the crossing under way is right until StableTime is over.
Measured(length) == length = StableTime \/ length = Elapsed(started)

FarFacts == state = "Far" => lowFor = -1 /\ risen /\ toggledFor >= StableTime
EnteringNearFacts ==
    state = "EnteringNear" =>
        lowFor >= 0 /\ Measured(lowFor) /\ risen /\ toggledFor >= StableTime + lowFor
NearFacts == state = "Near" => highFor = -1
EnteringFarFacts ==
    state = "EnteringFar" => highFor >= 0 /\ Measured(highFor) /\ toggledFor >= highFor

IInv == TypeOK /\ FarFacts /\ EnteringNearFacts /\ NearFacts /\ EnteringFarFacts

-----------------------------------------------------------------------------

\* Elapsed is a number of the clock, and 0 at the moment it is measured from.
LEMMA ElapsedInRange ==
    ASSUME now \in Clock, NEW since \in Clock
    PROVE  Elapsed(since) \in Clock /\ (since = now => Elapsed(since) = 0)
BY PickupAssumption DEF Elapsed, Clock

\* A millisecond more is measured as one more until the clock is once round.
LEMMA ElapsedGrows ==
    ASSUME now \in Clock, NEW since \in Clock, Elapsed(since) < ClockMod - 1,
           now' = IF now = ClockMod - 1 THEN 0 ELSE now + 1
    PROVE  (IF now' >= since THEN now' - since ELSE now' - since + ClockMod)
             = Elapsed(since) + 1
BY PickupAssumption DEF Elapsed, Clock

\* The invariant holds at power-on.
LEMMA InvInitial == Init => IInv
<1> SUFFICES ASSUME Init PROVE IInv
  OBVIOUS
<1>1. /\ {now, lastSample, started} \subseteq Clock
      /\ {lowFor, highFor} \subseteq -1..StableTime
      /\ toggledFor \in 0..(2 * StableTime) /\ toggledFor >= StableTime
  BY PickupAssumption DEF Init, Clock
<1>2. magnetOn \in BOOLEAN /\ relay = magnetOn /\ led = (state = "Near")
  BY DEF Init
<1>3. TypeOK
  BY <1>1, <1>2 DEF Init, TypeOK, Readings
<1> QED
  BY <1>1, <1>3 DEF Init, IInv, FarFacts, EnteringNearFacts, NearFacts, EnteringFarFacts

\* Time passing keeps the invariant: the runs and the timers grow together.
LEMMA WaitKeepsInv == IInv /\ Wait => IInv'
<1> SUFFICES ASSUME IInv, Wait PROVE IInv'
  OBVIOUS
<1> USE PickupAssumption
<1>1. TypeOK'
  BY DEF IInv, TypeOK, Wait, Longer, Clock, firmware, Readings
<1>2. ASSUME NEW length \in 0..StableTime, Measured(length)
      PROVE  Longer(length, StableTime) = StableTime
             \/ Longer(length, StableTime) = Elapsed(started)'
  <2>1. CASE length = StableTime
    BY <2>1 DEF Longer
  <2>2. CASE length < StableTime
    <3>1. length = Elapsed(started) /\ Elapsed(started) < ClockMod - 1
      BY <1>2, <2>2 DEF Measured
    <3>2. Elapsed(started)' = Elapsed(started) + 1
      BY <3>1, ElapsedGrows DEF IInv, TypeOK, Wait, Elapsed, firmware
    <3> QED
      BY <2>2, <3>1, <3>2 DEF Longer
  <2> QED
    BY <2>1, <2>2
<1>3. FarFacts' /\ NearFacts'
  BY DEF IInv, TypeOK, FarFacts, NearFacts, Wait, Longer, firmware
<1>4. EnteringNearFacts'
  <2> SUFFICES ASSUME state = "EnteringNear"
               PROVE lowFor' >= 0 /\ Measured(lowFor)' /\ risen' /\ toggledFor' >= StableTime + lowFor'
    BY DEF EnteringNearFacts, Wait, firmware
  <2>1. lowFor \in 0..StableTime /\ Measured(lowFor) /\ risen /\ toggledFor >= StableTime + lowFor
    BY DEF IInv, TypeOK, EnteringNearFacts
  <2>2. Measured(lowFor)'
    BY <1>2, <2>1 DEF Measured, Wait
  <2> QED
    BY <2>1, <2>2 DEF IInv, TypeOK, Wait, Longer
<1>5. EnteringFarFacts'
  <2> SUFFICES ASSUME state = "EnteringFar"
               PROVE highFor' >= 0 /\ Measured(highFor)' /\ toggledFor' >= highFor'
    BY DEF EnteringFarFacts, Wait, firmware
  <2>1. highFor \in 0..StableTime /\ Measured(highFor) /\ toggledFor >= highFor
    BY DEF IInv, TypeOK, EnteringFarFacts
  <2>2. Measured(highFor)'
    BY <1>2, <2>1 DEF Measured, Wait
  <2> QED
    BY <2>1, <2>2 DEF IInv, TypeOK, Wait, Longer
<1> QED
  BY <1>1, <1>3, <1>4, <1>5 DEF IInv

\* A committed crossing lasted StableTime, though the timer may have gone round.
LEMMA StableIsMeasured ==
    ASSUME NEW length \in 0..StableTime, Measured(length), Stable
    PROVE  length = StableTime
BY PickupAssumption DEF Measured, Stable

\* A sample keeps the invariant, in each state and for each range of distance.
LEMMA SampleKeepsInv == ASSUME IInv, NEW r \in Readings, Sample(r) PROVE IInv'
<1> USE PickupAssumption
<1>1. TypeOK'
  <2>1. StartOf(NextState(r)) \in Clock
    BY DEF StartOf, IInv, TypeOK
  <2>2. NextState(r) \in {"Far", "EnteringNear", "Near", "EnteringFar"}
    BY DEF NextState, Crossing, IInv, TypeOK, Readings
  <2>3. lowFor' \in -1..StableTime /\ highFor' \in -1..StableTime
    BY DEF Sample, RunOf, IInv, TypeOK, Readings
  <2>4. magnetOn' \in BOOLEAN /\ relay' = magnetOn'
    BY DEF Sample, Relay, IInv, TypeOK
  <2>5. toggledFor' \in 0..(2 * StableTime) /\ risen' \in BOOLEAN
    BY DEF Sample, IInv, TypeOK
  <2> QED
    BY <2>1, <2>2, <2>3, <2>4, <2>5 DEF Sample, IInv, TypeOK
<1>2. ASSUME StartOf(NextState(r)) = now PROVE Elapsed(started)' = 0
  BY <1>2 DEF Sample, Elapsed, IInv, TypeOK, Clock
<1>3. ASSUME StartOf(NextState(r)) = started PROVE Elapsed(started)' = Elapsed(started)
  BY <1>3 DEF Sample, Elapsed
<1>4. CASE r = "invalid"
  BY <1>1, <1>3, <1>4
  DEF Sample, NextState, Crossing, StartOf, RunOf, IInv, TypeOK, FarFacts, EnteringNearFacts, NearFacts,
      EnteringFarFacts, Measured
<1>5. CASE r # "invalid" /\ state = "Far"
  <2>0. lowFor = -1 /\ risen /\ toggledFor >= StableTime
    BY <1>5 DEF IInv, FarFacts
  <2>1. CASE r = "low"
    <3>1. state' = "EnteringNear" /\ lowFor' = 0 /\ risen' /\ toggledFor' = toggledFor
      BY <1>5, <2>0, <2>1 DEF Sample, NextState, RunOf
    <3>2. Elapsed(started)' = 0
      BY <1>2, <1>5, <2>1 DEF NextState, StartOf
    <3> QED
      BY <1>1, <2>0, <3>1, <3>2
      DEF IInv, TypeOK, FarFacts, EnteringNearFacts, NearFacts, EnteringFarFacts, Measured
  <2>2. CASE r # "low"
    BY <1>1, <1>5, <2>0, <2>2
    DEF Sample, NextState, RunOf, IInv, FarFacts, EnteringNearFacts, NearFacts, EnteringFarFacts
  <2> QED
    BY <2>1, <2>2
<1>6. CASE r # "invalid" /\ state = "EnteringNear"
  <2>0. lowFor >= 0 /\ Measured(lowFor) /\ risen /\ toggledFor >= StableTime + lowFor
    BY <1>6 DEF IInv, EnteringNearFacts
  <2>1. CASE r # "low"
    <3>1. state' = "Far" /\ lowFor' = -1 /\ risen' /\ toggledFor' = toggledFor
      BY <1>6, <2>0, <2>1 DEF Sample, NextState, Crossing, RunOf
    <3>2. toggledFor >= StableTime
      BY <2>0 DEF IInv, TypeOK
    <3> QED
      BY <1>1, <3>1, <3>2
      DEF IInv, FarFacts, EnteringNearFacts, NearFacts, EnteringFarFacts
  <2>2. CASE r = "low" /\ Stable
    BY <1>1, <1>6, <2>2
    DEF Sample, NextState, Crossing, RunOf, IInv, FarFacts, EnteringNearFacts, NearFacts, EnteringFarFacts
  <2>3. CASE r = "low" /\ ~Stable
    <3>0. NextState(r) = "EnteringNear"
      BY <1>6, <2>3 DEF NextState, Crossing
    <3>1. /\ state' = "EnteringNear" /\ lowFor' = lowFor
          /\ risen' /\ toggledFor' = toggledFor
      <4>1. lowFor # -1
        BY <2>0
      <4> QED
        BY <2>0, <2>3, <3>0, <4>1 DEF Sample, RunOf
    <3>2. StartOf(NextState(r)) = started
      BY <1>6, <2>3 DEF NextState, Crossing, StartOf
    <3>3. Measured(lowFor)'
      BY <1>3, <2>0, <3>1, <3>2 DEF Measured
    <3> QED
      BY <1>1, <2>0, <3>1, <3>3
      DEF IInv, FarFacts, EnteringNearFacts, NearFacts, EnteringFarFacts
  <2> QED
    BY <1>6, <2>1, <2>2, <2>3
<1>7. CASE r # "invalid" /\ state = "Near"
  <2>0. highFor = -1
    BY <1>7 DEF IInv, NearFacts
  <2>1. CASE r = "high"
    <3>1. state' = "EnteringFar" /\ highFor' = 0 /\ toggledFor' = toggledFor
      BY <1>7, <2>0, <2>1 DEF Sample, NextState, RunOf
    <3>2. Elapsed(started)' = 0
      BY <1>2, <1>7, <2>1 DEF NextState, StartOf
    <3> QED
      BY <1>1, <3>1, <3>2
      DEF IInv, TypeOK, FarFacts, EnteringNearFacts, NearFacts, EnteringFarFacts, Measured
  <2>2. CASE r # "high"
    BY <1>1, <1>7, <2>0, <2>2
    DEF Sample, NextState, RunOf, IInv, FarFacts, EnteringNearFacts, NearFacts, EnteringFarFacts
  <2> QED
    BY <2>1, <2>2
<1>8. CASE r # "invalid" /\ state = "EnteringFar"
  <2>1. CASE r # "high"
    BY <1>1, <1>8, <2>1
    DEF Sample, NextState, Crossing, RunOf, IInv, TypeOK, FarFacts, EnteringNearFacts, NearFacts, EnteringFarFacts
  <2>2. CASE r = "high" /\ Stable
    <3>1. highFor = StableTime
      BY <1>8, <2>2, StableIsMeasured DEF IInv, TypeOK, EnteringFarFacts
    <3> QED
      BY <1>1, <1>8, <2>2, <3>1
      DEF Sample, NextState, Crossing, RunOf, IInv, TypeOK, FarFacts, EnteringNearFacts, NearFacts, EnteringFarFacts
  <2>3. CASE r = "high" /\ ~Stable
    BY <1>1, <1>3, <1>8, <2>3
    DEF Sample, NextState, Crossing, StartOf, RunOf, IInv, TypeOK, FarFacts, EnteringNearFacts, NearFacts,
        EnteringFarFacts, Measured
  <2> QED
    BY <1>8, <2>1, <2>2, <2>3
<1> QED
  BY <1>4, <1>5, <1>6, <1>7, <1>8 DEF IInv, TypeOK

\* The invariant holds in every state of every run.
LEMMA InvHolds == Spec => []IInv
<1>1. IInv /\ [Next]_vars => IInv'
  <2> SUFFICES ASSUME IInv, [Next]_vars PROVE IInv'
    OBVIOUS
  <2>1. CASE Wait
    BY <2>1, WaitKeepsInv
  <2>2. ASSUME NEW r \in Readings, Sample(r) PROVE IInv'
    BY <2>2, SampleKeepsInv
  <2>3. CASE UNCHANGED vars
    BY <2>3 DEF vars, firmware, history, IInv, TypeOK, FarFacts, EnteringNearFacts, NearFacts,
                EnteringFarFacts, Measured, Elapsed
  <2> QED
    BY <2>1, <2>2, <2>3 DEF Next
<1> QED
  BY InvInitial, <1>1, PTL DEF Spec

\* The variables keep their types; the relay and the indicator show what the
\* controller believes (PickupController.cpp, main.cpp, Actuators.cpp).
THEOREM PickupTypeCorrect == Spec => []TypeOK
BY InvHolds, PTL DEF IInv

\* What is known of a step that switches the relay.
LEMMA SwitchFacts ==
    ASSUME IInv, [Next]_vars, relay' # relay
    PROVE  risen /\ lowFor = StableTime /\ toggledFor = 2 * StableTime
<1> USE PickupAssumption
<1>1. PICK r \in Readings : Sample(r)
  BY DEF Next, Wait, vars, firmware
<1>2. state = "EnteringNear" /\ NextState(r) = "Near"
  BY <1>1 DEF Sample, Relay, IInv, TypeOK
<1>3. Stable
  BY <1>2 DEF NextState, Crossing, Readings
<1>4. lowFor = StableTime
  BY <1>2, <1>3, StableIsMeasured DEF IInv, TypeOK, EnteringNearFacts
<1> QED
  BY <1>2, <1>4 DEF IInv, TypeOK, EnteringNearFacts

\* The magnet switches only after StableTime low and, since it last switched,
\* StableTime high (PickupController.cpp:16-37).
THEOREM TogglesAreEarnedHolds == Spec => TogglesAreEarned
<1>1. IInv /\ [Next]_vars => [relay' # relay => risen /\ lowFor = StableTime]_vars
  BY SwitchFacts
<1> QED
  BY InvHolds, <1>1, PTL DEF Spec, TogglesAreEarned

\* Two switchings are 2 * StableTime apart, so no noise makes the relay chatter
\* (PickupController.h).
THEOREM NoChatterHolds == Spec => NoChatter
<1>1. IInv /\ [Next]_vars => [relay' # relay => toggledFor = 2 * StableTime]_vars
  BY SwitchFacts
<1> QED
  BY InvHolds, <1>1, PTL DEF Spec, NoChatter
=============================================================================
