-------------------------- MODULE PickupController --------------------------
(***************************************************************************)
(* The payload pickup firmware: the sampling loop (main.cpp), the pickup   *)
(* state machine (PickupController.cpp) and the relay it drives.           *)
(*                                                                         *)
(* The sensor (DistanceSensor.cpp) is abstracted to the range its filtered *)
(* distance falls in: "low" up to kPickupHeightCm, "high" from             *)
(* kRearmHeightCm on, "middle" between them, "invalid" for a reading out   *)
(* of its bounds.  Any range may follow any other.  Nothing survives a     *)
(* reset, so a reset begins a new behaviour.                               *)
(***************************************************************************)
EXTENDS Integers

CONSTANTS
    ClockMod,        \* 2^32, the range of millis()
    SamplePeriod,    \* kSamplePeriodMs
    StableTime       \* kStableTimeMs

ASSUME PickupAssumption ==
    /\ SamplePeriod \in Nat \ {0} /\ StableTime \in Nat \ {0}
    /\ ClockMod \in Nat /\ ClockMod > SamplePeriod + StableTime

VARIABLES
    now,             \* millis()
    lastSample,      \* lastSampleMs
    state,           \* state_
    started,         \* transitionStartedMs_
    magnetOn,        \* magnetOn_
    relay, led,      \* the outputs Actuators drives
    lowFor, highFor, \* history: time since the first of the low (high) samples
                     \* no other valid one interrupted, up to StableTime;
                     \* -1 when the last valid sample was not low (high)
    risen,           \* history: the drone was high for StableTime since the
                     \* last toggle, or there was none
    toggledFor,      \* history: time since the last toggle, up to 2 * StableTime
    seen             \* history: the last sample

firmware == <<lastSample, state, started, magnetOn, relay, led>>
history == <<lowFor, highFor, risen, toggledFor, seen>>
vars == <<now, firmware, history>>

Clock == 0..(ClockMod - 1)
Readings == {"low", "middle", "high", "invalid"}

\* Differences of uint32_t.
Elapsed(since) == IF now >= since THEN now - since ELSE now - since + ClockMod

\* Slips: a threshold crossing that commits at once; a crossing that does not
\* start its timer; one that starts it again at every sample.
AlwaysStable == TRUE
StartKept(next) == started
StartAgain(next) == IF next \in {"EnteringNear", "EnteringFar"} THEN now ELSE started

\* The time a crossing has to last is over.
Stable == Elapsed(started) >= StableTime

\* A crossing starts its timer, any other sample leaves it.
StartOf(next) ==
    IF next # state /\ next \in {"EnteringNear", "EnteringFar"} THEN now ELSE started

\* setMagnet is called on a change only.
Relay(changed, on) == IF changed THEN on ELSE relay

\* A crossing under way: undone, committed or going on.
Crossing(undone, back, done) == IF undone THEN back ELSE IF Stable THEN done ELSE state

\* The switch of update.
NextState(r) ==
    IF r = "invalid" THEN state
    ELSE IF state = "Far" THEN IF r = "low" THEN "EnteringNear" ELSE state
    ELSE IF state = "EnteringNear" THEN Crossing(r # "low", "Far", "Near")
    ELSE IF state = "Near" THEN IF r = "high" THEN "EnteringFar" ELSE state
    ELSE Crossing(r # "high", "Near", "Far")

-----------------------------------------------------------------------------

Init ==
    /\ now = 0 /\ lastSample = 0
    /\ state = "Far" /\ started = 0
    /\ magnetOn = FALSE /\ relay = FALSE /\ led = FALSE
    /\ lowFor = -1 /\ highFor = -1
    /\ risen = TRUE /\ toggledFor = 2 * StableTime /\ seen = "invalid"

\* The run of samples r continues, begins or ends.
RunOf(length, wanted, r) ==
    IF r = "invalid" THEN length
    ELSE IF r # wanted THEN -1
    ELSE IF length = -1 THEN 0 ELSE length

Due == Elapsed(lastSample) >= SamplePeriod

\* One run of loop that reads the sensor, takes the step and drives the outputs.
Sample(r) ==
    /\ Due
    /\ lastSample' = now
    /\ state' = NextState(r)
    /\ started' = StartOf(NextState(r))
    /\ LET toggled == state = "EnteringNear" /\ NextState(r) = "Near"
       IN  /\ magnetOn' = (magnetOn # toggled)
           /\ relay' = Relay(toggled, magnetOn')
           /\ risen' = (~toggled /\ (risen \/ (r = "high" /\ highFor = StableTime)))
           /\ toggledFor' = IF toggled THEN 0 ELSE toggledFor
    /\ led' = (NextState(r) = "Near")
    /\ lowFor' = RunOf(lowFor, "low", r)
    /\ highFor' = RunOf(highFor, "high", r)
    /\ seen' = r
    /\ UNCHANGED now

Longer(length, limit) == IF length = -1 \/ length = limit THEN length ELSE length + 1

\* A millisecond passes; loop may be late by any time.
Wait ==
    /\ now' = IF now = ClockMod - 1 THEN 0 ELSE now + 1
    /\ lowFor' = Longer(lowFor, StableTime)
    /\ highFor' = Longer(highFor, StableTime)
    /\ toggledFor' = Longer(toggledFor, 2 * StableTime)
    /\ UNCHANGED <<firmware, risen, seen>>

Next == Wait \/ \E r \in Readings : Sample(r)

Spec == Init /\ [][Next]_vars

\* loop does not block, so a sample that is due is taken before the next
\* millisecond.
PromptWait == ~Due /\ Wait
PromptNext == PromptWait \/ \E r \in Readings : Sample(r)
PromptSpec ==
    Init /\ [][PromptNext]_vars /\ WF_vars(PromptWait) /\ WF_vars(\E r \in Readings : Sample(r))

-----------------------------------------------------------------------------

\* Types; the relay always shows the state the controller believes in, and
\* the indicator the ground state of the last sample.
TypeOK ==
    /\ now \in Clock /\ lastSample \in Clock /\ started \in Clock
    /\ state \in {"Far", "EnteringNear", "Near", "EnteringFar"}
    /\ magnetOn \in BOOLEAN /\ relay = magnetOn
    /\ led = (state = "Near")
    /\ lowFor \in -1..StableTime /\ highFor \in -1..StableTime
    /\ risen \in BOOLEAN
    /\ toggledFor \in 0..(2 * StableTime)
    /\ seen \in Readings

\* The magnet switches only when the drone has been low for StableTime, seen
\* by a first and a last sample with no higher valid one between them, and
\* has been high for as long since the magnet last switched.
TogglesAreEarned ==
    [][relay' # relay => risen /\ lowFor = StableTime]_vars

\* Two switchings of the magnet are 2 * StableTime apart, whatever the sensor
\* says: the relay cannot chatter.
NoChatter == [][relay' # relay => toggledFor = 2 * StableTime]_vars

\* A drone the sensor goes on seeing low is in the end taken for near, and one
\* it goes on seeing high for far, also around the wrap of the clock.
AltitudeIsRecognised ==
    /\ <>[](seen = "low") => <>[](state = "Near")
    /\ <>[](seen = "high") => <>[](state = "Far")
=============================================================================
