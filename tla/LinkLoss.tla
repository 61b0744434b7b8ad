------------------------------ MODULE LinkLoss ------------------------------
(***************************************************************************)
(* The endpoint over unbounded time, with a wrapping clock, when the       *)
(* companion may fall silent for good.  The 200 Hz task runs the watchdog  *)
(* at least once between two clock readings, however the readings and the  *)
(* frames interleave.                                                      *)
(***************************************************************************)
EXTENDS AerolinkEndpoint

VARIABLES
    linkUp,      \* frames still arrive
    serviced     \* the task ran at this clock reading

lossVars == <<vars, linkUp, serviced>>

LossInit == Init /\ enabled /\ lines = {} /\ linkUp = TRUE /\ serviced = FALSE

Service == Update /\ serviced' = TRUE /\ UNCHANGED linkUp

Arrive ==
    /\ linkUp
    /\ \E f \in Frames : Accept(f)
    /\ UNCHANGED <<linkUp, serviced>>

Wait == serviced /\ Tick /\ serviced' = FALSE /\ UNCHANGED linkUp

Lose == linkUp /\ linkUp' = FALSE /\ UNCHANGED <<vars, serviced>>

LossNext == Service \/ Arrive \/ Wait \/ Lose

\* Time passes and the scheduler keeps running the task; nothing is assumed
\* of the link.
LossSpec ==
    LossInit /\ [][LossNext]_lossVars /\ WF_lossVars(Service) /\ WF_lossVars(Wait)

\* Once the link is gone, the endpoint cannot be READY or ACTIVE for ever,
\* whatever state, timestamps and clock wrap it was caught in; it ends in a
\* state that asks for no setpoints (aerolink.c:161-162).
SilenceEndsAuthority ==
    [](~linkUp => <>[](state \notin {"READY", "ACTIVE"}))

\* A companion that asked for ACTIVE before it fell silent leaves a trace of
\* it: from ACTIVE, silence leads to DEGRADED or ABORTING, never back to READY.
SilentActiveIsReported ==
    [](state = "ACTIVE" /\ ~linkUp => <>[](state \in {"DEGRADED", "ABORTING"}))
=============================================================================
