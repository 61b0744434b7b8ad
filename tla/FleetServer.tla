---------------------------- MODULE FleetServer ----------------------------
(***************************************************************************)
(* The central server's fleet and mission state (core.py) over its SQLite  *)
(* repository (storage.py).  Every call runs under one lock, so calls do   *)
(* not interleave; but a call changes memory and database in several       *)
(* steps, each statement commits on its own, and the process can die       *)
(* between any two of them, or a statement can raise and leave the rest of *)
(* the call undone.  A restart reloads the database and reconciles.        *)
(*                                                                         *)
(* One step is one statement with the memory changes around it; its `ok`   *)
(* is FALSE when the statement raises.  All routes are the one             *)
(* create_mission builds, so the reservations of its nodes stand or fall   *)
(* together: `corridor` is their holder.  A mission is named by its epoch. *)
(* The audit log, telemetry fields nothing decides on and                  *)
(* Mission.authorized, which nothing reads, are left out.                  *)
(*                                                                         *)
(* Bounds: MaxEpoch on the missions created, MaxCrashes and MaxFailures on *)
(* the crashes and failing statements.                                     *)
(***************************************************************************)
EXTENDS Integers, FiniteSets

CONSTANTS
    Vehicles,       \* the vehicle ids of the registry
    Charges,        \* battery reports: TRUE for 30 % or more
    MaxEpoch,
    MaxCrashes,
    MaxFailures

ASSUME FleetAssumption ==
    /\ Vehicles \subseteq Nat /\ IsFiniteSet(Vehicles)
    /\ Charges \subseteq BOOLEAN
    /\ MaxEpoch \in Nat /\ MaxCrashes \in Nat /\ MaxFailures \in Nat

VARIABLES
    up,             \* the process runs
    vehicles,       \* FleetServer.vehicles
    missions,       \* FleetServer.missions
    corridor,       \* FleetServer.reservations
    epoch,          \* FleetServer.epoch
    call,           \* what the call holding the lock still has to do
    diskVehicles, diskMissions, diskEpoch,    \* the repository's tables
    crashes, failures

memory == <<up, vehicles, missions, corridor, epoch>>
disk == <<diskVehicles, diskMissions, diskEpoch>>
vars == <<memory, call, disk, crashes, failures>>

Epochs == 1 .. MaxEpoch
NoMission == 0
FleetStates == {"offline", "online", "degraded", "maintenance", "available", "assigned"}
MissionStates == {"ABSENT", "PLANNED", "AUTHORIZED", "ABORT_REQUESTED", "ABORTED", "COMPLETED"}

VehicleRecords ==
    [state : FleetStates, healthy : BOOLEAN, charged : BOOLEAN, mission : Epochs \union {NoMission}]
MissionRecords == [state : MissionStates, vehicles : SUBSET Vehicles]

Registry == [v \in Vehicles |->
    [state |-> "offline", healthy |-> FALSE, charged |-> FALSE, mission |-> NoMission]]
NoMissions == [e \in Epochs |-> [state |-> "ABSENT", vehicles |-> {}]]
Idle == [at |-> "idle", mission |-> NoMission, left |-> {}]

\* No call holds the lock: what clients can see between calls.
Ready == up /\ call = Idle

\* A slip: a mission that can be completed without having been authorized.
LegalUnauthorized(from, to) ==
    \/ <<from, to>> = <<"PLANNED", "COMPLETED">>
    \/ <<from, to>> \in {<<"PLANNED", "AUTHORIZED">>, <<"AUTHORIZED", "COMPLETED">>}
    \/ to = "ABORT_REQUESTED" /\ from \in {"PLANNED", "AUTHORIZED"}
    \/ to = "ABORTED" /\ from = "ABORT_REQUESTED"

\* MISSION_TRANSITIONS
Legal(from, to) ==
    <<from, to>> \in
      { <<"PLANNED", "AUTHORIZED">>, <<"PLANNED", "ABORT_REQUESTED">>,
        <<"AUTHORIZED", "ABORT_REQUESTED">>, <<"AUTHORIZED", "COMPLETED">>,
        <<"ABORT_REQUESTED", "ABORTED">> }

\* Slips: forcing again what is being aborted already, and forgetting the
\* missions nobody has authorized yet.
AllUnfinished == {"PLANNED", "AUTHORIZED", "ABORT_REQUESTED"}
OnlyAuthorized == {"AUTHORIZED"}

\* The states _reconcile forces to ABORT_REQUESTED.
Interrupted == {"PLANNED", "AUTHORIZED"}

Live(e) == missions[e].state \in {"PLANNED", "AUTHORIZED"}

\* A slip: a release that keeps the pointer to the mission.
StillPointing(r) == [r EXCEPT !.state = IF r.healthy THEN "available" ELSE "offline"]

\* A vehicle given back by _release or _reconcile.
Freed(r) == [r EXCEPT !.mission = NoMission, !.state = IF r.healthy THEN "available" ELSE "offline"]

Lowest(S) == {v \in S : \A u \in S : v <= u}

\* The statement of a step succeeds, or is one of at most MaxFailures that
\* raise.
Statement(ok) ==
    /\ ~ok => failures < MaxFailures
    /\ failures' = IF ok THEN failures ELSE failures + 1

-----------------------------------------------------------------------------

Init ==
    /\ up = TRUE
    /\ vehicles = Registry
    /\ missions = NoMissions
    /\ corridor = NoMission
    /\ epoch = 0
    /\ call = Idle
    /\ diskVehicles = Registry
    /\ diskMissions = NoMissions
    /\ diskEpoch = 0
    /\ crashes = 0
    /\ failures = 0

\* The process is gone and its memory with it.
Dead ==
    /\ up' = FALSE
    /\ vehicles' = Registry
    /\ missions' = NoMissions
    /\ corridor' = NoMission
    /\ epoch' = 0
    /\ call' = Idle

\* A call that writes one vehicle: r in memory, and _persist_vehicle.
SetVehicle(v, r, ok) ==
    /\ Statement(ok)
    /\ vehicles' = [vehicles EXCEPT ![v] = r]
    /\ diskVehicles' = IF ok THEN [diskVehicles EXCEPT ![v] = r] ELSE diskVehicles
    /\ UNCHANGED <<up, missions, corridor, epoch, diskMissions, diskEpoch, crashes>>

\* Telemetry with a battery reading, and telemetry of a simulated node: a
\* vehicle in maintenance ignores both.
Ingest(v, healthy, charged, ok) ==
    /\ Ready
    /\ vehicles[v].state # "maintenance"
    /\ SetVehicle(v, [vehicles[v] EXCEPT
           !.healthy = healthy,
           !.charged = charged,
           !.state = IF vehicles[v].mission # NoMission
                     THEN IF healthy THEN "assigned" ELSE "degraded"
                     ELSE IF healthy /\ charged THEN "available" ELSE "degraded"], ok)
    /\ UNCHANGED call

UpdateSimNode(v, healthy, ok) ==
    /\ Ready
    /\ vehicles[v].state # "maintenance"
    /\ SetVehicle(v, [vehicles[v] EXCEPT
           !.healthy = healthy,
           !.state = IF vehicles[v].mission # NoMission
                     THEN IF healthy THEN "assigned" ELSE "degraded"
                     ELSE IF healthy THEN "available" ELSE "offline"], ok)
    /\ UNCHANGED call

SetMaintenance(v, ok) ==
    /\ Ready
    /\ vehicles[v].mission = NoMission
    /\ SetVehicle(v, [vehicles[v] EXCEPT !.state = "maintenance"], ok)
    /\ UNCHANGED call

\* clear_maintenance asks nothing of the state it leaves.
ClearMaintenance(v, ok) ==
    /\ Ready
    /\ SetVehicle(v, [vehicles[v] EXCEPT !.state = "offline"], ok)
    /\ UNCHANGED call

\* allocate: the lowest numbers among the vehicles fit to fly.
Eligible == {v \in Vehicles : vehicles[v].state = "available" /\ vehicles[v].healthy}
Allocated(count) ==
    {v \in Eligible : Cardinality({u \in Eligible : u < v}) < count}

\* Slips: routes that overlap are not refused, and an epoch that is never
\* written down.
CorridorShared(e) == TRUE
EpochInMemory(e) == diskEpoch

\* The route of mission e meets no reservation.
RouteIsFree(e) == corridor = NoMission

\* set_meta writes the new epoch.
EpochWritten(e) == e

\* create_mission up to the mission's entry and its reservations; its
\* vehicles and its row are still to be written.
CreateMission(count, ok) ==
    /\ Ready
    /\ Cardinality(Eligible) >= count
    /\ RouteIsFree(epoch + 1)
    /\ epoch < MaxEpoch
    /\ Statement(ok)
    /\ epoch' = epoch + 1
    /\ IF ok
       THEN /\ diskEpoch' = EpochWritten(epoch')
            /\ missions' = [missions EXCEPT ![epoch'] =
                              [state |-> "PLANNED", vehicles |-> Allocated(count)]]
            /\ corridor' = epoch'
            /\ call' = [at |-> "assign", mission |-> epoch', left |-> Allocated(count)]
       ELSE UNCHANGED <<diskEpoch, missions, corridor, call>>
    /\ UNCHANGED <<up, vehicles, diskVehicles, diskMissions, crashes>>

\* The rest of the call, or nothing when the statement raised.
Rest(v, ok) == IF ok THEN [call EXCEPT !.left = @ \ {v}] ELSE Idle

AssignNext(v, ok) ==
    /\ call.at = "assign"
    /\ v \in Lowest(call.left)
    /\ SetVehicle(v, [vehicles[v] EXCEPT !.state = "assigned", !.mission = call.mission], ok)
    /\ call' = Rest(v, ok)

\* _persist_mission, the last statement of the call.
SaveMission(ok) ==
    /\ call.at \in {"assign", "release"}
    /\ call.left = {}
    /\ Statement(ok)
    /\ diskMissions' = IF ok THEN [diskMissions EXCEPT ![call.mission] = missions[call.mission]]
                       ELSE diskMissions
    /\ call' = Idle
    /\ UNCHANGED <<memory, diskVehicles, diskEpoch, crashes>>

\* A slip: a transition that is not written.
AdvanceUnwritten(e, to, ok) ==
    /\ Ready
    /\ Legal(missions[e].state, to)
    /\ Statement(ok)
    /\ missions' = [missions EXCEPT ![e].state = to]
    /\ UNCHANGED <<up, vehicles, corridor, epoch, call, disk, crashes>>

\* authorize and request_abort: one transition, one row.
Advance(e, to, ok) ==
    /\ Ready
    /\ Legal(missions[e].state, to)
    /\ Statement(ok)
    /\ missions' = [missions EXCEPT ![e].state = to]
    /\ diskMissions' = IF ok THEN [diskMissions EXCEPT ![e] = missions'[e]] ELSE diskMissions
    /\ UNCHANGED <<up, vehicles, corridor, epoch, call, diskVehicles, diskEpoch, crashes>>

Authorize(e, ok) == Advance(e, "AUTHORIZED", ok)
RequestAbort(e, ok) == Advance(e, "ABORT_REQUESTED", ok)

\* A slip: releasing whatever the mission was created with.
EverHeld(e) == missions[e].vehicles

\* The vehicles _release frees: those that still point back to the mission.
Held(e) == {v \in missions[e].vehicles : vehicles[v].mission = e}

\* A slip: the mission's row written before its vehicles are released.
EndSavedFirst(e, to) ==
    /\ Ready
    /\ Legal(missions[e].state, to)
    /\ missions' = [missions EXCEPT ![e].state = to]
    /\ diskMissions' = [diskMissions EXCEPT ![e] = missions'[e]]
    /\ corridor' = IF corridor = e THEN NoMission ELSE corridor
    /\ call' = [at |-> "release", mission |-> e, left |-> Held(e)]
    /\ UNCHANGED <<up, vehicles, epoch, diskVehicles, diskEpoch, crashes, failures>>

\* confirm_abort and complete_mission: the transition and the reservations,
\* then _release's vehicles, then the mission's row.
End(e, to) ==
    /\ Ready
    /\ Legal(missions[e].state, to)
    /\ missions' = [missions EXCEPT ![e].state = to]
    /\ corridor' = IF corridor = e THEN NoMission ELSE corridor
    /\ call' = [at |-> "release", mission |-> e, left |-> Held(e)]
    /\ UNCHANGED <<up, vehicles, epoch, disk, crashes, failures>>

ConfirmAbort(e) == End(e, "ABORTED")
CompleteMission(e) == End(e, "COMPLETED")

ReleaseNext(v, ok) ==
    /\ call.at = "release"
    /\ v \in Lowest(call.left)
    /\ SetVehicle(v, Freed(vehicles[v]), ok)
    /\ call' = Rest(v, ok)

-----------------------------------------------------------------------------

Crash ==
    /\ up
    /\ crashes < MaxCrashes
    /\ crashes' = crashes + 1
    /\ Dead
    /\ UNCHANGED <<disk, failures>>

\* The constructor loads the tables; reservations start empty.
Restart ==
    /\ ~up
    /\ up' = TRUE
    /\ vehicles' = diskVehicles
    /\ missions' = diskMissions
    /\ corridor' = NoMission
    /\ epoch' = diskEpoch
    /\ call' = [at |-> "reconcile", mission |-> NoMission,
                left |-> {e \in Epochs : diskMissions[e].state \in Interrupted}]
    /\ UNCHANGED <<disk, crashes, failures>>

\* One mission of the previous run is forced to ABORT_REQUESTED.  An illegal
\* transition or a failing statement raises out of the constructor.
ReconcileMission(e, ok) ==
    /\ call.at = "reconcile"
    /\ e \in call.left
    /\ Statement(ok)
    /\ IF ok /\ Legal(missions[e].state, "ABORT_REQUESTED")
       THEN /\ missions' = [missions EXCEPT ![e].state = "ABORT_REQUESTED"]
            /\ diskMissions' = [diskMissions EXCEPT ![e] = missions'[e]]
            /\ call' = [call EXCEPT !.left = @ \ {e}]
            /\ UNCHANGED <<up, vehicles, corridor, epoch>>
       ELSE Dead /\ UNCHANGED diskMissions
    /\ UNCHANGED <<diskVehicles, diskEpoch, crashes>>

\* The vehicles of every mission left in ABORT_REQUESTED, this restart's or
\* an operator's never confirmed.
HeldByAborting ==
    {v \in Vehicles : /\ vehicles[v].mission # NoMission
                      /\ missions[vehicles[v].mission].state = "ABORT_REQUESTED"}

StartFreeing ==
    /\ call.at = "reconcile"
    /\ call.left = {}
    /\ call' = [at |-> "free", mission |-> NoMission, left |-> HeldByAborting]
    /\ UNCHANGED <<memory, disk, crashes, failures>>

FreeNext(v, ok) ==
    /\ call.at = "free"
    /\ v \in Lowest(call.left)
    /\ Statement(ok)
    /\ IF ok
       THEN /\ vehicles' = [vehicles EXCEPT ![v] = Freed(@)]
            /\ diskVehicles' = [diskVehicles EXCEPT ![v] = vehicles'[v]]
            /\ call' = Rest(v, ok)
            /\ UNCHANGED <<up, missions, corridor, epoch>>
       ELSE Dead /\ UNCHANGED diskVehicles
    /\ UNCHANGED <<diskMissions, diskEpoch, crashes>>

BecomeReady ==
    /\ call.at = "free"
    /\ call.left = {}
    /\ call' = Idle
    /\ UNCHANGED <<memory, disk, crashes, failures>>

-----------------------------------------------------------------------------

\* What a client may call.
Request ==
    \/ \E v \in Vehicles, ok \in BOOLEAN :
          \/ \E healthy \in BOOLEAN, charged \in Charges : Ingest(v, healthy, charged, ok)
          \/ \E healthy \in BOOLEAN : UpdateSimNode(v, healthy, ok)
          \/ SetMaintenance(v, ok)
          \/ ClearMaintenance(v, ok)
    \/ \E count \in 1 .. Cardinality(Vehicles), ok \in BOOLEAN : CreateMission(count, ok)
    \/ \E e \in Epochs, ok \in BOOLEAN : Authorize(e, ok) \/ RequestAbort(e, ok)
    \/ \E e \in Epochs : ConfirmAbort(e) \/ CompleteMission(e)

\* The call under way goes on.
Continue ==
    \/ \E v \in Vehicles, ok \in BOOLEAN :
          AssignNext(v, ok) \/ ReleaseNext(v, ok) \/ FreeNext(v, ok)
    \/ \E e \in Epochs, ok \in BOOLEAN : ReconcileMission(e, ok)
    \/ \E ok \in BOOLEAN : SaveMission(ok)
    \/ StartFreeing
    \/ BecomeReady

Next == Request \/ Continue \/ Crash \/ Restart

Spec == Init /\ [][Next]_vars

\* A call that runs goes on, and a supervisor restarts a dead server.
FairSpec == Spec /\ WF_vars(Continue) /\ WF_vars(Restart)

-----------------------------------------------------------------------------

\* Every variable keeps its type, and a call holds only work it can do.
TypeOK ==
    /\ up \in BOOLEAN
    /\ vehicles \in [Vehicles -> VehicleRecords]
    /\ missions \in [Epochs -> MissionRecords]
    /\ corridor \in Epochs \union {NoMission}
    /\ epoch \in 0 .. MaxEpoch
    /\ call \in [at : {"idle", "assign", "release", "reconcile", "free"},
                  mission : Epochs \union {NoMission},
                  left : SUBSET (Epochs \union Vehicles)]
    /\ call.left \subseteq IF call.at = "reconcile" THEN Epochs ELSE Vehicles
    /\ call.at \in {"assign", "release"} => call.mission \in Epochs
    /\ diskVehicles \in [Vehicles -> VehicleRecords]
    /\ diskMissions \in [Epochs -> MissionRecords]
    /\ diskEpoch \in 0 .. MaxEpoch
    /\ crashes \in 0 .. MaxCrashes
    /\ failures \in 0 .. MaxFailures

\* The allocator takes "available" for "belongs to no mission"; no order of
\* telemetry, maintenance, release, crash and restart may part the two, in
\* memory or in the table a restart loads (core.py:122, :136, :166, :187).
AvailableIsFree ==
    \A v \in Vehicles :
        /\ vehicles[v].state = "available" => vehicles[v].mission = NoMission
        /\ diskVehicles[v].state = "available" => diskVehicles[v].mission = NoMission

\* A mission that may fly holds the corridor, so there is never a second one,
\* also with missions of an earlier run still waiting for their abort to be
\* confirmed (core.py:144-145, :150, :154-155).
CorridorExclusive ==
    \A e \in Epochs : Live(e) /\ call.at # "reconcile" => corridor = e

\* Whatever is confirmed late about an older mission, a mission that may fly
\* keeps every vehicle its record names (the guard of core.py:166).
LiveMissionKeepsVehicles ==
    Ready /\ failures = 0 =>
        \A e \in Epochs : Live(e) =>
            \A v \in missions[e].vehicles : vehicles[v].mission = e

\* A mission that is over holds no vehicle, whenever the process died on the
\* way: its row is written after its vehicles are given back
\* (core.py:178, :181).
FinishedHoldsNothing ==
    Ready /\ failures = 0 =>
        \A v \in Vehicles : vehicles[v].mission # NoMission =>
            missions[vehicles[v].mission].state \notin {"ABORTED", "COMPLETED"}

\* The epoch is written before anything that names the mission, so no crash
\* or failing statement lets an id be used twice (core.py:146-147).
MissionIdsAreFresh ==
    up => \A e \in Epochs : e > epoch =>
        /\ missions[e].state = "ABSENT" /\ diskMissions[e].state = "ABSENT"
        /\ \A v \in Vehicles : e \notin {vehicles[v].mission, diskVehicles[v].mission}

\* When reconciliation is through with the missions, none of an earlier run
\* can fly, and a crash of the new run would find that too (core.py:106-110).
OldMissionsAreNotResumed ==
    call.at = "free" =>
        \A e \in Epochs : {missions[e].state, diskMissions[e].state}
                             \intersect {"PLANNED", "AUTHORIZED"} = {}

\* Without failing statements, what clients see between calls is what a
\* restart would load.
SettledIsDurable ==
    Ready /\ failures = 0 =>
        vehicles = diskVehicles /\ missions = diskMissions /\ epoch = diskEpoch

\* The states Legal can reach from s.
Later(s) ==
    CASE s = "ABSENT" -> MissionStates
      [] s = "PLANNED" -> {"AUTHORIZED", "ABORT_REQUESTED", "ABORTED", "COMPLETED"}
      [] s = "AUTHORIZED" -> {"ABORT_REQUESTED", "ABORTED", "COMPLETED"}
      [] s = "ABORT_REQUESTED" -> {"ABORTED"}
      [] OTHER -> {}

\* Even with failing statements, no row ever moves to a state that the
\* transitions cannot reach from the one it had, over any number of restarts.
RowsMoveForward ==
    [][\A e \in Epochs :
          diskMissions'[e].state \in {diskMissions[e].state} \union Later(diskMissions[e].state)]_vars

\* What the database tells of the missions follows the server_mission machine
\* step by step, crashes and restarts included.
Lifecycle == INSTANCE MissionLifecycle
    WITH Missions <- Epochs, mission <- [e \in Epochs |-> diskMissions[e].state]
DurableLifecycle == Lifecycle!Spec

\* The server is ready again after every call and every crash: reconciling
\* does not choke on what an earlier run left, aborts half done included.
AlwaysReadyAgain == []<>Ready

-----------------------------------------------------------------------------

\* docs/architecture.md:81-83: after a restart the vehicles of the missions
\* left from a previous run are released.
RestartReleasesAll ==
    [][call.at = "free" /\ Ready' =>
          \A v \in Vehicles : vehicles'[v].mission = NoMission]_vars
=============================================================================
