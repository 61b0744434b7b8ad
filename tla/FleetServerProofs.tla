------------------------- MODULE FleetServerProofs -------------------------
(***************************************************************************)
(* What holds of the fleet server for every registry and every number of   *)
(* missions, crashes and failing statements.                               *)
(***************************************************************************)
EXTENDS FleetServer, TLAPS

\* _persist_vehicle's statement keeps every type if the record it writes has
\* its own.
LEMMA SetVehicleTyped ==
    ASSUME TypeOK, NEW v \in Vehicles, NEW r \in VehicleRecords, NEW ok \in BOOLEAN,
           SetVehicle(v, r, ok)
    PROVE  /\ up' \in BOOLEAN
           /\ vehicles' \in [Vehicles -> VehicleRecords]
           /\ missions' \in [Epochs -> MissionRecords]
           /\ corridor' \in Epochs \union {NoMission}
           /\ epoch' \in 0 .. MaxEpoch
           /\ diskVehicles' \in [Vehicles -> VehicleRecords]
           /\ diskMissions' \in [Epochs -> MissionRecords]
           /\ diskEpoch' \in 0 .. MaxEpoch
           /\ crashes' \in 0 .. MaxCrashes
           /\ failures' \in 0 .. MaxFailures
BY FleetAssumption DEF SetVehicle, Statement, TypeOK

\* A failing or succeeding statement keeps the failure count in its bound.
LEMMA StatementTyped ==
    ASSUME TypeOK, NEW ok \in BOOLEAN, Statement(ok)
    PROVE  failures' \in 0 .. MaxFailures
BY FleetAssumption DEF Statement, TypeOK

\* A process that dies leaves well-typed memory behind.
LEMMA DeadTyped ==
    ASSUME Dead
    PROVE  /\ up' \in BOOLEAN
           /\ vehicles' \in [Vehicles -> VehicleRecords]
           /\ missions' \in [Epochs -> MissionRecords]
           /\ corridor' \in Epochs \union {NoMission}
           /\ epoch' \in 0 .. MaxEpoch
           /\ call' = Idle
<1>1. Registry \in [Vehicles -> VehicleRecords]
    BY DEF Registry, VehicleRecords, FleetStates, NoMission
<1>2. NoMissions \in [Epochs -> MissionRecords]
    BY DEF NoMissions, MissionRecords, MissionStates
<1>3. 0 \in 0 .. MaxEpoch
    BY FleetAssumption
<1> QED BY <1>1, <1>2, <1>3 DEF Dead

\* A vehicle record stays one when its fields get values of their types.
LEMMA VehicleUpdated ==
    ASSUME NEW r \in VehicleRecords, NEW s \in FleetStates, NEW h \in BOOLEAN, NEW c \in BOOLEAN,
           NEW m \in Epochs \union {NoMission}
    PROVE  /\ [r EXCEPT !.state = s] \in VehicleRecords
           /\ [r EXCEPT !.healthy = h, !.state = s] \in VehicleRecords
           /\ [r EXCEPT !.healthy = h, !.charged = c, !.state = s] \in VehicleRecords
           /\ [r EXCEPT !.state = s, !.mission = m] \in VehicleRecords
           /\ [r EXCEPT !.mission = m, !.state = s] \in VehicleRecords
BY DEF VehicleRecords

\* A vehicle given back is still a vehicle.
LEMMA FreedTyped ==
    ASSUME NEW r \in VehicleRecords
    PROVE  Freed(r) \in VehicleRecords
<1>1. (IF r.healthy THEN "available" ELSE "offline") \in FleetStates
    BY DEF FleetStates
<1> QED BY <1>1, VehicleUpdated DEF Freed

\* A mission record stays one when its state changes.
LEMMA MissionUpdated ==
    ASSUME TypeOK, NEW e \in Epochs, NEW to \in MissionStates
    PROVE  [missions EXCEPT ![e].state = to] \in [Epochs -> MissionRecords]
<1>1. [missions[e] EXCEPT !.state = to] \in MissionRecords
    BY DEF TypeOK, MissionRecords
<1> QED BY <1>1 DEF TypeOK

\* The idle call is well typed.
LEMMA IdleTyped ==
    /\ Idle \in [at : {"idle", "assign", "release", "reconcile", "free"},
                 mission : Epochs \union {NoMission}, left : SUBSET (Epochs \union Vehicles)]
    /\ Idle.left \subseteq Vehicles
    /\ Idle.at = "idle"
BY DEF Idle, NoMission

\* Every action keeps every type.
LEMMA TypeStep == TypeOK /\ [Next]_vars => TypeOK'
<1> SUFFICES ASSUME TypeOK, [Next]_vars PROVE TypeOK'
    OBVIOUS
<1> USE IdleTyped
<1>1. ASSUME NEW v \in Vehicles, NEW healthy \in BOOLEAN, NEW charged \in Charges,
             NEW ok \in BOOLEAN, Ingest(v, healthy, charged, ok)
      PROVE  TypeOK'
    <2> DEFINE s == IF vehicles[v].mission # NoMission
                    THEN IF healthy THEN "assigned" ELSE "degraded"
                    ELSE IF healthy /\ charged THEN "available" ELSE "degraded"
               r == [vehicles[v] EXCEPT !.healthy = healthy, !.charged = charged, !.state = s]
    <2>1. r \in VehicleRecords
        <3>1. s \in FleetStates
            BY DEF FleetStates
        <3>2. vehicles[v] \in VehicleRecords /\ charged \in BOOLEAN
            BY FleetAssumption DEF TypeOK
        <3> HIDE DEF s
        <3> QED BY <3>1, <3>2, VehicleUpdated
    <2>2. SetVehicle(v, r, ok) /\ call' = call
        BY <1>1 DEF Ingest
    <2> QED BY <2>1, <2>2, SetVehicleTyped DEF TypeOK
<1>2. ASSUME NEW v \in Vehicles, NEW healthy \in BOOLEAN, NEW ok \in BOOLEAN,
             UpdateSimNode(v, healthy, ok)
      PROVE  TypeOK'
    <2> DEFINE s == IF vehicles[v].mission # NoMission
                    THEN IF healthy THEN "assigned" ELSE "degraded"
                    ELSE IF healthy THEN "available" ELSE "offline"
               r == [vehicles[v] EXCEPT !.healthy = healthy, !.state = s]
    <2>1. r \in VehicleRecords
        <3>1. s \in FleetStates
            BY DEF FleetStates
        <3>2. vehicles[v] \in VehicleRecords
            BY DEF TypeOK
        <3> HIDE DEF s
        <3> QED BY <3>1, <3>2, VehicleUpdated
    <2>2. SetVehicle(v, r, ok) /\ call' = call
        BY <1>2 DEF UpdateSimNode
    <2> QED BY <2>1, <2>2, SetVehicleTyped DEF TypeOK
<1>3. ASSUME NEW v \in Vehicles, NEW ok \in BOOLEAN, NEW s \in {"maintenance", "offline"},
             SetVehicle(v, [vehicles[v] EXCEPT !.state = s], ok), call' = call
      PROVE  TypeOK'
    <2>1. [vehicles[v] EXCEPT !.state = s] \in VehicleRecords
        BY VehicleUpdated DEF TypeOK, FleetStates
    <2> QED BY <1>3, <2>1, SetVehicleTyped DEF TypeOK
<1>4. ASSUME NEW count \in 1 .. Cardinality(Vehicles), NEW ok \in BOOLEAN, CreateMission(count, ok)
      PROVE  TypeOK'
    <2>1. failures' \in 0 .. MaxFailures
        BY <1>4, StatementTyped DEF CreateMission
    <2>2. epoch' \in Epochs
        BY <1>4, FleetAssumption DEF CreateMission, TypeOK, Epochs
    <2>3. Allocated(count) \subseteq Vehicles
        BY DEF Allocated, Eligible
    <2>4. [state |-> "PLANNED", vehicles |-> Allocated(count)] \in MissionRecords
        BY <2>3 DEF MissionRecords, MissionStates
    <2>5. CASE ok
        <3>1. missions' \in [Epochs -> MissionRecords]
            BY <1>4, <2>2, <2>4, <2>5 DEF CreateMission, TypeOK
        <3>2. epoch' \in 0 .. MaxEpoch /\ diskEpoch' \in 0 .. MaxEpoch
            BY <1>4, <2>2, <2>5 DEF CreateMission, EpochWritten, Epochs
        <3>3. /\ call' = [at |-> "assign", mission |-> epoch', left |-> Allocated(count)]
              /\ corridor' = epoch'
            BY <1>4, <2>5 DEF CreateMission
        <3> QED BY <1>4, <2>1, <2>2, <2>3, <3>1, <3>2, <3>3 DEF CreateMission, TypeOK
    <2>6. CASE ~ok
        BY <1>4, <2>1, <2>2, <2>6, FleetAssumption DEF CreateMission, TypeOK, Epochs
    <2> QED BY <2>5, <2>6
<1>5. ASSUME NEW v \in Vehicles, NEW ok \in BOOLEAN, AssignNext(v, ok)
      PROVE  TypeOK'
    <2>1. [vehicles[v] EXCEPT !.state = "assigned", !.mission = call.mission] \in VehicleRecords
        <3>1. call.mission \in Epochs /\ vehicles[v] \in VehicleRecords
            BY <1>5 DEF AssignNext, TypeOK
        <3> QED BY <3>1, VehicleUpdated DEF FleetStates
    <2>2. call' = Rest(v, ok)
        BY <1>5 DEF AssignNext
    <2>3. SetVehicle(v, [vehicles[v] EXCEPT !.state = "assigned", !.mission = call.mission], ok)
        BY <1>5 DEF AssignNext
    <2> QED BY <1>5, <2>1, <2>2, <2>3, SetVehicleTyped DEF TypeOK, Rest, AssignNext
<1>6. ASSUME NEW ok \in BOOLEAN, SaveMission(ok)
      PROVE  TypeOK'
    BY <1>6, StatementTyped DEF SaveMission, TypeOK, memory
<1>7. ASSUME NEW e \in Epochs, NEW to \in MissionStates, NEW ok \in BOOLEAN, Advance(e, to, ok)
      PROVE  TypeOK'
    <2>1. missions' \in [Epochs -> MissionRecords]
        BY <1>7, MissionUpdated DEF Advance
    <2> QED BY <1>7, <2>1, StatementTyped DEF Advance, TypeOK
<1>8. ASSUME NEW e \in Epochs, NEW to \in MissionStates, End(e, to)
      PROVE  TypeOK'
    <2>1. missions' \in [Epochs -> MissionRecords]
        BY <1>8, MissionUpdated DEF End
    <2>2. Held(e) \subseteq Vehicles
        BY DEF Held, TypeOK, MissionRecords
    <2> QED BY <1>8, <2>1, <2>2 DEF End, TypeOK, disk
<1>9. ASSUME NEW v \in Vehicles, NEW ok \in BOOLEAN, ReleaseNext(v, ok)
      PROVE  TypeOK'
    <2>1. Freed(vehicles[v]) \in VehicleRecords
        BY FreedTyped DEF TypeOK
    <2>2. SetVehicle(v, Freed(vehicles[v]), ok) /\ call' = Rest(v, ok)
        BY <1>9 DEF ReleaseNext
    <2> QED BY <1>9, <2>1, <2>2, SetVehicleTyped DEF TypeOK, Rest, ReleaseNext
<1>10. CASE Crash
    BY <1>10, DeadTyped, FleetAssumption DEF Crash, TypeOK, disk
<1>11. CASE Restart
    BY <1>11 DEF Restart, TypeOK, disk
<1>12. ASSUME NEW e \in Epochs, NEW ok \in BOOLEAN, ReconcileMission(e, ok)
       PROVE  TypeOK'
    <2>1. failures' \in 0 .. MaxFailures
        BY <1>12, StatementTyped DEF ReconcileMission
    <2>2. CASE ok /\ Legal(missions[e].state, "ABORT_REQUESTED")
        <3>1. missions' \in [Epochs -> MissionRecords]
            BY <1>12, <2>2, MissionUpdated DEF ReconcileMission, MissionStates
        <3> QED BY <1>12, <2>1, <2>2, <3>1 DEF ReconcileMission, TypeOK
    <2>3. CASE ~(ok /\ Legal(missions[e].state, "ABORT_REQUESTED"))
        BY <1>12, <2>1, <2>3, DeadTyped DEF ReconcileMission, TypeOK
    <2> QED BY <2>2, <2>3
<1>13. CASE StartFreeing
    BY <1>13 DEF StartFreeing, HeldByAborting, TypeOK, memory, disk
<1>14. ASSUME NEW v \in Vehicles, NEW ok \in BOOLEAN, FreeNext(v, ok)
       PROVE  TypeOK'
    <2>1. failures' \in 0 .. MaxFailures
        BY <1>14, StatementTyped DEF FreeNext
    <2>2. Freed(vehicles[v]) \in VehicleRecords
        BY FreedTyped DEF TypeOK
    <2>3. CASE ok
        BY <1>14, <2>1, <2>2, <2>3 DEF FreeNext, TypeOK, Rest
    <2>4. CASE ~ok
        BY <1>14, <2>1, <2>4, DeadTyped DEF FreeNext, TypeOK
    <2> QED BY <2>3, <2>4
<1>15. CASE BecomeReady
    BY <1>15 DEF BecomeReady, TypeOK, memory, disk
<1>16. CASE UNCHANGED vars
    BY <1>16 DEF vars, memory, disk, TypeOK
<1> QED
    <2>1. {"AUTHORIZED", "ABORT_REQUESTED", "ABORTED", "COMPLETED"} \subseteq MissionStates
        BY DEF MissionStates
    <2>2. CASE Request
        BY <2>2, <2>1, <1>1, <1>2, <1>3, <1>4, <1>7, <1>8
        DEF Request, SetMaintenance, ClearMaintenance, Authorize, RequestAbort, ConfirmAbort,
            CompleteMission
    <2>3. CASE Continue
        BY <2>3, <1>5, <1>6, <1>9, <1>12, <1>13, <1>14, <1>15 DEF Continue
    <2> QED BY <2>2, <2>3, <1>10, <1>11, <1>16 DEF Next

-----------------------------------------------------------------------------

\* A vehicle record the allocator may trust.
Trusted(r) == r.state = "available" => r.mission = NoMission

\* Writing a trusted record into a trusted registry keeps it trusted.
LEMMA TrustedWrite ==
    ASSUME TypeOK, AvailableIsFree, NEW v \in Vehicles, NEW r, Trusted(r), NEW ok \in BOOLEAN,
           vehicles' = [vehicles EXCEPT ![v] = r],
           diskVehicles' = IF ok THEN [diskVehicles EXCEPT ![v] = r] ELSE diskVehicles
    PROVE  AvailableIsFree'
BY DEF TypeOK, AvailableIsFree, Trusted

\* A release clears the pointer whatever state it picks.
LEMMA FreedTrusted ==
    ASSUME NEW r \in VehicleRecords
    PROVE  Trusted(Freed(r))
BY DEF Trusted, Freed, VehicleRecords

\* A dead process offers no vehicle.
LEMMA DeadTrusted ==
    ASSUME AvailableIsFree, Dead, UNCHANGED diskVehicles
    PROVE  AvailableIsFree'
BY DEF AvailableIsFree, Dead, Registry

\* No step makes a vehicle available that belongs to a mission.
LEMMA FreeStep == TypeOK /\ AvailableIsFree /\ [Next]_vars => AvailableIsFree'
<1> SUFFICES ASSUME TypeOK, AvailableIsFree, [Next]_vars PROVE AvailableIsFree'
    OBVIOUS
<1>1. ASSUME NEW v \in Vehicles, NEW healthy \in BOOLEAN, NEW charged \in Charges,
             NEW ok \in BOOLEAN, Ingest(v, healthy, charged, ok)
      PROVE  AvailableIsFree'
    <2> DEFINE s == IF vehicles[v].mission # NoMission
                    THEN IF healthy THEN "assigned" ELSE "degraded"
                    ELSE IF healthy /\ charged THEN "available" ELSE "degraded"
               r == [vehicles[v] EXCEPT !.healthy = healthy, !.charged = charged, !.state = s]
    <2>1. Trusted(r)
        <3>1. s = "available" => vehicles[v].mission = NoMission
            OBVIOUS
        <3>2. vehicles[v] \in VehicleRecords
            BY DEF TypeOK
        <3> HIDE DEF s
        <3> QED BY <3>1, <3>2 DEF Trusted, VehicleRecords
    <2>2. SetVehicle(v, r, ok)
        BY <1>1 DEF Ingest
    <2> QED BY <2>1, <2>2, TrustedWrite DEF SetVehicle
<1>2. ASSUME NEW v \in Vehicles, NEW healthy \in BOOLEAN, NEW ok \in BOOLEAN,
             UpdateSimNode(v, healthy, ok)
      PROVE  AvailableIsFree'
    <2> DEFINE s == IF vehicles[v].mission # NoMission
                    THEN IF healthy THEN "assigned" ELSE "degraded"
                    ELSE IF healthy THEN "available" ELSE "offline"
               r == [vehicles[v] EXCEPT !.healthy = healthy, !.state = s]
    <2>1. Trusted(r)
        <3>1. s = "available" => vehicles[v].mission = NoMission
            OBVIOUS
        <3>2. vehicles[v] \in VehicleRecords
            BY DEF TypeOK
        <3> HIDE DEF s
        <3> QED BY <3>1, <3>2 DEF Trusted, VehicleRecords
    <2>2. SetVehicle(v, r, ok)
        BY <1>2 DEF UpdateSimNode
    <2> QED BY <2>1, <2>2, TrustedWrite DEF SetVehicle
<1>3. ASSUME NEW v \in Vehicles, NEW ok \in BOOLEAN, NEW s \in {"maintenance", "offline"},
             SetVehicle(v, [vehicles[v] EXCEPT !.state = s], ok)
      PROVE  AvailableIsFree'
    <2>1. Trusted([vehicles[v] EXCEPT !.state = s])
        BY DEF Trusted, TypeOK, VehicleRecords
    <2> QED BY <1>3, <2>1, TrustedWrite DEF SetVehicle
<1>4. ASSUME NEW count \in 1 .. Cardinality(Vehicles), NEW ok \in BOOLEAN, CreateMission(count, ok)
      PROVE  AvailableIsFree'
    BY <1>4 DEF CreateMission, AvailableIsFree
<1>5. ASSUME NEW v \in Vehicles, NEW ok \in BOOLEAN, AssignNext(v, ok)
      PROVE  AvailableIsFree'
    <2>1. Trusted([vehicles[v] EXCEPT !.state = "assigned", !.mission = call.mission])
        BY DEF Trusted, TypeOK, VehicleRecords
    <2> QED BY <1>5, <2>1, TrustedWrite DEF SetVehicle, AssignNext
<1>6. ASSUME NEW ok \in BOOLEAN, SaveMission(ok)
      PROVE  AvailableIsFree'
    BY <1>6 DEF SaveMission, AvailableIsFree, memory
<1>7. ASSUME NEW e \in Epochs, NEW to, NEW ok \in BOOLEAN, Advance(e, to, ok)
      PROVE  AvailableIsFree'
    BY <1>7 DEF Advance, AvailableIsFree
<1>8. ASSUME NEW e \in Epochs, NEW to, End(e, to)
      PROVE  AvailableIsFree'
    BY <1>8 DEF End, AvailableIsFree, disk
<1>9. ASSUME NEW v \in Vehicles, NEW ok \in BOOLEAN, ReleaseNext(v, ok)
      PROVE  AvailableIsFree'
    BY <1>9, FreedTrusted, TrustedWrite DEF SetVehicle, ReleaseNext, TypeOK
<1>10. CASE Crash
    BY <1>10, DeadTrusted DEF Crash, disk
<1>11. CASE Restart
    BY <1>11 DEF Restart, AvailableIsFree, disk
<1>12. ASSUME NEW e \in Epochs, NEW ok \in BOOLEAN, ReconcileMission(e, ok)
       PROVE  AvailableIsFree'
    BY <1>12, DeadTrusted DEF ReconcileMission, AvailableIsFree
<1>13. CASE StartFreeing
    BY <1>13 DEF StartFreeing, AvailableIsFree, memory, disk
<1>14. ASSUME NEW v \in Vehicles, NEW ok \in BOOLEAN, FreeNext(v, ok)
       PROVE  AvailableIsFree'
    <2>1. CASE ok
        <3>1. /\ vehicles' = [vehicles EXCEPT ![v] = Freed(vehicles[v])]
              /\ diskVehicles' = [diskVehicles EXCEPT ![v] = Freed(vehicles[v])]
            BY <1>14, <2>1 DEF FreeNext, TypeOK
        <3> QED BY <3>1, FreedTrusted, TrustedWrite DEF TypeOK
    <2>2. CASE ~ok
        BY <1>14, <2>2, DeadTrusted DEF FreeNext
    <2> QED BY <2>1, <2>2
<1>15. CASE BecomeReady
    BY <1>15 DEF BecomeReady, AvailableIsFree, memory, disk
<1>16. CASE UNCHANGED vars
    BY <1>16 DEF vars, memory, disk, AvailableIsFree
<1> QED
    <2>1. CASE Request
        BY <2>1, <1>1, <1>2, <1>3, <1>4, <1>7, <1>8
        DEF Request, SetMaintenance, ClearMaintenance, Authorize, RequestAbort, ConfirmAbort,
            CompleteMission
    <2>2. CASE Continue
        BY <2>2, <1>5, <1>6, <1>9, <1>12, <1>13, <1>14, <1>15 DEF Continue
    <2> QED BY <2>1, <2>2, <1>10, <1>11, <1>16 DEF Next

-----------------------------------------------------------------------------

\* Every variable keeps its type, for every registry, and for every number of
\* missions, crashes and failing statements (core.py:82-181).
THEOREM FleetTypeCorrect == Spec => []TypeOK
<1>1. Init => TypeOK
    <2> SUFFICES ASSUME Init PROVE TypeOK
        OBVIOUS
    <2>1. Registry \in [Vehicles -> VehicleRecords]
        BY DEF Registry, VehicleRecords, FleetStates, NoMission
    <2>2. NoMissions \in [Epochs -> MissionRecords]
        BY DEF NoMissions, MissionRecords, MissionStates
    <2> QED BY <2>1, <2>2, IdleTyped, FleetAssumption DEF Init, TypeOK
<1> QED BY <1>1, TypeStep, PTL DEF Spec

\* The allocator is never offered a vehicle that belongs to a mission, in
\* memory or by the table a restart loads.
THEOREM AvailableIsFreeHolds == Spec => []AvailableIsFree
<1>1. Init => AvailableIsFree
    BY DEF Init, AvailableIsFree, Registry
<1> QED BY <1>1, FleetTypeCorrect, FreeStep, PTL DEF Spec

-----------------------------------------------------------------------------

\* What makes the two mission invariants inductive: while the constructor
\* reconciles, memory is what the table says, and every mission that could
\* fly is still on its list.
MissionsInv ==
    /\ CorridorExclusive
    /\ OldMissionsAreNotResumed
    /\ call.at \in {"reconcile", "free"} => missions = diskMissions
    /\ call.at = "reconcile" => \A e \in Epochs : Live(e) => e \in call.left

\* A step of a call or of telemetry that touches no mission.
LEMMA MissionsUntouched ==
    ASSUME TypeOK, MissionsInv, UNCHANGED <<missions, corridor, diskMissions>>,
           \/ call' = call
           \/ call.at # "reconcile" /\ call' = Idle
           \/ call.at # "reconcile" /\ \E S : call' = [call EXCEPT !.left = S]
    PROVE  MissionsInv'
<1>1. CASE call' = call
    BY <1>1 DEF MissionsInv, CorridorExclusive, OldMissionsAreNotResumed, Live
<1>2. CASE call.at # "reconcile" /\ call' = Idle
    BY <1>2 DEF MissionsInv, CorridorExclusive, OldMissionsAreNotResumed, Live, Idle
<1>3. CASE call.at # "reconcile" /\ \E S : call' = [call EXCEPT !.left = S]
    <2>1. call'.at = call.at
        BY <1>3 DEF TypeOK
    <2> QED BY <1>3, <2>1 DEF MissionsInv, CorridorExclusive, OldMissionsAreNotResumed, Live
<1> QED BY <1>1, <1>2, <1>3

\* A dead process has no mission in memory.
LEMMA DeadMissions ==
    ASSUME Dead
    PROVE  MissionsInv'
BY DEF Dead, MissionsInv, CorridorExclusive, OldMissionsAreNotResumed, Live, NoMissions, Idle

\* Every step keeps the mission invariants.
LEMMA MissionsStep == TypeOK /\ MissionsInv /\ [Next]_vars => MissionsInv'
<1> SUFFICES ASSUME TypeOK, MissionsInv, [Next]_vars PROVE MissionsInv'
    OBVIOUS
<1>1. ASSUME NEW v, NEW r, NEW ok, SetVehicle(v, r, ok),
             \/ UNCHANGED call
             \/ call.at # "reconcile" /\ call' = Rest(v, ok)
      PROVE  MissionsInv'
    BY <1>1, MissionsUntouched DEF SetVehicle, Rest
<1>2. ASSUME NEW count \in 1 .. Cardinality(Vehicles), NEW ok \in BOOLEAN, CreateMission(count, ok)
      PROVE  MissionsInv'
    <2>1. CASE ok
        <3> DEFINE n == epoch + 1
        <3>1. /\ missions' = [missions EXCEPT ![n] =
                                [state |-> "PLANNED", vehicles |-> Allocated(count)]]
              /\ corridor' = n
              /\ call'.at = "assign"
            BY <1>2, <2>1 DEF CreateMission
        <3>2. \A e \in Epochs : ~Live(e)
            BY <1>2 DEF CreateMission, RouteIsFree, Ready, Idle, MissionsInv, CorridorExclusive,
               Epochs, NoMission
        <3>3. \A e \in Epochs : e # n => missions'[e] = missions[e]
            BY <3>1 DEF TypeOK
        <3> QED BY <3>1, <3>2, <3>3 DEF MissionsInv, CorridorExclusive, OldMissionsAreNotResumed, Live
    <2>2. CASE ~ok
        BY <1>2, <2>2, MissionsUntouched DEF CreateMission
    <2> QED BY <2>1, <2>2
<1>3. ASSUME NEW ok \in BOOLEAN, SaveMission(ok)
      PROVE  MissionsInv'
    BY <1>3 DEF SaveMission, MissionsInv, CorridorExclusive, OldMissionsAreNotResumed, Live, memory, Idle
<1>4. ASSUME NEW e \in Epochs, NEW to, NEW ok \in BOOLEAN, Advance(e, to, ok),
             to \in {"AUTHORIZED", "ABORT_REQUESTED"}
      PROVE  MissionsInv'
    <2>1. call'.at = "idle" /\ call.at = "idle"
        BY <1>4 DEF Advance, Ready, Idle
    <2>2. to = "AUTHORIZED" => Live(e)
        BY <1>4 DEF Advance, Legal, Live
    <2>3. \A d \in Epochs : Live(d)' => Live(d)
        BY <1>4, <2>2 DEF Advance, TypeOK, MissionRecords, Live
    <2>4. corridor' = corridor
        BY <1>4 DEF Advance
    <2> QED BY <2>1, <2>3, <2>4 DEF MissionsInv, CorridorExclusive, OldMissionsAreNotResumed
<1>5. ASSUME NEW e \in Epochs, NEW to, End(e, to), to \in {"ABORTED", "COMPLETED"}
      PROVE  MissionsInv'
    <2>1. call'.at = "release" /\ call.at = "idle"
        BY <1>5 DEF End, Ready, Idle
    <2>2. \A d \in Epochs : Live(d)' => Live(d) /\ d # e
        BY <1>5 DEF End, TypeOK, MissionRecords, Live
    <2>3. corridor' = IF corridor = e THEN NoMission ELSE corridor
        BY <1>5 DEF End
    <2> QED BY <2>1, <2>2, <2>3 DEF MissionsInv, CorridorExclusive, OldMissionsAreNotResumed
<1>6. CASE Crash
    BY <1>6, DeadMissions DEF Crash
<1>7. CASE Restart
    BY <1>7 DEF Restart, MissionsInv, CorridorExclusive, OldMissionsAreNotResumed, Live, Interrupted, disk
<1>8. ASSUME NEW e \in Epochs, NEW ok \in BOOLEAN, ReconcileMission(e, ok)
      PROVE  MissionsInv'
    <2>1. CASE ok /\ Legal(missions[e].state, "ABORT_REQUESTED")
        <3>1. /\ missions' = [missions EXCEPT ![e].state = "ABORT_REQUESTED"]
              /\ diskMissions' = [diskMissions EXCEPT ![e] = missions'[e]]
              /\ call' = [call EXCEPT !.left = @ \ {e}]
              /\ call.at = "reconcile"
            BY <1>8, <2>1 DEF ReconcileMission
        <3>2. call'.at = "reconcile" /\ call'.left = call.left \ {e}
            BY <3>1 DEF TypeOK
        <3>3. missions = diskMissions
            BY <3>1 DEF MissionsInv
        <3>4. missions' = diskMissions'
            BY <3>1, <3>3 DEF TypeOK
        <3>5. \A d \in Epochs : Live(d)' => Live(d) /\ d # e
            BY <3>1 DEF TypeOK, MissionRecords, Live
        <3> QED BY <3>1, <3>2, <3>4, <3>5 DEF MissionsInv, CorridorExclusive, OldMissionsAreNotResumed
    <2>2. CASE ~(ok /\ Legal(missions[e].state, "ABORT_REQUESTED"))
        BY <1>8, <2>2, DeadMissions DEF ReconcileMission
    <2> QED BY <2>1, <2>2
<1>9. CASE StartFreeing
    <2>1. /\ call'.at = "free" /\ call.at = "reconcile" /\ call.left = {}
          /\ UNCHANGED <<missions, corridor, diskMissions>>
        BY <1>9 DEF StartFreeing, memory, disk
    <2>2. missions = diskMissions /\ \A e \in Epochs : ~Live(e)
        BY <2>1 DEF MissionsInv
    <2> QED BY <2>1, <2>2 DEF MissionsInv, CorridorExclusive, OldMissionsAreNotResumed, Live
<1>10. ASSUME NEW v \in Vehicles, NEW ok \in BOOLEAN, FreeNext(v, ok)
       PROVE  MissionsInv'
    <2>1. CASE ok
        BY <1>10, <2>1, MissionsUntouched DEF FreeNext, Rest
    <2>2. CASE ~ok
        BY <1>10, <2>2, DeadMissions DEF FreeNext
    <2> QED BY <2>1, <2>2
<1>11. CASE BecomeReady
    BY <1>11, MissionsUntouched DEF BecomeReady, memory, disk
<1>12. CASE UNCHANGED vars
    BY <1>12, MissionsUntouched DEF vars, memory, disk
<1> QED
    <2>1. CASE Request
        <3>1. ASSUME NEW v \in Vehicles, NEW ok \in BOOLEAN,
                     \/ \E healthy \in BOOLEAN, charged \in Charges : Ingest(v, healthy, charged, ok)
                     \/ \E healthy \in BOOLEAN : UpdateSimNode(v, healthy, ok)
                     \/ SetMaintenance(v, ok)
                     \/ ClearMaintenance(v, ok)
              PROVE  MissionsInv'
            BY <3>1, <1>1 DEF Ingest, UpdateSimNode, SetMaintenance, ClearMaintenance
        <3> QED BY <2>1, <3>1, <1>2, <1>4, <1>5
            DEF Request, Authorize, RequestAbort, ConfirmAbort, CompleteMission
    <2>2. CASE Continue
        <3>1. ASSUME NEW v \in Vehicles, NEW ok \in BOOLEAN, AssignNext(v, ok) \/ ReleaseNext(v, ok)
              PROVE  MissionsInv'
            BY <3>1, <1>1 DEF AssignNext, ReleaseNext
        <3> QED BY <2>2, <3>1, <1>3, <1>8, <1>9, <1>10, <1>11 DEF Continue
    <2> QED BY <2>1, <2>2, <1>6, <1>7, <1>12 DEF Next

\* The mission invariants hold from the start and for ever.
LEMMA MissionsInvariant == Spec => []MissionsInv
<1>1. Init => MissionsInv
    BY DEF Init, MissionsInv, CorridorExclusive, OldMissionsAreNotResumed, Live, NoMissions, Idle
<1> QED BY <1>1, FleetTypeCorrect, MissionsStep, PTL DEF Spec

\* At most one mission may fly, and it holds the corridor, over any number of
\* crashes, failing statements and restarts.
THEOREM CorridorExclusiveHolds == Spec => []CorridorExclusive
<1>1. MissionsInv => CorridorExclusive
    BY DEF MissionsInv
<1> QED BY <1>1, MissionsInvariant, PTL

\* A restarted server never lets a mission of an earlier run fly.
THEOREM OldMissionsAreNotResumedHolds == Spec => []OldMissionsAreNotResumed
<1>1. MissionsInv => OldMissionsAreNotResumed
    BY DEF MissionsInv
<1> QED BY <1>1, MissionsInvariant, PTL

-----------------------------------------------------------------------------

\* What a step with a vehicle's report, or with maintenance, writes belongs to
\* the mission the vehicle belonged to.
LEMMA ReportKeepsMission ==
    ASSUME TypeOK, NEW v \in Vehicles, NEW ok \in BOOLEAN,
           \/ \E healthy \in BOOLEAN, charged \in Charges : Ingest(v, healthy, charged, ok)
           \/ \E healthy \in BOOLEAN : UpdateSimNode(v, healthy, ok)
           \/ SetMaintenance(v, ok)
           \/ ClearMaintenance(v, ok)
    PROVE  /\ Ready /\ call' = call
           /\ \E r : r.mission = vehicles[v].mission /\ SetVehicle(v, r, ok)
<1> DEFINE OfMission(r) == r.mission = vehicles[v].mission
<1>1. \A h, c, s : /\ OfMission([vehicles[v] EXCEPT !.healthy = h, !.charged = c, !.state = s])
                   /\ OfMission([vehicles[v] EXCEPT !.healthy = h, !.state = s])
                   /\ OfMission([vehicles[v] EXCEPT !.state = s])
    BY DEF TypeOK, VehicleRecords
<1> HIDE DEF OfMission
<1>2. \E r : OfMission(r) /\ SetVehicle(v, r, ok)
    BY <1>1 DEF Ingest, UpdateSimNode, SetMaintenance, ClearMaintenance
<1>3. Ready /\ call' = call
    BY DEF Ingest, UpdateSimNode, SetMaintenance, ClearMaintenance
<1> QED BY <1>2, <1>3 DEF OfMission

\* What writing a vehicle changes.
LEMMA SetVehicleChanges ==
    ASSUME TypeOK, NEW v \in Vehicles, NEW r, NEW ok \in BOOLEAN, SetVehicle(v, r, ok)
    PROVE  /\ vehicles'[v] = r /\ \A u \in Vehicles \ {v} : vehicles'[u] = vehicles[u]
           /\ diskVehicles'[v] = IF ok THEN r ELSE diskVehicles[v]
           /\ \A u \in Vehicles \ {v} : diskVehicles'[u] = diskVehicles[u]
           /\ UNCHANGED <<up, missions, corridor, epoch, diskMissions, diskEpoch>>
BY DEF SetVehicle, TypeOK

\* A vehicle given back belongs to no mission.
LEMMA FreedMission ==
    ASSUME NEW r \in VehicleRecords
    PROVE  Freed(r).mission = NoMission
BY DEF Freed, VehicleRecords

\* A transition leaves a mission that exists and is not over.
LEMMA LegalFrom ==
    ASSUME NEW from, NEW to, Legal(from, to)
    PROVE  /\ from \in {"PLANNED", "AUTHORIZED", "ABORT_REQUESTED"}
           /\ to \in {"AUTHORIZED", "ABORT_REQUESTED", "ABORTED", "COMPLETED"}
BY DEF Legal

\* What the table holds next is what a mission becomes.
LEMMA MissionMoves ==
    ASSUME TypeOK, NEW e \in Epochs, NEW to, missions' = [missions EXCEPT ![e].state = to]
    PROVE  /\ missions'[e].state = to /\ missions'[e].vehicles = missions[e].vehicles
           /\ \A d \in Epochs \ {e} : missions'[d] = missions[d]
BY DEF TypeOK, MissionRecords

\* A dead process knows of no mission.
LEMMA DeadForgets ==
    ASSUME Dead
    PROVE  /\ ~up' /\ call'.at = "idle" /\ call' = Idle
           /\ \A e \in Epochs : missions'[e].state = "ABSENT"
           /\ \A v \in Vehicles : vehicles'[v].mission = NoMission
BY DEF Dead, NoMissions, Registry, Idle

\* No id above the one the database knows of is in use anywhere: the epoch is
\* written before all else.
FreshInv ==
    /\ up => diskEpoch <= epoch
    /\ \A e \in Epochs : e > diskEpoch =>
        /\ missions[e].state = "ABSENT" /\ diskMissions[e].state = "ABSENT"
        /\ \A v \in Vehicles : e \notin {vehicles[v].mission, diskVehicles[v].mission}
    /\ call.at \in {"assign", "release"} => call.mission <= diskEpoch

\* Ids stay fresh when a vehicle's record is of a mission in use.
LEMMA FreshWrite ==
    ASSUME TypeOK, FreshInv, NEW v \in Vehicles, NEW r, NEW ok \in BOOLEAN, SetVehicle(v, r, ok),
           \A e \in Epochs : e > diskEpoch => r.mission # e,
           call' = call \/ call' = Rest(v, ok)
    PROVE  FreshInv'
<1>1. call'.at \in {"assign", "release"} => call.at = call'.at /\ call'.mission = call.mission
    BY DEF TypeOK, Rest, Idle
<1> QED BY <1>1, SetVehicleChanges DEF FreshInv

\* Every step keeps ids fresh.
LEMMA FreshStep == TypeOK /\ FreshInv /\ [Next]_vars => FreshInv'
<1> SUFFICES ASSUME TypeOK, FreshInv, [Next]_vars PROVE FreshInv'
    OBVIOUS
<1> USE DEF FreshInv
<1>1. ASSUME NEW v \in Vehicles, NEW ok \in BOOLEAN,
             \/ \E healthy \in BOOLEAN, charged \in Charges : Ingest(v, healthy, charged, ok)
             \/ \E healthy \in BOOLEAN : UpdateSimNode(v, healthy, ok)
             \/ SetMaintenance(v, ok)
             \/ ClearMaintenance(v, ok)
      PROVE  FreshInv'
    <2>1. PICK r : r.mission = vehicles[v].mission /\ SetVehicle(v, r, ok)
        BY <1>1, ReportKeepsMission
    <2>2. call' = call
        BY <1>1, ReportKeepsMission
    <2> QED BY <2>1, <2>2, FreshWrite
<1>2. ASSUME NEW count \in 1 .. Cardinality(Vehicles), NEW ok \in BOOLEAN, CreateMission(count, ok)
      PROVE  FreshInv'
    <2> DEFINE n == epoch + 1
    <2>1. /\ up /\ up' = up /\ epoch' = n /\ diskEpoch <= epoch /\ call = Idle
          /\ UNCHANGED <<vehicles, diskVehicles, diskMissions>>
        BY <1>2 DEF CreateMission, Ready
    <2>2. epoch \in Nat /\ diskEpoch \in Nat
        BY FleetAssumption DEF TypeOK
    <2>3. CASE ok
        <3>1. /\ diskEpoch' = n /\ call'.mission = n
              /\ missions' = [missions EXCEPT ![n] = [state |-> "PLANNED", vehicles |-> Allocated(count)]]
            BY <1>2, <2>3 DEF CreateMission, EpochWritten
        <3>2. \A e \in Epochs : e > n => e > diskEpoch /\ missions'[e] = missions[e] /\ e \in Nat
            BY <2>1, <2>2, <3>1 DEF TypeOK, Epochs
        <3> QED BY <2>1, <2>2, <3>1, <3>2
    <2>4. CASE ~ok
        BY <1>2, <2>1, <2>2, <2>4 DEF CreateMission, Idle
    <2> QED BY <2>3, <2>4
<1>3. ASSUME NEW v \in Vehicles, NEW ok \in BOOLEAN, AssignNext(v, ok)
      PROVE  FreshInv'
    <2> DEFINE r == [vehicles[v] EXCEPT !.state = "assigned", !.mission = call.mission]
    <2>1. r.mission = call.mission /\ call.mission <= diskEpoch /\ call.mission \in Nat
          /\ diskEpoch \in Nat
        BY <1>3, FleetAssumption DEF AssignNext, TypeOK, VehicleRecords, Epochs
    <2>2. SetVehicle(v, r, ok) /\ call' = Rest(v, ok)
        BY <1>3 DEF AssignNext
    <2>3. \A e \in Epochs : e > diskEpoch => r.mission # e
        BY <2>1 DEF Epochs
    <2> HIDE DEF r
    <2> QED BY <2>2, <2>3, FreshWrite
<1>4. ASSUME NEW ok \in BOOLEAN, SaveMission(ok)
      PROVE  FreshInv'
    <2>1. /\ \A e \in Epochs : diskMissions'[e] \in {diskMissions[e], missions[e]}
          /\ call'.at = "idle" /\ UNCHANGED <<up, vehicles, missions, epoch, diskVehicles, diskEpoch>>
        BY <1>4 DEF SaveMission, TypeOK, memory, Idle
    <2> QED BY <2>1
<1>5. ASSUME NEW e \in Epochs, NEW to, NEW ok \in BOOLEAN, Advance(e, to, ok)
      PROVE  FreshInv'
    <2>1. /\ missions[e].state # "ABSENT" /\ missions' = [missions EXCEPT ![e].state = to]
          /\ \A d \in Epochs \ {e} : diskMissions'[d] = diskMissions[d]
          /\ UNCHANGED <<up, vehicles, epoch, call, diskVehicles, diskEpoch>>
        BY <1>5, LegalFrom DEF Advance, TypeOK
    <2>2. ~(e > diskEpoch)
        BY <2>1
    <2>3. \A d \in Epochs : d > diskEpoch => missions'[d] = missions[d] /\ diskMissions'[d] = diskMissions[d]
        BY <2>1, <2>2, MissionMoves
    <2> QED BY <2>1, <2>3
<1>6. ASSUME NEW e \in Epochs, NEW to, End(e, to)
      PROVE  FreshInv'
    <2>1. missions[e].state # "ABSENT" /\ missions' = [missions EXCEPT ![e].state = to]
          /\ call'.mission = e
          /\ UNCHANGED <<up, vehicles, epoch, diskVehicles, diskMissions, diskEpoch>>
        BY <1>6, LegalFrom DEF End, disk
    <2>2. e <= diskEpoch
        BY <2>1, FleetAssumption DEF TypeOK, Epochs
    <2> QED BY <2>1, <2>2, MissionMoves
<1>7. ASSUME NEW v \in Vehicles, NEW ok \in BOOLEAN, ReleaseNext(v, ok)
      PROVE  FreshInv'
    <2>1. SetVehicle(v, Freed(vehicles[v]), ok) /\ call' = Rest(v, ok)
        BY <1>7 DEF ReleaseNext
    <2>2. Freed(vehicles[v]).mission = NoMission
        BY FreedMission DEF TypeOK
    <2>3. \A e \in Epochs : e # NoMission
        BY DEF Epochs, NoMission
    <2> HIDE DEF FreshInv
    <2> QED BY <2>1, <2>2, <2>3, FreshWrite
<1>8. ASSUME Dead, UNCHANGED <<diskVehicles, diskMissions, diskEpoch>>
      PROVE  FreshInv'
    BY <1>8, DeadForgets DEF Epochs, NoMission
<1>9. CASE Restart
    BY <1>9 DEF Restart, disk, TypeOK
<1>10. ASSUME NEW e \in Epochs, NEW ok \in BOOLEAN, ReconcileMission(e, ok)
       PROVE  FreshInv'
    <2>1. CASE ok /\ Legal(missions[e].state, "ABORT_REQUESTED")
        <3>1. /\ missions[e].state # "ABSENT"
              /\ missions' = [missions EXCEPT ![e].state = "ABORT_REQUESTED"]
              /\ \A d \in Epochs \ {e} : diskMissions'[d] = diskMissions[d]
              /\ call'.at = "reconcile"
              /\ UNCHANGED <<up, vehicles, epoch, diskVehicles, diskEpoch>>
            BY <1>10, <2>1, LegalFrom DEF ReconcileMission, TypeOK
        <3>2. ~(e > diskEpoch)
            BY <3>1
        <3>3. \A d \in Epochs : d > diskEpoch => missions'[d] = missions[d] /\ diskMissions'[d] = diskMissions[d]
            BY <3>1, <3>2, MissionMoves
        <3> QED BY <3>1, <3>3
    <2>2. CASE ~(ok /\ Legal(missions[e].state, "ABORT_REQUESTED"))
        BY <1>8, <1>10, <2>2 DEF ReconcileMission
    <2> QED BY <2>1, <2>2
<1>11. ASSUME NEW v \in Vehicles, NEW ok \in BOOLEAN, FreeNext(v, ok)
       PROVE  FreshInv'
    <2>1. CASE ok
        <3>1. /\ vehicles' = [vehicles EXCEPT ![v] = Freed(vehicles[v])]
              /\ diskVehicles' = [diskVehicles EXCEPT ![v] = Freed(vehicles[v])]
              /\ call'.at = "free"
              /\ UNCHANGED <<up, missions, epoch, diskMissions, diskEpoch>>
            BY <1>11, <2>1 DEF FreeNext, TypeOK, Rest
        <3>2. Freed(vehicles[v]).mission = NoMission
            BY FreedMission DEF TypeOK
        <3>3. \A u \in Vehicles : /\ vehicles'[u].mission \in {vehicles[u].mission, NoMission}
                                  /\ diskVehicles'[u].mission \in {diskVehicles[u].mission, NoMission}
            BY <3>1, <3>2 DEF TypeOK
        <3> QED BY <3>1, <3>3 DEF Epochs, NoMission
    <2>2. CASE ~ok
        BY <1>8, <1>11, <2>2 DEF FreeNext
    <2> QED BY <2>1, <2>2
<1>12. CASE StartFreeing \/ BecomeReady \/ UNCHANGED vars
    BY <1>12 DEF StartFreeing, BecomeReady, vars, memory, disk, Idle
<1> HIDE DEF FreshInv
<1> QED
    <2>1. CASE Request
        BY <2>1, <1>1, <1>2, <1>5, <1>6 DEF Request, Authorize, RequestAbort, ConfirmAbort, CompleteMission
    <2>2. CASE Continue
        BY <2>2, <1>3, <1>4, <1>7, <1>10, <1>11, <1>12 DEF Continue
    <2>3. CASE Crash
        BY <2>3, <1>8 DEF Crash, disk
    <2> QED BY <2>1, <2>2, <2>3, <1>9, <1>12 DEF Next

LEMMA FreshHolds == Spec => []FreshInv
<1>1. Init => FreshInv
    BY DEF Init, FreshInv, NoMissions, Registry, Idle, NoMission, Epochs
<1> QED BY <1>1, FleetTypeCorrect, FreshStep, PTL DEF Spec

\* No crash or failing statement lets a mission id be used twice.
THEOREM MissionIdsAreFreshHolds == Spec => []MissionIdsAreFresh
<1>1. TypeOK /\ FreshInv => MissionIdsAreFresh
    BY FleetAssumption DEF TypeOK, FreshInv, MissionIdsAreFresh, Epochs
<1> QED BY <1>1, FleetTypeCorrect, FreshHolds, PTL

-----------------------------------------------------------------------------

Forward(s) == {s} \union Later(s)

\* The transitions go one way only.
LEMMA ForwardTransitive ==
    ASSUME NEW a \in MissionStates, NEW b \in Forward(a), NEW c \in Forward(b)
    PROVE  c \in Forward(a)
<1>1. CASE a = "ABSENT"
    BY <1>1 DEF Forward, Later, MissionStates
<1>2. CASE a = "PLANNED"
    BY <1>2 DEF Forward, Later
<1>3. CASE a = "AUTHORIZED"
    BY <1>3 DEF Forward, Later
<1>4. CASE a = "ABORT_REQUESTED"
    BY <1>4 DEF Forward, Later
<1>5. CASE a \in {"ABORTED", "COMPLETED"}
    BY <1>5 DEF Forward, Later
<1> QED BY <1>1, <1>2, <1>3, <1>4, <1>5 DEF MissionStates

LEMMA LegalForward ==
    ASSUME NEW from, NEW to, Legal(from, to)
    PROVE  to \in Forward(from)
<1>1. CASE from = "PLANNED"
    BY <1>1 DEF Legal, Forward, Later
<1>2. CASE from = "AUTHORIZED"
    BY <1>2 DEF Legal, Forward, Later
<1>3. CASE from = "ABORT_REQUESTED"
    BY <1>3 DEF Legal, Forward, Later
<1> QED BY <1>1, <1>2, <1>3, LegalFrom

\* Memory is ahead of the table, never behind it or beside it.
AheadInv ==
    /\ ~up => call = Idle
    /\ up => \A e \in Epochs : missions[e].state \in Forward(diskMissions[e].state)

RowsStep == \A e \in Epochs :
    diskMissions'[e].state \in {diskMissions[e].state} \union Later(diskMissions[e].state)

\* A row that stays, or becomes what memory becomes, moves forward.
LEMMA AheadMoves ==
    ASSUME TypeOK, AheadInv, up, up',
           \A e \in Epochs : /\ missions'[e].state \in Forward(missions[e].state)
                             /\ diskMissions'[e].state \in {diskMissions[e].state, missions'[e].state}
    PROVE  AheadInv' /\ RowsStep
<1> SUFFICES ASSUME NEW e \in Epochs
             PROVE  /\ missions'[e].state \in Forward(diskMissions'[e].state)
                    /\ diskMissions'[e].state \in Forward(diskMissions[e].state)
    BY DEF AheadInv, RowsStep, Forward
<1>1. diskMissions[e].state \in MissionStates
    BY DEF TypeOK, MissionRecords
<1>2. missions[e].state \in Forward(diskMissions[e].state)
    BY DEF AheadInv
<1>3. missions'[e].state \in Forward(diskMissions[e].state)
    BY <1>1, <1>2, ForwardTransitive
<1>4. \A s : s \in Forward(s)
    BY DEF Forward
<1> QED BY <1>3, <1>4

\* A step that touches no mission.
LEMMA AheadUntouched ==
    ASSUME TypeOK, AheadInv, UNCHANGED <<up, missions, diskMissions>>, up \/ call' = call
    PROVE  AheadInv' /\ RowsStep
BY DEF AheadInv, RowsStep

\* Every step keeps memory ahead and moves no row back.
LEMMA AheadStep == TypeOK /\ FreshInv /\ AheadInv /\ [Next]_vars => AheadInv' /\ RowsStep
<1> SUFFICES ASSUME TypeOK, FreshInv, AheadInv, [Next]_vars PROVE AheadInv' /\ RowsStep
    OBVIOUS
<1>0. /\ \A s : s \in Forward(s)
      /\ call.at # "idle" => up
    BY DEF Forward, AheadInv, Idle
<1>1. ASSUME NEW v \in Vehicles, NEW r, NEW ok \in BOOLEAN, SetVehicle(v, r, ok), up \/ call' = call
      PROVE  AheadInv' /\ RowsStep
    BY <1>1, AheadUntouched DEF SetVehicle
<1>2. ASSUME NEW count \in 1 .. Cardinality(Vehicles), NEW ok \in BOOLEAN, CreateMission(count, ok)
      PROVE  AheadInv' /\ RowsStep
    <2> DEFINE n == epoch + 1
    <2>1. up /\ up' = up /\ UNCHANGED diskMissions
        BY <1>2 DEF CreateMission, Ready
    <2>2. CASE ok
        <3>1. n \in Epochs /\ n > diskEpoch
            BY <1>2, FleetAssumption DEF CreateMission, Ready, FreshInv, TypeOK, Epochs
        <3>2. missions[n].state = "ABSENT"
            BY <3>1 DEF FreshInv
        <3>3. missions' = [missions EXCEPT ![n] = [state |-> "PLANNED", vehicles |-> Allocated(count)]]
            BY <1>2, <2>2 DEF CreateMission
        <3>4. missions'[n].state = "PLANNED" /\ \A e \in Epochs \ {n} : missions'[e] = missions[e]
            BY <3>1, <3>3 DEF TypeOK
        <3>5. "PLANNED" \in Forward("ABSENT")
            BY DEF Forward, Later, MissionStates
        <3>6. \A e \in Epochs : missions'[e].state \in Forward(missions[e].state)
            BY <1>0, <3>2, <3>4, <3>5
        <3> QED BY <2>1, <3>6, AheadMoves
    <2>3. CASE ~ok
        BY <1>2, <2>1, <2>3, AheadUntouched DEF CreateMission
    <2> QED BY <2>2, <2>3
<1>3. ASSUME NEW ok \in BOOLEAN, SaveMission(ok)
      PROVE  AheadInv' /\ RowsStep
    <2>1. /\ up /\ up' = up /\ missions' = missions
          /\ \A e \in Epochs : diskMissions'[e] \in {diskMissions[e], missions[e]}
        BY <1>0, <1>3 DEF SaveMission, TypeOK, memory
    <2> QED BY <1>0, <2>1, AheadMoves
<1>4. ASSUME NEW e \in Epochs, NEW to, up, up',
             Legal(missions[e].state, to), missions' = [missions EXCEPT ![e].state = to],
             diskMissions' = diskMissions \/ diskMissions' = [diskMissions EXCEPT ![e] = missions'[e]]
      PROVE  AheadInv' /\ RowsStep
    <2>1. /\ missions'[e].state = to
          /\ \A d \in Epochs \ {e} : missions'[d] = missions[d]
        BY <1>4, MissionMoves
    <2>2. \A d \in Epochs : missions'[d].state \in Forward(missions[d].state)
        BY <1>0, <1>4, <2>1, LegalForward
    <2>3. \A d \in Epochs : diskMissions'[d] \in {diskMissions[d], missions'[d]}
        BY <1>4 DEF TypeOK
    <2> QED BY <1>4, <2>2, <2>3, AheadMoves
<1>5. ASSUME Dead, UNCHANGED diskMissions
      PROVE  AheadInv' /\ RowsStep
    BY <1>5, DeadForgets DEF AheadInv, RowsStep
<1>6. CASE Restart
    BY <1>0, <1>6 DEF Restart, disk, AheadInv, RowsStep
<1>7. ASSUME NEW e \in Epochs, NEW ok \in BOOLEAN, ReconcileMission(e, ok)
      PROVE  AheadInv' /\ RowsStep
    <2>1. CASE ok /\ Legal(missions[e].state, "ABORT_REQUESTED")
        BY <1>0, <1>4, <1>7, <2>1 DEF ReconcileMission
    <2>2. CASE ~(ok /\ Legal(missions[e].state, "ABORT_REQUESTED"))
        BY <1>5, <1>7, <2>2 DEF ReconcileMission
    <2> QED BY <2>1, <2>2
<1>8. ASSUME NEW v \in Vehicles, NEW ok \in BOOLEAN, FreeNext(v, ok)
      PROVE  AheadInv' /\ RowsStep
    <2>1. CASE ok
        BY <1>0, <1>8, <2>1, AheadUntouched DEF FreeNext
    <2>2. CASE ~ok
        BY <1>5, <1>8, <2>2 DEF FreeNext
    <2> QED BY <2>1, <2>2
<1>9. CASE StartFreeing \/ BecomeReady \/ UNCHANGED vars
    BY <1>0, <1>9, AheadUntouched DEF StartFreeing, BecomeReady, vars, memory, disk
<1>10. ASSUME NEW e \in Epochs, NEW to, NEW ok \in BOOLEAN, Advance(e, to, ok) \/ End(e, to)
       PROVE  AheadInv' /\ RowsStep
    BY <1>4, <1>10 DEF Advance, End, Ready, disk
<1> QED
    <2>1. CASE Request
        <3>1. ASSUME NEW v \in Vehicles, NEW ok \in BOOLEAN,
                     \/ \E healthy \in BOOLEAN, charged \in Charges : Ingest(v, healthy, charged, ok)
                     \/ \E healthy \in BOOLEAN : UpdateSimNode(v, healthy, ok)
                     \/ SetMaintenance(v, ok)
                     \/ ClearMaintenance(v, ok)
              PROVE  AheadInv' /\ RowsStep
            BY <3>1, <1>1 DEF Ingest, UpdateSimNode, SetMaintenance, ClearMaintenance
        <3> QED BY <2>1, <3>1, <1>2, <1>10
            DEF Request, Authorize, RequestAbort, ConfirmAbort, CompleteMission
    <2>2. CASE Continue
        <3>1. ASSUME NEW v \in Vehicles, NEW ok \in BOOLEAN, AssignNext(v, ok) \/ ReleaseNext(v, ok)
              PROVE  AheadInv' /\ RowsStep
            BY <3>1, <1>0, <1>1 DEF AssignNext, ReleaseNext
        <3> QED BY <2>2, <3>1, <1>3, <1>7, <1>8, <1>9 DEF Continue
    <2>3. CASE Crash
        BY <2>3, <1>5 DEF Crash, disk
    <2> QED BY <2>1, <2>2, <2>3, <1>6, <1>9 DEF Next

LEMMA AheadHolds == Spec => []AheadInv
<1>1. Init => AheadInv
    BY DEF Init, AheadInv, Forward
<1> QED BY <1>1, FleetTypeCorrect, FreshHolds, AheadStep, PTL DEF Spec

\* No row ever moves to a state that the transitions cannot reach from the
\* one it had, over any number of crashes, failing statements and restarts.
THEOREM RowsMoveForwardHolds == Spec => RowsMoveForward
<1>1. TypeOK /\ FreshInv /\ AheadInv /\ [Next]_vars => [RowsStep]_vars
    BY AheadStep
<1>2. RowsMoveForward <=> [][RowsStep]_vars
    BY PTL DEF RowsMoveForward, RowsStep
<1> QED BY <1>1, <1>2, FleetTypeCorrect, FreshHolds, AheadHolds, PTL DEF Spec

-----------------------------------------------------------------------------

Finished == {"ABORTED", "COMPLETED"}

\* In the table no vehicle belongs to a mission that is over, or to one whose
\* row does not name it; a mission whose row was never written names nothing.
DiskClean == \A v \in Vehicles : diskVehicles[v].mission # NoMission =>
    /\ diskMissions[diskVehicles[v].mission].state \notin Finished
    /\ \/ diskMissions[diskVehicles[v].mission].state = "ABSENT"
       \/ v \in diskMissions[diskVehicles[v].mission].vehicles

\* Only the mission of the call under way differs from its row.
Mirrored ==
    /\ vehicles = diskVehicles /\ epoch = diskEpoch
    /\ \A e \in Epochs : missions[e] = diskMissions[e]
                         \/ (call.at \in {"assign", "release"} /\ e = call.mission)

\* What a call still has to do.
AtWork ==
    /\ call.at = "assign" =>
          /\ missions[call.mission].state = "PLANNED" /\ diskMissions[call.mission].state = "ABSENT"
          /\ call.left \subseteq missions[call.mission].vehicles
    /\ call.at = "release" =>
          /\ missions[call.mission].state \in Finished
          /\ Legal(diskMissions[call.mission].state, missions[call.mission].state)
          /\ \A v \in call.left : vehicles[v].mission = call.mission

\* A vehicle of a mission that is over is about to be released, and every
\* mission that has a record names its vehicles.
Pointed == \A v \in Vehicles : vehicles[v].mission # NoMission =>
    /\ missions[vehicles[v].mission].state \in Finished =>
          call.at = "release" /\ vehicles[v].mission = call.mission /\ v \in call.left
    /\ \/ missions[vehicles[v].mission].state = "ABSENT"
       \/ v \in missions[vehicles[v].mission].vehicles

\* A mission that may fly has its vehicles, or is about to get them.
Kept == call.at # "reconcile" => \A e \in Epochs : Live(e) =>
    \A v \in missions[e].vehicles :
        vehicles[v].mission = e \/ (call.at = "assign" /\ e = call.mission /\ v \in call.left)

\* What holds as long as no statement has failed.
Clean == DiskClean /\ (up => Mirrored /\ AtWork /\ Pointed /\ Kept)
CleanInv == failures = 0 => Clean

\* Where nothing is under way, the table is as clean as memory.
LEMMA MirroredIsClean ==
    ASSUME TypeOK', vehicles' = diskVehicles', \A e \in Epochs : missions'[e] = diskMissions'[e],
           Pointed', call'.at # "release"
    PROVE  DiskClean'
<1> SUFFICES ASSUME NEW v \in Vehicles, diskVehicles'[v].mission # NoMission
             PROVE  /\ diskMissions'[diskVehicles'[v].mission].state \notin Finished
                    /\ \/ diskMissions'[diskVehicles'[v].mission].state = "ABSENT"
                       \/ v \in diskMissions'[diskVehicles'[v].mission].vehicles
    BY DEF DiskClean
<1>1. diskVehicles'[v].mission \in Epochs
    BY DEF TypeOK, VehicleRecords
<1> QED BY <1>1 DEF Pointed

\* A vehicle's record is rewritten with the mission it had.
LEMMA ReportKeepsClean ==
    ASSUME TypeOK, Clean, up, NEW v \in Vehicles, NEW r, r.mission = vehicles[v].mission,
           SetVehicle(v, r, TRUE), call' = call
    PROVE  Clean'
<1>0. vehicles'[v] = r /\ \A u \in Vehicles \ {v} : vehicles'[u] = vehicles[u]
    BY SetVehicleChanges
<1>1. \A u \in Vehicles : vehicles'[u].mission = vehicles[u].mission
    BY <1>0
<1>2. UNCHANGED <<up, missions, corridor, epoch, diskMissions, diskEpoch>>
    BY DEF SetVehicle
<1>3. vehicles' = diskVehicles' /\ vehicles = diskVehicles
    BY DEF SetVehicle, Clean, Mirrored
<1>4. Mirrored'
    BY <1>2, <1>3 DEF Clean, Mirrored
<1>5. AtWork'
    BY <1>1, <1>2 DEF Clean, AtWork, TypeOK
<1>6. Pointed'
    BY <1>1, <1>2 DEF Clean, Pointed
<1>7. Kept'
    BY <1>1, <1>2 DEF Clean, Kept, Live, TypeOK, MissionRecords
<1>8. DiskClean'
    BY <1>1, <1>2, <1>3 DEF Clean, DiskClean
<1> QED BY <1>4, <1>5, <1>6, <1>7, <1>8 DEF Clean

\* A mission is created: no vehicle, and no row, knows its id yet.
LEMMA CreateKeepsClean ==
    ASSUME TypeOK, FreshInv, Clean, NEW count, CreateMission(count, TRUE), TypeOK'
    PROVE  Clean'
<1> DEFINE n == epoch + 1
<1>1. /\ up /\ call = Idle /\ epoch' = n /\ diskEpoch' = n
      /\ missions' = [missions EXCEPT ![n] = [state |-> "PLANNED", vehicles |-> Allocated(count)]]
      /\ call' = [at |-> "assign", mission |-> n, left |-> Allocated(count)]
      /\ UNCHANGED <<up, vehicles, diskVehicles, diskMissions>>
    BY DEF CreateMission, Ready, EpochWritten
<1>2. n \in Epochs /\ n > diskEpoch
    BY <1>1, FleetAssumption DEF CreateMission, FreshInv, TypeOK, Epochs
<1>3. /\ missions[n].state = "ABSENT" /\ diskMissions[n].state = "ABSENT"
      /\ \A v \in Vehicles : vehicles[v].mission # n
    BY <1>2 DEF FreshInv
<1>4. /\ missions'[n].state = "PLANNED" /\ missions'[n].vehicles = Allocated(count)
      /\ \A e \in Epochs \ {n} : missions'[e] = missions[e]
    BY <1>1, <1>2 DEF TypeOK
<1> HIDE DEF n
<1>5. /\ call.at = "idle" /\ call'.at = "assign" /\ call'.mission = n /\ call'.left = Allocated(count)
    BY <1>1 DEF Idle
<1>6. Mirrored'
    BY <1>1, <1>4, <1>5 DEF Clean, Mirrored
<1>7. AtWork'
    BY <1>1, <1>3, <1>4, <1>5 DEF AtWork
<1>8. Pointed'
    <2> SUFFICES ASSUME NEW v \in Vehicles, vehicles[v].mission # NoMission
                 PROVE  /\ missions'[vehicles[v].mission].state \notin Finished
                        /\ \/ missions'[vehicles[v].mission].state = "ABSENT"
                           \/ v \in missions'[vehicles[v].mission].vehicles
        BY <1>1 DEF Pointed
    <2>1. vehicles[v].mission \in Epochs \ {n}
        BY <1>3 DEF TypeOK, VehicleRecords
    <2> QED BY <1>1, <1>4, <1>5, <2>1 DEF Clean, Pointed
<1>9. Kept'
    BY <1>1, <1>4, <1>5 DEF Clean, Kept, Live
<1>10. DiskClean'
    BY <1>1 DEF Clean, DiskClean
<1> QED BY <1>6, <1>7, <1>8, <1>9, <1>10 DEF Clean

\* The call goes on with one vehicle less.
LEMMA RestOfCall ==
    ASSUME TypeOK, NEW v, call' = Rest(v, TRUE)
    PROVE  call'.at = call.at /\ call'.mission = call.mission /\ call'.left = call.left \ {v}
BY DEF Rest, TypeOK

\* A vehicle is assigned: it belonged to no other mission that may fly, as
\* there is none.
LEMMA AssignKeepsClean ==
    ASSUME TypeOK, MissionsInv, Clean, up, NEW v \in Vehicles, AssignNext(v, TRUE)
    PROVE  Clean'
<1> DEFINE m == call.mission
           r == [vehicles[v] EXCEPT !.state = "assigned", !.mission = m]
<1>1. /\ call.at = "assign" /\ v \in call.left /\ m \in Epochs /\ SetVehicle(v, r, TRUE)
      /\ call' = Rest(v, TRUE)
    BY DEF AssignNext, Lowest, TypeOK
<1>2. /\ call'.at = "assign" /\ call'.mission = m /\ call'.left = call.left \ {v}
    BY <1>1, RestOfCall
<1>3. r.mission = m
    BY DEF TypeOK, VehicleRecords
<1>4. /\ vehicles'[v].mission = m /\ \A u \in Vehicles \ {v} : vehicles'[u] = vehicles[u]
      /\ UNCHANGED <<up, missions, corridor, epoch, diskMissions, diskEpoch>>
    <2> HIDE DEF r
    <2>1. vehicles'[v] = r /\ \A u \in Vehicles \ {v} : vehicles'[u] = vehicles[u]
        BY <1>1, SetVehicleChanges
    <2> QED BY <1>1, <1>3, <2>1 DEF SetVehicle
<1>5. vehicles' = diskVehicles' /\ vehicles = diskVehicles
    BY <1>1 DEF SetVehicle, Clean, Mirrored
<1>6. /\ missions[m].state = "PLANNED" /\ diskMissions[m].state = "ABSENT"
      /\ call.left \subseteq missions[m].vehicles
    BY <1>1 DEF Clean, AtWork
<1> HIDE DEF m, r
<1>7. Mirrored'
    BY <1>1, <1>2, <1>4, <1>5 DEF Clean, Mirrored, m
<1>8. AtWork'
    BY <1>2, <1>4, <1>6 DEF AtWork
<1>9. Pointed'
    BY <1>1, <1>2, <1>4, <1>6 DEF Clean, Pointed, Finished
<1>10. Kept'
    <2> SUFFICES ASSUME NEW e \in Epochs, Live(e), NEW u \in missions[e].vehicles
                 PROVE  vehicles'[u].mission = e \/ (e = m /\ u \in call.left \ {v})
        BY <1>2, <1>4 DEF Kept, Live
    <2>1. Live(m)
        BY <1>6 DEF Live
    <2>2. e = m
        BY <1>1, <2>1 DEF MissionsInv, CorridorExclusive
    <2>3. u \in Vehicles
        BY DEF TypeOK, MissionRecords
    <2> QED BY <1>1, <1>4, <2>2, <2>3 DEF Clean, Kept, m
<1>11. DiskClean'
    BY <1>4, <1>5, <1>6 DEF Clean, DiskClean, Finished
<1> QED BY <1>7, <1>8, <1>9, <1>10, <1>11 DEF Clean

\* The row of the mission is written when nothing is left to do.
LEMMA SaveKeepsClean ==
    ASSUME TypeOK, Clean, up, SaveMission(TRUE), TypeOK'
    PROVE  Clean'
<1>1. /\ call.at \in {"assign", "release"} /\ call.left = {} /\ call' = Idle
      /\ diskMissions' = [diskMissions EXCEPT ![call.mission] = missions[call.mission]]
      /\ UNCHANGED <<up, vehicles, missions, corridor, epoch, diskVehicles, diskEpoch>>
    BY DEF SaveMission, memory
<1>2. call'.at = "idle"
    BY <1>1 DEF Idle
<1>3. \A e \in Epochs : missions'[e] = diskMissions'[e]
    BY <1>1 DEF Clean, Mirrored, TypeOK
<1>4. Mirrored'
    BY <1>1, <1>3 DEF Clean, Mirrored
<1>5. AtWork'
    BY <1>2 DEF AtWork
<1>6. Pointed'
    BY <1>1 DEF Clean, Pointed
<1>7. Kept'
    BY <1>1, <1>2 DEF Clean, Kept, Live
<1>8. DiskClean'
    BY <1>2, <1>3, <1>4, <1>6, MirroredIsClean DEF Mirrored
<1> QED BY <1>4, <1>5, <1>6, <1>7, <1>8 DEF Clean

\* A transition of a mission that is not ended by it, in memory and in its row,
\* while no call is under way.
LEMMA AdvanceKeepsClean ==
    ASSUME TypeOK, Clean, up, TypeOK', NEW e \in Epochs, NEW to \in {"AUTHORIZED", "ABORT_REQUESTED"},
           Legal(missions[e].state, to), missions' = [missions EXCEPT ![e].state = to],
           diskMissions' = [diskMissions EXCEPT ![e] = missions'[e]],
           call.at \in {"idle", "reconcile"}, call'.at = call.at,
           UNCHANGED <<up, vehicles, diskVehicles, corridor, epoch, diskEpoch>>
    PROVE  Clean'
<1>1. /\ missions'[e].state = to /\ missions'[e].vehicles = missions[e].vehicles
      /\ \A d \in Epochs \ {e} : missions'[d] = missions[d]
    BY MissionMoves
<1>2. /\ missions[e].state \in {"PLANNED", "AUTHORIZED", "ABORT_REQUESTED"}
      /\ to = "AUTHORIZED" => missions[e].state = "PLANNED"
    BY DEF Legal
<1>3. vehicles' = diskVehicles' /\ \A d \in Epochs : missions'[d] = diskMissions'[d]
    BY <1>1 DEF Clean, Mirrored, TypeOK
<1>4. Mirrored'
    BY <1>3 DEF Clean, Mirrored
<1>5. AtWork'
    BY DEF AtWork
<1>6. Pointed'
    <2> SUFFICES ASSUME NEW v \in Vehicles, vehicles[v].mission # NoMission
                 PROVE  /\ missions'[vehicles[v].mission].state \notin Finished
                        /\ \/ missions'[vehicles[v].mission].state = "ABSENT"
                           \/ v \in missions'[vehicles[v].mission].vehicles
        BY DEF Pointed
    <2>1. vehicles[v].mission \in Epochs
        BY DEF TypeOK, VehicleRecords
    <2>2. /\ missions[vehicles[v].mission].state \notin Finished
          /\ \/ missions[vehicles[v].mission].state = "ABSENT"
             \/ v \in missions[vehicles[v].mission].vehicles
        BY DEF Clean, Pointed
    <2>3. CASE vehicles[v].mission = e
        BY <1>1, <1>2, <2>2, <2>3 DEF Finished
    <2>4. CASE vehicles[v].mission # e
        BY <1>1, <2>1, <2>2, <2>4
    <2> QED BY <2>3, <2>4
<1>7. Kept'
    <2> SUFFICES ASSUME call.at = "idle", NEW d \in Epochs, Live(d)'
                 PROVE  Live(d) /\ missions'[d].vehicles = missions[d].vehicles
        BY DEF Clean, Kept
    <2> QED BY <1>1, <1>2 DEF Live
<1>8. DiskClean'
    BY <1>3, <1>6, MirroredIsClean
<1> QED BY <1>4, <1>5, <1>6, <1>7, <1>8 DEF Clean

\* A mission is ended: the vehicles to release are all that belong to it.
LEMMA EndKeepsClean ==
    ASSUME TypeOK, Clean, NEW e \in Epochs, NEW to \in Finished, End(e, to)
    PROVE  Clean'
<1>1. /\ up /\ call = Idle /\ Legal(missions[e].state, to)
      /\ missions' = [missions EXCEPT ![e].state = to]
      /\ call'.at = "release" /\ call'.mission = e /\ call'.left = Held(e)
      /\ UNCHANGED <<up, vehicles, epoch, diskVehicles, diskMissions, diskEpoch>>
    BY DEF End, Ready, disk
<1>2. /\ missions'[e].state = to /\ missions'[e].vehicles = missions[e].vehicles
      /\ \A d \in Epochs \ {e} : missions'[d] = missions[d]
    BY <1>1, MissionMoves
<1>3. missions[e].state # "ABSENT" /\ call.at = "idle"
    BY <1>1, LegalFrom DEF Idle
<1>4. Mirrored'
    BY <1>1, <1>2, <1>3 DEF Clean, Mirrored
<1>5. AtWork'
    <2>1. missions[e] = diskMissions[e]
        BY <1>1, <1>3 DEF Clean, Mirrored
    <2> QED BY <1>1, <1>2, <2>1 DEF AtWork, Held
<1>6. Pointed'
    <2> SUFFICES ASSUME NEW v \in Vehicles, vehicles[v].mission # NoMission
                 PROVE  /\ missions'[vehicles[v].mission].state \in Finished =>
                              vehicles[v].mission = e /\ v \in Held(e)
                        /\ \/ missions'[vehicles[v].mission].state = "ABSENT"
                           \/ v \in missions'[vehicles[v].mission].vehicles
        BY <1>1 DEF Pointed
    <2>1. vehicles[v].mission \in Epochs
        BY DEF TypeOK, VehicleRecords
    <2>2. /\ missions[vehicles[v].mission].state \notin Finished
          /\ \/ missions[vehicles[v].mission].state = "ABSENT"
             \/ v \in missions[vehicles[v].mission].vehicles
        BY <1>1, <1>3 DEF Clean, Pointed
    <2>3. CASE vehicles[v].mission = e
        BY <1>2, <1>3, <2>2, <2>3 DEF Held
    <2>4. CASE vehicles[v].mission # e
        BY <1>2, <2>1, <2>2, <2>4
    <2> QED BY <2>3, <2>4
<1>7. Kept'
    <2> SUFFICES ASSUME NEW d \in Epochs, Live(d)'
                 PROVE  Live(d) /\ missions'[d].vehicles = missions[d].vehicles
        BY <1>1, <1>3 DEF Clean, Kept
    <2> QED BY <1>2 DEF Live, Finished
<1>8. DiskClean'
    BY <1>1 DEF Clean, DiskClean
<1> QED BY <1>4, <1>5, <1>6, <1>7, <1>8 DEF Clean

\* A vehicle is given back by a release or by a restart.
LEMMA FreeingKeepsClean ==
    ASSUME TypeOK, Clean, up, NEW v \in Vehicles, v \in call.left,
           vehicles' = [vehicles EXCEPT ![v] = Freed(vehicles[v])],
           diskVehicles' = [diskVehicles EXCEPT ![v] = Freed(vehicles[v])],
           \/ call.at = "release"
           \/ call.at = "free" /\ \A e \in Epochs : ~Live(e),
           call' = Rest(v, TRUE),
           UNCHANGED <<up, missions, epoch, diskMissions, diskEpoch>>
    PROVE  Clean'
<1>1. call'.at = call.at /\ call'.mission = call.mission /\ call'.left = call.left \ {v}
    BY RestOfCall
<1>2. Freed(vehicles[v]).mission = NoMission
    BY FreedMission DEF TypeOK
<1>3. /\ vehicles'[v].mission = NoMission /\ \A u \in Vehicles \ {v} : vehicles'[u] = vehicles[u]
    BY <1>2 DEF TypeOK
<1>4. vehicles' = diskVehicles' /\ vehicles = diskVehicles
    BY DEF Clean, Mirrored
<1>5. Mirrored'
    BY <1>1, <1>4 DEF Clean, Mirrored
<1>6. AtWork'
    <2>1. call.at = "release" => \A u \in call.left : u \in Vehicles
        BY DEF TypeOK
    <2> QED BY <1>1, <1>3, <2>1 DEF Clean, AtWork
<1>7. Pointed'
    BY <1>1, <1>3 DEF Clean, Pointed
<1>8. Kept'
    <2> SUFFICES ASSUME call.at = "release", NEW e \in Epochs, Live(e), NEW u \in missions[e].vehicles
                 PROVE  vehicles'[u].mission = e
        BY <1>1 DEF Kept, Live
    <2>1. u \in Vehicles /\ vehicles[u].mission = e
        BY DEF Clean, Kept, TypeOK, MissionRecords
    <2>2. u # v
        BY <2>1 DEF Clean, AtWork, Live, Finished
    <2> QED BY <1>3, <2>1, <2>2
<1>9. DiskClean'
    BY <1>3, <1>4 DEF Clean, DiskClean
<1> QED BY <1>5, <1>6, <1>7, <1>8, <1>9 DEF Clean

\* As long as no statement fails, every step keeps memory and the table clean.
LEMMA CleanStep == TypeOK /\ TypeOK' /\ FreshInv /\ AheadInv /\ MissionsInv /\ CleanInv /\ [Next]_vars
                       => CleanInv'
<1> SUFFICES ASSUME TypeOK, TypeOK', FreshInv, AheadInv, MissionsInv, CleanInv, [Next]_vars, failures' = 0
             PROVE  Clean'
    BY DEF CleanInv
<1>0. /\ \A ok \in BOOLEAN : Statement(ok) => ok = TRUE /\ failures = 0
      /\ failures' = failures => failures = 0
      /\ call.at # "idle" => up
    BY DEF Statement, TypeOK, AheadInv, Idle
<1>1. failures = 0 => Clean
    BY DEF CleanInv
<1>2. ASSUME NEW v \in Vehicles, NEW ok \in BOOLEAN,
             \/ \E healthy \in BOOLEAN, charged \in Charges : Ingest(v, healthy, charged, ok)
             \/ \E healthy \in BOOLEAN : UpdateSimNode(v, healthy, ok)
             \/ SetMaintenance(v, ok)
             \/ ClearMaintenance(v, ok)
      PROVE  Clean'
    <2>1. PICK r : r.mission = vehicles[v].mission /\ SetVehicle(v, r, ok)
        BY <1>2, ReportKeepsMission
    <2>2. call' = call /\ up
        BY <1>2, ReportKeepsMission DEF Ready
    <2>3. ok = TRUE /\ Clean
        BY <1>0, <1>1, <2>1 DEF SetVehicle
    <2> QED BY <2>1, <2>2, <2>3, ReportKeepsClean
<1>3. ASSUME NEW count \in 1 .. Cardinality(Vehicles), NEW ok \in BOOLEAN, CreateMission(count, ok)
      PROVE  Clean'
    <2>1. ok = TRUE /\ Clean
        BY <1>0, <1>1, <1>3 DEF CreateMission
    <2> QED BY <1>3, <2>1, CreateKeepsClean
<1>4. ASSUME NEW v \in Vehicles, NEW ok \in BOOLEAN, AssignNext(v, ok)
      PROVE  Clean'
    <2>1. ok = TRUE /\ Clean /\ up
        BY <1>0, <1>1, <1>4 DEF AssignNext, SetVehicle
    <2> QED BY <1>4, <2>1, AssignKeepsClean
<1>5. ASSUME NEW ok \in BOOLEAN, SaveMission(ok)
      PROVE  Clean'
    <2>1. ok = TRUE /\ Clean /\ up
        BY <1>0, <1>1, <1>5 DEF SaveMission
    <2> QED BY <1>5, <2>1, SaveKeepsClean
<1>6. ASSUME NEW e \in Epochs, NEW to \in {"AUTHORIZED", "ABORT_REQUESTED"}, NEW ok \in BOOLEAN,
             Advance(e, to, ok)
      PROVE  Clean'
    <2>1. ok = TRUE /\ Clean
        BY <1>0, <1>1, <1>6 DEF Advance
    <2>2. call.at = "idle" /\ up
        BY <1>6 DEF Advance, Ready, Idle
    <2> QED BY <1>6, <2>1, <2>2, AdvanceKeepsClean DEF Advance
<1>7. ASSUME NEW e \in Epochs, NEW to \in Finished, End(e, to)
      PROVE  Clean'
    <2>1. Clean
        BY <1>0, <1>1, <1>7 DEF End
    <2> QED BY <1>7, <2>1, EndKeepsClean
<1>8. ASSUME NEW v \in Vehicles, NEW ok \in BOOLEAN, ReleaseNext(v, ok)
      PROVE  Clean'
    <2>1. ok = TRUE /\ Clean /\ up
        BY <1>0, <1>1, <1>8 DEF ReleaseNext, SetVehicle
    <2>2. v \in call.left /\ call.at = "release" /\ call' = Rest(v, TRUE)
        BY <1>8, <2>1 DEF ReleaseNext, Lowest
    <2>3. /\ vehicles' = [vehicles EXCEPT ![v] = Freed(vehicles[v])]
          /\ diskVehicles' = [diskVehicles EXCEPT ![v] = Freed(vehicles[v])]
          /\ UNCHANGED <<up, missions, epoch, diskMissions, diskEpoch>>
        BY <1>8, <2>1 DEF ReleaseNext, SetVehicle
    <2> QED BY <2>1, <2>2, <2>3, FreeingKeepsClean
<1>9. ASSUME Dead, UNCHANGED <<diskVehicles, diskMissions, diskEpoch>>, failures = 0
      PROVE  Clean'
    BY <1>1, <1>9, DeadForgets DEF Clean, DiskClean
<1>10. CASE Restart
    <2>1. /\ Clean /\ vehicles' = diskVehicles /\ missions' = diskMissions /\ epoch' = diskEpoch
          /\ call'.at = "reconcile" /\ UNCHANGED <<diskVehicles, diskMissions, diskEpoch>>
        BY <1>0, <1>1, <1>10 DEF Restart, disk
    <2>2. Mirrored' /\ AtWork' /\ Kept'
        BY <2>1 DEF Mirrored, AtWork, Kept
    <2>3. Pointed'
        BY <2>1 DEF Clean, DiskClean, Pointed
    <2>4. DiskClean'
        BY <2>1 DEF Clean, DiskClean
    <2> QED BY <2>2, <2>3, <2>4 DEF Clean
<1>11. ASSUME NEW e \in Epochs, NEW ok \in BOOLEAN, ReconcileMission(e, ok)
       PROVE  Clean'
    <2>1. ok = TRUE /\ Clean /\ up /\ failures = 0
        BY <1>0, <1>1, <1>11 DEF ReconcileMission
    <2>2. CASE Legal(missions[e].state, "ABORT_REQUESTED")
        <3>1. /\ missions' = [missions EXCEPT ![e].state = "ABORT_REQUESTED"]
              /\ diskMissions' = [diskMissions EXCEPT ![e] = missions'[e]]
              /\ call.at = "reconcile" /\ call' = [call EXCEPT !.left = @ \ {e}]
              /\ UNCHANGED <<up, vehicles, diskVehicles, corridor, epoch, diskEpoch>>
            BY <1>11, <2>1, <2>2 DEF ReconcileMission
        <3>2. call'.at = call.at
            BY <3>1 DEF TypeOK
        <3> QED BY <2>1, <2>2, <3>1, <3>2, AdvanceKeepsClean
    <2>3. CASE ~Legal(missions[e].state, "ABORT_REQUESTED")
        BY <1>9, <1>11, <2>1, <2>3 DEF ReconcileMission
    <2> QED BY <2>2, <2>3
<1>12. CASE StartFreeing \/ BecomeReady
    <2>1. /\ Clean /\ up /\ call.at \in {"reconcile", "free"} /\ call'.at \in {"free", "idle"}
          /\ UNCHANGED <<up, vehicles, missions, corridor, epoch, diskVehicles, diskMissions, diskEpoch>>
        BY <1>0, <1>1, <1>12 DEF StartFreeing, BecomeReady, memory, disk, Idle
    <2>2. \A e \in Epochs : ~Live(e)
        BY <1>12 DEF StartFreeing, BecomeReady, MissionsInv, OldMissionsAreNotResumed, Live
    <2>3. Mirrored' /\ AtWork'
        BY <2>1 DEF Clean, Mirrored, AtWork
    <2>4. Pointed' /\ DiskClean'
        BY <2>1 DEF Clean, Pointed, DiskClean
    <2>5. Kept'
        BY <2>1, <2>2 DEF Kept, Live
    <2> QED BY <2>3, <2>4, <2>5 DEF Clean
<1>13. ASSUME NEW v \in Vehicles, NEW ok \in BOOLEAN, FreeNext(v, ok)
       PROVE  Clean'
    <2>1. ok = TRUE /\ Clean /\ up
        BY <1>0, <1>1, <1>13 DEF FreeNext
    <2>2. v \in call.left /\ call.at = "free" /\ call' = Rest(v, TRUE)
        BY <1>13, <2>1 DEF FreeNext, Lowest
    <2>3. \A e \in Epochs : ~Live(e)
        BY <2>2 DEF MissionsInv, OldMissionsAreNotResumed, Live
    <2>4. /\ vehicles' = [vehicles EXCEPT ![v] = Freed(vehicles[v])]
          /\ diskVehicles' = [diskVehicles EXCEPT ![v] = Freed(vehicles[v])]
          /\ UNCHANGED <<up, missions, epoch, diskMissions, diskEpoch>>
        BY <1>13, <2>1 DEF FreeNext, TypeOK
    <2> QED BY <2>1, <2>2, <2>3, <2>4, FreeingKeepsClean
<1>14. CASE UNCHANGED vars
    <2>1. /\ Clean /\ UNCHANGED <<up, vehicles, missions, corridor, epoch, call>>
          /\ UNCHANGED <<diskVehicles, diskMissions, diskEpoch>>
        BY <1>0, <1>1, <1>14 DEF vars, memory, disk
    <2> QED BY <2>1 DEF Clean, DiskClean, Mirrored, AtWork, Pointed, Kept, Live
<1> QED
    <2>1. CASE Request
        BY <2>1, <1>2, <1>3, <1>6, <1>7
        DEF Request, Authorize, RequestAbort, ConfirmAbort, CompleteMission, Finished
    <2>2. CASE Continue
        BY <2>2, <1>4, <1>5, <1>8, <1>11, <1>12, <1>13 DEF Continue
    <2>3. CASE Crash
        BY <2>3, <1>0, <1>9 DEF Crash, disk
    <2> QED BY <2>1, <2>2, <2>3, <1>10, <1>14 DEF Next

LEMMA CleanHolds == Spec => []CleanInv
<1>1. Init => CleanInv
    BY DEF Init, CleanInv, Clean, DiskClean, Mirrored, AtWork, Pointed, Kept, Live, NoMissions, Registry,
       Idle
<1> QED BY <1>1, FleetTypeCorrect, FreshHolds, AheadHolds, MissionsInvariant, CleanStep, PTL DEF Spec

\* Whatever is confirmed late about an older mission, a mission that may fly
\* keeps its vehicles, for any number of missions and crashes.
THEOREM LiveMissionKeepsVehiclesHolds == Spec => []LiveMissionKeepsVehicles
<1>1. CleanInv => LiveMissionKeepsVehicles
    BY DEF CleanInv, Clean, Kept, LiveMissionKeepsVehicles, Ready, Idle
<1> QED BY <1>1, CleanHolds, PTL

\* A mission that is over holds no vehicle, wherever the process died.
THEOREM FinishedHoldsNothingHolds == Spec => []FinishedHoldsNothing
<1>1. CleanInv => FinishedHoldsNothing
    BY DEF CleanInv, Clean, Pointed, Finished, FinishedHoldsNothing, Ready, Idle
<1> QED BY <1>1, CleanHolds, PTL

\* What clients see between calls is what a restart would load.
THEOREM SettledIsDurableHolds == Spec => []SettledIsDurable
<1>1. TypeOK /\ CleanInv => SettledIsDurable
    BY DEF TypeOK, CleanInv, Clean, Mirrored, SettledIsDurable, Ready, Idle
<1> QED BY <1>1, FleetTypeCorrect, CleanHolds, PTL

-----------------------------------------------------------------------------

States == [e \in Epochs |-> diskMissions[e].state]

\* A row that changes by a transition, or is written for the first time, is a
\* step of MissionLifecycle.
LEMMA RowIsLifecycleStep ==
    ASSUME TypeOK, NEW e \in Epochs, NEW row, diskMissions' = [diskMissions EXCEPT ![e] = row],
           \/ diskMissions[e].state = "ABSENT" /\ row.state = "PLANNED"
           \/ Legal(diskMissions[e].state, row.state)
    PROVE  Lifecycle!Next
<1>1. States' = [States EXCEPT ![e] = row.state]
    BY DEF States, TypeOK
<1>2. States[e] = diskMissions[e].state
    BY DEF States
<1>3. CASE diskMissions[e].state = "ABSENT" /\ row.state = "PLANNED"
    <2>1. Lifecycle!Create(e)
        BY <1>1, <1>2, <1>3 DEF Lifecycle!Create, States
    <2> QED BY <2>1 DEF Lifecycle!Next
<1>4. CASE Legal(diskMissions[e].state, row.state)
    <2>1. row.state \in Lifecycle!MissionStates
        BY <1>4, LegalFrom DEF Lifecycle!MissionStates
    <2>2. Lifecycle!Legal(States[e], row.state)
        BY <1>2, <1>4 DEF Legal, Lifecycle!Legal
    <2>3. Lifecycle!Move(e)
        BY <1>1, <2>1, <2>2 DEF Lifecycle!Move, States
    <2> QED BY <2>3 DEF Lifecycle!Next
<1> QED BY <1>3, <1>4

\* As long as no statement fails, every step of the server is a step of
\* MissionLifecycle or leaves the rows alone.
LEMMA LifecycleStep ==
    ASSUME TypeOK, AheadInv, MissionsInv, CleanInv, [Next]_vars, failures = 0, failures' = 0
    PROVE  Lifecycle!Next \/ UNCHANGED States
<1>0. /\ \A ok \in BOOLEAN : Statement(ok) => ok = TRUE
      /\ call.at # "idle" => up
      /\ Clean
    BY DEF Statement, TypeOK, AheadInv, CleanInv, Idle
<1>1. CASE UNCHANGED diskMissions
    BY <1>1 DEF States
<1>2. ASSUME NEW ok \in BOOLEAN, SaveMission(ok)
      PROVE  Lifecycle!Next
    <2>1. /\ call.at \in {"assign", "release"} /\ call.mission \in Epochs /\ up
          /\ diskMissions' = [diskMissions EXCEPT ![call.mission] = missions[call.mission]]
        BY <1>0, <1>2 DEF SaveMission, TypeOK
    <2>2. \/ diskMissions[call.mission].state = "ABSENT" /\ missions[call.mission].state = "PLANNED"
          \/ Legal(diskMissions[call.mission].state, missions[call.mission].state)
        BY <1>0, <2>1 DEF Clean, AtWork
    <2> QED BY <2>1, <2>2, RowIsLifecycleStep
<1>3. ASSUME NEW e \in Epochs, NEW to, NEW ok \in BOOLEAN, Advance(e, to, ok)
      PROVE  Lifecycle!Next
    <2>1. /\ Legal(missions[e].state, to) /\ missions' = [missions EXCEPT ![e].state = to]
          /\ diskMissions' = [diskMissions EXCEPT ![e] = missions'[e]]
          /\ up /\ call.at = "idle"
        BY <1>0, <1>3 DEF Advance, Ready, Idle
    <2>2. missions[e] = diskMissions[e]
        BY <1>0, <2>1 DEF Clean, Mirrored
    <2>3. missions'[e].state = to
        BY <2>1, MissionMoves
    <2> QED BY <2>1, <2>2, <2>3, RowIsLifecycleStep
<1>4. ASSUME NEW e \in Epochs, NEW ok \in BOOLEAN, ReconcileMission(e, ok)
      PROVE  Lifecycle!Next \/ UNCHANGED diskMissions
    <2>1. CASE ok /\ Legal(missions[e].state, "ABORT_REQUESTED")
        <3>1. /\ missions' = [missions EXCEPT ![e].state = "ABORT_REQUESTED"]
              /\ diskMissions' = [diskMissions EXCEPT ![e] = missions'[e]]
              /\ missions = diskMissions
            BY <1>4, <2>1 DEF ReconcileMission, MissionsInv
        <3>2. missions'[e].state = "ABORT_REQUESTED"
            BY <3>1, MissionMoves
        <3> QED BY <2>1, <3>1, <3>2, RowIsLifecycleStep
    <2>2. CASE ~(ok /\ Legal(missions[e].state, "ABORT_REQUESTED"))
        BY <1>4, <2>2 DEF ReconcileMission
    <2> QED BY <2>1, <2>2
<1>5. Next => \/ UNCHANGED diskMissions
              \/ \E ok \in BOOLEAN : SaveMission(ok)
              \/ \E e \in Epochs, ok \in BOOLEAN : ReconcileMission(e, ok)
              \/ \E e \in Epochs, ok \in BOOLEAN, to \in MissionStates : Advance(e, to, ok)
    <2>1. Request => \/ UNCHANGED diskMissions
                     \/ \E e \in Epochs, ok \in BOOLEAN, to \in MissionStates : Advance(e, to, ok)
        <3>1. ASSUME NEW v \in Vehicles, NEW ok \in BOOLEAN,
                     \/ \E healthy \in BOOLEAN, charged \in Charges : Ingest(v, healthy, charged, ok)
                     \/ \E healthy \in BOOLEAN : UpdateSimNode(v, healthy, ok)
                     \/ SetMaintenance(v, ok)
                     \/ ClearMaintenance(v, ok)
              PROVE  UNCHANGED diskMissions
            BY <3>1, ReportKeepsMission DEF SetVehicle
        <3>2. ASSUME NEW e \in Epochs, NEW ok \in BOOLEAN, Authorize(e, ok) \/ RequestAbort(e, ok)
              PROVE  \E to \in MissionStates : Advance(e, to, ok)
            BY <3>2 DEF Authorize, RequestAbort, MissionStates
        <3> QED BY <3>1, <3>2 DEF Request, CreateMission, ConfirmAbort, CompleteMission, End, disk
    <2>2. Continue => \/ UNCHANGED diskMissions
                      \/ \E ok \in BOOLEAN : SaveMission(ok)
                      \/ \E e \in Epochs, ok \in BOOLEAN : ReconcileMission(e, ok)
        BY DEF Continue, AssignNext, ReleaseNext, FreeNext, SetVehicle, StartFreeing, BecomeReady, disk
    <2> QED BY <2>1, <2>2 DEF Next, Crash, Restart, disk
<1> QED BY <1>1, <1>2, <1>3, <1>4, <1>5 DEF vars, disk

\* Where no statement fails, what the database tells of the missions follows
\* the server_mission machine step by step, for any number of missions,
\* crashes and restarts.
THEOREM DurableLifecycleHolds ==
    ASSUME MaxFailures = 0
    PROVE  Spec => DurableLifecycle
<1>1. Init => Lifecycle!Init
    BY DEF Init, NoMissions, Lifecycle!Init
<1>2. TypeOK => failures = 0
    BY DEF TypeOK
<1>3. TypeOK /\ TypeOK' /\ AheadInv /\ MissionsInv /\ CleanInv /\ [Next]_vars
          => [Lifecycle!Next]_States
    BY <1>2, LifecycleStep DEF TypeOK
<1>4. DurableLifecycle <=> Lifecycle!Init /\ [][Lifecycle!Next]_States
    BY DEF DurableLifecycle, Lifecycle!Spec, States
<1> QED BY <1>1, <1>3, <1>4, FleetTypeCorrect, AheadHolds, MissionsInvariant, CleanHolds, PTL DEF Spec
=============================================================================
