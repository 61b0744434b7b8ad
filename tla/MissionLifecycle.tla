-------------------------- MODULE MissionLifecycle --------------------------
(***************************************************************************)
(* The life of every mission as an operator or an auditor may know it: a   *)
(* mission id is used for one mission only, and its state moves along the  *)
(* server_mission machine of schemas/state-machines.json, whatever crashes *)
(* and restarts the server goes through.                                   *)
(***************************************************************************)
CONSTANT Missions

VARIABLE mission     \* the state each mission is known to be in

MissionStates == {"ABSENT", "PLANNED", "AUTHORIZED", "ABORT_REQUESTED", "ABORTED", "COMPLETED"}

\* schemas/state-machines.json:29
Legal(from, to) ==
    <<from, to>> \in
      { <<"PLANNED", "AUTHORIZED">>, <<"PLANNED", "ABORT_REQUESTED">>,
        <<"AUTHORIZED", "ABORT_REQUESTED">>, <<"AUTHORIZED", "COMPLETED">>,
        <<"ABORT_REQUESTED", "ABORTED">> }

Init == mission = [m \in Missions |-> "ABSENT"]

Create(m) == mission[m] = "ABSENT" /\ mission' = [mission EXCEPT ![m] = "PLANNED"]

Move(m) ==
    \E to \in MissionStates :
        /\ Legal(mission[m], to)
        /\ mission' = [mission EXCEPT ![m] = to]

Next == \E m \in Missions : Create(m) \/ Move(m)

Spec == Init /\ [][Next]_mission
=============================================================================
