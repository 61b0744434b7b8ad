SPECIFICATION Spec
CONSTANTS
    Vehicles = {1, 2}
    Charges = {TRUE}
    MaxEpoch = 3
    MaxCrashes = 2
    MaxFailures = 0
INVARIANTS
    AvailableIsFree CorridorExclusive LiveMissionKeepsVehicles FinishedHoldsNothing
    MissionIdsAreFresh OldMissionsAreNotResumed SettledIsDurable
PROPERTIES DurableLifecycle
