SPECIFICATION FairSpec
CONSTANTS
    A = 10
    L = 11
    MaxPayload = 2
    Messages <- TestMessages
    RxBudget = 6
    TelemetryBudget = 3
    MaxFrames = 3
    MaxFaults = 1
    MaxWire = 8
INVARIANTS TypeOK PassedOnceInOrder PiLosesNothing FcLossIsLocal
PROPERTIES UndisturbedArrives
CHECK_DEADLOCK FALSE
