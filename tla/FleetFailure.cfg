SPECIFICATION FairSpec
CONSTANTS
    Vehicles = {1, 2}
    Charges = {TRUE, FALSE}
    MaxEpoch = 2
    MaxCrashes = 1
    MaxFailures = 1
PROPERTY RowsMoveForward AlwaysReadyAgain
