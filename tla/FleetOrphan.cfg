SPECIFICATION Spec
CONSTANTS
    Vehicles = {1, 2}
    Charges = {TRUE}
    MaxEpoch = 1
    MaxCrashes = 1
    MaxFailures = 0
PROPERTY RestartReleasesAll
