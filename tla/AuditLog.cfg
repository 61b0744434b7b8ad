SPECIFICATION FairSpec
CONSTANTS
    Threads = {t1, t2}
    Main = t1
    NoThread = none
    Migrations = 2
    MaxEntries = 4
    MaxCrashes = 2
    MaxFailures = 2
INVARIANTS TypeOK LiveChainVerifies OnlyAdviceOverlaps DurableChainVerifies UnauditedBounded
PROPERTIES ReadyAfterCrashes
CHECK_DEADLOCK FALSE
