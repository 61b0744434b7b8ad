SPECIFICATION FairSpec
CONSTANTS
    Threads = {t1, t2}
    Main = t1
    NoThread = none
    Migrations = 2
    MaxEntries = 4
    MaxCrashes = 2
    MaxFailures = 1
PROPERTIES EveryStartIsReady
CHECK_DEADLOCK FALSE
