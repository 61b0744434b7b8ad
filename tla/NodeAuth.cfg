SPECIFICATION Spec
CONSTANTS
    Requests = {r1, r2}
    Threads = {t1, t2}
    NoRequest = none
    Second = 2
    Window = 2
    NonceTtl = 8
    Patience = 1
    Burst = 2
    TokenTicks = 2
    MaxTime = 11
    MaxStamp = 4
    MaxKey = 3
    MaxCharges = 3
INVARIANTS TwiceOnlyFromFastClocks RateBounded RotationSparesInFlight
SYMMETRY Symmetry
CHECK_DEADLOCK FALSE
