SPECIFICATION Spec
CONSTANTS
    Asked = {"LAUNCH", "LAND"}
    Kinds = {"ASSIGN", "TRANSITION", "SETPOINT", "ABORT", "PING"}
    Ttl = 1
    Tolerance = 0
    ServerBehind = 1
    UartTimeout = 0
    QueueLimit = 2
    MaxTime = 1
    MaxPackets = 3
    MaxSessions = 3
    MaxRestarts = 1
INVARIANTS TypeOK HandledOnceInOrder ForwardedInItsSession AbortStopsFlight
CHECK_DEADLOCK FALSE
