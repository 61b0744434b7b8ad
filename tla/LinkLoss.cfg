SPECIFICATION LossSpec
CONSTANTS
    Nonces = {n1}
    NoSession = NoSession
    NoSequence = NoSequence
    ClockMod = 5
    SeqMod = 4
    HeartbeatTimeout = 2
    SetpointTimeout = 1
    ModeTtlMax = 1
    Uptimes = {0}
    Sequences = {0, 1}
    Ttls = {1}
PROPERTIES SilenceEndsAuthority SilentActiveIsReported
