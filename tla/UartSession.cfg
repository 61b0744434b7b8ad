SPECIFICATION SessionSpec
CONSTANTS
    Nonces = {n1, n2}
    NoSession = NoSession
    NoSequence = NoSequence
    ClockMod = 16
    SeqMod = 16
    HeartbeatTimeout = 2
    SetpointTimeout = 1
    ModeTtlMax = 1
    Uptimes = {0}
    Sequences = {0}
    Ttls = {1}
    MaxTime = 4
    MaxSent = 4
    MaxBindings = 4
    PeerSkew = 7
    ModesAsked = {"READY", "ACTIVE"}
SYMMETRY Symmetry
INVARIANTS TwiceOnlyAfterRebinding StalenessBounded AuthorityWasCommanded
PROPERTY WatchdogSparesOnlyFed
