SPECIFICATION Spec
CONSTANTS
    Nonces = {n1, n2}
    NoSession = NoSession
    NoSequence = NoSequence
    ClockMod = 4
    SeqMod = 4
    HeartbeatTimeout = 2
    SetpointTimeout = 1
    ModeTtlMax = 1
    Uptimes = {0, 3}
    Sequences = {0, 1}
    Ttls = {1}
SYMMETRY Symmetry
INVARIANTS TypeOK PowerNeedsSession
PROPERTY AuthorityPromise
