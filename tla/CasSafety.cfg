SPECIFICATION FairSpec
CONSTANTS
    Clients = {c1, c2}
    Digests <- MCDigests
    EmptySha <- MCEmptySha
    DefaultReadCapacity = 2
    ArLen = 1
    MaxBuf = 3
    Initialized = TRUE
    Faulty = TRUE
    Invalid = Invalid
    NoName = NoName
    Nil = Nil
INVARIANT TypeOK
INVARIANT StoredLengthMatchesDigest
PROPERTY AckedNeverMissing
PROPERTY ReadSendsFromOffset
PROPERTY EveryLoopEnds
CHECK_DEADLOCK FALSE
