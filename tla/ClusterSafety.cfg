SPECIFICATION FairSpec
CONSTANTS
    Nodes = {n1, n2}
    InitialNodes = {n1}
    Readers = {r1}
    Nil = Nil
    Subs = {a, b}
    MaxIngest = 1
    MaxBatch = 1
    QuiescentClose = FALSE
    CloseIsLast = FALSE
INVARIANT TypeOK
INVARIANT RegisteredIffOpen
INVARIANT ViewConsistent
INVARIANT PanicOnlyAfterClose
PROPERTY EveryRequestAnswered
CHECK_DEADLOCK FALSE
