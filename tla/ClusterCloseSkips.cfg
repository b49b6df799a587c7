SPECIFICATION Spec
CONSTANTS
    Nodes = {n1, n2}
    InitialNodes = {n1}
    Readers = {r1}
    Nil = Nil
    Subs = {a, b, c}
    MaxIngest = 0
    MaxBatch = 1
    QuiescentClose = TRUE
    CloseIsLast = TRUE
INVARIANT CloseReachesEverySubscriber
SYMMETRY Symmetric
CHECK_DEADLOCK FALSE
