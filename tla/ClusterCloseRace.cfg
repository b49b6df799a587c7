SPECIFICATION Spec
CONSTANTS
    Nodes = {n1, n2}
    InitialNodes = {n1}
    Readers = {r1}
    Nil = Nil
    Subs = {a, b}
    MaxIngest = 1
    MaxBatch = 1
    QuiescentClose = FALSE
    CloseIsLast = FALSE
INVARIANT NeverPanics
SYMMETRY Symmetric
CHECK_DEADLOCK FALSE
