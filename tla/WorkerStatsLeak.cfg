SPECIFICATION FairSpec
CONSTANTS
    Clients = {c1, c2}
    Argvs = {x, y}
    MaxRuns = 2
    Nil = Nil
PROPERTY EveryRpcReturns
CHECK_DEADLOCK FALSE
