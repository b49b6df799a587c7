SPECIFICATION Spec
CONSTANTS
    Clients = {c1, c2}
    Argvs = {x, y}
    MaxRuns = 3
    Nil = Nil
INVARIANT RunAnswersLiveRun
SYMMETRY Symmetric
CHECK_DEADLOCK FALSE
