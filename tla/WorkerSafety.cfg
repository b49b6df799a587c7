SPECIFICATION Spec
CONSTANTS
    Clients = {c1, c2}
    Argvs = {x, y}
    MaxRuns = 2
    Nil = Nil
INVARIANT TypeOK
INVARIANT SerialRunAnswersLiveRun
INVARIANT SerialRunsTrackActiveRun
CHECK_DEADLOCK FALSE
