SPECIFICATION FairSpec
CONSTANTS
    Clients = {c1}
    Actions = {a1}
    MaxJobs = 2
    Faulty = TRUE
    Nil = Nil
    Requests <- MCRequests
    Workers = {w1, w2}
    MaxRemoved = 1
    JobIds <- MCJobIds
    MaxLen = 6
    Loop = Loop
INVARIANT TypeOK
INVARIANT ScheduledJobsAreRunnable
INVARIANT SagasWellFormedUntilRemoved
INVARIANT DispatchIsExclusive
PROPERTY EveryJobEnds
