SPECIFICATION Spec
CONSTANTS
    Clients = {c1}
    Actions = {a1}
    MaxJobs = 1
    Faulty = FALSE
    Nil = Nil
    Requests <- MCRequests
    Workers = {w1, w2}
    MaxRemoved = 1
    JobIds <- MCJobIds
    MaxLen = 6
    Loop = Loop
INVARIANT SagasWellFormed
