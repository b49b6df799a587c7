SPECIFICATION Spec
CONSTANTS
    Threads = {g1, g2}
    SagaIds = {s1}
    MsgTypes <- MCMsgTypes
    TaskIds <- MCTaskIds
    MaxLen = 2
PROPERTY AppendOnly
CHECK_DEADLOCK FALSE
