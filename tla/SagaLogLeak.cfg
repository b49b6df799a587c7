SPECIFICATION FairSpec
CONSTANTS
    Threads = {g1, g2}
    SagaIds = {s1}
    MsgTypes <- MCMsgTypes
    TaskIds <- MCTaskIds
    MaxLen = 2
PROPERTY EveryCallReturns
CHECK_DEADLOCK FALSE
