CONSTANTS
    c1 = c1
    c2 = c2
    Clients <- TwoClients
    MaxWait = 2
    CrashLoop = 1
SPECIFICATION FairSpec
INVARIANT LockCoversContainer
INVARIANT SixMeansRefused
INVARIANT StopZeroMeansStopped
INVARIANT LiveIsNotCalledEnded
PROPERTY EndedSessionIsTornDown
PROPERTY FailedStartIsTornDown
CHECK_DEADLOCK FALSE
