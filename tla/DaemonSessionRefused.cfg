CONSTANTS
    c1 = c1
    c2 = c2
    Clients <- TwoClients
    MaxWait = 2
    CrashLoop = 1
SPECIFICATION Spec
INVARIANT LockRefusalIsTold
CHECK_DEADLOCK FALSE
