CONSTANTS
    Launches = {l1, l2}
    Tools = {t1, t2}
    MvReplaces = TRUE
SPECIFICATION FairSpec
INVARIANTS MutualExclusion ReaperSparesTheLiving OrderlyEndFreesLock
PROPERTIES ImplementsMutex StaleLockIsRecovered
CHECK_DEADLOCK FALSE
