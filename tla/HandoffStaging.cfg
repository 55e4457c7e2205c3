SPECIFICATION Spec
CONSTANTS
    l1 = l1
    l2 = l2
    l3 = l3
    Launches = {l1, l2, l3}
    Dirs = {"statsig"}
    Files = {"settings"}
    Values = {"old", "new"}
SYMMETRY Symmetric
INVARIANTS AgentIsPrepared NotesAreKept
PROPERTIES HostReplacesNothingUsed
CHECK_DEADLOCK FALSE
