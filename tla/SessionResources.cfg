SPECIFICATION FairSpec
CONSTANTS
    f1 = f1  f2 = f2  d1 = d1  tool = tool  w1 = w1  w2 = w2
    Launches = {f1, d1}
    Daemons = {d1}
    Workspaces = {w1}
    WorkspaceOf <- OneWorkspace
    Tools = {tool}
INVARIANTS NetworksOfTheLivingStay OrderlyEndLeavesNothing AgentHasItsProxy NamesAreTheHolders
PROPERTIES OrphansAreReclaimed StrandedProxiesAreReclaimed
CHECK_DEADLOCK FALSE
