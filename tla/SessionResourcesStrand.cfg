SPECIFICATION Spec
CONSTANTS
    f1 = f1  f2 = f2  d1 = d1  tool = tool  w1 = w1  w2 = w2
    Launches = {f1, f2}
    Daemons = {}
    Workspaces = {w1, w2}
    WorkspaceOf <- TwoWorkspaces
    Tools = {}
INVARIANT LaunchSparesSessions
CHECK_DEADLOCK FALSE
