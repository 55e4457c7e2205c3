CONSTANTS
    Contexts = {bare, dfile, other, link}
    Buildable = {dfile, other}
    Linked = {link}
    Keys = {k1}
    Values = {v1, v2}
    HomeLinks = {h1}
    ProtectedLinks = {p1}
    None = None
    MaxEdits = 2
    MaxLaunches = 2
SPECIFICATION Spec
PROPERTY RemovedLinksArePruned
CONSTRAINT OneSubject
CHECK_DEADLOCK FALSE
