CONSTANTS
    Contexts = {bare, dfile, other, link}
    Buildable = {dfile, other}
    Linked = {link}
    Keys = {k1}
    Values = {v1, v2}
    HomeLinks = {h1}
    ProtectedLinks = {p1}
    None = None
    MaxEdits = 2
    MaxLaunches = 2
SPECIFICATION Spec
INVARIANT ImageIsReviewed
PROPERTIES KeysAreGranted LinksAreGranted
CONSTRAINT OneSubject
SYMMETRY KindSymmetry
CHECK_DEADLOCK FALSE
