SPECIFICATION Spec
CONSTANTS
    RandomLen = 1
    PeekLimit = 36
    Streams <- TheStreams
INVARIANTS NameIsAsked ArrivalIsIrrelevant WaitsOnlyForMore
CHECK_DEADLOCK FALSE
