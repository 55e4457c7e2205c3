SPECIFICATION Spec
CONSTANTS
    tls = tls  con = con  fwd = fwd  c1 = c1  c2 = c2  c3 = c3  d1 = d1  d2 = d2
    Listeners = {con, fwd}
    Conns = {c2, c3}
    Kind <- Kinds
    ListenerOf <- OfOneEach
    Dests = {d1}
    DestOf <- SameDest
    MaxConns = 1
    MaxBytes = 2
    MaxProbes = 1
INVARIANTS StreamIsExact HalfClosedStreamIsWhole ClientStreamGoesOn
PROPERTY StreamsArePipes
CHECK_DEADLOCK FALSE
