SPECIFICATION FairPeersSpec
CONSTANTS
    tls = tls  con = con  fwd = fwd  c1 = c1  c2 = c2  c3 = c3  d1 = d1  d2 = d2
    Listeners = {tls, con}
    Conns = {c1, c2}
    Kind <- Kinds
    ListenerOf <- TlsTwice
    Dests = {d1}
    DestOf <- SameDest
    MaxConns = 2
    MaxBytes = 1
    MaxProbes = 0
INVARIANTS SlotsAreCounted LoggedOnce SplicedIsLogged
PROPERTIES BacklogIsServed EndedSplicesReturn
CHECK_DEADLOCK FALSE
