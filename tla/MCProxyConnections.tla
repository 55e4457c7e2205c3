------------------------- MODULE MCProxyConnections -------------------------
(* Instances of ProxyConnections.                                          *)
EXTENDS ProxyConnectionsProofs, TLC

CONSTANTS tls, con, fwd, c1, c2, c3, d1, d2

\* a listener of each kind
KindOfEach == (tls :> "transparent") @@ (con :> "connect") @@ (fwd :> "forward")
Kinds == [l \in Listeners |-> KindOfEach[l]]
\* two connections to the transparent listener
TlsTwice == [c \in Conns |-> IF c = c3 THEN con ELSE tls]
\* a connection to each listener
OneEach == (c1 :> tls) @@ (c2 :> con) @@ (c3 :> fwd)
OfOneEach == [c \in Conns |-> OneEach[c]]
\* all ask for the same destination
SameDest == [c \in Conns |-> d1]
=============================================================================
