-------------------------- MODULE MCDaemonSession --------------------------
(* Two clients, each a --start, a --stop or an --attach.                   *)
EXTENDS DaemonSession

CONSTANTS c1, c2

TwoClients == {c1, c2}
=============================================================================
