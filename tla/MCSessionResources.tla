------------------------- MODULE MCSessionResources -------------------------
(***************************************************************************)
(* Instances of SessionResources for TLC.                                  *)
(***************************************************************************)
EXTENDS SessionResources, TLC

CONSTANTS f1, f2, d1, tool, w1, w2

(* A foreground launch and a daemon of one workspace.                      *)
OneWorkspace == f1 :> w1 @@ d1 :> w1

(* Two foreground launches, of a workspace each.                           *)
TwoWorkspaces == f1 :> w1 @@ f2 :> w2
=============================================================================
