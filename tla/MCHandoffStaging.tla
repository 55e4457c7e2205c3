-------------------------- MODULE MCHandoffStaging --------------------------
(* Instances of HandoffStaging.                                            *)
EXTENDS HandoffStagingProofs, TLC

CONSTANTS l1, l2, l3
Symmetric == Permutations(Launches)
=============================================================================
