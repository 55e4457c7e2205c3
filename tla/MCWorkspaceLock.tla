-------------------------- MODULE MCWorkspaceLock --------------------------
(* The instance of WorkspaceLock for TLC: the constants are in the .cfg.   *)
EXTENDS WorkspaceLockProofs, TLC
============================================================================
