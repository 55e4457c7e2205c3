---------------------------- MODULE SessionMutex ----------------------------
(***************************************************************************)
(* What the workspace lock promises (src/sandy, "Only one sandy may run    *)
(* against a given workspace at a time"): a launch becomes a holder only   *)
(* while nobody holds, and a holder is alone until it leaves.  The promise *)
(* is forfeited, for good, by the one event the code cannot exclude: a     *)
(* reaper renaming a lock that is not the one it checked.                  *)
(***************************************************************************)
CONSTANT Launches

VARIABLES holders, forfeited

vars == <<holders, forfeited>>

Init == holders = {} /\ forfeited = FALSE

Acquire(p) ==
    /\ p \notin holders
    /\ holders = {} \/ forfeited
    /\ holders' = holders \cup {p}
    /\ UNCHANGED forfeited

Leave(p) ==
    /\ p \in holders
    /\ holders' = holders \ {p}
    /\ UNCHANGED forfeited

Forfeit ==
    /\ forfeited' = TRUE
    /\ UNCHANGED holders

Next == Forfeit \/ \E p \in Launches : Acquire(p) \/ Leave(p)

Spec == Init /\ [][Next]_vars
=============================================================================
