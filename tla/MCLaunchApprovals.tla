------------------------- MODULE MCLaunchApprovals -------------------------
(* Instances of LaunchApprovals for TLC.                                   *)
EXTENDS LaunchApprovals, FiniteSets, TLC

\* The questions share the steps of a launch and nothing else: a state has
\* reason for one of them, another may come up after an edit.
Subjects == {s \in {"keys", "context", "links"} :
                \/ s = "keys" /\ config # {}
                \/ s = "context" /\ HasDockerfile(context)
                \/ s = "links" /\ links # {}}
OneSubject == Cardinality(Subjects) <= 1

\* contexts of one kind are alike, and so are the values of a key
KindSymmetry == Permutations(Buildable) \cup Permutations(Values)
============================================================================
