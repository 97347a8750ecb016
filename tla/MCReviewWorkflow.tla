-------------------------- MODULE MCReviewWorkflow --------------------------
(* Symmetry of the instances of ReviewWorkflow. *)
EXTENDS ReviewEndpoints, TLC

\* No definition tells one reviewer, policy version or verdict from another.
Symmetry == Permutations(Reviewer) \cup Permutations(Version)
                \cup Permutations(Verdict)
=============================================================================
