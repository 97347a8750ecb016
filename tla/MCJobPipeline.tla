---------------------------- MODULE MCJobPipeline ----------------------------
(* Small instances of JobPipeline for TLC. *)
EXTENDS JobPipeline, TLC

CONSTANTS r1, r2, hello, spam, t1, t2, w1, w2

OnePartition == [r \in RequestId |-> 0]

Symmetric == Permutations(Worker) \cup Permutations(Thread) \cup Permutations(Content)
=============================================================================
