---------------------------- MODULE MCTaskPipeline ----------------------------
(* Small instances of TaskPipeline for TLC. *)
EXTENDS TaskPipeline, TLC

CONSTANTS r1, r2

\* Fewer slots than runs in every stage, as on a small container.
OneEach  == [s \in Sems |-> 1]
Symmetry == Permutations(Runs)
=============================================================================
