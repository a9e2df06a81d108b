---------------------------- MODULE MCHttpWorker ----------------------------
(* Small instances of HttpWorker for TLC. *)
EXTENDS HttpWorker, TLC

CONSTANTS l1, l2, l3, t1

\* Every lease delivers the same task.
OneTask  == [l \in Leases |-> t1]

Symmetry == Permutations(Leases)
=============================================================================
