----------------------------- MODULE MCTcpWorker -----------------------------
(* Small instances of TcpWorker for TLC. *)
EXTENDS TcpWorker, TLC

CONSTANTS l1, l2, t1

\* Every lease delivers the same task.
OneTask  == [l \in Leases |-> t1]

Symmetry == Permutations(Leases)
=============================================================================
