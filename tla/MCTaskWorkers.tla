--------------------------- MODULE MCTaskWorkers ----------------------------
(* Instance of TaskWorkers for TLC: the pool threads are interchangeable.  *)
EXTENDS TaskWorkers, TLC

Symmetry == Permutations(Pool)
=============================================================================
