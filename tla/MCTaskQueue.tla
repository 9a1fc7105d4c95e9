---------------------------- MODULE MCTaskQueue -----------------------------
(* Instance of TaskQueue for TLC: the stealing threads are interchangeable. *)
EXTENDS TaskQueue, TLC

Symmetry == Permutations(Threads \ {Owner})
=============================================================================
