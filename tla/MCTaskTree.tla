----------------------------- MODULE MCTaskTree -----------------------------
(* Instance of TaskTree for TLC.  It has no symmetry: the run checks        *)
(* liveness.                                                               *)
EXTENDS TaskTree
=============================================================================
