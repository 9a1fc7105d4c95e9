---------------------------- MODULE MCParallelFor ----------------------------
(* Instance of ParallelFor for TLC.                                        *)
EXTENDS ParallelFor, TLC
=============================================================================
