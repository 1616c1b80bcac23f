--------------------------- MODULE MCParallelFor ---------------------------
(***************************************************************************)
(* Instances of ParallelFor for TLC.                                       *)
(***************************************************************************)
EXTENDS ParallelFor
=============================================================================
