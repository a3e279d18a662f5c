--------------------------- MODULE MCCommandStream ---------------------------
(***************************************************************************)
(* Instances of CommandStream for TLC.                                     *)
(***************************************************************************)
EXTENDS CommandStream, TLC

CONSTANTS t1, t2

ThreadSymmetry == Permutations({t1, t2})
=============================================================================
