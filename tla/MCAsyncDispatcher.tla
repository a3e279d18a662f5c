-------------------------- MODULE MCAsyncDispatcher --------------------------
(***************************************************************************)
(* Instances of AsyncDispatcher for TLC.                                   *)
(***************************************************************************)
EXTENDS AsyncDispatcher

CONSTANTS k1, k2, k3, w1, w2, w3, u1, u2
=============================================================================
