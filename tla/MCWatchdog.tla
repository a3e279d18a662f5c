----------------------------- MODULE MCWatchdog -----------------------------
(***************************************************************************)
(* Instances of Watchdog for TLC.                                          *)
(***************************************************************************)
EXTENDS Watchdog

CONSTANTS c1, c2, t1, t2
=============================================================================
