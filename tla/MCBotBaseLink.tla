--------------------------- MODULE MCBotBaseLink ----------------------------
(***************************************************************************)
(* Instances of BotBaseLink for TLC.                                       *)
(***************************************************************************)
EXTENDS BotBaseLink, TLC

CONSTANTS t1, t2

MCThreads == {t1, t2}
ThreadSymmetry == Permutations(MCThreads)
=============================================================================
