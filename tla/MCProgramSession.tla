--------------------------- MODULE MCProgramSession ---------------------------
(***************************************************************************)
(* Instances of ProgramSession for TLC.                                    *)
(***************************************************************************)
EXTENDS ProgramSession

CONSTANTS remote
=============================================================================
