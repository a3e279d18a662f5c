--------------------------- MODULE MCCommandSession ---------------------------
(***************************************************************************)
(* Instances of CommandSession for TLC.                                    *)
(***************************************************************************)
EXTENDS CommandSession

CONSTANTS c1, c2

(* The program's scope, the scope of each set and the session in it, and   *)
(* each context in both: the session cancels the current one.              *)
AllScopes == {root} \cup {ScopeOf(c) : c \in Sets} \cup {ContextOf(c) : c \in Sets}
TreeBelow ==
    ({root} \X ((AllScopes \ {root}) \cup {session}))
    \cup {<<session, ContextOf(c)>> : c \in Sets}
    \cup {<<ScopeOf(c), ContextOf(c)>> : c \in Sets}
=============================================================================
