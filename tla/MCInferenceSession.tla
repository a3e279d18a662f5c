------------------------- MODULE MCInferenceSession -------------------------
(***************************************************************************)
(* Instances of InferenceSession for TLC.                                  *)
(***************************************************************************)
EXTENDS InferenceSession

CONSTANTS e1, e2

(* The pivot and the routine's scope are attached to the program's; the    *)
(* pivot cancels the routine's scope from its callbacks.                   *)
TreeBelow == {<<root, sub>>, <<root, runner>>, <<runner, sub>>}

Program(r, c, a, s) ==
    [routine |-> r, callbacks |-> c, again |-> a, stops |-> s]
SomePrograms ==
    {Program("wait_until", {e1, e2}, FALSE, FALSE),
     Program("run_until", {e1}, TRUE, FALSE),
     Program("run_until", {e1}, FALSE, TRUE),
     Program("wait_until", {e1}, FALSE, TRUE)}
=============================================================================
