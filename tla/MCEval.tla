------------------------------- MODULE MCEval -------------------------------
(* The evaluator for TLC. *)
EXTENDS EvalScopes
=============================================================================
