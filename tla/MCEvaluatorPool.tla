-------------------------- MODULE MCEvaluatorPool --------------------------
(* The pool on a small set of accounts: every order in which they join and *)
(* leave, hence every arrangement of the array.                            *)
EXTENDS EvaluatorPool
=============================================================================
