---------------------------- MODULE MCEvalEngine ----------------------------
(***************************************************************************)
(* EvalEngine for TLC: symmetric accounts and workers.                     *)
(***************************************************************************)
EXTENDS EvalEngine, TLC

EvalSymmetry == Permutations(Accounts) \cup Permutations(Workers)

=============================================================================
