-------------------------- MODULE MCChangeExecutor --------------------------
(* Instances of ChangeExecutor for TLC. *)
EXTENDS ChangeExecutor, TLC

(* Claims and callers are interchangeable. *)
Symmetry == Permutations(Tokens) \cup Permutations(Callers)
=============================================================================
