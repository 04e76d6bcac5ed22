-------------------------- MODULE MCActionAttempt ---------------------------
(* ActionAttempt for TLC: paths are interchangeable.                       *)
EXTENDS ActionAttempt, TLC

Symmetry == Permutations(Paths)
=============================================================================
