--------------------------- MODULE MCHumanHandoff ---------------------------
(* HumanHandoff with model values for the workers. *)
EXTENDS HumanHandoff, TLC

CONSTANTS w1, w2

TwoWorkers == {w1, w2}

Symmetry == Permutations(Worker)
=============================================================================
