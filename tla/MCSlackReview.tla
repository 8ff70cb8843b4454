---------------------------- MODULE MCSlackReview ----------------------------
(* Two reviewers of one card, each with a session of his own.                 *)
EXTENDS SlackReview, TLC

CONSTANTS s1, s2

Symmetry == Permutations(Sessions)
=============================================================================
