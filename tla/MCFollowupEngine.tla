------------------------- MODULE MCFollowupEngine -------------------------
(***************************************************************************)
(* Small instances of FollowupEngine for TLC.                              *)
(***************************************************************************)
EXTENDS FollowupEngine, TLC

CONSTANTS w1, w2

Dispatchers == Permutations(Worker)
=============================================================================
