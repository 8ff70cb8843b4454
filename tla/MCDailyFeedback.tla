---------------------------- MODULE MCDailyFeedback ----------------------------
(* Two items: the one decided, and the one delivered meanwhile.  Two owners and *)
(* fences: the least with which a delivery is retried.  Correct is left out: it *)
(* has the artifacts of skip and the status of correct_with_feedback.           *)
EXTENDS DailyFeedback, TLC

CONSTANTS o1, o2, p1, p2

Symmetry == Permutations(Owners) \cup Permutations(Callers)
=============================================================================
