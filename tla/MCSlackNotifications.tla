------------------------- MODULE MCSlackNotifications -------------------------
(* Two notifications of one subject, the first of them actionable, one without *)
(* a subject, and another that was admitted under an older configuration's     *)
(* route.                                                                      *)
EXTENDS SlackNotifications

CONSTANTS root, reply, alone, stray, s

MCSubjectOf == [n \in Notifications |-> IF n \in {alone, stray} THEN NoSubject ELSE s]
=============================================================================
