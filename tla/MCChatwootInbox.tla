--------------------------- MODULE MCChatwootInbox ---------------------------
(* A message and the recovery of a newer one of the same conversation, over two *)
(* processes, three admissions each and two crashes: a group has a leader and a *)
(* superseded member, and an admission may come again at any point.             *)
EXTENDS ChatwootInbox, TLC

CONSTANTS a, rb         \* webhook delivery a; rb recovers a newer message

MCConv == (a :> "c1") @@ (rb :> "c1")
MCMsgId == (a :> 1) @@ (rb :> 2)
=============================================================================
