----------------------------- MODULE MCInboundTurn -----------------------------
(* Two messages of the lead, replies and link turns of two parts, one resumption. *)
EXTENDS InboundTurn
=============================================================================
