---------------------------- MODULE MCFirstTouch ----------------------------
(* Two forms of one intent, the later one replacing the timer of the other, the *)
(* cart of that intent, and the rejected payment of another with the same phone. *)
EXTENDS FirstTouch, TLC

CONSTANTS form1, form2, cart1, payment1, intent1, intent2

MCFor == (form1 :> intent1) @@ (form2 :> intent1) @@ (cart1 :> intent1) @@ (payment1 :> intent2)
MCObserved == (form1 :> 1) @@ (form2 :> 2)
=============================================================================
