---------------------------- MODULE MCResolution ----------------------------
(* Two carts of a buyer and, after them, a purchase: the least with which a    *)
(* cart can join the case of another, a native case and one of the legacy can  *)
(* meet, and a purchase can stop what a cart opened.                           *)
EXTENDS Resolution

TwoCarts == {1, 2}
OnePurchase == {3}
=============================================================================
