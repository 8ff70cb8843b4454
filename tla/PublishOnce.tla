----------------------------- MODULE PublishOnce -----------------------------
(***************************************************************************)
(* What a sender with a ledger promises for each item it took on, the      *)
(* Slack connector for a notification it admitted and the first touch for  *)
(* the event that has the row of the phone: it is published at most once,  *)
(* it is recorded as published only if it is, as refused only if it is     *)
(* not, and a recorded outcome is final.                                   *)
(***************************************************************************)
EXTENDS Naturals

CONSTANT Items
VARIABLES outcome,   \* what the ledger says: unasked, owed, published, refused
          shown      \* how many messages the channel has of the item

vars == <<outcome, shown>>

Init == /\ outcome = [i \in Items |-> "unasked"]
        /\ shown = [i \in Items |-> 0]

Ask(i) == /\ outcome[i] = "unasked"
          /\ outcome' = [outcome EXCEPT ![i] = "owed"]
          /\ UNCHANGED shown

\* Nobody can take a message back, so this may happen once.
Publish(i) == /\ outcome[i] = "owed" /\ shown[i] = 0
              /\ shown' = [shown EXCEPT ![i] = 1]
              /\ UNCHANGED outcome

Record(i) == /\ outcome[i] = "owed"
             /\ outcome' = [outcome EXCEPT ![i] = IF shown[i] = 1 THEN "published" ELSE "refused"]
             /\ UNCHANGED shown

Next == \E i \in Items : Ask(i) \/ Publish(i) \/ Record(i)

Spec == Init /\ [][Next]_vars
=============================================================================
