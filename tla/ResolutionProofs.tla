---------------------------- MODULE ResolutionProofs ----------------------------
(***************************************************************************)
(* Proofs about Resolution for any carts and purchases of a buyer, any     *)
(* limits, and any number of faults and of changes to the flows.           *)
(***************************************************************************)
EXTENDS Resolution, TLAPS

-----------------------------------------------------------------------------
(* The steps of the worker and the rows of the base *)

Steps == {"poll", "queue", "next"} \cup CartSteps \cup PurchaseSteps

\* What the type invariant says of single components.
LEMMA Typed ==
    ASSUME TypeOK
    PROVE  /\ w.pc \in Steps /\ w.e \in Events \cup {NoEvent}
           /\ w.native \in BOOLEAN /\ w.queued \in BOOLEAN
           /\ \A p \in Purchases : queue[p] \in Noted
           /\ MaxAttempts \in Nat /\ ForceAfter \in Nat /\ MaxFaults \in Nat /\ MaxEdits \in Nat
BY ResolutionAssumption DEF TypeOK, Work, Steps

\* The worker goes on with the event it has.
LEMMA Going ==
    ASSUME TypeOK, NEW pc \in Steps, Go(pc)
    PROVE  /\ w' \in Work /\ w'.pc = pc /\ w'.e = w.e /\ w'.target = w.target
           /\ w'.outcome = w.outcome /\ w'.queued = w.queued
BY DEF TypeOK, Go, Work, Steps

\* It goes to write the result of a cart.
LEMMA Marking ==
    ASSUME TypeOK, NEW target \in {"processed", "failed"}, GoMark(target)
    PROVE  w' \in Work /\ w'.pc = "mark" /\ w'.e = w.e /\ w'.target = target
           /\ w'.queued = w.queued
BY DEF TypeOK, GoMark, Work, CartSteps

\* It goes to note the outcome of an admission.
LEMMA Finished ==
    ASSUME TypeOK, NEW outcome \in {"admitida", "descartada", "sin_arranque", "reintentar"},
           Finishing(outcome)
    PROVE  w' \in Work /\ w'.pc = "finish" /\ w'.e = w.e /\ w'.outcome = outcome
           /\ w'.queued = w.queued
BY DEF TypeOK, Finishing, Work, PurchaseSteps

\* It leaves its event.
LEMMA Leaving ==
    ASSUME TypeOK, Done
    PROVE  /\ w' \in Work /\ w'.e = NoEvent /\ ~w'.queued
           /\ w'.pc = IF w.queued THEN "queue" ELSE "next"
BY DEF Done, Idle, Work

LEMMA Starting == Idle \in Work /\ Idle.pc = "poll" /\ Idle.e = NoEvent /\ ~Idle.queued
BY DEF Idle, Work

LEMMA NotAnEvent == NoEvent \notin Events
BY ResolutionAssumption DEF NoEvent, Events

\* A call is counted within its bound.
LEMMA Counting ==
    ASSUME TypeOK, NEW r, Counted(r)
    PROVE  faults' \in 0..MaxFaults
BY ResolutionAssumption DEF TypeOK, Counted

\* The native admission of an event that has no case, or of one it took before.
LEMMA Admitting ==
    ASSUME TypeOK, NEW e \in Events, NEW row \in NativeRows(e), AdmitNative(e, row)
    PROVE  /\ case' \in [Events -> {"none", "native", "legacy"}]
           /\ open' \subseteq {f \in Events : case'[f] # "none"}
           /\ row \in {"started", "unclaimed", "rejected", "refused", "starts"}
           /\ \/ UNCHANGED <<case, open>>
              \/ /\ case[e] = "none" /\ case'[e] = "native" /\ open' = open \cup {e}
                 /\ \A f \in Events \ {e} : case'[f] = case[f]
                 /\ e \in Carts => ~LegacyOpen
<1>1. row \in {"started", "unclaimed", "rejected", "refused", "starts"}
  BY DEF NativeRows
<1>2. CASE row = "starts"
  <2>1. case[e] = "none" /\ (e \in Carts => ~LegacyOpen)
    BY <1>2 DEF NativeRows, TypeOK
  <2>2. case' = [case EXCEPT ![e] = "native"] /\ open' = open \cup {e}
    BY <1>2 DEF AdmitNative
  <2> QED BY <1>1, <2>1, <2>2 DEF TypeOK
<1>3. CASE row # "starts"
  BY <1>1, <1>3 DEF AdmitNative, TypeOK
<1> QED BY <1>2, <1>3

\* What the planner does with a cart.
LEMMA Planning ==
    ASSUME TypeOK, NEW e \in Carts, NEW row \in PlanRows(e), PlanCase(e, row)
    PROVE  /\ case' \in [Events -> {"none", "native", "legacy"}]
           /\ open' \subseteq {f \in Events : case'[f] # "none"}
           /\ joined' \subseteq Carts
           /\ \/ UNCHANGED <<case, open>>
              \/ /\ case[e] = "none" /\ case'[e] = "legacy" /\ open' = open \cup {e}
                 /\ \A f \in Events \ {e} : case'[f] = case[f]
                 /\ ~NativeCartOpen
<1>0. e \in Events
  BY DEF Events
<1>1. joined' \subseteq Carts
  BY DEF PlanCase, TypeOK
<1>2. CASE row = "legacy"
  <2>1. LegacyRow(e) = "legacy"
    BY <1>2 DEF PlanRows
  <2>2. case[e] = "none" /\ ~NativeCartOpen
    BY <1>0, <2>1 DEF LegacyRow, TypeOK
  <2>3. case' = [case EXCEPT ![e] = "legacy"] /\ open' = open \cup {e}
    BY <1>2 DEF PlanCase
  <2> QED BY <1>0, <1>1, <2>2, <2>3 DEF TypeOK
<1>3. CASE row # "legacy"
  BY <1>1, <1>3 DEF PlanCase, TypeOK
<1> QED BY <1>2, <1>3

\* What the purchase stops, and what it leaves.
LEMMA Applying ==
    ASSUME TypeOK, NEW p \in Purchases, ApplyPurchase(p)
    PROVE  /\ status' \in [Events -> {"received", "processed", "failed"}]
           /\ status'[p] # "received"
           /\ \A e \in Events \ {p} : status'[e] = status[e]
           /\ open' \subseteq open
BY DEF ApplyPurchase, TypeOK, Events

\* The notes of the queue.
LEMMA Queueing ==
    ASSUME TypeOK, NEW p \in Purchases
    PROVE  /\ Enqueued(p) \in [Purchases -> Noted]
           /\ \A done \in BOOLEAN : Closed(p, done) \in [Purchases -> Noted]
<1>1. queue[p] \in Noted /\ queue \in [Purchases -> Noted]
  BY Typed DEF TypeOK
<1>2. [queue EXCEPT ![p].state = "pending"] \in [Purchases -> Noted]
      /\ [queue EXCEPT ![p].state = "done"] \in [Purchases -> Noted]
  BY <1>1 DEF Noted
<1>3. [queue EXCEPT ![p].attempts = IF @ < MaxAttempts THEN @ + 1 ELSE @] \in [Purchases -> Noted]
  BY <1>1, ResolutionAssumption DEF Noted
<1> QED BY <1>1, <1>2, <1>3 DEF Enqueued, Closed

-----------------------------------------------------------------------------
(* Types *)

LEMMA InitType == Init => TypeOK
<1>1. ForceAfter \in Nat /\ MaxAttempts \in Nat /\ MaxFaults \in Nat /\ MaxEdits \in Nat
  BY ResolutionAssumption
<1> QED BY <1>1, Starting DEF Init, TypeOK, Noted

LEMMA TypeStep ==
    ASSUME TypeOK, WorkSound, [Next]_vars
    PROVE  TypeOK'
<1> USE DEF base, memory, lists, bounds
<1>0. /\ w.pc \in CartSteps => w.e \in Carts
      /\ w.pc \in PurchaseSteps => w.e \in Purchases
      /\ Carts \subseteq Events /\ Purchases \subseteq Events
  BY DEF WorkSound, Events
<1>1. ASSUME UNCHANGED base, UNCHANGED memory, w' \in Work, retry' \subseteq Purchases,
             batch' \subseteq Events, UNCHANGED late, noticed' \subseteq Purchases,
             UNCHANGED edits, faults' \in 0..MaxFaults
      PROVE  TypeOK'
  BY <1>1 DEF TypeOK
<1>2. CASE UNCHANGED vars
  BY <1>2 DEF TypeOK, vars
<1>3. CASE Poll
  <2>1. PICK r \in {"answered", "unsent", "unread"} :
          Counted(r) /\ seen' = Refreshed(r)
          /\ retry' = IF seen' = {} \/ r = "unread" THEN {} ELSE Queued
    BY <1>3 DEF Poll
  <2>2. faults' \in 0..MaxFaults
    BY <2>1, Counting
  <2>3. retry' \subseteq Purchases
    BY <2>1 DEF Queued
  <2>4. w' \in Work
    <3>1. Go("queue")
      BY <1>3 DEF Poll
    <3> QED BY <3>1, Going DEF Steps
  <2>5. UNCHANGED <<base, failures, forced, batch, late, noticed, edits>>
    BY <1>3 DEF Poll
  <2> QED BY <2>1, <2>2, <2>3, <2>4, <2>5 DEF TypeOK, Refreshed
<1>4. CASE Fetch
  <2>1. w' \in Work
    BY <1>4, Going DEF Fetch, Steps
  <2> QED BY <1>1, <1>4, <2>1 DEF Fetch, TypeOK
<1>5. CASE EndRound
  BY <1>1, <1>5, Starting DEF EndRound, TypeOK
<1>6. ASSUME NEW p \in Purchases, TakeQueued(p) PROVE TypeOK'
  <2>1. w' \in Work
    BY <1>0, <1>6 DEF TakeQueued, Idle, Work, PurchaseSteps
  <2> QED BY <1>1, <1>6, <2>1 DEF TakeQueued, TypeOK
<1>7. ASSUME NEW e \in Events, TakeCart(e) PROVE TypeOK'
  <2>1. w' \in Work
    BY <1>7 DEF TakeCart, Idle, Work, CartSteps
  <2> QED BY <1>1, <1>7, <2>1 DEF TakeCart, TypeOK
<1>8. ASSUME NEW p \in Events, TakePurchase(p) PROVE TypeOK'
  <2>1. w' \in Work /\ noticed' \subseteq Purchases
    <3>1. p \in Purchases
          /\ (noticed' = noticed \cup {p} \/ noticed' = noticed \ {p})
          /\ (w' = [Idle EXCEPT !.pc = "note", !.e = p, !.native = TRUE]
              \/ w' = [Idle EXCEPT !.pc = "apply", !.e = p])
      BY <1>8 DEF TakePurchase
    <3>2. w' \in Work
      BY <1>8, <3>1 DEF Idle, Work, PurchaseSteps
    <3> QED BY <3>1, <3>2 DEF TypeOK
  <2> QED BY <1>1, <1>8, <2>1 DEF TakePurchase, TypeOK
<1>9. CASE AdmitCart
  <2>1. w.e \in Carts /\ w.e \in Events
    BY <1>0, <1>9 DEF AdmitCart, At, CartSteps
  <2>2. ASSUME NEW row, Answered(row) PROVE w' \in Work
    BY <2>2, Going, Marking DEF Answered, Steps, CartSteps
  <2>3. ASSUME Unanswered(w.e) PROVE w' \in Work /\ failures' \in [Carts -> 0..ForceAfter]
    <3>1. failures[w.e] \in 0..ForceAfter /\ failures \in [Carts -> 0..ForceAfter] /\ ForceAfter \in Nat
      BY <2>1, Typed DEF TypeOK
    <3>2. failures' \in [Carts -> 0..ForceAfter]
      BY <2>1, <2>3, <3>1 DEF Unanswered
    <3>3. w' \in Work
      BY <2>3, Going, Leaving DEF Unanswered, Steps, CartSteps
    <3> QED BY <3>2, <3>3
  <2>4. w' \in Work /\ failures' \in [Carts -> 0..ForceAfter]
    <3>1. \A row : Answered(row) => w' \in Work
      BY <2>2
    <3>2. [failures EXCEPT ![w.e] = 0] \in [Carts -> 0..ForceAfter]
      BY <2>1, Typed DEF TypeOK
    <3> QED BY <1>9, <2>3, <3>1, <3>2 DEF AdmitCart
  <2>5. /\ case' \in [Events -> {"none", "native", "legacy"}]
        /\ open' \subseteq {f \in Events : case'[f] # "none"}
    BY <1>9, <2>1, Admitting DEF AdmitCart, TypeOK
  <2>6. late' \subseteq Events
    BY <1>9, <2>1 DEF AdmitCart, TypeOK
  <2> QED BY <1>9, <2>4, <2>5, <2>6 DEF AdmitCart, TypeOK
<1>10. CASE Plan
  <2>1. w.e \in Carts /\ w.e \in Events
    BY <1>0, <1>10 DEF Plan, At, CartSteps
  <2>2. PICK r \in Replies, row \in PlanRows(w.e) :
          /\ Counted(r)
          /\ IF Landed(r) THEN PlanCase(w.e, row) ELSE UNCHANGED <<case, open, joined>>
          /\ IF r = "answered" THEN Planned(w.e, row) ELSE NotPlanned(w.e)
    BY <1>10 DEF Plan
  <2>3. /\ case' \in [Events -> {"none", "native", "legacy"}]
        /\ open' \subseteq {f \in Events : case'[f] # "none"}
        /\ joined' \subseteq Carts
    BY <2>1, <2>2, Planning DEF TypeOK
  <2>4. w' \in Work
    BY <2>2, Marking, Leaving DEF Planned, NotPlanned
  <2>5. forced' \in [Carts -> 0..ForceAfter]
    <3>1. forced[w.e] \in 0..ForceAfter /\ forced \in [Carts -> 0..ForceAfter] /\ ForceAfter \in Nat
      BY <2>1, Typed DEF TypeOK
    <3>2. \/ UNCHANGED forced
          \/ forced' = [forced EXCEPT ![w.e] = 0]
          \/ forced' = [forced EXCEPT ![w.e] = IF @ < ForceAfter THEN @ + 1 ELSE @]
      BY <2>2 DEF Planned, NotPlanned
    <3> QED BY <2>1, <3>1, <3>2
  <2>6. faults' \in 0..MaxFaults
    BY <2>2, Counting
  <2> QED BY <1>10, <2>3, <2>4, <2>5, <2>6 DEF Plan, TypeOK
<1>11. CASE Mark \/ Remark
  <2>1. w.e \in Events /\ w.target \in {"processed", "failed"}
    BY <1>0, <1>11 DEF Mark, Remark, At, CartSteps, WorkSound, TypeOK, Work
  <2>2. PICK r : Counted(r) /\ (status' = status \/ status' = [status EXCEPT ![w.e] = w.target]
                                \/ status' = [status EXCEPT ![w.e] = "failed"])
    BY <1>11 DEF Mark, Remark
  <2>3. faults' \in 0..MaxFaults /\ status' \in [Events -> {"received", "processed", "failed"}]
    BY <2>1, <2>2, Counting DEF TypeOK
  <2>4. w' \in Work
    BY <1>11, Going, Leaving DEF Mark, Remark, Steps, CartSteps
  <2> QED BY <1>11, <2>3, <2>4 DEF Mark, Remark, TypeOK
<1>12. CASE Note
  <2>1. w.e \in Purchases
    BY <1>0, <1>12 DEF Note, At, PurchaseSteps
  <2>2. faults' \in 0..MaxFaults /\ w' \in Work
    BY <1>12, Counting, Going, Leaving DEF Note, Steps, PurchaseSteps
  <2>3. queue' \in [Purchases -> Noted]
    BY <1>12, <2>1, Queueing DEF Note, TypeOK
  <2> QED BY <1>12, <2>2, <2>3 DEF Note, TypeOK
<1>13. CASE Apply
  <2>1. w.e \in Purchases
    BY <1>0, <1>13 DEF Apply, At, PurchaseSteps
  <2>2. faults' \in 0..MaxFaults /\ w' \in Work
    BY <1>13, Counting, Going, Leaving DEF Apply, Steps, PurchaseSteps
  <2>3. status' \in [Events -> {"received", "processed", "failed"}] /\ open' \subseteq open
    BY <1>13, <2>1, Applying DEF Apply, TypeOK
  <2> QED BY <1>13, <2>2, <2>3 DEF Apply, TypeOK
<1>14. CASE Rejected
  <2>1. w' \in Work
    BY <1>14, Going DEF Rejected, Steps, PurchaseSteps
  <2> QED BY <1>1, <1>14, <2>1 DEF Rejected, TypeOK
<1>15. CASE Refuse
  <2>1. faults' \in 0..MaxFaults /\ w' \in Work
    BY <1>15, Counting, Going, Leaving DEF Refuse, Steps, PurchaseSteps
  <2>2. status' \in [Events -> {"received", "processed", "failed"}]
    BY <1>15 DEF Refuse, TypeOK
  <2> QED BY <1>15, <2>1, <2>2 DEF Refuse, TypeOK
<1>16. CASE Close \/ Finish
  <2>1. w.e \in Purchases
    BY <1>0, <1>16 DEF Close, Finish, At, PurchaseSteps
  <2>2. faults' \in 0..MaxFaults
    BY <1>16, Counting DEF Close, Finish
  <2>3. w' \in Work
    BY <1>16, Going, Leaving DEF Close, Finish, Steps, PurchaseSteps
  <2>4. \E done \in BOOLEAN : queue' \in {queue, Closed(w.e, done)}
    BY <1>16 DEF Close, Finish
  <2>5. queue' \in [Purchases -> Noted]
    BY <2>1, <2>4, Queueing DEF TypeOK
  <2> QED BY <1>16, <2>2, <2>3, <2>5 DEF Close, Finish, TypeOK
<1>17. CASE AdmitPurchase
  <2>1. w.e \in Purchases /\ w.e \in Events
    BY <1>0, <1>17 DEF AdmitPurchase, At, PurchaseSteps
  <2>2. \E outcome \in {"admitida", "descartada", "sin_arranque", "reintentar"} : Finishing(outcome)
    BY <1>17 DEF AdmitPurchase, Outcome
  <2>3. /\ case' \in [Events -> {"none", "native", "legacy"}]
        /\ open' \subseteq {f \in Events : case'[f] # "none"}
    BY <1>17, <2>1, Admitting DEF AdmitPurchase, TypeOK
  <2>4. late' \subseteq Events
    BY <1>17, <2>1 DEF AdmitPurchase, TypeOK
  <2>5. w' \in Work
    BY <2>2, Finished
  <2> QED BY <1>17, <2>3, <2>4, <2>5 DEF AdmitPurchase, TypeOK
<1>18. CASE Pause
  <2>1. w.e \in Purchases
    BY <1>0, <1>18 DEF Pause, At, PurchaseSteps
  <2>2. faults' \in 0..MaxFaults /\ paused' \subseteq Purchases
    BY <1>18, <2>1, Counting DEF Pause, TypeOK
  <2> QED BY <1>18, <2>2, Leaving DEF Pause, TypeOK
<1>19. CASE Restart
  <2>1. faults' \in 0..MaxFaults /\ ForceAfter \in Nat
    BY <1>19, Typed DEF Restart, TypeOK
  <2> QED BY <1>19, <2>1, Starting DEF Restart, TypeOK
<1>20. ASSUME NEW e \in Events, LateAdmission(e) PROVE TypeOK'
  <2>1. /\ case' \in [Events -> {"none", "native", "legacy"}]
        /\ open' \subseteq {f \in Events : case'[f] # "none"}
    BY <1>20, Admitting DEF LateAdmission
  <2> QED BY <1>20, <2>1 DEF LateAdmission, TypeOK
<1>21. ASSUME NEW e \in Events, CaseEnds(e) PROVE TypeOK'
  BY <1>21 DEF CaseEnds, TypeOK
<1>22. ASSUME NEW t \in Triggers, EditFlow(t) PROVE TypeOK'
  <2>1. edits' \in 0..MaxEdits
    BY <1>22, Typed DEF EditFlow, TypeOK
  <2> QED BY <1>22, <2>1 DEF EditFlow, TypeOK
<1> QED
  BY <1>2, <1>3, <1>4, <1>5, <1>6, <1>7, <1>8, <1>9, <1>10, <1>11, <1>12, <1>13, <1>14, <1>15,
     <1>16, <1>17, <1>18, <1>19, <1>20, <1>21, <1>22
  DEF Next, Worker, Take

-----------------------------------------------------------------------------
(* The inductive invariant *)

IInv ==
    /\ TypeOK /\ WorkSound /\ StopFirst /\ NotTaken
    /\ NoDoubleCase /\ WelcomeAfterStop

LEMMA InitSound == Init => IInv
<1>1. Init => WorkSound /\ StopFirst /\ NotTaken
  BY Starting DEF Init, WorkSound, StopFirst, NotTaken, CartSteps, PurchaseSteps
<1>2. Init => NoDoubleCase /\ WelcomeAfterStop
  BY DEF Init, NoDoubleCase, NativeCartOpen, LegacyOpen, WelcomeAfterStop, Events
<1> QED BY <1>1, <1>2, InitType DEF IInv

\* What a step does to the cases: one event at most gets its first one, and only
\* while no open case of the other kind stands against it.
LEMMA CaseSteps ==
    ASSUME TypeOK, WorkSound, [Next]_vars
    PROVE  \/ UNCHANGED case /\ open' \subseteq open
           \/ \E e \in Events :
                /\ case[e] = "none" /\ open' = open \cup {e}
                /\ \A f \in Events \ {e} : case'[f] = case[f]
                /\ UNCHANGED status
                /\ \/ /\ case'[e] = "native" /\ (e \in Carts => ~LegacyOpen)
                      /\ e \in late \/ (w.pc \in {"native", "admit"} /\ e = w.e)
                   \/ case'[e] = "legacy" /\ e \in Carts /\ ~NativeCartOpen
<1> USE DEF base, memory, lists, bounds
<1>0. /\ w.pc \in {"native", "plan"} => w.e \in Carts
      /\ w.pc \in {"apply", "admit"} => w.e \in Purchases
      /\ Carts \subseteq Events /\ Purchases \subseteq Events
  BY DEF WorkSound, Events, CartSteps, PurchaseSteps
<1>1. CASE UNCHANGED <<case, open>>
  BY <1>1
<1>2. CASE AdmitCart \/ AdmitPurchase
  <2>1. /\ w.pc \in {"native", "admit"} /\ w.e \in Events /\ UNCHANGED status
        /\ \/ UNCHANGED <<case, open>>
           \/ \E row \in NativeRows(w.e) : AdmitNative(w.e, row)
    BY <1>0, <1>2 DEF AdmitCart, AdmitPurchase, At
  <2> QED BY <1>1, <2>1, Admitting
<1>3. CASE Plan
  <2>1. /\ w.e \in Carts /\ w.e \in Events /\ UNCHANGED status
        /\ \/ UNCHANGED <<case, open>>
           \/ \E row \in PlanRows(w.e) : PlanCase(w.e, row)
    BY <1>0, <1>3 DEF Plan, At
  <2> QED BY <1>1, <2>1, Planning
<1>4. CASE Apply
  <2>1. w.e \in Purchases /\ UNCHANGED case
        /\ (ApplyPurchase(w.e) \/ UNCHANGED open)
    BY <1>0, <1>4 DEF Apply, At
  <2> QED BY <2>1, Applying
<1>5. ASSUME NEW e \in Events, LateAdmission(e)
      PROVE  /\ e \in late /\ UNCHANGED status
             /\ \E row \in NativeRows(e) : AdmitNative(e, row)
  BY <1>5 DEF LateAdmission
<1>6. ASSUME NEW e \in Events, CaseEnds(e) PROVE UNCHANGED case /\ open' \subseteq open
  BY <1>6 DEF CaseEnds
<1>7. ASSUME NEW e \in Events, LateAdmission(e)
      PROVE  \/ UNCHANGED <<case, open>>
             \/ /\ case[e] = "none" /\ case'[e] = "native" /\ open' = open \cup {e}
                /\ \A f \in Events \ {e} : case'[f] = case[f]
                /\ (e \in Carts => ~LegacyOpen) /\ e \in late /\ UNCHANGED status
  BY <1>5, <1>7, Admitting
<1>8. CASE \E e \in Events : LateAdmission(e)
  <2>1. PICK e \in Events : LateAdmission(e)
    BY <1>8
  <2>2. CASE UNCHANGED <<case, open>>
    BY <1>1, <2>2
  <2>3. CASE ~ UNCHANGED <<case, open>>
    <3>1. /\ case[e] = "none" /\ case'[e] = "native" /\ open' = open \cup {e}
          /\ \A f \in Events \ {e} : case'[f] = case[f]
          /\ (e \in Carts => ~LegacyOpen) /\ e \in late /\ UNCHANGED status
      BY <1>7, <2>1, <2>3
    <3>2. \E f \in Events : f = e
      OBVIOUS
    <3> QED BY <3>1, <3>2
  <2> QED BY <2>2, <2>3
<1>9. CASE \E e \in Events : CaseEnds(e)
  BY <1>6, <1>9
<1>10. CASE ~(AdmitCart \/ AdmitPurchase \/ Plan \/ Apply \/ (\E e \in Events : LateAdmission(e))
              \/ (\E e \in Events : CaseEnds(e)))
  <2>1. UNCHANGED <<case, open>>
    BY <1>10
    DEF Next, Worker, Take, vars, Poll, TakeQueued, Fetch, TakeCart, TakePurchase, EndRound, Mark,
        Remark, Note, Rejected, Refuse, Close, Finish, Pause, Restart, EditFlow
  <2> QED BY <1>1, <2>1
<1> QED BY <1>2, <1>3, <1>4, <1>8, <1>9, <1>10

LEMMA DoubleStep ==
    ASSUME TypeOK, WorkSound, NoDoubleCase, [Next]_vars
    PROVE  NoDoubleCase'
<1>1. CASE UNCHANGED case /\ open' \subseteq open
  BY <1>1 DEF NoDoubleCase, NativeCartOpen, LegacyOpen
<1>2. ASSUME NEW e \in Events, case[e] = "none", open' = open \cup {e},
             \A f \in Events \ {e} : case'[f] = case[f],
             \/ case'[e] = "native" /\ (e \in Carts => ~LegacyOpen)
             \/ case'[e] = "legacy" /\ e \in Carts /\ ~NativeCartOpen
      PROVE  NoDoubleCase'
  <2>1. \A f \in open \cap Carts : f # e /\ f \in Events
    BY <1>2 DEF TypeOK
  <2>2. \A f \in open' \cap Carts : f = e \/ (f \in open /\ case'[f] = case[f])
    BY <1>2, <2>1
  <2>3. case'[e] = "native" /\ e \in Carts => ~LegacyOpen'
    BY <1>2, <2>2 DEF LegacyOpen
  <2>4. case'[e] = "legacy" /\ e \in Carts => ~NativeCartOpen'
    BY <1>2, <2>2 DEF NativeCartOpen
  <2>5. e \notin Carts => ~(NativeCartOpen' /\ LegacyOpen')
    BY <2>2 DEF NoDoubleCase, NativeCartOpen, LegacyOpen
  <2> QED BY <1>2, <2>3, <2>4, <2>5 DEF NoDoubleCase
<1> QED BY <1>1, <1>2, CaseSteps

LEMMA CaseKept ==
    ASSUME TypeOK, WorkSound, [Next]_vars, NEW e \in Events, case[e] # "none"
    PROVE  case'[e] = case[e]
BY CaseSteps

\* What a step does to the results: only the event in hand gets one, and keeps it.
LEMMA StatusSteps ==
    ASSUME TypeOK, WorkSound, [Next]_vars
    PROVE  /\ \A e \in Events : status[e] # "received" => status'[e] # "received"
           /\ \A e \in Events : e # w.e => status'[e] = status[e]
<1> USE DEF base, memory, lists, bounds
<1>0. /\ w.pc \in CartSteps => w.e \in Carts
      /\ w.pc \in PurchaseSteps => w.e \in Purchases
      /\ Carts \subseteq Events /\ Purchases \subseteq Events
  BY DEF WorkSound, Events
<1>1. CASE UNCHANGED status
  BY <1>1
<1>2. CASE Mark \/ Remark \/ Refuse
  <2>1. w.e \in Events
    BY <1>0, <1>2 DEF Mark, Remark, Refuse, At, CartSteps, PurchaseSteps
  <2>2. w.target # "received" \/ ~Mark
    BY DEF TypeOK, Work
  <2>3. \/ status' = status
        \/ status' = [status EXCEPT ![w.e] = w.target] /\ Mark
        \/ status' = [status EXCEPT ![w.e] = "failed"]
    BY <1>2 DEF Mark, Remark, Refuse
  <2> QED BY <2>1, <2>2, <2>3 DEF TypeOK
<1>3. CASE Apply
  <2>1. w.e \in Purchases /\ (ApplyPurchase(w.e) \/ UNCHANGED status)
    BY <1>0, <1>3 DEF Apply, At, PurchaseSteps
  <2> QED BY <1>0, <2>1, Applying
<1>4. CASE ~(Mark \/ Remark \/ Refuse \/ Apply)
  <2>1. UNCHANGED status
    BY <1>4
    DEF Next, Worker, Take, vars, Poll, TakeQueued, Fetch, TakeCart, TakePurchase, EndRound,
        AdmitCart, Plan, Note, Rejected, Close, AdmitPurchase, Finish, Pause, Restart,
        LateAdmission, CaseEnds, EditFlow
  <2> QED BY <2>1
<1> QED BY <1>2, <1>3, <1>4

LEMMA WorkStep ==
    ASSUME TypeOK, WorkSound, [Next]_vars
    PROVE  WorkSound'
<1> USE DEF base, memory, lists, bounds
<1>0. /\ w.pc \in CartSteps => w.e \in Carts
      /\ w.pc \in PurchaseSteps => w.e \in Purchases
      /\ \A p \in retry : p \in Events
      /\ batch \subseteq Events
  BY DEF WorkSound, Events, TypeOK
\* The lists of a step that takes nothing, or puts the event back.
<1>1. ASSUME retry' \subseteq retry, batch' \subseteq batch,
             w'.e = w.e \/ w'.e = NoEvent,
             batch' = {} \/ (w'.pc \notin {"poll", "queue"} /\ w.pc \notin {"poll", "queue"}),
             w'.pc \in CartSteps => w'.e \in Carts,
             w'.pc \in PurchaseSteps => w'.e \in Purchases,
             w'.pc \in {"poll", "queue", "next"} => w'.e = NoEvent,
             w'.pc \in {"mark", "remark"} => w'.target # "none",
             w'.queued => w'.pc \in PurchaseSteps /\ batch = {}
      PROVE  WorkSound'
  <2>1. \A p \in retry' : status'[p] # "received"
    BY <1>0, <1>1, StatusSteps DEF WorkSound
  <2>2. \A e \in batch' : status'[e] = "received" /\ e # w'.e
    BY <1>0, <1>1, StatusSteps, NotAnEvent DEF WorkSound
  <2> QED BY <1>1, <2>1, <2>2 DEF WorkSound
<1>2. CASE UNCHANGED <<retry, batch, w>>
  BY <1>1, <1>2 DEF WorkSound
<1>3. CASE Poll
  <2>1. /\ w'.pc = "queue" /\ w'.e = w.e /\ batch' = batch /\ UNCHANGED status
        /\ retry' = {} \/ retry' = Queued
    BY <1>3, Going DEF Poll, Steps
  <2>2. batch = {}
    BY <1>3 DEF Poll, At, WorkSound
  <2>3. w'.queued = w.queued /\ ~w.queued /\ w.e = NoEvent
    <3>1. Go("queue") /\ w.pc = "poll"
      BY <1>3 DEF Poll, At
    <3> QED BY <3>1, Going, Typed DEF Steps, WorkSound, PurchaseSteps
  <2> QED BY <2>1, <2>2, <2>3 DEF WorkSound, Queued, CartSteps, PurchaseSteps
<1>4. CASE Fetch
  <2>1. w'.pc = "next" /\ w'.e = w.e /\ retry' = {} /\ UNCHANGED status
        /\ batch' = {e \in Events : status[e] = "received"}
    <3>1. Go("next")
      BY <1>4 DEF Fetch
    <3> QED BY <1>4, <3>1, Going DEF Fetch, Steps
  <2>2. ~w'.queued /\ w.e = NoEvent
    <3>1. Go("next") /\ w.pc = "queue"
      BY <1>4 DEF Fetch, At
    <3>2. w'.queued = w.queued
      BY <3>1, Going DEF Steps
    <3> QED BY <3>1, <3>2, Typed DEF WorkSound, PurchaseSteps
  <2> QED BY <2>1, <2>2, NotAnEvent DEF WorkSound, CartSteps, PurchaseSteps
<1>5. CASE EndRound
  BY <1>1, <1>5, Starting DEF EndRound, CartSteps, PurchaseSteps
<1>6. ASSUME NEW p \in Purchases, TakeQueued(p) PROVE WorkSound'
  <2>1. /\ w'.pc = "admit" /\ w'.e = p /\ retry' = retry \ {p} /\ batch' = batch
        /\ UNCHANGED status
    BY <1>6 DEF TakeQueued, Idle
  <2>2. batch = {}
    BY <1>6 DEF TakeQueued, At, WorkSound
  <2> QED BY <1>6, <2>1, <2>2 DEF WorkSound, CartSteps, PurchaseSteps
<1>7. ASSUME NEW e \in Events, TakeCart(e) PROVE WorkSound'
  <2>1. /\ e \in Carts /\ w'.e = e /\ batch' = batch \ {e} /\ retry' = retry /\ UNCHANGED status
        /\ w'.pc \in {"native", "plan"} \/ (w'.pc = "mark" /\ w'.target = "failed")
        /\ ~w'.queued
    BY <1>7 DEF TakeCart, Idle
  <2> QED BY <2>1 DEF WorkSound, CartSteps, PurchaseSteps
<1>8. ASSUME NEW p \in Events, TakePurchase(p) PROVE WorkSound'
  <2>1. /\ p \in Purchases /\ w'.e = p /\ batch' = batch \ {p} /\ retry' = retry
        /\ UNCHANGED status /\ w'.pc \in {"note", "apply"} /\ ~w'.queued
    BY <1>8 DEF TakePurchase, Idle
  <2> QED BY <2>1 DEF WorkSound, CartSteps, PurchaseSteps
\* From a step of the event in hand, to another of its own or to the next event.
<1>9. ASSUME w.pc \in CartSteps, UNCHANGED <<retry, batch>>,
             \/ Done
             \/ Go("plan") \/ (Go("remark") /\ w.target # "none")
             \/ GoMark("processed") \/ GoMark("failed")
      PROVE  WorkSound'
  <2>1. /\ ~w.queued /\ w.pc \notin {"poll", "queue"} /\ w.pc \notin PurchaseSteps
    BY <1>9, Typed DEF WorkSound, CartSteps, PurchaseSteps
  <2>2. CASE Done
    <3>1. w'.e = NoEvent /\ w'.pc = "next" /\ ~w'.queued
      BY <2>1, <2>2, Leaving
    <3> QED BY <1>1, <1>9, <2>1, <3>1 DEF CartSteps, PurchaseSteps
  <2>3. CASE Go("plan") \/ (Go("remark") /\ w.target # "none")
    <3>1. /\ w'.e = w.e /\ w'.pc \in {"plan", "remark"} /\ ~w'.queued
          /\ w'.pc = "remark" => w'.target # "none"
      BY <2>1, <2>3, Going DEF Steps, CartSteps
    <3> QED BY <1>0, <1>1, <1>9, <2>1, <3>1 DEF CartSteps, PurchaseSteps
  <2>4. CASE GoMark("processed") \/ GoMark("failed")
    <3>1. w'.e = w.e /\ w'.pc = "mark" /\ w'.target # "none" /\ ~w'.queued
      BY <2>1, <2>4, Marking
    <3> QED BY <1>0, <1>1, <1>9, <2>1, <3>1 DEF CartSteps, PurchaseSteps
  <2> QED BY <1>9, <2>2, <2>3, <2>4
<1>10. ASSUME w.pc \in PurchaseSteps, UNCHANGED <<retry, batch>>,
              \/ Done
              \/ \E pc \in PurchaseSteps : Go(pc)
              \/ \E o \in {"admitida", "descartada", "sin_arranque", "reintentar"} : Finishing(o)
       PROVE  WorkSound'
  <2>1. /\ w.queued => batch = {} 
        /\ w.pc \notin {"poll", "queue"}
    BY <1>10 DEF WorkSound, PurchaseSteps
  <2>2. CASE Done
    <3>1. /\ w'.e = NoEvent /\ w'.pc \in {"queue", "next"} /\ ~w'.queued
          /\ w'.pc = "queue" => w.queued
      BY <2>2, Leaving
    <3> QED BY <1>1, <1>10, <2>1, <3>1 DEF CartSteps, PurchaseSteps
  <2>3. CASE ~Done
    <3>1. w'.e = w.e /\ w'.pc \in PurchaseSteps /\ w'.queued = w.queued
      BY <1>10, <2>3, Going, Finished DEF Steps, PurchaseSteps
    <3> QED BY <1>0, <1>1, <1>10, <2>1, <3>1 DEF CartSteps, PurchaseSteps
  <2> QED BY <2>2, <2>3
<1>11. CASE AdmitCart
  BY <1>9, <1>11 DEF AdmitCart, At, CartSteps, Answered, Unanswered
<1>12. CASE Plan
  BY <1>9, <1>12 DEF Plan, At, CartSteps, Planned, NotPlanned
<1>13. CASE Mark \/ Remark
  BY <1>9, <1>13 DEF Mark, Remark, At, CartSteps, WorkSound
<1>14. CASE Note \/ Apply \/ Rejected \/ Refuse \/ Close \/ Finish \/ Pause
  <2>1. /\ w.pc \in PurchaseSteps /\ UNCHANGED <<retry, batch>>
        /\ Done \/ Go("apply") \/ Go("admit") \/ Go("pause") \/ Go("refuse") \/ Go("close")
    BY <1>14 DEF Note, Apply, Rejected, Refuse, Close, Finish, Pause, At, PurchaseSteps
  <2>2. {"apply", "admit", "pause", "refuse", "close"} \subseteq PurchaseSteps
    BY DEF PurchaseSteps
  <2> QED BY <1>10, <2>1, <2>2
<1>15. CASE AdmitPurchase
  <2>1. /\ w.pc \in PurchaseSteps /\ UNCHANGED <<retry, batch>>
        /\ \E o \in {"admitida", "descartada", "sin_arranque", "reintentar"} : Finishing(o)
    BY <1>15 DEF AdmitPurchase, At, PurchaseSteps, Outcome
  <2> QED BY <1>10, <2>1
<1>16. CASE Restart
  BY <1>1, <1>16, Starting DEF Restart, CartSteps, PurchaseSteps
<1> QED
  BY <1>2, <1>3, <1>4, <1>5, <1>6, <1>7, <1>8, <1>11, <1>12, <1>13, <1>14, <1>15, <1>16
  DEF Next, Worker, Take, vars, LateAdmission, CaseEnds, EditFlow

LEMMA WelcomeStep ==
    ASSUME TypeOK, WorkSound, StopFirst, WelcomeAfterStop, [Next]_vars
    PROVE  WelcomeAfterStop'
<1> SUFFICES ASSUME NEW p \in Purchases, case'[p] = "native"
             PROVE  status'[p] # "received"
  BY DEF WelcomeAfterStop
<1>0. p \in Events /\ p \notin Carts
  BY ResolutionAssumption DEF Events
<1>1. CASE case[p] = "native"
  BY <1>0, <1>1, StatusSteps DEF WelcomeAfterStop
<1>2. CASE case[p] # "native"
  <2>1. PICK e \in Events :
          /\ \A f \in Events \ {e} : case'[f] = case[f]
          /\ UNCHANGED status
          /\ \/ case'[e] = "native" /\ (e \in late \/ (w.pc \in {"native", "admit"} /\ e = w.e))
             \/ case'[e] = "legacy"
    BY <1>0, <1>2, CaseSteps
  <2>2. e = p
    BY <1>0, <1>2, <2>1
  <2>3. p \in late \/ (w.pc = "admit" /\ p = w.e)
    BY <1>0, <2>1, <2>2 DEF WorkSound, CartSteps
  <2> QED BY <2>1, <2>3 DEF StopFirst
<1> QED BY <1>1, <1>2

\* What a step adds to the admissions with no answer: the one it gave up.
LEMMA LateSteps ==
    ASSUME [Next]_vars
    PROVE  \/ late' \subseteq late
           \/ late' = late \cup {w.e} /\ w.pc \in {"native", "admit"} /\ UNCHANGED status
BY DEF Next, Worker, Take, vars, base, memory, lists, bounds, Poll, TakeQueued, Fetch, TakeCart,
       TakePurchase, EndRound, AdmitCart, Plan, Mark, Remark, Note, Apply, Rejected, Refuse, Close,
       AdmitPurchase, Finish, Pause, Restart, LateAdmission, CaseEnds, EditFlow, At

LEMMA StopStep ==
    ASSUME TypeOK, WorkSound, StopFirst, [Next]_vars
    PROVE  StopFirst'
<1> USE DEF base, memory, lists, bounds
<1>0. /\ w.pc \in PurchaseSteps => w.e \in Purchases
      /\ Purchases \subseteq Events
      /\ \A e \in batch : status[e] = "received"
      /\ \A p \in retry : status[p] # "received"
  BY DEF WorkSound, Events
<1>1. \A p \in late' \cap Purchases : status'[p] # "received"
  <2>1. \A p \in late' \cap Purchases : status[p] # "received"
    BY LateSteps, ResolutionAssumption DEF StopFirst, WorkSound, CartSteps
  <2> QED BY <1>0, <2>1, StatusSteps
<1>2. ASSUME w'.pc \notin {"note", "apply", "admit", "finish"} PROVE StopFirst'
  BY <1>1, <1>2 DEF StopFirst
<1>3. CASE UNCHANGED <<w, status>>
  BY <1>1, <1>3 DEF StopFirst
<1>4. ASSUME NEW p \in Purchases, TakeQueued(p) PROVE StopFirst'
  <2>1. w'.pc = "admit" /\ w'.e = p /\ p \in retry /\ UNCHANGED status
    BY <1>4 DEF TakeQueued, Idle
  <2> QED BY <1>0, <1>1, <2>1 DEF StopFirst
<1>5. ASSUME NEW p \in Events, TakePurchase(p) PROVE StopFirst'
  <2>1. w'.pc \in {"note", "apply"} /\ w'.e = p /\ p \in batch /\ UNCHANGED status
    BY <1>5 DEF TakePurchase, Idle, Oldest
  <2> QED BY <1>0, <1>1, <2>1 DEF StopFirst
<1>6. CASE Note
  <2>1. CASE Go("apply")
    <3>1. w'.pc = "apply" /\ w'.e = w.e /\ w.pc = "note" /\ UNCHANGED status
      BY <1>6, <2>1, Going DEF Note, At, Steps, PurchaseSteps
    <3> QED BY <1>1, <3>1 DEF StopFirst
  <2>2. CASE Done
    BY <1>2, <2>2, Leaving
  <2> QED BY <1>6, <2>1, <2>2 DEF Note
<1>7. CASE Apply
  <2>1. w.e \in Purchases
    BY <1>0, <1>7 DEF Apply, At, PurchaseSteps
  <2>2. CASE Go("admit") /\ ApplyPurchase(w.e)
    <3>1. w'.pc = "admit" /\ w'.e = w.e /\ status'[w.e] # "received"
      BY <2>1, <2>2, Going, Applying DEF Steps, PurchaseSteps
    <3> QED BY <1>1, <3>1 DEF StopFirst
  <2>3. CASE Go("pause")
    BY <1>2, <2>3, Going DEF Steps, PurchaseSteps
  <2>4. CASE Done
    BY <1>2, <2>4, Leaving
  <2> QED BY <1>7, <2>2, <2>3, <2>4 DEF Apply, Landed
<1>8. CASE AdmitPurchase
  <2>1. w'.pc = "finish" /\ w'.e = w.e /\ w.pc = "admit" /\ UNCHANGED status
    <3>1. \E o \in {"admitida", "descartada", "sin_arranque", "reintentar"} : Finishing(o)
      BY <1>8 DEF AdmitPurchase, Outcome
    <3> QED BY <1>8, <3>1, Finished DEF AdmitPurchase, At
  <2> QED BY <1>1, <2>1 DEF StopFirst
<1>9. CASE Poll \/ Fetch \/ EndRound \/ AdmitCart \/ Plan \/ Mark \/ Remark \/ Rejected \/ Refuse
           \/ Close \/ Finish \/ Pause \/ Restart
  <2>1. \/ w' = Idle \/ Done
        \/ Go("queue") \/ Go("next") \/ Go("plan") \/ Go("remark") \/ Go("refuse") \/ Go("close")
        \/ Go("pause") \/ GoMark("processed") \/ GoMark("failed")
    BY <1>9 DEF Poll, Fetch, EndRound, AdmitCart, Answered, Unanswered, Plan, Planned, NotPlanned,
                Mark, Remark, Rejected, Refuse, Close, Finish, Pause, Restart
  <2>2. w'.pc \notin {"note", "apply", "admit", "finish"}
    BY <2>1, Going, Marking, Leaving, Starting DEF Steps, CartSteps, PurchaseSteps
  <2> QED BY <1>2, <2>2
<1>10. ASSUME NEW e \in Events, TakeCart(e) PROVE StopFirst'
  <2>1. w'.pc \in {"native", "plan", "mark"}
    BY <1>10 DEF TakeCart, Idle
  <2> QED BY <1>2, <2>1
<1> QED
  BY <1>3, <1>4, <1>5, <1>6, <1>7, <1>8, <1>9, <1>10
  DEF Next, Worker, Take, vars, LateAdmission, CaseEnds, EditFlow

LEMMA TakenStep ==
    ASSUME TypeOK, WorkSound, StopFirst, WelcomeAfterStop, NotTaken, [Next]_vars
    PROVE  NotTaken'
<1> USE DEF base, memory, lists, bounds
<1>0. /\ w.pc \in PurchaseSteps => w.e \in Purchases
      /\ Purchases \subseteq Events
  BY DEF WorkSound, Events
<1>1. edits' = 0 => edits = 0 /\ on' = Triggers
  <2>1. UNCHANGED <<edits, on>> \/ \E t \in Triggers : EditFlow(t)
    BY DEF Next, Worker, Take, vars, Poll, TakeQueued, Fetch, TakeCart,
       TakePurchase, EndRound, AdmitCart, Plan, Mark, Remark, Note, Apply, Rejected, Refuse, Close,
       AdmitPurchase, Finish, Pause, Restart, LateAdmission, CaseEnds
  <2>2. edits \in Nat
    BY Typed DEF TypeOK
  <2>3. ASSUME NEW t \in Triggers, EditFlow(t) PROVE edits' # 0
    BY <2>2, <2>3 DEF EditFlow
  <2> QED BY <2>1, <2>3 DEF NotTaken
<1>3. ASSUME w'.pc \notin PurchaseSteps PROVE NotTaken'
  BY <1>1, <1>3 DEF NotTaken, PurchaseSteps
<1>4. ASSUME w'.pc \in PurchaseSteps \ {"finish", "pause"}, w'.outcome = "none" PROVE NotTaken'
  BY <1>1, <1>4 DEF NotTaken
\* The event in hand stays as it was found at the end of its admission.
<1>5. ASSUME w.pc \in {"finish", "pause"}, w'.pc \in {"finish", "pause"}, w'.e = w.e,
             w'.outcome = w.outcome
      PROVE  NotTaken'
  <2>1. w.e \in Events
    BY <1>0, <1>5 DEF PurchaseSteps
  <2>2. w.e \notin late => w.e \notin late'
    BY <1>5, LateSteps
  <2>3. status[w.e] # "received" => status'[w.e] # "received"
    BY <2>1, StatusSteps
  <2>4. w.e \notin late => case'[w.e] = case[w.e]
    <3>1. CASE UNCHANGED case
      BY <3>1
    <3>2. ASSUME NEW e \in Events, e \in late \/ e \in Carts,
                 \A f \in Events \ {e} : case'[f] = case[f]
          PROVE  w.e \notin late => case'[w.e] = case[w.e]
      <4>1. w.e \notin Carts
        BY <1>0, <1>5, ResolutionAssumption DEF PurchaseSteps
      <4> QED BY <2>1, <3>2, <4>1
    <3>3. CASE ~ UNCHANGED case
      <4>1. PICK e \in Events :
              /\ \A f \in Events \ {e} : case'[f] = case[f]
              /\ e \in late \/ w.pc \in {"native", "admit"} \/ e \in Carts
        BY <3>3, CaseSteps
      <4> QED BY <1>5, <3>2, <4>1
    <3> QED BY <3>1, <3>3
  <2>5. Spared(w'.outcome) <=> Spared(w.outcome)
    BY <1>5
  <2> QED BY <1>1, <1>5, <2>2, <2>3, <2>4, <2>5 DEF NotTaken
<1>6. CASE UNCHANGED w
  <2>1. CASE w.pc \in {"finish", "pause"}
    BY <1>5, <1>6, <2>1
  <2>2. CASE w.pc \in PurchaseSteps \ {"finish", "pause"}
    BY <1>4, <1>6, <2>2 DEF NotTaken
  <2> QED BY <1>3, <1>6, <2>1, <2>2
<1>7. ASSUME NEW p \in Purchases, TakeQueued(p) PROVE NotTaken'
  BY <1>4, <1>7 DEF TakeQueued, Idle, PurchaseSteps
<1>8. ASSUME NEW p \in Events, TakePurchase(p) PROVE NotTaken'
  BY <1>4, <1>8 DEF TakePurchase, Idle, PurchaseSteps
<1>9. CASE Note \/ Rejected \/ Refuse \/ Close
  <2>1. w.pc \in PurchaseSteps \ {"finish", "pause"}
        /\ (Done \/ Go("apply") \/ Go("refuse") \/ Go("close"))
    BY <1>9 DEF Note, Rejected, Refuse, Close, At, PurchaseSteps
  <2>2. CASE Done
    BY <1>3, <2>2, Leaving DEF PurchaseSteps
  <2>3. CASE ~Done
    <3>1. w'.pc \in {"apply", "refuse", "close"} /\ w'.outcome = "none"
      BY <2>1, <2>3, Going DEF NotTaken, Steps, PurchaseSteps
    <3> QED BY <1>4, <3>1 DEF PurchaseSteps
  <2> QED BY <2>2, <2>3
<1>10. CASE Apply
  <2>1. w.e \in Purchases /\ w.e \in Events /\ w.pc = "apply" /\ w.outcome = "none"
    BY <1>0, <1>10 DEF Apply, At, PurchaseSteps, NotTaken
  <2>2. CASE Go("admit")
    <3>1. w'.pc = "admit" /\ w'.outcome = "none"
      BY <2>1, <2>2, Going DEF Steps, PurchaseSteps
    <3> QED BY <1>4, <3>1 DEF PurchaseSteps
  <2>3. CASE Go("pause") /\ ApplyPurchase(w.e)
    <3>1. /\ w'.pc = "pause" /\ w'.e = w.e
          /\ status'[w.e] # "received"
      BY <2>1, <2>3, Going, Applying DEF Steps, PurchaseSteps
    <3>2. status[w.e] = "received" /\ w.e \notin late /\ case[w.e] # "native"
      BY <2>1 DEF StopFirst, WelcomeAfterStop
    <3>3. UNCHANGED <<case, late>>
      BY <1>10 DEF Apply
    <3> QED BY <1>1, <3>1, <3>2, <3>3 DEF NotTaken
  <2>4. CASE Done
    BY <1>3, <2>4, Leaving DEF PurchaseSteps
  <2> QED BY <1>10, <2>2, <2>3, <2>4 DEF Apply, Landed
<1>11. CASE AdmitPurchase
  <2>1. w.e \in Purchases /\ w.e \in Events /\ w.pc = "admit" /\ status[w.e] # "received"
        /\ UNCHANGED <<status, on, edits>>
    BY <1>0, <1>11 DEF AdmitPurchase, At, PurchaseSteps, StopFirst
  <2>2. CASE Finishing("reintentar")
    <3>1. w'.pc = "finish" /\ w'.outcome = "reintentar"
      BY <2>2, Finished
    <3> QED BY <1>1, <3>1 DEF NotTaken, Spared
  <2>3. ASSUME NEW row \in NativeRows(w.e), AdmitNative(w.e, row), Finishing(Outcome(row)),
               late' = late \ {w.e}
        PROVE  NotTaken'
    <3>1. Outcome(row) \in {"admitida", "descartada", "sin_arranque"}
      BY DEF Outcome
    <3>2. w'.pc = "finish" /\ w'.e = w.e /\ w'.outcome = Outcome(row)
      BY <2>3, <3>1, Finished
    <3>3. CASE row \in {"started", "starts"}
      BY <1>1, <3>2, <3>3 DEF NotTaken, Outcome, Spared
    <3>4. CASE row \notin {"started", "starts"}
      <4>1. UNCHANGED case
        BY <2>3, <3>4 DEF AdmitNative
      <4>2. edits = 0 => case[w.e] # "native"
        BY <3>4 DEF NativeRows, NotTaken, Trigger, Triggers
      <4> QED BY <1>1, <2>1, <2>3, <3>2, <4>1, <4>2 DEF NotTaken
    <3> QED BY <3>3, <3>4
  <2> QED BY <1>11, <2>2, <2>3 DEF AdmitPurchase
<1>12. CASE Finish
  <2>1. w.pc = "finish" /\ w'.pc = "pause" /\ w'.e = w.e /\ w'.outcome = w.outcome
    <3>1. Go("pause") /\ w.pc = "finish"
      BY <1>12 DEF Finish, At
    <3> QED BY <3>1, Going DEF Steps, PurchaseSteps
  <2> QED BY <1>5, <2>1
<1>13. CASE Poll \/ Fetch \/ EndRound \/ AdmitCart \/ Plan \/ Mark \/ Remark \/ Pause \/ Restart
  <2>1. \/ w' = Idle \/ Done
        \/ Go("queue") \/ Go("next") \/ Go("plan") \/ Go("remark")
        \/ GoMark("processed") \/ GoMark("failed")
    BY <1>13 DEF Poll, Fetch, EndRound, AdmitCart, Answered, Unanswered, Plan, Planned, NotPlanned,
                 Mark, Remark, Pause, Restart
  <2>2. w'.pc \notin PurchaseSteps
    BY <2>1, Going, Marking, Leaving, Starting DEF Steps, CartSteps, PurchaseSteps
  <2> QED BY <1>3, <2>2
<1>14. ASSUME NEW e \in Events, TakeCart(e) PROVE NotTaken'
  <2>1. w'.pc \in {"native", "plan", "mark"}
    BY <1>14 DEF TakeCart, Idle
  <2> QED BY <1>3, <2>1 DEF PurchaseSteps
<1> QED
  BY <1>6, <1>7, <1>8, <1>9, <1>10, <1>11, <1>12, <1>13, <1>14
  DEF Next, Worker, Take, vars, LateAdmission, CaseEnds, EditFlow

LEMMA StepSound == IInv /\ [Next]_vars => IInv'
BY TypeStep, WorkStep, StopStep, TakenStep, DoubleStep, WelcomeStep DEF IInv

-----------------------------------------------------------------------------
(* The theorems *)

THEOREM Inductive == Spec => []IInv
BY InitSound, StepSound, PTL DEF Spec

\* The worker, its lists and the rows of the base keep their types.
THEOREM TypeCorrect == Spec => []TypeOK
<1>1. IInv => TypeOK
  BY DEF IInv
<1> QED BY <1>1, Inductive, PTL

\* No two open carts of the buyer are one native and one of the legacy.
THEOREM OneKindOfCase == Spec => []NoDoubleCase
<1>1. IInv => NoDoubleCase
  BY DEF IInv
<1> QED BY <1>1, Inductive, PTL

\* A flow that a purchase started was started after the purchase stopped the carts.
THEOREM StopBeforeWelcome == Spec => []WelcomeAfterStop
<1>1. IInv => WelcomeAfterStop
  BY DEF IInv
<1> QED BY <1>1, Inductive, PTL

\* An event that opened a case never opens another.
THEOREM CaseForGood == Spec => OneCasePerEvent
<1>1. IInv /\ [Next]_vars => [\A e \in Events : case[e] # "none" => case'[e] = case[e]]_vars
  BY CaseKept DEF IInv
<1> QED BY <1>1, Inductive, PTL DEF Spec, OneCasePerEvent

\* Flows that nobody edits: a buyer taken by one of them is not paused.
THEOREM TakenGoesOn == Spec => TakenIsNotPaused
<1>1. ASSUME IInv, [Next]_vars
      PROVE  [\A p \in paused' \ paused : edits = 0 => case[p] # "native"]_vars
  <2>1. CASE UNCHANGED paused
    BY <2>1
  <2>2. CASE ~ UNCHANGED paused
    <3>1. Pause
      BY <1>1, <2>2 DEF Next, Worker, Take, vars, base, memory, lists, bounds, Poll, TakeQueued,
         Fetch, TakeCart, TakePurchase, EndRound, AdmitCart, Plan, Mark, Remark, Note, Apply,
         Rejected, Refuse, Close, AdmitPurchase, Finish, Restart, LateAdmission, CaseEnds, EditFlow
    <3>2. paused' = paused \cup {w.e} /\ w.pc = "pause" /\ ~Spared(w.outcome)
      BY <2>2, <3>1 DEF Pause, Landed, At
    <3> QED BY <1>1, <3>2 DEF IInv, NotTaken
  <2> QED BY <2>1, <2>2
<1> QED BY <1>1, Inductive, PTL DEF Spec, TakenIsNotPaused

=============================================================================
