------------------------------ MODULE Resolution ------------------------------
(***************************************************************************)
(* The resolution worker of the bridge: ResolutionWorker of worker.py,     *)
(* resolve_event of resolution.py, the admissions of native_flows.py and   *)
(* the pause of purchase_agent_pause.py, over the tables of the base that  *)
(* they write.  One buyer and one product: several abandoned carts and     *)
(* approved purchases of Hotmart, received as webhook events.              *)
(*                                                                         *)
(* Nothing is leased.  An event is worked on while it is "received", every *)
(* call is its own transaction, and whatever fails half way is done again  *)
(* from the beginning.  A call is answered, or done with its answer lost,  *)
(* or not done at all.                                                     *)
(***************************************************************************)
EXTENDS Naturals

CONSTANTS
    Carts, Purchases,  \* the webhook events, numbered as they were received
    ForceAfter,        \* FORCE_LEGACY_AFTER_FAILURES
    MaxAttempts,       \* attempts a queued purchase gets (20)
    MaxFaults,         \* bound: failed calls, lost answers and restarts; an
                       \* admission that does not answer is not counted
    MaxEdits           \* bound: changes the team makes to the native flows

ASSUME ResolutionAssumption ==
    /\ Carts \subseteq Nat \ {0} /\ Purchases \subseteq Nat \ {0} /\ Carts \cap Purchases = {}
    /\ ForceAfter \in Nat \ {0} /\ MaxAttempts \in Nat \ {0}
    /\ MaxFaults \in Nat /\ MaxEdits \in Nat

Events == Carts \cup Purchases
Triggers == {"carrito", "compra"}
NoEvent == 0
Trigger(e) == IF e \in Carts THEN "carrito" ELSE "compra"

VARIABLES
    status,    \* webhook_events.processing_status
    case,      \* the recovery case of an event: opened by its native flow, or
               \* by the legacy planner or the engine v1 ("legacy")
    open,      \* events whose case is in grace_period, active or paused
    joined,    \* carts added to the open case of another (recovery_case_events)
    queue,     \* flow_engine_native_event_queue: purchases noted for admission
    on,        \* triggers whose native flow is "prendido" (flow_controls)
    paused,    \* external: purchases whose pause is on the conversation
    seen,      \* triggers on at the last good read of the native flows
    failures,  \* unanswered native admissions in a row, in memory
    forced,    \* the same for the engine v1
    retry, batch,  \* what is left of the two lists of this round
    w,         \* the event in hand
    late,      \* admissions with no answer that the base may still apply; the
               \* calls for one event reach it in the order they were made
    noticed,   \* history: purchases last taken with their flow on
    faults, edits

base == <<status, case, open, joined, queue, on, paused>>
memory == <<seen, failures, forced>>
lists == <<retry, batch>>
bounds == <<faults, edits>>
vars == <<base, memory, lists, w, late, noticed, bounds>>

Idle == [pc |-> "poll", e |-> NoEvent, native |-> FALSE, queued |-> FALSE,
         target |-> "none", outcome |-> "none"]

Init ==
    /\ status = [e \in Events |-> "received"]
    /\ case = [e \in Events |-> "none"] /\ open = {} /\ joined = {}
    /\ queue = [p \in Purchases |-> [state |-> "none", attempts |-> 0]]
    /\ on = Triggers
    /\ paused = {}
    /\ seen = {}
    /\ failures = [e \in Carts |-> 0] /\ forced = [e \in Carts |-> 0]
    /\ retry = {} /\ batch = {}
    /\ w = Idle
    /\ late = {} /\ noticed = {}
    /\ faults = 0 /\ edits = 0

(***************************************************************************)
(* A call to the base or to Chatwoot.                                      *)
(***************************************************************************)
Replies == {"answered", "lost", "unsent"}
Landed(r) == r # "unsent"

Counted(r) ==
    /\ r = "answered" \/ faults < MaxFaults
    /\ faults' = IF r = "answered" THEN faults ELSE faults + 1

At(pc) == w.pc = pc
Go(pc) == w' = [w EXCEPT !.pc = pc]

\* On to what is left of the round: of the queue, or of the events.
Done == w' = [Idle EXCEPT !.pc = IF w.queued THEN "queue" ELSE "next"]

\* The event is to be marked: update_event_status comes next.
GoMark(target) == w' = [w EXCEPT !.pc = "mark", !.target = target]

(***************************************************************************)
(* The round: refresh, the queue of native purchases, the received events. *)
(***************************************************************************)
\* Mutant for WelcomeAfterStop: the queue does not wait for the purchase.
QueuedEarly == {p \in Purchases : queue[p].state = "pending" /\ queue[p].attempts < MaxAttempts}

Queued == {p \in Purchases : /\ queue[p].state = "pending"
                             /\ queue[p].attempts < MaxAttempts
                             /\ status[p] # "received"}

\* The flows are read again every minute, and so is the queue: a round here is
\* one that reads them.  Either read may fail.
Refreshed(r) == IF r = "unsent" THEN seen ELSE on

Poll ==
    /\ At("poll")
    /\ \E r \in {"answered", "unsent", "unread"} :
        /\ Counted(r)
        /\ seen' = Refreshed(r)
        /\ retry' = IF seen' = {} \/ r = "unread" THEN {} ELSE Queued
    /\ Go("queue")
    /\ UNCHANGED <<base, failures, forced, batch, late, noticed, edits>>

Fetch ==
    /\ At("queue") /\ retry = {}
    /\ batch' = {e \in Events : status[e] = "received"}
    /\ Go("next")
    /\ UNCHANGED <<base, memory, retry, late, noticed, bounds>>

EndRound ==
    /\ At("next") /\ batch = {}
    /\ w' = Idle
    /\ UNCHANGED <<base, memory, lists, late, noticed, bounds>>

TakeQueued(p) ==
    /\ At("queue") /\ p \in retry
    /\ retry' = retry \ {p}
    /\ w' = [Idle EXCEPT !.pc = "admit", !.e = p, !.native = TRUE, !.queued = TRUE]
    /\ UNCHANGED <<base, memory, batch, late, noticed, bounds>>

Oldest(e) == e \in batch /\ \A f \in batch : e <= f

\* The payload, the contact and its points come first: every way of failing
\* there is written to the event.
TakeCart(e) ==
    /\ At("next") /\ e \in Carts /\ Oldest(e)
    /\ batch' = batch \ {e}
    /\ \E pc \in {IF "carrito" \in seen THEN "native" ELSE "plan", "mark"} :
        w' = [Idle EXCEPT !.pc = pc, !.e = e, !.target = IF pc = "mark" THEN "failed" ELSE "none"]
    /\ UNCHANGED <<base, memory, retry, late, noticed, bounds>>

TakePurchase(p) ==
    /\ At("next") /\ p \in Purchases /\ Oldest(p)
    /\ batch' = batch \ {p}
    /\ IF "compra" \in seen
       THEN /\ w' = [Idle EXCEPT !.pc = "note", !.e = p, !.native = TRUE]
            /\ noticed' = noticed \cup {p}
       ELSE /\ w' = [Idle EXCEPT !.pc = "apply", !.e = p]
            /\ noticed' = noticed \ {p}
    /\ UNCHANGED <<base, memory, retry, late, bounds>>

(***************************************************************************)
(* What the base answers.  The locks of the event and of its contact make  *)
(* each of these one step.                                                 *)
(***************************************************************************)
LegacyOpen == \E f \in open \cap Carts : case[f] = "legacy"
NativeCartOpen == \E f \in open \cap Carts : case[f] = "native"
Running(e) == \E f \in open \ {e} : case[f] = "native" /\ Trigger(f) = Trigger(e)

\* admit_flow_engine_event_v1 and _flow_engine_admit_native_flow, of one flow.
\* What was not taken before may be rejected for its payload, be outside the
\* cohort, or be refused by the guards of the flow.
NativeRows(e) ==
    IF case[e] = "native" THEN {IF Trigger(e) \in on THEN "started" ELSE "unclaimed"}
    ELSE {"rejected", "unclaimed"} \cup
         (IF Trigger(e) \notin on \/ (e \in Carts /\ LegacyOpen) THEN {}
          ELSE IF Running(e) \/ case[e] = "legacy" THEN {"refused"}
          ELSE {"refused", "starts"})

AdmitNative(e, row) ==
    IF row = "starts"
    THEN case' = [case EXCEPT ![e] = "native"] /\ open' = open \cup {e}
    ELSE UNCHANGED <<case, open>>

\* Mutant for NoDoubleCase: the planner does not look for a native case.
LegacyRowBlind(e) ==
    IF case[e] = "legacy" \/ e \in joined THEN "planned"
    ELSE IF LegacyOpen THEN "joined"
    ELSE IF case[e] = "native" THEN "conflict"
    ELSE "legacy"

\* plan_cart_recovery under the pilot: the events of a case are unique, and a
\* case is opened by one event.
LegacyRow(e) ==
    IF case[e] = "legacy" \/ e \in joined THEN "planned"
    ELSE IF NativeCartOpen THEN "rejected"
    ELSE IF LegacyOpen THEN "joined"
    ELSE IF case[e] = "native" THEN "conflict"
    ELSE "legacy"

\* What the planner may answer.  It refuses a first cart for good; the engine
\* v1, which a forced call does not ask, a cart that would be joined too.
PlanRows(e) ==
    {LegacyRow(e)} \cup
    (IF LegacyRow(e) = "legacy" \/ (LegacyRow(e) = "joined" /\ forced[e] < ForceAfter)
     THEN {"rejected"} ELSE {})

PlanCase(e, row) ==
    /\ case' = IF row = "legacy" THEN [case EXCEPT ![e] = row] ELSE case
    /\ joined' = IF row = "joined" THEN joined \cup {e} ELSE joined
    /\ open' = IF row = "legacy" THEN open \cup {e} ELSE open

(***************************************************************************)
(* A cart: resolve_event.                                                  *)
(***************************************************************************)
\* The answer to a cart.
Answered(row) ==
    CASE row \in {"started", "starts"} -> GoMark("processed")
      [] row = "refused" -> GoMark("failed")
      [] OTHER -> Go("plan")

\* Mutant for WorkEnds: a cart waits for its native flow for ever.
UnansweredForEver(e) ==
    failures' = [failures EXCEPT ![e] = IF @ < ForceAfter THEN @ + 1 ELSE @] /\ Done

\* No answer: the event waits, or the legacy plans from now on.
Unanswered(e) ==
    IF failures[e] >= ForceAfter
    THEN failures' = [failures EXCEPT ![e] = 0] /\ Go("plan")
    ELSE failures' = [failures EXCEPT ![e] = @ + 1] /\ Done

AdmitCart ==
    /\ At("native")
    /\ \/ \E row \in NativeRows(w.e) :
            /\ AdmitNative(w.e, row)
            /\ \/ Answered(row) /\ failures' = [failures EXCEPT ![w.e] = 0]
               \/ Unanswered(w.e)
            /\ late' = late \ {w.e}
       \/ Unanswered(w.e) /\ late' \in {late, late \cup {w.e}} /\ UNCHANGED <<case, open>>
    /\ UNCHANGED <<status, joined, queue, on, paused, seen, forced, lists, noticed, bounds>>

\* The planner fails for good; the engine v1 that does not answer is asked
\* again in the next round.
NotPlanned(e) ==
    \/ forced' = [forced EXCEPT ![e] = IF @ < ForceAfter THEN @ + 1 ELSE @] /\ Done
    \/ UNCHANGED forced /\ GoMark("failed")

Planned(e, row) ==
    /\ IF row \in {"rejected", "conflict"} THEN GoMark("failed") ELSE GoMark("processed")
    /\ forced' = [forced EXCEPT ![e] = 0]

Plan ==
    /\ At("plan")
    /\ \E r \in Replies, row \in PlanRows(w.e) :
        /\ Counted(r)
        /\ IF Landed(r) THEN PlanCase(w.e, row) ELSE UNCHANGED <<case, open, joined>>
        /\ IF r = "answered" THEN Planned(w.e, row) ELSE NotPlanned(w.e)
    /\ UNCHANGED <<status, queue, on, paused, seen, failures, lists, late, noticed, edits>>

\* The result of the event.  One that cannot be written is written over with
\* "failed", and when that fails too the event stays received.
Mark ==
    /\ At("mark")
    /\ \E r \in Replies :
        /\ Counted(r)
        /\ status' = IF Landed(r) THEN [status EXCEPT ![w.e] = w.target] ELSE status
        /\ IF r = "answered" THEN Done ELSE Go("remark")
    /\ UNCHANGED <<case, open, joined, queue, on, paused, memory, lists, late, noticed, edits>>

Remark ==
    /\ At("remark")
    /\ \E r \in {"answered", "unsent"} :
        /\ Counted(r)
        /\ status' = IF Landed(r) THEN [status EXCEPT ![w.e] = "failed"] ELSE status
    /\ Done
    /\ UNCHANGED <<case, open, joined, queue, on, paused, memory, lists, late, noticed, edits>>

(***************************************************************************)
(* A purchase: it is noted, applied, admitted, and the agent is paused.    *)
(***************************************************************************)
Enqueued(p) ==
    IF queue[p].state = "none" THEN [queue EXCEPT ![p].state = "pending"] ELSE queue

Note ==
    /\ At("note")
    /\ \E r \in Replies :
        /\ Counted(r)
        /\ queue' = IF Landed(r) THEN Enqueued(w.e) ELSE queue
        /\ IF r = "answered" THEN Go("apply") ELSE Done
    /\ UNCHANGED <<status, case, open, joined, on, paused, memory, lists, late, noticed, edits>>

\* Stops the open carts of the buyer, unless they cannot be told apart; the
\* status tells a purchase with a case from one without.
ApplyPurchase(p) ==
    \/ /\ open \cap Carts # {}
       /\ status' = [status EXCEPT ![p] = "processed"] /\ open' = open \ Carts
    \/ status' = [status EXCEPT ![p] = "failed"] /\ UNCHANGED open

Apply ==
    /\ At("apply")
    /\ \E r \in Replies :
        /\ Counted(r)
        /\ IF Landed(r) THEN ApplyPurchase(w.e) ELSE UNCHANGED <<status, open>>
        /\ IF r # "answered" THEN Done ELSE IF w.native THEN Go("admit") ELSE Go("pause")
    /\ UNCHANGED <<case, joined, queue, on, paused, memory, lists, late, noticed, edits>>

\* The base refuses the purchase for good.
Rejected ==
    /\ At("apply")
    /\ Go("refuse")
    /\ UNCHANGED <<base, memory, lists, late, noticed, bounds>>

Refuse ==
    /\ At("refuse")
    /\ \E r \in Replies :
        /\ Counted(r)
        /\ status' = IF Landed(r) THEN [status EXCEPT ![w.e] = "failed"] ELSE status
        /\ IF r = "answered" /\ w.native THEN Go("close") ELSE Done
    /\ UNCHANGED <<case, open, joined, queue, on, paused, memory, lists, late, noticed, edits>>

\* The base counts on past the maximum; nobody reads the queue of one there.
Closed(p, done) ==
    IF queue[p].state # "pending" THEN queue
    ELSE IF done THEN [queue EXCEPT ![p].state = "done"]
    ELSE [queue EXCEPT ![p].attempts = IF @ < MaxAttempts THEN @ + 1 ELSE @]

Close ==
    /\ At("close")
    /\ \E r \in {"answered", "unsent"} :
        /\ Counted(r)
        /\ queue' = IF Landed(r) THEN Closed(w.e, TRUE) ELSE queue
    /\ Done
    /\ UNCHANGED <<status, case, open, joined, on, paused, memory, lists, late, noticed, edits>>

\* admit_native_purchase.
Outcome(row) ==
    CASE row \in {"started", "starts"} -> "admitida"
      [] row = "rejected" -> "descartada"
      [] OTHER -> "sin_arranque"

Finishing(outcome) == w' = [w EXCEPT !.pc = "finish", !.outcome = outcome]

AdmitPurchase ==
    /\ At("admit")
    /\ \/ \E row \in NativeRows(w.e) :
            /\ AdmitNative(w.e, row)
            /\ Finishing(Outcome(row)) \/ Finishing("reintentar")
            /\ late' = late \ {w.e}
       \/ /\ Finishing("reintentar") /\ late' \in {late, late \cup {w.e}}
          /\ UNCHANGED <<case, open>>
    /\ UNCHANGED <<status, joined, queue, on, paused, memory, lists, noticed, bounds>>

Finish ==
    /\ At("finish")
    /\ \E r \in {"answered", "unsent"} :
        /\ Counted(r)
        /\ queue' = IF Landed(r) THEN Closed(w.e, w.outcome # "reintentar") ELSE queue
    /\ Go("pause")
    /\ UNCHANGED <<status, case, open, joined, on, paused, memory, lists, late, noticed, edits>>

\* Mutant for TakenIsNotPaused: an unknown admission is taken for a refusal.
SparedIfTaken(outcome) == outcome = "admitida"

\* A buyer a flow took is not paused, nor one whose admission is pending.
Spared(outcome) == outcome \in {"admitida", "reintentar"}

Pause ==
    /\ At("pause")
    /\ \E r \in {"answered", "unsent"} :
        /\ IF Spared(w.outcome) THEN r = "unsent" /\ UNCHANGED faults ELSE Counted(r)
        /\ paused' = IF Landed(r) THEN paused \cup {w.e} ELSE paused
    /\ Done
    /\ UNCHANGED <<status, case, open, joined, queue, on, memory, lists, late, noticed, edits>>

(***************************************************************************)
(* Around the worker.                                                      *)
(***************************************************************************)
Restart ==
    /\ faults < MaxFaults /\ ~At("poll")
    /\ faults' = faults + 1
    /\ w' = Idle /\ retry' = {} /\ batch' = {}
    /\ seen' = {}
    /\ failures' = [e \in Carts |-> 0] /\ forced' = [e \in Carts |-> 0]
    /\ UNCHANGED <<base, late, noticed, edits>>

\* The base gets to an admission whose caller gave up.
LateAdmission(e) ==
    /\ e \in late
    /\ late' = late \ {e}
    /\ \E row \in NativeRows(e) : AdmitNative(e, row)
    /\ UNCHANGED <<status, joined, queue, on, paused, memory, lists, w, noticed, bounds>>

\* The team turns a flow on, or pauses it or turns it off.
EditFlow(t) ==
    /\ edits < MaxEdits
    /\ on' = IF t \in on THEN on \ {t} ELSE on \cup {t}
    /\ edits' = edits + 1
    /\ UNCHANGED <<status, case, open, joined, queue, paused, memory, lists, w, late, noticed, faults>>

\* The dispatcher finishes with a case.
CaseEnds(e) ==
    /\ e \in open
    /\ open' = open \ {e}
    /\ UNCHANGED <<status, case, joined, queue, on, paused, memory, lists, w, late, noticed, bounds>>

Take == \E e \in Events : TakeCart(e) \/ TakePurchase(e)

Worker ==
    \/ Poll \/ (\E p \in Purchases : TakeQueued(p)) \/ Fetch \/ Take \/ EndRound
    \/ AdmitCart \/ Plan \/ Mark \/ Remark
    \/ Note \/ Apply \/ Rejected \/ Refuse \/ Close \/ AdmitPurchase \/ Finish \/ Pause

Next ==
    \/ Worker \/ Restart
    \/ \E e \in Events : LateAdmission(e) \/ CaseEnds(e)
    \/ \E t \in Triggers : EditFlow(t)

Spec == Init /\ [][Next]_vars

\* The loop of the worker runs as long as the bridge does.
FairSpec == Spec /\ WF_vars(Worker)

------------------------------------------------------------------------------
\* What the worker may have in hand, and a purchase of the queue.
CartSteps == {"native", "plan", "mark", "remark"}
PurchaseSteps == {"note", "apply", "refuse", "close", "admit", "finish", "pause"}
Work == [pc : {"poll", "queue", "next"} \cup CartSteps \cup PurchaseSteps,
         e : Events \cup {NoEvent}, native : BOOLEAN, queued : BOOLEAN,
         target : {"none", "processed", "failed"},
         outcome : {"none", "admitida", "descartada", "sin_arranque", "reintentar"}]
Noted == [state : {"none", "pending", "done"}, attempts : 0..MaxAttempts]

\* Type invariant of the worker, its two lists and the rows of the base.
TypeOK ==
    /\ status \in [Events -> {"received", "processed", "failed"}]
    /\ case \in [Events -> {"none", "native", "legacy"}] /\ joined \subseteq Carts
    /\ open \subseteq {e \in Events : case[e] # "none"}
    /\ queue \in [Purchases -> Noted]
    /\ on \subseteq Triggers
    /\ paused \subseteq Purchases /\ noticed \subseteq Purchases
    /\ retry \subseteq Purchases /\ batch \subseteq Events /\ late \subseteq Events
    /\ seen \subseteq Triggers
    /\ failures \in [Carts -> 0..ForceAfter] /\ forced \in [Carts -> 0..ForceAfter]
    /\ w \in Work
    /\ faults \in 0..MaxFaults /\ edits \in 0..MaxEdits

\* A cart never opens a native case and one of the legacy for the same person
\* and product (20261030000100), whatever was admitted late, turned off in
\* between or forced to the legacy.
NoDoubleCase == ~(NativeCartOpen /\ LegacyOpen)

\* The event that opened a case never opens another, when the first one was
\* lost from sight and is over.
OneCasePerEvent ==
    [][\A e \in Events : case[e] # "none" => case'[e] = case[e]]_vars

\* First the purchase stops what is open, then its flow starts: the welcome is
\* not there for its own purchase to stop.
WelcomeAfterStop ==
    \A p \in Purchases : case[p] = "native" => status[p] # "received"

\* While the team leaves the flows alone, a purchase does not pause the buyer
\* whom its native flow already took: the pause would stop the welcome.
TakenIsNotPaused ==
    [][\A p \in paused' \ paused : edits = 0 => case[p] # "native"]_vars

\* The worker has a cart or a purchase in hand, whose result is to be written, and
\* what waits in a list is still received, or applied already.
WorkSound ==
    /\ w.pc \in CartSteps => w.e \in Carts
    /\ w.pc \in PurchaseSteps => w.e \in Purchases
    /\ w.pc \in {"poll", "queue", "next"} => w.e = NoEvent
    /\ w.pc \in {"mark", "remark"} => w.target # "none"
    /\ \A e \in batch : status[e] = "received" /\ e # w.e /\ w.pc \notin {"poll", "queue"}
    /\ \A p \in retry : status[p] # "received"
    /\ w.queued => w.pc \in PurchaseSteps /\ batch = {}

\* An admission of a purchase, on its way or given up, comes after its stop.
StopFirst ==
    /\ w.pc \in {"note", "apply"} => status[w.e] = "received"
    /\ w.pc \in {"admit", "finish"} => status[w.e] # "received"
    /\ \A p \in late \cap Purchases : status[p] # "received"

\* While the flows are as they were, a purchase that is not spared was not taken,
\* and no admission of it is on its way.
NotTaken ==
    /\ edits = 0 => on = Triggers
    /\ w.pc \in {"finish", "pause"} /\ ~Spared(w.outcome) =>
         /\ status[w.e] # "received" /\ w.e \notin late
         /\ edits = 0 => case[w.e] # "native"
    /\ w.pc \in PurchaseSteps \ {"finish", "pause"} => w.outcome = "none"

\* Every event is dealt with, even when the native admission never answers.
EventsEnd == <>(\A e \in Events : status[e] # "received")

\* While some native flow stays on, a purchase taken with its flow on gets an
\* answer of the admission, or uses up its attempts, wherever the worker died.
GivenUp(p) == queue[p].state = "done" \/ queue[p].attempts = MaxAttempts

PurchaseAnswered ==
    <>[](on # {}) => []<>(\A p \in noticed : GivenUp(p))

\* The worker's loop leaves neither an event nor a queued purchase behind.
WorkEnds == EventsEnd /\ PurchaseAnswered
==============================================================================
