----------------------------- MODULE FirstTouch -----------------------------
(***************************************************************************)
(* The one first template of a phone.  Three routes compete for the row of *)
(* that phone in johanna_abandonment_one_shot_commands (target_phone is    *)
(* unique): the timer of a precheckout form, reserved and sent by          *)
(* HotmartAbandonmentTimerWorker of worker.py; an abandoned cart; and a    *)
(* rejected payment, which may be tried once more after the one failure    *)
(* that comes before any conversation.  The last two run inside a Hotmart  *)
(* webhook (app.py), which the provider delivers again when it likes.      *)
(*                                                                         *)
(* One phone: commands of two phones share nothing but locks.  A call to   *)
(* the base is one transaction; between two of them, and between one and   *)
(* the call to Chatwoot, anybody else may act and the process may die.     *)
(***************************************************************************)
EXTENDS Naturals

CONSTANTS
    Forms, Carts, Failures,  \* precheckout submissions, cart and payment events
    Intents,                 \* purchase intents with this phone
    For,                     \* the intent an event belongs to
    Observed,                \* submitted_at of a form
    Workers, Desks,          \* timer workers (two in a deploy), webhook requests
    None,
    MaxFaults                \* bound: deaths and lost finishes

Sources == Forms \cup Carts \cup Failures
Procs == Workers \cup Desks

ASSUME FirstTouchAssumption ==
    /\ Forms \cap Carts = {} /\ Forms \cap Failures = {} /\ Carts \cap Failures = {}
    /\ For \in [Sources -> Intents] /\ Observed \in [Forms -> Nat]
    /\ Workers \cap Desks = {} /\ None \notin Sources /\ MaxFaults \in Nat

VARIABLES
    intent,    \* life: lifecycle_state; class: current_classification
    timer,     \* hotmart_abandonment_reevaluations of a form: its state, or the
               \* outcome it was completed with
    cart,      \* the stored correlation of a cart event
    case,      \* case_status of a payment failure
    command,   \* the row of the phone
    optedOut,  \* a row of contact_opt_out_events for the phone
    takeover,  \* a person has a conversation of the contact
    proc,      \* a worker or a webhook request, between two of its calls
    sent,      \* external: templates Chatwoot created for a source
    closed,    \* history: intents bought, or opted out of, while nobody was
               \* sending for them
    faults

records == <<intent, timer, cart, case, command, optedOut, takeover>>
vars == <<records, proc, sent, closed, faults>>

Idle == [pc |-> "idle", src |-> None, again |-> FALSE, reply |-> "none"]

Init ==
    /\ intent = [i \in Intents |-> [life |-> "waiting_for_purchase", class |-> "none"]]
    /\ timer = [f \in Forms |-> "absent"]
    /\ cart = [c \in Carts |-> "none"]
    /\ case = [e \in Failures |-> "none"]
    /\ command = [source |-> None, status |-> "none", failure |-> "none", retries |-> 0]
    /\ optedOut = FALSE /\ takeover = FALSE
    /\ proc = [p \in Procs |-> Idle]
    /\ sent = [s \in Sources |-> 0]
    /\ closed = {}
    /\ faults = 0

At(p, pc) == proc[p].pc = pc
Rest(p) == proc' = [proc EXCEPT ![p] = Idle]
Go(p, pc) == proc' = [proc EXCEPT ![p].pc = pc]
Hold(p, pc, s, again) ==
    proc' = [proc EXCEPT ![p] = [pc |-> pc, src |-> s, again |-> again, reply |-> "none"]]

Bought(i) == intent[i].life = "purchased"
Sending(i) == \E p \in Procs : At(p, "sending") /\ For[proc[p].src] = i

(***************************************************************************)
(* The buyer, the provider and the team.                                   *)
(***************************************************************************)
\* A later form closes the timer of an earlier one and gets a timer of its own; one
\* that arrives late gets none, and neither does one of an intent that moved on.
Submit(f) ==
    LET live == {g \in Forms : For[g] = For[f] /\ timer[g] \in {"scheduled", "due"}}
        eligible == ~ Bought(For[f]) /\ intent[For[f]].class = "none"
    IN
    /\ timer[f] = "absent"
    /\ timer' =
        IF eligible /\ \A g \in live : Observed[g] < Observed[f]
        THEN [g \in Forms |-> IF g = f THEN "scheduled"
                              ELSE IF g \in live THEN "superseded_by_newer_precheckout"
                              ELSE timer[g]]
        ELSE [timer EXCEPT ![f] = "not_scheduled"]
    /\ UNCHANGED <<intent, cart, case, command, optedOut, takeover, proc, sent, closed, faults>>

\* Sixty minutes from submitted_at.
Elapse(f) ==
    /\ timer[f] = "scheduled"
    /\ timer' = [timer EXCEPT ![f] = "due"]
    /\ UNCHANGED <<intent, cart, case, command, optedOut, takeover, proc, sent, closed, faults>>

\* An approved purchase cancels every timer of the intent, completed ones too.
Purchase(i) ==
    /\ ~ Bought(i)
    /\ intent' = [intent EXCEPT ![i] = [life |-> "purchased", class |-> "none"]]
    /\ timer' = [f \in Forms |-> IF For[f] = i /\ timer[f] \notin {"absent", "not_scheduled"}
                                 THEN "cancelled_purchased" ELSE timer[f]]
    /\ closed' = IF Sending(i) THEN closed ELSE closed \cup {i}
    /\ UNCHANGED <<cart, case, command, optedOut, takeover, proc, sent, faults>>

OptOut ==
    /\ ~ optedOut
    /\ optedOut' = TRUE
    /\ closed' = closed \cup {i \in Intents : ~ Sending(i)}
    /\ UNCHANGED <<intent, timer, cart, case, command, takeover, proc, sent, faults>>

Takeover ==
    /\ takeover' = ~ takeover
    /\ UNCHANGED <<intent, timer, cart, case, command, optedOut, proc, sent, closed, faults>>

(***************************************************************************)
(* The ledger.                                                             *)
(***************************************************************************)
Open == {"reserved", "request_started"}
Final == {"accepted_by_chatwoot", "delivery_unknown"}

Insert(s, status) ==
    command' = [source |-> s, status |-> status, failure |-> "none", retries |-> 0]

CaseOf(status) ==
    IF status = "request_started" THEN "outbound_started"
    ELSE IF status = "accepted_by_chatwoot" THEN "outbound_accepted"
    ELSE "delivery_unknown"

\* Mutant for RecordedTruth: the case is left as the admission made it.
CaseNotWritten(s, status) == case

\* The case of a rejected payment follows its command in the same transaction.
CaseAfter(s, status) ==
    IF s \in Failures THEN [case EXCEPT ![s] = CaseOf(status)] ELSE case

Write(status, failure) ==
    /\ command' = [command EXCEPT !.status = status, !.failure = failure]
    /\ case' = CaseAfter(command.source, status)

\* Mutant for LedgerSpec: an outcome is written over the one before.
FinishAnew(status, failure) == Write(status, failure)

\* finish_johanna_abandonment_one_shot: the same outcome again is a replay, another
\* one is refused.
Finish(status, failure) ==
    IF command.status = "request_started" THEN Write(status, failure)
    ELSE UNCHANGED <<command, case>>

Refused(status) == command.status \notin {"request_started", status}

(***************************************************************************)
(* The timer worker.                                                       *)
(***************************************************************************)
\* Why a form gets no message: the order of the checks is that of the code.
Stop(i) ==
    IF Bought(i) THEN "cancelled_purchased"
    ELSE IF intent[i].class # "none" THEN "superseded_by_provider_event"
    ELSE IF optedOut THEN "blocked_contact"
    ELSE IF takeover THEN "blocked_handoff"
    ELSE "none"

Decision(f) ==
    IF Stop(For[f]) # "none" THEN Stop(For[f])
    ELSE IF command.source \in {None, f} THEN "command_reserved"
    ELSE "budget_consumed"

\* Mutant for FirstTouchSettles: a completed timer is not listed again.
ListedOnce(f) == timer[f] = "due"

\* list_due_..._v2: what is due, and what was reserved and never got to an end.
Listed(f) ==
    \/ timer[f] = "due"
    \/ timer[f] = "command_reserved" /\ command.source = f /\ command.status \in Open

\* The list is read before; the transaction reads the timer again, and what left the
\* list meanwhile is left alone by the calls that follow.
Reevaluate(w, f) ==
    LET outcome == IF timer[f] = "due" THEN Decision(f) ELSE timer[f]
    IN
    /\ At(w, "idle") /\ Listed(f)
    /\ timer' = [timer EXCEPT ![f] = outcome]
    /\ IF timer[f] = "due" /\ outcome = "command_reserved" /\ command.source = None
       THEN Insert(f, "reserved") ELSE UNCHANGED command
    /\ IF outcome = "command_reserved" THEN Hold(w, "authorizing", f, FALSE)
       ELSE UNCHANGED proc
    /\ UNCHANGED <<intent, cart, case, optedOut, takeover, sent, closed, faults>>

\* Mutant for ClosedStaysQuiet: the reservation is authority enough.
ReservationIsEnough(i) == "none"

\* What the command is checked against right before the request.
Recheck(i) == Stop(i)

\* get_precheckout_delayed_one_shot_command: a request found started is given up, a
\* reservation is started or, with a stop, ended.
Authorize(w) ==
    LET f == proc[w].src
        mine == timer[f] = "command_reserved" /\ command.source = f
        granted == command.status = "reserved" /\ Recheck(For[f]) = "none"
    IN
    /\ At(w, "authorizing")
    /\ IF mine /\ command.status = "request_started"
         THEN Write("delivery_unknown", "precheckout_inflight_recovered")
       ELSE IF mine /\ granted THEN Write("request_started", "none")
       ELSE IF mine /\ command.status = "reserved"
         THEN Write("delivery_unknown", Recheck(For[f]))
       ELSE UNCHANGED <<command, case>>
    /\ IF mine /\ granted THEN Go(w, "sending") ELSE Rest(w)
    /\ UNCHANGED <<intent, timer, cart, optedOut, takeover, sent, closed, faults>>

(***************************************************************************)
(* The webhook of a cart or of a rejected payment.                         *)
(***************************************************************************)
\* Admission and correlation are kept for good: a delivery that comes again reads them.
AdmitCart(d, c) ==
    LET resolved == cart[c] = "resolved" \/ (cart[c] = "none" /\ ~ Bought(For[c]))
    IN
    /\ At(d, "idle") /\ cart[c] # "unmatched"
    /\ cart' = [cart EXCEPT ![c] = IF resolved THEN "resolved" ELSE "unmatched"]
    /\ intent' = IF cart[c] = "none" /\ resolved
                 THEN [intent EXCEPT ![For[c]].class = "confirmed_abandonment"] ELSE intent
    /\ IF resolved THEN Hold(d, "beginning", c, FALSE) ELSE UNCHANGED proc
    /\ UNCHANGED <<timer, case, command, optedOut, takeover, sent, closed, faults>>

\* Of a payment that was left unknown the delivery asks for the retry.
AdmitFailure(d, e) ==
    LET resolved == case[e] # "none" \/ ~ Bought(For[e])
    IN
    /\ At(d, "idle") /\ case[e] \notin {"unmatched", "outbound_accepted"}
    /\ case' = IF case[e] = "none"
               THEN [case EXCEPT ![e] = IF resolved THEN "pending_human_review" ELSE "unmatched"]
               ELSE case
    /\ intent' = IF case[e] = "none" /\ resolved
                 THEN [intent EXCEPT ![For[e]].class = "payment_failure_supported"] ELSE intent
    /\ IF resolved THEN Hold(d, "beginning", e, case[e] = "delivery_unknown")
       ELSE UNCHANGED proc
    /\ UNCHANGED <<timer, cart, command, optedOut, takeover, sent, closed, faults>>

Recoverable(s) ==
    /\ ~ Bought(For[s]) /\ ~ optedOut
    /\ intent[For[s]].class = IF s \in Carts THEN "confirmed_abandonment"
                              ELSE "payment_failure_supported"

\* begin_..._hotmart_auto: the row of the phone is the budget.  A row of this very
\* event is a replay, which sends nothing either.
Begin(d) ==
    LET s == proc[d].src
        started == /\ command.source = None /\ Recoverable(s)
                   /\ s \in Failures => case[s] = "pending_human_review"
    IN
    /\ At(d, "beginning") /\ ~ proc[d].again
    /\ IF started
       THEN /\ Insert(s, "request_started")
            /\ case' = CaseAfter(s, "request_started")
            /\ Go(d, "sending")
       ELSE Rest(d) /\ UNCHANGED <<command, case>>
    /\ UNCHANGED <<intent, timer, cart, optedOut, takeover, sent, closed, faults>>

\* Mutant for OneFirstTouch: any unknown delivery of a payment may be tried again.
RetryOfAnyUnknown(e) ==
    /\ case[e] = "delivery_unknown" /\ command.source = e
    /\ command.status = "delivery_unknown" /\ command.retries = 0

\* The one failure that happened before any conversation, once.
Retryable(e) ==
    /\ case[e] = "delivery_unknown" /\ command.source = e
    /\ command.status = "delivery_unknown" /\ command.failure = "invalid_contact_id"
    /\ command.retries = 0

\* prepare_johanna_payment_failure_invalid_contact_retry
PrepareRetry(d) ==
    LET e == proc[d].src
        started == Retryable(e) /\ Recoverable(e)
    IN
    /\ At(d, "beginning") /\ proc[d].again
    /\ IF started
       THEN /\ command' = [command EXCEPT !.status = "request_started", !.failure = "none",
                                          !.retries = 1]
            /\ case' = CaseAfter(e, "request_started")
            /\ Go(d, "sending")
       ELSE Rest(d) /\ UNCHANGED <<command, case>>
    /\ UNCHANGED <<intent, timer, cart, optedOut, takeover, sent, closed, faults>>

(***************************************************************************)
(* The request to Chatwoot and its end, the same for the three routes.     *)
(***************************************************************************)
\* send_first_touch.  What fails may have created the message or not; a new contact
\* whose answer has no readable id comes before any message, and is not looked for
\* by a retry.
Post(p) ==
    /\ At(p, "sending")
    /\ \E reply \in {"sent", "failed", "invalid_contact_id"}, made \in 0..1 :
        /\ reply = "sent" => made = 1
        /\ reply = "invalid_contact_id" => made = 0 /\ ~ proc[p].again
        /\ proc' = [proc EXCEPT ![p].pc = "finishing", ![p].reply = reply]
        /\ sent' = [sent EXCEPT ![proc[p].src] = @ + made]
    /\ UNCHANGED <<records, closed, faults>>

Outcome(p) == IF proc[p].reply = "sent" THEN "accepted_by_chatwoot" ELSE "delivery_unknown"

\* Only the payment route keeps the reason as the sender gave it.
FailureCode(p) ==
    IF proc[p].reply = "sent" THEN "none"
    ELSE IF proc[p].src \in Failures /\ proc[p].reply = "invalid_contact_id"
    THEN "invalid_contact_id" ELSE "sender_failed"

\* An acceptance that could not be recorded is recorded as unknown, by the worker
\* only: a webhook answers 503.
AfterLoss(p) == IF p \in Workers /\ proc[p].reply = "sent" THEN Go(p, "salvaging") ELSE Rest(p)

RecordOutcome(p) ==
    /\ At(p, "finishing")
    /\ Finish(Outcome(p), FailureCode(p))
    /\ IF Refused(Outcome(p)) THEN AfterLoss(p) ELSE Rest(p)
    /\ UNCHANGED <<intent, timer, cart, optedOut, takeover, sent, closed, faults>>

RecordLost(p) ==
    /\ At(p, "finishing") /\ faults < MaxFaults
    /\ faults' = faults + 1
    /\ Finish(Outcome(p), FailureCode(p)) \/ UNCHANGED <<command, case>>
    /\ AfterLoss(p)
    /\ UNCHANGED <<intent, timer, cart, optedOut, takeover, sent, closed>>

Salvage(w) ==
    /\ At(w, "salvaging")
    /\ Finish("delivery_unknown", "acceptance_finalization_failed")
    /\ Rest(w)
    /\ UNCHANGED <<intent, timer, cart, optedOut, takeover, sent, closed, faults>>

\* The process dies, or an answer that let it go on is lost.
Die(p) ==
    /\ ~ At(p, "idle") /\ faults < MaxFaults
    /\ faults' = faults + 1
    /\ Rest(p)
    /\ \E made \in 0..(IF At(p, "sending") THEN 1 ELSE 0) :
        sent' = IF made = 0 THEN sent ELSE [sent EXCEPT ![proc[p].src] = @ + 1]
    /\ UNCHANGED <<records, closed>>

\* reconcile_johanna_abandonment_one_shot, by an operator who found the message.
Reconcile ==
    /\ command.status = "delivery_unknown" /\ sent[command.source] > 0
    /\ Write("accepted_by_chatwoot", "none")
    /\ UNCHANGED <<intent, timer, cart, optedOut, takeover, proc, sent, closed, faults>>

-----------------------------------------------------------------------------
WorkerStep(w) ==
    \/ \E f \in Forms : Reevaluate(w, f)
    \/ Authorize(w) \/ Post(w) \/ RecordOutcome(w) \/ Salvage(w)

DeskStep(d) ==
    \/ \E c \in Carts : AdmitCart(d, c)
    \/ \E e \in Failures : AdmitFailure(d, e)
    \/ Begin(d) \/ PrepareRetry(d) \/ Post(d) \/ RecordOutcome(d)

World ==
    \/ \E f \in Forms : Submit(f) \/ Elapse(f)
    \/ \E i \in Intents : Purchase(i)
    \/ OptOut \/ Takeover \/ Reconcile

Next ==
    \/ \E w \in Workers : WorkerStep(w)
    \/ \E d \in Desks : DeskStep(d)
    \/ \E p \in Procs : RecordLost(p) \/ Die(p)
    \/ World

Spec == Init /\ [][Next]_vars

\* An hour passes; the worker polls for ever and its calls time out.
Fairness ==
    /\ \A f \in Forms : WF_vars(Elapse(f))
    /\ \A w \in Workers : WF_vars(WorkerStep(w))

FairSpec == Spec /\ Fairness

-----------------------------------------------------------------------------
(* Properties *)

Stops == {"cancelled_purchased", "superseded_by_provider_event", "blocked_contact",
          "blocked_handoff"}
Outcomes == Stops \cup {"superseded_by_newer_precheckout", "budget_consumed",
                        "command_reserved"}
Reasons == Stops \cup {"none", "precheckout_inflight_recovered", "invalid_contact_id",
                       "sender_failed", "acceptance_finalization_failed"}

TypeOK ==
    /\ intent \in [Intents -> [life : {"waiting_for_purchase", "purchased"},
                               class : {"none", "confirmed_abandonment",
                                        "payment_failure_supported"}]]
    /\ timer \in [Forms -> {"absent", "not_scheduled", "scheduled", "due"} \cup Outcomes]
    /\ cart \in [Carts -> {"none", "resolved", "unmatched"}]
    /\ case \in [Failures -> {"none", "unmatched", "pending_human_review", "outbound_started",
                              "outbound_accepted", "delivery_unknown"}]
    /\ command \in [source : Sources \cup {None}, status : {"none"} \cup Open \cup Final,
                     failure : Reasons, retries : 0..1]
    /\ optedOut \in BOOLEAN /\ takeover \in BOOLEAN
    /\ proc \in [Procs -> [pc : {"idle", "authorizing", "beginning", "sending", "finishing",
                                 "salvaging"},
                           src : Sources \cup {None}, again : BOOLEAN,
                           reply : {"none", "sent", "failed", "invalid_contact_id"}]]
    /\ sent \in [Sources -> Nat]
    /\ closed \subseteq Intents
    /\ faults \in 0..MaxFaults

\* A phone gets one first template over the three routes: not a second one by a second
\* event, a delivery that comes again, another worker, the recovery of a request that
\* a death left in flight, or the retry of a payment.
OneFirstTouch ==
    \A s, t \in Sources : sent[s] <= 1 /\ (sent[s] = 1 /\ sent[t] = 1 => s = t)

\* What the ledger says is so: an accepted command has its message, a reserved one has
\* none yet, and the case of a rejected payment says what its command says.
RecordedTruth ==
    /\ command.status = "accepted_by_chatwoot" => sent[command.source] = 1
    /\ command.status \in {"none", "reserved"} => \A s \in Sources : sent[s] = 0
    /\ \A e \in Failures :
        IF command.source = e
        THEN case[e] = CaseOf(command.status)
        ELSE case[e] \in {"none", "unmatched", "pending_human_review"}

\* Who buys, or opts out, while nobody is sending to it is never sent a first template:
\* not from a reservation made before, not by the retry of a payment, not by an event
\* admitted before.
ClosedStaysQuiet ==
    [][\A s \in Sources : For[s] \in closed => sent'[s] = sent[s]]_vars

\* What the row of the phone says of each source: the first template is owed by the
\* source that has the row, until an acceptance is recorded.
Owed ==
    [s \in Sources |->
        IF command.source # s THEN "unasked"
        ELSE IF command.status = "accepted_by_chatwoot" THEN "published" ELSE "owed"]

\* The routes implement PublishOnce as the Slack connector does: a source that has the row
\* is published at most once, recorded as published only if it is, and a recorded acceptance
\* is final, whatever a late process or the recovery of a lost acceptance records after it.
Ledger == INSTANCE PublishOnce WITH
    Items <- Sources, outcome <- Owed, shown <- sent

LedgerSpec == Ledger!Spec

\* Every timer is decided, and a message it reserved comes to an end in the ledger,
\* whoever dies on the way; unless the purchase cancels the timer first, which takes a
\* command that is still open off the list for ever.
FirstTouchSettles ==
    \A f \in Forms :
        /\ timer[f] = "scheduled" ~> timer[f] \in Outcomes
        /\ command.source = f /\ command.status \in Open
              ~> command.status \in Final \/ Bought(For[f])

=============================================================================
