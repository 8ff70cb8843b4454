-------------------------- MODULE SlackNotifications --------------------------
(***************************************************************************)
(* The Slack connector's outbound path: the SQLite ledger of notifications *)
(* (slack_correlation/store.py), the single NotificationWorker that posts  *)
(* them (worker.py), and the readiness probe and the operator's            *)
(* reconciliation that halt and resume it (app.py).                        *)
(*                                                                         *)
(* Every method of the store is one BEGIN IMMEDIATE transaction and is one *)
(* action.  The worker is a program: each await between two store calls is *)
(* a value of worker.pc.  Slack is external: a request on the wire may be  *)
(* served at any time, also after the connector stopped waiting for it.    *)
(***************************************************************************)
EXTENDS Naturals, Sequences, FiniteSets

CONSTANTS
    Notifications,     \* what the bridges may ask to publish
    NoNotification,
    Subjects,          \* opaque subject references: one thread each
    NoSubject,
    SubjectOf,         \* [Notifications -> Subjects \cup {NoSubject}]
    Actionable,        \* root cards that open a correlation review
    Misrouted,         \* admitted under another team or channel binding
    Capacity,          \* max_nonterminal
    MaxGeneration,     \* bound: activation generations tried
    MaxCrashes,        \* bound: deaths of the process
    MaxRearms          \* bound: "not delivered" decisions of the operator

ASSUME ConstantsAssumption ==
    /\ IsFiniteSet(Notifications)
    /\ SubjectOf \in [Notifications -> Subjects \cup {NoSubject}]
    /\ NoSubject \notin Subjects
    /\ NoNotification \notin Notifications
    /\ Actionable \subseteq Notifications
    /\ Misrouted \subseteq Notifications
    /\ {Capacity, MaxGeneration, MaxCrashes, MaxRearms} \subseteq Nat

VARIABLES
    row,       \* the table notifications (state "absent": no row)
    order,     \* created_at of its rows
    meta,      \* the activation columns of connector_meta
    roots,     \* thread_roots: subject -> message_ts, 0 when there is none
    cards,     \* notifications with a row in correlation_projections
    slack,     \* external: the messages Slack shows; a ts is an index
    wire,      \* external: the post of each notification, still to be served or answered
    up,        \* the process: "down", "broken" (storage_ready is false), "up"
    worker,    \* the worker's program counter and locals
    halt,      \* NotificationWorker._halt_reason
    probe,     \* what /ready read before it halts the worker
    crashes, rearms

vars == <<row, order, meta, roots, cards, slack, wire, up, worker, halt, probe,
          crashes, rearms>>
store == <<row, order, meta, roots, cards>>
external == <<slack, wire>>
bounds == <<crashes, rearms>>

Nonterminal == {"pending", "claimed", "request_started", "delivery_unknown"}
States == {"absent", "accepted", "rejected"} \cup Nonterminal
Reasons == {"none", "connectivity", "delivery_unknown", "slack_rejected",
            "storage", "internal"}
NoWire == [state |-> "none", thread |-> 0, ts |-> 0]
Off == [pc |-> "off", n |-> NoNotification, claim |-> 0, thread |-> 0, ts |-> 0]
Idle == [Off EXCEPT !.pc = "idle"]

In(S) == {n \in Notifications : row[n].state \in S}
Unknown == In({"delivery_unknown"})
SubjectRoot(n) == IF SubjectOf[n] = NoSubject THEN 0 ELSE roots[SubjectOf[n]]

Init ==
    /\ row = [n \in Notifications |->
                [state |-> "absent", claim |-> 0, started |-> 0, ts |-> 0, thread |-> 0]]
    /\ order = <<>>
    /\ meta = [initialized |-> FALSE, mode |-> "inactive", generation |-> 0,
               consumed |-> 0, verified |-> FALSE]
    /\ roots = [s \in Subjects |-> 0]
    /\ cards = {}
    /\ slack = <<>> /\ wire = [n \in Notifications |-> NoWire]
    /\ up = "down" /\ worker = Off /\ halt = "none" /\ probe = "none"
    /\ crashes = 0 /\ rearms = 0

-----------------------------------------------------------------------------
(* The store's rules *)

\* Claims and request starts share this test; "continuous" has no budget.
BudgetLeft ==
    meta.initialized => /\ meta.mode # "inactive"
                        /\ meta.mode = "one_shot" => meta.consumed < 1

Started(n) ==
    [row EXCEPT ![n].state = "request_started",
                ![n].started = IF meta.initialized THEN meta.generation ELSE 0]

Consume == [meta EXCEPT !.consumed = IF meta.initialized THEN @ + 1 ELSE @]

\* The thread a message may be accepted into.
ThreadFits(n, thread) ==
    IF SubjectOf[n] = NoSubject THEN thread = 0 ELSE thread = roots[SubjectOf[n]]

\* Mutant: every accepted message becomes the root of its subject.
WithLatestRoot(n, ts) ==
    IF SubjectOf[n] # NoSubject THEN [roots EXCEPT ![SubjectOf[n]] = ts] ELSE roots

WithRoot(n, ts) ==
    IF SubjectOf[n] # NoSubject /\ SubjectRoot(n) = 0
    THEN [roots EXCEPT ![SubjectOf[n]] = ts] ELSE roots

Accepted(n, ts, thread) ==
    [row EXCEPT ![n].state = "accepted", ![n].ts = ts, ![n].thread = thread]

\* Mutant: recovery posts an interrupted request again.
RecoveredToPending(rows) ==
    [n \in Notifications |->
        IF rows[n].state \in {"request_started", "claimed"}
        THEN [rows[n] EXCEPT !.state = "pending"] ELSE rows[n]]

\* recover_incomplete: what the death of a process means for its claims.
Recovered(rows) ==
    [n \in Notifications |->
        CASE rows[n].state = "request_started" -> [rows[n] EXCEPT !.state = "delivery_unknown"]
          [] rows[n].state = "claimed" -> [rows[n] EXCEPT !.state = "pending"]
          [] OTHER -> rows[n]]

\* initialize: accepted root cards of actionable codes get their projection.
BackfilledCards ==
    cards \cup {n \in Actionable : /\ row[n].state = "accepted"
                                   /\ row[n].thread = 0 /\ SubjectOf[n] # NoSubject}

ActivationAllowed(mode, generation, rows) ==
    IF meta.initialized /\ generation <= meta.generation
    THEN generation = meta.generation /\ mode = meta.mode
    ELSE /\ \A n \in Notifications :
                rows[n].state \notin {"claimed", "request_started", "delivery_unknown"}
         /\ mode = "continuous" => /\ meta.initialized
                                   /\ meta.mode = "one_shot" /\ meta.verified

Activated(mode, generation) ==
    IF meta.initialized /\ generation = meta.generation THEN meta
    ELSE [initialized |-> TRUE, mode |-> mode, generation |-> generation,
          consumed |-> 0, verified |-> FALSE]

-----------------------------------------------------------------------------
(* The process: start, death, the worker's start *)

\* lifespan: initialize, recover_incomplete, configure_activation.  When the
\* activation is refused, recovery is already committed and storage is not ready.
Start(mode, generation) ==
    /\ up = "down"
    /\ row' = Recovered(row)
    /\ cards' = BackfilledCards
    /\ IF ActivationAllowed(mode, generation, row')
       THEN up' = "up" /\ meta' = Activated(mode, generation)
       ELSE up' = "broken" /\ UNCHANGED meta
    /\ UNCHANGED <<order, roots, external, worker, halt, probe, bounds>>

\* ensure_worker_started, from lifespan or from a later /ready.
StartWorker ==
    /\ up = "up" /\ worker.pc = "off"
    /\ row' = Recovered(row)
    /\ worker' = Idle
    /\ halt' = IF Unknown # {} THEN "delivery_unknown" ELSE "none"
    /\ UNCHANGED <<order, meta, roots, cards, external, up, probe, bounds>>

\* The process dies, or is deployed again.  Slack keeps what is on the wire.
Crash ==
    /\ up # "down" /\ crashes < MaxCrashes
    /\ up' = "down" /\ worker' = Off /\ halt' = "none" /\ probe' = "none"
    /\ crashes' = crashes + 1
    /\ UNCHANGED <<store, external, rearms>>

-----------------------------------------------------------------------------
(* Admission *)

\* admit: a new row; an exact replay or a conflict changes nothing.
Admit(n) ==
    /\ up = "up"
    /\ row[n].state = "absent"
    /\ Cardinality(In(Nonterminal)) < Capacity
    /\ row' = [row EXCEPT ![n].state = "pending"]
    /\ order' = Append(order, n)
    /\ UNCHANGED <<meta, roots, cards, external, up, worker, halt, probe, bounds>>

-----------------------------------------------------------------------------
(* NotificationWorker.run_once *)

Goto(pc) == worker' = [worker EXCEPT !.pc = pc]

\* halt(reason): connectivity does not hide another reason.
Halted(reason) ==
    IF reason = "connectivity" /\ halt # "none" THEN halt ELSE reason

\* Mutant: the worker trusts the halt flag and does not read the ledger.
PollBlind ==
    /\ up = "up" /\ worker.pc = "idle" /\ halt = "none"
    /\ Goto("polled")
    /\ UNCHANGED <<store, halt, external, up, probe, bounds>>

Poll ==
    /\ up = "up" /\ worker.pc = "idle" /\ halt = "none"
    /\ IF Unknown # {}
       THEN halt' = Halted("delivery_unknown") /\ UNCHANGED worker
       ELSE Goto("polled") /\ UNCHANGED halt
    /\ UNCHANGED <<store, external, up, probe, bounds>>

\* claim_next: the oldest pending row.
Oldest ==
    LET pending == {i \in DOMAIN order : row[order[i]].state = "pending"}
    IN  IF pending = {} THEN NoNotification
        ELSE order[CHOOSE i \in pending : \A j \in pending : i <= j]

Claim ==
    /\ worker.pc = "polled"
    /\ LET n == Oldest IN
       IF ~BudgetLeft \/ n = NoNotification
       THEN worker' = Idle /\ UNCHANGED row
       ELSE /\ row' = [row EXCEPT ![n].state = "claimed", ![n].claim = @ + 1]
            /\ worker' = [Idle EXCEPT !.pc = "claimed", !.n = n, !.claim = row[n].claim + 1]
    /\ UNCHANGED <<order, meta, roots, cards, external, up, halt, probe, bounds>>

Held(state) == row[worker.n].state = state /\ row[worker.n].claim = worker.claim

\* The tenant's route is checked and the thread of the subject is read.
Prepare ==
    /\ worker.pc = "claimed" /\ worker.n \notin Misrouted
    /\ worker' = [worker EXCEPT !.pc = "prepared", !.thread = SubjectRoot(worker.n)]
    /\ UNCHANGED <<store, external, up, halt, probe, bounds>>

\* A route that does not match stops the worker; release_claim gives it back.
PrepareFails ==
    /\ worker.pc = "claimed" /\ worker.n \in Misrouted
    /\ halt' = Halted("internal")
    /\ worker' = Idle
    /\ row' = IF Held("claimed") THEN [row EXCEPT ![worker.n].state = "pending"] ELSE row
    /\ UNCHANGED <<order, meta, roots, cards, external, up, probe, bounds>>

\* mark_request_started: the budget is spent in the transaction that starts.
MarkRequestStarted ==
    /\ worker.pc = "prepared" /\ BudgetLeft /\ Held("claimed")
    /\ row' = Started(worker.n)
    /\ meta' = Consume
    /\ Goto("started")
    /\ UNCHANGED <<order, roots, cards, external, up, halt, probe, bounds>>

\* The transaction failed; the claim is given back if the storage answers.
MarkFails ==
    /\ worker.pc = "prepared"
    /\ halt' = Halted("storage")
    /\ \/ row' = IF Held("claimed") THEN [row EXCEPT ![worker.n].state = "pending"] ELSE row
       \/ UNCHANGED row
    /\ worker' = Idle
    /\ UNCHANGED <<order, meta, roots, cards, external, up, probe, bounds>>

PostMessage ==
    /\ worker.pc = "started"
    /\ wire' = [wire EXCEPT ![worker.n] =
                  [NoWire EXCEPT !.state = "sent", !.thread = worker.thread]]
    /\ Goto("waiting")
    /\ UNCHANGED <<store, slack, up, halt, probe, bounds>>

\* External: Slack publishes the message, or answers ok=false.
SlackPublishes(n) ==
    /\ wire[n].state = "sent"
    /\ slack' = Append(slack, [n |-> n, thread |-> wire[n].thread])
    /\ wire' = [wire EXCEPT ![n].state = "ok", ![n].ts = Len(slack) + 1]
    /\ UNCHANGED <<store, up, worker, halt, probe, bounds>>

SlackRefuses(n) ==
    /\ wire[n].state = "sent"
    /\ wire' = [wire EXCEPT ![n].state = "refused"]
    /\ UNCHANGED <<store, slack, up, worker, halt, probe, bounds>>

\* External: nothing is left in the network of a request nobody waits for.
WireDrained(n) ==
    /\ wire[n].state # "none" /\ ~(worker.pc = "waiting" /\ worker.n = n)
    /\ wire' = [wire EXCEPT ![n] = NoWire]
    /\ UNCHANGED <<store, slack, up, worker, halt, probe, bounds>>

AnswerAccepted ==
    /\ worker.pc = "waiting" /\ wire[worker.n].state = "ok"
    /\ worker' = [worker EXCEPT !.pc = "accepted", !.ts = wire[worker.n].ts]
    /\ wire' = [wire EXCEPT ![worker.n] = NoWire]
    /\ UNCHANGED <<store, slack, up, halt, probe, bounds>>

AnswerRejected ==
    /\ worker.pc = "waiting" /\ wire[worker.n].state = "refused"
    /\ Goto("rejected")
    /\ wire' = [wire EXCEPT ![worker.n] = NoWire]
    /\ halt' = Halted("slack_rejected")
    /\ UNCHANGED <<store, slack, up, probe, bounds>>

\* Timeout, transport error, unverifiable answer or cancellation.
AnswerLost ==
    /\ worker.pc = "waiting"
    /\ Goto("unknown")
    /\ halt' = Halted("delivery_unknown")
    /\ UNCHANGED <<store, external, up, probe, bounds>>

FinalizeAccepted ==
    /\ worker.pc = "accepted"
    /\ Held("request_started") /\ ThreadFits(worker.n, worker.thread)
    /\ row' = Accepted(worker.n, worker.ts, worker.thread)
    /\ roots' = WithRoot(worker.n, worker.ts)
    /\ cards' = IF worker.n \in Actionable /\ worker.thread = 0 /\ SubjectOf[worker.n] # NoSubject
                THEN cards \cup {worker.n} ELSE cards
    /\ worker' = Idle
    /\ UNCHANGED <<order, meta, external, up, halt, probe, bounds>>

\* The storage failed, or the thread is not the subject's: nobody knows any more.
FinalizeAcceptedFails ==
    /\ worker.pc = "accepted"
    /\ halt' = Halted("delivery_unknown")
    /\ Goto("unknown")
    /\ UNCHANGED <<store, external, up, probe, bounds>>

FinalizeRejected ==
    /\ worker.pc = "rejected" /\ Held("request_started")
    /\ row' = [row EXCEPT ![worker.n].state = "rejected"]
    /\ worker' = Idle
    /\ UNCHANGED <<order, meta, roots, cards, external, up, halt, probe, bounds>>

FinalizeUnknown ==
    /\ worker.pc = "unknown" /\ Held("request_started")
    /\ row' = [row EXCEPT ![worker.n].state = "delivery_unknown"]
    /\ worker' = Idle
    /\ UNCHANGED <<order, meta, roots, cards, external, up, halt, probe, bounds>>

\* The last transaction fails too: the row stays started until the next start.
FinalizeFails ==
    /\ worker.pc \in {"rejected", "unknown"}
    /\ worker' = Idle
    /\ UNCHANGED <<store, external, up, halt, probe, bounds>>

-----------------------------------------------------------------------------
(* /ready and the operator *)

\* resume_after_verified_connectivity: one synchronous step of the event loop.
Resumed(rows) ==
    IF halt \notin {"none", "connectivity", "delivery_unknown"} THEN halt
    ELSE IF \E n \in Notifications : rows[n].state = "delivery_unknown"
         THEN "delivery_unknown" ELSE "none"

VerifyAuth ==
    /\ up = "up" /\ worker.pc # "off"
    /\ halt' \in {Halted("connectivity"), Resumed(row)}
    /\ UNCHANGED <<store, external, up, worker, probe, bounds>>

\* /ready reads an unknown delivery in a thread and halts the worker afterwards.
ReadyReads ==
    /\ up = "up" /\ Unknown # {}
    /\ probe' = "unknown"
    /\ UNCHANGED <<store, external, up, worker, halt, bounds>>

ReadyHalts ==
    /\ probe = "unknown"
    /\ probe' = "none"
    /\ halt' = IF worker.pc # "off" THEN Halted("delivery_unknown") ELSE halt
    /\ UNCHANGED <<store, external, up, worker, bounds>>

\* The endpoint resumes the worker in a step after the commit; connectivity
\* may have been lost meanwhile, so this step may also not happen.
ResumeAfterReconcile ==
    halt' \in IF worker.pc = "off" THEN {halt} ELSE {halt, Resumed(row')}

\* The operator looks at Slack: a message of n that no row accounts for.
ReconcileDelivered(n, ts) ==
    /\ up = "up" /\ row[n].state = "delivery_unknown"
    /\ ts \in DOMAIN slack /\ slack[ts].n = n
    /\ ThreadFits(n, slack[ts].thread)
    /\ row' = Accepted(n, ts, slack[ts].thread)
    /\ roots' = WithRoot(n, ts)
    /\ ResumeAfterReconcile
    /\ UNCHANGED <<order, meta, cards, external, up, worker, probe, bounds>>

\* Mutant: a rearmed notification does not give its budget back.
RearmKeepingBudget(n) ==
    /\ up = "up" /\ row[n].state = "delivery_unknown"
    /\ \A ts \in DOMAIN slack : slack[ts].n # n
    /\ wire[n].state = "none"
    /\ rearms < MaxRearms /\ rearms' = rearms + 1
    /\ row' = [row EXCEPT ![n].state = "pending", ![n].started = 0]
    /\ ResumeAfterReconcile
    /\ UNCHANGED <<order, meta, roots, cards, external, up, worker, probe, crashes>>

\* The operator sees no message and no request that could still publish one.
ReconcileNotDelivered(n) ==
    /\ up = "up" /\ row[n].state = "delivery_unknown"
    /\ \A ts \in DOMAIN slack : slack[ts].n # n
    /\ wire[n].state = "none"
    /\ rearms < MaxRearms /\ rearms' = rearms + 1
    /\ row' = [row EXCEPT ![n].state = "pending", ![n].started = 0]
    /\ meta' = IF /\ row[n].started # 0 /\ meta.mode = "one_shot"
                  /\ meta.generation = row[n].started /\ meta.consumed > 0
               THEN [meta EXCEPT !.consumed = @ - 1, !.verified = FALSE] ELSE meta
    /\ ResumeAfterReconcile
    /\ UNCHANGED <<order, roots, cards, external, up, worker, probe, crashes>>

MarkActivationVerified ==
    /\ up # "down" /\ meta.mode = "one_shot" /\ meta.consumed = 1
    /\ \E n \in Notifications : row[n].started = meta.generation /\ row[n].state = "accepted"
    /\ meta' = [meta EXCEPT !.verified = TRUE]
    /\ UNCHANGED <<row, order, roots, cards, external, up, worker, halt, probe, bounds>>

-----------------------------------------------------------------------------
WorkerStep ==
    \/ Poll \/ Claim \/ Prepare \/ PrepareFails
    \/ MarkRequestStarted \/ MarkFails \/ PostMessage
    \/ AnswerAccepted \/ AnswerRejected \/ AnswerLost
    \/ FinalizeAccepted \/ FinalizeAcceptedFails
    \/ FinalizeRejected \/ FinalizeUnknown \/ FinalizeFails

Ready == VerifyAuth \/ ReadyReads \/ ReadyHalts

Operator ==
    \/ \E n \in Notifications : ReconcileNotDelivered(n)
    \/ \E n \in Notifications : \E ts \in DOMAIN slack : ReconcileDelivered(n, ts)
    \/ MarkActivationVerified

Next ==
    \/ \E mode \in {"one_shot", "continuous"}, g \in 1..MaxGeneration : Start(mode, g)
    \/ StartWorker \/ Crash
    \/ \E n \in Notifications : Admit(n)
    \/ WorkerStep
    \/ \E n \in Notifications : SlackPublishes(n) \/ SlackRefuses(n) \/ WireDrained(n)
    \/ Ready \/ Operator

Spec == Init /\ [][Next]_vars

-----------------------------------------------------------------------------
(* Properties *)

Row == [state : States, claim : Nat, started : 0..MaxGeneration, ts : Nat, thread : Nat]
Activation == [initialized : BOOLEAN, mode : {"inactive", "one_shot", "continuous"},
               generation : 0..MaxGeneration, consumed : Nat, verified : BOOLEAN]
Request == [state : {"none", "sent", "ok", "refused"}, thread : Nat, ts : Nat]
Worker == [pc : {"off", "idle", "polled", "claimed", "prepared", "started",
                 "waiting", "accepted", "rejected", "unknown"},
           n : Notifications \cup {NoNotification}, claim : Nat, thread : Nat, ts : Nat]

TypeOK ==
    /\ row \in [Notifications -> Row]
    /\ order \in Seq(Notifications) /\ Len(order) <= Cardinality(Notifications)
    /\ meta \in Activation
    /\ roots \in [Subjects -> Nat]
    /\ cards \subseteq Notifications
    /\ slack \in Seq([n : Notifications, thread : Nat])
    /\ wire \in [Notifications -> Request]
    /\ up \in {"down", "broken", "up"} /\ worker \in Worker
    /\ halt \in Reasons /\ probe \in {"none", "unknown"}
    /\ crashes \in 0..MaxCrashes /\ rearms \in 0..MaxRearms

\* The activation columns account for the rows, as _validate_database demands of
\* every backup: a one-shot generation was consumed by exactly one row, which is
\* accepted once the operator has verified it.  Retries, crashes, reconciliations
\* and new generations all move one side of it.
ActivationAccounted ==
    meta.mode = "one_shot" =>
        LET spent == {n \in Notifications : row[n].started = meta.generation} IN
        /\ meta.consumed = Cardinality(spent) /\ meta.consumed <= 1
        /\ meta.verified => \E n \in spent : row[n].state = "accepted"

\* The threads account for the accepted rows, as _validate_database demands: every
\* accepted message of a subject is its root or answers in its thread, each root is
\* an accepted message, only accepted roots have a card, and a message that Slack
\* has just accepted can be recorded.
ThreadsAccounted ==
    /\ \A n \in In({"accepted"}) : SubjectOf[n] # NoSubject =>
            \/ row[n].ts = SubjectRoot(n) /\ row[n].thread = 0
            \/ row[n].thread = SubjectRoot(n) /\ row[n].thread # 0
    /\ \A s \in Subjects : roots[s] # 0 =>
            \E n \in In({"accepted"}) :
                SubjectOf[n] = s /\ row[n].ts = roots[s] /\ row[n].thread = 0
    /\ \A n \in cards : row[n].state = "accepted" /\ row[n].ts = SubjectRoot(n)
    /\ worker.pc = "accepted" => ThreadFits(worker.n, worker.thread)

\* A request is started only while no delivery is unknown: the contract says that any
\* durable delivery_unknown stops the whole output until the operator decides, across
\* restarts and connectivity checks.
UnknownStopsOutput ==
    [][\A n \in Notifications :
            row[n].state # "request_started" /\ row'[n].state = "request_started"
                => Unknown = {}]_vars

\* What the ledger says of each notification, and how often Slack shows it.
Outcome ==
    [n \in Notifications |->
        CASE row[n].state = "absent" -> "unasked"
          [] row[n].state \in Nonterminal -> "owed"
          [] row[n].state = "accepted" -> "published"
          [] OTHER -> "refused"]

Shown == [n \in Notifications |-> Cardinality({ts \in DOMAIN slack : slack[ts].n = n})]

\* The connector implements PublishOnce: what Slack shows and what the ledger says
\* follow the abstract promise, whatever is lost, late or interrupted.
Ledger == INSTANCE PublishOnce WITH
    Items <- Notifications, outcome <- Outcome, shown <- Shown

LedgerSpec == Ledger!Spec

-----------------------------------------------------------------------------
(* The inductive invariant behind them *)

\* Each notification was admitted once.
OrderSound ==
    /\ \A i, j \in DOMAIN order : order[i] = order[j] => i = j
    /\ \A i \in DOMAIN order : row[order[i]].state # "absent"

\* While the worker has something in hand it holds its row, no delivery is unknown
\* and no root was created since it read its thread.
WorkerHolds ==
    /\ up # "up" => worker.pc = "off"
    /\ worker.pc \notin {"off", "idle"} => Unknown = {}
    /\ worker.pc \notin {"off", "idle", "polled"} => worker.n \in Notifications
    /\ worker.pc \in {"claimed", "prepared"} => Held("claimed")
    /\ worker.pc \in {"started", "waiting", "accepted", "rejected", "unknown"} =>
            Held("request_started")
    /\ worker.pc \in {"prepared", "started", "waiting", "accepted"} =>
            worker.thread = SubjectRoot(worker.n)

\* What is on the wire, what Slack shows and what the row says fit together.
WireSound(n) ==
    /\ row[n].state \in {"absent", "pending", "claimed", "rejected"} =>
            wire[n].state = "none" /\ Shown[n] = 0
    /\ row[n].state = "accepted" => Shown[n] = 1
    /\ wire[n].state \in {"sent", "refused"} => Shown[n] = 0
    /\ wire[n].state = "ok" => Shown[n] = 1 /\ wire[n].ts # 0
    /\ Shown[n] \in {0, 1}

AnswerSound ==
    /\ worker.pc \in {"started", "rejected"} => wire[worker.n].state = "none" /\ Shown[worker.n] = 0
    /\ worker.pc = "accepted" => Shown[worker.n] = 1 /\ worker.ts # 0

DeliverySound == (\A n \in Notifications : WireSound(n)) /\ AnswerSound

\* The budget: rows belong to past generations or to the present one.
BudgetSound ==
    /\ meta.initialized <=> meta.mode # "inactive"
    /\ meta.initialized <=> meta.generation # 0
    /\ \A n \in Notifications : row[n].started <= meta.generation
    /\ ActivationAccounted

\* The threads: accepted messages are numbered.
ThreadSound ==
    /\ \A n \in In({"accepted"}) : row[n].ts # 0
    /\ ThreadsAccounted
=============================================================================
