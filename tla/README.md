# A verification project for the appointment setter

TLA+ models of the parts of this repository where processes, workers, webhooks,
operators and remote services interleave; TLC runs that check them on small
instances; and TLAPS proofs of their safety for every size. Every definition is
translated from the code and the SQL under `src/`; `PROJECT.json` names, for each
definition, the lines it stands for, and lists the components, the runs, the
mutants that show each property can fail, the hazards, the findings and the
theorems.

## 1. Inventory

### 1.1 The system

One *bridge* process (`src/src/bridge`, FastAPI under a single uvicorn worker)
receives webhooks from Chatwoot and Hotmart, answers buyers through the Hermes
agent, and runs the background workers of `worker.py`. Its authority is a
Postgres database behind PostgREST: the RPCs of `src/supabase/migrations/*.sql`
lock rows in one order (contact, case, sequence, action, attempt) and are atomic.
Chatwoot is the remote side whose answers may be lost. A second process, the
*Slack connector* (`src/src/slack_correlation`), keeps its own SQLite store. A
third serves the daily feedback.

| component | state it keeps | operations | correct when |
|---|---|---|---|
| Chatwoot inbox (`chatwoot_inbox.py`) | one JSON file per delivery, group-failure journals, `flock`s | admit, recover a stalled conversation, group and handle, complete, fail a group, replay a journal | nothing admitted is lost, nothing is completed unanswered, an older message is not answered after a newer one, journals can always be replayed |
| Inbound turn (`app.py`, `chatwoot.py`, `checkout_delivery.py`) | Chatwoot's labels and messages, the reply journal, the agent's persisted result, issuances of links | one turn: admission, resumption, stop, agent, reply in parts, link, handoff | each part once and in order; a stop is never lost; every message is answered or closed |
| Human handoff (`20260810000400`, `20260924000100`, `20260825000500`, `20261001000500`, `worker.py`, `chatwoot.py`) | requests, two projection effects each, leases; assignee and notes in Chatwoot | request, claim, project, finalize, attend, resume | one private note, requests that say what their effects say, no automation under a live request |
| Follow-up engine (`worker.py` `DurableDispatcher`, `20260803000100` and its later migrations) | case, sequence, scheduled actions, delivery attempts, leases | plan, claim, re-evaluate, reserve, start, send, finalize, reconcile, stop, sweep | no step reaches the buyer twice, an unknown delivery blocks the next one, a stop leaves no work |
| First touch (`worker.py` `HotmartAbandonmentTimerWorker`, `app.py`, `20260825000400`–`20260829000400`) | one command row per phone, timers of forms, cases of rejected payments | schedule, re-evaluate and reserve, start, send, finish, retry one proven failure, reconcile | one first template per phone, none after a purchase or an opt-out |
| Hotmart purchases (`20260808*`, `20261019000300`) | purchase event, case outcome | stop the case, in any order with the plan | a purchase ends the case whenever it comes |
| Opt-out (`20260809000100`, `worker.py`, `opt_out.py`) | opt-out events, permission, projection of a macro | record, apply, project, confirm | no request starts after an opt-out, even an unmatched one |
| Pilot boundary (`20260810000100`, `20260930000300`, `20261007000100`) | arming, total and daily budgets, contact cap | authorize a request start | budgets and caps hold with concurrent starts |
| Resolution worker (`worker.py`, `resolution.py`, `native_flows.py`, `purchase_agent_pause.py`) | webhook events, queue of native purchases, failure counts in memory | at-least-once processing of carts and purchases | every event ends, in one case at most; no pause of a buyer a flow took |
| Purchase correlation (`operator_correlation_resolutions.py`, `202608200001`, `202609160001`) | correlation cases, pre-resolutions with leases | correlate, pre-resolve, resolve by an operator | one resolution per case |
| Slack connector, notifications (`store.py`, `worker.py`, `app.py`) | notifications, budget, threads, halts | admit, claim, start, post, finalize, recover, reconcile | one post per notification, the budget is what was spent |
| Slack connector, reviews (`store.py`, `interactions.py`, `app.py`) | review sessions, opening jobs, the card | open, prepare, confirm, finish, project, backfill | one modal per click, nothing applied is lost, the resolution reaches the card |
| Daily feedback (`daily_feedback*.py`, `2026091*`) | runtime file of a batch, decision artifacts | claim, reserve, deliver, reconcile, decide, recover | the store accepts its own files, a decision cut short can be recovered |
| Coupons, checkout issuance (`recovery_coupons.py`, `checkout_issuance.py`) | leases on external creations | issue, reconcile | one creation per case |
| Reactivation, flows, templates, segments, audio, provenance, deployment | little or none | mostly pure or one statement each | see `PROJECT.json` |

How they interact: the inbox hands batches to the inbound turn, which may request
a handoff (RPC) or record an opt-out (RPC); both stop the recovery case that the
dispatcher is working on. Purchases stop it too. The conversation is shared by
the inbound agent and the recovery case: a handoff of one pauses the other. The
handoff's projection worker writes to the same Chatwoot conversation as people.
The resolution worker opens the cases the follow-up engine works on and tells it
of purchases; the first touch is an older route to the same buyers and shares
their opt-outs and takeovers. The bridge publishes through the Slack connector,
which applies the operator's decisions through the bridge.

What is hard to test here: a lease that lapses while its holder waits for
Chatwoot; a request whose answer is lost, or that lands after its sender gave up;
a purchase, an opt-out, a handoff or a repeated failure between the start of a
request and its finalization; a crash between two files of the inbox, of the
reply journal or of the feedback store; two processes during a deploy; a
reconciliation many states later; what one call validated and another changed
before it took the lock. `PROJECT.json` lists the hazards at their lines with
the properties that would catch them.

### 1.2 What each module models

| component | module | status |
|---|---|---|
| Chatwoot inbox | `ChatwootInbox` | modelled |
| Slack notification store and worker | `SlackNotifications`, abstractly `PublishOnce` | modelled |
| Slack review interactions | `SlackReview` | partly |
| Human handoff | `HumanHandoff` (the stop of a recovery case: `FollowupEngine`) | partly |
| Follow-up engine | `FollowupEngine` | partly |
| Purchases, opt-out | `FollowupEngine` (their effect on the first touch: `FirstTouch`) | partly |
| Inbound turn, links | `InboundTurn` | partly |
| Resolution worker, agent pause | `Resolution` | partly |
| Daily feedback | `DailyFeedback` | partly |
| First touch | `FirstTouch` | partly |
| the others | — | not modelled, with the reason in `PROJECT.json` |

## 2. Modules

Each component has a module with its specification and properties, an `MC…`
module with the small instances, one `.cfg` per run, and mostly a `…Proofs`
module. An operator introduced as *Mutant of X* (or *for* a property) is a
plausible bug in the operator that follows it: substituted for that one, it must
break the property `PROJECT.json` pairs it with.

The modules are not composed into one: what the environment of each may do (a
purchase, an opt-out, a person, a crash) is an unconstrained action, so each
holds beside whatever the others do. `SlackNotifications` is shown to implement
an abstract specification.

### 2.1 ChatwootInbox

`file[d]` is the envelope of delivery `d` (status, attempts, the one clock that
still runs, recovery admissions); `journal[l]` is `.group-failure-<l>.json`;
`proc[p]` is where the worker of process `p` stands; `later` orders admissions.
The history variable `answered` records what the properties need.
The worker's only `await` is the handler, so between two awaits only a crash or
another process may step in: one action per file operation where a crash matters
(`OpenJournal`, `ReplayMember`, `CloseJournal`, `CompleteMember`), one for the
rest. `Scan` and `ReplayMember` are `reconcile_group_failures`, `Lock` the
`flock` with its second reconciliation, `StartHandler`/`HandlerReturns`/
`HandlerFails` the turn with its retry, its budget of attempts and the group
failure, `AdmitRecovery` the stalled-conversation monitor.
Abstracted: payloads, permissions and `fsync` (a rename is atomic and durable).
Two processes over one directory are modelled because a deploy overlaps them.

### 2.2 HumanHandoff

One inbound conversation. `reqs[r]` are its handoff requests, `eff[r][k]` the two
projection effects with lease, generation and retry time, `wk[w]` the batch of a
worker; `assignee`, `notes`, `flying` (a post whose connection was lost and that
may still land) are Chatwoot; `answered`, `webhook` are people. A worker claims a
batch and works through it with calls in between: `ReadOwner`/`Assign`/
`ConfirmOwner` for the assignment, `ScanNote`/`PostNote` for the note, then
`Finalize`, which the database fences by worker, generation and lease. One
worker_id per deployment means the generation alone tells leases apart.
`Resume` is the resumption with its gate on live and unattended requests.
Abstracted: case and conversation pause together; the inbox lock serialises what
the inbound turn does to one conversation, so `RequestHandoff`, `PersonWebhook`
and `Resume` are atomic; waiting webhooks of people coalesce into one; labels,
quiet period and policy of the resumption are a free choice; `gen` stands for
`attempt_count` too, which moves with it; the assignment call is assumed to keep
a person (Chatwoot's side, external).

### 2.3 FollowupEngine

One recovery case `rc`, its sequence `seq`, `act[i]` the action of step `i`,
`att[i][g]` its delivery attempt under lease generation `g` (the database's
unique key), `wk[w]` a dispatcher, the buyer (`optOut`, `purchase`,
`conversation`, `replied`), `timeUp` (every step shares the deadline) and
counters. Each RPC is one action; a dispatcher is the chain
`Claim → Reevaluate → Reserve → ReadClock → Final → MarkRequestStarted → Post →
Finalize…`, and `Abandon` stops it after any link (an exception or a death: the
lease stays until it lapses).

What happens in the code and where it is here:

- planning, also when the purchase came first: `PlanRecovery`,
  `StopForKnownPurchase`, `FailClosedAmbiguousKnownPurchase`;
- leases: `Claim` skips an action with a request in flight, `LeaseLapses`,
  `SweepExpired`;
- the decision of `reevaluate_followup_action`, in its order: `Decide`
  (expire, cancel, pause, escalate, defer) and `MayExecute`;
- clocks: a dispatcher passes one `now` to claim, first re-evaluation and
  reservation, a second (`final_now`) to the last re-evaluation and the
  finalization, and the request start and the early failure read it again;
  hence `late`, set by `ReadClock`, and fences that look at `lease` only where
  the clock is fresh;
- the request: `MarkRequestStarted` (every fence, and any opt-out), `Post` with
  every outcome, among them delivered but unknown;
- outcomes: `FinalizeSent` (acceptance, successor or end of the sequence),
  `FinalizeUnknown`, `FinalizeBlocked`; each depends on whether the world still
  is what it was (`Authoritative`);
- stops: `ApplyPurchase`, `AmbiguousPurchase`, `ApplyOptOut`, `HandoffByOperator`,
  `HandoffByAgent`, `CloseForSegmentCoupon`, `RunTerminated` (the flow was turned
  off), all of which settle attempts in flight except `RepeatPaymentFailure`,
  which moves the version only;
- the operator: `ReconcileAccepted`, `ReconcileNotApplied`, `ReconcileEscalated`.

Abstractions. One case: a cart's repetition fails with
`pilot_case_binding_conflict` (`MaxRepeats = 0`), a payment failure joins the case.
The evidence of Chatwoot is a choice within the decision, except the reply after
the anchor and the pause, which other actions set. Unreachable branches
(message limit and `won` in the re-evaluation; `last_inbound_at`, which no code
writes) are left out. Refusals of the pilot boundary and of the checkout leave the
attempt reserved or started as the code does (`Abandon`, `Post` undelivered and
unknown). The operator is right about what Chatwoot shows (`delivered`).
`permanent_failed` and a retry beyond the deadline leave case and sequence open,
as in the code.

### 2.4 SlackNotifications and PublishOnce

The connector's outbound path. `row`, `order`, `meta` (the activation and its
budget), `roots` (threads) and `cards` are the SQLite tables; every method of the
store is one `BEGIN IMMEDIATE` transaction and one action. `worker.pc` is the
`NotificationWorker` between two awaits, `halt` its `_halt_reason`, `probe` what
`/ready` has read before it halts. `slack` and `wire` are external: a request may be
served after the connector stopped waiting for it. `Start` is the lifespan
(initialize, recover, activate, or fail to activate with the recovery committed),
`Crash` a death or a deploy, `ReconcileDelivered`/`ReconcileNotDelivered` the
operator, who looks at Slack first.
`PublishOnce` is the promise: each notification is shown at most once, recorded as
published only if it is shown and as refused only if it is not, and a recorded outcome is
final. `LedgerSpec` is its `Spec` under `outcome <- Outcome, shown <- Shown`, where a row
that is pending, claimed, started or unknown still owes its outcome.
Abstracted: the rendering of a message, the file lock, the restore of a backup.

### 2.5 SlackReview

One card. `session[s]` is a review session with its opening job, `card` the state of
its projection, `worker` the `CorrelationInteractionWorker` with the list of its
round, `backfill` the operator's request, `up` the process with the two ways of
starting it (`LateStart` recovers the ledger while the interaction worker is off).
`view`, `opens`, `shown`, `updates` are Slack, `bridge` the commands it prepared and
the resolution it applied. `AdmitOpen`/`AdmitPrepare`/`AdmitConfirm` are the clicks;
the worker's actions are the awaits of `_open`, `_prepare`, `_confirm`,
`_finish_resolution`; `Prune` and `Expire` the history.
Abstracted: which candidate a decision names and on which evidence; replayed clicks,
which change nothing; one decision per session.

### 2.6 InboundTurn

One conversation of an instance with a manifest: every optional step of the turn is
on. `log`, `label`, `assignee`, `wire` are Chatwoot, `journal` the reply journal,
`proposal` the agent's persisted result, `issuance` the ledger of links,
`human`/`unattended`/`requested`/`resumedBy`/`optedOut` the base. `turn.pc` is an
await of `process_chatwoot_work`: admission, resumption (`LookAtPause`, `Lift`,
`ClearLabel`, `Readmit`), stop (`History`, `Confirm`), `Agent`, and for each part
`Authorise`, `Look`, `Read`, `PostPart`; a link adds `Reserve`, `StartLink`,
`AcceptLink`/`LinkUnknown`/`WhyNotSent`; a handoff `Notice`, `RequestHandoff`,
`PauseConversation`. `ChatwootInbox` is reduced to what it promises: turns one at a
time, everything pending is the batch, a failed turn is handed over again or given up.
Abstracted: quiet time of the team (any), the agent's text (a reply of one part, of
several, a handoff or a link), two parts stand for the splitter's two to four.

### 2.7 Resolution

One buyer and one product. `status` is `webhook_events`, `case`/`open`/`joined` the
recovery cases, `queue` the native purchases, `on` the flows the team has turned on,
`seen` what the worker last read of them, `failures`/`forced` its counts in memory,
`w` the event in hand. Nothing is leased. Each call has three ends: answered, done
with its answer lost, not done; an admission whose caller gave up stays in `late` until
the base applies it. `TakeCart`/`AdmitCart`/`Plan`/`Mark` are a cart,
`Note`/`Apply`/`Refuse`/`AdmitPurchase`/`Finish`/`Close`/`Pause` a purchase, received
or queued; `Restart` empties the memory; `EditFlow` is the team.
Left out: queue rows older than 72 hours, payment failures and slips, the legacy
immediate path of an instance without the engine, contact lookups.

### 2.8 DailyFeedback

The fixture store of one batch. `run` is the runtime file, `published` and `intent`
the artifacts of decisions, `publishing` the `flock` held by a live process. Commands
on an attempt validate the store *before* the lock (`Find`) and apply under it; the
others validate under it. `Valid` is `_validate_runtime_binding`. A decision is
`Decide`, `WriteArtifact`…, `ReplaceRuntime`, `WriteCommit`, and `RecoverDecision` after
`Die`. Its own names (`FeedbackSpec`, `ReviewSession`, …) are apart from those of
`SlackReview`, because one proof module extends both. Abstracted: documents and digests (an image of the runtime is the runtime),
leases and grants (whatever one permits may also not happen).

### 2.9 FirstTouch

The row of one phone (`command`) and the three routes to it. The timer worker:
`Reevaluate → Authorize → Post → RecordOutcome`, with `Salvage` when the acceptance
could not be recorded. The webhook: `AdmitCart` or `AdmitFailure`, then `Begin` or
`PrepareRetry → Post → RecordOutcome`. `intent`, `timer`, `cart`, `case`, `optedOut`,
`takeover` are what they check; `sent` is what Chatwoot created, `Die` a death or a
lost answer, `Reconcile` the operator.
Left out: ambiguous correlations, identity, scope and consent checks, dispositions,
remote identifiers, the timers of Hotmart events, the 24-hour window, the batch
limit, and a POST that lands after its sender died.
The routes implement `PublishOnce` too: `Owed` is what the row of the phone says of
each source, and an unknown delivery stays owed until an operator finds its message.

## 3. Runs

| run | instance | what it shows |
|---|---|---|
| `inbox` | 2 processes, a message and the recovery of a newer one, 2 attempts, 3 admissions, 2 crashes | completed means answered, no older message replayed after a newer one, a group fails whole, every admission ends |
| `followup_cart` | 2 dispatchers, 2 messages, 2 claims per action, 1 retry, 1 handoff | one delivery per action, unknown blocks sends, stops leave nothing |
| `followup_payment` | 1 dispatcher, 1 message, 3 claims, 1 retry, 1 repetition, 1 handoff | every action settles though dispatchers die and the version moves under it |
| `handoff_notes` | 2 workers that keep their leases, 2 attempts, 1 death, 1 resumption | one note, every effect settles |
| `handoff_slow` | 2 workers, leases lapse under them | requests summarise effects, a live request keeps its conversation paused |
| `slack_notifications` | a root, its reply, one alone and one of another route; capacity 2, 2 generations, 1 crash, 1 rearm | budget and threads accounted for, unknown stops the output, implements `PublishOnce` |
| `slack_review` | 2 sessions, 1 crash | one opening, nothing applied is lost, the resolution reaches the card |
| `slack_confirm` | 1 session, 2 crashes; violation | the finding of 4.1 |
| `inbound_turn` | 2 messages, replies in 2 parts, 1 resumption, 2 faults, 1 act of the team | parts once and in order, at most one part after the team, no stop unrecorded, links accounted, every message ends |
| `resolution` | 2 carts, 1 purchase, 1 attempt, 1 fault, 1 edit | no two cases, stop before welcome, who a flow took is not paused, all work ends |
| `feedback` | 2 items, 2 owners, 2 calls, 2 sessions, 2 observations, 1 crash | the store accepts its files, decisions recoverable, delivered once, nothing undone |
| `first_touch` | 2 forms, a cart, a rejected payment of another intent; 2 workers, 1 webhook, 1 fault | one first template, a true ledger, silence after closing, implements `PublishOnce`, timers settle |

Bounds and why they are enough. The protocols are pairwise: the hazards are one
lease holder against its successor, one request against one stop, one message
against the next. Two processes, two steps, two generations of a lease and one retry
make each of those meet; a third adds a repetition of the same encounter. `MaxGen`,
`MaxHandoffs`, `MaxCrashes`, `MaxDeaths`, `MaxAborts`, `MaxRequests`, `MaxFaults`, `MaxPeople`,
`MaxEdits`, `MaxRearms`, `MaxGeneration`, `MaxFence`, `MaxObserved` bound the
exploration only; `MaxAttempts`, `MaxRetries`, `MaxAdmissions`, `MaxResumes`,
`ForceAfter`, `Capacity` are policies of the code with smaller values (8 attempts, 3
retries, 20 queue attempts, and so on). In `handoff_notes` `MaxGen = 4` never binds:
two attempts and one death end before it. `followup_cart` has two messages because
with three, resumed in between, `OneDeliveryPerAction` and `UnknownBlocksSends` no
longer hold (4.2; theorems say under what they do); they do not hold with repeated
payment failures either, so the payment run, with the single message of its policy,
checks what does. `feedback`
leaves out decision `correct`: it has the artifacts of `skip` and the status of
`correct_with_feedback`. `first_touch` has one webhook at a time beside two workers:
two webhooks meet only at the row of the phone, which either takes in one
transaction; the theorems about it hold for any number. Symmetry is used where no
liveness is checked (`followup_cart`, `handoff_slow`, `slack_review`, `feedback`).
`CHECK_DEADLOCK FALSE` is set where the system comes to rest; in
`resolution` the worker polls for ever and deadlock is checked. The type invariants
of the six modules whose runs leave them out are theorems.

Fairness. Inbox: the worker polls and visits every listed group, clocks run (strong
fairness of a timer that an arrival restarts), the handler returns when tried again
and again, a free lock is obtained. Follow-up: the deadline passes, leases lapse
and a claim sweeps (`dispatch_due` polls every five seconds); nothing is asked of the
dispatcher that holds a lease. Handoff: the worker polls, retries fall due, leases lapse,
a lost connection resolves. Slack review: the worker's loop and the restart, sessions
expire and are pruned, a bridge that is asked for ever answers. Turn: the inbox starts
turns, calls end (`timeout=15`), Chatwoot's queue drains. Resolution: the loop of the
worker. First touch: an hour passes and the worker polls; nothing is asked of
webhooks, which the provider may not repeat. No fairness is asked of people.

## 4. Findings

### 4.1 Checked

`slack_confirm`: a confirmation that the bridge rejects (the case was resolved
elsewhere, the command lapsed) raises an exception like a lost answer does: the session
stays `confirming`, is confirmed again every round, and the reviewer sees the
processing modal for ever. The entry in `PROJECT.json` quotes the sentence it
contradicts (`interactions.py:662`).

### 4.2 Met while modelling

The modules contain these behaviours, as the code has them; no run states them.

Inbox, follow-up, handoff:

- A recovery of the stalled monitor that leads a group takes the whole group down
  with its own limit, a webhook message that only met retryable errors included
  (`chatwoot_inbox.py:770`; the docstring of `RetryableChatwootWorkError` keeps it).
- A dispatcher dies after its request started: the action expires and its attempt
  stays `request_started`, which `reconcile_followup_delivery_attempt` does not accept,
  although `followup-engine-v1.md:371` promises `delivery_unknown`.
- A second payment failure moves the case's version while a message is in flight
  (`20260813000100:420`): an inconclusive result is then not authoritative, its action stays
  claimable, and the first contact is sent again, unless the tenant's contact cap is one;
  `20260904000100:1` says "ATT1 UC-01 allows at most one initial payment-failure
  contact per case."
- An inbound handoff pauses the conversation without moving the version. In a case of
  three messages (a policy may have four), with the third in flight, a handoff on a reply
  from before the anchor makes an inconclusive result not authoritative: the action stays
  claimable, and if the conversation is resumed before the next poll it is claimed and
  sent again beside the unknown delivery. The reply the re-evaluation looks for is one
  after the anchor.
- A `not_applied` reconciliation that meets a paused conversation settles the attempt and
  leaves the action in `delivery_unknown`: nothing picks it up.
- A lease that lapses during the post of a private note makes the finalization fail
  while the status is `pending`; if the note is not visible to the next scan, it is
  written twice (`worker.py:784`).
- The assignment replaces a team that took the conversation after the read, against
  the comment of `chatwoot.py:1560`.
- `attended_at` is the time a webhook is processed: a message written before the handoff
  and processed after it attends it, against `handoff-attendance-v1.md:17`.
- A request whose assignment met another team stays `projection_failed` and refuses
  the resumption even after a person answered, against `handoff-attendance-v1.md:101`;
  one that ran out of attempts neither blocks the resumption nor can be attended
  (`20261001000500:508`).

Slack:

- Outside `one_shot` mode `consumed` may differ from zero, so `_validate_database`
  rejects every backup made in continuous mode; so it does once an opening job failed
  after its session was being prepared.
- A prepared session whose `views.update` failed leaves the reviewer nothing to confirm
  (`interactions.py:643`).

Inbound turn:

- A reply whose POST is lost for good is retried without limit until the lead writes
  again (`chatwoot_inbox.py:769-776`); `TurnEnds` says so.
- A label that fails after its durable handoff is not tried again (`app.py:8482`).
- A resumption answered `replayed` clears the label of a later handoff of the same
  trigger (`app.py:3044`; `resume-paused-conversation-v1.md:31`); one whose answer is lost
  leaves its message unanswered.
- The notice "una sola vez por conversacion" (`handoff_notice.py:33`) is sent twice if a
  lost one lands late. The text parts of a link do not ask the durable authorizer.

Resolution:

- A purchase rejected for good whose queue row could not be closed is admitted later.
- `_retry_native_queue` returns early when no native flow is on, though its
  docstring says such a purchase is admitted and closed.
- A lost admission, with the flow paused in between, pauses a buyer whose welcome
  started; a crash between applying and pausing never pauses a buyer. A refused
  purchase may be paused and taken by a later retry.
- A `processed` mark with a lost answer is overwritten by
  `supabase_mid_resolution_error`.
- Native cart cases write no `recovery_case_events` row: the same event can later join
  another legacy case. A failed contact lookup is taken for an unknown buyer.

Daily feedback (`daily-owner-feedback-v1.md:213,224,253`; the store is fixture-only):

- `unresolved` past its deadline blocks the batch although another item is presented:
  the store then rejects its own file for ever (`BlockedWhileEngaged`). So it does after
  `found` on an attempt whose connector ledger says delivery unknown
  (`FoundAgainstLedger`).
- A call validated before the lock and applied after another process died
  mid-decision leaves a third image: the decision is never recoverable (`overtaken`).
- An intent left by a crash blocks every batch of the store until the same command is
  tried again. A cancelled or rejected first attempt is never reserved again, so its
  batch cannot be completed; a blocked batch still accepts reservations.

First touch:

- A cart or payment command that a crash left `request_started` can never be reconciled
  (the reconciliation needs `delivery_unknown`), though
  `johanna-abandonment-one-shot-v1.md` leaves it to a manual reconciliation.
- In a deploy overlap a second worker ends a live request as unknown; the acceptance of
  the first then conflicts, its fallback returns early and the remote identifiers are
  lost, against `docs/design/precheckout-delayed-first-touch.md` ("conservan IDs remotos").
- An approved purchase cancels every timer of the intent, completed ones too, and takes
  a command still open off the list for ever, against "El due-list recupera tanto reserved
  como request_started"; `FirstTouchSettles` excepts it.
- The cart and payment begins check no takeover, though the header of `20260827000100`
  speaks of takeover gates.

Further places where the same kinds of trouble bite, beside the list of hazards:
`chatwoot.py:1586`, `app.py:7585`, `20261001000500:513`, the pilot's contact cap
(`20261007000100:129`), `interactions.py:643`, the connector's `worker.py:597` and
`store.py:1132`, the leases of pre-resolutions (`20260916000100:272`), the bridge's
`worker.py:834`, the fencing of daily notifications (`20260911*:31`). Four listed hazards
have no property: `chatwoot_inbox.py:770` (the code breaks it), the pilot's budget
(`20260930000300:626`), the opt-out projection (`20260809000100:728`) and the
lease of coupons (`20261018000100:237`), which wait for their modules.

## 5. Proofs

`tlapm` checks each proof module from nothing; the only assumptions are the named
`ASSUME`s on the constants, which TLC evaluates in the runs. The theorems hold for any
number of processes, messages, attempts and faults.

- **ChatwootInboxProofs**: `TypeCorrect`, `InvariantHolds`, `CompletedAnswered`,
  `BatchAdmitted`, `JournalsReplayable`, `OneHandler`, `GroupFailureWhole`. None is
  inductive alone. `IInv` adds that locks are exclusive, that what a process owns
  is admitted, of its conversation and in no journal (`OwnedIsAdmitted`), that
  under a lock the conversation's journals are replayed before anything is
  listed (`JournalsQueued`), and what a replay has already settled
  (`ReplaySound`), which is what lets a second process unlink the same journal.
  `NoReplayOfOlder` (no older message leads a turn after a newer one was answered)
  rests on a second layer, about the order of admissions: a message that an answer
  superseded and nobody has closed yet has, until it is closed, a newer one of its
  conversation beside it that is past its own debounce, no journal that would take that
  one away first, and itself in the hands of whoever serves the conversation
  (`StaleCovered`). The leader is closed last and outranks its batch
  (`LeaderOutranks`), no journal waits under a turn (`NoJournalUnderTurn`), what was
  answered is past its debounce (`AnsweredNotFresh`), and no two files are each admitted
  after the other (`LaterIsOrder`).
- **InboundTurnProofs**: `TypeCorrect`, `InvariantHolds`, `PartsInOrder`,
  `OneMoreAtMost`, `StopsRecorded`, `LinksAccounted`, for any number of messages, parts,
  resumptions, faults and acts of the team. `IInv` has two halves. `Standing` holds of the
  conversation, the journal and the ledgers whatever the turn is at: what is, or may still
  come to be, in the conversation is claimed in the journal and on its way once only
  (`JournalSound`); a post under way has the part before it in the conversation
  (`WireOrder`); the agent's result came after every stop of its batch (`ProposalHeard`);
  once a part was posted over the team something keeps the next one back (`LateStuck`).
  `TurnInv` says what the turn knows at each of its awaits: what it sends and from where
  (`PlaceSound`, `ResultSound`), that the part before was read in the conversation before
  the next is posted (`PartSound`), and that after a late part it does not get past its
  next reads (`ReadSound`), which is what bounds the parts over a stop by one.
- **FollowupEngineProofs**: `TypeCorrect`, `InvariantHolds`, `OneLive`,
  `TerminalStays`, repeated failures and resumptions included; and for an abandoned cart
  `CartHolds`, `OneDelivery`, `UnknownBlocks`, `StopsLeaveNothing`, `ShortCart`, below.
  Every step is one of three shapes: *quiet* (no status comes from or goes to
  nothing, none is revived, an acceptance with a successor stays), a *plan* of an
  empty case, or an *advance* of one accepted action to its successor; the 30-odd
  actions are shown to have a shape, and each shape to keep `IInv`. `IInv` needs
  `OptedOutIsLast`, because an operator's `not_applied` on an opted-out attempt may
  turn an *accepted* action into a cancelled one, which is safe only for the last
  step of a cancelled case; `OwnedIsClaimable`, because the termination of a
  turned-off flow checks the owner and not the status; and that attempts and
  dispatchers belong to actions that exist.

  No step twice, no send beside an unknown one and nothing left by a stop hold of carts
  (`MaxRepeats = 0`: their repetition fails with `pilot_case_binding_conflict`) and not of
  payment cases (4.2). Their invariant is `CartInv`. An attempt has *spent* its action when
  the buyer has the message, may have it, or may get it still (`Spent`); an action spends
  itself in one attempt (`SpentOnce`). That is inductive because nobody starts a second
  request over a spent attempt (`LiveSpent`): while the case is open it is the request in
  flight of the current claim (`InFlight`), so that its end will be authoritative, or it
  is unknown and whoever claims the action will be told not to execute (`Waiting`). The
  rest connects the tables: an accepted action has nothing open (`AcceptedSettled`), a
  request in flight has a claimable action or an expired case (`StartedRuns`), stopped
  cases have nothing claimable (`StoppedUnclaimed`), claims are apart and counted
  (`ClaimsApart`, `ClaimsCounted`), an outcome is final (`OutcomeIsFinal`), a refusal
  delivered nothing (`RefusedUndelivered`), a started dispatcher's request is its own
  (`RequestsOwned`), and who replied and when says whether the conversation may be paused
  (`RepliesFollow`).

  `CartHolds` and the three theorems that follow from it have one more hypothesis,
  `[][ResumesClear]_vars`: with more than two messages, the conversation is not given back
  to the agent while a claimable action has a delivery nobody knows of. Neither code nor
  database enforces it; without it the double delivery of 4.2 is reachable, as TLC shows
  with three messages. For carts of one or two messages it says nothing (a second message
  in flight is paused only by a reply after the anchor, which the next claim sees), so
  `ShortCart` states the same three properties with `Spec` alone. TLC checked `CartInv`
  before it was proved, with two messages and two dispatchers and, under
  `ResumesClear`, with three messages and one.
  The proof goes action by action. Most actions start no claim and no request, and keep
  `CartInv` by one lemma (`StartsNothing`); a dispatcher that moves on under its lease
  keeps it by `ForwardKeeps` and `HolderKeeps`; only `MarkRequestStarted` spends an
  attempt (`MarkCart`), and there `LiveSpent` excludes that another is spent.
- **HumanHandoffProofs**: `TypeCorrect`, `InvariantHolds`, `RequestsSummarise`,
  `LivePaused`, `AppliedNotes`, `SettledStays` whatever lapses; and
  `NotesInvariantHolds`, `OneNote`, `UnknownScans` under `~SlowWorkers`: a
  lease (60 s) outlives its holder's batch and its post's connection. That is a
  timing assumption, not something the code enforces; the duplicate note of 4.2 is
  what happens without it. A live request means a pause because the finalization is
  fenced by a claimable effect: its request exists and is not projected, and if it is a
  dead letter its other effect keeps it so. The single note holds because held effects
  are leased to one worker (`HeldIsLeased`, `BatchesApart`), because who posts
  has seen none and none is on its way (`PostIsFirst`, `LostIsKnown`), and because
  an unknown outcome never becomes retryable (`UnknownStays`).
- **SlackNotificationsProofs**: `TypeCorrect`, `BudgetAccounted`, `RootsAccounted`,
  `OutputStops`, and `Refinement`: `Spec => LedgerSpec`, the store and its worker
  implement `PublishOnce`. `IInv` has to say what the worker knows between two awaits
  (`WorkerHolds`: while it has something in hand it holds its row, no delivery is unknown
  and no root was created since it read its thread), what wire, channel and row may say
  together (`DeliverySound`), to which generation rows belong (`BudgetSound`), that
  a notification was admitted once (`OrderSound`) and that accepted messages are
  numbered (`ThreadSound`). A publication maps to `Publish` only because
  `DeliverySound` forbids a second request while one may still be served.
- **ReviewProofs**, of the two channels a person reviews through. Of `SlackReview`:
  `TypeCorrect`, `OneOpening`, `KeepsApplied`,
  `ProjectsResolution`, `EndsForGood`. `IInv` ties the step of the worker to the state
  of its session (`WorkerHolds`), a request of `views.open` to its job (`OpeningSound`)
  and the card's claim to who is updating it (`CardSound`): the operator's backfill and
  a late start can otherwise take the claim from the worker.

  Of `DailyFeedback`: `FeedbackTyped`, `StoreAcceptsItself`, `CutShortRecovered`,
  `DeliveredThenDecided`, `RecordedStays`, for any number of items, owners, calls,
  sessions, observations and deaths, and any set of decision types. A call may be
  validated against one runtime and applied to another, so `Valid` cannot be what is
  inductive. `FeedbackInv`, checked by TLC on the instance of the run before it was
  proved, is what every command keeps of the runtime it finds, validated or not
  (`RuntimeSound`): an attempt's end and its connector agree but for a find
  against the ledger (`AttemptSound`), an item past `pending` was accepted and one decided
  was accepted cleanly (`PresentedAccepted`), an attempt is given up only with its
  batch blocked, and one at most (`BatchSound`). `IntentSound` says that the open
  decision is begun and not committed, and what its image before was: a validated store
  has all artifacts of a decision or none, so `Valid` excludes an open intent
  (`ValidClosed`) and only calls found earlier can come between. `ImagesSound` says who
  may then still publish: a live process only over one of the two images, which makes
  `ReplaceRuntime` a decision of the runtime it replaces and not a return to an older
  one. Each command is shown to lead from a sound runtime to a sound one that takes
  nothing back (`Follows`), so the invariant and `NothingUndone` share one proof.
- **ResolutionProofs**: `TypeCorrect`, `OneKindOfCase`, `StopBeforeWelcome`,
  `CaseForGood`, `TakenGoesOn`. `StopFirst` says that an admission of a purchase,
  under way or given up, comes after its stop; `NotTaken`, that a purchase about to be
  paused was not taken and has no admission in flight while its flow is as it was.
- **FirstTouchProofs**: `TypeCorrect`, `InvariantHolds`, `OneTemplate`, `LedgerTruth`,
  `QuietAfterClosing`, and `Refinement`: `Spec => LedgerSpec`. `IInv` says that between the start of a request and the record of
  its outcome there is one process, and that it works for the source of the row
  (`SenderSound`), which is what makes a second template impossible though the row is
  not a lease; `LedgerSound`, that the failure which permits the one retry of a payment
  left no message; `MessageSound`, that no other source has one; `ClosedSound`, that
  nobody is between authorisation and request for a closed intent. A message created maps to
  `Publish` because who is sending has the row and no message yet; an acceptance maps to
  `Record` because it has one (`SenderSound`), and is never taken back because an outcome is
  written only over a request that is started (or unknown, by the operator).

Only model-checked: liveness (`EveryAdmissionEnds`, `ActionSettles`, `EffectsSettle`,
`TurnEnds`, `WorkEnds`, `FirstTouchSettles`), here out of the prover's reach as is
`ENABLED`. Every safety invariant and every action property that a run checks is a
theorem. No module declares a recursive operator.

## 6. Plan and what is not modelled

In this order; with runs, mutants and, where marked *, theorems.

1. `OptOutProjection`: the lease, backoff and lock of the macro's projection, and the
   confirmation it shares the conversation with.
2. `PilotBoundary`: arming, budgets and the contact cap with two cases of a contact.
3. Leases of coupons, of pre-resolutions and of the producer's projections; the
   approval cycle of flow changes.

Not modelled: flow definitions, their validation and parity (pure validators of
documents, sequential and covered by their tests); templates, audio, segments,
campaigns and statuses (a request or a statement each, without a protocol);
provenance, manifests, expert reads and adapters (read-only); Hermes profiles,
scripts and deployment (prompts and containers). Of the modelled components, section 2
names what each leaves out.

The map covers a small share of the Python files by design of the program: 106,000
lines, of which most are parsing and validation of payloads and documents
(`app.py`, `supabase.py`, the validators of `daily_feedback.py`, the command lines),
wrappers of RPCs with their typed results, logging and wording. What coordinates
processes is a few thousand lines of it, and much of the protocol itself is the SQL of
the migrations, which the modules translate and the map names.
