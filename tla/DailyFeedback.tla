----------------------------- MODULE DailyFeedback -----------------------------
(***************************************************************************)
(* The store of the daily owner feedback, daily_feedback.py: one committed *)
(* batch of items that are delivered to its reviewer and decided by him,   *)
(* in order.  The state is files: the runtime of the batch, replaced as a  *)
(* whole, and for every decision five artifacts written once each.  Every  *)
(* command runs under one file lock, which the death of its holder frees.  *)
(*                                                                         *)
(* The commands on an attempt find it, and validate the store, BEFORE they *)
(* take the lock (_find_runtime_attempt), and read the runtime again under *)
(* it without validating; the others validate under the lock.  A replayed  *)
(* command, and one that only adds its own record to the runtime, changes  *)
(* nothing here.  A command whose lease or grant lapsed is refused: what a *)
(* model step may do with a live lease it may also not do.                 *)
(***************************************************************************)
EXTENDS Naturals, FiniteSets

CONSTANTS
    NumItems,     \* the items of the batch
    DecisionTypes,  \* those used, of the three there are
    Owners,       \* session owners, all of the one reviewer of the batch
    Callers,      \* the calls on attempts that may be under way at once
    None,
    MaxFence,     \* bound: sessions claimed
    MaxObserved,  \* bound: late observations
    MaxDeaths     \* bound: deaths with the lock in hand

ASSUME FeedbackAssumption ==
    /\ NumItems \in Nat \ {0}
    /\ {MaxFence, MaxObserved, MaxDeaths} \subseteq Nat
    /\ None \notin Owners \cup ((1..NumItems) \X {1, 2})
    /\ DecisionTypes \subseteq {"correct", "correct_with_feedback", "skip"}
    /\ None \notin DecisionTypes

VARIABLES
    run,         \* the runtime file of the batch
    published,   \* the artifacts of each decision command that are on disk
    intent,      \* what the intent of the command in the middle of its publication says
    publishing,  \* does a live process hold the lock and publish that command?
    found,       \* the attempt each call has found and validated
    deaths,
    overtaken    \* history: a call validated before an intent was applied after it

feedbackVars == <<run, published, intent, publishing, found, deaths, overtaken>>

Items == 1..NumItems            \* by position
Commands == Items \X DecisionTypes
Attempts == Items \X {1, 2}     \* snapshot and attempt_number

ReviewSession == [owner : Owners \cup {None}, fence : 0..MaxFence]

\* What a worker says of a delivery that nobody knew the end of: the first two carry one of
\* two references of Slack, the third the reference of the connector's ledger.
Found == {"accepted", "accepted_elsewhere"}
NotApplied == {"not_applied", "not_applied_asserted"}

\* simulated_connector_effects: with delivery_unknown goes what really happened.
Effects == {"accepted", "rejected", "unknown_accepted", "unknown_not_applied"}
Unknown == {"unknown_accepted", "unknown_not_applied"}

Outcomes == {"accepted", "rejected", "delivery_unknown", "cancelled_before_request", "not_applied"}

Attempt == [phase : {None, "reserved", "request_started", "finalized"},
            outcome : Outcomes \cup {None}, session : ReviewSession, effect : Effects \cup {None},
            observed : SUBSET (Found \cup NotApplied), reconciler : BOOLEAN, blocked : BOOLEAN]

NoAttempt == [phase |-> None, outcome |-> None, session |-> [owner |-> None, fence |-> 0],
              effect |-> None, observed |-> {}, reconciler |-> FALSE, blocked |-> FALSE]

Reserved(session) == [NoAttempt EXCEPT !.phase = "reserved", !.session = session]

\* Revisions are left out: they say what the statuses say.
Runtime == [batch : {"ready", "in_review", "completed", "blocked"}, session : ReviewSession,
            item : [Items -> {"pending", "presented", "reviewed", "skipped"}],
            decision : [Items -> DecisionTypes \cup {None}],
            attempt : [Attempts -> Attempt]]

\* What is none of these says that there is none.
ASSUME NoneAssumption ==
    /\ None \notin {"reserved", "request_started", "finalized", "presented", "reviewed",
                     "skipped", "skip"} \cup Outcomes \cup Effects
    /\ None \notin [command : Commands, before : Runtime, after : Runtime]

Engaged(r) == {i \in Items : r.item[i] # "pending"}
Terminal(r) == {i \in Items : r.item[i] \in {"reviewed", "skipped"}}

FeedbackInit ==
    /\ run = [batch |-> "ready", session |-> NoAttempt.session,
              item |-> [i \in Items |-> "pending"], decision |-> [i \in Items |-> None],
              attempt |-> [a \in Attempts |-> NoAttempt]]
    /\ published = [c \in Commands |-> {}]
    /\ intent = None /\ publishing = FALSE
    /\ found = [p \in Callers |-> None]
    /\ deaths = 0 /\ overtaken = FALSE

-----------------------------------------------------------------------------
(* _validate_runtime_binding *)

Artifacts(type) ==
    {"intent", "decision", "result", "commit"}
        \cup (IF type = "correct_with_feedback" THEN {"feedback"} ELSE {})

\* Every decision of the runtime has all its artifacts and there are no others.
DecisionsPublished(r) ==
    \A i \in Items, t \in DecisionTypes :
        published[<<i, t>>] = IF r.decision[i] = t THEN Artifacts(t) ELSE {}

DecisionsProjected(r) ==
    \A i \in Items :
        r.item[i] = CASE r.decision[i] = "skip" -> "skipped"
                      [] r.decision[i] \in DecisionTypes \ {"skip"} -> "reviewed"
                      [] OTHER -> IF r.item[i] = "presented" THEN "presented" ELSE "pending"

\* A second attempt follows from proof that the first did nothing.
RetriesProven(r) ==
    \A i \in Items :
        LET first == r.attempt[<<i, 1>>]
        IN r.attempt[<<i, 2>>].phase # None =>
               /\ first.outcome = "not_applied" /\ first.effect = "unknown_not_applied"
               /\ "not_applied" \in first.observed

\* Mutant: the ledger is not compared with the outcomes.
LedgerIgnored(r) == TRUE

\* What an attempt says of its end is what its connector said.
LedgerAgrees(r) ==
    \A a \in Attempts :
        LET t == r.attempt[a]
        IN t.effect # None =>
               /\ t.outcome \in {"accepted", "rejected"} => t.effect = t.outcome
               /\ t.outcome = "delivery_unknown" => t.effect \in Unknown
               /\ t.outcome # "cancelled_before_request"

BatchSummarises(r) ==
    /\ r.batch = "ready" => Engaged(r) = {}
    /\ r.batch = "in_review" => Engaged(r) # {}
    /\ r.batch = "completed" => Terminal(r) = Items
    /\ r.batch = "blocked" =>
           /\ Engaged(r) = {}
           /\ \E a \in Attempts : {b \in Attempts : r.attempt[b].blocked} = {a}
           /\ \A a \in Attempts : r.attempt[a].blocked => r.attempt[a].outcome = "delivery_unknown"

Valid ==
    /\ DecisionsPublished(run) /\ DecisionsProjected(run)
    /\ RetriesProven(run) /\ LedgerAgrees(run) /\ BatchSummarises(run)

-----------------------------------------------------------------------------
(* Sessions and reservations: validated under the lock *)

Locked(r) ==
    /\ ~publishing /\ run' = r
    /\ UNCHANGED <<published, intent, publishing, found, deaths, overtaken>>

\* Mutant: a session is claimed of a store nobody validated.
ClaimUnvalidated(o) ==
    /\ run.batch \in {"ready", "in_review"} /\ run.session.fence < MaxFence
    /\ Locked([run EXCEPT !.session = [owner |-> o, fence |-> @.fence + 1]])

\* claim_review_session; another owner's lease has lapsed.
Claim(o) ==
    /\ Valid
    /\ run.batch \in {"ready", "in_review"} /\ run.session.fence < MaxFence
    /\ Locked([run EXCEPT !.session = [owner |-> o, fence |-> @.fence + 1]])

\* reserve_review_delivery: once for an item, whatever becomes of the attempt.
Reserve(i) ==
    /\ Valid
    /\ run.session.owner # None
    /\ run.item[i] = "pending" /\ run.attempt[<<i, 1>>].phase = None
    /\ Locked([run EXCEPT !.attempt[<<i, 1>>] = Reserved(run.session)])

-----------------------------------------------------------------------------
(* Calls on an attempt: validated before the lock *)

Find(p, a) ==
    /\ found[p] = None /\ run.attempt[a].phase # None /\ Valid
    /\ found' = [found EXCEPT ![p] = a]
    /\ UNCHANGED <<run, published, intent, publishing, deaths, overtaken>>

\* The call is refused under the lock, or its process dies while it waits.
GiveUp(p) ==
    /\ found[p] # None /\ found' = [found EXCEPT ![p] = None]
    /\ UNCHANGED <<run, published, intent, publishing, deaths, overtaken>>

Apply(p, a, r) ==
    /\ ~publishing /\ found[p] = a
    /\ run' = r /\ found' = [found EXCEPT ![p] = None]
    /\ overtaken' = (overtaken \/ intent # None)
    /\ UNCHANGED <<published, intent, publishing, deaths>>

Becomes(a, t) == [run EXCEPT !.attempt[a] = t]

\* The attempt was accepted: its item is before the reviewer, and the batch in review.
Presented(a, t) ==
    [run EXCEPT !.attempt[a] = t, !.item[a[1]] = "presented",
                !.batch = IF @ = "ready" THEN "in_review" ELSE @]

\* mark_review_delivery_request_started: only in the session it was reserved in.
MarkRequestStarted(p, a) ==
    LET t == run.attempt[a]
    IN /\ t.phase = "reserved" /\ t.session = run.session
       /\ Apply(p, a, Becomes(a, [t EXCEPT !.phase = "request_started"]))

CancelBeforeRequest(p, a) ==
    LET t == run.attempt[a]
    IN /\ t.phase = "reserved"
       /\ Apply(p, a, Becomes(a, [t EXCEPT !.phase = "finalized",
                                           !.outcome = "cancelled_before_request"]))

\* invoke_simulated_delivery_connector: once, and what it does is in the ledger.
InvokeConnector(p, a, e) ==
    LET t == run.attempt[a]
    IN /\ t.phase = "request_started" /\ t.effect = None
       /\ Apply(p, a, Becomes(a, [t EXCEPT !.effect = e]))

\* Mutant: the answer of the worker is taken over that of the ledger.
AnyoneTold(t, outcome) == TRUE

\* The connector that a worker did not invoke through the store contradicts nothing.
Told(t, outcome) ==
    t.effect \in {None} \cup IF outcome = "delivery_unknown" THEN Unknown ELSE {outcome}

FinalizeAccepted(p, a) ==
    LET t == run.attempt[a]
    IN /\ t.phase = "request_started" /\ Told(t, "accepted") /\ run.item[a[1]] = "pending"
       /\ Apply(p, a, Presented(a, [t EXCEPT !.phase = "finalized", !.outcome = "accepted"]))

FinalizeUnpresented(p, a, outcome) ==
    LET t == run.attempt[a]
    IN /\ t.phase = "request_started" /\ Told(t, outcome)
       /\ Apply(p, a, Becomes(a, [t EXCEPT !.phase = "finalized", !.outcome = outcome]))

Observations ==
    {n \in Attempts \X (Found \cup NotApplied) : n[2] \in run.attempt[n[1]].observed}

\* submit_late_delivery_observation: evidence only.
Observe(p, a, o) ==
    LET t == run.attempt[a]
    IN /\ t.outcome = "delivery_unknown"
       /\ o \notin t.observed /\ Cardinality(Observations) < MaxObserved
       /\ Apply(p, a, Becomes(a, [t EXCEPT !.observed = @ \cup {o}]))

\* claim_delivery_reconciliation: a later one moves only its generation.
ClaimReconciliation(p, a) ==
    LET t == run.attempt[a]
    IN /\ t.outcome = "delivery_unknown" /\ run.batch # "blocked" /\ ~t.reconciler
       /\ Apply(p, a, Becomes(a, [t EXCEPT !.reconciler = TRUE]))

Reconcilable(t) ==
    t.reconciler /\ t.outcome = "delivery_unknown" /\ run.batch # "blocked"

\* resolution unresolved past the deadline; before it, nothing.
ReconcileUnresolved(p, a) ==
    LET t == run.attempt[a]
    IN /\ Reconcilable(t)
       /\ Apply(p, a, [run EXCEPT !.attempt[a].blocked = TRUE, !.batch = "blocked"])

\* resolution found: one reference, no contradiction.
ReconcileFound(p, a) ==
    LET t == run.attempt[a]
    IN /\ Reconcilable(t) /\ run.item[a[1]] = "pending"
       /\ \E o \in Found : t.observed = {o}
       /\ Apply(p, a, Presented(a, [t EXCEPT !.outcome = "accepted"]))

Proven(t) ==
    /\ "not_applied" \in t.observed /\ t.observed \subseteq NotApplied
    /\ t.effect = "unknown_not_applied"

\* reconcile_review_delivery_not_applied: the retry is another session's.
ReconcileNotApplied(p, a) ==
    LET t == run.attempt[a]
        successor == <<a[1], 2>>
    IN /\ Reconcilable(t) /\ Proven(t)
       /\ run.session.owner \notin {None, t.session.owner} /\ run.session.fence > t.session.fence
       /\ a[2] = 1 /\ run.attempt[successor].phase = None
       /\ Apply(p, a, [run EXCEPT !.attempt[a].outcome = "not_applied",
                                  !.attempt[successor] = Reserved(run.session)])

-----------------------------------------------------------------------------
(* Decisions *)

Decided(r, i, type) ==
    LET status == IF type = "skip" THEN "skipped" ELSE "reviewed"
    IN [r EXCEPT !.item[i] = status, !.decision[i] = type,
                 !.batch = IF Terminal(r) \cup {i} = Items THEN "completed" ELSE @]

\* record_review_decision up to the intent: the first write, with the images before and after.
Decide(c) ==
    /\ ~publishing /\ published[c] = {}
    /\ run.session.owner # None /\ Valid
    /\ run.item[c[1]] = "presented" /\ \A j \in Items : j < c[1] => j \in Terminal(run)
    /\ intent' = [command |-> c, before |-> run, after |-> Decided(run, c[1], c[2])]
    /\ published' = [published EXCEPT ![c] = {"intent"}]
    /\ publishing' = TRUE
    /\ UNCHANGED <<run, found, deaths, overtaken>>

Missing(c) == Artifacts(c[2]) \ published[c]

\* decision, feedback and result, in this order.
WriteArtifact(a) ==
    LET c == intent.command
    IN /\ publishing /\ a \in Missing(c) \ {"commit"}
       /\ a = "feedback" => "decision" \notin Missing(c)
       /\ a = "result" => Missing(c) = {"result", "commit"}
       /\ published' = [published EXCEPT ![c] = @ \cup {a}]
       /\ UNCHANGED <<run, intent, publishing, found, deaths, overtaken>>

ReplaceRuntime ==
    /\ publishing /\ Missing(intent.command) = {"commit"} /\ run # intent.after
    /\ run' = intent.after
    /\ UNCHANGED <<published, intent, publishing, found, deaths, overtaken>>

\* Mutant: the lock is kept after the commit.
WriteCommitLocked ==
    LET c == intent.command
    IN /\ publishing /\ Missing(c) = {"commit"} /\ run = intent.after
       /\ published' = [published EXCEPT ![c] = @ \cup {"commit"}]
       /\ intent' = None
       /\ UNCHANGED <<run, publishing, found, deaths, overtaken>>

\* _write_decision_commit, after which the images are never read again.
WriteCommit ==
    LET c == intent.command
    IN /\ publishing /\ Missing(c) = {"commit"} /\ run = intent.after
       /\ published' = [published EXCEPT ![c] = @ \cup {"commit"}]
       /\ intent' = None /\ publishing' = FALSE
       /\ UNCHANGED <<run, found, deaths, overtaken>>

\* The holder of the lock dies.
Die ==
    /\ publishing /\ deaths < MaxDeaths
    /\ publishing' = FALSE /\ deaths' = deaths + 1
    /\ UNCHANGED <<run, published, intent, found, overtaken>>

\* Mutant: the intent wins over whatever the runtime says.
RecoverBlindly ==
    /\ ~publishing /\ intent # None
    /\ publishing' = TRUE
    /\ UNCHANGED <<run, published, intent, found, deaths, overtaken>>

\* The command again, in any session: _recover_review_decision_intent takes it up from
\* either image and refuses a third.
RecoverDecision ==
    /\ ~publishing /\ intent # None /\ run \in {intent.before, intent.after}
    /\ publishing' = TRUE
    /\ UNCHANGED <<run, published, intent, found, deaths, overtaken>>

-----------------------------------------------------------------------------

Delivery(p, a) ==
    \/ MarkRequestStarted(p, a) \/ CancelBeforeRequest(p, a)
    \/ \E e \in Effects : InvokeConnector(p, a, e)
    \/ FinalizeAccepted(p, a)
    \/ \E o \in {"rejected", "delivery_unknown"} : FinalizeUnpresented(p, a, o)

Reconciliation(p, a) ==
    \/ \E o \in Found \cup NotApplied : Observe(p, a, o)
    \/ ClaimReconciliation(p, a) \/ ReconcileUnresolved(p, a)
    \/ ReconcileFound(p, a) \/ ReconcileNotApplied(p, a)

FeedbackNext ==
    \/ \E o \in Owners : Claim(o)
    \/ \E i \in Items : Reserve(i)
    \/ \E p \in Callers : GiveUp(p) \/ \E a \in Attempts :
          Find(p, a) \/ Delivery(p, a) \/ Reconciliation(p, a)
    \/ \E c \in Commands : Decide(c)
    \/ \E a \in {"decision", "feedback", "result"} : WriteArtifact(a)
    \/ ReplaceRuntime \/ WriteCommit \/ Die \/ RecoverDecision

FeedbackSpec == FeedbackInit /\ [][FeedbackNext]_feedbackVars

-----------------------------------------------------------------------------
(* Properties *)

\* Type invariant.
FeedbackTypeOK ==
    /\ run \in Runtime
    /\ published \in [Commands -> SUBSET {"intent", "decision", "feedback", "result", "commit"}]
    /\ intent = None \/ /\ intent.command \in Commands
                        /\ {intent.before, intent.after} \subseteq Runtime
    /\ publishing \in BOOLEAN /\ (publishing => intent # None)
    /\ found \in [Callers -> Attempts \cup {None}]
    /\ deaths \in 0..MaxDeaths /\ overtaken \in BOOLEAN

\* The two ends of a delivery the store reaches and does not accept (see the README).
BlockedWhileEngaged == run.batch = "blocked" /\ Engaged(run) # {}
FoundAgainstLedger ==
    \E a \in Attempts : run.attempt[a].outcome = "accepted" /\ run.attempt[a].effect \in Unknown

\* Whatever the calls, and in whatever order they were found and applied, between two
\* decisions the store accepts its own files (_validate_runtime_binding), but for those two ends.
OwnFilesAccepted ==
    intent = None => Valid \/ BlockedWhileEngaged \/ FoundAgainstLedger

\* "Un retry tras crash completa solo el intent original" (daily-owner-feedback-v1.md): the
\* runtime under a decision cut short is one of its images, unless a call that had been
\* validated before it was applied after it.
DecisionRecoverable ==
    intent # None => run \in {intent.before, intent.after} \/ overtaken

\* An item is delivered to the reviewer at most once, retries included, and is never decided
\* unless its delivery was accepted and the connector, if asked, says so.
DecidedWasDeliveredOnce ==
    \A i \in Items :
        LET attempts == {run.attempt[<<i, k>>] : k \in {1, 2}}
        IN /\ \E k \in {1, 2} :
                 run.attempt[<<i, k>>].effect \notin {"accepted", "unknown_accepted"}
           /\ run.decision[i] # None =>
                 \E t \in attempts : t.outcome = "accepted" /\ t.effect \in {None, "accepted"}

Order(s) == CASE s \in {None, "pending"} -> 0 [] s \in {"presented", "reserved"} -> 1
              [] s = "request_started" -> 2 [] OTHER -> 3

\* Nothing recorded is taken back: not by a later command, and not by the recovery of a
\* decision that writes an image of the whole runtime.
NothingUndone ==
    [][/\ run'.session.fence >= run.session.fence
       /\ \A i \in Items :
             /\ Order(run'.item[i]) >= Order(run.item[i])
             /\ run.decision[i] # None => run'.decision[i] = run.decision[i]
       /\ \A a \in Attempts :
             LET t == run.attempt[a]  u == run'.attempt[a]
             IN /\ Order(u.phase) >= Order(t.phase)
                /\ t.outcome \notin {None, "delivery_unknown"} => u.outcome = t.outcome
                /\ t.effect # None => u.effect = t.effect
                /\ t.observed \subseteq u.observed]_feedbackVars

-----------------------------------------------------------------------------
(* The inductive invariant behind them *)

\* An attempt: when it has an end, when the connector was asked, and what both say.
AttemptSound(t) ==
    /\ t.phase = None => t = NoAttempt
    /\ t.outcome # None <=> t.phase = "finalized"
    /\ t.effect # None => t.phase \in {"request_started", "finalized"}
    /\ t.blocked => t.outcome = "delivery_unknown"
    /\ t.effect # None =>
           /\ t.outcome = "accepted" => t.effect \in {"accepted"} \cup Unknown
           /\ t.outcome = "rejected" => t.effect = "rejected"
           /\ t.outcome = "delivery_unknown" => t.effect \in Unknown
           /\ t.outcome # "cancelled_before_request"

\* An item was accepted, and the connector does not say otherwise.
Clean(r, i) ==
    \E k \in {1, 2} : /\ r.attempt[<<i, k>>].outcome = "accepted"
                      /\ r.attempt[<<i, k>>].effect \in {None, "accepted"}

\* What is before the reviewer was accepted, and what he decided cleanly so.
PresentedAccepted(r) ==
    /\ \A i \in Engaged(r) : \E k \in {1, 2} : r.attempt[<<i, k>>].outcome = "accepted"
    /\ \A i \in Items : r.decision[i] # None => Clean(r, i)

\* The status of the batch, without what the store gets wrong of a blocked one.
BatchSound(r) ==
    /\ r.batch = "ready" => Engaged(r) = {}
    /\ r.batch = "in_review" => Engaged(r) # {}
    /\ r.batch = "completed" => Terminal(r) = Items
    /\ r.batch = "blocked" => \E a \in Attempts : r.attempt[a].blocked
    /\ \A a \in Attempts : r.attempt[a].blocked => r.batch = "blocked"
    /\ \A a, b \in Attempts : r.attempt[a].blocked /\ r.attempt[b].blocked => a = b

\* A runtime file, whoever wrote it last.
RuntimeSound(r) ==
    /\ \A a \in Attempts : AttemptSound(r.attempt[a])
    /\ DecisionsProjected(r) /\ RetriesProven(r) /\ PresentedAccepted(r) /\ BatchSound(r)

\* Only the decision in the middle of its publication has some of its artifacts.
ArtifactsSound ==
    \A c \in Commands :
        intent = None \/ c # intent.command =>
            published[c] = IF run.decision[c[1]] = c[2] THEN Artifacts(c[2]) ELSE {}

\* That one is begun and not committed, its image after is its image before, decided, and
\* the item it decides was cleanly accepted in a batch in review.
IntentSound ==
    intent # None =>
        LET c == intent.command  r == intent.before
        IN /\ "intent" \in published[c] /\ published[c] \subseteq Artifacts(c[2]) \ {"commit"}
           /\ intent.after = Decided(r, c[1], c[2])
           /\ r.item[c[1]] = "presented" /\ r.batch = "in_review" /\ Clean(r, c[1])

\* A live process publishes over one of the two images; so does nobody, until overtaken.
ImagesSound ==
    /\ publishing => run \in {intent.before, intent.after}
    /\ DecisionRecoverable

FeedbackInv ==
    FeedbackTypeOK /\ RuntimeSound(run) /\ ArtifactsSound /\ IntentSound /\ ImagesSound
=============================================================================
