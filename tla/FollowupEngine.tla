--------------------------- MODULE FollowupEngine ---------------------------
(***************************************************************************)
(* The durable follow-up engine: one recovery case, its sequence, the      *)
(* actions that are scheduled for it, the delivery attempts they make, the *)
(* dispatchers that claim them, and everything that may stop the case in   *)
(* between (purchase, opt-out, human handoff, a repeated payment failure,  *)
(* expiry, an operator).                                                   *)
(*                                                                         *)
(* Every RPC is one transaction that locks contact, case, sequence, action *)
(* and attempt in that order, so it is one action here; a dispatcher       *)
(* (worker.py, DurableDispatcher.dispatch_due) is a chain of such calls    *)
(* and may stop after any of them.                                         *)
(*                                                                         *)
(* Time.  A worker passes the same `now' to the claim, the first           *)
(* re-evaluation and the reservation, so those never see the lease they    *)
(* just took as expired; `final_now' is read once before the last          *)
(* re-evaluation and reused to finalize; the request start and an early    *)
(* failure read the clock again.                                           *)
(***************************************************************************)
EXTENDS Integers, FiniteSets

CONSTANTS
    Worker,         \* dispatchers (an old and a new process overlap in a deploy)
    MaxMessages,    \* max_automatic_messages of the policy
    MaxRetries,     \* max_execution_retries of an action
    MaxRepeats,     \* repeated payment failures; 0 for an abandoned cart, whose
                    \* repetition fails with pilot_case_binding_conflict
    MaxHandoffs,    \* bound of the model: handoff requests by an operator
    MaxGen          \* bound of the model: claims of one action

None == "none"

ASSUME EngineAssumption ==
    /\ None \notin Worker
    /\ MaxMessages \in Nat \ {0}
    /\ MaxRetries \in Nat
    /\ MaxRepeats \in Nat
    /\ MaxHandoffs \in Nat
    /\ MaxGen \in Nat \ {0}

VARIABLES
    rc,             \* the recovery case
    seq,            \* its sequence
    act,            \* act[i]: the action of step i
    att,            \* att[i][g]: the attempt of action i under lease generation g
    wk,             \* wk[w]: where dispatcher w stands
    optOut,         \* the contact_opt_out_events of the buyer
    purchase,       \* what Hotmart told about a purchase of the buyer
    conversation,   \* the Chatwoot conversation linked to the case
    replied,        \* the buyer's last message, relative to the step's anchor
    timeUp,         \* expires_at, the same for every step of the sequence, passed
    repeats, handoffs   \* counters of the bounds

buyer == <<optOut, purchase, conversation, replied>>
bounds == <<repeats, handoffs>>
vars == <<rc, seq, act, att, wk, buyer, timeUp, bounds>>

Action == 1..MaxMessages
Gen == 1..MaxGen

CaseStatus == {"none", "grace_period", "active", "paused", "escalated", "won",
               "cancelled", "expired", "sequence_exhausted"}
SeqStatus == {"none", "active", "paused", "completed", "cancelled"}
Claimable == {"pending", "deferred", "retryable_failed"}
Live == Claimable \cup {"delivery_unknown"}
Terminal == {"accepted_by_chatwoot", "cancelled", "expired", "permanent_failed"}

Case == [status : CaseStatus, version : Nat]
Sequence == [status : SeqStatus, revision : Nat, accepted : Nat]
ScheduledAction ==
    [status : Live \cup Terminal \cup {None}, version : Nat, owner : Worker \cup {None},
     lease : {None, "live", "lapsed"}, gen : 0..MaxGen, count : Nat, due : BOOLEAN]
Attempt ==
    [phase : {None, "reserved", "request_started", "completed"},
     outcome : {None, "accepted", "rejected", "failed_before_request", "delivery_unknown"},
     version : Nat, revision : Nat, reason : {None, "opt_out", "handoff"},
     window : {None, "open", "closed", "infinity"},
     resolution : {None, "accepted", "not_applied", "escalated"},
     delivered : BOOLEAN]       \* ground truth: Chatwoot received the message
Dispatcher ==
    [pc : {"idle", "claimed", "decided", "reserved", "final", "cleared", "started", "posted"},
     action : Action, gen : Gen, version : Nat, revision : Nat,
     sawReply : BOOLEAN, late : BOOLEAN, result : {None, "sent", "unknown", "blocked"}]

NoAttempt == [phase |-> None, outcome |-> None, version |-> 0, revision |-> 0,
              reason |-> None, window |-> None, resolution |-> None, delivered |-> FALSE]
NoAction == [status |-> None, version |-> 0, owner |-> None, lease |-> None,
             gen |-> 0, count |-> 0, due |-> FALSE]
Idle == [pc |-> "idle", action |-> 1, gen |-> 1, version |-> 0, revision |-> 0,
         sawReply |-> FALSE, late |-> FALSE, result |-> None]

NewAction(v) == [NoAction EXCEPT !.status = "pending", !.version = v]

CaseOpen == rc.status \in {"grace_period", "active"}
SeqOpen == seq.status \in {"active", "paused"}
Permitted == optOut # "applied"
Started(i) == \E g \in Gen : att[i][g].phase = "request_started"
-----------------------------------------------------------------------------
\* Planning, and what time does to an action.

Init ==
    /\ rc = [status |-> "none", version |-> 0]
    /\ seq = [status |-> "none", revision |-> 0, accepted |-> 0]
    /\ act = [i \in Action |-> NoAction]
    /\ att = [i \in Action |-> [g \in Gen |-> NoAttempt]]
    /\ wk = [w \in Worker |-> Idle]
    /\ optOut = "none" /\ purchase = "none" /\ conversation = "none" /\ replied = "never"
    /\ timeUp = FALSE
    /\ repeats = 0 /\ handoffs = 0

Planned(caseStatus, seqStatus, actionStatus, v) ==
    /\ rc.status = "none"
    /\ rc' = [status |-> caseStatus, version |-> v]
    /\ seq' = [status |-> seqStatus, revision |-> v, accepted |-> 0]
    /\ act' = [act EXCEPT ![1] = [NewAction(1) EXCEPT !.status = actionStatus]]
    /\ UNCHANGED <<att, wk, optOut, conversation, replied, timeUp, bounds>>

\* plan_cart_recovery and its wrappers, or plan_payment_failure_recovery.
PlanRecovery ==
    /\ purchase = "none"
    /\ Planned("grace_period", "active", "pending", 1)
    /\ UNCHANGED purchase

\* Same transaction, deferred triggers: the purchase was stored before the plan.
StopForKnownPurchase ==
    /\ purchase = "known"
    /\ Planned("won", "completed", "cancelled", 2)
    /\ purchase' = "applied"

FailClosedAmbiguousKnownPurchase ==
    /\ purchase = "known"
    /\ Planned("paused", "paused", "cancelled", 2)
    /\ purchase' = "ambiguous"

BecomesDue(i) ==
    /\ act[i].status \in Claimable /\ ~act[i].due
    /\ act' = [act EXCEPT ![i].due = TRUE]
    /\ UNCHANGED <<rc, seq, att, wk, buyer, timeUp, bounds>>

LeaseLapses(i) ==
    /\ act[i].lease = "live"
    /\ act' = [act EXCEPT ![i].lease = "lapsed"]
    /\ UNCHANGED <<rc, seq, att, wk, buyer, timeUp, bounds>>

TimeUp ==
    /\ rc.status # "none" /\ ~timeUp
    /\ timeUp' = TRUE
    /\ UNCHANGED <<rc, seq, act, att, wk, buyer, bounds>>

\* reconciliation_deadline passes.
WindowCloses(i, g) ==
    /\ att[i][g].window = "open"
    /\ att' = [att EXCEPT ![i][g].window = "closed"]
    /\ UNCHANGED <<rc, seq, act, wk, buyer, timeUp, bounds>>
-----------------------------------------------------------------------------
\* The dispatcher: claim, re-evaluate, reserve.

Back(w) == wk' = [wk EXCEPT ![w] = Idle]

\* Fence of every call of a lease holder, its expiry aside.
HoldsLease(w) ==
    LET a == act[wk[w].action]
    IN a.owner = w /\ a.gen = wk[w].gen /\ a.status \in Claimable

Attempted(w) == att[wk[w].action][wk[w].gen]

SequenceEnds(status) ==
    \/ /\ seq.status = "active"
       /\ seq' = [seq EXCEPT !.status = status, !.revision = @ + 1]
    \/ seq.status # "active" /\ UNCHANGED seq

CaseBecomes(status) ==
    \/ CaseOpen /\ rc' = [status |-> status, version |-> rc.version + 1]
    \/ ~CaseOpen /\ UNCHANGED rc

\* The action leaves its lease in `status'.
ActionBecomes(i, status) ==
    act' = [act EXCEPT ![i].status = status, ![i].owner = None, ![i].lease = None]

\* Mutant of Claim: attempts in flight are not looked at.
ClaimInFlight(w, i) ==
    /\ wk[w].pc = "idle" /\ ~timeUp
    /\ act[i].status \in Claimable /\ act[i].due /\ act[i].lease # "live"
    /\ act[i].gen < MaxGen
    /\ act' = [act EXCEPT ![i].owner = w, ![i].lease = "live", ![i].gen = @ + 1]
    /\ wk' = [wk EXCEPT ![w] = [Idle EXCEPT !.pc = "claimed", !.action = i,
                                !.gen = act[i].gen + 1, !.sawReply = (replied = "after_anchor")]]
    /\ UNCHANGED <<rc, seq, att, buyer, timeUp, bounds>>

\* claim_due_followup_actions on an action that can still run...
Claim(w, i) ==
    /\ wk[w].pc = "idle" /\ ~timeUp
    /\ act[i].status \in Claimable /\ act[i].due /\ act[i].lease # "live"
    /\ act[i].gen < MaxGen
    /\ ~Started(i)
    /\ act' = [act EXCEPT ![i].owner = w, ![i].lease = "live", ![i].gen = @ + 1]
    /\ wk' = [wk EXCEPT ![w] = [Idle EXCEPT !.pc = "claimed", !.action = i,
                                !.gen = act[i].gen + 1, !.sawReply = (replied = "after_anchor")]]
    /\ UNCHANGED <<rc, seq, att, buyer, timeUp, bounds>>

\* Mutant of SweepExpired: it skips the actions of dead dispatchers.
SweepUnleased(i) ==
    /\ timeUp
    /\ act[i].status \in Claimable /\ act[i].lease = None
    /\ ActionBecomes(i, "expired")
    /\ SequenceEnds("completed")
    /\ CaseBecomes("expired")
    /\ UNCHANGED <<att, wk, buyer, timeUp, bounds>>

\* ... and its sweep, which ends one that expired without a holder.
SweepExpired(i) ==
    /\ timeUp
    /\ act[i].status \in Claimable /\ act[i].lease # "live"
    /\ ActionBecomes(i, "expired")
    /\ SequenceEnds("completed")
    /\ CaseBecomes("expired")
    /\ UNCHANGED <<att, wk, buyer, timeUp, bounds>>

\* What reevaluate_followup_action finds before it asks Chatwoot anything.
Blocked == ~Permitted
BoughtElsewhere == Permitted /\ purchase = "other_offer"
StateChanged(i) == \/ ~CaseOpen
                   \/ seq.status # "active"
                   \/ rc.version # act[i].version
Clear(i) == Permitted /\ purchase # "other_offer" /\ ~StateChanged(i)
ConversationPaused == conversation = "paused"

\* Every decision but `execute'; whatever the caller reserved stays reserved.
Decide(w) ==
    LET i == wk[w].action
        Cancel(seqStatus, caseStatus) ==
            /\ ActionBecomes(i, "cancelled")
            /\ SequenceEnds(seqStatus)
            /\ CaseBecomes(caseStatus)
    IN /\ HoldsLease(w)
       /\ Back(w)
       /\ \/ /\ wk[w].late                                   \* expire
             /\ ActionBecomes(i, "expired")
             /\ SequenceEnds("completed") /\ CaseBecomes("expired")
          \/ /\ ~wk[w].late
             /\ \/ Blocked /\ Cancel("completed", "cancelled")
                \/ BoughtElsewhere /\ Cancel("completed", "cancelled")
                \/ /\ Permitted /\ purchase # "other_offer" /\ StateChanged(i)
                   /\ Cancel("paused", "paused")
                \/ /\ Clear(i) /\ ConversationPaused
                   /\ Cancel("paused", "paused")
                \/ /\ Clear(i) /\ ~ConversationPaused
                   /\ \/ Cancel("paused", "escalated")       \* identity, policy, anchor
                      \/ /\ act' = [act EXCEPT ![i].status = "deferred", ![i].owner = None,
                                               ![i].lease = None, ![i].due = FALSE]
                         /\ UNCHANGED <<rc, seq>>
                \/ /\ Clear(i) /\ ~ConversationPaused /\ ~(i > 1 /\ wk[w].sawReply)
                   /\ Cancel("completed", "cancelled")       \* the flow was turned off
                \/ /\ Clear(i) /\ ~ConversationPaused /\ i > 1
                   /\ \/ /\ wk[w].sawReply                   \* the case stays open
                         /\ ActionBecomes(i, "cancelled")
                         /\ SequenceEnds("completed") /\ UNCHANGED rc
                      \/ ~wk[w].sawReply /\ Cancel("paused", "paused")   \* Chatwoot status

\* The decision `execute'.
MayExecute(w) ==
    /\ HoldsLease(w)
    /\ ~wk[w].late
    /\ Clear(wk[w].action) /\ ~ConversationPaused
    /\ ~(wk[w].action > 1 /\ wk[w].sawReply)

ReevaluateNo(w) ==
    /\ wk[w].pc = "claimed"
    /\ Decide(w)
    /\ UNCHANGED <<att, buyer, timeUp, bounds>>

ReevaluateYes(w) ==
    /\ wk[w].pc = "claimed"
    /\ MayExecute(w)
    /\ wk' = [wk EXCEPT ![w].pc = "decided", ![w].version = rc.version,
                        ![w].revision = seq.revision]
    /\ UNCHANGED <<rc, seq, act, att, buyer, timeUp, bounds>>

\* reserve_followup_delivery_attempt
Reserve(w) ==
    LET i == wk[w].action
    IN /\ wk[w].pc = "decided"
       /\ HoldsLease(w)
       /\ rc.version = wk[w].version /\ act[i].version = wk[w].version
       /\ seq.revision = wk[w].revision
       /\ CaseOpen /\ seq.status = "active"
       /\ act' = [act EXCEPT ![i].count = @ + 1]
       /\ att' = [att EXCEPT ![i][wk[w].gen] =
                     [NoAttempt EXCEPT !.phase = "reserved", !.version = wk[w].version,
                                       !.revision = wk[w].revision]]
       /\ wk' = [wk EXCEPT ![w].pc = "reserved"]
       /\ UNCHANGED <<rc, seq, buyer, timeUp, bounds>>
-----------------------------------------------------------------------------
\* The dispatcher: from the reservation to the request.

\* The call raises, or the process dies: the lease stays until it lapses.
Abandon(w) ==
    /\ wk[w].pc # "idle"
    /\ Back(w)
    /\ UNCHANGED <<rc, seq, act, att, buyer, timeUp, bounds>>

\* _finalize_pre_request_failure, which needs the lease to be still running.
FailBeforeRequest(w) ==
    LET i == wk[w].action
    IN /\ wk[w].pc \in {"reserved", "final", "cleared"}
       /\ HoldsLease(w) /\ act[i].lease = "live"
       /\ Attempted(w).phase = "reserved"
       /\ att' = [att EXCEPT ![i][wk[w].gen].phase = "completed",
                             ![i][wk[w].gen].outcome = "failed_before_request"]
       /\ \/ /\ act[i].count <= MaxRetries /\ ~timeUp
             /\ act' = [act EXCEPT ![i].status = "retryable_failed", ![i].owner = None,
                                   ![i].lease = None, ![i].due = FALSE]
          \/ /\ act[i].count <= MaxRetries                  \* retry_beyond_expiration
             /\ ActionBecomes(i, "expired")
          \/ ActionBecomes(i, "permanent_failed")           \* out of retries, or not retryable
       /\ Back(w)
       /\ UNCHANGED <<rc, seq, buyer, timeUp, bounds>>

\* The attempt was never used, and closes with its action, its sequence and its case.
CloseUnsent(w, actionStatus) ==
    /\ act[wk[w].action].owner = w /\ act[wk[w].action].gen = wk[w].gen
    /\ act[wk[w].action].lease = "live"
    /\ Attempted(w).phase = "reserved"
    /\ att' = [att EXCEPT ![wk[w].action][wk[w].gen].phase = "completed",
                          ![wk[w].action][wk[w].gen].outcome = "failed_before_request"]
    /\ ActionBecomes(wk[w].action, actionStatus)
    /\ Back(w)
    /\ UNCHANGED <<buyer, timeUp, bounds>>

\* close_recovery_case_segment_coupon_v1, for the second and the last touch of a cart.
CloseForSegmentCoupon(w) ==
    /\ wk[w].pc = "reserved" /\ wk[w].action > 1 /\ MaxRepeats = 0
    /\ act[wk[w].action].status \in Claimable
    /\ CloseUnsent(w, "permanent_failed")
    /\ SequenceEnds("completed")
    /\ CaseBecomes("cancelled")

\* mark_flow_engine_request_started_v1 answers `terminado': the flow was turned off.
RunTerminated(w) ==
    /\ wk[w].pc = "cleared"
    /\ CloseUnsent(w, "cancelled")
    /\ \/ SeqOpen /\ seq' = [seq EXCEPT !.status = "completed", !.revision = @ + 1]
       \/ ~SeqOpen /\ UNCHANGED seq
    /\ \/ /\ rc.status \in {"grace_period", "active", "paused"}
          /\ rc' = [status |-> "cancelled", version |-> rc.version + 1]
       \/ rc.status \notin {"grace_period", "active", "paused"} /\ UNCHANGED rc

\* final_now and the evidence of the last re-evaluation, whose fence is read at final_now.
ReadClock(w) ==
    /\ wk[w].pc = "reserved"
    /\ HoldsLease(w) /\ act[wk[w].action].lease = "live"
    /\ wk' = [wk EXCEPT ![w].pc = "final", ![w].late = timeUp,
                        ![w].sawReply = (replied = "after_anchor")]
    /\ UNCHANGED <<rc, seq, act, att, buyer, timeUp, bounds>>

FinalNo(w) ==
    /\ wk[w].pc = "final"
    /\ Decide(w)
    /\ UNCHANGED <<att, buyer, timeUp, bounds>>

FinalYes(w) ==
    /\ wk[w].pc = "final"
    /\ MayExecute(w)
    /\ rc.version = Attempted(w).version /\ seq.revision = Attempted(w).revision
    /\ wk' = [wk EXCEPT ![w].pc = "cleared"]
    /\ UNCHANGED <<rc, seq, act, att, buyer, timeUp, bounds>>

\* The guard of every request start looks for an opt-out, an unmatched one included.
PendingOptOutStop == optOut # "none"

\* mark_..._request_started; when it refuses, the attempt stays reserved (Abandon).
MarkRequestStarted(w) ==
    LET i == wk[w].action
    IN /\ wk[w].pc = "cleared"
       /\ ~PendingOptOutStop
       /\ Attempted(w).phase = "reserved"
       /\ rc.version = Attempted(w).version /\ seq.revision = Attempted(w).revision
       /\ CaseOpen /\ seq.status = "active"
       /\ HoldsLease(w) /\ act[i].lease = "live" /\ ~timeUp
       /\ att' = [att EXCEPT ![i][wk[w].gen].phase = "request_started"]
       /\ wk' = [wk EXCEPT ![w].pc = "started"]
       /\ UNCHANGED <<rc, seq, act, buyer, timeUp, bounds>>

\* send_first_touch or send_followup: what happened and what the caller learns of it.
Post(w, delivered, result) ==
    /\ wk[w].pc = "started"
    /\ result = "sent" => delivered
    /\ result = "blocked" => ~delivered
    /\ att' = [att EXCEPT ![wk[w].action][wk[w].gen].delivered = delivered]
    /\ wk' = [wk EXCEPT ![w].pc = "posted", ![w].result = result]
    /\ UNCHANGED <<rc, seq, act, buyer, timeUp, bounds>>
-----------------------------------------------------------------------------
\* Finalization.

Unresolved(i, g) == att[i][g].outcome = "delivery_unknown" /\ att[i][g].resolution = None

\* v_authoritative_current of the reconciliation...
Current(i, g) ==
    /\ rc.version = att[i][g].version
    /\ seq.revision = att[i][g].revision
    /\ CaseOpen /\ seq.status = "active"
    /\ act[i].status \in Live

\* ... and of the finalization, its expiry aside.
Authoritative(i, g) == Current(i, g) /\ Permitted /\ ~ConversationPaused

\* record_and_finalize_followup_acceptance accepts what is in flight, or unknown and unresolved.
Acceptable(i, g) ==
    \/ att[i][g].phase = "request_started"
    \/ Unresolved(i, g)

Accepted(i, g) ==
    att' = [att EXCEPT ![i][g] =
               [@ EXCEPT !.phase = "completed", !.outcome = "accepted", !.reason = None,
                         !.window = None,
                         !.resolution = IF att[i][g].phase = "completed"
                                        THEN "accepted" ELSE None]]

LinksConversation ==
    /\ conversation' = IF conversation = "none" THEN "open" ELSE conversation
    /\ UNCHANGED <<optOut, purchase>>

\* The anchor moves to the accepted message: earlier replies do not count any more.
AnchorMoves ==
    replied' = IF replied = "after_anchor" THEN "before_anchor" ELSE replied

\* An acceptance that advances the sequence, to a next step...
AcceptWithSuccessor(i) ==
    /\ seq.accepted + 1 < MaxMessages
    /\ seq' = [seq EXCEPT !.revision = @ + 1, !.accepted = @ + 1]
    /\ rc' = [status |-> "active", version |-> rc.version + 1]
    /\ act' = [act EXCEPT ![i].status = "accepted_by_chatwoot", ![i].owner = None,
                          ![i].lease = None,
                          ![i + 1] = NewAction(rc.version + 1)]
    /\ AnchorMoves

\* ... or to its end (policy_exhausted, next_step_outside_expiration).
AcceptLast(i) ==
    /\ seq' = [status |-> "completed", revision |-> seq.revision + 2,
               accepted |-> seq.accepted + 1]
    /\ rc' = [status |-> "sequence_exhausted", version |-> rc.version + 2]
    /\ ActionBecomes(i, "accepted_by_chatwoot")
    /\ AnchorMoves

\* The engine moved on meanwhile: the acceptance is kept and nothing follows from it.
AcceptOnly(i) ==
    /\ ActionBecomes(i, "accepted_by_chatwoot")
    /\ UNCHANGED <<seq, rc, replied>>

RecordAcceptance(i, g, expired) ==
    /\ Acceptable(i, g)
    /\ Accepted(i, g)
    /\ LinksConversation
    /\ \/ Authoritative(i, g) /\ ~expired /\ AcceptWithSuccessor(i)
       \/ Authoritative(i, g) /\ ~expired /\ AcceptLast(i)
       \/ ~(Authoritative(i, g) /\ ~expired) /\ AcceptOnly(i)

FinalizeSent(w) ==
    /\ wk[w].pc = "posted" /\ wk[w].result = "sent"
    /\ RecordAcceptance(wk[w].action, wk[w].gen, FALSE)
    /\ Back(w)
    /\ UNCHANGED <<timeUp, bounds>>

\* Mutant of OptedOutNotApplied: the resolution is written into the outcome.
OptedOutOutcome(i, g) ==
    /\ Unresolved(i, g) /\ att[i][g].reason = "opt_out"
    /\ att' = [att EXCEPT ![i][g].outcome = "not_applied", ![i][g].resolution = "not_applied",
                          ![i][g].window = None]
    /\ ActionBecomes(i, "cancelled")

\* _finalize_opted_out_followup_not_applied
OptedOutNotApplied(i, g) ==
    /\ Unresolved(i, g) /\ att[i][g].reason = "opt_out"
    /\ att' = [att EXCEPT ![i][g].outcome = "rejected", ![i][g].resolution = "not_applied",
                          ![i][g].window = None]
    /\ ActionBecomes(i, "cancelled")

\* Mutant of FinalizeUnknown: the action keeps its status.
UnknownKeepsStatus(w) ==
    LET i == wk[w].action
        g == wk[w].gen
    IN /\ wk[w].pc = "posted" /\ wk[w].result \in {"unknown", "sent"}
       /\ att[i][g].phase = "request_started"
       /\ att' = [att EXCEPT ![i][g].phase = "completed", ![i][g].outcome = "delivery_unknown",
                             ![i][g].window = "open"]
       /\ ActionBecomes(i, act[i].status)
       /\ Back(w)
       /\ UNCHANGED <<rc, seq, buyer, timeUp, bounds>>

\* Inconclusive, or sent but its acceptance could not be recorded.
FinalizeUnknown(w) ==
    LET i == wk[w].action
        g == wk[w].gen
    IN /\ wk[w].pc = "posted" /\ wk[w].result \in {"unknown", "sent"}
       /\ att[i][g].phase = "request_started"
       /\ att' = [att EXCEPT ![i][g].phase = "completed", ![i][g].outcome = "delivery_unknown",
                             ![i][g].window = "open"]
       /\ \/ Authoritative(i, g) /\ ActionBecomes(i, "delivery_unknown")
          \/ ~Authoritative(i, g) /\ ActionBecomes(i, act[i].status)
       /\ Back(w)
       /\ UNCHANGED <<rc, seq, buyer, timeUp, bounds>>

\* The sender refused before it delivered anything.
FinalizeBlocked(w) ==
    LET i == wk[w].action
        g == wk[w].gen
    IN /\ wk[w].pc = "posted" /\ wk[w].result = "blocked"
       /\ \/ /\ att[i][g].phase = "request_started"
             /\ att' = [att EXCEPT ![i][g].phase = "completed", ![i][g].outcome = "rejected"]
             /\ \/ Authoritative(i, g) /\ ActionBecomes(i, "permanent_failed")
                \/ ~Authoritative(i, g) /\ ActionBecomes(i, act[i].status)
          \/ OptedOutNotApplied(i, g)
       /\ Back(w)
       /\ UNCHANGED <<rc, seq, buyer, timeUp, bounds>>
-----------------------------------------------------------------------------
\* What stops the case.

Completed(r, outcome, reason, window) ==
    [r EXCEPT !.phase = "completed", !.outcome = outcome, !.reason = reason, !.window = window]

\* Mutant of Stopped: requests in flight are left to their dispatcher.
StoppedBeforeRequest(r, reason, window) ==
    IF r.phase = "reserved" THEN Completed(r, "failed_before_request", None, None) ELSE r

\* No request started: nothing can have been sent.  Started: nobody knows.
Stopped(r, reason, window) ==
    CASE r.phase = "reserved" -> Completed(r, "failed_before_request", None, None)
      [] r.phase = "request_started" -> Completed(r, "delivery_unknown", reason, window)
      [] OTHER -> r

StopAttempts(S, reason, window) ==
    att' = [i \in Action |->
               IF act[i].status \in S
               THEN [g \in Gen |-> Stopped(att[i][g], reason, window)]
               ELSE att[i]]

StopActions ==
    act' = [i \in Action |->
               IF act[i].status \in Claimable
               THEN [act[i] EXCEPT !.owner = None, !.lease = None,
                         !.status = IF Started(i) THEN "delivery_unknown" ELSE "cancelled"]
               ELSE act[i]]

\* apply_hotmart_purchase_approved, when one open case of the buyer matches the purchase...
ApplyPurchase ==
    /\ purchase \in {"none", "other_offer"}
    /\ rc.status \in {"grace_period", "active", "paused"} /\ SeqOpen
    /\ StopActions
    /\ StopAttempts(Claimable, None, "open")
    /\ seq' = [seq EXCEPT !.status = "completed", !.revision = @ + 1]
    /\ rc' = [status |-> "won", version |-> rc.version + 1]
    /\ purchase' = "applied"
    /\ UNCHANGED <<wk, optOut, conversation, replied, timeUp, bounds>>

\* ... when several do: it stops them and leaves them to a person...
AmbiguousPurchase ==
    /\ purchase \in {"none", "other_offer"}
    /\ rc.status \in {"grace_period", "active", "paused"} /\ SeqOpen
    /\ StopActions
    /\ StopAttempts(Claimable, None, "open")
    /\ SequenceEnds("paused")
    /\ CaseBecomes("paused")
    /\ purchase' = "ambiguous"
    /\ UNCHANGED <<wk, optOut, conversation, replied, timeUp, bounds>>

\* ... when none does yet: the event fails, and the plan will find it...
KeepPurchase ==
    /\ purchase = "none" /\ rc.status = "none"
    /\ purchase' = "known"
    /\ UNCHANGED <<rc, seq, act, att, wk, optOut, conversation, replied, timeUp, bounds>>

\* ... or it is of another offer of the product, which only a re-evaluation looks for.
BuyOtherOffer ==
    /\ purchase = "none" /\ rc.status # "none"
    /\ purchase' = "other_offer"
    /\ UNCHANGED <<rc, seq, act, att, wk, optOut, conversation, replied, timeUp, bounds>>

\* apply_chatwoot_inbound_opt_out, its author unknown so far...
RecordOptOut ==
    /\ optOut = "none"
    /\ optOut' = "unmatched"
    /\ UNCHANGED <<rc, seq, act, att, wk, purchase, conversation, replied, timeUp, bounds>>

\* ... or known: contact, attempts, actions, sequence and case stop together, and the
\* conversation in which it was said.
ApplyOptOut ==
    /\ optOut \in {"none", "unmatched"}
    /\ optOut' = "applied"
    /\ \/ conversation # "none" /\ conversation' = "paused"
       \/ UNCHANGED conversation
    /\ \/ /\ rc.status \in {"grace_period", "active", "paused"}
          /\ StopActions
          /\ StopAttempts(Live, "opt_out", "open")
          /\ \/ SeqOpen /\ seq' = [seq EXCEPT !.status = "cancelled", !.revision = @ + 1]
             \/ ~SeqOpen /\ UNCHANGED seq
          /\ rc' = [status |-> "cancelled", version |-> rc.version + 1]
       \/ /\ rc.status \notin {"grace_period", "active", "paused"}
          /\ UNCHANGED <<rc, seq, act, att>>
    /\ UNCHANGED <<wk, purchase, replied, timeUp, bounds>>

\* request_human_handoff
Handoff ==
    /\ conversation # "none"
    /\ rc.status \in {"grace_period", "active", "paused", "escalated", "expired"}
    /\ StopActions
    /\ StopAttempts(Live, "handoff", "infinity")
    /\ \/ SeqOpen /\ seq' = [seq EXCEPT !.status = "paused", !.revision = @ + 1]
       \/ ~SeqOpen /\ UNCHANGED seq
    /\ \/ /\ rc.status \in {"grace_period", "active", "paused"}
          /\ rc' = [status |-> "paused", version |-> rc.version + 1]
       \/ rc.status \in {"escalated", "expired"} /\ UNCHANGED rc
    /\ conversation' = "paused"
    /\ UNCHANGED <<optOut, purchase, replied, timeUp, repeats>>

HandoffByOperator ==
    /\ handoffs < MaxHandoffs
    /\ handoffs' = handoffs + 1
    /\ Handoff
    /\ UNCHANGED wk

\* The agent proposes a handoff instead of a message: only under its own reservation.
HandoffByAgent(w) ==
    /\ wk[w].pc = "reserved"
    /\ HoldsLease(w) /\ act[wk[w].action].lease = "live"
    /\ Attempted(w).phase = "reserved"
    /\ Handoff
    /\ Back(w)
    /\ UNCHANGED handoffs

\* A repeated failure joins the case: its version moves, and with it what the live
\* actions expect.  Nothing here looks at the attempts.
RepeatPaymentFailure ==
    /\ repeats < MaxRepeats
    /\ rc.status \in {"grace_period", "active", "paused", "sequence_exhausted", "won", "escalated"}
    /\ repeats' = repeats + 1
    /\ rc' = [rc EXCEPT !.version = @ + 1]
    /\ act' = [i \in Action |->
                  IF act[i].status \in Claimable
                  THEN [act[i] EXCEPT !.version = rc.version + 1,
                                      !.due = @ /\ (i > 1 \/ seq.status # "active")]
                  ELSE act[i]]
    /\ UNCHANGED <<seq, att, wk, buyer, timeUp, handoffs>>
-----------------------------------------------------------------------------
\* The conversation, which belongs to the buyer and to the inbound agent too.

BuyerReplies ==
    /\ conversation # "none" /\ replied # "after_anchor"
    /\ replied' = "after_anchor"
    /\ UNCHANGED <<rc, seq, act, att, wk, optOut, purchase, conversation, timeUp, bounds>>

\* request_inbound_human_handoff pauses the conversation and knows no recovery case;
\* resume_paused_conversation gives it back.
InboundHandoff ==
    /\ conversation = "open" /\ replied # "never"
    /\ conversation' = "paused"
    /\ UNCHANGED <<rc, seq, act, att, wk, optOut, purchase, replied, timeUp, bounds>>

ResumeConversation ==
    /\ conversation = "paused" /\ replied # "never" /\ Permitted
    /\ conversation' = "open"
    /\ UNCHANGED <<rc, seq, act, att, wk, optOut, purchase, replied, timeUp, bounds>>
-----------------------------------------------------------------------------
\* The operator who reconciles an unknown delivery against Chatwoot.

ReconcileAccepted(i, g) ==
    /\ Unresolved(i, g) /\ att[i][g].window # "closed"
    /\ att[i][g].delivered
    /\ RecordAcceptance(i, g, timeUp)
    /\ UNCHANGED <<wk, timeUp, bounds>>

ReconcileNotApplied(i, g) ==
    /\ Unresolved(i, g)
    /\ ~att[i][g].delivered
    /\ \/ OptedOutNotApplied(i, g)
       \/ /\ att[i][g].reason # "opt_out" /\ att[i][g].window = "open"
          /\ Current(i, g) /\ ~timeUp
          /\ act[i].count <= MaxRetries
          /\ att' = [att EXCEPT ![i][g].outcome = "rejected", ![i][g].reason = None,
                                ![i][g].resolution = "not_applied", ![i][g].window = None]
          /\ \/ /\ Authoritative(i, g)
                /\ act' = [act EXCEPT ![i].status = "retryable_failed", ![i].owner = None,
                                      ![i].lease = None, ![i].due = FALSE]
             \/ ~Authoritative(i, g) /\ ActionBecomes(i, act[i].status)
    /\ UNCHANGED <<rc, seq, wk, buyer, timeUp, bounds>>

ReconcileEscalated(i, g) ==
    /\ Unresolved(i, g) /\ att[i][g].window = "closed"
    /\ att' = [att EXCEPT ![i][g].resolution = "escalated"]
    /\ ActionBecomes(i, act[i].status)
    /\ SequenceEnds("paused")
    /\ CaseBecomes("paused")
    /\ UNCHANGED <<wk, buyer, timeUp, bounds>>
-----------------------------------------------------------------------------
DispatcherStep(w) ==
    \/ \E i \in Action : Claim(w, i)
    \/ ReevaluateNo(w) \/ ReevaluateYes(w) \/ Reserve(w)
    \/ FailBeforeRequest(w) \/ HandoffByAgent(w) \/ CloseForSegmentCoupon(w)
    \/ ReadClock(w) \/ FinalNo(w) \/ FinalYes(w) \/ MarkRequestStarted(w) \/ RunTerminated(w)
    \/ \E delivered \in BOOLEAN, result \in {"sent", "unknown", "blocked"} :
          Post(w, delivered, result)
    \/ FinalizeSent(w) \/ FinalizeUnknown(w) \/ FinalizeBlocked(w)

Planning == PlanRecovery \/ StopForKnownPurchase \/ FailClosedAmbiguousKnownPurchase

Stop ==
    \/ ApplyPurchase \/ AmbiguousPurchase \/ KeepPurchase \/ BuyOtherOffer
    \/ RecordOptOut \/ ApplyOptOut
    \/ HandoffByOperator \/ RepeatPaymentFailure

Conversation == BuyerReplies \/ InboundHandoff \/ ResumeConversation

Reconcile(i, g) ==
    \/ ReconcileAccepted(i, g) \/ ReconcileNotApplied(i, g) \/ ReconcileEscalated(i, g)

Next ==
    \/ Planning \/ TimeUp
    \/ \E i \in Action : BecomesDue(i) \/ LeaseLapses(i) \/ SweepExpired(i)
    \/ \E i \in Action, g \in Gen : WindowCloses(i, g) \/ Reconcile(i, g)
    \/ Stop \/ Conversation
    \/ \E w \in Worker : DispatcherStep(w) \/ Abandon(w)

Spec == Init /\ [][Next]_vars
-----------------------------------------------------------------------------
\* Type invariant.
TypeOK ==
    /\ rc \in Case
    /\ seq \in Sequence
    /\ act \in [Action -> ScheduledAction]
    /\ att \in [Action -> [Gen -> Attempt]]
    /\ wk \in [Worker -> Dispatcher]
    /\ optOut \in {"none", "unmatched", "applied"}
    /\ purchase \in {"none", "known", "other_offer", "ambiguous", "applied"}
    /\ conversation \in {"none", "open", "paused"}
    /\ replied \in {"never", "after_anchor", "before_anchor"}
    /\ timeUp \in BOOLEAN
    /\ repeats \in 0..MaxRepeats /\ handoffs \in 0..MaxHandoffs

\* No step of the sequence reaches the buyer twice, whatever was retried, reclaimed,
\* lost or reconciled on the way (one idempotency_key per action).
OneDeliveryPerAction ==
    \A i \in Action : \A g, h \in Gen :
        att[i][g].delivered /\ att[i][h].delivered => g = h

\* Principle 9 of docs/contracts/followup-engine-v1.md: "Un resultado externo incierto
\* bloquea nuevos envios de la secuencia".
UnknownBlocksSends ==
    \A i, j \in Action : \A g, h \in Gen :
        Unresolved(i, g) => att[j][h].phase # "request_started"

\* scheduled_actions_one_live_per_sequence_idx never rejects a successor: at most one
\* action is live, and a step exists only after the one before it was accepted.
OneLiveAction ==
    /\ \A i, j \in Action : act[i].status \in Live /\ act[j].status \in Live => i = j
    /\ \A i, j \in Action :
          i < j /\ act[j].status # None => act[i].status = "accepted_by_chatwoot"

\* A purchase or an opt-out leaves no work behind: no action to claim, and no attempt
\* that is still taken for one in flight.
StoppedLeavesNothing ==
    rc.status \in {"won", "cancelled"} =>
        \A i \in Action : act[i].status \notin Claimable /\ ~Started(i)

\* "Una accion terminal nunca vuelve a pending" (followup-engine-v1.md).
TerminalStaysTerminal ==
    [][\A i \in Action : act[i].status \in Terminal => act'[i].status \in Terminal]_vars

\* A case that was not planned has no actions.
UnplannedIsEmpty == rc.status = "none" => \A i \in Action : act[i].status = None

\* An attempt belongs to an action that exists.
AttemptsHaveActions ==
    \A i \in Action, g \in Gen : att[i][g] # NoAttempt => act[i].status # None

\* Only a claimable action has an owner.
OwnedIsClaimable == \A i \in Action : act[i].owner # None => act[i].status \in Claimable

\* A dispatcher works on an action that exists.
DispatchersHaveActions ==
    \A w \in Worker : wk[w].pc # "idle" => act[wk[w].action].status # None

\* An attempt cut off by an opt-out is of the last step of a cancelled case, so what the
\* operator settles about it cannot reopen the past of the sequence.
OptedOutIsLast ==
    \A i \in Action, g \in Gen : att[i][g].reason = "opt_out" =>
        /\ rc.status = "cancelled"
        /\ \A j \in Action : j > i => act[j].status = None

\* The inductive invariant behind OneLiveAction and TerminalStaysTerminal.
IInv ==
    /\ TypeOK /\ OneLiveAction
    /\ UnplannedIsEmpty /\ OwnedIsClaimable
    /\ AttemptsHaveActions /\ DispatchersHaveActions /\ OptedOutIsLast

-----------------------------------------------------------------------------
(* The inductive invariant of a cart, behind its other safety properties. *)

\* The buyer may have the message of i by attempt g, or may get it still.
Spent(i, g) ==
    \/ att[i][g].delivered
    \/ att[i][g].phase = "request_started"
    \/ Unresolved(i, g)
    \/ \E w \in Worker : wk[w].pc = "started" /\ wk[w].action = i /\ wk[w].gen = g

\* Before its request a dispatcher is in one of these positions.
Ahead == {"claimed", "decided", "reserved", "final", "cleared"}

Holder(w, i) == wk[w].pc # "idle" /\ wk[w].action = i /\ HoldsLease(w)

\* Whoever claimed i will be told not to execute: the conversation is paused, or, in a
\* case of two messages, the reply that paused it came after the anchor and was seen.
Waits(i) ==
    /\ \A w \in Worker : Holder(w, i) => wk[w].pc = "claimed"
    /\ MaxMessages <= 2 => /\ i > 1 /\ replied = "after_anchor"
                           /\ \A w \in Worker : Holder(w, i) => wk[w].sawReply
    /\ MaxMessages > 2 => conversation = "paused"

\* An action spends itself in one attempt.
SpentOnce == \A i \in Action : \A g, h \in Gen : Spent(i, g) /\ Spent(i, h) => g = h

\* While the case is open, the attempt that spent a live action is the request in
\* flight of its last claim, which is current, or unknown, and then nobody starts another.
InFlight(i, g) ==
    /\ att[i][g].phase = "request_started"
    /\ act[i].status \in Claimable /\ act[i].gen = g
    /\ Current(i, g) /\ Permitted
Waiting(i, g) == Unresolved(i, g) /\ (act[i].status \in Claimable => Waits(i))
LiveSpent ==
    \A i \in Action, g \in Gen :
        CaseOpen /\ act[i].status \in Live /\ Spent(i, g) => InFlight(i, g) \/ Waiting(i, g)

\* An accepted action has nothing open.
AcceptedSettled ==
    \A i \in Action, g \in Gen : act[i].status = "accepted_by_chatwoot" =>
        att[i][g].phase # "request_started" /\ ~Unresolved(i, g)

\* A request is in flight under an open case, or its dispatcher died and time is up.
StartedRuns ==
    \A i \in Action : Started(i) =>
        (CaseOpen /\ act[i].status \in Claimable) \/ rc.status = "expired"

StoppedUnclaimed ==
    rc.status \in {"won", "cancelled"} => \A i \in Action : act[i].status \notin Claimable

\* No two dispatchers have the same claim, and claims are counted.
ClaimsApart ==
    \A v, w \in Worker : v # w /\ wk[v].pc # "idle" /\ wk[w].pc # "idle" =>
        wk[v].action # wk[w].action \/ wk[v].gen # wk[w].gen
ClaimsCounted == \A w \in Worker : wk[w].pc # "idle" => wk[w].gen <= act[wk[w].action].gen

OutcomeIsFinal ==
    \A i \in Action, g \in Gen :
        att[i][g].outcome # None \/ att[i][g].resolution # None => att[i][g].phase = "completed"

\* The sender refuses only what it did not deliver.
RefusedUndelivered ==
    \A w \in Worker :
        wk[w].pc = "posted" /\ wk[w].result = "blocked" => ~Attempted(w).delivered

\* A dispatcher's request is in flight from its start on, unless the case was stopped.
RequestsOwned ==
    \A w \in Worker :
        /\ wk[w].pc \in Ahead => Attempted(w).phase # "request_started"
        /\ wk[w].pc = "started" /\ CaseOpen => Attempted(w).phase = "request_started"

\* The first message is accepted before there is a conversation, and the second before
\* a reply is older than the anchor; only who replied is paused without a stop.
RepliesFollow ==
    /\ act[1].status \in Live \cup {None} => conversation = "none" /\ replied = "never"
    /\ MaxMessages <= 2 /\ replied = "before_anchor" =>
            \A i \in Action : act[i].status \notin Live
    /\ CaseOpen /\ conversation = "paused" => replied # "never"

CartInv ==
    /\ SpentOnce /\ LiveSpent /\ AcceptedSettled /\ StartedRuns /\ StoppedUnclaimed
    /\ ClaimsApart /\ ClaimsCounted /\ OutcomeIsFinal /\ RefusedUndelivered
    /\ RequestsOwned /\ RepliesFollow

\* With more than two messages: the conversation is not given back to the agent while
\* the step that would go on has a delivery nobody knows of.
ResumesClear ==
    MaxMessages > 2 /\ conversation = "paused" /\ conversation' = "open" =>
        \A i \in Action, g \in Gen : act[i].status \in Claimable => ~Unresolved(i, g)
-----------------------------------------------------------------------------
\* Leases lapse, time passes, and a dispatcher polls: nothing else is needed.
Fairness ==
    /\ WF_vars(TimeUp)
    /\ \A i \in Action : WF_vars(LeaseLapses(i)) /\ WF_vars(SweepExpired(i))

FairSpec == Spec /\ Fairness

\* No action stays claimable for ever, even when every dispatcher dies.
ActionSettles ==
    \A i \in Action : act[i].status \in Claimable ~> act[i].status \notin Claimable
=============================================================================
