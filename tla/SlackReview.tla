------------------------------ MODULE SlackReview ------------------------------
(***************************************************************************)
(* The review of one correlation card in Slack: the sessions its reviewers *)
(* open (slack_correlation/store.py), the admission of their clicks        *)
(* (interactions.py, CorrelationInteractionHandler), the single            *)
(* CorrelationInteractionWorker that calls the bridge and renders, and the *)
(* operator's backfill of the card (app.py).                               *)
(*                                                                         *)
(* Every method of the store is one transaction and one action; each await *)
(* is a value of worker.pc or backfill.  The bridge, Slack and the         *)
(* reviewers are external.                                                 *)
(***************************************************************************)
EXTENDS Naturals, FiniteSets

CONSTANTS
    Sessions,      \* review tokens: one per admitted click on the card
    NoSession,
    MaxCrashes     \* bound: deaths of the process

ASSUME ConstantsAssumption ==
    /\ Sessions \cap {NoSession, "nobody", "elsewhere"} = {}
    /\ MaxCrashes \in Nat

VARIABLES
    session,     \* correlation_review_sessions and their correlation_opening_jobs
    expired,     \* the sessions whose expires_at has passed
    card,        \* state of the card's row in correlation_projections
    up,          \* the process: "down", "up", "offline" (the interaction worker was
                 \* not started), "late" (offline, /ready has started the other worker)
    worker,      \* the interaction worker: pc, session in hand, rest of its list
    backfill,    \* the operator's backfill request
    view,        \* external: the modal each reviewer sees
    opens,       \* external: the views.open requests sent for each session
    shown,       \* external: what the card shows
    updates,     \* external: the chat.update requests on the wire
    bridge,      \* external: its commands, and the resolution of the case
    crashes

vars == <<session, expired, card, up, worker, backfill, view, opens, shown, updates,
          bridge, crashes>>
slack == <<view, opens, shown, updates>>

Active == {"preparing", "confirming"}
Absent == [state |-> "absent", opening |-> "none"]
Idle == [pc |-> "round", s |-> NoSession, todo |-> {}]
Off == [pc |-> "off", s |-> NoSession, todo |-> {}]

Init ==
    /\ session = [s \in Sessions |-> Absent]
    /\ expired = {} /\ card = "pending"
    /\ up = "down" /\ worker = Off /\ backfill = "idle"
    /\ view = [s \in Sessions |-> "none"] /\ opens = [s \in Sessions |-> 0]
    /\ shown = "original" /\ updates = [k \in {"pending", "terminal"} |-> "none"]
    /\ bridge = [command |-> [s \in Sessions |-> "none"], by |-> "nobody"]
    /\ crashes = 0

-----------------------------------------------------------------------------
(* The process *)

\* Mutant: an interrupted opening is tried again.
RecoveredReopening(s) ==
    IF session[s].opening \in {"pending", "request_started"}
    THEN [session[s] EXCEPT !.opening = "pending"] ELSE session[s]

\* An opening that fails takes its session with it, if nothing was decided yet.
FailedOpening(s) ==
    [state |-> IF session[s].state = "opened" THEN "failed" ELSE session[s].state,
     opening |-> "failed"]

\* recover_incomplete: interrupted openings fail.
RecoveredSession(s) ==
    IF session[s].opening \in {"pending", "request_started"}
    THEN FailedOpening(s) ELSE session[s]

\* Mutant: an interrupted update of the card is simply due again.
RecoveredCardDue ==
    IF card \in {"claimed", "request_started"} THEN "pending" ELSE card

RecoveredCard ==
    CASE card = "claimed" -> "pending"
      [] card = "request_started" -> "delivery_unknown"
      [] OTHER -> card

Recover ==
    /\ session' = [s \in Sessions |-> RecoveredSession(s)]
    /\ card' = RecoveredCard

\* lifespan; without connectivity the interaction worker is not started, ever.
Start ==
    /\ up = "down"
    /\ Recover
    /\ \/ up' = "up" /\ worker' = Idle
       \/ up' = "offline" /\ UNCHANGED worker
    /\ UNCHANGED <<expired, backfill, slack, bridge, crashes>>

\* /ready verifies connectivity later and starts the notification worker, whose
\* start recovers the whole ledger again.
LateStart ==
    /\ up = "offline"
    /\ Recover
    /\ up' = "late"
    /\ UNCHANGED <<expired, worker, backfill, slack, bridge, crashes>>

Crash ==
    /\ up # "down" /\ crashes < MaxCrashes
    /\ up' = "down" /\ worker' = Off /\ backfill' = "idle"
    /\ crashes' = crashes + 1
    /\ UNCHANGED <<session, expired, card, slack, bridge>>

-----------------------------------------------------------------------------
(* Admission of the reviewers' clicks and submits *)

\* admit_open_interaction: the session and its opening job.
AdmitOpen(s) ==
    /\ up # "down" /\ session[s].state = "absent" /\ s \notin expired
    /\ session' = [session EXCEPT ![s] =
                     [state |-> "opened", opening |-> "pending"]]
    /\ UNCHANGED <<expired, card, up, worker, backfill, slack, bridge, crashes>>

\* The answer to a submit is a processing modal, if it reaches Slack in time.
Answered(s) ==
    \/ view' = [view EXCEPT ![s] = "processing"]
    \/ UNCHANGED view

\* admit_prepare_interaction: the first decision is the session's; the same one
\* again repeats nothing, another one is refused.
AdmitPrepare(s) ==
    /\ up # "down" /\ view[s] = "decision" /\ s \notin expired
    /\ session[s].opening \in {"request_started", "completed"}
    /\ session[s].state \in {"opened", "preparing", "prepared"}
    /\ session' = [session EXCEPT ![s].state = IF @ = "opened" THEN "preparing" ELSE @]
    /\ Answered(s)
    /\ UNCHANGED <<expired, card, up, worker, backfill, opens, shown, updates, bridge, crashes>>

AdmitConfirm(s) ==
    /\ up # "down" /\ view[s] = "confirm" /\ s \notin expired
    /\ session[s].state \in {"prepared", "confirming"}
    /\ session' = [session EXCEPT ![s].state = "confirming"]
    /\ Answered(s)
    /\ UNCHANGED <<expired, card, up, worker, backfill, opens, shown, updates, bridge, crashes>>

-----------------------------------------------------------------------------
(* CorrelationInteractionWorker *)

Goto(pc) == worker' = [pc |-> pc, s |-> worker.s, todo |-> worker.todo]
Release(pc) == worker' = [pc |-> pc, s |-> NoSession, todo |-> worker.todo]

\* prune_interaction_history: old terminal sessions, and open ones that expired.
Prune(s) ==
    /\ worker.pc = "round"
    /\ \/ session[s].state \in {"resolved", "failed"}
       \/ session[s].state = "opened" /\ s \in expired
    /\ session' = [session EXCEPT ![s] = [state |-> "pruned", opening |-> "none"]]
    /\ UNCHANGED <<expired, card, up, worker, backfill, slack, bridge, crashes>>

PendingOpenings ==
    /\ worker.pc = "round"
    /\ worker' = [pc |-> "openings", s |-> NoSession,
                  todo |-> {s \in Sessions : session[s].opening = "pending"}]
    /\ UNCHANGED <<session, expired, card, up, backfill, slack, bridge, crashes>>

ActiveSessions ==
    /\ worker.pc = "openings" /\ worker.todo = {}
    /\ worker' = [pc |-> "sessions", s |-> NoSession,
                  todo |-> {s \in Sessions : session[s].state \in Active}]
    /\ UNCHANGED <<session, expired, card, up, backfill, slack, bridge, crashes>>

EndRound ==
    /\ worker.pc = "sessions" /\ worker.todo = {}
    /\ worker' = Idle
    /\ UNCHANGED <<session, expired, card, up, backfill, slack, bridge, crashes>>

Take(s, pc) == worker' = [pc |-> pc, s |-> s, todo |-> worker.todo \ {s}]

\* _open: the case is read first; when the read fails the job is kept.
TakeOpening(s) ==
    /\ worker.pc = "openings" /\ s \in worker.todo
    /\ Take(s, "case")
    /\ UNCHANGED <<session, expired, card, up, backfill, slack, bridge, crashes>>

CaseUnavailable ==
    /\ worker.pc = "case"
    /\ Release("openings")
    /\ UNCHANGED <<session, expired, card, up, backfill, slack, bridge, crashes>>

\* mark_open_request_started and views.open: a request that never leaves is one
\* that Slack never serves.
OpenView ==
    /\ worker.pc = "case" /\ bridge.by = "nobody"
    /\ session' = [session EXCEPT ![worker.s].opening = "request_started"]
    /\ opens' = [opens EXCEPT ![worker.s] = @ + 1]
    /\ Goto("opening")
    /\ UNCHANGED <<expired, card, up, backfill, view, shown, updates, bridge, crashes>>

\* External: Slack shows the modal, also after the worker stopped waiting.
ShowView(s) ==
    /\ opens[s] > 0 /\ view[s] = "none"
    /\ view' = [view EXCEPT ![s] = "decision"]
    /\ UNCHANGED <<session, expired, card, up, worker, backfill, opens, shown, updates,
                   bridge, crashes>>

FinishOpening ==
    /\ worker.pc = "opening" /\ view[worker.s] # "none"
    /\ session' = [session EXCEPT ![worker.s].opening = "completed"]
    /\ Release("openings")
    /\ UNCHANGED <<expired, card, up, backfill, slack, bridge, crashes>>

\* views.open failed or nobody knows: fail_opening.
FailOpening ==
    /\ worker.pc = "opening"
    /\ session' = [session EXCEPT ![worker.s] = FailedOpening(worker.s)]
    /\ Release("openings")
    /\ UNCHANGED <<expired, card, up, backfill, slack, bridge, crashes>>

\* _prepare and _confirm start with their call to the bridge.
TakeSession(s) ==
    /\ worker.pc = "sessions" /\ s \in worker.todo
    /\ Take(s, session[s].state)
    /\ UNCHANGED <<session, expired, card, up, backfill, slack, bridge, crashes>>

\* External: the bridge prepares; the key of the session makes it one command.
Prepared(s) == IF bridge.command[s] = "none"
               THEN [bridge EXCEPT !.command[s] = "live"] ELSE bridge
Preparable(s) == bridge.command[s] # "none" \/ bridge.by = "nobody"

FinishPrepare ==
    /\ worker.pc = "preparing" /\ Preparable(worker.s)
    /\ bridge' = Prepared(worker.s)
    /\ session' = [session EXCEPT ![worker.s].state = "prepared"]
    /\ Goto("render_confirm")
    /\ UNCHANGED <<expired, card, up, backfill, slack, crashes>>

\* Evidence gone stale, or the case already resolved: fail_session.
PrepareRejected ==
    /\ worker.pc = "preparing" /\ bridge.command[worker.s] = "none"
    /\ session' = [session EXCEPT ![worker.s].state = "failed"]
    /\ Goto("render_error")
    /\ UNCHANGED <<expired, card, up, backfill, slack, bridge, crashes>>

\* No answer: the bridge may have prepared; the session is kept for the next round.
PrepareUnavailable ==
    /\ worker.pc = "preparing"
    /\ \/ UNCHANGED bridge
       \/ Preparable(worker.s) /\ bridge' = Prepared(worker.s)
    /\ Release("sessions")
    /\ UNCHANGED <<session, expired, card, up, backfill, slack, crashes>>

\* views.update is tried once; when it fails the reviewer keeps what he sees.
Render(modal) ==
    /\ \/ view' = [view EXCEPT ![worker.s] = modal]
       \/ UNCHANGED view
    /\ Release("sessions")
    /\ UNCHANGED <<session, expired, card, up, backfill, opens, shown, updates, bridge, crashes>>

RenderConfirmation == worker.pc = "render_confirm" /\ Render("confirm")
RenderError == worker.pc = "render_error" /\ Render("error")
RenderSuccess == worker.pc = "render_success" /\ Render("success")

\* External: the bridge applies a command once, and repeats its own answer.
Confirmable(s) == bridge.by = s \/ (bridge.by = "nobody" /\ bridge.command[s] = "live")
Confirmed(s) == [bridge EXCEPT !.by = s]

Confirm ==
    /\ worker.pc = "confirming" /\ Confirmable(worker.s)
    /\ bridge' = Confirmed(worker.s)
    /\ Goto("confirmed")
    /\ UNCHANGED <<session, expired, card, up, backfill, slack, crashes>>

\* Mutant: a confirmation without an answer fails the session.
ConfirmFailsForGood ==
    /\ worker.pc = "confirming"
    /\ \/ UNCHANGED bridge
       \/ Confirmable(worker.s) /\ bridge' = Confirmed(worker.s)
    /\ session' = [session EXCEPT ![worker.s].state = "failed"]
    /\ Release("sessions")
    /\ UNCHANGED <<expired, card, up, backfill, slack, crashes>>

\* Rejected (resolved by another, lapsed) or without an answer: an exception that
\* keeps the session confirming for the next round.
ConfirmFails ==
    /\ worker.pc = "confirming"
    /\ \/ UNCHANGED bridge
       \/ Confirmable(worker.s) /\ bridge' = Confirmed(worker.s)
    /\ Release("sessions")
    /\ UNCHANGED <<session, expired, card, up, backfill, slack, crashes>>

\* finish_resolution_and_begin_projection, one transaction, and chat.update; while
\* the card is not available it raises and the next round confirms again.
FinishResolution ==
    /\ worker.pc = "confirmed"
    /\ IF card \in {"pending", "accepted"}
       THEN /\ session' = [session EXCEPT ![worker.s].state = "resolved"]
            /\ card' = "request_started"
            /\ updates' = [updates EXCEPT !["terminal"] = "sent"]
            /\ Goto("projecting")
       ELSE Release("sessions") /\ UNCHANGED <<session, card, updates>>
    /\ UNCHANGED <<expired, up, backfill, view, opens, shown, bridge, crashes>>

\* finish_projection raises unless the row is request_started.
Projected(result) == card' = IF card = "request_started" THEN result ELSE card

\* What an update on the wire lets its sender record: no answer is a timeout.
Result(kind) ==
    CASE updates[kind] = "served" -> {"accepted", "delivery_unknown"}
      [] updates[kind] = "refused" -> {"rejected", "delivery_unknown"}
      [] OTHER -> {"delivery_unknown"}

FinishTerminal ==
    /\ worker.pc = "projecting"
    /\ \E result \in Result("terminal") : Projected(result)
    /\ Goto("render_success")
    /\ UNCHANGED <<session, expired, up, backfill, slack, bridge, crashes>>

-----------------------------------------------------------------------------
(* The operator's backfill of the pending card *)

ClaimProjection ==
    /\ up # "down" /\ backfill = "idle" /\ card = "pending"
    /\ card' = "claimed" /\ backfill' = "claimed"
    /\ UNCHANGED <<session, expired, up, worker, slack, bridge, crashes>>

\* The masked case is read from the unresolved ones; a failure gives the claim back.
BackfillReads ==
    /\ backfill = "claimed" /\ bridge.by = "nobody"
    /\ backfill' = "read"
    /\ UNCHANGED <<session, expired, card, up, worker, slack, bridge, crashes>>

BackfillReadFails ==
    /\ backfill = "claimed"
    /\ card' = IF card = "claimed" THEN "pending" ELSE card
    /\ backfill' = "idle"
    /\ UNCHANGED <<session, expired, up, worker, slack, bridge, crashes>>

\* mark_projection_request_started, which fails when the claim is gone, and chat.update.
BackfillStarts ==
    /\ backfill = "read"
    /\ IF card = "claimed"
       THEN /\ card' = "request_started" /\ backfill' = "waiting"
            /\ updates' = [updates EXCEPT !["pending"] = "sent"]
       ELSE backfill' = "idle" /\ UNCHANGED <<card, updates>>
    /\ UNCHANGED <<session, expired, up, worker, view, opens, shown, bridge, crashes>>

BackfillFinishes ==
    /\ backfill = "waiting"
    /\ \E result \in Result("pending") : Projected(result)
    /\ backfill' = "idle"
    /\ UNCHANGED <<session, expired, up, worker, slack, bridge, crashes>>

-----------------------------------------------------------------------------
(* External: Slack serves updates, others resolve the case, time passes *)

ServeUpdate(kind) ==
    /\ updates[kind] = "sent"
    /\ \/ updates' = [updates EXCEPT ![kind] = "served"] /\ shown' = kind
       \/ updates' = [updates EXCEPT ![kind] = "refused"] /\ UNCHANGED shown
    /\ UNCHANGED <<session, expired, card, up, worker, backfill, view, opens, bridge, crashes>>

ResolvedElsewhere ==
    /\ bridge.by = "nobody"
    /\ bridge' = [bridge EXCEPT !.by = "elsewhere"]
    /\ UNCHANGED <<session, expired, card, up, worker, backfill, slack, crashes>>

\* Ten minutes passed, or the evidence changed.
CommandLapses(s) ==
    /\ bridge.command[s] = "live"
    /\ bridge' = [bridge EXCEPT !.command[s] = "lapsed"]
    /\ UNCHANGED <<session, expired, card, up, worker, backfill, slack, crashes>>

Expire(s) ==
    /\ session[s].state # "absent" /\ s \notin expired
    /\ expired' = expired \cup {s}
    /\ UNCHANGED <<session, card, up, worker, backfill, slack, bridge, crashes>>

-----------------------------------------------------------------------------
Reviewer(s) == AdmitOpen(s) \/ AdmitPrepare(s) \/ AdmitConfirm(s)

WorkerStep ==
    \/ PendingOpenings \/ ActiveSessions \/ EndRound
    \/ \E s \in Sessions : TakeOpening(s) \/ TakeSession(s)
    \/ CaseUnavailable \/ OpenView \/ FinishOpening \/ FailOpening
    \/ FinishPrepare \/ PrepareRejected \/ PrepareUnavailable
    \/ RenderConfirmation \/ RenderError \/ RenderSuccess
    \/ Confirm \/ ConfirmFails \/ FinishResolution
    \/ FinishTerminal

Backfill == \/ ClaimProjection \/ BackfillReads \/ BackfillReadFails
            \/ BackfillStarts \/ BackfillFinishes

External == \/ \E s \in Sessions : ShowView(s) \/ CommandLapses(s) \/ Expire(s)
            \/ \E kind \in DOMAIN updates : ServeUpdate(kind)
            \/ ResolvedElsewhere

Next == \/ Start \/ LateStart \/ Crash
        \/ \E s \in Sessions : Reviewer(s) \/ Prune(s)
        \/ WorkerStep \/ Backfill \/ External

Spec == Init /\ [][Next]_vars

\* The worker loops until it is stopped, the process is restarted, sessions expire
\* and are pruned once a minute, and a bridge that is asked for ever answers.
Fairness ==
    /\ WF_vars(WorkerStep) /\ WF_vars(Start)
    /\ SF_vars(FinishPrepare \/ PrepareRejected) /\ SF_vars(Confirm)
    /\ \A s \in Sessions : WF_vars(Expire(s)) /\ SF_vars(Prune(s))

FairSpec == Spec /\ Fairness

-----------------------------------------------------------------------------
(* Properties *)

States == {"absent", "opened", "preparing", "prepared", "confirming", "resolved",
           "failed", "pruned"}
Openings == {"none", "pending", "request_started", "completed", "failed"}
Session == [state : States, opening : Openings]

\* The steps of the worker with a session in hand, and those of its list of sessions.
Opening == {"case", "opening"}
Rendering == {"render_confirm", "render_error", "render_success"}
Resolving == {"preparing", "confirming", "confirmed", "projecting"} \cup Rendering
Worker == [pc : {"off", "round", "openings", "sessions"} \cup Opening \cup Resolving,
           s : Sessions \cup {NoSession}, todo : SUBSET Sessions]
Views == {"none", "decision", "processing", "confirm", "error", "success"}
Bridge == [command : [Sessions -> {"none", "live", "lapsed"}],
           by : Sessions \cup {"nobody", "elsewhere"}]

TypeOK ==
    /\ session \in [Sessions -> Session]
    /\ expired \subseteq Sessions
    /\ card \in {"pending", "claimed", "request_started", "accepted", "rejected",
                 "delivery_unknown"}
    /\ up \in {"down", "up", "offline", "late"}
    /\ worker \in Worker
    /\ backfill \in {"idle", "claimed", "read", "waiting"}
    /\ view \in [Sessions -> Views]
    /\ opens \in [Sessions -> Nat]
    /\ shown \in {"original", "pending", "terminal"}
    /\ updates \in [{"pending", "terminal"} -> {"none", "sent", "served", "refused"}]
    /\ bridge \in Bridge
    /\ crashes \in 0..MaxCrashes

\* views.open is asked for at most once per session, whatever was interrupted: its
\* trigger is one use and an ambiguous opening is never tried again.
OpenedOnce == \A s \in Sessions : opens[s] <= 1

\* What the bridge applied is never lost by the connector: from the moment a command
\* is applied its session is confirming, and then resolved, through lost answers,
\* crashes and a card that is not available yet.
AppliedIsKept ==
    \A s \in Sessions : bridge.by = s =>
        session[s].state \in {"confirming", "resolved", "pruned"}

\* A session is resolved only by its own applied command, and then the card has been
\* given to the terminal update and is never due for a pending one again.
ResolutionProjected ==
    /\ \A s \in Sessions : session[s].state = "resolved" =>
            bridge.by = s /\ updates["terminal"] # "none" /\ card \notin {"pending", "claimed"}
    /\ updates["terminal"] # "none" => bridge.by \in Sessions

\* What ended stays ended: a session is not taken up again by a submit from a modal
\* left open, and a late update never shows as pending a case already resolved,
\* whatever is still on the wire.
EndedStays ==
    [][/\ \A s \in Sessions : session[s].state \in {"resolved", "failed", "pruned"} =>
             session'[s].state \in {session[s].state, "pruned"}
       /\ shown = "terminal" => shown' = "terminal"]_vars

\* While the worker has a session in hand, the session is where its step needs it:
\* nobody else moves it, and what is left of the list waits too.
WorkerHolds ==
    /\ worker.pc = "off" <=> up # "up"
    /\ worker.pc \in Opening \cup Resolving => worker.s \in Sessions \ worker.todo
    /\ worker.pc \in {"openings"} \cup Opening =>
         \A s \in worker.todo : session[s].opening = "pending"
    /\ worker.pc \in {"sessions"} \cup Resolving =>
         \A s \in worker.todo : session[s].state \in Active
    /\ worker.pc = "case" => session[worker.s].opening = "pending"
    /\ worker.pc = "opening" => session[worker.s].opening = "request_started"
    /\ worker.pc = "preparing" => session[worker.s].state = "preparing"
    /\ worker.pc \in {"confirming", "confirmed"} => session[worker.s].state = "confirming"
    /\ worker.pc = "confirmed" => bridge.by = worker.s
    /\ worker.pc = "projecting" => session[worker.s].state = "resolved"

\* No modal was asked for while its opening waits, nor before its click.
OpeningSound ==
    \A s \in Sessions :
        /\ opens[s] <= 1
        /\ session[s].state = "absent" \/ session[s].opening = "pending" => opens[s] = 0
        /\ session[s].state = "absent" => session[s].opening = "none"

\* The terminal update has the card for good, and a pending one still on the wire
\* keeps it out.
CardSound ==
    /\ updates["terminal"] # "none" => card \notin {"pending", "claimed"}
    /\ shown = "terminal" => updates["terminal"] # "none"
    /\ updates["pending"] = "sent" =>
         updates["terminal"] = "none" /\ card \in {"request_started", "delivery_unknown"}

\* The contract: the worker replaces the processing modal by a confirmation, a
\* success or a safe error, and a restart resumes it.
ConfirmEnds ==
    \A s \in Sessions : session[s].state = "confirming" ~>
        (session[s].state \in {"resolved", "failed", "pruned"} \/ up \in {"offline", "late"})

=============================================================================
