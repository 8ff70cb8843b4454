------------------------------ MODULE ReviewProofs ------------------------------
(***************************************************************************)
(* Proofs about the two review channels of the bridge: SlackReview, for    *)
(* any number of sessions and crashes, and DailyFeedback, for any number   *)
(* of items, callers, sessions, observations and deaths.                   *)
(***************************************************************************)
EXTENDS SlackReview, DailyFeedback, TLAPS

(***************************************************************************)
(*                              SlackReview                                *)
(***************************************************************************)


-----------------------------------------------------------------------------
(* The rows *)

\* What the type invariant says of single components.
LEMMA Typed ==
    ASSUME TypeOK
    PROVE  /\ session \in [Sessions -> Session]
           /\ \A s \in Sessions : session[s] \in Session
           /\ worker = [pc |-> worker.pc, s |-> worker.s, todo |-> worker.todo]
           /\ worker.todo \subseteq Sessions
           /\ \A s \in Sessions : opens[s] \in Nat
BY DEF TypeOK, Worker

\* A session whose state or opening is written keeps the other, and so do the others.
LEMMA PutState ==
    ASSUME TypeOK, NEW s \in Sessions, NEW st \in States
    PROVE  LET after == [session EXCEPT ![s].state = st]
           IN  /\ after \in [Sessions -> Session]
               /\ after[s] = [state |-> st, opening |-> session[s].opening]
               /\ \A t \in Sessions \ {s} : after[t] = session[t]
BY Typed DEF Session

LEMMA PutOpening ==
    ASSUME TypeOK, NEW s \in Sessions, NEW op \in Openings
    PROVE  LET after == [session EXCEPT ![s].opening = op]
           IN  /\ after \in [Sessions -> Session]
               /\ after[s] = [state |-> session[s].state, opening |-> op]
               /\ \A t \in Sessions \ {s} : after[t] = session[t]
BY Typed DEF Session

\* A session given a new row.
LEMMA PutRow ==
    ASSUME TypeOK, NEW s \in Sessions, NEW st \in States, NEW op \in Openings
    PROVE  LET after == [session EXCEPT ![s] = [state |-> st, opening |-> op]]
           IN  /\ after \in [Sessions -> Session]
               /\ after[s] = [state |-> st, opening |-> op]
               /\ \A t \in Sessions \ {s} : after[t] = session[t]
BY Typed DEF Session

\* What a recovery does to one session.
LEMMA RecoveredRow ==
    ASSUME TypeOK, NEW s \in Sessions
    PROVE  /\ RecoveredSession(s) \in Session
           /\ RecoveredSession(s).state # session[s].state =>
                session[s].state = "opened" /\ RecoveredSession(s).state = "failed"
           /\ RecoveredSession(s).opening # session[s].opening =>
                RecoveredSession(s).opening = "failed"
           /\ RecoveredSession(s).opening # "pending"
           /\ session[s].opening = "none" => RecoveredSession(s).opening = "none"
BY Typed DEF RecoveredSession, FailedOpening, Session, States, Openings

\* A failed opening.
LEMMA FailedRow ==
    ASSUME TypeOK, NEW s \in Sessions
    PROVE  LET after == [session EXCEPT ![s] = FailedOpening(s)]
           IN  /\ after \in [Sessions -> Session]
               /\ after[s] = FailedOpening(s)
               /\ after[s] \in Session
               /\ \A t \in Sessions \ {s} : after[t] = session[t]
<1>1. FailedOpening(s) \in Session
  BY Typed DEF FailedOpening, Session, States, Openings
<1> QED BY <1>1, Typed

-----------------------------------------------------------------------------
(* Types *)

LEMMA InitType == Init => TypeOK
BY ConstantsAssumption
   DEF Init, TypeOK, Absent, Off, Session, States, Openings, Worker, Views, Bridge

\* A step of the worker leaves it a worker.
LEMMA WorkerType ==
    ASSUME TypeOK
    PROVE  /\ \A s \in Sessions, pc \in Opening \cup Resolving : Take(s, pc) => worker' \in Worker
           /\ \A pc \in Opening \cup Resolving \cup {"openings", "sessions"} :
                Goto(pc) \/ Release(pc) => worker' \in Worker
BY DEF TypeOK, Worker, Take, Goto, Release

LEMMA BridgeType ==
    ASSUME TypeOK, NEW s \in Sessions
    PROVE  /\ Prepared(s) \in Bridge /\ Confirmed(s) \in Bridge
           /\ [bridge EXCEPT !.by = "elsewhere"] \in Bridge
           /\ [bridge EXCEPT !.command[s] = "lapsed"] \in Bridge
           /\ Prepared(s).by = bridge.by /\ Confirmed(s).by = s
           /\ [bridge EXCEPT !.by = "elsewhere"].by = "elsewhere"
           /\ [bridge EXCEPT !.command[s] = "lapsed"].by = bridge.by
BY DEF TypeOK, Bridge, Prepared, Confirmed

LEMMA TypeStep ==
    ASSUME TypeOK, WorkerHolds, [Next]_vars
    PROVE  TypeOK'
<1> DEFINE w == worker.s
<1> USE DEF slack
<1>0. worker.pc \in Opening \cup Resolving => w \in Sessions
  BY DEF WorkerHolds
<1>1. ASSUME session' \in [Sessions -> Session], worker' \in Worker,
             UNCHANGED <<expired, up, backfill, slack, bridge, crashes>>,
             card' = card
      PROVE  TypeOK'
  BY <1>1 DEF TypeOK
<1>2. CASE UNCHANGED vars
  BY <1>2 DEF TypeOK, vars
<1>3. CASE Start \/ LateStart
  <2>1. session' \in [Sessions -> Session]
    BY <1>3, RecoveredRow DEF Start, LateStart, Recover
  <2>2. RecoveredCard \in {"pending", "claimed", "request_started", "accepted", "rejected",
                           "delivery_unknown"}
    BY DEF RecoveredCard, TypeOK
  <2> QED BY <1>3, <2>1, <2>2 DEF Start, LateStart, Recover, TypeOK, Idle, Worker
<1>4. CASE Crash
  BY <1>4, ConstantsAssumption DEF Crash, TypeOK, Off, Worker
<1>5. ASSUME NEW s \in Sessions, AdmitOpen(s) PROVE TypeOK'
  <2>1. "opened" \in States /\ "pending" \in Openings
    BY DEF States, Openings
  <2> QED BY <1>1, <1>5, <2>1, PutRow DEF AdmitOpen, TypeOK
<1>6. ASSUME NEW s \in Sessions, AdmitPrepare(s) \/ AdmitConfirm(s) PROVE TypeOK'
  <2>1. session' \in [Sessions -> Session]
    <3>1. \A st \in States : [session EXCEPT ![s].state = st] \in [Sessions -> Session]
      BY PutState
    <3>2. (IF session[s].state = "opened" THEN "preparing" ELSE session[s].state) \in States
          /\ "confirming" \in States
      BY Typed DEF Session, States
    <3>3. \/ session' = [session EXCEPT ![s].state =
                            IF session[s].state = "opened" THEN "preparing" ELSE session[s].state]
          \/ session' = [session EXCEPT ![s].state = "confirming"]
      BY <1>6 DEF AdmitPrepare, AdmitConfirm
    <3> QED BY <3>1, <3>2, <3>3
  <2>2. view' \in [Sessions -> Views]
    BY <1>6 DEF AdmitPrepare, AdmitConfirm, Answered, TypeOK, Views
  <2> QED BY <1>6, <2>1, <2>2 DEF AdmitPrepare, AdmitConfirm, TypeOK
<1>7. ASSUME NEW s \in Sessions, Prune(s) PROVE TypeOK'
  <2>1. "pruned" \in States /\ "none" \in Openings
    BY DEF States, Openings
  <2> QED BY <1>1, <1>7, <2>1, PutRow DEF Prune, TypeOK
<1>8. CASE PendingOpenings \/ ActiveSessions \/ EndRound \/ CaseUnavailable
  <2>1. worker' \in Worker
    BY <1>8, WorkerType
       DEF PendingOpenings, ActiveSessions, EndRound, CaseUnavailable, Idle, Worker
  <2> QED BY <1>1, <1>8, <2>1
          DEF PendingOpenings, ActiveSessions, EndRound, CaseUnavailable, TypeOK
<1>9. ASSUME NEW s \in Sessions, TakeOpening(s) \/ TakeSession(s) PROVE TypeOK'
  <2>1. TakeSession(s) => session[s].state \in Resolving
    BY DEF TakeSession, WorkerHolds, Active, Resolving
  <2>2. worker' \in Worker
    BY <1>9, <2>1, WorkerType DEF TakeOpening, TakeSession, Opening
  <2> QED BY <1>1, <1>9, <2>2 DEF TakeOpening, TakeSession, TypeOK
<1>10. CASE OpenView
  <2>1. w \in Sessions /\ "request_started" \in Openings
    BY <1>0, <1>10 DEF OpenView, Opening, Openings
  <2>2. session' \in [Sessions -> Session]
    BY <1>10, <2>1, PutOpening DEF OpenView
  <2>3. opens' \in [Sessions -> Nat] /\ worker' \in Worker
    <3>1. Goto("opening") /\ opens' = [opens EXCEPT ![w] = @ + 1]
      BY <1>10 DEF OpenView
    <3>2. opens' \in [Sessions -> Nat]
      BY <2>1, <3>1 DEF TypeOK
    <3> QED BY <3>1, <3>2, WorkerType DEF Opening
  <2> QED BY <1>10, <2>2, <2>3 DEF OpenView, TypeOK
<1>11. CASE FinishOpening
  <2>1. w \in Sessions /\ "completed" \in Openings
    BY <1>0, <1>11 DEF FinishOpening, Opening, Openings
  <2>2. worker' \in Worker
    BY <1>11, WorkerType DEF FinishOpening
  <2> QED BY <1>1, <1>11, <2>1, <2>2, PutOpening DEF FinishOpening
<1>12. CASE FailOpening
  <2>1. w \in Sessions
    BY <1>0, <1>12 DEF FailOpening, Opening
  <2>2. worker' \in Worker
    BY <1>12, WorkerType DEF FailOpening
  <2> QED BY <1>1, <1>12, <2>1, <2>2, FailedRow DEF FailOpening
<1>13. CASE FinishPrepare \/ PrepareRejected
  <2>1. w \in Sessions /\ "prepared" \in States /\ "failed" \in States
    BY <1>0, <1>13 DEF FinishPrepare, PrepareRejected, Resolving, States
  <2>2. session' \in [Sessions -> Session]
    <3>1. \/ session' = [session EXCEPT ![w].state = "prepared"]
          \/ session' = [session EXCEPT ![w].state = "failed"]
      BY <1>13 DEF FinishPrepare, PrepareRejected
    <3>2. /\ [session EXCEPT ![w].state = "prepared"] \in [Sessions -> Session]
          /\ [session EXCEPT ![w].state = "failed"] \in [Sessions -> Session]
      BY <2>1, PutState
    <3> QED BY <3>1, <3>2
  <2>3. worker' \in Worker
    <3>1. Goto("render_confirm") \/ Goto("render_error")
      BY <1>13 DEF FinishPrepare, PrepareRejected
    <3> QED BY <3>1, WorkerType DEF Resolving, Rendering
  <2>4. bridge' \in {bridge, Prepared(w)}
        /\ UNCHANGED <<expired, card, up, backfill, slack, crashes>>
    BY <1>13 DEF FinishPrepare, PrepareRejected
  <2> QED BY <2>1, <2>2, <2>3, <2>4, BridgeType DEF TypeOK
<1>14. CASE PrepareUnavailable \/ Confirm \/ ConfirmFails
  <2>1. w \in Sessions
    BY <1>0, <1>14 DEF PrepareUnavailable, Confirm, ConfirmFails, Resolving
  <2>2. worker' \in Worker
    <3>1. Goto("confirmed") \/ Release("sessions")
      BY <1>14 DEF PrepareUnavailable, Confirm, ConfirmFails
    <3> QED BY <3>1, WorkerType DEF Resolving
  <2>3. bridge' \in {bridge, Prepared(w), Confirmed(w)}
        /\ UNCHANGED <<session, expired, card, up, backfill, slack, crashes>>
    BY <1>14 DEF PrepareUnavailable, Confirm, ConfirmFails
  <2> QED BY <2>1, <2>2, <2>3, BridgeType DEF TypeOK
<1>15. CASE RenderConfirmation \/ RenderError \/ RenderSuccess
  <2>1. w \in Sessions
    BY <1>0, <1>15 DEF RenderConfirmation, RenderError, RenderSuccess, Resolving, Rendering
  <2>2. worker' \in Worker
    BY <1>15, WorkerType DEF RenderConfirmation, RenderError, RenderSuccess, Render
  <2>3. view' \in [Sessions -> Views]
    BY <1>15, <2>1 DEF RenderConfirmation, RenderError, RenderSuccess, Render, TypeOK, Views
  <2> QED BY <1>15, <2>2, <2>3
          DEF RenderConfirmation, RenderError, RenderSuccess, Render, TypeOK
<1>16. CASE FinishResolution
  <2>1. w \in Sessions /\ "resolved" \in States
    BY <1>0, <1>16 DEF FinishResolution, Resolving, States
  <2>2. worker' \in Worker
    <3>1. Goto("projecting") \/ Release("sessions")
      BY <1>16 DEF FinishResolution
    <3> QED BY <3>1, WorkerType DEF Resolving
  <2>3. session' \in [Sessions -> Session]
    <3>1. session' = session \/ session' = [session EXCEPT ![w].state = "resolved"]
      BY <1>16 DEF FinishResolution
    <3>2. [session EXCEPT ![w].state = "resolved"] \in [Sessions -> Session]
      BY <2>1, PutState
    <3> QED BY <3>1, <3>2, Typed
  <2>4. /\ card' \in {card, "request_started"}
        /\ updates' \in {updates, [updates EXCEPT !["terminal"] = "sent"]}
        /\ UNCHANGED <<expired, up, backfill, view, opens, shown, bridge, crashes>>
    BY <1>16 DEF FinishResolution
  <2> QED BY <2>2, <2>3, <2>4 DEF TypeOK
<1>17. CASE FinishTerminal \/ BackfillFinishes
  <2>1. worker' \in Worker
    BY <1>17, WorkerType DEF FinishTerminal, BackfillFinishes, Resolving, Rendering, TypeOK
  <2>2. card' \in {"request_started", "accepted", "rejected", "delivery_unknown"} \cup {card}
    BY <1>17 DEF FinishTerminal, BackfillFinishes, Projected, Result
  <2> QED BY <1>17, <2>1, <2>2 DEF FinishTerminal, BackfillFinishes, TypeOK
<1>18. CASE ClaimProjection \/ BackfillReads \/ BackfillReadFails \/ BackfillStarts
  BY <1>18 DEF ClaimProjection, BackfillReads, BackfillReadFails, BackfillStarts, TypeOK
<1>19. ASSUME NEW s \in Sessions, ShowView(s) \/ Expire(s) PROVE TypeOK'
  BY <1>19 DEF ShowView, Expire, TypeOK, Views
<1>20. ASSUME NEW s \in Sessions, CommandLapses(s) PROVE TypeOK'
  BY <1>20, BridgeType DEF CommandLapses, TypeOK
<1>21. ASSUME NEW kind \in DOMAIN updates, ServeUpdate(kind) PROVE TypeOK'
  BY <1>21 DEF ServeUpdate, TypeOK
<1>22. CASE ResolvedElsewhere
  BY <1>22 DEF ResolvedElsewhere, TypeOK, Bridge
<1> QED
  BY <1>2, <1>3, <1>4, <1>5, <1>6, <1>7, <1>8, <1>9, <1>10, <1>11, <1>12, <1>13, <1>14,
     <1>15, <1>16, <1>17, <1>18, <1>19, <1>20, <1>21, <1>22
  DEF Next, Reviewer, WorkerStep, Backfill, External

-----------------------------------------------------------------------------
(* The life of a session *)

Moves == {<<"absent", "opened">>, <<"opened", "preparing">>, <<"opened", "failed">>,
          <<"opened", "pruned">>, <<"preparing", "prepared">>, <<"preparing", "failed">>,
          <<"prepared", "confirming">>, <<"confirming", "resolved">>,
          <<"resolved", "pruned">>, <<"failed", "pruned">>}

\* One session's part of a step: it keeps its row, or its state moves, or only its
\* opening does; it is resolved, and its opening put off, by one action each.
Lives(s) ==
    LET old == session[s]  new == session'[s]
    IN  /\ new.state = old.state \/ <<old.state, new.state>> \in Moves
        /\ new.state = "resolved" /\ old.state # "resolved" =>
             FinishResolution /\ worker.s = s /\ card \in {"pending", "accepted"}
        /\ new.opening = "pending" /\ old.opening # "pending" => AdmitOpen(s)
        /\ old.opening = "none" => new.opening = "none" \/ AdmitOpen(s)
        /\ new.state = "opened" /\ old.state = "absent" => AdmitOpen(s)

\* Of one session written over, the others living on as they were.
LEMMA OthersLive ==
    ASSUME NEW s \in Sessions, Lives(s), \A t \in Sessions \ {s} : session'[t] = session[t]
    PROVE  \A t \in Sessions : Lives(t)
BY DEF Lives

LEMMA StateLives ==
    ASSUME TypeOK, NEW s \in Sessions, NEW st \in States,
           session' = [session EXCEPT ![s].state = st],
           st = session[s].state \/ <<session[s].state, st>> \in Moves,
           st \notin {"opened", "resolved"}
    PROVE  \A t \in Sessions : Lives(t)
<1>1. /\ session'[s] = [state |-> st, opening |-> session[s].opening]
      /\ \A t \in Sessions \ {s} : session'[t] = session[t]
  BY PutState
<1> QED BY <1>1, OthersLive DEF Lives

LEMMA OpeningLives ==
    ASSUME TypeOK, NEW s \in Sessions, NEW op \in Openings \ {"pending"},
           session' = [session EXCEPT ![s].opening = op], session[s].opening # "none"
    PROVE  \A t \in Sessions : Lives(t)
<1>1. /\ session'[s] = [state |-> session[s].state, opening |-> op]
      /\ \A t \in Sessions \ {s} : session'[t] = session[t]
  BY PutOpening
<1> QED BY <1>1, OthersLive DEF Lives

LEMMA Living ==
    ASSUME TypeOK, WorkerHolds, [Next]_vars
    PROVE  \A s \in Sessions : Lives(s)
<1> DEFINE w == worker.s
<1>0. worker.pc \in Opening \cup Resolving => w \in Sessions
  BY DEF WorkerHolds
<1>1. CASE UNCHANGED session
  BY <1>1 DEF Lives
<1>2. CASE Start \/ LateStart
  <2>1. ASSUME NEW s \in Sessions PROVE Lives(s)
    <3>1. session'[s] = RecoveredSession(s)
      BY <1>2 DEF Start, LateStart, Recover
    <3> QED BY <3>1, RecoveredRow DEF Lives, Moves
  <2> QED BY <2>1
<1>3. ASSUME NEW s \in Sessions, AdmitOpen(s) PROVE \A t \in Sessions : Lives(t)
  <2>1. "opened" \in States /\ "pending" \in Openings /\ session[s].state = "absent"
    BY <1>3 DEF AdmitOpen, States, Openings
  <2>2. /\ session'[s] = [state |-> "opened", opening |-> "pending"]
        /\ \A t \in Sessions \ {s} : session'[t] = session[t]
    BY <1>3, <2>1, PutRow DEF AdmitOpen
  <2>3. Lives(s)
    BY <1>3, <2>1, <2>2 DEF Lives, Moves
  <2> QED BY <2>2, <2>3, OthersLive
<1>4. ASSUME NEW s \in Sessions, AdmitPrepare(s) PROVE \A t \in Sessions : Lives(t)
  <2>1. CASE session[s].state = "opened"
    <3>1. session' = [session EXCEPT ![s].state = "preparing"]
      BY <1>4, <2>1, Typed DEF AdmitPrepare, Session
    <3> QED BY <2>1, <3>1, StateLives DEF States, Moves
  <2>2. CASE session[s].state # "opened"
    <3>1. session' = [session EXCEPT ![s].state = session[s].state]
      BY <1>4, <2>2, Typed DEF AdmitPrepare, Session
    <3>2. session[s].state \in States /\ session[s].state \notin {"opened", "resolved"}
      BY <1>4, <2>2, Typed DEF AdmitPrepare, Session
    <3> QED BY <3>1, <3>2, StateLives
  <2> QED BY <2>1, <2>2
<1>5. ASSUME NEW s \in Sessions, AdmitConfirm(s) PROVE \A t \in Sessions : Lives(t)
  BY <1>5, StateLives DEF AdmitConfirm, States, Moves
<1>6. ASSUME NEW s \in Sessions, Prune(s) PROVE \A t \in Sessions : Lives(t)
  <2>1. "pruned" \in States /\ "none" \in Openings
    BY DEF States, Openings
  <2>2. /\ session'[s] = [state |-> "pruned", opening |-> "none"]
        /\ \A t \in Sessions \ {s} : session'[t] = session[t]
    BY <1>6, <2>1, PutRow DEF Prune
  <2>3. Lives(s)
    BY <1>6, <2>2 DEF Lives, Moves, Prune
  <2> QED BY <2>2, <2>3, OthersLive
<1>7. CASE OpenView
  <2>1. /\ w \in Sessions /\ session[w].opening # "none"
        /\ "request_started" \in Openings \ {"pending"}
    BY <1>0, <1>7 DEF OpenView, WorkerHolds, Opening, Openings
  <2>2. session' = [session EXCEPT ![w].opening = "request_started"]
    BY <1>7 DEF OpenView
  <2> QED BY <2>1, <2>2, OpeningLives
<1>8. CASE FinishOpening
  <2>1. w \in Sessions /\ session[w].opening # "none" /\ "completed" \in Openings \ {"pending"}
    BY <1>0, <1>8 DEF FinishOpening, WorkerHolds, Opening, Openings
  <2>2. session' = [session EXCEPT ![w].opening = "completed"]
    BY <1>8 DEF FinishOpening
  <2> QED BY <2>1, <2>2, OpeningLives
<1>9. CASE FailOpening
  <2>1. w \in Sessions /\ session[w].opening # "none"
    BY <1>0, <1>9 DEF FailOpening, WorkerHolds, Opening
  <2>2. /\ session'[w] = FailedOpening(w)
        /\ \A t \in Sessions \ {w} : session'[t] = session[t]
    BY <1>9, <2>1, FailedRow DEF FailOpening
  <2>3. Lives(w)
    BY <2>1, <2>2 DEF FailedOpening, Lives, Moves
  <2> QED BY <2>1, <2>2, <2>3, OthersLive
<1>10. CASE FinishPrepare \/ PrepareRejected
  <2>1. w \in Sessions /\ session[w].state = "preparing"
    BY <1>0, <1>10 DEF FinishPrepare, PrepareRejected, Resolving, WorkerHolds
  <2>2. \/ session' = [session EXCEPT ![w].state = "prepared"]
        \/ session' = [session EXCEPT ![w].state = "failed"]
    BY <1>10 DEF FinishPrepare, PrepareRejected
  <2> QED BY <2>1, <2>2, StateLives DEF States, Moves
<1>11. CASE FinishResolution /\ ~ UNCHANGED session
  <2>1. /\ w \in Sessions /\ session[w].state = "confirming" /\ "resolved" \in States
        /\ session' = [session EXCEPT ![w].state = "resolved"]
        /\ card \in {"pending", "accepted"}
    BY <1>0, <1>11 DEF FinishResolution, Resolving, WorkerHolds, States
  <2>2. /\ session'[w] = [state |-> "resolved", opening |-> session[w].opening]
        /\ \A t \in Sessions \ {w} : session'[t] = session[t]
    BY <2>1, PutState
  <2>3. Lives(w)
    BY <1>11, <2>1, <2>2 DEF Lives, Moves
  <2> QED BY <2>1, <2>2, <2>3, OthersLive
<1> QED
  BY <1>1, <1>2, <1>3, <1>4, <1>5, <1>6, <1>7, <1>8, <1>9, <1>10, <1>11
  DEF Next, vars, slack, Reviewer, WorkerStep, Backfill, External, Crash, ShowView, CommandLapses,
      Expire, ServeUpdate, ResolvedElsewhere, PendingOpenings, ActiveSessions, EndRound,
      TakeOpening, TakeSession, CaseUnavailable, PrepareUnavailable, RenderConfirmation,
      RenderError, RenderSuccess, Render, Confirm, ConfirmFails, FinishTerminal,
      ClaimProjection, BackfillReads, BackfillReadFails, BackfillStarts, BackfillFinishes

-----------------------------------------------------------------------------
(* The inductive invariant *)

IInv ==
    /\ TypeOK /\ WorkerHolds /\ OpeningSound /\ AppliedIsKept /\ ResolutionProjected
    /\ CardSound

LEMMA InitSound == Init => IInv
<1>1. Init => WorkerHolds
  BY DEF Init, Absent, Off, WorkerHolds, Opening, Resolving, Rendering
<1>2. Init => OpeningSound /\ AppliedIsKept /\ ResolutionProjected /\ CardSound
  BY ConstantsAssumption
     DEF Init, Absent, Off, OpeningSound, AppliedIsKept, ResolutionProjected, CardSound
<1> QED BY <1>1, <1>2, InitType DEF IInv

\* What the resolution of the case may become in a step.
LEMMA BridgeSteps ==
    ASSUME TypeOK, WorkerHolds, [Next]_vars
    PROVE  \/ bridge'.by = bridge.by
           \/ bridge.by = "nobody" /\ bridge'.by = "elsewhere"
           \/ /\ bridge.by = "nobody" /\ bridge'.by = worker.s
              /\ worker.s \in Sessions /\ session[worker.s].state = "confirming"
              /\ UNCHANGED <<session, updates>>
<1> DEFINE w == worker.s
<1>1. worker.pc \in {"preparing", "confirming"} => w \in Sessions
  BY DEF WorkerHolds, Resolving
<1>2. CASE UNCHANGED bridge
  BY <1>2
<1>3. CASE FinishPrepare \/ PrepareUnavailable
  BY <1>1, <1>3, BridgeType DEF FinishPrepare, PrepareUnavailable
<1>4. CASE Confirm \/ ConfirmFails
  <2>1. /\ w \in Sessions /\ session[w].state = "confirming"
        /\ UNCHANGED <<session, updates>>
    BY <1>1, <1>4 DEF Confirm, ConfirmFails, WorkerHolds, slack
  <2>2. \/ UNCHANGED bridge
        \/ Confirmable(w) /\ bridge' = Confirmed(w)
    BY <1>4 DEF Confirm, ConfirmFails
  <2> QED BY <1>2, <2>1, <2>2, BridgeType DEF Confirmable
<1>5. CASE ResolvedElsewhere
  BY <1>5 DEF ResolvedElsewhere, TypeOK, Bridge
<1>6. ASSUME NEW s \in Sessions, CommandLapses(s) PROVE bridge'.by = bridge.by
  BY <1>6, BridgeType DEF CommandLapses
<1> QED
  BY <1>2, <1>3, <1>4, <1>5, <1>6
  DEF Next, vars, slack, Start, LateStart, Crash, Reviewer, AdmitOpen, AdmitPrepare, AdmitConfirm,
      Prune, WorkerStep, PendingOpenings, ActiveSessions, EndRound, TakeOpening, TakeSession,
      CaseUnavailable, OpenView, FinishOpening, FailOpening, PrepareRejected, RenderConfirmation,
      RenderError, RenderSuccess, Render, FinishResolution, FinishTerminal, Backfill,
      ClaimProjection, BackfillReads, BackfillReadFails, BackfillStarts, BackfillFinishes,
      External, ShowView, Expire, ServeUpdate

\* Neither a lost answer, a restart nor the reviewer takes from its session what the
\* bridge applied.
LEMMA AppliedStep ==
    ASSUME TypeOK, WorkerHolds, AppliedIsKept, [Next]_vars
    PROVE  AppliedIsKept'
<1> SUFFICES ASSUME NEW s \in Sessions, bridge'.by = s
             PROVE  session'[s].state \in {"confirming", "resolved", "pruned"}
  BY DEF AppliedIsKept
<1>1. CASE bridge.by = s
  BY <1>1, Living DEF AppliedIsKept, Lives, Moves
<1>2. CASE bridge.by # s
  <2>1. bridge.by = "nobody" /\ s = worker.s /\ session[s].state = "confirming"
        /\ UNCHANGED session
    BY <1>2, BridgeSteps, ConstantsAssumption
  <2> QED BY <2>1
<1> QED BY <1>1, <1>2

LEMMA OpeningStep ==
    ASSUME TypeOK, WorkerHolds, OpeningSound, [Next]_vars
    PROVE  OpeningSound'
<1> DEFINE w == worker.s
<1>1. CASE OpenView
  <2>1. w \in Sessions /\ session[w].opening = "pending" /\ "request_started" \in Openings
    BY <1>1 DEF OpenView, WorkerHolds, Opening, Openings
  <2>2. /\ session'[w] = [state |-> session[w].state, opening |-> "request_started"]
        /\ \A t \in Sessions \ {w} : session'[t] = session[t]
    BY <1>1, <2>1, PutOpening DEF OpenView
  <2>3. opens' = [opens EXCEPT ![w] = @ + 1] /\ opens[w] = 0
    BY <1>1, <2>1 DEF OpenView, OpeningSound
  <2>4. opens'[w] = 1 /\ \A t \in Sessions \ {w} : opens'[t] = opens[t]
    BY <2>1, <2>3 DEF TypeOK
  <2> QED BY <2>1, <2>2, <2>4 DEF OpeningSound
<1>2. CASE UNCHANGED opens
  <2> SUFFICES ASSUME NEW s \in Sessions
               PROVE  /\ opens[s] <= 1
                      /\ session'[s].state = "absent" \/ session'[s].opening = "pending"
                           => opens[s] = 0
                      /\ session'[s].state = "absent" => session'[s].opening = "none"
    BY <1>2 DEF OpeningSound
  <2>1. Lives(s)
    BY Living
  <2>2. session'[s].state = "absent" => session[s].state = "absent"
    BY <2>1 DEF Lives, Moves
  <2>3. ASSUME session'[s].opening = "pending", session[s].opening # "pending"
        PROVE  session[s].state = "absent" /\ session'[s].state = "opened"
    <3>1. AdmitOpen(s)
      BY <2>1, <2>3 DEF Lives
    <3> QED BY <3>1, Typed DEF AdmitOpen
  <2>4. session'[s].state = "absent" => session'[s].opening = "none"
    <3>1. AdmitOpen(s) => session'[s].state # "absent"
      BY Typed DEF AdmitOpen
    <3> QED BY <2>1, <2>2, <3>1 DEF Lives, OpeningSound
  <2> QED BY <2>2, <2>3, <2>4 DEF OpeningSound
<1> QED
  BY <1>1, <1>2
  DEF Next, vars, slack, Start, LateStart, Crash, Reviewer, AdmitOpen, AdmitPrepare, AdmitConfirm,
      Prune, WorkerStep, PendingOpenings, ActiveSessions, EndRound, TakeOpening, TakeSession,
      CaseUnavailable, FinishOpening, FailOpening, FinishPrepare, PrepareRejected,
      PrepareUnavailable, Confirm, ConfirmFails, RenderConfirmation,
      RenderError, RenderSuccess, Render, FinishResolution, FinishTerminal, Backfill,
      ClaimProjection, BackfillReads, BackfillReadFails, BackfillStarts, BackfillFinishes,
      External, ShowView, Expire, ServeUpdate, CommandLapses, ResolvedElsewhere

\* What a step does to the card and to the updates on the wire: once the terminal
\* one was sent, the card is not waiting for another, now or later.
LEMMA CardStep ==
    ASSUME TypeOK, WorkerHolds, ResolutionProjected, CardSound, [Next]_vars
    PROVE  /\ CardSound'
           /\ shown = "terminal" => shown' = "terminal"
           /\ updates["terminal"] # "none" => updates'["terminal"] # "none"
           /\ updates'["terminal"] # "none" =>
                updates["terminal"] # "none" \/ (FinishResolution /\ bridge.by = worker.s)
<1> USE DEF CardSound
<1>1. CASE UNCHANGED <<card, shown, updates>>
  BY <1>1
<1>2. CASE Start \/ LateStart
  BY <1>2 DEF Start, LateStart, Recover, RecoveredCard, slack
<1>3. CASE ClaimProjection \/ BackfillReadFails
  BY <1>3 DEF ClaimProjection, BackfillReadFails, slack
<1>4. CASE BackfillStarts
  BY <1>4 DEF BackfillStarts, TypeOK
<1>5. CASE BackfillFinishes
  <2>1. PICK result \in Result("pending") : Projected(result)
    BY <1>5 DEF BackfillFinishes
  <2>2. result \in {"accepted", "rejected", "delivery_unknown"}
        /\ (updates["pending"] = "sent" => result = "delivery_unknown")
    BY <2>1 DEF Result
  <2> QED BY <1>5, <2>1, <2>2 DEF BackfillFinishes, Projected, slack
<1>6. CASE FinishTerminal
  <2>1. PICK result \in Result("terminal") : Projected(result)
    BY <1>6 DEF FinishTerminal
  <2>2. result \in {"accepted", "rejected", "delivery_unknown"}
    BY <2>1 DEF Result
  <2>3. updates["terminal"] # "none"
    BY <1>6 DEF FinishTerminal, WorkerHolds, ResolutionProjected, Resolving
  <2> QED BY <1>6, <2>1, <2>2, <2>3 DEF FinishTerminal, Projected, slack
<1>7. CASE FinishResolution /\ ~ UNCHANGED card
  <2>1. /\ card \in {"pending", "accepted"} /\ card' = "request_started"
        /\ updates' = [updates EXCEPT !["terminal"] = "sent"] /\ UNCHANGED shown
        /\ bridge.by = worker.s
    BY <1>7 DEF FinishResolution, WorkerHolds
  <2> QED BY <1>7, <2>1 DEF TypeOK
<1>8. CASE FinishResolution /\ UNCHANGED card
  BY <1>1, <1>8 DEF FinishResolution, CardSound
<1>9. ASSUME NEW kind \in DOMAIN updates, ServeUpdate(kind)
      PROVE  /\ CardSound'
             /\ shown = "terminal" => shown' = "terminal"
             /\ \A k \in {"terminal"} : updates[k] # "none" <=> updates'[k] # "none"
  BY <1>9 DEF ServeUpdate, TypeOK
<1> QED
  BY <1>1, <1>2, <1>3, <1>4, <1>5, <1>6, <1>7, <1>8, <1>9
  DEF Next, vars, slack, Crash, Reviewer, AdmitOpen, AdmitPrepare, AdmitConfirm,
      Prune, WorkerStep, PendingOpenings, ActiveSessions, EndRound, TakeOpening, TakeSession,
      CaseUnavailable, OpenView, FinishOpening, FailOpening, FinishPrepare, PrepareRejected,
      PrepareUnavailable, Confirm, ConfirmFails, RenderConfirmation,
      RenderError, RenderSuccess, Render, Backfill, BackfillReads,
      External, ShowView, Expire, CommandLapses, ResolvedElsewhere

LEMMA ResolutionStep ==
    ASSUME TypeOK, WorkerHolds, ResolutionProjected, CardSound, [Next]_vars
    PROVE  ResolutionProjected'
<1>0. CardSound'
  BY CardStep
<1>1. updates'["terminal"] # "none" => bridge'.by \in Sessions
  <2>1. updates'["terminal"] # "none" => bridge.by \in Sessions
    BY CardStep DEF ResolutionProjected, FinishResolution, WorkerHolds, Resolving
  <2> QED BY <2>1, BridgeSteps, ConstantsAssumption
<1>2. ASSUME NEW s \in Sessions, session'[s].state = "resolved"
      PROVE  bridge'.by = s /\ updates'["terminal"] # "none"
  <2>1. CASE session[s].state = "resolved"
    <3>1. bridge.by = s /\ updates["terminal"] # "none"
      BY <2>1 DEF ResolutionProjected
    <3> QED BY <3>1, BridgeSteps, CardStep, ConstantsAssumption
  <2>2. CASE session[s].state # "resolved"
    <3>1. FinishResolution /\ worker.s = s /\ card \in {"pending", "accepted"}
      BY <1>2, <2>2, Living DEF Lives
    <3>2. bridge.by = s /\ UNCHANGED bridge
          /\ updates' = [updates EXCEPT !["terminal"] = "sent"]
      BY <3>1 DEF FinishResolution, WorkerHolds
    <3> QED BY <3>2 DEF TypeOK
  <2> QED BY <2>1, <2>2
<1> QED BY <1>0, <1>1, <1>2 DEF ResolutionProjected, CardSound

\* Between its steps nobody moves what the worker holds.
LEMMA HeldKept ==
    ASSUME TypeOK, WorkerHolds, UNCHANGED worker, up' = "up" <=> up = "up",
           bridge'.by = bridge.by \/ bridge.by \notin Sessions,
           \A s \in Sessions :
             /\ session'[s].opening = session[s].opening
             /\ session[s].state \in Active \cup {"resolved"} =>
                  session'[s].state = session[s].state
    PROVE  WorkerHolds'
<1>1. worker.todo \subseteq Sessions
  BY Typed
<1>2. worker.pc \in Opening \cup Resolving => worker.s \in Sessions
  BY DEF WorkerHolds
<1> QED BY <1>1, <1>2 DEF WorkerHolds, Opening, Resolving, Rendering, Active

LEMMA HoldsStep ==
    ASSUME TypeOK, WorkerHolds, OpeningSound, [Next]_vars
    PROVE  WorkerHolds'
<1> DEFINE w == worker.s
<1> USE DEF slack
<1>0. /\ worker.pc \in Opening \cup Resolving => w \in Sessions \ worker.todo
      /\ worker.todo \subseteq Sessions
  BY Typed DEF WorkerHolds
<1>1. CASE UNCHANGED <<worker, up, session, bridge>>
  BY <1>1, HeldKept
<1>2. CASE UNCHANGED <<worker, up, session>>
  <2>1. bridge'.by = bridge.by \/ bridge.by \notin Sessions
    BY BridgeSteps, ConstantsAssumption
  <2> QED BY <1>2, <2>1, HeldKept
<1>3. CASE Start \/ LateStart
  <2>1. /\ worker.pc = "off"
        /\ (worker' = worker /\ up' # "up") \/ (worker' = Idle /\ up' = "up")
    BY <1>3 DEF Start, LateStart, WorkerHolds, Idle
  <2> QED BY <2>1 DEF WorkerHolds, Idle, Opening, Resolving, Rendering
<1>4. CASE Crash
  BY <1>4 DEF Crash, Off, WorkerHolds, Opening, Resolving, Rendering
<1>5. ASSUME NEW s \in Sessions, AdmitOpen(s) PROVE WorkerHolds'
  <2>1. /\ session'[s] = [state |-> "opened", opening |-> "pending"]
        /\ \A t \in Sessions \ {s} : session'[t] = session[t]
        /\ session[s].state = "absent" /\ UNCHANGED <<worker, up, bridge>>
    BY <1>5, PutRow DEF AdmitOpen, States, Openings
  <2>2. session[s].opening = "none"
    BY <2>1 DEF OpeningSound
  <2> QED BY <1>0, <2>1, <2>2 DEF WorkerHolds, Active, Opening, Resolving, Rendering
<1>6. ASSUME NEW s \in Sessions, AdmitPrepare(s) \/ AdmitConfirm(s) PROVE WorkerHolds'
  <2>1. /\ \A t \in Sessions : session'[t].opening = session[t].opening
        /\ UNCHANGED <<worker, up, bridge>>
    BY <1>6, Typed DEF AdmitPrepare, AdmitConfirm, Session
  <2>2. \A t \in Sessions : session[t].state \in Active \cup {"resolved"} =>
                              session'[t].state = session[t].state
    BY <1>6, Typed DEF AdmitPrepare, AdmitConfirm, Session, Active
  <2> QED BY <2>1, <2>2, HeldKept
<1>7. ASSUME NEW s \in Sessions, Prune(s) PROVE WorkerHolds'
  BY <1>7 DEF Prune, WorkerHolds, Opening, Resolving, Rendering
<1>8. CASE PendingOpenings \/ ActiveSessions \/ EndRound
  BY <1>8 DEF PendingOpenings, ActiveSessions, EndRound, Idle, WorkerHolds, Opening,
              Resolving, Rendering
<1>9. ASSUME NEW s \in Sessions, TakeOpening(s) PROVE WorkerHolds'
  BY <1>9 DEF TakeOpening, Take, WorkerHolds, Opening, Resolving, Rendering
<1>10. ASSUME NEW s \in Sessions, TakeSession(s) PROVE WorkerHolds'
  BY <1>10 DEF TakeSession, Take, WorkerHolds, Active, Opening, Resolving, Rendering
<1>11. CASE CaseUnavailable
  BY <1>11 DEF CaseUnavailable, Release, WorkerHolds, Opening, Resolving, Rendering
<1>12. CASE OpenView \/ FinishOpening \/ FailOpening
  <2>1. w \in Sessions \ worker.todo
    BY <1>0, <1>12 DEF OpenView, FinishOpening, FailOpening, Opening
  <2>2. \A t \in worker.todo : session[t].opening = "pending"
    BY <1>12 DEF OpenView, FinishOpening, FailOpening, WorkerHolds, Opening
  <2>3. \A t \in worker.todo : session'[t] = session[t]
    BY <1>0, <1>12, <2>1, Typed DEF OpenView, FinishOpening, FailOpening, TypeOK
  <2>4. OpenView => session'[w].opening = "request_started"
    BY <2>1, Typed DEF OpenView, Session
  <2>5. worker' = [pc |-> worker'.pc, s |-> worker'.s, todo |-> worker.todo]
        /\ UNCHANGED up /\ worker.pc # "off"
        /\ \/ worker'.pc = "opening" /\ worker'.s = w /\ OpenView
           \/ worker'.pc = "openings"
    BY <1>12 DEF OpenView, FinishOpening, FailOpening, Goto, Release
  <2> QED BY <2>1, <2>2, <2>3, <2>4, <2>5 DEF WorkerHolds, Opening, Resolving, Rendering
<1>13. CASE FinishPrepare \/ PrepareRejected \/ FinishResolution
  <2>1. w \in Sessions \ worker.todo
    BY <1>0, <1>13 DEF FinishPrepare, PrepareRejected, FinishResolution, Resolving
  <2>2. \A t \in worker.todo : session[t].state \in Active
    BY <1>13 DEF FinishPrepare, PrepareRejected, FinishResolution, WorkerHolds, Resolving
  <2>3. \A t \in worker.todo : session'[t] = session[t]
    BY <1>0, <1>13, <2>1, Typed DEF FinishPrepare, PrepareRejected, FinishResolution, TypeOK
  <2>4. FinishResolution /\ worker'.pc = "projecting" => session'[w].state = "resolved"
    BY <2>1, Typed DEF FinishResolution, Session, Release
  <2>5. worker' = [pc |-> worker'.pc, s |-> worker'.s, todo |-> worker.todo]
        /\ UNCHANGED up /\ worker.pc # "off"
        /\ \/ /\ worker'.pc \in {"render_confirm", "render_error", "projecting"} /\ worker'.s = w
              /\ worker'.pc = "projecting" => FinishResolution
           \/ worker'.pc = "sessions"
    BY <1>13 DEF FinishPrepare, PrepareRejected, FinishResolution, Goto, Release
  <2> QED BY <2>1, <2>2, <2>3, <2>4, <2>5 DEF WorkerHolds, Opening, Resolving, Rendering
<1>14. CASE PrepareUnavailable \/ ConfirmFails \/ RenderConfirmation \/ RenderError \/ RenderSuccess
  <2>1. /\ worker.pc \in Resolving /\ UNCHANGED <<session, up>>
        /\ worker' = [pc |-> "sessions", s |-> NoSession, todo |-> worker.todo]
    BY <1>14 DEF PrepareUnavailable, ConfirmFails, RenderConfirmation, RenderError,
                 RenderSuccess, Render, Release, Resolving, Rendering
  <2> QED BY <2>1 DEF WorkerHolds, Opening, Resolving, Rendering
<1>15. CASE Confirm
  <2>1. w \in Sessions /\ bridge'.by = w
    BY <1>0, <1>15, BridgeType DEF Confirm, Resolving
  <2> QED BY <1>15, <2>1 DEF Confirm, Goto, WorkerHolds, Opening, Resolving, Rendering
<1>16. CASE FinishTerminal
  BY <1>16 DEF FinishTerminal, Goto, WorkerHolds, Opening, Resolving, Rendering
<1> QED
  BY <1>1, <1>2, <1>3, <1>4, <1>5, <1>6, <1>7, <1>8, <1>9, <1>10, <1>11, <1>12, <1>13, <1>14,
     <1>15, <1>16
  DEF Next, vars, Reviewer, WorkerStep, Backfill, External, ShowView, CommandLapses,
      Expire, ServeUpdate, ResolvedElsewhere,
      ClaimProjection, BackfillReads, BackfillReadFails, BackfillStarts, BackfillFinishes

-----------------------------------------------------------------------------
(* The theorems *)

LEMMA StepSound == IInv /\ [Next]_vars => IInv'
BY TypeStep, HoldsStep, OpeningStep, AppliedStep, ResolutionStep, CardStep DEF IInv

THEOREM Inductive == Spec => []IInv
BY InitSound, StepSound, PTL DEF Spec

\* Every row, request and the worker keep their types.
THEOREM TypeCorrect == Spec => []TypeOK
<1>1. IInv => TypeOK
  BY DEF IInv
<1> QED BY <1>1, Inductive, PTL

\* No session is ever given a second views.open, whatever was interrupted.
THEOREM OneOpening == Spec => []OpenedOnce
<1>1. IInv => OpenedOnce
  BY DEF IInv, OpeningSound, OpenedOnce
<1> QED BY <1>1, Inductive, PTL

\* What the bridge applied stays with its session until it is resolved.
THEOREM KeepsApplied == Spec => []AppliedIsKept
<1>1. IInv => AppliedIsKept
  BY DEF IInv
<1> QED BY <1>1, Inductive, PTL

\* A resolved session is the one the bridge applied, and its card was handed to the
\* terminal update.
THEOREM ProjectsResolution == Spec => []ResolutionProjected
<1>1. IInv => ResolutionProjected
  BY DEF IInv
<1> QED BY <1>1, Inductive, PTL

\* A session that ended is never taken up again, and a terminal card is never
\* overwritten by the pending update, however late.
THEOREM EndsForGood == Spec => EndedStays
<1>1. IInv /\ [Next]_vars =>
        [/\ \A s \in Sessions : session[s].state \in {"resolved", "failed", "pruned"} =>
              session'[s].state \in {session[s].state, "pruned"}
         /\ shown = "terminal" => shown' = "terminal"]_vars
  BY Living, CardStep DEF IInv, Lives, Moves
<1> QED BY <1>1, Inductive, PTL DEF Spec, EndedStays

(***************************************************************************)
(*                             DailyFeedback                               *)
(***************************************************************************)

-----------------------------------------------------------------------------
(* What the recorded state says may only go forward *)

AttemptForward(t, u) ==
    /\ Order(u.phase) >= Order(t.phase)
    /\ t.outcome \notin {None, "delivery_unknown"} => u.outcome = t.outcome
    /\ t.effect # None => u.effect = t.effect
    /\ t.observed \subseteq u.observed

RuntimeForward(r, s) ==
    /\ s.session.fence >= r.session.fence
    /\ \A i \in Items :
          /\ Order(s.item[i]) >= Order(r.item[i])
          /\ r.decision[i] # None => s.decision[i] = r.decision[i]
    /\ \A a \in Attempts : AttemptForward(r.attempt[a], s.attempt[a])

\* The runtime that a command leaves.
Follows(r, s) == s \in Runtime /\ RuntimeSound(s) /\ RuntimeForward(r, s)

LEMMA OrderIs ==
    /\ Order(None) = 0 /\ Order("pending") = 0 /\ Order("presented") = 1
    /\ Order("reserved") = 1 /\ Order("request_started") = 2 /\ Order("finalized") = 3
    /\ Order("reviewed") = 3 /\ Order("skipped") = 3
BY NoneAssumption DEF Order

LEMMA PhaseOrder ==
    /\ \A p \in {None, "reserved", "request_started", "finalized"} : Order(p) \in 0..3
    /\ \A s \in {"pending", "presented", "reviewed", "skipped"} : Order(s) \in 0..3
BY OrderIs

LEMMA RuntimeFields ==
    ASSUME NEW r \in Runtime
    PROVE  /\ r.batch \in {"ready", "in_review", "completed", "blocked"}
           /\ r.session \in ReviewSession /\ r.session.fence \in 0..MaxFence
           /\ r.item \in [Items -> {"pending", "presented", "reviewed", "skipped"}]
           /\ r.decision \in [Items -> DecisionTypes \cup {None}]
           /\ r.attempt \in [Attempts -> Attempt]
           /\ \A a \in Attempts : r.attempt[a] \in Attempt
BY DEF Runtime, ReviewSession

LEMMA AttemptFields ==
    ASSUME NEW t \in Attempt
    PROVE  /\ t.phase \in {None, "reserved", "request_started", "finalized"}
           /\ t.outcome \in Outcomes \cup {None} /\ t.session \in ReviewSession
           /\ t.effect \in Effects \cup {None} /\ t.observed \in SUBSET (Found \cup NotApplied)
           /\ t.reconciler \in BOOLEAN /\ t.blocked \in BOOLEAN
BY DEF Attempt

LEMMA Pairs ==
    /\ \A i \in Items : <<i, 1>> \in Attempts /\ <<i, 2>> \in Attempts
    /\ \A a \in Attempts : a[1] \in Items /\ a[2] \in {1, 2} /\ a = <<a[1], a[2]>>
BY DEF Attempts

LEMMA SameForward ==
    ASSUME NEW r \in Runtime
    PROVE  RuntimeForward(r, r)
<1>1. \A a \in Attempts : AttemptForward(r.attempt[a], r.attempt[a])
  BY RuntimeFields, AttemptFields, PhaseOrder DEF AttemptForward
<1> QED BY <1>1, RuntimeFields, PhaseOrder DEF RuntimeForward

-----------------------------------------------------------------------------
(* One attempt is edited *)

\* s is r but for attempt a.
EditOf(r, s, a) ==
    /\ s \in Runtime
    /\ s.session = r.session /\ s.item = r.item /\ s.decision = r.decision /\ s.batch = r.batch
    /\ \A b \in Attempts \ {a} : s.attempt[b] = r.attempt[b]

LEMMA Edit ==
    ASSUME NEW r \in Runtime, NEW a \in Attempts, NEW t \in Attempt
    PROVE  LET s == [r EXCEPT !.attempt[a] = t]
           IN  EditOf(r, s, a) /\ s.attempt[a] = t
<1> DEFINE f == [r.attempt EXCEPT ![a] = t]
<1>1. /\ f \in [Attempts -> Attempt] /\ f[a] = t
      /\ \A b \in Attempts \ {a} : f[b] = r.attempt[b]
  BY RuntimeFields
<1> HIDE DEF f
<1> DEFINE s == [r EXCEPT !.attempt = f]
<1>2. /\ s \in Runtime /\ s.attempt = f
      /\ s.session = r.session /\ s.item = r.item /\ s.decision = r.decision /\ s.batch = r.batch
  BY <1>1 DEF Runtime
<1>3. s = [r EXCEPT !.attempt[a] = t]
  BY DEF f
<1> HIDE DEF s
<1>4. EditOf(r, s, a) /\ s.attempt[a] = t
  BY <1>1, <1>2 DEF EditOf
<1> QED BY <1>3, <1>4

\* The first attempt of item i was proven to have done nothing.
ProvenNothing(r, i) ==
    /\ r.attempt[<<i, 1>>].outcome = "not_applied"
    /\ r.attempt[<<i, 1>>].effect = "unknown_not_applied"
    /\ "not_applied" \in r.attempt[<<i, 1>>].observed

\* An attempt without its end is edited into a sound one.
LEMMA EditSound ==
    ASSUME NEW r \in Runtime, RuntimeSound(r), NEW a \in Attempts, NEW s, EditOf(r, s, a),
           AttemptSound(s.attempt[a]), s.attempt[a].blocked = r.attempt[a].blocked,
           r.attempt[a].outcome \notin {"accepted", "not_applied"},
           r.attempt[a].phase # None \/ a[2] = 1 \/ ProvenNothing(r, a[1])
    PROVE  RuntimeSound(s)
<1>1. \A b \in Attempts : AttemptSound(s.attempt[b])
  BY DEF EditOf, RuntimeSound
<1>2. DecisionsProjected(s)
  BY DEF EditOf, RuntimeSound, DecisionsProjected
<1>3. RetriesProven(s)
  <2> SUFFICES ASSUME NEW i \in Items, s.attempt[<<i, 2>>].phase # None
               PROVE  ProvenNothing(s, i)
    BY DEF RetriesProven, ProvenNothing
  <2>1. <<i, 1>> \in Attempts /\ <<i, 2>> \in Attempts
    BY Pairs
  <2>2. r.attempt[<<i, 2>>].phase # None => ProvenNothing(r, i)
    BY DEF RuntimeSound, RetriesProven, ProvenNothing
  <2>3. ProvenNothing(r, i)
    <3>1. CASE a = <<i, 2>>
      BY <2>2, <3>1
    <3>2. CASE a # <<i, 2>>
      BY <2>1, <2>2, <3>2 DEF EditOf
    <3> QED BY <3>1, <3>2
  <2>4. a # <<i, 1>>
    BY <2>3 DEF ProvenNothing
  <2> QED BY <2>1, <2>3, <2>4 DEF EditOf, ProvenNothing
<1>4. \A i \in Items, k \in {1, 2} :
         r.attempt[<<i, k>>].outcome = "accepted" => s.attempt[<<i, k>>] = r.attempt[<<i, k>>]
  <2> SUFFICES ASSUME NEW i \in Items, NEW k \in {1, 2}, r.attempt[<<i, k>>].outcome = "accepted"
               PROVE  s.attempt[<<i, k>>] = r.attempt[<<i, k>>]
    OBVIOUS
  <2>1. <<i, k>> \in Attempts /\ <<i, k>> # a
    BY Pairs
  <2> QED BY <2>1 DEF EditOf
<1>5. PresentedAccepted(s)
  BY <1>4 DEF EditOf, RuntimeSound, PresentedAccepted, Engaged, Clean
<1>6. BatchSound(s)
  <2>1. \A b \in Attempts : s.attempt[b].blocked = r.attempt[b].blocked
    BY DEF EditOf
  <2>2. Engaged(s) = Engaged(r) /\ Terminal(s) = Terminal(r) /\ s.batch = r.batch
    BY DEF EditOf, Engaged, Terminal
  <2> QED BY <2>1, <2>2 DEF RuntimeSound, BatchSound
<1> QED BY <1>1, <1>2, <1>3, <1>5, <1>6 DEF RuntimeSound

LEMMA EditForward ==
    ASSUME NEW r \in Runtime, NEW a \in Attempts, NEW s, EditOf(r, s, a),
           AttemptForward(r.attempt[a], s.attempt[a])
    PROVE  RuntimeForward(r, s)
<1>1. \A b \in Attempts : AttemptForward(r.attempt[b], s.attempt[b])
  BY SameForward DEF EditOf, RuntimeForward
<1> QED BY <1>1, SameForward DEF EditOf, RuntimeForward

LEMMA ForwardTwice ==
    ASSUME NEW r \in Runtime, NEW s \in Runtime, NEW v \in Runtime,
           RuntimeForward(r, s), RuntimeForward(s, v)
    PROVE  RuntimeForward(r, v)
<1>1. ASSUME NEW a \in Attempts PROVE AttemptForward(r.attempt[a], v.attempt[a])
  <2>1. AttemptForward(r.attempt[a], s.attempt[a]) /\ AttemptForward(s.attempt[a], v.attempt[a])
    BY DEF RuntimeForward
  <2>2. /\ Order(r.attempt[a].phase) \in 0..3 /\ Order(s.attempt[a].phase) \in 0..3
        /\ Order(v.attempt[a].phase) \in 0..3
    BY RuntimeFields, AttemptFields, PhaseOrder
  <2> QED BY <2>1, <2>2 DEF AttemptForward
<1>2. ASSUME NEW i \in Items PROVE Order(v.item[i]) >= Order(r.item[i])
  <2>1. Order(r.item[i]) \in 0..3 /\ Order(s.item[i]) \in 0..3 /\ Order(v.item[i]) \in 0..3
    BY RuntimeFields, PhaseOrder
  <2> QED BY <2>1 DEF RuntimeForward
<1>3. /\ r.session.fence \in 0..MaxFence /\ s.session.fence \in 0..MaxFence
      /\ v.session.fence \in 0..MaxFence
  BY RuntimeFields
<1>4. v.session.fence >= r.session.fence
  BY <1>3, FeedbackAssumption DEF RuntimeForward
<1> QED BY <1>1, <1>2, <1>4 DEF RuntimeForward

-----------------------------------------------------------------------------
(* The edits of an attempt *)

\* t may take the place of o.
Succeeds(o, t) ==
    /\ t \in Attempt /\ AttemptSound(t) /\ AttemptForward(o, t) /\ t.blocked = o.blocked
    /\ o.phase # None /\ o.outcome \notin {"accepted", "not_applied"}

LEMMA EditFollows ==
    ASSUME NEW r \in Runtime, RuntimeSound(r), NEW a \in Attempts, NEW t,
           Succeeds(r.attempt[a], t)
    PROVE  Follows(r, [r EXCEPT !.attempt[a] = t])
<1> DEFINE s == [r EXCEPT !.attempt[a] = t]
<1>1. EditOf(r, s, a) /\ s.attempt[a] = t
  BY Edit DEF Succeeds
<1> HIDE DEF s
<1>2. RuntimeSound(s) /\ RuntimeForward(r, s)
  BY <1>1, EditSound, EditForward DEF Succeeds
<1>3. Follows(r, s)
  BY <1>1, <1>2 DEF Follows, EditOf
<1> QED BY <1>3 DEF s

LEMMA Marked ==
    ASSUME NEW o \in Attempt, AttemptSound(o), o.phase = "reserved"
    PROVE  Succeeds(o, [o EXCEPT !.phase = "request_started"])
<1> DEFINE t == [o EXCEPT !.phase = "request_started"]
<1>1. /\ t \in Attempt /\ t.phase = "request_started" /\ t.outcome = o.outcome
      /\ t.effect = o.effect /\ t.observed = o.observed /\ t.blocked = o.blocked
  BY DEF Attempt
<1>2. o.outcome = None /\ o.effect = None /\ ~o.blocked
  BY AttemptFields, NoneAssumption DEF AttemptSound, Outcomes
<1> HIDE DEF t
<1>3. AttemptSound(t)
  BY <1>1, <1>2, NoneAssumption DEF AttemptSound
<1>4. AttemptForward(o, t)
  BY <1>1, OrderIs DEF AttemptForward
<1>5. Succeeds(o, t)
  BY <1>1, <1>2, <1>3, <1>4, NoneAssumption DEF Succeeds, Outcomes
<1> QED BY <1>5 DEF t

LEMMA Cancelled ==
    ASSUME NEW o \in Attempt, AttemptSound(o), o.phase = "reserved"
    PROVE  Succeeds(o, [o EXCEPT !.phase = "finalized", !.outcome = "cancelled_before_request"])
<1> DEFINE t == [o EXCEPT !.phase = "finalized", !.outcome = "cancelled_before_request"]
<1>1. /\ t \in Attempt /\ t.phase = "finalized" /\ t.outcome = "cancelled_before_request"
      /\ t.effect = o.effect /\ t.observed = o.observed /\ t.blocked = o.blocked
  BY DEF Attempt, Outcomes
<1>2. o.outcome = None /\ o.effect = None /\ ~o.blocked
  BY AttemptFields, NoneAssumption DEF AttemptSound, Outcomes
<1> HIDE DEF t
<1>3. AttemptSound(t)
  BY <1>1, <1>2, NoneAssumption DEF AttemptSound, Outcomes
<1>4. AttemptForward(o, t)
  BY <1>1, <1>2, OrderIs DEF AttemptForward
<1>5. Succeeds(o, t)
  BY <1>1, <1>2, <1>3, <1>4, NoneAssumption DEF Succeeds, Outcomes
<1> QED BY <1>5 DEF t

LEMMA Invoked ==
    ASSUME NEW o \in Attempt, AttemptSound(o), o.phase = "request_started", o.effect = None,
           NEW e \in Effects
    PROVE  Succeeds(o, [o EXCEPT !.effect = e])
<1> DEFINE t == [o EXCEPT !.effect = e]
<1>1. /\ t \in Attempt /\ t.phase = o.phase /\ t.outcome = o.outcome
      /\ t.effect = e /\ t.observed = o.observed /\ t.blocked = o.blocked
  BY DEF Attempt
<1>2. o.outcome = None /\ ~o.blocked
  BY AttemptFields, NoneAssumption DEF AttemptSound, Outcomes
<1> HIDE DEF t
<1>3. AttemptSound(t)
  BY <1>1, <1>2, NoneAssumption DEF AttemptSound, Outcomes
<1>4. AttemptForward(o, t)
  BY <1>1, <1>2, OrderIs DEF AttemptForward
<1>5. Succeeds(o, t)
  BY <1>1, <1>2, <1>3, <1>4, NoneAssumption DEF Succeeds, Outcomes
<1> QED BY <1>5 DEF t

LEMMA Finalized ==
    ASSUME NEW o \in Attempt, AttemptSound(o), o.phase = "request_started",
           NEW end \in {"accepted", "rejected", "delivery_unknown"}, Told(o, end)
    PROVE  Succeeds(o, [o EXCEPT !.phase = "finalized", !.outcome = end])
<1> DEFINE t == [o EXCEPT !.phase = "finalized", !.outcome = end]
<1>1. /\ t \in Attempt /\ t.phase = "finalized" /\ t.outcome = end
      /\ t.effect = o.effect /\ t.observed = o.observed /\ t.blocked = o.blocked
  BY DEF Attempt, Outcomes
<1>2. o.outcome = None /\ ~o.blocked
  BY AttemptFields, NoneAssumption DEF AttemptSound, Outcomes
<1> HIDE DEF t
<1>3. AttemptSound(t)
  BY <1>1, <1>2, NoneAssumption DEF AttemptSound, Outcomes, Told
<1>4. AttemptForward(o, t)
  BY <1>1, <1>2, OrderIs DEF AttemptForward
<1>5. Succeeds(o, t)
  BY <1>1, <1>2, <1>3, <1>4, NoneAssumption DEF Succeeds, Outcomes
<1> QED BY <1>5 DEF t

\* Evidence on, or somebody at, an end nobody knows.
LEMMA Inquired ==
    ASSUME NEW o \in Attempt, AttemptSound(o), o.outcome = "delivery_unknown", NEW t \in Attempt,
           t.phase = o.phase, t.outcome = o.outcome, t.effect = o.effect, t.blocked = o.blocked,
           o.observed \subseteq t.observed
    PROVE  Succeeds(o, t)
<1>1. o.phase = "finalized" /\ None # "finalized"
  BY NoneAssumption DEF AttemptSound, Outcomes
<1>2. AttemptSound(t)
  BY <1>1 DEF AttemptSound
<1>3. AttemptForward(o, t)
  BY <1>1, OrderIs DEF AttemptForward
<1> QED BY <1>1, <1>2, <1>3 DEF Succeeds

\* What was unknown turns out to be accepted, or proven to have done nothing.
LEMMA Reconciled ==
    ASSUME NEW o \in Attempt, AttemptSound(o), o.outcome = "delivery_unknown", ~o.blocked,
           NEW end \in {"accepted", "not_applied"}
    PROVE  Succeeds(o, [o EXCEPT !.outcome = end])
<1> DEFINE t == [o EXCEPT !.outcome = end]
<1>1. /\ t \in Attempt /\ t.phase = o.phase /\ t.outcome = end
      /\ t.effect = o.effect /\ t.observed = o.observed /\ t.blocked = o.blocked
  BY DEF Attempt, Outcomes
<1>2. o.phase = "finalized" /\ None # "finalized"
  BY NoneAssumption DEF AttemptSound, Outcomes
<1> HIDE DEF t
<1>3. AttemptSound(t)
  BY <1>1, <1>2, NoneAssumption DEF AttemptSound, Outcomes
<1>4. AttemptForward(o, t)
  BY <1>1, <1>2, OrderIs DEF AttemptForward
<1>5. Succeeds(o, t)
  BY <1>1, <1>2, <1>3, <1>4 DEF Succeeds
<1> QED BY <1>5 DEF t

-----------------------------------------------------------------------------
(* Its item goes before the reviewer *)

\* s is r, where attempt a is now accepted and its item presented.
PresentOf(r, s, a) ==
    /\ s \in Runtime /\ s.session = r.session /\ s.decision = r.decision
    /\ s.attempt = r.attempt
    /\ s.item[a[1]] = "presented" /\ \A j \in Items \ {a[1]} : s.item[j] = r.item[j]
    /\ s.batch = IF r.batch = "ready" THEN "in_review" ELSE r.batch

LEMMA Present ==
    ASSUME NEW r \in Runtime, NEW a \in Attempts
    PROVE  LET s == [r EXCEPT !.item[a[1]] = "presented",
                              !.batch = IF @ = "ready" THEN "in_review" ELSE @]
           IN  PresentOf(r, s, a)
<1> DEFINE f == [r.item EXCEPT ![a[1]] = "presented"]
           b == IF r.batch = "ready" THEN "in_review" ELSE r.batch
<1>1. /\ f \in [Items -> {"pending", "presented", "reviewed", "skipped"}]
      /\ f[a[1]] = "presented" /\ \A j \in Items \ {a[1]} : f[j] = r.item[j]
  BY RuntimeFields, Pairs
<1>2. b \in {"ready", "in_review", "completed", "blocked"}
  BY RuntimeFields
<1>3. b = IF r.batch = "ready" THEN "in_review" ELSE r.batch
  OBVIOUS
<1>4. [r EXCEPT !.item = f, !.batch = b]
        = [r EXCEPT !.item[a[1]] = "presented",
                    !.batch = IF @ = "ready" THEN "in_review" ELSE @]
  OBVIOUS
<1> HIDE DEF f, b
<1> DEFINE s == [r EXCEPT !.item = f, !.batch = b]
<1>5. /\ s \in Runtime /\ s.item = f /\ s.batch = b
      /\ s.session = r.session /\ s.decision = r.decision /\ s.attempt = r.attempt
  BY <1>1, <1>2 DEF Runtime
<1> HIDE DEF s
<1>6. PresentOf(r, s, a)
  BY <1>1, <1>3, <1>5 DEF PresentOf
<1> QED BY <1>4, <1>6 DEF s

LEMMA PresentFollows ==
    ASSUME NEW r \in Runtime, RuntimeSound(r), NEW a \in Attempts, NEW s, PresentOf(r, s, a),
           r.item[a[1]] = "pending", r.attempt[a].outcome = "accepted"
    PROVE  Follows(r, s)
<1> USE Pairs
<1>1. Engaged(s) = Engaged(r) \cup {a[1]} /\ Terminal(s) = Terminal(r)
  BY DEF PresentOf, Engaged, Terminal
<1>2. r.decision[a[1]] = None
  <2>1. r.decision[a[1]] \in DecisionTypes \cup {None}
    BY RuntimeFields
  <2>2. r.item[a[1]] = CASE r.decision[a[1]] = "skip" -> "skipped"
                         [] r.decision[a[1]] \in DecisionTypes \ {"skip"} -> "reviewed"
                         [] OTHER -> IF r.item[a[1]] = "presented" THEN "presented" ELSE "pending"
    BY DEF RuntimeSound, DecisionsProjected
  <2> QED BY <2>1, <2>2
<1>3. DecisionsProjected(s)
  <2> SUFFICES ASSUME NEW i \in Items
               PROVE  s.item[i] = CASE s.decision[i] = "skip" -> "skipped"
                      [] s.decision[i] \in DecisionTypes \ {"skip"} -> "reviewed"
                      [] OTHER -> IF s.item[i] = "presented" THEN "presented" ELSE "pending"
    BY DEF DecisionsProjected
  <2>1. CASE i = a[1]
    <3>1. s.item[i] = "presented" /\ s.decision[i] = None
      BY <1>2, <2>1 DEF PresentOf
    <3>2. None \notin DecisionTypes \cup {"skip"}
      BY FeedbackAssumption, NoneAssumption
    <3> QED BY <3>1, <3>2
  <2>2. CASE i # a[1]
    <3>1. s.item[i] = r.item[i] /\ s.decision[i] = r.decision[i]
      BY <2>2 DEF PresentOf
    <3> QED BY <3>1 DEF RuntimeSound, DecisionsProjected
  <2> QED BY <2>1, <2>2
<1>4. PresentedAccepted(s)
  <2>1. ASSUME NEW i \in Engaged(s)
        PROVE  \E k \in {1, 2} : s.attempt[<<i, k>>].outcome = "accepted"
    <3>1. CASE i = a[1]
      BY <3>1 DEF PresentOf
    <3>2. CASE i # a[1]
      BY <1>1, <2>1, <3>2 DEF PresentOf, RuntimeSound, PresentedAccepted
    <3> QED BY <3>1, <3>2
  <2>2. \A i \in Items : s.decision[i] # None => Clean(s, i)
    BY DEF PresentOf, RuntimeSound, PresentedAccepted, Clean
  <2> QED BY <2>1, <2>2 DEF PresentedAccepted
<1>5. BatchSound(s)
  <2>1. s.attempt = r.attempt /\ s.batch = IF r.batch = "ready" THEN "in_review" ELSE r.batch
    BY DEF PresentOf
  <2>2. a[1] \notin Terminal(r) /\ a[1] \in Items
    BY DEF Terminal
  <2> QED BY <1>1, <2>1, <2>2 DEF RuntimeSound, BatchSound
<1>6. RuntimeSound(s)
  BY <1>3, <1>4, <1>5 DEF RuntimeSound, PresentOf, RetriesProven
<1>7. RuntimeForward(r, s)
  <2>1. \A i \in Items : Order(s.item[i]) >= Order(r.item[i])
    BY RuntimeFields, PhaseOrder, OrderIs DEF PresentOf
  <2>2. RuntimeForward(r, r)
    BY SameForward
  <2> QED BY <2>1, <2>2 DEF RuntimeForward, PresentOf
<1> QED BY <1>6, <1>7 DEF Follows, PresentOf

\* FinalizeAccepted and ReconcileFound
LEMMA PresentedFollows ==
    ASSUME run \in Runtime, RuntimeSound(run), NEW a \in Attempts, NEW t,
           Succeeds(run.attempt[a], t), t.outcome = "accepted", run.item[a[1]] = "pending"
    PROVE  Follows(run, Presented(a, t))
<1> DEFINE m == [run EXCEPT !.attempt[a] = t]
<1> DEFINE s == [m EXCEPT !.item[a[1]] = "presented",
                          !.batch = IF @ = "ready" THEN "in_review" ELSE @]
<1>1. Follows(run, m) /\ EditOf(run, m, a) /\ m.attempt[a] = t
  BY EditFollows, Edit DEF Succeeds
<1>2. s = Presented(a, t)
  BY DEF Presented
<1> HIDE DEF m
<1>3. PresentOf(m, s, a)
  BY <1>1, Present DEF Follows
<1> HIDE DEF s
<1>4. Follows(m, s)
  BY <1>1, <1>3, PresentFollows DEF Follows, EditOf
<1>5. Follows(run, s)
  BY <1>1, <1>4, ForwardTwice DEF Follows
<1> QED BY <1>2, <1>5

-----------------------------------------------------------------------------
(* A new attempt, a new session, a block *)

LEMMA ReservedSound ==
    ASSUME NEW holder \in ReviewSession
    PROVE  /\ Reserved(holder) \in Attempt /\ AttemptSound(Reserved(holder))
           /\ Reserved(holder).blocked = FALSE
           /\ AttemptForward(NoAttempt, Reserved(holder))
<1> DEFINE t == Reserved(holder)
<1>1. NoAttempt \in Attempt
  <2>1. [owner |-> None, fence |-> 0] \in ReviewSession
    BY FeedbackAssumption DEF ReviewSession
  <2> QED BY <2>1 DEF NoAttempt, Attempt
<1>2. /\ NoAttempt.phase = None /\ NoAttempt.outcome = None /\ NoAttempt.effect = None
      /\ NoAttempt.observed = {} /\ NoAttempt.blocked = FALSE
  BY DEF NoAttempt
<1>3. /\ t \in Attempt /\ t.phase = "reserved" /\ t.outcome = None /\ t.effect = None
      /\ t.observed = {} /\ t.blocked = FALSE
  <2> DEFINE n == NoAttempt
  <2> HIDE DEF n
  <2>1. n \in Attempt => LET u == [n EXCEPT !.phase = "reserved", !.session = holder]
                         IN  /\ u \in Attempt /\ u.phase = "reserved" /\ u.outcome = n.outcome
                             /\ u.effect = n.effect /\ u.observed = n.observed
                             /\ u.blocked = n.blocked
    BY DEF Attempt
  <2>2. t = [n EXCEPT !.phase = "reserved", !.session = holder]
    BY DEF Reserved, n
  <2> QED BY <1>1, <1>2, <2>1, <2>2 DEF n
<1> HIDE DEF t
<1>4. AttemptSound(t)
  BY <1>3, NoneAssumption DEF AttemptSound, Outcomes
<1>5. AttemptForward(NoAttempt, t)
  BY <1>2, <1>3, OrderIs DEF AttemptForward
<1> QED BY <1>3, <1>4, <1>5 DEF t

LEMMA ReserveFollows ==
    ASSUME NEW r \in Runtime, RuntimeSound(r), NEW a \in Attempts, r.attempt[a].phase = None,
           a[2] = 1 \/ ProvenNothing(r, a[1]), NEW holder \in ReviewSession
    PROVE  Follows(r, [r EXCEPT !.attempt[a] = Reserved(holder)])
<1> DEFINE t == Reserved(holder)
           s == [r EXCEPT !.attempt[a] = t]
<1>1. t \in Attempt /\ AttemptSound(t) /\ t.blocked = FALSE /\ AttemptForward(NoAttempt, t)
  BY ReservedSound
<1>2. r.attempt[a] = NoAttempt
  BY DEF RuntimeSound, AttemptSound
<1> HIDE DEF t
<1>3. EditOf(r, s, a) /\ s.attempt[a] = t
  BY <1>1, Edit
<1> HIDE DEF s
<1> DEFINE n == NoAttempt
<1>11. n.blocked = FALSE /\ n.outcome = None
  BY DEF NoAttempt
<1> HIDE DEF n
<1>4. t.blocked = r.attempt[a].blocked /\ r.attempt[a].outcome = None
  BY <1>1, <1>2, <1>11 DEF n
<1>5. r.attempt[a].outcome \notin {"accepted", "not_applied"}
  BY <1>4, NoneAssumption DEF Outcomes
<1>6. RuntimeSound(s)
  BY <1>1, <1>3, <1>4, <1>5, EditSound
<1>7. RuntimeForward(r, s)
  BY <1>1, <1>2, <1>3, EditForward
<1>8. Follows(r, s)
  BY <1>3, <1>6, <1>7 DEF Follows, EditOf
<1> QED BY <1>8 DEF s, t

\* ReconcileNotApplied
LEMMA NotAppliedFollows ==
    ASSUME run \in Runtime, RuntimeSound(run), NEW a \in Attempts, a[2] = 1,
           Reconcilable(run.attempt[a]), Proven(run.attempt[a]),
           run.attempt[<<a[1], 2>>].phase = None
    PROVE  Follows(run, [run EXCEPT !.attempt[a].outcome = "not_applied",
                                    !.attempt[<<a[1], 2>>] = Reserved(run.session)])
<1> DEFINE o == run.attempt[a]
           t == [o EXCEPT !.outcome = "not_applied"]
           m == [run EXCEPT !.attempt[a] = t]
           n == <<a[1], 2>>
           s == [m EXCEPT !.attempt[n] = Reserved(run.session)]
<1>1. o \in Attempt /\ AttemptSound(o) /\ n \in Attempts /\ n # a /\ a = <<a[1], 1>>
  BY RuntimeFields, Pairs DEF RuntimeSound
<1>2. o.outcome = "delivery_unknown" /\ run.batch # "blocked"
  BY DEF Reconcilable
<1>3. ~o.blocked
  BY <1>2 DEF RuntimeSound, BatchSound
<1>4. Succeeds(o, t)
  BY <1>1, <1>2, <1>3, Reconciled
<1>5. t.outcome = "not_applied" /\ t.effect = o.effect /\ t.observed = o.observed
  BY <1>1 DEF Attempt
<1>6. s = [run EXCEPT !.attempt[a].outcome = "not_applied",
                      !.attempt[<<a[1], 2>>] = Reserved(run.session)]
  OBVIOUS
<1> HIDE DEF t
<1>7. Follows(run, m) /\ EditOf(run, m, a) /\ m.attempt[a] = t
  BY <1>4, EditFollows, Edit DEF Succeeds
<1> HIDE DEF m
<1>8. ProvenNothing(m, a[1])
  BY <1>1, <1>5, <1>7 DEF ProvenNothing, Proven
<1>9. m.attempt[n].phase = None /\ n[1] = a[1]
  BY <1>1, <1>7 DEF EditOf
<1>10. run.session \in ReviewSession
  BY RuntimeFields
<1> HIDE DEF n
<1>11. Follows(m, s)
  BY <1>1, <1>7, <1>8, <1>9, <1>10, ReserveFollows DEF Follows
<1> HIDE DEF s
<1>12. Follows(run, s)
  BY <1>7, <1>11, ForwardTwice DEF Follows
<1> QED BY <1>6, <1>12

\* ReconcileUnresolved
LEMMA UnresolvedFollows ==
    ASSUME run \in Runtime, RuntimeSound(run), NEW a \in Attempts, Reconcilable(run.attempt[a])
    PROVE  Follows(run, [run EXCEPT !.attempt[a].blocked = TRUE, !.batch = "blocked"])
<1> DEFINE o == run.attempt[a]
           t == [o EXCEPT !.blocked = TRUE]
           f == [run.attempt EXCEPT ![a] = t]
           s == [run EXCEPT !.attempt = f, !.batch = "blocked"]
<1>1. o \in Attempt /\ AttemptSound(o)
  BY RuntimeFields DEF RuntimeSound
<1>2. o.outcome = "delivery_unknown" /\ run.batch # "blocked"
  BY DEF Reconcilable
<1>3. \A b \in Attempts : ~run.attempt[b].blocked
  BY <1>2 DEF RuntimeSound, BatchSound
<1>4. s = [run EXCEPT !.attempt[a].blocked = TRUE, !.batch = "blocked"]
  OBVIOUS
<1>5. /\ t \in Attempt /\ t.phase = o.phase /\ t.outcome = o.outcome /\ t.effect = o.effect
      /\ t.observed = o.observed /\ t.blocked = TRUE
  BY <1>1 DEF Attempt
<1> HIDE DEF t
<1>6. /\ f \in [Attempts -> Attempt] /\ f[a] = t
      /\ \A b \in Attempts \ {a} : f[b] = run.attempt[b]
  BY <1>5, RuntimeFields
<1> HIDE DEF f
<1>7. /\ s \in Runtime /\ s.attempt = f /\ s.batch = "blocked" /\ s.session = run.session
      /\ s.item = run.item /\ s.decision = run.decision
  BY <1>6 DEF Runtime
<1> HIDE DEF s
<1>8. AttemptSound(t) /\ AttemptForward(o, t)
  <2>1. o.phase = "finalized" /\ None # "finalized"
    BY <1>1, <1>2, NoneAssumption DEF AttemptSound, Outcomes
  <2>2. AttemptSound(t)
    BY <1>1, <1>2, <1>5, <2>1 DEF AttemptSound
  <2> QED BY <1>5, <2>1, <2>2, OrderIs DEF AttemptForward
<1>9. \A b \in Attempts : AttemptSound(s.attempt[b])
  BY <1>6, <1>7, <1>8 DEF RuntimeSound
<1>10. \A b \in Attempts : /\ s.attempt[b].outcome = run.attempt[b].outcome
                           /\ s.attempt[b].phase = run.attempt[b].phase
                           /\ s.attempt[b].effect = run.attempt[b].effect
                           /\ s.attempt[b].observed = run.attempt[b].observed
                           /\ s.attempt[b].blocked <=> b = a
  <2> TAKE b \in Attempts
  <2>1. CASE b = a
    BY <1>5, <1>6, <1>7, <2>1
  <2>2. CASE b # a
    BY <1>3, <1>6, <1>7, <2>2
  <2> QED BY <2>1, <2>2
<1>11. DecisionsProjected(s)
  BY <1>7 DEF RuntimeSound, DecisionsProjected
<1>12. RetriesProven(s)
  BY <1>10, Pairs DEF RuntimeSound, RetriesProven
<1>13. PresentedAccepted(s)
  <2>1. Engaged(s) = Engaged(run)
    BY <1>7 DEF Engaged
  <2>2. \A i \in Items : Clean(run, i) => Clean(s, i)
    BY <1>10, Pairs DEF Clean
  <2>3. ASSUME NEW i \in Engaged(s)
        PROVE  \E k \in {1, 2} : s.attempt[<<i, k>>].outcome = "accepted"
    BY <1>10, <2>1, Pairs DEF RuntimeSound, PresentedAccepted, Engaged
  <2> QED BY <1>7, <2>2, <2>3 DEF RuntimeSound, PresentedAccepted
<1>14. BatchSound(s)
  BY <1>7, <1>10 DEF BatchSound
<1>15. RuntimeForward(run, s)
  <2>1. RuntimeForward(run, run)
    BY SameForward
  <2>2. \A b \in Attempts : AttemptForward(run.attempt[b], s.attempt[b])
    BY <1>6, <1>7, <1>8, <2>1 DEF RuntimeForward
  <2> QED BY <1>7, <2>1, <2>2 DEF RuntimeForward
<1>16. Follows(run, s)
  BY <1>7, <1>9, <1>11, <1>12, <1>13, <1>14, <1>15 DEF Follows, RuntimeSound
<1> QED BY <1>4, <1>16

LEMMA ClaimFollows ==
    ASSUME run \in Runtime, RuntimeSound(run), NEW o \in Owners, run.session.fence < MaxFence
    PROVE  Follows(run, [run EXCEPT !.session = [owner |-> o, fence |-> @.fence + 1]])
<1> DEFINE v == [owner |-> o, fence |-> run.session.fence + 1]
           s == [run EXCEPT !.session = v]
<1>1. run.session.fence \in Nat /\ MaxFence \in Nat
  BY RuntimeFields, FeedbackAssumption
<1>2. v \in ReviewSession /\ v.fence >= run.session.fence
  BY <1>1 DEF ReviewSession
<1>3. s = [run EXCEPT !.session = [owner |-> o, fence |-> @.fence + 1]]
  OBVIOUS
<1> HIDE DEF v
<1>4. /\ s \in Runtime /\ s.session = v /\ s.item = run.item /\ s.decision = run.decision
      /\ s.attempt = run.attempt /\ s.batch = run.batch
  BY <1>2 DEF Runtime
<1> HIDE DEF s
<1>5. RuntimeSound(s)
  BY <1>4 DEF RuntimeSound, DecisionsProjected, RetriesProven, PresentedAccepted, BatchSound,
              Engaged, Terminal, Clean
<1>6. RuntimeForward(run, s)
  BY <1>2, <1>4, SameForward DEF RuntimeForward
<1> QED BY <1>3, <1>4, <1>5, <1>6 DEF Follows

-----------------------------------------------------------------------------
(* The image after a decision *)

\* s is r, where item i is decided.
DecidedOf(r, s, i, type) ==
    /\ s \in Runtime /\ s.session = r.session /\ s.attempt = r.attempt
    /\ s.item[i] = IF type = "skip" THEN "skipped" ELSE "reviewed"
    /\ s.decision[i] = type
    /\ \A j \in Items \ {i} : s.item[j] = r.item[j] /\ s.decision[j] = r.decision[j]
    /\ s.batch = IF Terminal(r) \cup {i} = Items THEN "completed" ELSE r.batch

LEMMA DecidedIs ==
    ASSUME NEW r \in Runtime, NEW i \in Items, NEW type \in DecisionTypes
    PROVE  DecidedOf(r, Decided(r, i, type), i, type)
<1> DEFINE v == IF type = "skip" THEN "skipped" ELSE "reviewed"
           f == [r.item EXCEPT ![i] = v]
           d == [r.decision EXCEPT ![i] = type]
           b == IF Terminal(r) \cup {i} = Items THEN "completed" ELSE r.batch
<1>1. /\ f \in [Items -> {"pending", "presented", "reviewed", "skipped"}]
      /\ f[i] = v /\ \A j \in Items \ {i} : f[j] = r.item[j]
  BY RuntimeFields
<1>2. /\ d \in [Items -> DecisionTypes \cup {None}]
      /\ d[i] = type /\ \A j \in Items \ {i} : d[j] = r.decision[j]
  BY RuntimeFields
<1>3. b \in {"ready", "in_review", "completed", "blocked"}
  BY RuntimeFields
<1>4. Decided(r, i, type) = [r EXCEPT !.item = f, !.decision = d, !.batch = b]
  BY DEF Decided
<1> HIDE DEF f, d
<1> DEFINE s == [r EXCEPT !.item = f, !.decision = d, !.batch = b]
<1>5. /\ s \in Runtime /\ s.item = f /\ s.decision = d /\ s.batch = b
      /\ s.session = r.session /\ s.attempt = r.attempt
  <2> HIDE DEF b
  <2> QED BY <1>1, <1>2, <1>3 DEF Runtime
<1> HIDE DEF s
<1>6. DecidedOf(r, s, i, type)
  BY <1>1, <1>2, <1>5 DEF DecidedOf
<1> QED BY <1>4, <1>6 DEF s

LEMMA DecidedFollows ==
    ASSUME NEW r \in Runtime, RuntimeSound(r), NEW i \in Items, NEW type \in DecisionTypes,
           r.item[i] = "presented", r.batch = "in_review", Clean(r, i)
    PROVE  Follows(r, Decided(r, i, type)) /\ r.decision[i] = None
<1> DEFINE s == Decided(r, i, type)
<1>1. DecidedOf(r, s, i, type)
  BY DecidedIs
<1> HIDE DEF s
<1>2. r.decision[i] = None
  <2>1. r.decision[i] \in DecisionTypes \cup {None}
    BY RuntimeFields
  <2>2. r.item[i] = CASE r.decision[i] = "skip" -> "skipped"
                      [] r.decision[i] \in DecisionTypes \ {"skip"} -> "reviewed"
                      [] OTHER -> IF r.item[i] = "presented" THEN "presented" ELSE "pending"
    BY DEF RuntimeSound, DecisionsProjected
  <2> QED BY <2>1, <2>2
<1>3. DecisionsProjected(s)
  <2> SUFFICES ASSUME NEW j \in Items
               PROVE  s.item[j] = CASE s.decision[j] = "skip" -> "skipped"
                      [] s.decision[j] \in DecisionTypes \ {"skip"} -> "reviewed"
                      [] OTHER -> IF s.item[j] = "presented" THEN "presented" ELSE "pending"
    BY DEF DecisionsProjected
  <2>1. CASE j = i
    <3>1. /\ s.item[j] = IF type = "skip" THEN "skipped" ELSE "reviewed"
          /\ s.decision[j] = type
      BY <1>1, <2>1 DEF DecidedOf
    <3>2. CASE type = "skip"
      BY <3>1, <3>2
    <3>3. CASE type # "skip"
      BY <3>1, <3>3
    <3> QED BY <3>2, <3>3
  <2>2. CASE j # i
    <3>1. s.item[j] = r.item[j] /\ s.decision[j] = r.decision[j]
      BY <1>1, <2>2 DEF DecidedOf
    <3> QED BY <3>1 DEF RuntimeSound, DecisionsProjected
  <2> QED BY <2>1, <2>2
<1>4. /\ Terminal(s) = Terminal(r) \cup {i} /\ Engaged(s) = Engaged(r) /\ i \in Engaged(s)
      /\ s.attempt = r.attempt
  BY <1>1 DEF DecidedOf, Terminal, Engaged
<1>5. PresentedAccepted(s)
  <2>1. \A j \in Items : Clean(r, j) => Clean(s, j)
    BY <1>4 DEF Clean
  <2>2. ASSUME NEW j \in Items, s.decision[j] # None PROVE Clean(s, j)
    <3>1. CASE j = i
      BY <2>1, <3>1
    <3>2. CASE j # i
      BY <1>1, <2>1, <2>2, <3>2 DEF DecidedOf, RuntimeSound, PresentedAccepted
    <3> QED BY <3>1, <3>2
  <2> QED BY <1>4, <2>2 DEF RuntimeSound, PresentedAccepted
<1>6. BatchSound(s)
  <2>1. s.batch = IF Terminal(s) = Items THEN "completed" ELSE "in_review"
    BY <1>1, <1>4 DEF DecidedOf
  <2>2. \A a \in Attempts : ~s.attempt[a].blocked
    BY <1>4 DEF RuntimeSound, BatchSound
  <2> QED BY <1>4, <2>1, <2>2 DEF BatchSound
<1>7. RuntimeSound(s)
  BY <1>3, <1>4, <1>5, <1>6 DEF RuntimeSound, RetriesProven
<1>8. RuntimeForward(r, s)
  <2>1. \A j \in Items : Order(s.item[j]) >= Order(r.item[j])
    <3> TAKE j \in Items
    <3>1. CASE j = i
      BY <1>1, <3>1, OrderIs DEF DecidedOf
    <3>2. CASE j # i
      BY <1>1, <3>2, RuntimeFields, PhaseOrder DEF DecidedOf
    <3> QED BY <3>1, <3>2
  <2>2. \A j \in Items : r.decision[j] # None => s.decision[j] = r.decision[j]
    BY <1>1, <1>2 DEF DecidedOf
  <2>3. RuntimeForward(r, r)
    BY SameForward
  <2> QED BY <1>1, <2>1, <2>2, <2>3 DEF RuntimeForward, DecidedOf
<1>9. Follows(r, s)
  BY <1>1, <1>7, <1>8 DEF Follows, DecidedOf
<1> QED BY <1>2, <1>9 DEF s

-----------------------------------------------------------------------------
(* A validated store has no decision in the middle of its publication *)

LEMMA ValidClosed ==
    ASSUME FeedbackInv, Valid
    PROVE  intent = None
<1> SUFFICES ASSUME intent # None PROVE FALSE
  OBVIOUS
<1>1. PICK i \in Items, t \in DecisionTypes : intent.command = <<i, t>>
  BY DEF FeedbackInv, FeedbackTypeOK, Commands
<1>2. "intent" \in published[<<i, t>>] /\ "commit" \notin published[<<i, t>>]
  BY <1>1 DEF FeedbackInv, IntentSound
<1>3. published[<<i, t>>] = IF run.decision[i] = t THEN Artifacts(t) ELSE {}
  BY DEF Valid, DecisionsPublished
<1>4. "commit" \in Artifacts(t)
  BY DEF Artifacts
<1> QED BY <1>2, <1>3, <1>4

\* A validated item that is before the reviewer was cleanly accepted.
LEMMA ValidClean ==
    ASSUME run \in Runtime, RuntimeSound(run), Valid, NEW i \in Items,
           run.item[i] = "presented"
    PROVE  Clean(run, i) /\ run.batch = "in_review"
<1>1. i \in Engaged(run) /\ i \notin Terminal(run)
  BY DEF Engaged, Terminal
<1>2. PICK k \in {1, 2} : run.attempt[<<i, k>>].outcome = "accepted"
  BY <1>1 DEF RuntimeSound, PresentedAccepted
<1>3. <<i, k>> \in Attempts
  BY Pairs
<1>4. run.attempt[<<i, k>>].effect \in {None, "accepted"}
  BY <1>2, <1>3 DEF Valid, LedgerAgrees
<1>5. run.batch = "in_review"
  BY <1>1, RuntimeFields DEF Valid, BatchSummarises
<1> QED BY <1>2, <1>4, <1>5 DEF Clean

-----------------------------------------------------------------------------
(* The steps *)

\* A command replaces the runtime, decisions apart, while no decision is being published; if
\* one is open, the command had been validated before it.
LEMMA StoreStep ==
    ASSUME FeedbackInv, ~publishing, Follows(run, run'), run'.decision = run.decision,
           found' \in [Callers -> Attempts \cup {None}],
           overtaken' = (overtaken \/ intent # None),
           UNCHANGED <<published, intent, publishing, deaths>>
    PROVE  FeedbackInv' /\ RuntimeForward(run, run')
<1>1. FeedbackTypeOK'
  BY DEF FeedbackInv, FeedbackTypeOK, Follows
<1>2. ArtifactsSound'
  BY DEF FeedbackInv, ArtifactsSound
<1>3. IntentSound'
  BY DEF FeedbackInv, IntentSound
<1>4. ImagesSound'
  BY DEF ImagesSound, DecisionRecoverable
<1> QED BY <1>1, <1>2, <1>3, <1>4 DEF Follows, FeedbackInv

LEMMA ApplyStep ==
    ASSUME FeedbackInv, NEW p \in Callers, NEW a, NEW r, Apply(p, a, r), Follows(run, r),
           r.decision = run.decision
    PROVE  FeedbackInv' /\ RuntimeForward(run, run')
<1>1. found' \in [Callers -> Attempts \cup {None}]
  BY DEF FeedbackInv, FeedbackTypeOK, Apply
<1> QED BY <1>1, StoreStep DEF Apply

\* The commands that edit only their attempt
LEMMA BecomesStep ==
    ASSUME FeedbackInv, NEW p \in Callers, NEW a \in Attempts, NEW t,
           Succeeds(run.attempt[a], t), Apply(p, a, Becomes(a, t))
    PROVE  FeedbackInv' /\ RuntimeForward(run, run')
<1>1. Follows(run, Becomes(a, t))
  BY EditFollows DEF FeedbackInv, FeedbackTypeOK, Becomes
<1>2. Becomes(a, t).decision = run.decision
  BY Edit DEF FeedbackInv, FeedbackTypeOK, Becomes, EditOf, Succeeds
<1> QED BY <1>1, <1>2, ApplyStep

LEMMA PresentedStep ==
    ASSUME FeedbackInv, NEW p \in Callers, NEW a \in Attempts, NEW t,
           Succeeds(run.attempt[a], t), t.outcome = "accepted", run.item[a[1]] = "pending",
           Apply(p, a, Presented(a, t))
    PROVE  FeedbackInv' /\ RuntimeForward(run, run')
<1>1. Follows(run, Presented(a, t))
  BY PresentedFollows DEF FeedbackInv, FeedbackTypeOK
<1>2. Presented(a, t).decision = run.decision
  BY DEF FeedbackInv, FeedbackTypeOK, Presented, Runtime
<1> QED BY <1>1, <1>2, ApplyStep

LEMMA SessionStep ==
    ASSUME FeedbackInv, (\E o \in Owners : Claim(o)) \/ (\E i \in Items : Reserve(i))
    PROVE  FeedbackInv' /\ RuntimeForward(run, run')
<1>1. run \in Runtime /\ RuntimeSound(run) /\ found \in [Callers -> Attempts \cup {None}]
  BY DEF FeedbackInv, FeedbackTypeOK
<1>2. intent = None
  BY ValidClosed DEF Claim, Reserve
<1>3. ASSUME NEW r, Locked(r), Follows(run, r), r.decision = run.decision
      PROVE  FeedbackInv' /\ RuntimeForward(run, run')
  <2>1. /\ ~publishing /\ run' = r /\ found' = found /\ overtaken' = overtaken
        /\ UNCHANGED <<published, intent, publishing, deaths>>
    BY <1>3 DEF Locked
  <2>2. overtaken' = (overtaken \/ intent # None)
    BY <1>2, <2>1 DEF FeedbackInv, FeedbackTypeOK
  <2> QED BY <1>1, <1>3, <2>1, <2>2, StoreStep
<1>4. ASSUME NEW o \in Owners, Claim(o) PROVE FeedbackInv' /\ RuntimeForward(run, run')
  <2> DEFINE r == [run EXCEPT !.session = [owner |-> o, fence |-> @.fence + 1]]
  <2>1. Locked(r) /\ run.session.fence < MaxFence
    BY <1>4 DEF Claim
  <2>2. r.decision = run.decision
    BY <1>1 DEF Runtime
  <2>3. Follows(run, r)
    BY <1>1, <2>1, ClaimFollows
  <2> HIDE DEF r
  <2> QED BY <1>3, <2>1, <2>2, <2>3
<1>5. ASSUME NEW i \in Items, Reserve(i) PROVE FeedbackInv' /\ RuntimeForward(run, run')
  <2> DEFINE a == <<i, 1>>
             r == [run EXCEPT !.attempt[a] = Reserved(run.session)]
  <2>1. Locked(r) /\ run.attempt[a].phase = None
    BY <1>5 DEF Reserve
  <2>2. a \in Attempts /\ a[2] = 1 /\ run.session \in ReviewSession
    BY <1>1, Pairs, RuntimeFields
  <2> HIDE DEF a
  <2>3. r.decision = run.decision
    BY <1>1 DEF Runtime
  <2>4. Follows(run, r)
    BY <1>1, <2>1, <2>2, ReserveFollows
  <2> HIDE DEF r
  <2> QED BY <1>3, <2>1, <2>3, <2>4
<1> QED BY <1>4, <1>5

LEMMA DeliveryStep ==
    ASSUME FeedbackInv, NEW p \in Callers, NEW a \in Attempts, Delivery(p, a)
    PROVE  FeedbackInv' /\ RuntimeForward(run, run')
<1> DEFINE o == run.attempt[a]
<1>1. o \in Attempt /\ AttemptSound(o)
  BY RuntimeFields DEF FeedbackInv, FeedbackTypeOK, RuntimeSound
<1>2. CASE MarkRequestStarted(p, a)
  BY <1>1, <1>2, Marked, BecomesStep DEF MarkRequestStarted
<1>3. CASE CancelBeforeRequest(p, a)
  BY <1>1, <1>3, Cancelled, BecomesStep DEF CancelBeforeRequest
<1>4. ASSUME NEW e \in Effects, InvokeConnector(p, a, e)
      PROVE  FeedbackInv' /\ RuntimeForward(run, run')
  BY <1>1, <1>4, Invoked, BecomesStep DEF InvokeConnector
<1>5. CASE FinalizeAccepted(p, a)
  <2> DEFINE t == [o EXCEPT !.phase = "finalized", !.outcome = "accepted"]
  <2>1. Succeeds(o, t) /\ Apply(p, a, Presented(a, t)) /\ run.item[a[1]] = "pending"
    BY <1>1, <1>5, Finalized DEF FinalizeAccepted
  <2>2. t.outcome = "accepted"
    BY <1>1 DEF Attempt
  <2> HIDE DEF t
  <2> QED BY <2>1, <2>2, PresentedStep
<1>6. ASSUME NEW end \in {"rejected", "delivery_unknown"}, FinalizeUnpresented(p, a, end)
      PROVE  FeedbackInv' /\ RuntimeForward(run, run')
  BY <1>1, <1>6, Finalized, BecomesStep DEF FinalizeUnpresented
<1> QED BY <1>2, <1>3, <1>4, <1>5, <1>6 DEF Delivery

LEMMA ReconciliationStep ==
    ASSUME FeedbackInv, NEW p \in Callers, NEW a \in Attempts, Reconciliation(p, a)
    PROVE  FeedbackInv' /\ RuntimeForward(run, run')
<1> DEFINE o == run.attempt[a]
<1>1. o \in Attempt /\ AttemptSound(o) /\ run \in Runtime /\ RuntimeSound(run)
  BY RuntimeFields DEF FeedbackInv, FeedbackTypeOK, RuntimeSound
<1>2. ASSUME NEW n \in Found \cup NotApplied, Observe(p, a, n)
      PROVE  FeedbackInv' /\ RuntimeForward(run, run')
  <2> DEFINE t == [o EXCEPT !.observed = @ \cup {n}]
  <2>1. o.outcome = "delivery_unknown" /\ Apply(p, a, Becomes(a, t))
    BY <1>2 DEF Observe
  <2>2. /\ t \in Attempt /\ t.phase = o.phase /\ t.outcome = o.outcome /\ t.effect = o.effect
        /\ t.blocked = o.blocked /\ o.observed \subseteq t.observed
    BY <1>1 DEF Attempt
  <2> HIDE DEF t
  <2> QED BY <1>1, <2>1, <2>2, Inquired, BecomesStep
<1>3. CASE ClaimReconciliation(p, a)
  <2> DEFINE t == [o EXCEPT !.reconciler = TRUE]
  <2>1. o.outcome = "delivery_unknown" /\ Apply(p, a, Becomes(a, t))
    BY <1>3 DEF ClaimReconciliation
  <2>2. /\ t \in Attempt /\ t.phase = o.phase /\ t.outcome = o.outcome /\ t.effect = o.effect
        /\ t.blocked = o.blocked /\ o.observed \subseteq t.observed
    BY <1>1 DEF Attempt
  <2> HIDE DEF t
  <2> QED BY <1>1, <2>1, <2>2, Inquired, BecomesStep
<1>4. CASE ReconcileUnresolved(p, a)
  <2> DEFINE r == [run EXCEPT !.attempt[a].blocked = TRUE, !.batch = "blocked"]
  <2>1. Reconcilable(o) /\ Apply(p, a, r)
    BY <1>4 DEF ReconcileUnresolved
  <2>2. Follows(run, r)
    BY <1>1, <2>1, UnresolvedFollows
  <2>3. r.decision = run.decision
    BY <1>1 DEF Runtime
  <2> HIDE DEF r
  <2> QED BY <2>1, <2>2, <2>3, ApplyStep
<1>5. CASE ReconcileFound(p, a)
  <2> DEFINE t == [o EXCEPT !.outcome = "accepted"]
  <2>1. Reconcilable(o) /\ Apply(p, a, Presented(a, t)) /\ run.item[a[1]] = "pending"
    BY <1>5 DEF ReconcileFound
  <2>2. o.outcome = "delivery_unknown" /\ ~o.blocked
    BY <1>1, <2>1 DEF Reconcilable, RuntimeSound, BatchSound
  <2>3. Succeeds(o, t)
    BY <1>1, <2>2, Reconciled
  <2>4. t.outcome = "accepted"
    BY <1>1 DEF Attempt
  <2> HIDE DEF t
  <2> QED BY <2>1, <2>3, <2>4, PresentedStep
<1>6. CASE ReconcileNotApplied(p, a)
  <2> DEFINE n == <<a[1], 2>>
             r == [run EXCEPT !.attempt[a].outcome = "not_applied",
                              !.attempt[n] = Reserved(run.session)]
  <2>1. /\ Reconcilable(o) /\ Proven(o) /\ a[2] = 1 /\ run.attempt[n].phase = None
        /\ Apply(p, a, r)
    BY <1>6 DEF ReconcileNotApplied
  <2>2. Follows(run, r)
    BY <1>1, <2>1, NotAppliedFollows
  <2>3. r.decision = run.decision
    BY <1>1 DEF Runtime
  <2> HIDE DEF r
  <2> QED BY <2>1, <2>2, <2>3, ApplyStep
<1> QED BY <1>2, <1>3, <1>4, <1>5, <1>6 DEF Reconciliation

\* Who found what, and who lives: the files are as they were.
LEMMA CallerStep ==
    ASSUME FeedbackInv, NEW p \in Callers,
           GiveUp(p) \/ \E a \in Attempts : Find(p, a)
    PROVE  FeedbackInv' /\ RuntimeForward(run, run')
<1>1. /\ UNCHANGED <<run, published, intent, publishing, deaths, overtaken>>
      /\ found' \in [Callers -> Attempts \cup {None}]
  BY DEF GiveUp, Find, FeedbackInv, FeedbackTypeOK
<1>2. FeedbackInv'
  BY <1>1 DEF FeedbackInv, FeedbackTypeOK, ArtifactsSound, IntentSound, ImagesSound,
              DecisionRecoverable
<1> QED BY <1>1, <1>2, SameForward DEF FeedbackInv, FeedbackTypeOK

LEMMA LockStep ==
    ASSUME FeedbackInv, Die \/ RecoverDecision
    PROVE  FeedbackInv' /\ RuntimeForward(run, run')
<1>1. /\ UNCHANGED <<run, published, intent, found, overtaken>> /\ publishing' \in BOOLEAN
      /\ publishing' => intent # None /\ run \in {intent.before, intent.after}
      /\ deaths' \in 0..MaxDeaths
  <2>1. deaths \in 0..MaxDeaths /\ MaxDeaths \in Nat
    BY FeedbackAssumption DEF FeedbackInv, FeedbackTypeOK
  <2>2. CASE Die
    <3>1. deaths' \in 0..MaxDeaths
      BY <2>1, <2>2 DEF Die
    <3>2. UNCHANGED <<run, published, intent, found, overtaken>> /\ publishing' = FALSE
      BY <2>2 DEF Die
    <3> QED BY <3>1, <3>2
  <2>3. CASE RecoverDecision
    BY <2>1, <2>3 DEF RecoverDecision
  <2> QED BY <2>2, <2>3
<1>2. FeedbackTypeOK'
  BY <1>1 DEF FeedbackInv, FeedbackTypeOK
<1>3. ArtifactsSound' /\ IntentSound' /\ ImagesSound'
  BY <1>1 DEF FeedbackInv, ArtifactsSound, IntentSound, ImagesSound, DecisionRecoverable
<1>4. FeedbackInv'
  BY <1>1, <1>2, <1>3 DEF FeedbackInv
<1> QED BY <1>1, <1>4, SameForward DEF FeedbackInv, FeedbackTypeOK

LEMMA DecideStep ==
    ASSUME FeedbackInv, NEW c \in Commands, Decide(c)
    PROVE  FeedbackInv' /\ RuntimeForward(run, run')
<1> DEFINE after == Decided(run, c[1], c[2])
<1>1. c[1] \in Items /\ c[2] \in DecisionTypes
  BY DEF Commands
<1>2. /\ ~publishing /\ published[c] = {} /\ Valid /\ run.item[c[1]] = "presented"
      /\ intent' = [command |-> c, before |-> run, after |-> after]
      /\ published' = [published EXCEPT ![c] = {"intent"}] /\ publishing' = TRUE
      /\ UNCHANGED <<run, found, deaths, overtaken>>
  BY DEF Decide
<1>3. /\ run \in Runtime /\ RuntimeSound(run)
      /\ published \in [Commands -> SUBSET {"intent", "decision", "feedback", "result", "commit"}]
  BY DEF FeedbackInv, FeedbackTypeOK
<1>4. intent = None
  BY <1>2, ValidClosed
<1>5. Clean(run, c[1]) /\ run.batch = "in_review"
  BY <1>1, <1>2, <1>3, ValidClean
<1>6. after \in Runtime
  BY <1>1, <1>2, <1>3, <1>5, DecidedFollows DEF Follows
<1> HIDE DEF after
<1>7. /\ intent'.command = c /\ intent'.before = run /\ intent'.after = after
      /\ intent' # None
  BY <1>2, <1>3, <1>6, NoneAssumption
<1>8. FeedbackTypeOK'
  BY <1>2, <1>3, <1>6, <1>7 DEF FeedbackInv, FeedbackTypeOK
<1>9. ArtifactsSound'
  BY <1>2, <1>3, <1>4, <1>7 DEF FeedbackInv, ArtifactsSound
<1>10. published'[c] = {"intent"}
  BY <1>2, <1>3
<1>11. {"intent"} \subseteq Artifacts(c[2]) \ {"commit"}
  BY DEF Artifacts
<1>12. IntentSound'
  BY <1>2, <1>5, <1>7, <1>10, <1>11 DEF IntentSound, after
<1>13. ImagesSound'
  BY <1>2, <1>7 DEF ImagesSound, DecisionRecoverable
<1>14. FeedbackInv'
  BY <1>2, <1>3, <1>8, <1>9, <1>12, <1>13 DEF FeedbackInv
<1> QED BY <1>2, <1>3, <1>14, SameForward

\* What the publication of a decision stands on
LEMMA Publication ==
    ASSUME FeedbackInv, publishing
    PROVE  /\ intent # None /\ intent.command \in Commands
           /\ intent.command[1] \in Items /\ intent.command[2] \in DecisionTypes
           /\ intent.command = <<intent.command[1], intent.command[2]>>
           /\ run \in {intent.before, intent.after}
           /\ intent.before \in Runtime /\ intent.after \in Runtime
           /\ DecidedOf(intent.before, intent.after, intent.command[1], intent.command[2])
           /\ "intent" \in published[intent.command]
           /\ published[intent.command] \subseteq Artifacts(intent.command[2]) \ {"commit"}
<1>1. /\ intent # None /\ intent.command \in Commands
      /\ intent.before \in Runtime /\ intent.after \in Runtime
      /\ run \in {intent.before, intent.after}
  BY DEF FeedbackInv, FeedbackTypeOK, ImagesSound
<1>2. /\ intent.command[1] \in Items /\ intent.command[2] \in DecisionTypes
      /\ intent.command = <<intent.command[1], intent.command[2]>>
  BY <1>1 DEF Commands
<1>3. /\ "intent" \in published[intent.command]
      /\ published[intent.command] \subseteq Artifacts(intent.command[2]) \ {"commit"}
      /\ intent.after = Decided(intent.before, intent.command[1], intent.command[2])
  BY <1>1 DEF FeedbackInv, IntentSound
<1> QED BY <1>1, <1>2, <1>3, DecidedIs

LEMMA WriteArtifactStep ==
    ASSUME FeedbackInv, NEW a \in {"decision", "feedback", "result"}, WriteArtifact(a)
    PROVE  FeedbackInv' /\ RuntimeForward(run, run')
<1> DEFINE c == intent.command
<1>1. /\ publishing /\ a \in Artifacts(c[2]) \ {"commit"}
      /\ published' = [published EXCEPT ![c] = @ \cup {a}]
      /\ UNCHANGED <<run, intent, publishing, found, deaths, overtaken>>
  BY DEF WriteArtifact, Missing
<1>2. /\ intent # None /\ c \in Commands /\ "intent" \in published[c]
      /\ published[c] \subseteq Artifacts(c[2]) \ {"commit"}
  BY <1>1, Publication
<1>3. published \in [Commands -> SUBSET {"intent", "decision", "feedback", "result", "commit"}]
  BY DEF FeedbackInv, FeedbackTypeOK
<1>4. /\ published' \in [Commands -> SUBSET {"intent", "decision", "feedback", "result", "commit"}]
      /\ published'[c] = published[c] \cup {a}
      /\ \A d \in Commands \ {c} : published'[d] = published[d]
  BY <1>1, <1>2, <1>3
<1>5. FeedbackTypeOK'
  BY <1>1, <1>4 DEF FeedbackInv, FeedbackTypeOK
<1>6. ArtifactsSound'
  BY <1>1, <1>2, <1>4 DEF FeedbackInv, ArtifactsSound
<1>7. IntentSound'
  BY <1>1, <1>2, <1>4 DEF FeedbackInv, IntentSound
<1>8. ImagesSound'
  BY <1>1 DEF FeedbackInv, ImagesSound, DecisionRecoverable
<1>9. FeedbackInv'
  BY <1>1, <1>5, <1>6, <1>7, <1>8 DEF FeedbackInv
<1> QED BY <1>1, <1>9, SameForward DEF FeedbackInv, FeedbackTypeOK

LEMMA ReplaceStep ==
    ASSUME FeedbackInv, ReplaceRuntime
    PROVE  FeedbackInv' /\ RuntimeForward(run, run')
<1> DEFINE i == intent.command[1]
           type == intent.command[2]
<1>1. /\ publishing /\ run' = intent.after /\ run # intent.after
      /\ UNCHANGED <<published, intent, publishing, found, deaths, overtaken>>
  BY DEF ReplaceRuntime
<1>2. /\ intent # None /\ i \in Items /\ type \in DecisionTypes /\ run = intent.before
      /\ DecidedOf(run, run', i, type) /\ intent.command = <<i, type>>
  BY <1>1, Publication
<1>3. /\ run' = Decided(run, i, type)
      /\ run.item[i] = "presented" /\ run.batch = "in_review" /\ Clean(run, i)
  BY <1>1, <1>2 DEF FeedbackInv, IntentSound
<1>4. run \in Runtime /\ RuntimeSound(run)
  BY DEF FeedbackInv, FeedbackTypeOK
<1> HIDE DEF i, type
<1>5. Follows(run, run') /\ run.decision[i] = None
  BY <1>2, <1>3, <1>4, DecidedFollows
<1>6. FeedbackTypeOK'
  BY <1>1, <1>5 DEF FeedbackInv, FeedbackTypeOK, Follows
<1>7. ArtifactsSound'
  <2> SUFFICES ASSUME NEW c \in Commands, c # intent.command
               PROVE  published[c] = IF run'.decision[c[1]] = c[2] THEN Artifacts(c[2]) ELSE {}
    BY <1>1, <1>2 DEF ArtifactsSound
  <2>1. published[c] = IF run.decision[c[1]] = c[2] THEN Artifacts(c[2]) ELSE {}
    BY DEF FeedbackInv, ArtifactsSound
  <2>2. c[1] \in Items /\ c[2] \in DecisionTypes /\ c = <<c[1], c[2]>> /\ None \notin DecisionTypes
    BY FeedbackAssumption DEF Commands
  <2>3. CASE c[1] = i
    <3>1. c[2] # type
      BY <1>2, <2>2, <2>3
    <3>2. run'.decision[c[1]] = type /\ run.decision[c[1]] = None
      BY <1>2, <1>5, <2>3 DEF DecidedOf
    <3> QED BY <2>1, <2>2, <3>1, <3>2
  <2>4. CASE c[1] # i
    BY <1>2, <2>1, <2>2, <2>4 DEF DecidedOf
  <2> QED BY <2>3, <2>4
<1>8. IntentSound'
  BY <1>1 DEF FeedbackInv, IntentSound
<1>9. ImagesSound'
  BY <1>1 DEF ImagesSound, DecisionRecoverable
<1> QED BY <1>5, <1>6, <1>7, <1>8, <1>9 DEF FeedbackInv, Follows

LEMMA WriteCommitStep ==
    ASSUME FeedbackInv, WriteCommit
    PROVE  FeedbackInv' /\ RuntimeForward(run, run')
<1> DEFINE c == intent.command
<1>1. /\ publishing /\ Artifacts(c[2]) \ published[c] = {"commit"} /\ run = intent.after
      /\ published' = [published EXCEPT ![c] = @ \cup {"commit"}]
      /\ intent' = None /\ publishing' = FALSE
      /\ UNCHANGED <<run, found, deaths, overtaken>>
  BY DEF WriteCommit, Missing
<1>2. /\ c \in Commands /\ DecidedOf(intent.before, run, c[1], c[2])
      /\ published[c] \subseteq Artifacts(c[2])
  BY <1>1, Publication
<1>3. published \in [Commands -> SUBSET {"intent", "decision", "feedback", "result", "commit"}]
  BY DEF FeedbackInv, FeedbackTypeOK
<1>4. /\ published' \in [Commands -> SUBSET {"intent", "decision", "feedback", "result", "commit"}]
      /\ published'[c] = published[c] \cup {"commit"}
      /\ \A d \in Commands \ {c} : published'[d] = published[d]
  BY <1>1, <1>2, <1>3
<1>5. published'[c] = Artifacts(c[2]) /\ run.decision[c[1]] = c[2]
  BY <1>1, <1>2, <1>4 DEF DecidedOf
<1>6. FeedbackTypeOK'
  BY <1>1, <1>4 DEF FeedbackInv, FeedbackTypeOK
<1>7. ArtifactsSound'
  <2> SUFFICES ASSUME NEW d \in Commands
               PROVE  published'[d] = IF run.decision[d[1]] = d[2] THEN Artifacts(d[2]) ELSE {}
    BY <1>1 DEF ArtifactsSound
  <2>1. CASE d = c
    BY <1>5, <2>1
  <2>2. CASE d # c
    BY <1>4, <2>2 DEF FeedbackInv, ArtifactsSound
  <2> QED BY <2>1, <2>2
<1>8. IntentSound' /\ ImagesSound'
  BY <1>1 DEF IntentSound, ImagesSound, DecisionRecoverable
<1>9. FeedbackInv'
  BY <1>1, <1>6, <1>7, <1>8 DEF FeedbackInv
<1> QED BY <1>1, <1>9, SameForward DEF FeedbackInv, FeedbackTypeOK

LEMMA FeedbackStep ==
    ASSUME FeedbackInv, [FeedbackNext]_feedbackVars
    PROVE  FeedbackInv' /\ RuntimeForward(run, run')
<1>1. CASE UNCHANGED feedbackVars
  <2>1. FeedbackInv'
    BY <1>1 DEF feedbackVars, FeedbackInv, FeedbackTypeOK, ArtifactsSound, IntentSound,
                ImagesSound, DecisionRecoverable
  <2> QED BY <1>1, <2>1, SameForward DEF feedbackVars, FeedbackInv, FeedbackTypeOK
<1>2. CASE FeedbackNext
  BY <1>2, SessionStep, CallerStep, DeliveryStep, ReconciliationStep, DecideStep,
     WriteArtifactStep, ReplaceStep, WriteCommitStep, LockStep DEF FeedbackNext
<1> QED BY <1>1, <1>2

LEMMA FeedbackInitSound == FeedbackInit => FeedbackInv
<1> SUFFICES ASSUME FeedbackInit PROVE FeedbackInv
  OBVIOUS
<1>1. NoAttempt \in Attempt /\ AttemptSound(NoAttempt) /\ NoAttempt.phase = None
      /\ NoAttempt.blocked = FALSE /\ NoAttempt.session \in ReviewSession
  <2>1. [owner |-> None, fence |-> 0] \in ReviewSession
    BY FeedbackAssumption DEF ReviewSession
  <2>2. None # "finalized" /\ None \notin Outcomes
    BY NoneAssumption
  <2> QED BY <2>1, <2>2 DEF NoAttempt, Attempt, AttemptSound, Outcomes
<1>2. /\ run.batch = "ready" /\ run.session = NoAttempt.session
      /\ run.item = [i \in Items |-> "pending"] /\ run.decision = [i \in Items |-> None]
      /\ run.attempt = [a \in Attempts |-> NoAttempt]
      /\ run \in Runtime
  <2> DEFINE x == NoAttempt.session
  <2> HIDE DEF x
  <2>1. x \in ReviewSession
    BY <1>1 DEF x
  <2>2. run = [batch |-> "ready", session |-> x, item |-> [i \in Items |-> "pending"],
               decision |-> [i \in Items |-> None], attempt |-> [a \in Attempts |-> NoAttempt]]
    BY DEF FeedbackInit, x
  <2>3. run \in Runtime
    BY <1>1, <2>1, <2>2 DEF Runtime
  <2>4. /\ run.batch = "ready" /\ run.session = x
        /\ run.item = [i \in Items |-> "pending"] /\ run.decision = [i \in Items |-> None]
        /\ run.attempt = [a \in Attempts |-> NoAttempt]
    BY <2>2
  <2> QED BY <2>3, <2>4 DEF x
<1>3. Engaged(run) = {}
  BY <1>2 DEF Engaged
<1>4. \A i \in Items : run.decision[i] = None /\ run.item[i] = "pending"
  BY <1>2
<1>5. \A a \in Attempts : run.attempt[a] = NoAttempt
  BY <1>2
<1>6. RuntimeSound(run)
  <2>1. DecisionsProjected(run)
    BY <1>4, FeedbackAssumption, NoneAssumption DEF DecisionsProjected
  <2>2. RetriesProven(run)
    BY <1>1, <1>5, Pairs DEF RetriesProven
  <2>3. PresentedAccepted(run)
    BY <1>3, <1>4 DEF PresentedAccepted
  <2>4. BatchSound(run)
    BY <1>1, <1>2, <1>3, <1>5 DEF BatchSound
  <2> QED BY <1>1, <1>5, <2>1, <2>2, <2>3, <2>4 DEF RuntimeSound
<1>7. ArtifactsSound
  <2> SUFFICES ASSUME NEW c \in Commands
               PROVE  published[c] = IF run.decision[c[1]] = c[2] THEN Artifacts(c[2]) ELSE {}
    BY DEF ArtifactsSound
  <2>1. c[1] \in Items /\ c[2] # None
    BY FeedbackAssumption DEF Commands
  <2> QED BY <1>4, <2>1 DEF FeedbackInit
<1>8. FeedbackTypeOK
  <2>1. deaths \in 0..MaxDeaths
    BY FeedbackAssumption DEF FeedbackInit
  <2>2. /\ published \in [Commands -> SUBSET {"intent", "decision", "feedback", "result", "commit"}]
        /\ found \in [Callers -> Attempts \cup {None}]
    BY DEF FeedbackInit
  <2>3. intent = None /\ publishing = FALSE /\ overtaken = FALSE
    BY DEF FeedbackInit
  <2> QED BY <1>2, <2>1, <2>2, <2>3 DEF FeedbackTypeOK
<1>9. IntentSound /\ ImagesSound
  BY DEF FeedbackInit, IntentSound, ImagesSound, DecisionRecoverable
<1> QED BY <1>6, <1>7, <1>8, <1>9 DEF FeedbackInv

-----------------------------------------------------------------------------
(* The theorems *)

\* FeedbackInv is inductive.
THEOREM FeedbackInductive == FeedbackSpec => []FeedbackInv
<1>1. FeedbackInv /\ [FeedbackNext]_feedbackVars => FeedbackInv'
  BY FeedbackStep
<1> QED BY FeedbackInitSound, <1>1, PTL DEF FeedbackSpec

\* The types of the store of daily_feedback.py.
THEOREM FeedbackTyped == FeedbackSpec => []FeedbackTypeOK
<1>1. FeedbackInv => FeedbackTypeOK
  BY DEF FeedbackInv
<1> QED BY <1>1, FeedbackInductive, PTL

\* Between two decisions _validate_runtime_binding accepts what the commands wrote, whatever
\* their interleaving, but for a block over an engaged item and a find against the ledger.
THEOREM StoreAcceptsItself == FeedbackSpec => []OwnFilesAccepted
<1>1. FeedbackInv => OwnFilesAccepted
  <2> SUFFICES ASSUME FeedbackInv, intent = None, ~BlockedWhileEngaged, ~FoundAgainstLedger
               PROVE  Valid
    BY DEF OwnFilesAccepted
  <2>1. run \in Runtime /\ RuntimeSound(run)
    BY DEF FeedbackInv, FeedbackTypeOK
  <2>2. DecisionsPublished(run)
    <3> SUFFICES ASSUME NEW i \in Items, NEW t \in DecisionTypes
                 PROVE  published[<<i, t>>] = IF run.decision[i] = t THEN Artifacts(t) ELSE {}
      BY DEF DecisionsPublished
    <3>1. <<i, t>> \in Commands
      BY DEF Commands
    <3> QED BY <3>1 DEF FeedbackInv, ArtifactsSound
  <2>3. LedgerAgrees(run)
    <3> SUFFICES ASSUME NEW a \in Attempts, run.attempt[a].effect # None
                 PROVE  LET t == run.attempt[a]
                        IN  /\ t.outcome \in {"accepted", "rejected"} => t.effect = t.outcome
                            /\ t.outcome = "delivery_unknown" => t.effect \in Unknown
                            /\ t.outcome # "cancelled_before_request"
      BY DEF LedgerAgrees
    <3>1. AttemptSound(run.attempt[a])
      BY <2>1 DEF RuntimeSound
    <3>2. run.attempt[a].outcome = "accepted" => run.attempt[a].effect \notin Unknown
      BY DEF FoundAgainstLedger
    <3> QED BY <3>1, <3>2 DEF AttemptSound
  <2>4. BatchSummarises(run)
    <3>1. run.batch = "blocked" => Engaged(run) = {}
      BY DEF BlockedWhileEngaged
    <3>2. \A a \in Attempts : run.attempt[a].blocked => run.attempt[a].outcome = "delivery_unknown"
      BY <2>1 DEF RuntimeSound, AttemptSound
    <3>3. run.batch = "blocked" =>
             \E a \in Attempts : {b \in Attempts : run.attempt[b].blocked} = {a}
      BY <2>1 DEF RuntimeSound, BatchSound
    <3> QED BY <2>1, <3>1, <3>2, <3>3 DEF RuntimeSound, BatchSound, BatchSummarises
  <2> QED BY <2>1, <2>2, <2>3, <2>4 DEF Valid, RuntimeSound
<1> QED BY <1>1, FeedbackInductive, PTL

\* A decision cut short by the death of its process is found over one of its two images, so
\* that _recover_review_decision_intent takes it up, unless an earlier call came between.
THEOREM CutShortRecovered == FeedbackSpec => []DecisionRecoverable
<1>1. FeedbackInv => DecisionRecoverable
  BY DEF FeedbackInv, ImagesSound
<1> QED BY <1>1, FeedbackInductive, PTL

\* The reviewer gets an item at most once, and decides only what he got.
THEOREM DeliveredThenDecided == FeedbackSpec => []DecidedWasDeliveredOnce
<1>1. FeedbackInv => DecidedWasDeliveredOnce
  <2> SUFFICES ASSUME FeedbackInv, NEW i \in Items
               PROVE  /\ \E k \in {1, 2} : run.attempt[<<i, k>>].effect
                                               \notin {"accepted", "unknown_accepted"}
                      /\ run.decision[i] # None =>
                           \E t \in {run.attempt[<<i, k>>] : k \in {1, 2}} :
                              t.outcome = "accepted" /\ t.effect \in {None, "accepted"}
    BY DEF DecidedWasDeliveredOnce
  <2>1. RuntimeSound(run) /\ <<i, 1>> \in Attempts /\ <<i, 2>> \in Attempts
    BY Pairs DEF FeedbackInv
  <2>2. \E k \in {1, 2} : run.attempt[<<i, k>>].effect \notin {"accepted", "unknown_accepted"}
    <3>1. CASE run.attempt[<<i, 2>>].phase # None
      <4>1. run.attempt[<<i, 1>>].effect = "unknown_not_applied"
        BY <2>1, <3>1 DEF RuntimeSound, RetriesProven
      <4> QED BY <4>1
    <3>2. CASE run.attempt[<<i, 2>>].phase = None
      <4>1. run.attempt[<<i, 2>>] = NoAttempt
        BY <2>1, <3>2 DEF RuntimeSound, AttemptSound
      <4>2. run.attempt[<<i, 2>>].effect = None
        BY <4>1 DEF NoAttempt
      <4>3. None \notin {"accepted", "unknown_accepted"}
        BY NoneAssumption DEF Effects
      <4> QED BY <4>2, <4>3
    <3> QED BY <3>1, <3>2
  <2>3. run.decision[i] # None => Clean(run, i)
    BY <2>1 DEF RuntimeSound, PresentedAccepted
  <2> QED BY <2>2, <2>3 DEF Clean
<1> QED BY <1>1, FeedbackInductive, PTL

\* No command, and no recovery that writes an image of the whole runtime over it, takes a
\* recorded session, status, outcome, effect, observation or decision back.
THEOREM RecordedStays == FeedbackSpec => NothingUndone
<1>1. FeedbackInv /\ [FeedbackNext]_feedbackVars =>
        [/\ run'.session.fence >= run.session.fence
         /\ \A i \in Items :
               /\ Order(run'.item[i]) >= Order(run.item[i])
               /\ run.decision[i] # None => run'.decision[i] = run.decision[i]
         /\ \A a \in Attempts :
               LET t == run.attempt[a]  u == run'.attempt[a]
               IN /\ Order(u.phase) >= Order(t.phase)
                  /\ t.outcome \notin {None, "delivery_unknown"} => u.outcome = t.outcome
                  /\ t.effect # None => u.effect = t.effect
                  /\ t.observed \subseteq u.observed]_feedbackVars
  <2> SUFFICES ASSUME FeedbackInv, [FeedbackNext]_feedbackVars
               PROVE  /\ run'.session.fence >= run.session.fence
                      /\ \A i \in Items :
                            /\ Order(run'.item[i]) >= Order(run.item[i])
                            /\ run.decision[i] # None => run'.decision[i] = run.decision[i]
                      /\ \A a \in Attempts :
                            LET t == run.attempt[a]  u == run'.attempt[a]
                            IN  AttemptForward(t, u)
    BY DEF AttemptForward
  <2>1. RuntimeForward(run, run')
    BY FeedbackStep
  <2> QED BY <2>1 DEF RuntimeForward
<1> QED BY <1>1, FeedbackInductive, PTL DEF FeedbackSpec, NothingUndone

=============================================================================
