----------------------- MODULE SlackNotificationsProofs -----------------------
(***************************************************************************)
(* Proofs about SlackNotifications for any notifications, subjects and     *)
(* routes, any capacity, generations, crashes and rearms.                  *)
(***************************************************************************)
EXTENDS SlackNotifications, FiniteSetTheorems, WellFoundedInduction, TLAPS

-----------------------------------------------------------------------------
(* The operators of the store *)

\* Sets of numbers have a smallest.
LEMMA SmallestOf ==
    ASSUME NEW S \in SUBSET Nat, S # {}
    PROVE  \E i \in S : \A j \in S : i <= j
<1>1. PICK i \in S : \A j \in S : ~ (<<j, i>> \in OpToRel(<, Nat))
  BY NatLessThanWellFounded, WFMin
<1>2. \A j \in S : ~ (j < i)
  BY <1>1 DEF OpToRel
<1> QED BY <1>2

\* The oldest pending row is a pending row.
LEMMA OldestIsPending ==
    ASSUME TypeOK, Oldest # NoNotification
    PROVE  Oldest \in Notifications /\ row[Oldest].state = "pending"
<1> DEFINE pending == {i \in DOMAIN order : row[order[i]].state = "pending"}
<1>1. pending # {}
  BY DEF Oldest
<1>2. pending \in SUBSET Nat
  BY DEF TypeOK
<1>3. \E i \in pending : \A j \in pending : i <= j
  BY <1>1, <1>2, SmallestOf
<1>4. Oldest = order[CHOOSE i \in pending : \A j \in pending : i <= j]
  BY <1>1 DEF Oldest
<1>5. PICK i \in pending : Oldest = order[i]
  BY <1>3, <1>4
<1> QED BY <1>5 DEF TypeOK

\* What the type invariant says of single components.
LEMMA Typed ==
    ASSUME TypeOK
    PROVE  /\ \A n \in Notifications : row[n] \in Row /\ wire[n] \in Request
           /\ worker \in Worker
           /\ \A n \in Notifications : SubjectRoot(n) \in Nat
BY ConstantsAssumption DEF TypeOK, SubjectRoot

\* A column of a row, a column of the activation, a request: each of its own type.
LEMMA Columns ==
    ASSUME TypeOK
    PROVE  /\ MaxGeneration \in Nat
           /\ meta.generation \in 0..MaxGeneration /\ meta.consumed \in Nat
           /\ \A n \in Notifications :
                 /\ row[n].claim \in Nat /\ row[n].started \in 0..MaxGeneration
                 /\ row[n].ts \in Nat /\ row[n].thread \in Nat
                 /\ wire[n].thread \in Nat /\ wire[n].ts \in Nat
           /\ Len(slack) \in Nat /\ DOMAIN slack = 1..Len(slack)
           /\ \A ts \in DOMAIN slack : slack[ts].thread \in Nat
<1>1. slack \in Seq([n : Notifications, thread : Nat])
  BY DEF TypeOK
<1>2. ASSUME NEW T, NEW s \in Seq(T)
      PROVE  Len(s) \in Nat /\ DOMAIN s = 1..Len(s) /\ \A i \in DOMAIN s : s[i] \in T
  OBVIOUS
<1>4. \A ts \in DOMAIN slack : slack[ts] \in [n : Notifications, thread : Nat]
  BY <1>1, <1>2
<1>3. MaxGeneration \in Nat /\ meta \in Activation
  BY ConstantsAssumption DEF TypeOK
<1> QED BY <1>1, <1>2, <1>3, <1>4, Typed DEF Row, Request, Activation

LEMMA PutRow ==
    ASSUME TypeOK, NEW n \in Notifications, NEW r \in Row
    PROVE  [row EXCEPT ![n] = r] \in [Notifications -> Row]
BY DEF TypeOK

\* A row changes its state and keeps its columns.
LEMMA PutState ==
    ASSUME TypeOK, NEW n \in Notifications, NEW s \in States
    PROVE  [row EXCEPT ![n].state = s] \in [Notifications -> Row]
<1>1. [row[n] EXCEPT !.state = s] \in Row
  BY Typed DEF Row
<1> QED BY <1>1, PutRow

LEMMA RecoveredType ==
    ASSUME TypeOK
    PROVE  Recovered(row) \in [Notifications -> Row]
<1>1. ASSUME NEW n \in Notifications
      PROVE  /\ [row[n] EXCEPT !.state = "delivery_unknown"] \in Row
             /\ [row[n] EXCEPT !.state = "pending"] \in Row
             /\ row[n] \in Row
  BY Typed DEF Row, States, Nonterminal
<1> QED BY <1>1 DEF Recovered

LEMMA StartedType ==
    ASSUME TypeOK, NEW n \in Notifications
    PROVE  Started(n) \in [Notifications -> Row]
<1> DEFINE g == IF meta.initialized THEN meta.generation ELSE 0
<1>1. g \in 0..MaxGeneration
  BY ConstantsAssumption DEF TypeOK, Activation
<1>2. [row[n] EXCEPT !.state = "request_started", !.started = g] \in Row
  BY <1>1, Typed DEF Row, States, Nonterminal
<1>3. Started(n) = [row EXCEPT ![n] = [row[n] EXCEPT !.state = "request_started", !.started = g]]
  BY Typed DEF Started, TypeOK
<1> QED BY <1>2, <1>3, PutRow

LEMMA AcceptedType ==
    ASSUME TypeOK, NEW n \in Notifications, NEW ts \in Nat, NEW thread \in Nat
    PROVE  /\ Accepted(n, ts, thread) \in [Notifications -> Row]
           /\ WithRoot(n, ts) \in [Subjects -> Nat]
<1>1. [row[n] EXCEPT !.state = "accepted", !.ts = ts, !.thread = thread] \in Row
  BY Typed DEF Row, States
<1>2. Accepted(n, ts, thread)
        = [row EXCEPT ![n] = [row[n] EXCEPT !.state = "accepted", !.ts = ts, !.thread = thread]]
  BY Typed DEF Accepted, TypeOK
<1>3. Accepted(n, ts, thread) \in [Notifications -> Row]
  BY <1>1, <1>2, PutRow
<1>4. roots \in [Subjects -> Nat]
  BY DEF TypeOK
<1>5. WithRoot(n, ts) \in [Subjects -> Nat]
  BY <1>4 DEF WithRoot
<1> QED BY <1>3, <1>5

LEMMA HaltedType ==
    ASSUME TypeOK, NEW r \in Reasons
    PROVE  Halted(r) \in Reasons
BY DEF Halted, TypeOK

LEMMA ResumedType ==
    ASSUME TypeOK, NEW rows
    PROVE  Resumed(rows) \in Reasons
BY DEF Resumed, TypeOK, Reasons

-----------------------------------------------------------------------------
(* Types *)

LEMMA InitType == Init => TypeOK
<1>1. [state |-> "absent", claim |-> 0, started |-> 0, ts |-> 0, thread |-> 0] \in Row
  BY ConstantsAssumption DEF Row, States
<1>2. NoWire \in Request /\ Off \in Worker
  BY DEF NoWire, Request, Off, Worker
<1>3. 0 <= Cardinality(Notifications)
  BY ConstantsAssumption, FS_CardinalityType
<1>4. Init => order \in Seq(Notifications) /\ Len(order) = 0 /\ slack \in Seq([n : Notifications, thread : Nat])
  BY DEF Init
<1>5. Init => meta \in Activation
  BY ConstantsAssumption DEF Init, Activation
<1> QED BY <1>1, <1>2, <1>3, <1>4, <1>5, ConstantsAssumption DEF Init, TypeOK, Reasons

\* An admission keeps the order free of repetitions, so it is never longer than
\* the notifications there are.
LEMMA AdmitOrder ==
    ASSUME TypeOK, OrderSound, NEW n \in Notifications, Admit(n)
    PROVE  /\ order' \in Seq(Notifications) /\ Len(order') <= Cardinality(Notifications)
           /\ OrderSound'
<1>1. order' = Append(order, n) /\ order \in Seq(Notifications) /\ row[n].state = "absent"
  BY DEF Admit, TypeOK
<1>2. /\ order' \in Seq(Notifications) /\ Len(order') = Len(order) + 1
      /\ order'[Len(order) + 1] = n /\ DOMAIN order' = 1..(Len(order) + 1)
      /\ \A i \in 1..Len(order) : order'[i] = order[i] /\ order[i] # n
  BY <1>1 DEF OrderSound
<1>3. row' = [row EXCEPT ![n].state = "pending"]
  BY DEF Admit
<1>4. OrderSound'
  BY <1>1, <1>2, <1>3 DEF OrderSound, TypeOK
<1>5. order' \in Injection(1..(Len(order) + 1), Notifications)
  BY <1>2, <1>4 DEF OrderSound, Injection, IsInjective
<1>6. Cardinality(1..(Len(order) + 1)) = Len(order) + 1
  BY <1>1, FS_Interval
<1> QED BY <1>2, <1>4, <1>5, <1>6, FS_Injection, ConstantsAssumption

\* The steps of the process and of the operator.
LEMMA ProcessType ==
    ASSUME TypeOK, OrderSound,
           \/ \E mode \in {"one_shot", "continuous"}, g \in 1..MaxGeneration : Start(mode, g)
           \/ StartWorker \/ Crash \/ Ready \/ Operator
           \/ \E n \in Notifications : Admit(n)
    PROVE  TypeOK'
<1>1. ASSUME NEW mode \in {"one_shot", "continuous"}, NEW g \in 1..MaxGeneration, Start(mode, g)
      PROVE  TypeOK'
  <2>1. Activated(mode, g) \in Activation /\ meta \in Activation
    BY ConstantsAssumption DEF Activated, Activation, TypeOK
  <2>2. BackfilledCards \subseteq Notifications
    BY ConstantsAssumption DEF BackfilledCards, TypeOK
  <2> QED BY <1>1, <2>1, <2>2, RecoveredType DEF Start, TypeOK, external, bounds
<1>2. CASE StartWorker
  <2>1. Idle \in Worker
    BY DEF Idle, Off, Worker
  <2> QED BY <1>2, <2>1, RecoveredType DEF StartWorker, TypeOK, external, bounds, Reasons
<1>3. CASE Crash
  <2>1. Off \in Worker
    BY DEF Off, Worker
  <2> QED BY <1>3, <2>1, ConstantsAssumption DEF Crash, TypeOK, store, external, Reasons
<1>4. CASE Ready
  <2>1. /\ Halted("connectivity") \in Reasons /\ Halted("delivery_unknown") \in Reasons
        /\ Resumed(row) \in Reasons /\ halt \in Reasons
    BY HaltedType, ResumedType DEF Reasons, TypeOK
  <2> QED BY <1>4, <2>1 DEF Ready, VerifyAuth, ReadyReads, ReadyHalts, TypeOK, store,
                            external, bounds
<1>5. ASSUME ResumeAfterReconcile PROVE halt' \in Reasons
  BY <1>5, ResumedType DEF ResumeAfterReconcile, TypeOK
<1>6. ASSUME NEW n \in Notifications, ReconcileNotDelivered(n) PROVE TypeOK'
  <2>1. [row[n] EXCEPT !.state = "pending", !.started = 0] \in Row
    <3>1. 0 \in 0..MaxGeneration /\ row[n] \in Row /\ "pending" \in States
      BY Typed, Columns DEF States, Nonterminal
    <3> QED BY <3>1 DEF Row
  <2>2. row' \in [Notifications -> Row]
    BY <1>6, <2>1, Typed, PutRow DEF ReconcileNotDelivered
  <2>3. meta' \in Activation
    <3>1. meta \in Activation
      BY DEF TypeOK
    <3>2. meta.consumed > 0 => meta.consumed - 1 \in Nat
      BY Columns
    <3>3. meta.consumed > 0 => [meta EXCEPT !.consumed = @ - 1, !.verified = FALSE] \in Activation
      BY <3>1, <3>2 DEF Activation
    <3> QED BY <1>6, <3>1, <3>3 DEF ReconcileNotDelivered
  <2> QED BY <1>5, <1>6, <2>2, <2>3, ConstantsAssumption
          DEF ReconcileNotDelivered, TypeOK, external
<1>7. ASSUME NEW n \in Notifications, NEW ts \in DOMAIN slack, ReconcileDelivered(n, ts)
      PROVE  TypeOK'
  <2>1. ts \in Nat /\ slack[ts].thread \in Nat
    BY Columns
  <2> QED BY <1>5, <1>7, <2>1, AcceptedType DEF ReconcileDelivered, TypeOK, external, bounds
<1>8. CASE MarkActivationVerified
  BY <1>8 DEF MarkActivationVerified, TypeOK, Activation, external, bounds
<1>9. ASSUME NEW n \in Notifications, Admit(n) PROVE TypeOK'
  <2>1. row' \in [Notifications -> Row]
    BY <1>9, PutState DEF Admit, States, Nonterminal
  <2> QED BY <1>9, <2>1, AdmitOrder DEF Admit, TypeOK, external, bounds
<1> QED BY <1>1, <1>2, <1>3, <1>4, <1>6, <1>7, <1>8, <1>9 DEF Operator

\* The steps of Slack.
LEMMA SlackType ==
    ASSUME TypeOK, NEW n \in Notifications,
           SlackPublishes(n) \/ SlackRefuses(n) \/ WireDrained(n)
    PROVE  TypeOK'
<1>1. /\ wire[n] \in Request /\ NoWire \in Request /\ wire \in [Notifications -> Request]
      /\ slack \in Seq([n : Notifications, thread : Nat])
  BY Typed DEF NoWire, Request, TypeOK
<1>2. /\ [wire[n] EXCEPT !.state = "refused"] \in Request
      /\ [wire[n] EXCEPT !.state = "ok", !.ts = Len(slack) + 1] \in Request
      /\ [n |-> n, thread |-> wire[n].thread] \in [n : Notifications, thread : Nat]
  <2>1. Len(slack) + 1 \in Nat /\ wire[n].thread \in Nat
    BY Columns
  <2> QED BY <1>1, <2>1 DEF Request
<1>3. CASE SlackPublishes(n)
  <2>1. wire' = [wire EXCEPT ![n] = [wire[n] EXCEPT !.state = "ok", !.ts = Len(slack) + 1]]
    BY <1>1, <1>3 DEF SlackPublishes
  <2>2. slack' \in Seq([n : Notifications, thread : Nat])
    BY <1>1, <1>2, <1>3 DEF SlackPublishes
  <2> QED BY <1>1, <1>2, <1>3, <2>1, <2>2 DEF SlackPublishes, TypeOK, store, bounds
<1>4. CASE SlackRefuses(n)
  BY <1>1, <1>2, <1>4 DEF SlackRefuses, TypeOK, store, bounds
<1>5. CASE WireDrained(n)
  BY <1>1, <1>5 DEF WireDrained, TypeOK, store, bounds
<1> QED BY <1>3, <1>4, <1>5

\* The steps of the worker.
LEMMA WorkerType ==
    ASSUME TypeOK, WorkerHolds, WorkerStep
    PROVE  TypeOK'
<1> DEFINE n == worker.n
<1>1. /\ \A pc \in {"polled", "prepared", "started", "waiting", "accepted", "rejected", "unknown"} :
             [worker EXCEPT !.pc = pc] \in Worker
      /\ Idle \in Worker
  BY Typed DEF Worker, Idle, Off
<1>2. \A r \in Reasons : Halted(r) \in Reasons
  BY HaltedType
<1>3. worker.pc \notin {"off", "idle", "polled"} =>
         /\ n \in Notifications /\ n \in DOMAIN row
         /\ \A s \in States : [row EXCEPT ![n].state = s] \in [Notifications -> Row]
         /\ wire[n] \in Request
  BY PutState, Typed DEF WorkerHolds, TypeOK
<1>4. CASE Poll
  BY <1>1, <1>2, <1>4 DEF Poll, Goto, TypeOK, store, external, bounds, Reasons
<1>5. CASE Claim
  <2>1. CASE worker' = Idle /\ UNCHANGED row
    BY <1>1, <1>5, <2>1 DEF Claim, TypeOK, external, bounds
  <2>2. CASE BudgetLeft /\ Oldest # NoNotification
    <3>1. /\ Oldest \in Notifications /\ row[Oldest] \in Row
          /\ row[Oldest].claim + 1 \in Nat /\ "claimed" \in States
      BY <2>2, OldestIsPending, Typed, Columns DEF States, Nonterminal
    <3>2. [row[Oldest] EXCEPT !.state = "claimed", !.claim = row[Oldest].claim + 1] \in Row
      BY <3>1 DEF Row
    <3>3. [Idle EXCEPT !.pc = "claimed", !.n = Oldest, !.claim = row[Oldest].claim + 1] \in Worker
      <4>1. Idle \in Worker
        BY <1>1
      <4> QED BY <3>1, <4>1 DEF Worker
    <3>4. row' = [row EXCEPT ![Oldest] = [row[Oldest] EXCEPT !.state = "claimed",
                                                            !.claim = row[Oldest].claim + 1]]
      BY <1>5, <2>2, <3>1 DEF Claim, TypeOK
    <3> QED BY <1>5, <2>2, <3>2, <3>3, <3>4, <3>1 DEF Claim, TypeOK, external, bounds
  <2>3. \/ worker' = Idle /\ UNCHANGED row
        \/ BudgetLeft /\ Oldest # NoNotification
    BY <1>5 DEF Claim
  <2> QED BY <1>5, <2>1, <2>2, <2>3 DEF Claim
<1>6. CASE Prepare
  <2>1. [worker EXCEPT !.pc = "prepared", !.thread = SubjectRoot(n)] \in Worker
    BY <1>3, <1>6, Typed DEF Prepare, Worker
  <2> QED BY <1>6, <2>1 DEF Prepare, TypeOK, store, external, bounds
<1>7. CASE PrepareFails
  BY <1>1, <1>2, <1>3, <1>7 DEF PrepareFails, TypeOK, external, bounds, States, Nonterminal, Reasons
<1>8. CASE MarkRequestStarted
  <2>1. meta' \in Activation
    <3>1. meta.consumed + 1 \in Nat /\ meta \in Activation
      BY Columns DEF TypeOK
    <3>2. [meta EXCEPT !.consumed = meta.consumed + 1] \in Activation
      BY <3>1 DEF Activation
    <3>3. meta' = IF meta.initialized THEN [meta EXCEPT !.consumed = meta.consumed + 1] ELSE meta
      BY <1>8, <3>1 DEF MarkRequestStarted, Consume, Activation
    <3> QED BY <3>1, <3>2, <3>3
  <2> QED BY <1>1, <1>3, <1>8, <2>1, StartedType
          DEF MarkRequestStarted, Goto, TypeOK, external, bounds
<1>9. CASE MarkFails
  <2>1. row' \in [Notifications -> Row]
    BY <1>3, <1>9 DEF MarkFails, TypeOK, States, Nonterminal
  <2> QED BY <1>1, <1>2, <1>9, <2>1 DEF MarkFails, TypeOK, external, bounds, Reasons
<1>10. CASE PostMessage
  <2>1. [NoWire EXCEPT !.state = "sent", !.thread = worker.thread] \in Request
    BY Typed DEF NoWire, Request, Worker
  <2> QED BY <1>1, <1>3, <1>10, <2>1 DEF PostMessage, Goto, TypeOK, store, bounds
<1>11. NoWire \in Request
  BY DEF NoWire, Request
<1>12. CASE AnswerAccepted
  <2>1. [worker EXCEPT !.pc = "accepted", !.ts = wire[n].ts] \in Worker
    BY <1>3, <1>12, Typed DEF AnswerAccepted, Worker, Request
  <2> QED BY <1>3, <1>11, <1>12, <2>1 DEF AnswerAccepted, TypeOK, store, bounds
<1>13. CASE AnswerRejected
  BY <1>1, <1>2, <1>3, <1>11, <1>13 DEF AnswerRejected, Goto, TypeOK, store, bounds, Reasons
<1>14. CASE AnswerLost
  BY <1>1, <1>2, <1>14 DEF AnswerLost, Goto, TypeOK, store, external, bounds, Reasons
<1>15. CASE FinalizeAccepted
  <2>1. worker.ts \in Nat /\ worker.thread \in Nat
    BY Typed DEF Worker
  <2>2. cards' \subseteq Notifications
    BY <1>3, <1>15 DEF FinalizeAccepted, TypeOK
  <2> QED BY <1>1, <1>3, <1>15, <2>1, <2>2, AcceptedType
          DEF FinalizeAccepted, TypeOK, external, bounds
<1>16. CASE FinalizeAcceptedFails
  BY <1>1, <1>2, <1>16 DEF FinalizeAcceptedFails, Goto, TypeOK, store, external, bounds, Reasons
<1>17. CASE FinalizeRejected
  BY <1>1, <1>3, <1>17 DEF FinalizeRejected, TypeOK, external, bounds, States
<1>18. CASE FinalizeUnknown
  BY <1>1, <1>3, <1>18 DEF FinalizeUnknown, TypeOK, external, bounds, States, Nonterminal
<1>19. CASE FinalizeFails
  BY <1>1, <1>19 DEF FinalizeFails, TypeOK, store, external, bounds
<1> QED BY <1>4, <1>5, <1>6, <1>7, <1>8, <1>9, <1>10, <1>12, <1>13, <1>14, <1>15, <1>16,
           <1>17, <1>18, <1>19 DEF WorkerStep

LEMMA StepType ==
    ASSUME TypeOK, OrderSound, WorkerHolds, [Next]_vars
    PROVE  TypeOK'
<1>1. CASE UNCHANGED vars
  BY <1>1 DEF vars, TypeOK
<1>2. CASE Next
  BY <1>2, ProcessType, SlackType, WorkerType DEF Next
<1> QED BY <1>1, <1>2

-----------------------------------------------------------------------------
(* The order of admission, and what the worker holds *)

\* Rows are never deleted.
LEMMA StepOrder ==
    ASSUME TypeOK, OrderSound, WorkerHolds, [Next]_vars
    PROVE  OrderSound'
<1> USE DEF TypeOK
<1>1. ASSUME UNCHANGED order,
             \A n \in Notifications : row[n].state # "absent" => row'[n].state # "absent"
      PROVE  OrderSound'
  <2>1. \A i \in DOMAIN order : order[i] \in Notifications
    OBVIOUS
  <2> QED BY <1>1, <2>1 DEF OrderSound
<1>2. CASE UNCHANGED row /\ UNCHANGED order
  BY <1>1, <1>2
<1>3. ASSUME row' = Recovered(row), UNCHANGED order PROVE OrderSound'
  BY <1>1, <1>3 DEF Recovered
<1>4. ASSUME NEW n \in Notifications, UNCHANGED order, row'[n].state # "absent",
             \A m \in Notifications \ {n} : row'[m] = row[m]
      PROVE  OrderSound'
  BY <1>1, <1>4
<1>5. CASE WorkerStep
  <2>1. CASE Claim
    <3>1. Oldest # NoNotification => Oldest \in Notifications
      BY OldestIsPending
    <3>2. UNCHANGED order /\ (UNCHANGED row \/ Oldest # NoNotification)
      BY <2>1 DEF Claim
    <3>3. ~ UNCHANGED row => /\ row'[Oldest].state = "claimed"
                             /\ \A m \in Notifications \ {Oldest} : row'[m] = row[m]
      BY <2>1, <3>1, Typed DEF Claim, Row
    <3> QED BY <1>2, <1>4, <3>1, <3>2, <3>3
  <2>2. worker.pc \notin {"off", "idle", "polled"} => worker.n \in Notifications /\ row[worker.n] \in Row
    BY Typed DEF WorkerHolds
  <2>3. CASE PrepareFails \/ MarkRequestStarted \/ MarkFails \/ FinalizeAccepted
             \/ FinalizeRejected \/ FinalizeUnknown
    <3>1. UNCHANGED order /\ worker.n \in Notifications
      BY <2>2, <2>3 DEF PrepareFails, MarkRequestStarted, MarkFails, FinalizeAccepted,
                        FinalizeRejected, FinalizeUnknown
    <3> DEFINE Touched == /\ \A m \in Notifications \ {worker.n} : row'[m] = row[m]
                          /\ row'[worker.n].state # "absent" \/ UNCHANGED row
    <3>2. PrepareFails \/ MarkFails => Touched
      BY <2>2, <3>1 DEF PrepareFails, MarkFails, Row
    <3>3. MarkRequestStarted => Touched
      BY <2>2, <3>1 DEF MarkRequestStarted, Started, Row
    <3>4. FinalizeAccepted => Touched
      BY <2>2, <3>1 DEF FinalizeAccepted, Accepted, Row
    <3>5. FinalizeRejected \/ FinalizeUnknown => Touched
      BY <2>2, <3>1 DEF FinalizeRejected, FinalizeUnknown, Row
    <3> QED BY <1>2, <1>4, <2>3, <3>1, <3>2, <3>3, <3>4, <3>5
  <2> QED BY <1>2, <1>5, <2>1, <2>3
          DEF WorkerStep, Poll, Prepare, PostMessage, AnswerAccepted, AnswerRejected,
              AnswerLost, FinalizeAcceptedFails, FinalizeFails, store
<1>6. CASE Operator
  <2>1. ASSUME NEW n \in Notifications, ReconcileNotDelivered(n) PROVE OrderSound'
    <3>1. UNCHANGED order /\ row' = [row EXCEPT ![n].state = "pending", ![n].started = 0]
      BY <2>1 DEF ReconcileNotDelivered
    <3> QED BY <1>4, <3>1, Typed DEF Row
  <2>2. ASSUME NEW n \in Notifications, NEW ts \in DOMAIN slack, ReconcileDelivered(n, ts)
        PROVE  OrderSound'
    <3>1. UNCHANGED order /\ row' = Accepted(n, ts, slack[ts].thread)
      BY <2>2 DEF ReconcileDelivered
    <3> QED BY <1>4, <3>1, Typed DEF Row, Accepted
  <2> QED BY <1>2, <1>6, <2>1, <2>2 DEF Operator, MarkActivationVerified
<1>7. CASE Next
  BY <1>2, <1>3, <1>5, <1>6, <1>7, AdmitOrder
     DEF Next, Start, StartWorker, Crash, Ready, VerifyAuth, ReadyReads, ReadyHalts,
         SlackPublishes, SlackRefuses, WireDrained, store
<1> QED BY <1>2, <1>7 DEF vars

\* Only the worker takes a claim away from itself, and a delivery becomes unknown
\* only when the worker lets go of it or is not there.
LEMMA StepHolds ==
    ASSUME TypeOK, WorkerHolds, [Next]_vars
    PROVE  WorkerHolds'
<1> DEFINE n == worker.n
           Quiet == UNCHANGED <<row, roots, up, worker>>
<1>1. CASE Quiet
  BY <1>1 DEF WorkerHolds, Unknown, In, Held, SubjectRoot
<1>2. ASSUME worker'.pc \in {"off", "idle"}, up' # "up" => worker'.pc = "off"
      PROVE  WorkerHolds'
  BY <1>2 DEF WorkerHolds
<1>3. ASSUME NEW mode, NEW g, Start(mode, g) PROVE WorkerHolds'
  BY <1>2, <1>3 DEF Start, WorkerHolds
<1>4. CASE StartWorker \/ Crash
  BY <1>2, <1>4 DEF StartWorker, Crash, Idle, Off
<1>5. ASSUME NEW m \in Notifications, Admit(m) PROVE WorkerHolds'
  <2>1. /\ row' = [row EXCEPT ![m].state = "pending"] /\ row[m].state = "absent"
        /\ UNCHANGED <<roots, up, worker>> /\ row[m] \in Row /\ row \in [Notifications -> Row]
    BY <1>5, Typed DEF Admit, TypeOK
  <2>2. \A k \in Notifications : /\ k # m => row'[k] = row[k]
                                 /\ row'[m].state = "pending"
    BY <2>1 DEF Row
  <2>3. Unknown' = Unknown
    BY <2>1, <2>2 DEF Unknown, In
  <2>4. n \in Notifications /\ n # m => (\A s : Held(s)' <=> Held(s))
    BY <2>1, <2>2 DEF Held
  <2>5. \A s \in {"claimed", "request_started"} : Held(s) => n # m
    BY <2>1 DEF Held
  <2>6. SubjectRoot(n)' = SubjectRoot(n) /\ worker' = worker /\ up' = up
    BY <2>1 DEF SubjectRoot
  <2> QED BY <2>3, <2>4, <2>5, <2>6 DEF WorkerHolds
<1>6. ASSUME NEW m \in Notifications, row[m].state = "delivery_unknown", UNCHANGED <<worker, up>>
      PROVE  WorkerHolds'
  <2>1. worker.pc \in {"off", "idle"}
    BY <1>6 DEF WorkerHolds, Unknown, In
  <2> QED BY <1>2, <1>6, <2>1 DEF WorkerHolds
<1>7. CASE Operator
  BY <1>1, <1>6, <1>7
     DEF Operator, ReconcileNotDelivered, ReconcileDelivered, MarkActivationVerified
<1>8. CASE Poll
  <2>1. /\ UNCHANGED <<row, roots, up>> /\ up = "up" /\ worker \in Worker
        /\ worker' = worker \/ (worker' = [worker EXCEPT !.pc = "polled"] /\ Unknown = {})
    BY <1>8, Typed DEF Poll, Goto, store
  <2>2. CASE worker' = worker
    BY <1>1, <2>1, <2>2
  <2>3. CASE worker' = [worker EXCEPT !.pc = "polled"] /\ Unknown = {}
    <3>1. worker'.pc = "polled" /\ Unknown' = {} /\ up' = "up"
      BY <2>1, <2>3 DEF Unknown, In, Worker
    <3> QED BY <3>1 DEF WorkerHolds
  <2> QED BY <2>1, <2>2, <2>3
<1>9. CASE Claim
  <2>1. CASE worker' = Idle
    BY <1>2, <1>9, <2>1 DEF Claim, Idle, Off, WorkerHolds
  <2>2. CASE BudgetLeft /\ Oldest # NoNotification
    <3>1. Oldest \in Notifications /\ row[Oldest] \in Row /\ row \in [Notifications -> Row]
      BY <2>2, OldestIsPending, Typed DEF TypeOK
    <3>2. /\ row' = [row EXCEPT ![Oldest].state = "claimed", ![Oldest].claim = @ + 1]
          /\ worker' = [Idle EXCEPT !.pc = "claimed", !.n = Oldest, !.claim = row[Oldest].claim + 1]
          /\ UNCHANGED <<roots, up>> /\ worker.pc = "polled"
      BY <1>9, <2>2 DEF Claim
    <3>3. /\ worker'.pc = "claimed" /\ worker'.n = Oldest /\ worker'.claim = row[Oldest].claim + 1
          /\ row'[Oldest].state = "claimed" /\ row'[Oldest].claim = row[Oldest].claim + 1
          /\ \A k \in Notifications \ {Oldest} : row'[k] = row[k]
      BY <3>1, <3>2 DEF Row, Idle, Off
    <3>4. Unknown = {} /\ up = "up"
      BY <3>2, Typed DEF WorkerHolds, TypeOK
    <3>5. Unknown' = {}
      BY <3>3, <3>4 DEF Unknown, In
    <3> QED BY <3>1, <3>2, <3>3, <3>4, <3>5 DEF WorkerHolds, Held
  <2>3. worker' = Idle \/ (BudgetLeft /\ Oldest # NoNotification)
    BY <1>9 DEF Claim
  <2> QED BY <2>1, <2>2, <2>3
\* Steps that move on with the row the worker holds.
<1>10. ASSUME NEW pc \in {"prepared", "waiting", "accepted", "rejected", "unknown"},
              UNCHANGED <<row, roots, up>>, worker'.pc = pc, worker'.n = n,
              worker'.claim = worker.claim, worker.pc \notin {"off", "idle", "polled"},
              pc = "prepared" => worker.pc = "claimed" /\ worker'.thread = SubjectRoot(n),
              pc # "prepared" => worker.pc \notin {"claimed", "prepared"},
              pc \in {"waiting", "accepted"} =>
                  /\ worker.pc \in {"started", "waiting"} /\ worker'.thread = worker.thread
       PROVE  WorkerHolds'
  <2>1. /\ Unknown' = Unknown /\ \A s : Held(s)' <=> Held(s)
        /\ SubjectRoot(n)' = SubjectRoot(n)
    BY <1>10 DEF Unknown, In, Held, SubjectRoot
  <2>2. worker.pc \in {"claimed", "prepared", "started", "waiting", "accepted", "rejected", "unknown"}
    BY <1>10, Typed DEF Worker
  <2> QED BY <1>10, <2>1, <2>2 DEF WorkerHolds
<1>11. CASE MarkRequestStarted
  <2>1. /\ n \in Notifications /\ row \in [Notifications -> Row] /\ row[n] \in Row
        /\ worker \in Worker /\ Unknown = {} /\ up = "up" /\ worker.thread = SubjectRoot(n)
        /\ Held("claimed")
    BY <1>11, Typed DEF MarkRequestStarted, WorkerHolds, TypeOK
  <2>2. row' = Started(n) /\ worker' = [worker EXCEPT !.pc = "started"] /\ UNCHANGED <<roots, up>>
    BY <1>11 DEF MarkRequestStarted, Goto
  <2>3. /\ worker'.pc = "started" /\ worker'.n = n /\ worker'.claim = worker.claim
        /\ worker'.thread = worker.thread
        /\ row'[n].state = "request_started" /\ row'[n].claim = row[n].claim
        /\ \A k \in Notifications \ {n} : row'[k] = row[k]
    BY <2>1, <2>2 DEF Started, Row, Worker
  <2>4. Unknown' = {} /\ SubjectRoot(n)' = SubjectRoot(n)
    BY <2>1, <2>2, <2>3 DEF Unknown, In, SubjectRoot
  <2> QED BY <2>1, <2>2, <2>3, <2>4 DEF WorkerHolds, Held
<1>12. CASE PrepareFails \/ MarkFails \/ FinalizeAccepted \/ FinalizeRejected
            \/ FinalizeUnknown \/ FinalizeFails
  BY <1>2, <1>12 DEF PrepareFails, MarkFails, FinalizeAccepted, FinalizeRejected,
       FinalizeUnknown, FinalizeFails, Idle, Off, WorkerHolds
<1>13. CASE Prepare \/ PostMessage \/ AnswerAccepted \/ AnswerRejected \/ AnswerLost
            \/ FinalizeAcceptedFails
  BY <1>10, <1>13, Typed DEF Prepare, PostMessage, AnswerAccepted, AnswerRejected, AnswerLost,
       FinalizeAcceptedFails, Goto, store, Worker
<1>14. CASE Next
  BY <1>1, <1>3, <1>4, <1>5, <1>7, <1>8, <1>9, <1>11, <1>12, <1>13, <1>14
     DEF Next, WorkerStep, Ready, VerifyAuth, ReadyReads, ReadyHalts, SlackPublishes,
         SlackRefuses, WireDrained, store
<1> QED BY <1>1, <1>14 DEF vars

-----------------------------------------------------------------------------
(* The wire, the channel and the ledger *)

LEMMA ShownCounts ==
    ASSUME TypeOK, NEW n \in Notifications
    PROVE  /\ Shown[n] \in Nat
           /\ Shown[n] = 0 <=> \A ts \in DOMAIN slack : slack[ts].n # n
<1> DEFINE S == {ts \in DOMAIN slack : slack[ts].n = n}
<1>1. IsFiniteSet(DOMAIN slack)
  <2>1. 1 \in Int /\ Len(slack) \in Int /\ DOMAIN slack = 1..Len(slack)
    BY Columns
  <2> QED BY <2>1, FS_Interval
<1>2. IsFiniteSet(S)
  <2>1. S \in SUBSET DOMAIN slack
    OBVIOUS
  <2> QED BY <1>1, <2>1, FS_Subset
<1>3. Shown[n] = Cardinality(S)
  BY DEF Shown
<1> QED BY <1>2, <1>3, FS_CardinalityType, FS_EmptySet

\* Slack shows one message more.
LEMMA PublishCounts ==
    ASSUME TypeOK, NEW n \in Notifications, SlackPublishes(n)
    PROVE  /\ Shown'[n] = Shown[n] + 1
           /\ \A m \in Notifications \ {n} : Shown'[m] = Shown[m]
<1> DEFINE S(m) == {ts \in DOMAIN slack : slack[ts].n = m}
           T(m) == {ts \in DOMAIN slack' : slack'[ts].n = m}
           k == Len(slack) + 1
<1>1. slack' = Append(slack, [n |-> n, thread |-> wire[n].thread])
      /\ slack \in Seq([n : Notifications, thread : Nat])
  BY DEF SlackPublishes, TypeOK
<1>2. /\ DOMAIN slack = 1..Len(slack) /\ DOMAIN slack' = 1..k /\ Len(slack) \in Nat
      /\ slack'[k].n = n /\ \A i \in 1..Len(slack) : slack'[i] = slack[i]
  BY <1>1
<1>3. \A m \in Notifications : T(m) = IF m = n THEN S(m) \cup {k} ELSE S(m)
  BY <1>2
<1>4. \A m : IsFiniteSet(S(m)) /\ k \notin S(m)
  <2>1. TAKE m
  <2>2. IsFiniteSet(DOMAIN slack) /\ S(m) \in SUBSET DOMAIN slack /\ k \notin DOMAIN slack
    BY <1>2, FS_Interval
  <2> QED BY <2>2, FS_Subset
<1>5. Cardinality(S(n) \cup {k}) = Cardinality(S(n)) + 1
  <2>1. IsFiniteSet(S(n)) /\ k \notin S(n)
    BY <1>4
  <2> HIDE DEF S, k
  <2> QED BY <2>1, FS_AddElement
<1>6. \A m \in Notifications : Shown[m] = Cardinality(S(m)) /\ Shown'[m] = Cardinality(T(m))
  BY DEF Shown
<1> QED BY <1>3, <1>5, <1>6

\* The rows change and neither the wire, nor what is shown, nor the answer.
LEMMA RowsDelivery ==
    ASSUME TypeOK, DeliverySound, UNCHANGED <<wire, slack>>,
           worker' = worker \/ worker'.pc \notin {"started", "rejected", "accepted"},
           \A n \in Notifications :
              \/ row'[n].state = row[n].state
              \/ row'[n].state \in {"request_started", "delivery_unknown"}
              \/ /\ row[n].state \in {"absent", "pending", "claimed", "rejected"}
                 /\ row'[n].state \in {"pending", "claimed"}
              \/ row'[n].state = "accepted" /\ Shown[n] = 1
              \/ /\ row'[n].state \in {"pending", "rejected"}
                 /\ wire[n].state = "none" /\ Shown[n] = 0
    PROVE  DeliverySound'
<1>1. Shown' = Shown
  BY DEF Shown
<1>2. AnswerSound'
  BY <1>1 DEF DeliverySound, AnswerSound
<1>3. ASSUME NEW n \in Notifications PROVE WireSound(n)'
  BY <1>1 DEF DeliverySound, WireSound
<1> QED BY <1>2, <1>3 DEF DeliverySound

LEMMA StepDelivery ==
    ASSUME TypeOK, WorkerHolds, DeliverySound, [Next]_vars
    PROVE  DeliverySound'
<1> DEFINE w == worker.n
<1>1. CASE UNCHANGED <<row, wire, slack>> /\ (UNCHANGED worker \/ worker'.pc \notin {"started", "rejected", "accepted"})
  BY <1>1, RowsDelivery
<1>2. ASSUME row' = Recovered(row), UNCHANGED <<wire, slack>>,
             worker' = worker \/ worker'.pc = "idle"
      PROVE  DeliverySound'
  <2>1. \A n \in Notifications : \/ row'[n].state = row[n].state
                                 \/ row'[n].state = "delivery_unknown"
                                 \/ row[n].state = "claimed" /\ row'[n].state = "pending"
    BY <1>2, Typed DEF Recovered, Row
  <2> QED BY <1>2, <2>1, RowsDelivery
<1>3. ASSUME NEW mode, NEW g, Start(mode, g) PROVE DeliverySound'
  BY <1>2, <1>3 DEF Start, external
<1>4. CASE StartWorker
  BY <1>2, <1>4 DEF StartWorker, external, Idle, Off
<1>5. CASE Crash
  BY <1>1, <1>5 DEF Crash, store, external, Off
<1>6. ASSUME NEW n \in Notifications, NEW s \in {"pending", "claimed", "request_started",
                 "delivery_unknown", "accepted", "rejected"},
             row'[n].state = s, \A m \in Notifications \ {n} : row'[m] = row[m],
             UNCHANGED <<wire, slack>>,
             worker' = worker \/ worker'.pc \notin {"started", "rejected", "accepted"},
             s \in {"pending", "claimed"} => row[n].state \in {"absent", "pending", "claimed"}
                  \/ (s = "pending" /\ wire[n].state = "none" /\ Shown[n] = 0),
             s = "accepted" => Shown[n] = 1,
             s = "rejected" => wire[n].state = "none" /\ Shown[n] = 0
      PROVE  DeliverySound'
  BY <1>6, RowsDelivery
<1>7. ASSUME NEW n \in Notifications, Admit(n) PROVE DeliverySound'
  BY <1>6, <1>7, Typed DEF Admit, external, Row, TypeOK
<1>8. ASSUME NEW n \in Notifications, ReconcileNotDelivered(n) PROVE DeliverySound'
  <2>1. /\ row' = [row EXCEPT ![n].state = "pending", ![n].started = 0]
        /\ UNCHANGED <<wire, slack, worker>> /\ wire[n].state = "none" /\ Shown[n] = 0
    BY <1>8, ShownCounts DEF ReconcileNotDelivered, external
  <2> QED BY <1>6, <2>1, Typed DEF Row, TypeOK
<1>9. ASSUME NEW n \in Notifications, NEW ts \in DOMAIN slack, ReconcileDelivered(n, ts)
      PROVE  DeliverySound'
  <2>1. /\ row' = Accepted(n, ts, slack[ts].thread) /\ UNCHANGED <<wire, slack, worker>>
        /\ slack[ts].n = n
    BY <1>9 DEF ReconcileDelivered, external
  <2>2. Shown[n] = 1
    BY <2>1, ShownCounts DEF DeliverySound, WireSound
  <2> QED BY <1>6, <2>1, <2>2, Typed DEF Row, TypeOK, Accepted
<1>10. worker.pc \notin {"off", "idle", "polled"} =>
          /\ w \in Notifications /\ row \in [Notifications -> Row] /\ row[w] \in Row
          /\ wire \in [Notifications -> Request] /\ wire[w] \in Request /\ worker \in Worker
          /\ WireSound(w)
  BY Typed DEF WorkerHolds, TypeOK, DeliverySound
<1>11. CASE Claim
  <2>1. CASE worker' = Idle /\ UNCHANGED row
    BY <1>1, <1>11, <2>1 DEF Claim, external, Idle, Off
  <2>2. CASE BudgetLeft /\ Oldest # NoNotification
    <3>1. /\ row' = [row EXCEPT ![Oldest].state = "claimed", ![Oldest].claim = @ + 1]
          /\ worker'.pc = "claimed" /\ UNCHANGED <<wire, slack>>
      BY <1>11, <2>2 DEF Claim, external, Idle, Off
    <3> QED BY <1>6, <2>2, <3>1, OldestIsPending, Typed DEF Row, TypeOK
  <2>3. (worker' = Idle /\ UNCHANGED row) \/ (BudgetLeft /\ Oldest # NoNotification)
    BY <1>11 DEF Claim
  <2> QED BY <2>1, <2>2, <2>3
<1>12. CASE PrepareFails \/ MarkFails
  <2>1. /\ UNCHANGED <<wire, slack>> /\ worker'.pc = "idle" /\ w \in Notifications
        /\ UNCHANGED row \/ (Held("claimed") /\ row' = [row EXCEPT ![w].state = "pending"])
    BY <1>10, <1>12 DEF PrepareFails, MarkFails, external, Idle, Off
  <2> QED BY <1>1, <1>6, <1>10, <1>12, <2>1 DEF Held, Row, PrepareFails, MarkFails
<1>13. CASE MarkRequestStarted
  <2>1. /\ row[w].state = "claimed" /\ row' = Started(w) /\ UNCHANGED <<wire, slack>>
        /\ worker' = [worker EXCEPT !.pc = "started"] /\ w \in Notifications
        /\ wire[w].state = "none" /\ Shown[w] = 0
    BY <1>10, <1>13 DEF MarkRequestStarted, Held, Goto, external, WireSound
  <2>2. /\ row'[w].state = "request_started" /\ \A m \in Notifications \ {w} : row'[m] = row[m]
        /\ worker'.pc = "started" /\ worker'.n = w
    BY <1>10, <1>13, <2>1 DEF Started, Row, Worker, MarkRequestStarted
  <2>3. Shown' = Shown
    BY <2>1 DEF Shown
  <2>4. AnswerSound'
    BY <2>1, <2>2, <2>3 DEF AnswerSound
  <2>5. \A n \in Notifications : WireSound(n)'
    BY <2>1, <2>2, <2>3 DEF DeliverySound, WireSound
  <2> QED BY <2>4, <2>5 DEF DeliverySound
<1>14. CASE FinalizeAccepted
  <2>1. row' = Accepted(w, worker.ts, worker.thread) /\ UNCHANGED <<wire, slack>>
        /\ worker'.pc = "idle" /\ Shown[w] = 1
    BY <1>14 DEF FinalizeAccepted, external, Idle, Off, DeliverySound, AnswerSound
  <2>2. w \in Notifications /\ row \in [Notifications -> Row]
    BY <1>10, <1>14, Typed DEF FinalizeAccepted
  <2>3. row'[w].state = "accepted" /\ \A m \in Notifications \ {w} : row'[m] = row[m]
    BY <2>1, <2>2 DEF Accepted, Row
  <2> QED BY <1>6, <2>1, <2>2, <2>3
<1>15. CASE FinalizeRejected
  <2>1. row' = [row EXCEPT ![w].state = "rejected"] /\ UNCHANGED <<wire, slack>>
        /\ worker'.pc = "idle" /\ wire[w].state = "none" /\ Shown[w] = 0
    BY <1>15 DEF FinalizeRejected, external, Idle, Off, DeliverySound, AnswerSound
  <2> QED BY <1>6, <1>10, <1>15, <2>1 DEF Row, FinalizeRejected
<1>16. CASE FinalizeUnknown
  <2>1. row' = [row EXCEPT ![w].state = "delivery_unknown"] /\ UNCHANGED <<wire, slack>>
        /\ worker'.pc = "idle"
    BY <1>16 DEF FinalizeUnknown, external, Idle, Off
  <2> QED BY <1>6, <1>10, <1>16, <2>1 DEF Row, FinalizeUnknown
\* One request changes, and what the others show does not.
<1>17. ASSUME NEW n \in Notifications, UNCHANGED row,
              \A m \in Notifications \ {n} : wire'[m] = wire[m] /\ Shown'[m] = Shown[m],
              WireSound(n)', AnswerSound'
       PROVE  DeliverySound'
  BY <1>17 DEF DeliverySound, WireSound
<1>18. CASE PostMessage
  <2>1. /\ wire[w].state = "none" /\ Shown[w] = 0 /\ row[w].state = "request_started"
        /\ UNCHANGED <<row, slack>>
        /\ wire' = [wire EXCEPT ![w] = [NoWire EXCEPT !.state = "sent", !.thread = worker.thread]]
        /\ worker' = [worker EXCEPT !.pc = "waiting"]
    BY <1>18 DEF PostMessage, WorkerHolds, Held, Goto, store, DeliverySound, AnswerSound
  <2>2. wire'[w].state = "sent" /\ worker'.pc = "waiting" /\ Shown' = Shown
    BY <1>10, <1>18, <2>1 DEF NoWire, Worker, Shown, PostMessage
  <2>3. WireSound(w)' /\ AnswerSound'
    BY <2>1, <2>2 DEF WireSound, AnswerSound
  <2> QED BY <1>10, <1>17, <1>18, <2>1, <2>2, <2>3 DEF PostMessage
<1>19. CASE AnswerAccepted
  <2>1. /\ wire[w].state = "ok" /\ Shown[w] = 1 /\ wire[w].ts # 0 /\ row[w].state = "request_started"
        /\ UNCHANGED <<row, slack>> /\ wire' = [wire EXCEPT ![w] = NoWire]
        /\ worker' = [worker EXCEPT !.pc = "accepted", !.ts = wire[w].ts]
    BY <1>10, <1>19 DEF AnswerAccepted, WorkerHolds, Held, store, WireSound
  <2>2. /\ wire'[w].state = "none" /\ Shown' = Shown
        /\ worker'.pc = "accepted" /\ worker'.n = w /\ worker'.ts = wire[w].ts
    BY <1>10, <1>19, <2>1 DEF NoWire, Worker, Shown, AnswerAccepted
  <2>3. WireSound(w)' /\ AnswerSound'
    BY <2>1, <2>2 DEF WireSound, AnswerSound
  <2> QED BY <1>10, <1>17, <1>19, <2>1, <2>2, <2>3 DEF AnswerAccepted
<1>20. CASE AnswerRejected
  <2>1. /\ wire[w].state = "refused" /\ Shown[w] = 0 /\ row[w].state = "request_started"
        /\ UNCHANGED <<row, slack>> /\ wire' = [wire EXCEPT ![w] = NoWire]
        /\ worker' = [worker EXCEPT !.pc = "rejected"]
    BY <1>10, <1>20 DEF AnswerRejected, WorkerHolds, Held, store, WireSound, Goto
  <2>2. /\ wire'[w].state = "none" /\ Shown' = Shown
        /\ worker'.pc = "rejected" /\ worker'.n = w
    BY <1>10, <1>20, <2>1 DEF NoWire, Worker, Shown, AnswerRejected
  <2>3. WireSound(w)' /\ AnswerSound'
    BY <2>1, <2>2 DEF WireSound, AnswerSound
  <2> QED BY <1>10, <1>17, <1>20, <2>1, <2>2, <2>3 DEF AnswerRejected
<1>21. CASE AnswerLost \/ FinalizeAcceptedFails \/ Prepare
  <2>1. UNCHANGED <<row, wire, slack>>
    BY <1>21 DEF AnswerLost, FinalizeAcceptedFails, Prepare, store, external
  <2>2. worker'.pc \in {"unknown", "prepared"}
    BY <1>10, <1>21 DEF AnswerLost, FinalizeAcceptedFails, Prepare, Goto, Worker
  <2> QED BY <1>1, <2>1, <2>2
<1>22. CASE Poll \/ FinalizeFails
  BY <1>1, <1>22, Typed DEF Poll, FinalizeFails, Goto, store, external, Idle, Off, Worker
<1>23. ASSUME NEW n \in Notifications, SlackPublishes(n) PROVE DeliverySound'
  <2>1. /\ wire[n].state = "sent" /\ UNCHANGED <<row, worker>> /\ wire[n] \in Request
        /\ wire \in [Notifications -> Request]
        /\ wire' = [wire EXCEPT ![n].state = "ok", ![n].ts = Len(slack) + 1]
    BY <1>23, Typed DEF SlackPublishes, TypeOK, store
  <2>2. Len(slack) + 1 # 0
    BY Columns
  <2>3. /\ wire'[n].state = "ok" /\ wire'[n].ts # 0
        /\ \A m \in Notifications \ {n} : wire'[m] = wire[m]
    BY <2>1, <2>2 DEF Request
  <2>4. /\ Shown[n] = 0 /\ row[n].state \notin {"absent", "pending", "claimed", "rejected", "accepted"}
    BY <2>1 DEF DeliverySound, WireSound
  <2>5. Shown'[n] = 1 /\ \A m \in Notifications \ {n} : Shown'[m] = Shown[m]
    BY <1>23, <2>4, PublishCounts
  <2>6. WireSound(n)'
    BY <2>1, <2>3, <2>4, <2>5 DEF WireSound
  <2>7. worker.pc \in {"started", "rejected", "accepted"} => w \in Notifications /\ w # n
    BY <2>1, <2>4 DEF DeliverySound, AnswerSound, WorkerHolds
  <2>8. AnswerSound'
    BY <2>1, <2>3, <2>5, <2>7 DEF DeliverySound, AnswerSound
  <2> QED BY <1>17, <2>1, <2>3, <2>5, <2>6, <2>8
<1>24. ASSUME NEW n \in Notifications, SlackRefuses(n) \/ WireDrained(n) PROVE DeliverySound'
  <2>1. /\ UNCHANGED <<row, worker, slack>> /\ wire[n] \in Request
        /\ wire \in [Notifications -> Request]
        /\ \/ wire[n].state = "sent" /\ wire' = [wire EXCEPT ![n].state = "refused"]
           \/ wire' = [wire EXCEPT ![n] = NoWire]
    BY <1>24, Typed DEF SlackRefuses, WireDrained, TypeOK, store
  <2>2. /\ \A m \in Notifications \ {n} : wire'[m] = wire[m]
        /\ wire'[n].state = "none" \/ (wire[n].state = "sent" /\ wire'[n].state = "refused")
    BY <2>1 DEF Request, NoWire
  <2>3. Shown' = Shown
    BY <2>1 DEF Shown
  <2>4. WireSound(n)'
    BY <2>1, <2>2, <2>3 DEF DeliverySound, WireSound
  <2>5. worker.pc \in {"started", "rejected", "accepted"} => w \in Notifications
    BY DEF WorkerHolds
  <2>6. AnswerSound'
    BY <2>1, <2>2, <2>3, <2>5 DEF DeliverySound, AnswerSound
  <2> QED BY <1>17, <2>1, <2>2, <2>3, <2>4, <2>6
<1>25. CASE Operator \/ Ready
  BY <1>1, <1>8, <1>9, <1>25 DEF Operator, MarkActivationVerified, Ready, VerifyAuth,
       ReadyReads, ReadyHalts, store, external
<1>26. CASE Next
  BY <1>3, <1>4, <1>5, <1>7, <1>11, <1>12, <1>13, <1>14, <1>15, <1>16, <1>18, <1>19,
     <1>20, <1>21, <1>22, <1>23, <1>24, <1>25, <1>26 DEF Next, WorkerStep
<1> QED BY <1>1, <1>26 DEF vars

-----------------------------------------------------------------------------
(* The activation budget *)

Spent == {n \in Notifications : row[n].started = meta.generation}

LEMMA FewSpent ==
    ASSUME TypeOK
    PROVE  /\ Cardinality(Spent) \in Nat
           /\ Cardinality(Spent) = 0 <=> Spent = {}
           /\ Cardinality(Spent) = 1 <=> \E n : Spent = {n}
<1>1. IsFiniteSet(Spent)
  <2>1. Spent \in SUBSET Notifications
    BY DEF Spent
  <2> QED BY <2>1, FS_Subset, ConstantsAssumption
<1> QED BY <1>1, FS_CardinalityType, FS_EmptySet, FS_Singleton

LEMMA RowsBudget ==
    ASSUME BudgetSound, UNCHANGED meta,
           \A n \in Notifications : /\ row'[n].started = row[n].started
                                    /\ row[n].state = "accepted" => row'[n].state = "accepted"
    PROVE  BudgetSound'
<1>1. Spent' = Spent
  BY DEF Spent
<1> QED BY <1>1 DEF BudgetSound, ActivationAccounted, Spent

LEMMA StartBudget ==
    ASSUME TypeOK, BudgetSound, NEW mode \in {"one_shot", "continuous"},
           NEW g \in 1..MaxGeneration, Start(mode, g)
    PROVE  BudgetSound'
<1>1. \A n \in Notifications : /\ row'[n].started = row[n].started
                               /\ row[n].state = "accepted" => row'[n].state = "accepted"
  BY Typed DEF Start, Recovered, Row
<1>2. CASE UNCHANGED meta
  BY <1>1, <1>2, RowsBudget
<1>3. CASE ActivationAllowed(mode, g, row') /\ meta' = Activated(mode, g) /\ ~ UNCHANGED meta
  <2>1. g > meta.generation /\ g \in Nat
    BY <1>3, Columns DEF ActivationAllowed, Activated, BudgetSound
  <2>2. meta' = [initialized |-> TRUE, mode |-> mode, generation |-> g,
                 consumed |-> 0, verified |-> FALSE]
    BY <1>3 DEF Activated
  <2>3. Spent' = {}
    BY <1>1, <2>1, <2>2, Columns DEF Spent, BudgetSound
  <2>4. Cardinality(Spent)' = 0
    BY <2>3, FS_EmptySet
  <2>5. \A n \in Notifications : row'[n].started <= g
    BY <1>1, <2>1, Columns DEF BudgetSound
  <2>6. ActivationAccounted'
    BY <2>2, <2>4 DEF ActivationAccounted, Spent
  <2> QED BY <2>1, <2>2, <2>5, <2>6 DEF BudgetSound
<1> QED BY <1>2, <1>3 DEF Start

\* The budget is spent in the transaction that starts the request.
LEMMA MarkBudget ==
    ASSUME TypeOK, WorkerHolds, BudgetSound, MarkRequestStarted
    PROVE  BudgetSound'
<1> DEFINE w == worker.n
           g == IF meta.initialized THEN meta.generation ELSE 0
<1>1. /\ w \in Notifications /\ row \in [Notifications -> Row] /\ row[w] \in Row
      /\ meta \in Activation /\ BudgetLeft /\ row[w].state = "claimed"
      /\ row' = Started(w) /\ meta' = Consume
  BY Typed DEF MarkRequestStarted, WorkerHolds, TypeOK, Held
<1>2. /\ row'[w].started = g /\ row'[w].state = "request_started"
      /\ \A n \in Notifications \ {w} : row'[n] = row[n]
  BY <1>1 DEF Started, Row
<1>3. /\ meta'.generation = meta.generation /\ meta'.mode = meta.mode
      /\ meta'.initialized = meta.initialized /\ meta'.verified = meta.verified
      /\ meta.initialized => meta'.consumed = meta.consumed + 1
  BY <1>1 DEF Consume, Activation
<1>4. \A n \in Notifications : row'[n].started <= meta'.generation
  BY <1>2, <1>3, Columns DEF BudgetSound
<1>5. ASSUME meta.mode = "one_shot"
      PROVE  /\ meta'.consumed = Cardinality(Spent)' /\ meta'.consumed = 1
             /\ ~ meta'.verified
  <2>1. meta.initialized /\ meta.consumed = 0
    BY <1>1, <1>5, Columns DEF BudgetSound, BudgetLeft
  <2>2. Spent = {}
    BY <1>5, <2>1, FewSpent DEF BudgetSound, ActivationAccounted, Spent
  <2>3. Spent' = {w}
    BY <1>1, <1>2, <1>3, <2>1, <2>2 DEF Spent
  <2>4. Cardinality(Spent)' = 1
    BY <2>3, FS_Singleton
  <2>5. ~ meta.verified /\ meta.verified \in BOOLEAN
    BY <1>1, <1>5, <2>2 DEF BudgetSound, ActivationAccounted, Spent, Activation
  <2> QED BY <1>3, <2>1, <2>4, <2>5
<1>6. ActivationAccounted'
  BY <1>3, <1>5 DEF ActivationAccounted, Spent
<1> QED BY <1>3, <1>4, <1>6 DEF BudgetSound

\* A rearmed notification gives back what it spent.
LEMMA RearmBudget ==
    ASSUME TypeOK, BudgetSound, NEW n \in Notifications, ReconcileNotDelivered(n)
    PROVE  BudgetSound'
<1>1. /\ row \in [Notifications -> Row] /\ row[n] \in Row /\ meta \in Activation
      /\ row[n].state = "delivery_unknown"
      /\ row' = [row EXCEPT ![n].state = "pending", ![n].started = 0]
  BY Typed DEF ReconcileNotDelivered, TypeOK
<1>2. /\ row'[n].started = 0 /\ \A m \in Notifications \ {n} : row'[m] = row[m]
  BY <1>1 DEF Row
<1>3. /\ meta'.generation = meta.generation /\ meta'.mode = meta.mode
      /\ meta'.initialized = meta.initialized
  BY <1>1 DEF ReconcileNotDelivered, Activation
<1>4. \A m \in Notifications : row'[m].started <= meta'.generation
  BY <1>2, <1>3, Columns DEF BudgetSound
<1>5. ASSUME meta.mode = "one_shot", row[n].started = meta.generation
      PROVE  ActivationAccounted'
  <2>1. n \in Spent /\ meta.generation # 0
    BY <1>5 DEF Spent, BudgetSound
  <2>2. meta.consumed = 1 /\ Spent = {n}
    BY <1>5, <2>1, FewSpent DEF BudgetSound, ActivationAccounted, Spent
  <2>3. Spent' = {}
    BY <1>2, <1>3, <2>1, <2>2 DEF Spent
  <2>4. Cardinality(Spent)' = 0
    BY <2>3, FS_EmptySet
  <2>5. meta' = [meta EXCEPT !.consumed = meta.consumed - 1, !.verified = FALSE]
    BY <1>1, <1>5, <2>1, <2>2 DEF ReconcileNotDelivered, Activation
  <2>6. meta'.consumed = 0 /\ meta'.verified = FALSE
    BY <1>1, <2>2, <2>5 DEF Activation
  <2> QED BY <2>4, <2>6 DEF ActivationAccounted, Spent
<1>6. ASSUME meta.mode = "one_shot", row[n].started # meta.generation
      PROVE  ActivationAccounted'
  <2>1. UNCHANGED meta
    BY <1>6 DEF ReconcileNotDelivered
  <2>2. meta.generation # 0
    BY <1>6 DEF BudgetSound
  <2>3. Spent' = Spent /\ n \notin Spent
    BY <1>2, <1>6, <2>1, <2>2 DEF Spent
  <2>4. \A m \in Spent : row'[m] = row[m]
    BY <1>2, <2>3 DEF Spent
  <2> QED BY <1>6, <2>1, <2>3, <2>4 DEF BudgetSound, ActivationAccounted, Spent
<1>7. ActivationAccounted'
  BY <1>3, <1>5, <1>6 DEF ActivationAccounted
<1> QED BY <1>3, <1>4, <1>7 DEF BudgetSound

LEMMA StepBudget ==
    ASSUME TypeOK, WorkerHolds, BudgetSound, [Next]_vars
    PROVE  BudgetSound'
<1> DEFINE w == worker.n
<1>1. CASE UNCHANGED <<row, meta>>
  BY <1>1, RowsBudget
<1>2. ASSUME NEW n \in Notifications, UNCHANGED meta, row[n].state # "accepted",
             row'[n].started = row[n].started, \A m \in Notifications \ {n} : row'[m] = row[m]
      PROVE  BudgetSound'
  BY <1>2, RowsBudget
<1>3. CASE StartWorker
  BY <1>3, RowsBudget, Typed DEF StartWorker, Recovered, Row
<1>4. ASSUME NEW n \in Notifications, Admit(n) PROVE BudgetSound'
  BY <1>2, <1>4, Typed DEF Admit, Row, TypeOK
<1>5. CASE Claim
  <2>1. CASE Oldest = NoNotification \/ UNCHANGED row
    BY <1>1, <1>5, <2>1 DEF Claim
  <2>2. CASE Oldest # NoNotification /\ ~ UNCHANGED row
    <3>1. Oldest \in Notifications /\ row[Oldest] \in Row /\ row[Oldest].state = "pending"
      BY <2>2, OldestIsPending, Typed
    <3>2. row' = [row EXCEPT ![Oldest].state = "claimed", ![Oldest].claim = @ + 1] /\ UNCHANGED meta
      BY <1>5, <2>2 DEF Claim
    <3> QED BY <1>2, <3>1, <3>2 DEF Row, TypeOK
  <2> QED BY <2>1, <2>2
<1>6. worker.pc \notin {"off", "idle", "polled"} =>
          w \in Notifications /\ row \in [Notifications -> Row] /\ row[w] \in Row
  BY Typed DEF WorkerHolds, TypeOK
<1>7. CASE PrepareFails \/ MarkFails
  BY <1>1, <1>2, <1>6, <1>7 DEF PrepareFails, MarkFails, Held, Row
<1>8. CASE FinalizeRejected \/ FinalizeUnknown
  BY <1>2, <1>6, <1>8 DEF FinalizeRejected, FinalizeUnknown, Held, Row
<1>9. CASE FinalizeAccepted
  BY <1>2, <1>6, <1>9 DEF FinalizeAccepted, Accepted, Held, Row
<1>10. ASSUME NEW n \in Notifications, NEW ts \in DOMAIN slack, ReconcileDelivered(n, ts)
       PROVE  BudgetSound'
  BY <1>2, <1>10, Typed DEF ReconcileDelivered, Accepted, Row, TypeOK
<1>11. CASE MarkActivationVerified
  <2>1. /\ meta \in Activation /\ UNCHANGED row /\ meta' = [meta EXCEPT !.verified = TRUE]
        /\ \E n \in Spent : row[n].state = "accepted"
    BY <1>11 DEF MarkActivationVerified, TypeOK, Spent
  <2>2. /\ meta'.mode = meta.mode /\ meta'.generation = meta.generation
        /\ meta'.initialized = meta.initialized /\ meta'.consumed = meta.consumed
    BY <2>1 DEF Activation
  <2>3. Spent' = Spent
    BY <2>1, <2>2 DEF Spent
  <2> QED BY <2>1, <2>2, <2>3 DEF BudgetSound, ActivationAccounted, Spent
<1>12. CASE Poll \/ Prepare \/ PostMessage \/ AnswerAccepted \/ AnswerRejected \/ AnswerLost
            \/ FinalizeAcceptedFails \/ FinalizeFails
  BY <1>1, <1>12 DEF Poll, Prepare, PostMessage, AnswerAccepted, AnswerRejected, AnswerLost,
       FinalizeAcceptedFails, FinalizeFails, store
<1>13. CASE Crash \/ Ready \/ (\E n \in Notifications : SlackPublishes(n) \/ SlackRefuses(n) \/ WireDrained(n))
  BY <1>1, <1>13 DEF Crash, Ready, VerifyAuth, ReadyReads, ReadyHalts, SlackPublishes,
       SlackRefuses, WireDrained, store
<1>14. CASE Next
  BY <1>3, <1>4, <1>5, <1>7, <1>8, <1>9, <1>10, <1>11, <1>12, <1>13, <1>14,
     StartBudget, MarkBudget, RearmBudget DEF Next, WorkerStep, Operator
<1> QED BY <1>1, <1>14 DEF vars

-----------------------------------------------------------------------------
(* The threads *)

\* Nothing that the threads are made of changes.
LEMMA SameThreads ==
    ASSUME TypeOK, ThreadSound, UNCHANGED <<roots, cards>>,
           worker'.pc = "accepted" => ThreadFits(worker'.n, worker'.thread),
           \A n \in Notifications :
              \/ row'[n] = row[n]
              \/ row[n].state # "accepted" /\ row'[n].state # "accepted"
    PROVE  ThreadSound'
<1>1. In({"accepted"})' = In({"accepted"}) /\ \A n \in In({"accepted"}) : row'[n] = row[n]
  BY DEF In
<1>2. \A n : SubjectRoot(n)' = SubjectRoot(n)
  BY DEF SubjectRoot
<1>3. worker'.pc = "accepted" => ThreadFits(worker.n, worker.thread)'
  BY DEF ThreadFits
<1>4. cards \subseteq In({"accepted"})
  BY DEF TypeOK, ThreadSound, ThreadsAccounted, In
<1> QED BY <1>1, <1>2, <1>3, <1>4 DEF ThreadSound, ThreadsAccounted, In

\* A message is accepted into the thread of its subject, and becomes its root if
\* there is none; its card comes with it.
LEMMA NewThread ==
    ASSUME TypeOK, ThreadSound, NEW n \in Notifications, row[n].state # "accepted",
           NEW ts \in Nat \ {0}, NEW thread \in Nat, ThreadFits(n, thread),
           row' = Accepted(n, ts, thread), roots' = WithRoot(n, ts),
           worker'.pc # "accepted",
           \/ UNCHANGED cards
           \/ /\ thread = 0 /\ SubjectOf[n] # NoSubject
              /\ cards' = cards \cup {n}
    PROVE  ThreadSound'
<1>1. /\ row'[n].state = "accepted" /\ row'[n].ts = ts /\ row'[n].thread = thread
      /\ \A m \in Notifications \ {n} : row'[m] = row[m]
  BY Typed DEF Accepted, Row, TypeOK
<1>2. SubjectOf \in [Notifications -> Subjects \cup {NoSubject}] /\ NoSubject \notin Subjects
      /\ roots \in [Subjects -> Nat] /\ cards \subseteq Notifications
  BY ConstantsAssumption DEF TypeOK
<1>3. In({"accepted"})' = In({"accepted"}) \cup {n} /\ n \notin In({"accepted"})
  BY <1>1 DEF In
<1>4. thread = SubjectRoot(n)
  BY DEF ThreadFits, SubjectRoot
<1>5. SubjectOf[n] # NoSubject =>
         SubjectRoot(n)' = IF SubjectRoot(n) = 0 THEN ts ELSE SubjectRoot(n)
  BY <1>2 DEF SubjectRoot, WithRoot
<1>6. \A m \in Notifications :
         \/ SubjectRoot(m)' = SubjectRoot(m)
         \/ SubjectOf[m] = SubjectOf[n] /\ SubjectRoot(m) = 0 /\ SubjectOf[m] # NoSubject
  BY <1>2 DEF SubjectRoot, WithRoot
<1>7. ASSUME NEW m \in In({"accepted"})', SubjectOf[m] # NoSubject
      PROVE  \/ row'[m].ts = SubjectRoot(m)' /\ row'[m].thread = 0
             \/ row'[m].thread = SubjectRoot(m)' /\ row'[m].thread # 0
  <2>1. CASE m = n
    BY <1>1, <1>4, <1>5, <1>7, <2>1
  <2>2. CASE m # n
    <3>1. m \in In({"accepted"}) /\ row'[m] = row[m] /\ m \in Notifications /\ row[m].ts # 0
      BY <1>1, <1>3, <2>2 DEF In, ThreadSound
    <3>2. SubjectRoot(m) # 0
      BY <1>7, <3>1 DEF ThreadSound, ThreadsAccounted
    <3> QED BY <1>6, <1>7, <3>1, <3>2 DEF ThreadSound, ThreadsAccounted
  <2> QED BY <2>1, <2>2
<1>8. ASSUME NEW s \in Subjects, roots'[s] # 0
      PROVE  \E m \in In({"accepted"})' :
                SubjectOf[m] = s /\ row'[m].ts = roots'[s] /\ row'[m].thread = 0
  <2>1. CASE roots'[s] = roots[s]
    <3>1. PICK m \in In({"accepted"}) : SubjectOf[m] = s /\ row[m].ts = roots[s] /\ row[m].thread = 0
      BY <1>8, <2>1 DEF ThreadSound, ThreadsAccounted
    <3>2. row'[m] = row[m] /\ m \in In({"accepted"})'
      BY <1>1, <1>3 DEF In
    <3> QED BY <2>1, <3>1, <3>2
  <2>2. CASE roots'[s] # roots[s]
    <3>1. s = SubjectOf[n] /\ SubjectRoot(n) = 0 /\ roots'[s] = ts
      BY <1>2, <2>2 DEF WithRoot
    <3> QED BY <1>1, <1>3, <1>4, <3>1
  <2> QED BY <2>1, <2>2
<1>9. ASSUME NEW m \in cards' PROVE row'[m].state = "accepted" /\ row'[m].ts = SubjectRoot(m)'
  <2>1. CASE m \in cards
    <3>1. /\ m \in Notifications /\ row[m].state = "accepted" /\ row[m].ts = SubjectRoot(m)
          /\ row[m].ts # 0
      BY <1>2, <2>1 DEF ThreadSound, ThreadsAccounted, In
    <3> QED BY <1>1, <1>6, <3>1
  <2>2. CASE m \notin cards
    BY <1>1, <1>4, <1>5, <1>9, <2>2
  <2> QED BY <2>1, <2>2
<1>10. \A m \in In({"accepted"})' : row'[m].ts # 0
  BY <1>1, <1>3 DEF In, ThreadSound
<1> QED BY <1>7, <1>8, <1>9, <1>10 DEF ThreadSound, ThreadsAccounted

\* An accepted root of a subject without its card gets it.
LEMMA BackfilledSound ==
    ASSUME TypeOK, ThreadSound, NEW n \in BackfilledCards
    PROVE  n \in Notifications /\ row[n].state = "accepted" /\ row[n].ts = SubjectRoot(n)
<1>1. n \in Notifications
  BY ConstantsAssumption DEF BackfilledCards, TypeOK
<1>2. CASE n \in cards
  BY <1>1, <1>2 DEF ThreadSound, ThreadsAccounted
<1>3. CASE n \notin cards
  BY <1>1, <1>3 DEF ThreadSound, ThreadsAccounted, BackfilledCards, In
<1> QED BY <1>1, <1>2, <1>3

LEMMA StepThreads ==
    ASSUME TypeOK, WorkerHolds, DeliverySound, ThreadSound, [Next]_vars
    PROVE  ThreadSound'
<1> DEFINE w == worker.n
<1>1. ASSUME UNCHANGED <<row, roots, cards>>, worker' = worker \/ worker'.pc # "accepted"
      PROVE  ThreadSound'
  BY <1>1, SameThreads DEF ThreadSound, ThreadsAccounted
<1>2. ASSUME NEW n \in Notifications, row[n].state # "accepted", row'[n].state # "accepted",
             \A m \in Notifications \ {n} : row'[m] = row[m],
             UNCHANGED <<roots, cards>>, worker' = worker \/ worker'.pc # "accepted"
      PROVE  ThreadSound'
  BY <1>2, SameThreads DEF ThreadSound, ThreadsAccounted
<1>3. ASSUME row' = Recovered(row) PROVE \A n \in Notifications :
              \/ row'[n] = row[n]
              \/ row[n].state # "accepted" /\ row'[n].state # "accepted"
  BY <1>3, Typed DEF Recovered, Row
<1>4. ASSUME NEW mode, NEW g, Start(mode, g) PROVE ThreadSound'
  <2>1. /\ row' = Recovered(row) /\ UNCHANGED <<roots, worker>> /\ cards' = BackfilledCards
        /\ worker.pc = "off"
    BY <1>4 DEF Start, WorkerHolds
  <2>2. In({"accepted"})' = In({"accepted"}) /\ \A n \in In({"accepted"}) : row'[n] = row[n]
    BY <1>3, <2>1 DEF In
  <2>3. \A n \in cards' : row'[n].state = "accepted" /\ row'[n].ts = SubjectRoot(n)'
    BY <2>1, <2>2, BackfilledSound DEF In, SubjectRoot
  <2> QED BY <2>1, <2>2, <2>3 DEF ThreadSound, ThreadsAccounted, In, SubjectRoot
<1>5. CASE StartWorker
  BY <1>3, <1>5, SameThreads DEF StartWorker, Idle, Off
<1>6. ASSUME NEW n \in Notifications, Admit(n) PROVE ThreadSound'
  BY <1>2, <1>6, Typed DEF Admit, Row, TypeOK
<1>7. CASE Claim
  <2>1. CASE UNCHANGED row
    BY <1>1, <1>7, <2>1 DEF Claim, Idle, Off
  <2>2. CASE Oldest # NoNotification /\ ~ UNCHANGED row
    <3>1. Oldest \in Notifications /\ row[Oldest] \in Row /\ row[Oldest].state = "pending"
      BY <2>2, OldestIsPending, Typed
    <3>2. row' = [row EXCEPT ![Oldest].state = "claimed", ![Oldest].claim = @ + 1]
          /\ UNCHANGED <<roots, cards>> /\ worker'.pc = "claimed"
      BY <1>7, <2>2 DEF Claim, Idle, Off
    <3> QED BY <1>2, <3>1, <3>2 DEF Row, TypeOK
  <2>3. UNCHANGED row \/ Oldest # NoNotification
    BY <1>7 DEF Claim
  <2> QED BY <2>1, <2>2, <2>3
<1>8. worker.pc \notin {"off", "idle", "polled"} =>
          /\ w \in Notifications /\ row \in [Notifications -> Row] /\ row[w] \in Row
          /\ worker \in Worker
  BY Typed DEF WorkerHolds, TypeOK
<1>9. CASE PrepareFails \/ MarkFails
  <2>1. /\ UNCHANGED <<roots, cards>> /\ worker'.pc = "idle" /\ w \in Notifications
        /\ UNCHANGED row \/ (Held("claimed") /\ row' = [row EXCEPT ![w].state = "pending"])
    BY <1>8, <1>9 DEF PrepareFails, MarkFails, Idle, Off
  <2> QED BY <1>1, <1>2, <1>8, <1>9, <2>1 DEF Held, Row, PrepareFails, MarkFails
<1>10. CASE MarkRequestStarted
  <2>1. /\ row[w].state = "claimed" /\ row' = Started(w) /\ UNCHANGED <<roots, cards>>
        /\ worker' = [worker EXCEPT !.pc = "started"]
    BY <1>10 DEF MarkRequestStarted, Held, Goto
  <2>2. worker'.pc = "started"
    BY <1>8, <1>10, <2>1 DEF Worker, MarkRequestStarted
  <2> QED BY <1>2, <1>8, <1>10, <2>1, <2>2 DEF Started, Row, MarkRequestStarted
<1>11. CASE FinalizeRejected \/ FinalizeUnknown
  BY <1>2, <1>8, <1>11 DEF FinalizeRejected, FinalizeUnknown, Held, Row, Idle, Off
<1>12. CASE FinalizeAccepted
  <2>1. /\ row[w].state = "request_started" /\ ThreadFits(w, worker.thread)
        /\ row' = Accepted(w, worker.ts, worker.thread) /\ roots' = WithRoot(w, worker.ts)
        /\ worker'.pc = "idle" /\ worker.ts # 0
        /\ \/ UNCHANGED cards
           \/ worker.thread = 0 /\ SubjectOf[w] # NoSubject /\ cards' = cards \cup {w}
    BY <1>12 DEF FinalizeAccepted, Held, Idle, Off, DeliverySound, AnswerSound
  <2>2. worker.ts \in Nat /\ worker.thread \in Nat /\ w \in Notifications
    BY <1>8, <1>12 DEF FinalizeAccepted, Worker
  <2> QED BY <2>1, <2>2, NewThread
<1>13. ASSUME NEW n \in Notifications, NEW ts \in DOMAIN slack, ReconcileDelivered(n, ts)
       PROVE  ThreadSound'
  <2>1. ts \in Nat \ {0} /\ slack[ts].thread \in Nat
    BY Columns
  <2>2. worker.pc \in {"off", "idle"}
    BY <1>13 DEF ReconcileDelivered, WorkerHolds, Unknown, In
  <2>3. /\ row[n].state = "delivery_unknown" /\ ThreadFits(n, slack[ts].thread)
        /\ row' = Accepted(n, ts, slack[ts].thread) /\ roots' = WithRoot(n, ts)
        /\ UNCHANGED <<cards, worker>>
    BY <1>13 DEF ReconcileDelivered
  <2> QED BY <2>1, <2>2, <2>3, NewThread
<1>14. ASSUME NEW n \in Notifications, ReconcileNotDelivered(n) PROVE ThreadSound'
  BY <1>2, <1>14, Typed DEF ReconcileNotDelivered, Row, TypeOK
<1>15. CASE AnswerAccepted
  <2>1. /\ worker' = [worker EXCEPT !.pc = "accepted", !.ts = wire[w].ts] /\ w \in Notifications
        /\ worker.thread = SubjectRoot(w) /\ UNCHANGED <<row, roots, cards>> /\ worker \in Worker
    BY <1>8, <1>15 DEF AnswerAccepted, WorkerHolds, store
  <2>2. worker'.n = w /\ worker'.thread = worker.thread
    BY <2>1 DEF Worker
  <2>3. ThreadFits(w, worker.thread)
    BY <2>1 DEF ThreadFits, SubjectRoot
  <2> QED BY <2>1, <2>2, <2>3, SameThreads
<1>16. CASE Prepare \/ PostMessage \/ AnswerRejected \/ AnswerLost \/ FinalizeAcceptedFails
  <2>1. UNCHANGED <<row, roots, cards>>
    BY <1>16 DEF Prepare, PostMessage, AnswerRejected, AnswerLost, FinalizeAcceptedFails, store
  <2>2. worker'.pc \in {"prepared", "waiting", "rejected", "unknown"}
    BY <1>8, <1>16 DEF Prepare, PostMessage, AnswerRejected, AnswerLost, FinalizeAcceptedFails,
                       Goto, Worker
  <2> QED BY <1>1, <2>1, <2>2
<1>17. CASE Poll \/ FinalizeFails
  BY <1>1, <1>17, Typed DEF Poll, FinalizeFails, Goto, store, Idle, Off, Worker
<1>18. CASE Crash \/ Ready \/ MarkActivationVerified
            \/ (\E n \in Notifications : SlackPublishes(n) \/ SlackRefuses(n) \/ WireDrained(n))
  <2>1. UNCHANGED <<row, roots, cards>>
    BY <1>18 DEF Crash, Ready, VerifyAuth, ReadyReads, ReadyHalts, SlackPublishes,
         SlackRefuses, WireDrained, MarkActivationVerified, store
  <2>2. CASE Crash
    BY <1>1, <2>1, <2>2 DEF Crash, Off
  <2>3. CASE ~ Crash
    <3>1. worker' = worker
      BY <1>18, <2>3 DEF Ready, VerifyAuth, ReadyReads, ReadyHalts, SlackPublishes,
           SlackRefuses, WireDrained, MarkActivationVerified
    <3> QED BY <1>1, <2>1, <3>1
  <2> QED BY <2>2, <2>3
<1>19. CASE Next
  BY <1>4, <1>5, <1>6, <1>7, <1>9, <1>10, <1>11, <1>12, <1>13, <1>14, <1>15, <1>16, <1>17,
     <1>18, <1>19 DEF Next, WorkerStep, Operator
<1> QED BY <1>1, <1>19 DEF vars

-----------------------------------------------------------------------------
(* The theorems *)

IInv == TypeOK /\ OrderSound /\ WorkerHolds /\ DeliverySound /\ BudgetSound /\ ThreadSound

LEMMA InitSound == Init => IInv
<1> SUFFICES ASSUME Init PROVE IInv
  OBVIOUS
<1>1. TypeOK
  BY InitType
<1>2. \A n \in Notifications : /\ row[n].state = "absent" /\ row[n].started = 0
                               /\ wire[n].state = "none"
  BY DEF Init, NoWire
<1>3. DOMAIN slack = {} /\ DOMAIN order = {} /\ worker.pc = "off"
  BY DEF Init, Off
<1>4. OrderSound
  BY <1>3 DEF OrderSound
<1>5. WorkerHolds
  BY <1>3 DEF WorkerHolds
<1>6. \A n \in Notifications : Shown[n] = 0
  BY <1>1, <1>3, ShownCounts
<1>7. DeliverySound
  BY <1>2, <1>3, <1>6 DEF DeliverySound, WireSound, AnswerSound
<1>8. BudgetSound
  BY <1>2 DEF Init, BudgetSound, ActivationAccounted
<1>9. ThreadSound
  BY <1>2, <1>3 DEF Init, ThreadSound, ThreadsAccounted, In
<1> QED BY <1>1, <1>4, <1>5, <1>7, <1>8, <1>9 DEF IInv

LEMMA StepSound == IInv /\ [Next]_vars => IInv'
BY StepType, StepOrder, StepHolds, StepDelivery, StepBudget, StepThreads DEF IInv

\* The inductive invariant holds in every reachable state.
THEOREM Inductive == Spec => []IInv
BY InitSound, StepSound, PTL DEF Spec

\* The rows, the wire and the worker keep their types, and nothing is admitted twice.
THEOREM TypeCorrect == Spec => []TypeOK
<1>1. IInv => TypeOK
  BY DEF IInv
<1> QED BY <1>1, Inductive, PTL

\* The activation budget accounts for the rows after every claim, crash, rearm,
\* verification and new generation.
THEOREM BudgetAccounted == Spec => []ActivationAccounted
<1>1. IInv => ActivationAccounted
  BY DEF IInv, BudgetSound
<1> QED BY <1>1, Inductive, PTL

\* Roots, replies and cards account for the accepted messages.
THEOREM RootsAccounted == Spec => []ThreadsAccounted
<1>1. IInv => ThreadsAccounted
  BY DEF IInv, ThreadSound
<1> QED BY <1>1, Inductive, PTL

\* No request is started while a delivery is unknown.
THEOREM OutputStops == Spec => UnknownStopsOutput
<1>1. IInv /\ [Next]_vars =>
         [\A n \in Notifications :
            row[n].state # "request_started" /\ row'[n].state = "request_started"
                => Unknown = {}]_vars
  <2> SUFFICES ASSUME IInv, Next, NEW n \in Notifications,
                      row[n].state # "request_started", row'[n].state = "request_started"
               PROVE  Unknown = {}
    BY DEF vars
  <2>1. TypeOK /\ WorkerHolds
    BY DEF IInv
  <2>2. row'[n] # row[n] /\ row \in [Notifications -> Row] /\ \A m \in Notifications : row[m] \in Row
    BY <2>1, Typed DEF TypeOK
  <2>3. CASE MarkRequestStarted
    BY <2>1, <2>3 DEF MarkRequestStarted, WorkerHolds
  <2>4. worker.pc \notin {"off", "idle", "polled"} => worker.n \in Notifications
    BY <2>1 DEF WorkerHolds
  <2>5. ~ (row' = Recovered(row))
    BY <2>2 DEF Recovered, Row
  <2>6. ASSUME NEW m \in Notifications, Admit(m) \/ ReconcileNotDelivered(m) PROVE FALSE
    BY <2>2, <2>6 DEF Admit, ReconcileNotDelivered, Row
  <2>7. ASSUME NEW m \in Notifications, NEW ts, ReconcileDelivered(m, ts) PROVE FALSE
    BY <2>2, <2>7 DEF ReconcileDelivered, Accepted, Row
  <2>8. ~ Claim
    BY <2>1, <2>2, OldestIsPending DEF Claim, Row
  <2>9. ~ PrepareFails /\ ~ MarkFails /\ ~ FinalizeRejected /\ ~ FinalizeUnknown
    BY <2>2, <2>4 DEF PrepareFails, MarkFails, FinalizeRejected, FinalizeUnknown, Row
  <2>10. ~ FinalizeAccepted
    BY <2>2, <2>4 DEF FinalizeAccepted, Accepted, Row
  <2> QED BY <2>2, <2>3, <2>5, <2>6, <2>7, <2>8, <2>9, <2>10
          DEF Next, WorkerStep, Operator, Start, StartWorker, Crash, Ready, VerifyAuth,
              ReadyReads, ReadyHalts, SlackPublishes, SlackRefuses, WireDrained, Poll, Prepare,
              PostMessage, AnswerAccepted, AnswerRejected, AnswerLost, FinalizeAcceptedFails,
              FinalizeFails, MarkActivationVerified, store
<1> QED BY <1>1, Inductive, PTL DEF Spec, UnknownStopsOutput

-----------------------------------------------------------------------------
(* The refinement *)

LEMMA InitRefines == Init => Ledger!Init
<1> SUFFICES ASSUME Init PROVE Ledger!Init
  OBVIOUS
<1>1. \A n \in Notifications : row[n].state = "absent" /\ Shown[n] = 0
  BY InitSound DEF Init, IInv, DeliverySound, WireSound
<1>2. Outcome = [n \in Notifications |-> "unasked"]
  BY <1>1 DEF Outcome, Nonterminal
<1>3. Shown = [n \in Notifications |-> 0]
  BY <1>1 DEF Shown
<1> QED BY <1>2, <1>3 DEF Ledger!Init

\* Steps that leave every row in its class, and the channel alone, are stutters.
LEMMA Stutters ==
    ASSUME UNCHANGED slack,
           \A n \in Notifications :
              \/ row'[n].state = row[n].state
              \/ row[n].state \in Nonterminal /\ row'[n].state \in Nonterminal
    PROVE  UNCHANGED <<Outcome, Shown>>
<1>1. Outcome' = Outcome
  BY DEF Outcome, Nonterminal
<1>2. Shown' = Shown
  BY DEF Shown
<1> QED BY <1>1, <1>2

\* A row reaches a class of its own, and the channel stays.
LEMMA OneOutcome ==
    ASSUME NEW n \in Notifications, UNCHANGED slack,
           \A m \in Notifications \ {n} : row'[m] = row[m]
    PROVE  /\ Outcome' = [Outcome EXCEPT ![n] = Outcome'[n]]
           /\ Shown' = Shown
<1>1. Outcome' = [m \in Notifications |-> Outcome'[m]]
      /\ Outcome = [m \in Notifications |-> Outcome[m]]
  BY DEF Outcome
<1>2. \A m \in Notifications \ {n} : Outcome'[m] = Outcome[m]
  BY DEF Outcome
<1>3. Outcome' = [Outcome EXCEPT ![n] = Outcome'[n]]
  BY <1>1, <1>2
<1> QED BY <1>3 DEF Shown

\* A delivery is recorded as what it is.
LEMMA Records ==
    ASSUME NEW n \in Notifications, UNCHANGED slack,
           \A m \in Notifications \ {n} : row'[m] = row[m],
           row[n].state \in Nonterminal,
           \/ row'[n].state = "accepted" /\ Shown[n] = 1
           \/ row'[n].state = "rejected" /\ Shown[n] = 0
    PROVE  Ledger!Record(n)
<1>1. Outcome[n] = "owed"
  BY DEF Outcome, Nonterminal
<1>2. Outcome'[n] = IF Shown[n] = 1 THEN "published" ELSE "refused"
  BY DEF Outcome, Nonterminal
<1> QED BY <1>1, <1>2, OneOutcome DEF Ledger!Record

LEMMA StepRefines ==
    ASSUME IInv, [Next]_vars
    PROVE  [Ledger!Next]_(Ledger!vars)
<1> DEFINE w == worker.n
<1>0. TypeOK /\ WorkerHolds /\ DeliverySound
  BY DEF IInv
<1>1. ASSUME UNCHANGED slack, \A n \in Notifications :
              \/ row'[n].state = row[n].state
              \/ row[n].state \in Nonterminal /\ row'[n].state \in Nonterminal
      PROVE  [Ledger!Next]_(Ledger!vars)
  BY <1>1, Stutters DEF Ledger!vars
<1>2. CASE UNCHANGED <<row, slack>>
  BY <1>1, <1>2
<1>3. ASSUME NEW n \in Notifications, UNCHANGED slack,
             \A m \in Notifications \ {n} : row'[m] = row[m],
             row[n].state \in Nonterminal, row'[n].state \in Nonterminal
      PROVE  [Ledger!Next]_(Ledger!vars)
  BY <1>1, <1>3
<1>4. ASSUME row' = Recovered(row), UNCHANGED slack PROVE [Ledger!Next]_(Ledger!vars)
  BY <1>0, <1>1, <1>4, Typed DEF Recovered, Row, Nonterminal
<1>5. ASSUME NEW n \in Notifications, Admit(n) PROVE Ledger!Ask(n)
  <2>1. /\ row' = [row EXCEPT ![n].state = "pending"] /\ UNCHANGED slack
        /\ row \in [Notifications -> Row] /\ row[n] \in Row /\ row[n].state = "absent"
    BY <1>0, <1>5, Typed DEF Admit, external, TypeOK
  <2>2. row'[n].state = "pending" /\ \A m \in Notifications \ {n} : row'[m] = row[m]
    BY <2>1 DEF Row
  <2>3. Outcome[n] = "unasked" /\ Outcome'[n] = "owed"
    BY <2>1, <2>2 DEF Outcome, Nonterminal
  <2> QED BY <2>1, <2>2, <2>3, OneOutcome DEF Ledger!Ask
<1>6. ASSUME NEW n \in Notifications, SlackPublishes(n) PROVE Ledger!Publish(n)
  <2>1. /\ Shown[n] = 0 /\ UNCHANGED row
        /\ row[n].state \notin {"absent", "pending", "claimed", "rejected", "accepted"}
        /\ row[n] \in Row
    BY <1>0, <1>6, Typed DEF SlackPublishes, store, DeliverySound, WireSound
  <2>2. Outcome[n] = "owed" /\ Outcome' = Outcome
    BY <2>1 DEF Outcome, Row, States
  <2>3. Shown'[n] = 1 /\ \A m \in Notifications \ {n} : Shown'[m] = Shown[m]
    BY <1>0, <1>6, <2>1, PublishCounts
  <2>4. Shown' = [Shown EXCEPT ![n] = 1]
    BY <2>3 DEF Shown
  <2> QED BY <2>1, <2>2, <2>4 DEF Ledger!Publish
<1>7. CASE Claim
  <2>1. CASE UNCHANGED row
    BY <1>2, <1>7, <2>1 DEF Claim, external
  <2>2. CASE Oldest # NoNotification /\ ~ UNCHANGED row
    <3>1. Oldest \in Notifications /\ row[Oldest] \in Row /\ row[Oldest].state = "pending"
          /\ row \in [Notifications -> Row]
      BY <1>0, <2>2, OldestIsPending, Typed DEF TypeOK
    <3>2. row' = [row EXCEPT ![Oldest].state = "claimed", ![Oldest].claim = @ + 1]
          /\ UNCHANGED slack
      BY <1>7, <2>2 DEF Claim, external
    <3> QED BY <1>3, <3>1, <3>2 DEF Row, Nonterminal
  <2>3. UNCHANGED row \/ Oldest # NoNotification
    BY <1>7 DEF Claim
  <2> QED BY <2>1, <2>2, <2>3
<1>8. worker.pc \notin {"off", "idle", "polled"} =>
          w \in Notifications /\ row \in [Notifications -> Row] /\ row[w] \in Row
  BY <1>0, Typed DEF WorkerHolds, TypeOK
<1>9. CASE PrepareFails \/ MarkFails
  <2>1. /\ UNCHANGED slack /\ w \in Notifications
        /\ UNCHANGED row \/ (Held("claimed") /\ row' = [row EXCEPT ![w].state = "pending"])
    BY <1>8, <1>9 DEF PrepareFails, MarkFails, external
  <2> QED BY <1>2, <1>3, <1>8, <1>9, <2>1 DEF Held, Row, Nonterminal, PrepareFails, MarkFails
<1>10. CASE MarkRequestStarted
  <2>1. row[w].state = "claimed" /\ row' = Started(w) /\ UNCHANGED slack
    BY <1>10 DEF MarkRequestStarted, Held, external
  <2> QED BY <1>3, <1>8, <1>10, <2>1 DEF Started, Row, Nonterminal, MarkRequestStarted
<1>11. CASE FinalizeUnknown
  BY <1>3, <1>8, <1>11 DEF FinalizeUnknown, Held, Row, Nonterminal, external
<1>12. CASE FinalizeAccepted
  <2>1. /\ row[w].state = "request_started" /\ Shown[w] = 1 /\ UNCHANGED slack
        /\ row' = Accepted(w, worker.ts, worker.thread) /\ w \in Notifications
    BY <1>0, <1>8, <1>12 DEF FinalizeAccepted, Held, external, DeliverySound, AnswerSound
  <2>2. row'[w].state = "accepted" /\ \A m \in Notifications \ {w} : row'[m] = row[m]
    BY <1>8, <1>12, <2>1 DEF Accepted, Row, FinalizeAccepted
  <2>3. Ledger!Record(w)
    BY <2>1, <2>2, Records DEF Nonterminal
  <2> QED BY <2>1, <2>3 DEF Ledger!Next
<1>13. CASE FinalizeRejected
  <2>1. /\ row[w].state = "request_started" /\ Shown[w] = 0 /\ UNCHANGED slack
        /\ row' = [row EXCEPT ![w].state = "rejected"] /\ w \in Notifications
    BY <1>0, <1>8, <1>13 DEF FinalizeRejected, Held, external, DeliverySound, AnswerSound
  <2>2. row'[w].state = "rejected" /\ \A m \in Notifications \ {w} : row'[m] = row[m]
    BY <1>8, <1>13, <2>1 DEF Row, FinalizeRejected
  <2>3. Ledger!Record(w)
    BY <2>1, <2>2, Records DEF Nonterminal
  <2> QED BY <2>1, <2>3 DEF Ledger!Next
<1>14. ASSUME NEW n \in Notifications, NEW ts \in DOMAIN slack, ReconcileDelivered(n, ts)
       PROVE  Ledger!Record(n)
  <2>1. /\ row[n].state = "delivery_unknown" /\ UNCHANGED slack /\ slack[ts].n = n
        /\ row' = Accepted(n, ts, slack[ts].thread)
        /\ row \in [Notifications -> Row] /\ row[n] \in Row
    BY <1>0, <1>14, Typed DEF ReconcileDelivered, external, TypeOK
  <2>2. row'[n].state = "accepted" /\ \A m \in Notifications \ {n} : row'[m] = row[m]
    BY <2>1 DEF Accepted, Row
  <2>3. Shown[n] = 1
    BY <1>0, <2>1, ShownCounts DEF DeliverySound, WireSound
  <2> QED BY <2>1, <2>2, <2>3, Records DEF Nonterminal
<1>15. ASSUME NEW n \in Notifications, ReconcileNotDelivered(n)
       PROVE  [Ledger!Next]_(Ledger!vars)
  BY <1>0, <1>3, <1>15, Typed DEF ReconcileNotDelivered, Row, Nonterminal, external, TypeOK
<1>16. CASE Next
  BY <1>2, <1>4, <1>5, <1>6, <1>7, <1>9, <1>10, <1>11, <1>12, <1>13, <1>14, <1>15, <1>16
     DEF Next, WorkerStep, Operator, Start, StartWorker, Crash, Ready, VerifyAuth, ReadyReads,
         ReadyHalts, SlackRefuses, WireDrained, Poll, Prepare, PostMessage, AnswerAccepted,
         AnswerRejected, AnswerLost, FinalizeAcceptedFails, FinalizeFails,
         MarkActivationVerified, store, external, Ledger!Next
<1> QED BY <1>2, <1>16 DEF vars

\* Each notification is published at most once, and its row says it was published,
\* or refused, only when that is so: the connector implements PublishOnce.
THEOREM Refinement == Spec => LedgerSpec
<1>1. IInv /\ [Next]_vars => [Ledger!Next]_(Ledger!vars)
  BY StepRefines
<1> QED BY <1>1, InitRefines, Inductive, PTL DEF Spec, LedgerSpec, Ledger!Spec

===============================================================================
