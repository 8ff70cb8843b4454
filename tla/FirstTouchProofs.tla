-------------------------- MODULE FirstTouchProofs --------------------------
(***************************************************************************)
(* Proofs about FirstTouch for any events and intents of a phone, any      *)
(* number of workers and webhook requests, and any number of faults.       *)
(***************************************************************************)
EXTENDS FirstTouch, TLAPS

-----------------------------------------------------------------------------
(* The inductive invariant *)

\* Between the start of a request and the record of its outcome.
Engaged(p) == proc[p].pc \in {"sending", "finishing"}

\* A worker has a form, a webhook request another event.
ProcSound ==
    \A p \in Procs : ~ At(p, "idle") =>
        /\ proc[p].src \in IF p \in Workers THEN Forms ELSE Carts \cup Failures
        /\ At(p, "authorizing") \/ At(p, "salvaging") => p \in Workers
        /\ At(p, "beginning") => p \in Desks
        /\ proc[p].again => proc[p].src \in Failures

\* The row of the phone.
LedgerSound ==
    /\ command.source = None <=> command.status = "none"
    /\ command.status = "reserved" => command.source \in Forms
    /\ command.failure = "invalid_contact_id" =>
         /\ command.source \in Failures /\ command.status = "delivery_unknown"
         /\ sent[command.source] = 0

\* One process at a time is engaged, for the source of the row; and the row of a
\* rejected payment waits for its outcome.
SenderSound ==
    /\ \A p \in Procs : At(p, "salvaging") => proc[p].src = command.source
    /\ \A p, q \in Procs : Engaged(p) /\ Engaged(q) => p = q
    /\ \A p \in Procs : Engaged(p) =>
        /\ proc[p].src = command.source /\ command.status \notin {"none", "reserved"}
        /\ proc[p].src \in Failures => command.status = "request_started"
        /\ At(p, "sending") => sent[proc[p].src] = 0
        /\ At(p, "finishing") /\ proc[p].reply = "sent" => sent[proc[p].src] = 1
        /\ At(p, "finishing") /\ proc[p].reply = "invalid_contact_id"
             /\ proc[p].src \in Failures => sent[proc[p].src] = 0

\* A message has the row's source.
MessageSound ==
    \A s \in Sources :
        /\ sent[s] <= 1
        /\ sent[s] > 0 => s = command.source /\ command.status \notin {"none", "reserved"}

\* A closed intent stays closed and nobody sends for it.
ClosedSound ==
    \A i \in closed : (Bought(i) \/ optedOut) /\ ~ Sending(i)

IInv ==
    /\ TypeOK /\ ProcSound /\ LedgerSound /\ SenderSound /\ MessageSound
    /\ RecordedTruth /\ ClosedSound

-----------------------------------------------------------------------------
(* What the helpers of the actions do *)

Steps == {"idle", "authorizing", "beginning", "sending", "finishing", "salvaging"}
Replies == {"none", "sent", "failed", "invalid_contact_id"}
Process == [pc : Steps, src : Sources \cup {None}, again : BOOLEAN, reply : Replies]
Cases == {"none", "unmatched", "pending_human_review", "outbound_started",
          "outbound_accepted", "delivery_unknown"}
Row == [source : Sources \cup {None}, status : {"none"} \cup Open \cup Final,
        failure : Reasons, retries : 0..1]

\* The sources of the three routes are three sets, of none of which is None.
LEMMA Apart ==
    /\ \A s \in Forms : s \notin Carts /\ s \notin Failures
    /\ \A s \in Carts : s \notin Failures
    /\ None \notin Sources
    /\ \A p \in Workers : p \notin Desks
BY FirstTouchAssumption

\* What the type invariant says of single components.
LEMMA Typed ==
    ASSUME TypeOK
    PROVE  /\ proc \in [Procs -> Process] /\ command \in Row
           /\ case \in [Failures -> Cases] /\ sent \in [Sources -> Nat]
           /\ \A p \in Procs : proc[p] \in Process
           /\ \A s \in Sources : For[s] \in Intents
BY FirstTouchAssumption DEF TypeOK, Process, Row, Cases, Steps, Replies

\* A process that rests.
LEMMA Resting ==
    ASSUME TypeOK, NEW p \in Procs, Rest(p)
    PROVE  /\ proc' \in [Procs -> Process] /\ proc'[p] = Idle /\ proc'[p].pc = "idle"
           /\ \A q \in Procs \ {p} : proc'[q] = proc[q]
BY Typed DEF Rest, Idle, Process, Steps, Replies

\* A process that goes on with what it has.
LEMMA Going ==
    ASSUME TypeOK, NEW p \in Procs, NEW pc \in Steps, Go(p, pc)
    PROVE  /\ proc' \in [Procs -> Process]
           /\ proc'[p].pc = pc /\ proc'[p].src = proc[p].src
           /\ proc'[p].again = proc[p].again /\ proc'[p].reply = proc[p].reply
           /\ \A q \in Procs \ {p} : proc'[q] = proc[q]
BY Typed DEF Go, Process

\* A process that takes a source.
LEMMA Holding ==
    ASSUME TypeOK, NEW p \in Procs, NEW pc \in Steps, NEW s \in Sources, NEW again \in BOOLEAN,
           Hold(p, pc, s, again)
    PROVE  /\ proc' \in [Procs -> Process]
           /\ proc'[p].pc = pc /\ proc'[p].src = s
           /\ proc'[p].again = again /\ proc'[p].reply = "none"
           /\ \A q \in Procs \ {p} : proc'[q] = proc[q]
BY Typed DEF Hold, Process, Replies

\* A process that has its answer.
LEMMA Replying ==
    ASSUME TypeOK, NEW p \in Procs, NEW reply \in Replies,
           proc' = [proc EXCEPT ![p].pc = "finishing", ![p].reply = reply]
    PROVE  /\ proc' \in [Procs -> Process]
           /\ proc'[p].pc = "finishing" /\ proc'[p].src = proc[p].src
           /\ proc'[p].again = proc[p].again /\ proc'[p].reply = reply
           /\ \A q \in Procs \ {p} : proc'[q] = proc[q]
BY Typed DEF Process, Steps

\* A message that is created.
LEMMA Creating ==
    ASSUME TypeOK, NEW s \in Sources, NEW made \in 0..1,
           sent' = [sent EXCEPT ![s] = @ + made]
    PROVE  /\ sent' \in [Sources -> Nat] /\ sent'[s] = sent[s] + made
           /\ \A t \in Sources \ {s} : sent'[t] = sent[t]
BY Typed

\* A case after a change of its command.
LEMMA CaseFollows ==
    ASSUME TypeOK, NEW s, NEW status, case' = CaseAfter(s, status)
    PROVE  /\ case' \in [Failures -> Cases]
           /\ \A e \in Failures : case'[e] = IF e = s THEN CaseOf(status) ELSE case[e]
BY Typed DEF CaseAfter, CaseOf, Cases

\* A row with a new status.
LEMMA Writing ==
    ASSUME TypeOK, NEW status \in {"request_started"} \cup Final, NEW failure \in Reasons,
           Write(status, failure)
    PROVE  /\ command' \in Row /\ case' \in [Failures -> Cases]
           /\ command'.source = command.source /\ command'.status = status
           /\ command'.failure = failure
           /\ \A e \in Failures :
                case'[e] = IF e = command.source THEN CaseOf(status) ELSE case[e]
<1>1. command' = [command EXCEPT !.status = status, !.failure = failure]
      /\ case' = CaseAfter(command.source, status)
  BY DEF Write
<1>2. /\ case' \in [Failures -> Cases]
      /\ \A e \in Failures : case'[e] = IF e = command.source THEN CaseOf(status) ELSE case[e]
  BY <1>1, CaseFollows
<1>3. /\ command' \in Row /\ command'.source = command.source
      /\ command'.status = status /\ command'.failure = failure
  BY <1>1, Typed DEF Row, Open, Final
<1> QED BY <1>2, <1>3

\* A new row.
LEMMA Inserting ==
    ASSUME NEW s \in Sources, NEW status \in Open, Insert(s, status)
    PROVE  /\ command' \in Row /\ command'.source = s /\ command'.status = status
           /\ command'.failure = "none"
BY DEF Insert, Row, Open, Reasons

-----------------------------------------------------------------------------
(* Types *)

\* A case or an intent that an admission changes.
LEMMA Admitting ==
    ASSUME TypeOK, NEW s \in Sources,
           NEW class \in {"confirmed_abandonment", "payment_failure_supported"}
    PROVE  LET after == [intent EXCEPT ![For[s]].class = class]
           IN  /\ after \in [Intents -> [life : {"waiting_for_purchase", "purchased"},
                                         class : {"none", "confirmed_abandonment",
                                                  "payment_failure_supported"}]]
               /\ \A i \in Intents : after[i].life = intent[i].life
BY FirstTouchAssumption DEF TypeOK

LEMMA Deciding ==
    ASSUME TypeOK, NEW f \in Forms
    PROVE  /\ Stop(For[f]) \in Stops \cup {"none"} /\ Recheck(For[f]) \in Reasons
           /\ Decision(f) \in Outcomes
BY DEF Stop, Recheck, Decision, Stops, Outcomes, Reasons

\* The record of an outcome.
LEMMA Finishing ==
    ASSUME TypeOK, NEW status \in Final, NEW failure \in Reasons, Finish(status, failure)
    PROVE  /\ command' \in Row /\ case' \in [Failures -> Cases]
           /\ command'.source = command.source
           /\ command.status = "request_started" =>
                /\ command'.status = status /\ command'.failure = failure
                /\ \A e \in Failures :
                     case'[e] = IF e = command.source THEN CaseOf(status) ELSE case[e]
           /\ command.status # "request_started" => UNCHANGED <<command, case>>
<1>1. CASE command.status = "request_started"
  <2>1. Write(status, failure)
    BY <1>1 DEF Finish
  <2> QED BY <1>1, <2>1, Writing
<1>2. CASE command.status # "request_started"
  BY <1>2, Typed DEF Finish
<1> QED BY <1>1, <1>2

LEMMA Answered ==
    ASSUME NEW p
    PROVE  Outcome(p) \in Final /\ FailureCode(p) \in Reasons
BY DEF Outcome, FailureCode, Final, Reasons

\* What a process does after a lost acceptance.
LEMMA Losing ==
    ASSUME TypeOK, NEW p \in Procs, AfterLoss(p)
    PROVE  /\ proc' \in [Procs -> Process]
           /\ \A q \in Procs \ {p} : proc'[q] = proc[q]
           /\ \/ proc'[p].pc = "idle"
              \/ /\ p \in Workers /\ proc'[p].pc = "salvaging"
                 /\ proc'[p].src = proc[p].src /\ proc'[p].again = proc[p].again
<1>1. CASE p \in Workers /\ proc[p].reply = "sent"
  BY <1>1, Going DEF AfterLoss, Steps
<1>2. CASE ~(p \in Workers /\ proc[p].reply = "sent")
  BY <1>2, Resting DEF AfterLoss
<1> QED BY <1>1, <1>2

-----------------------------------------------------------------------------
(* Every action keeps the invariant *)

\* What nobody sends for stays so when no row, process or message changes.
LEMMA QuietStep ==
    ASSUME IInv, TypeOK', UNCHANGED <<case, command, proc, sent>>, ClosedSound'
    PROVE  IInv'
BY DEF IInv, ProcSound, LedgerSound, SenderSound, MessageSound, RecordedTruth, Engaged, At

LEMMA InitHolds == Init => IInv
<1> SUFFICES ASSUME Init PROVE IInv
  OBVIOUS
<1>1. TypeOK
  <2>1. /\ 0 \in 0..MaxFaults /\ closed \subseteq Intents /\ command \in Row
        /\ sent \in [Sources -> Nat]
    BY FirstTouchAssumption DEF Init, Row, Reasons
  <2>2. proc \in [Procs -> Process]
    BY DEF Init, Idle, Process, Steps, Replies
  <2> QED BY <2>1, <2>2 DEF Init, TypeOK, Row, Process, Steps, Replies
<1>2. /\ ProcSound /\ SenderSound
      /\ \A p \in Procs : proc[p].pc = "idle"
  BY DEF Init, Idle, ProcSound, SenderSound, Engaged, At
<1>3. LedgerSound /\ MessageSound
  BY DEF Init, LedgerSound, MessageSound
<1>4. RecordedTruth
  BY Apart DEF Init, RecordedTruth, Sources
<1>5. ClosedSound
  BY DEF Init, ClosedSound
<1> QED BY <1>1, <1>2, <1>3, <1>4, <1>5 DEF IInv

LEMMA SubmitHolds ==
    ASSUME IInv, NEW f \in Forms, Submit(f)
    PROVE  IInv'
<1>1. TypeOK'
  <2>1. timer' \in [Forms -> {"absent", "not_scheduled", "scheduled", "due"} \cup Outcomes]
    BY DEF IInv, TypeOK, Submit, Outcomes
  <2> QED BY <2>1 DEF IInv, TypeOK, Submit
<1>2. ClosedSound'
  BY DEF IInv, Submit, ClosedSound, Bought, Sending, At
<1> QED BY <1>1, <1>2, QuietStep DEF Submit

LEMMA ElapseHolds ==
    ASSUME IInv, NEW f \in Forms, Elapse(f)
    PROVE  IInv'
<1>1. TypeOK'
  BY DEF IInv, TypeOK, Elapse
<1>2. ClosedSound'
  BY DEF IInv, Elapse, ClosedSound, Bought, Sending, At
<1> QED BY <1>1, <1>2, QuietStep DEF Elapse

LEMMA PurchaseHolds ==
    ASSUME IInv, NEW i \in Intents, Purchase(i)
    PROVE  IInv'
<1>1. TypeOK'
  <2>1. timer' \in [Forms -> {"absent", "not_scheduled", "scheduled", "due"} \cup Outcomes]
    BY DEF IInv, TypeOK, Purchase, Outcomes, Stops
  <2>2. intent' \in [Intents -> [life : {"waiting_for_purchase", "purchased"},
                                 class : {"none", "confirmed_abandonment",
                                          "payment_failure_supported"}]]
    BY DEF IInv, TypeOK, Purchase
  <2>3. closed' \subseteq Intents
    BY DEF IInv, TypeOK, Purchase
  <2> QED BY <2>1, <2>2, <2>3 DEF IInv, TypeOK, Purchase
<1>2. ClosedSound'
  <2>1. \A j \in Intents : Bought(j) => Bought(j)'
    BY DEF IInv, TypeOK, Purchase, Bought
  <2>2. Bought(i)' /\ \A j : Sending(j)' <=> Sending(j)
    BY DEF IInv, TypeOK, Purchase, Bought, Sending, At
  <2> QED BY <2>1, <2>2 DEF IInv, TypeOK, ClosedSound, Purchase
<1> QED BY <1>1, <1>2, QuietStep DEF Purchase

LEMMA OptOutHolds ==
    ASSUME IInv, OptOut
    PROVE  IInv'
<1>1. TypeOK'
  BY DEF IInv, TypeOK, OptOut
<1>2. ClosedSound'
  BY DEF IInv, OptOut, ClosedSound, Bought, Sending, At
<1> QED BY <1>1, <1>2, QuietStep DEF OptOut

LEMMA TakeoverHolds ==
    ASSUME IInv, Takeover
    PROVE  IInv'
<1>1. TypeOK'
  BY DEF IInv, TypeOK, Takeover
<1>2. ClosedSound'
  BY DEF IInv, Takeover, ClosedSound, Bought, Sending, At
<1> QED BY <1>1, <1>2, QuietStep DEF Takeover

\* A process that takes a source or gives it up disturbs nobody who is engaged.
LEMMA Aside ==
    ASSUME IInv, NEW p \in Procs, proc' \in [Procs -> Process],
           \A q \in Procs \ {p} : proc'[q] = proc[q],
           proc'[p].pc \in {"idle", "authorizing", "beginning"}
    PROVE  /\ \A q \in Procs : Engaged(q)' => q # p /\ Engaged(q)
           /\ \A q \in Procs : At(q, "salvaging")' => q # p /\ At(q, "salvaging")
           /\ \A i : Sending(i)' => Sending(i)
BY Zenon DEF Engaged, At, Sending

\* So does one that starts while the row stays as it is.
LEMMA AsideHolds ==
    ASSUME IInv, NEW p \in Procs, proc' \in [Procs -> Process],
           \A q \in Procs \ {p} : proc'[q] = proc[q],
           proc'[p].pc \in {"idle", "authorizing", "beginning"},
           UNCHANGED <<command, sent>>
    PROVE  SenderSound' /\ LedgerSound' /\ MessageSound'
<1>1. LedgerSound' /\ MessageSound'
  BY DEF IInv, LedgerSound, MessageSound
<1>2. \A q \in Procs : Engaged(q)' => Engaged(q) /\ proc'[q] = proc[q]
  BY Aside
<1>3. \A q \in Procs : At(q, "salvaging")' => At(q, "salvaging") /\ proc'[q] = proc[q]
  BY Aside
<1>4. SenderSound'
  BY <1>2, <1>3 DEF IInv, SenderSound, At
<1> QED BY <1>1, <1>4

\* A process that rests and changes nothing else.
LEMMA RestHolds ==
    ASSUME IInv, NEW p \in Procs, Rest(p), UNCHANGED <<records, sent, closed>>,
           faults' \in 0..MaxFaults
    PROVE  IInv'
<1>1. /\ proc' \in [Procs -> Process] /\ proc'[p].pc = "idle"
      /\ \A q \in Procs \ {p} : proc'[q] = proc[q]
  BY Resting DEF IInv
<1>2. TypeOK'
  BY <1>1 DEF IInv, TypeOK, records, Process, Steps, Replies
<1>3. ProcSound'
  BY <1>1 DEF IInv, ProcSound, At
<1>4. SenderSound' /\ LedgerSound' /\ MessageSound'
  BY <1>1, AsideHolds DEF records
<1>5. RecordedTruth' /\ ClosedSound'
  BY <1>1, Aside DEF IInv, RecordedTruth, ClosedSound, Bought, records
<1> QED BY <1>2, <1>3, <1>4, <1>5 DEF IInv

\* The command of a form that is given up, by who was not sending for it or no longer is.
LEMMA GiveUpHolds ==
    ASSUME IInv, NEW p \in Procs, command.source \in Forms,
           NEW r \in Reasons \ {"invalid_contact_id"}, Write("delivery_unknown", r),
           Rest(p), UNCHANGED <<intent, timer, cart, optedOut, takeover, sent, closed, faults>>
    PROVE  IInv'
<1>1. /\ proc' \in [Procs -> Process] /\ proc'[p].pc = "idle"
      /\ \A q \in Procs \ {p} : proc'[q] = proc[q]
  BY Resting DEF IInv
<1>2. /\ command' \in Row /\ case' \in [Failures -> Cases]
      /\ command'.source = command.source /\ command'.status = "delivery_unknown"
      /\ command'.failure = r
      /\ \A e \in Failures :
           case'[e] = IF e = command.source THEN CaseOf("delivery_unknown") ELSE case[e]
  BY Writing DEF IInv, Final
<1>3. TypeOK'
  BY <1>1, <1>2 DEF IInv, TypeOK, Row, Process, Cases, Steps, Replies
<1>4. ProcSound'
  BY <1>1 DEF IInv, ProcSound, At
<1>5. \A q \in Procs : (Engaged(q)' => Engaged(q) /\ proc'[q] = proc[q])
                     /\ (At(q, "salvaging")' => At(q, "salvaging") /\ proc'[q] = proc[q])
  BY <1>1, Aside
<1>6. SenderSound'
  BY <1>2, <1>5, Apart DEF IInv, SenderSound, At
<1>7. LedgerSound' /\ MessageSound'
  BY <1>2, Apart DEF IInv, LedgerSound, MessageSound, Sources
<1>8. RecordedTruth'
  BY <1>2, Apart DEF IInv, RecordedTruth
<1>9. ClosedSound'
  BY <1>1, Aside DEF IInv, ClosedSound, Bought
<1> QED BY <1>3, <1>4, <1>6, <1>7, <1>8, <1>9 DEF IInv

LEMMA ReevaluateHolds ==
    ASSUME IInv, NEW w \in Workers, NEW f \in Forms, Reevaluate(w, f)
    PROVE  IInv'
<1> DEFINE reserves == timer[f] = "due" /\ Decision(f) = "command_reserved" /\ command.source = None
<1>1. TypeOK /\ w \in Procs /\ f \in Sources
  BY DEF IInv, Procs, Sources
<1>2. /\ proc' \in [Procs -> Process]
      /\ \A q \in Procs \ {w} : proc'[q] = proc[q]
      /\ \/ proc'[w] = proc[w] /\ proc'[w].pc = "idle"
         \/ proc'[w].pc = "authorizing" /\ proc'[w].src = f /\ ~proc'[w].again
  <2>1. CASE Hold(w, "authorizing", f, FALSE)
    BY <1>1, <2>1, Holding DEF Steps
  <2>2. CASE UNCHANGED proc
    BY <1>1, <2>2, Typed DEF Reevaluate, At
  <2> QED BY <2>1, <2>2 DEF Reevaluate
<1>3. ProcSound'
  BY <1>2 DEF IInv, ProcSound, At
<1>4. /\ UNCHANGED <<intent, cart, case, optedOut, takeover, sent, closed, faults>>
      /\ reserves => Insert(f, "reserved")
      /\ ~reserves => UNCHANGED command
  BY DEF Reevaluate
<1>5. command' \in Row
  BY <1>1, <1>4, Inserting, Typed DEF Open
<1>6. TypeOK'
  <2>1. timer' \in [Forms -> {"absent", "not_scheduled", "scheduled", "due"} \cup Outcomes]
    BY <1>1, Deciding DEF TypeOK, Reevaluate
  <2> QED BY <1>1, <1>2, <1>4, <1>5, <2>1 DEF TypeOK, Row, Process, Steps, Replies
<1>7. ClosedSound'
  BY <1>1, <1>2, <1>4, Aside DEF IInv, ClosedSound, Bought
<1>8. SenderSound' /\ LedgerSound' /\ MessageSound' /\ RecordedTruth'
  <2>1. CASE reserves
    <3>1. command.status = "none" /\ \A s \in Sources : sent[s] = 0
      BY <2>1 DEF IInv, LedgerSound, RecordedTruth
    <3>2. \A q \in Procs : ~Engaged(q) /\ ~At(q, "salvaging")
      <4>1. \A q \in Procs : ~Engaged(q)
        BY <3>1 DEF IInv, SenderSound
      <4>2. \A q \in Procs : At(q, "salvaging") => proc[q].src \in Sources /\ proc[q].src = None
        BY <2>1 DEF IInv, SenderSound, ProcSound, Sources, At
      <4> QED BY <4>1, <4>2, Apart
    <3>3. command'.source = f /\ command'.status = "reserved" /\ command'.failure = "none"
      BY <1>1, <1>4, <2>1, Inserting DEF Open
    <3>4. SenderSound'
      BY <1>1, <1>2, <3>2, Aside DEF SenderSound
    <3>5. LedgerSound' /\ MessageSound'
      BY <1>1, <1>4, <3>1, <3>3, Apart DEF LedgerSound, MessageSound
    <3>6. RecordedTruth'
      BY <1>4, <2>1, <3>1, <3>3, Apart DEF IInv, RecordedTruth, Sources
    <3> QED BY <3>4, <3>5, <3>6
  <2>2. CASE ~reserves
    <3>1. SenderSound' /\ LedgerSound' /\ MessageSound'
      BY <1>1, <1>2, <1>4, <2>2, AsideHolds
    <3>2. RecordedTruth'
      BY <1>4, <2>2 DEF IInv, RecordedTruth
    <3> QED BY <3>1, <3>2
  <2> QED BY <2>1, <2>2
<1> QED BY <1>3, <1>6, <1>7, <1>8 DEF IInv

\* A request starts: nobody is engaged, no message is there, and nothing stops it.
LEMMA StartHolds ==
    ASSUME IInv, NEW p \in Procs, proc[p].src \in Sources, \A q \in Procs : ~Engaged(q),
           \A s \in Sources : sent[s] = 0,
           command.source \in {None, proc[p].src},
           ~Bought(For[proc[p].src]), ~optedOut,
           Go(p, "sending"),
           command'.source = proc[p].src, command'.status = "request_started",
           command'.failure = "none",
           \A e \in Failures :
             case'[e] = IF e = proc[p].src THEN CaseOf("request_started") ELSE case[e],
           UNCHANGED <<intent, optedOut, sent, closed>>
    PROVE  SenderSound' /\ LedgerSound' /\ MessageSound' /\ RecordedTruth' /\ ClosedSound'
<1>1. /\ proc'[p].pc = "sending" /\ proc'[p].src = proc[p].src
      /\ \A q \in Procs \ {p} : proc'[q] = proc[q]
  BY Going DEF IInv, Steps
<1>2. \A q \in Procs : Engaged(q)' => q = p
  BY <1>1 DEF Engaged
<1>3. \A q \in Procs : At(q, "salvaging")' => proc'[q].src = proc[p].src
  <2> SUFFICES ASSUME NEW q \in Procs, At(q, "salvaging")' PROVE proc'[q].src = proc[p].src
    OBVIOUS
  <2>1. q # p /\ proc'[q] = proc[q] /\ At(q, "salvaging")
    BY <1>1 DEF At
  <2>2. proc[q].src = command.source /\ proc[q].src \in Sources
    BY <2>1 DEF IInv, SenderSound, ProcSound, Sources, At
  <2> QED BY <2>1, <2>2, Apart
<1>4. SenderSound'
  BY <1>1, <1>2, <1>3 DEF SenderSound, At
<1>5. LedgerSound' /\ MessageSound'
  BY Apart DEF LedgerSound, MessageSound
<1>6. RecordedTruth'
  BY Apart DEF IInv, RecordedTruth, Sources
<1>7. ClosedSound'
  <2>1. \A j : Sending(j)' => j = For[proc[p].src]
    BY <1>1, <1>2 DEF Sending, Engaged, At
  <2> QED BY <2>1 DEF IInv, ClosedSound, Bought
<1> QED BY <1>4, <1>5, <1>6, <1>7

LEMMA BeginHolds ==
    ASSUME IInv, NEW d \in Desks, Begin(d)
    PROVE  IInv'
<1> DEFINE s == proc[d].src
           started == /\ command.source = None /\ Recoverable(s)
                      /\ s \in Failures => case[s] = "pending_human_review"
<1>1. /\ TypeOK /\ d \in Procs /\ s \in Carts \cup Failures /\ s \in Sources
      /\ At(d, "beginning") /\ d \notin Workers
  BY Apart DEF IInv, Procs, Sources, ProcSound, Begin, At
<1>2. /\ UNCHANGED <<intent, timer, cart, optedOut, takeover, sent, closed, faults>>
      /\ started => /\ Insert(s, "request_started")
                    /\ case' = CaseAfter(s, "request_started") /\ Go(d, "sending")
      /\ ~started => Rest(d) /\ UNCHANGED <<command, case>>
  BY DEF Begin
<1>3. CASE started
  <2>1. /\ command' \in Row /\ command'.source = s /\ command'.status = "request_started"
        /\ command'.failure = "none"
    BY <1>1, <1>2, <1>3, Inserting DEF Open
  <2>2. /\ case' \in [Failures -> Cases]
        /\ \A e \in Failures : case'[e] = IF e = s THEN CaseOf("request_started") ELSE case[e]
    BY <1>1, <1>2, <1>3, CaseFollows
  <2>3. /\ proc' \in [Procs -> Process] /\ proc'[d].pc = "sending" /\ proc'[d].src = s
        /\ proc'[d].again = proc[d].again
        /\ \A q \in Procs \ {d} : proc'[q] = proc[q]
    BY <1>1, <1>2, <1>3, Going DEF Steps
  <2>4. TypeOK'
    BY <1>1, <1>2, <2>1, <2>2, <2>3 DEF TypeOK, Row, Process, Cases, Steps, Replies
  <2>5. ProcSound'
    BY <1>1, <2>3 DEF IInv, ProcSound, At
  <2>6. command.status = "none" /\ (\A t \in Sources : sent[t] = 0) /\ \A q \in Procs : ~Engaged(q)
    BY <1>3 DEF IInv, LedgerSound, RecordedTruth, SenderSound
  <2>7. ~Bought(For[s]) /\ ~optedOut
    BY <1>3 DEF Recoverable
  <2>8. SenderSound' /\ LedgerSound' /\ MessageSound' /\ RecordedTruth' /\ ClosedSound'
    BY <1>1, <1>2, <1>3, <2>1, <2>2, <2>6, <2>7, StartHolds
  <2> QED BY <2>4, <2>5, <2>8 DEF IInv
<1>4. CASE ~started
  BY <1>1, <1>2, <1>4, RestHolds DEF records, IInv, TypeOK
<1> QED BY <1>3, <1>4

LEMMA AuthorizeHolds ==
    ASSUME IInv, NEW w \in Workers, Authorize(w)
    PROVE  IInv'
<1> DEFINE f == proc[w].src
           mine == timer[f] = "command_reserved" /\ command.source = f
           granted == command.status = "reserved" /\ Recheck(For[f]) = "none"
<1>1. /\ TypeOK /\ w \in Procs /\ f \in Forms /\ f \in Sources /\ At(w, "authorizing")
  BY DEF IInv, Procs, Sources, ProcSound, Authorize, At
<1>2. UNCHANGED <<intent, timer, cart, optedOut, takeover, sent, closed, faults>>
  BY DEF Authorize
<1>3. CASE mine /\ command.status = "request_started"
  <2>1. Write("delivery_unknown", "precheckout_inflight_recovered") /\ Rest(w)
    BY <1>3 DEF Authorize
  <2> QED BY <1>1, <1>2, <1>3, <2>1, GiveUpHolds DEF Reasons
<1>4. CASE mine /\ granted
  <2>1. Write("request_started", "none") /\ Go(w, "sending")
    BY <1>4 DEF Authorize
  <2>2. /\ command' \in Row /\ case' \in [Failures -> Cases]
        /\ command'.source = f /\ command'.status = "request_started"
        /\ command'.failure = "none"
        /\ \A e \in Failures :
             case'[e] = IF e = f THEN CaseOf("request_started") ELSE case[e]
    BY <1>1, <1>4, <2>1, Writing DEF Reasons
  <2>3. /\ proc' \in [Procs -> Process] /\ proc'[w].pc = "sending" /\ proc'[w].src = f
        /\ proc'[w].again = proc[w].again
        /\ \A q \in Procs \ {w} : proc'[q] = proc[q]
    BY <1>1, <2>1, Going DEF Steps
  <2>4. TypeOK'
    BY <1>1, <1>2, <2>2, <2>3 DEF TypeOK, Row, Process, Cases, Steps, Replies
  <2>5. ProcSound'
    BY <1>1, <2>3 DEF IInv, ProcSound, At
  <2>6. (\A t \in Sources : sent[t] = 0) /\ \A q \in Procs : ~Engaged(q)
    BY <1>4 DEF IInv, RecordedTruth, SenderSound
  <2>7. ~Bought(For[f]) /\ ~optedOut
    BY <1>4 DEF Recheck, Stop
  <2>8. SenderSound' /\ LedgerSound' /\ MessageSound' /\ RecordedTruth' /\ ClosedSound'
    BY <1>1, <1>2, <1>4, <2>1, <2>2, <2>6, <2>7, StartHolds
  <2> QED BY <2>4, <2>5, <2>8 DEF IInv
<1>5. CASE mine /\ command.status = "reserved" /\ ~granted
  <2>1. Write("delivery_unknown", Recheck(For[f])) /\ Rest(w)
    BY <1>5 DEF Authorize
  <2>2. Recheck(For[f]) \in Reasons \ {"invalid_contact_id"}
    BY DEF Recheck, Stop, Reasons, Stops
  <2> QED BY <1>1, <1>2, <1>5, <2>1, <2>2, GiveUpHolds
<1>6. CASE ~(mine /\ command.status \in Open)
  <2>1. Rest(w) /\ UNCHANGED <<command, case>>
    BY <1>6 DEF Authorize, Open
  <2> QED BY <1>1, <1>2, <2>1, RestHolds DEF records, TypeOK
<1> QED BY <1>3, <1>4, <1>5, <1>6 DEF Open

LEMMA PrepareRetryHolds ==
    ASSUME IInv, NEW d \in Desks, PrepareRetry(d)
    PROVE  IInv'
<1> DEFINE e == proc[d].src
           started == Retryable(e) /\ Recoverable(e)
<1>1. /\ TypeOK /\ d \in Procs /\ e \in Failures /\ e \in Sources
      /\ At(d, "beginning") /\ d \notin Workers
  BY Apart DEF IInv, Procs, Sources, ProcSound, PrepareRetry, At
<1>2. /\ UNCHANGED <<intent, timer, cart, optedOut, takeover, sent, closed, faults>>
      /\ started => /\ command' = [command EXCEPT !.status = "request_started",
                                        !.failure = "none", !.retries = 1]
                    /\ case' = CaseAfter(e, "request_started") /\ Go(d, "sending")
      /\ ~started => Rest(d) /\ UNCHANGED <<command, case>>
  BY DEF PrepareRetry
<1>3. CASE started
  <2>1. /\ command.source = e /\ command.status = "delivery_unknown"
        /\ command.failure = "invalid_contact_id"
    BY <1>3 DEF Retryable
  <2>2. /\ command' \in Row /\ command'.source = e /\ command'.status = "request_started"
        /\ command'.failure = "none"
    <3>1. /\ command \in Row
          /\ command' = [command EXCEPT !.status = "request_started",
                                        !.failure = "none", !.retries = 1]
      BY <1>1, <1>2, <1>3, Typed
    <3>2. "none" \in Reasons /\ "request_started" \in Open /\ 1 \in 0..1
      BY DEF Reasons, Open
    <3> QED BY <2>1, <3>1, <3>2 DEF Row
  <2>3. /\ case' \in [Failures -> Cases]
        /\ \A g \in Failures : case'[g] = IF g = e THEN CaseOf("request_started") ELSE case[g]
    BY <1>1, <1>2, <1>3, CaseFollows
  <2>4. /\ proc' \in [Procs -> Process] /\ proc'[d].pc = "sending" /\ proc'[d].src = e
        /\ proc'[d].again = proc[d].again
        /\ \A q \in Procs \ {d} : proc'[q] = proc[q]
    BY <1>1, <1>2, <1>3, Going DEF Steps
  <2>5. TypeOK'
    BY <1>1, <1>2, <2>2, <2>3, <2>4 DEF TypeOK, Row, Process, Cases, Steps, Replies
  <2>6. ProcSound'
    BY <1>1, <2>4 DEF IInv, ProcSound, At
  <2>7. \A q \in Procs : ~Engaged(q)
    BY <1>1, <2>1 DEF IInv, SenderSound
  <2>8. \A t \in Sources : sent[t] = 0
    BY <1>1, <2>1, Typed DEF IInv, LedgerSound, MessageSound
  <2>9. ~Bought(For[e]) /\ ~optedOut
    BY <1>3 DEF Recoverable
  <2>10. SenderSound' /\ LedgerSound' /\ MessageSound' /\ RecordedTruth' /\ ClosedSound'
    BY <1>1, <1>2, <1>3, <2>1, <2>2, <2>3, <2>7, <2>8, <2>9, StartHolds
  <2> QED BY <2>5, <2>6, <2>10 DEF IInv
<1>4. CASE ~started
  BY <1>1, <1>2, <1>4, RestHolds DEF records, TypeOK
<1> QED BY <1>3, <1>4

LEMMA AdmitCartHolds ==
    ASSUME IInv, NEW d \in Desks, NEW c \in Carts, AdmitCart(d, c)
    PROVE  IInv'
<1>1. TypeOK /\ d \in Procs /\ c \in Sources /\ d \notin Workers /\ At(d, "idle")
  BY Apart DEF IInv, Procs, Sources, AdmitCart
<1>2. /\ UNCHANGED <<timer, case, command, optedOut, takeover, sent, closed, faults>>
      /\ Hold(d, "beginning", c, FALSE) \/ UNCHANGED proc
  BY DEF AdmitCart
<1>3. /\ proc' \in [Procs -> Process]
      /\ \A q \in Procs \ {d} : proc'[q] = proc[q]
      /\ \/ proc'[d] = proc[d] /\ proc'[d].pc = "idle"
         \/ proc'[d].pc = "beginning" /\ proc'[d].src = c /\ ~proc'[d].again
  <2>1. CASE Hold(d, "beginning", c, FALSE)
    BY <1>1, <2>1, Holding DEF Steps
  <2>2. CASE UNCHANGED proc
    BY <1>1, <2>2, Typed DEF At
  <2> QED BY <1>2, <2>1, <2>2
<1>4. /\ intent' \in [Intents -> [life : {"waiting_for_purchase", "purchased"},
                                  class : {"none", "confirmed_abandonment",
                                           "payment_failure_supported"}]]
      /\ \A j \in Intents : intent'[j].life = intent[j].life
  BY <1>1, Admitting DEF AdmitCart, TypeOK
<1>5. TypeOK'
  <2>1. cart' \in [Carts -> {"none", "resolved", "unmatched"}]
    BY <1>1 DEF AdmitCart, TypeOK
  <2> QED BY <1>1, <1>2, <1>3, <1>4, <2>1 DEF TypeOK, Process, Steps, Replies
<1>6. ProcSound'
  BY <1>1, <1>3 DEF IInv, ProcSound, At
<1>7. SenderSound' /\ LedgerSound' /\ MessageSound'
  BY <1>1, <1>2, <1>3, AsideHolds
<1>8. RecordedTruth'
  BY <1>2 DEF IInv, RecordedTruth
<1>9. ClosedSound'
  BY <1>1, <1>2, <1>3, <1>4, Aside DEF IInv, TypeOK, ClosedSound, Bought
<1> QED BY <1>5, <1>6, <1>7, <1>8, <1>9 DEF IInv

LEMMA AdmitFailureHolds ==
    ASSUME IInv, NEW d \in Desks, NEW e \in Failures, AdmitFailure(d, e)
    PROVE  IInv'
<1>1. TypeOK /\ d \in Procs /\ e \in Sources /\ d \notin Workers /\ At(d, "idle")
  BY Apart DEF IInv, Procs, Sources, AdmitFailure
<1>2. /\ UNCHANGED <<timer, cart, command, optedOut, takeover, sent, closed, faults>>
      /\ Hold(d, "beginning", e, case[e] = "delivery_unknown") \/ UNCHANGED proc
  BY DEF AdmitFailure
<1>3. /\ proc' \in [Procs -> Process]
      /\ \A q \in Procs \ {d} : proc'[q] = proc[q]
      /\ \/ proc'[d] = proc[d] /\ proc'[d].pc = "idle"
         \/ proc'[d].pc = "beginning" /\ proc'[d].src = e
  <2>1. CASE Hold(d, "beginning", e, case[e] = "delivery_unknown")
    BY <1>1, <2>1, Holding DEF Steps
  <2>2. CASE UNCHANGED proc
    BY <1>1, <2>2, Typed DEF At
  <2> QED BY <1>2, <2>1, <2>2
<1>4. /\ intent' \in [Intents -> [life : {"waiting_for_purchase", "purchased"},
                                  class : {"none", "confirmed_abandonment",
                                           "payment_failure_supported"}]]
      /\ \A j \in Intents : intent'[j].life = intent[j].life
  BY <1>1, Admitting DEF AdmitFailure, TypeOK
<1>5. /\ case' \in [Failures -> Cases]
      /\ \A g \in Failures \ {e} : case'[g] = case[g]
      /\ case'[e] = case[e] \/ (case[e] = "none" /\ case'[e] \in {"unmatched", "pending_human_review"})
  BY <1>1, Typed DEF AdmitFailure, Cases
<1>6. TypeOK'
  BY <1>1, <1>2, <1>3, <1>4, <1>5 DEF TypeOK, Process, Cases, Steps, Replies
<1>7. ProcSound'
  BY <1>1, <1>3 DEF IInv, ProcSound, At
<1>8. SenderSound' /\ LedgerSound' /\ MessageSound'
  BY <1>1, <1>2, <1>3, AsideHolds
<1>9. RecordedTruth'
  BY <1>2, <1>5 DEF IInv, RecordedTruth, CaseOf
<1>10. ClosedSound'
  BY <1>1, <1>2, <1>3, <1>4, Aside DEF IInv, TypeOK, ClosedSound, Bought
<1> QED BY <1>6, <1>7, <1>8, <1>9, <1>10 DEF IInv

LEMMA PostHolds ==
    ASSUME IInv, NEW p \in Procs, Post(p)
    PROVE  IInv'
<1> DEFINE s == proc[p].src
<1>1. /\ TypeOK /\ At(p, "sending") /\ Engaged(p) /\ s \in Sources
      /\ s = command.source /\ command.status \notin {"none", "reserved"} /\ sent[s] = 0
      /\ UNCHANGED <<records, closed, faults>>
  BY DEF IInv, Post, Engaged, At, ProcSound, SenderSound, Sources
<1>2. PICK reply \in {"sent", "failed", "invalid_contact_id"}, made \in 0..1 :
        /\ reply = "sent" => made = 1
        /\ reply = "invalid_contact_id" => made = 0
        /\ proc' = [proc EXCEPT ![p].pc = "finishing", ![p].reply = reply]
        /\ sent' = [sent EXCEPT ![s] = @ + made]
  BY DEF Post
<1>3. /\ proc' \in [Procs -> Process] /\ proc'[p].pc = "finishing" /\ proc'[p].src = s
      /\ proc'[p].again = proc[p].again /\ proc'[p].reply = reply
      /\ \A q \in Procs \ {p} : proc'[q] = proc[q]
  BY <1>1, <1>2, Replying DEF Replies
<1>4. /\ sent' \in [Sources -> Nat] /\ sent'[s] = made
      /\ \A t \in Sources \ {s} : sent'[t] = sent[t]
  <2>1. /\ sent' \in [Sources -> Nat] /\ sent'[s] = sent[s] + made
        /\ \A t \in Sources \ {s} : sent'[t] = sent[t]
    BY <1>1, <1>2, Creating
  <2>2. 0 + made = made
    BY <1>2
  <2> QED BY <1>1, <2>1, <2>2
<1>5. TypeOK'
  BY <1>1, <1>3, <1>4 DEF TypeOK, records, Process, Steps, Replies
<1>6. ProcSound'
  BY <1>1, <1>3 DEF IInv, ProcSound, At
<1>7. \A q \in Procs : Engaged(q)' => q = p
  BY <1>1, <1>3 DEF IInv, SenderSound, Engaged
<1>8. \A q \in Procs : At(q, "salvaging")' => At(q, "salvaging") /\ proc'[q] = proc[q]
  BY <1>3 DEF At
<1>9. SenderSound'
  BY <1>1, <1>2, <1>3, <1>4, <1>7, <1>8 DEF IInv, SenderSound, At, records
<1>10. LedgerSound'
  BY <1>1, <1>4 DEF IInv, LedgerSound, SenderSound, records
<1>11. MessageSound'
  <2>1. /\ made <= 1 /\ UNCHANGED command
        /\ \A t \in Sources : sent[t] <= 1
                           /\ (sent[t] > 0 => t = command.source /\ command.status \notin {"none", "reserved"})
    BY <1>1 DEF IInv, MessageSound, records
  <2>2. \A t \in Sources : sent'[t] = IF t = s THEN made ELSE sent[t]
    BY <1>4
  <2> QED BY <1>1, <2>1, <2>2 DEF MessageSound
<1>12. RecordedTruth'
  <2>1. command.status # "accepted_by_chatwoot"
    BY <1>1 DEF IInv, RecordedTruth
  <2> QED BY <1>1, <2>1 DEF IInv, RecordedTruth, records
<1>13. ClosedSound'
  BY <1>1, <1>3 DEF IInv, ClosedSound, Bought, Sending, At, records
<1> QED BY <1>5, <1>6, <1>9, <1>10, <1>11, <1>12, <1>13 DEF IInv

\* An outcome that is recorded, or refused because the row moved on.
LEMMA RecordHolds ==
    ASSUME IInv, NEW p \in Procs, At(p, "finishing"), Finish(Outcome(p), FailureCode(p)),
           Rest(p) \/ AfterLoss(p),
           UNCHANGED <<intent, timer, cart, optedOut, takeover, sent, closed>>,
           faults' \in 0..MaxFaults
    PROVE  IInv'
<1> DEFINE s == proc[p].src
<1>1. /\ TypeOK /\ Engaged(p) /\ s \in Sources /\ s = command.source
      /\ p \in Workers => s \in Forms
      /\ command.status \notin {"none", "reserved"}
      /\ proc[p].reply = "sent" => sent[s] = 1
      /\ proc[p].reply = "invalid_contact_id" /\ s \in Failures => sent[s] = 0
  BY DEF IInv, Engaged, At, ProcSound, SenderSound, Sources
<1>2. /\ proc' \in [Procs -> Process]
      /\ \A q \in Procs \ {p} : proc'[q] = proc[q]
      /\ \/ proc'[p].pc = "idle"
         \/ /\ p \in Workers /\ proc'[p].pc = "salvaging"
            /\ proc'[p].src = s /\ proc'[p].again = proc[p].again
  <2>1. CASE Rest(p)
    BY <1>1, <2>1, Resting
  <2>2. CASE AfterLoss(p)
    BY <1>1, <2>2, Losing
  <2> QED BY <2>1, <2>2
<1>3. /\ command' \in Row /\ case' \in [Failures -> Cases] /\ command'.source = s
      /\ command.status = "request_started" =>
           /\ command'.status = Outcome(p) /\ command'.failure = FailureCode(p)
           /\ \A e \in Failures : case'[e] = IF e = s THEN CaseOf(Outcome(p)) ELSE case[e]
      /\ command.status # "request_started" => UNCHANGED <<command, case>>
  BY <1>1, Finishing, Answered
<1>4. TypeOK'
  BY <1>1, <1>2, <1>3 DEF TypeOK, Row, Process, Cases, Steps, Replies
<1>5. ProcSound'
  BY <1>1, <1>2 DEF IInv, ProcSound, At
<1>6. \A q \in Procs : ~Engaged(q)'
  BY <1>1, <1>2 DEF IInv, SenderSound, Engaged
<1>7. SenderSound'
  <2>1. \A q \in Procs : At(q, "salvaging")' => proc'[q].src = s
    BY <1>1, <1>2 DEF IInv, SenderSound, At
  <2> QED BY <1>3, <1>6, <2>1 DEF SenderSound
<1>8. ClosedSound'
  BY <1>2 DEF IInv, ClosedSound, Bought, Sending, At
<1>9. LedgerSound' /\ MessageSound' /\ RecordedTruth'
  <2>1. CASE command.status = "request_started"
    <3>1. command'.status \in Final /\ command'.status = Outcome(p)
      BY <1>3, <2>1, Answered
    <3>2. LedgerSound'
      <4>1. command'.failure = "invalid_contact_id" => proc[p].reply = "invalid_contact_id" /\ s \in Failures
        BY <1>3, <2>1 DEF FailureCode
      <4>2. command'.failure = "invalid_contact_id" => command'.status = "delivery_unknown"
        BY <3>1, <4>1 DEF Outcome
      <4> QED BY <1>1, <1>3, <3>1, <4>1, <4>2, Apart DEF LedgerSound, Final
    <3>3. MessageSound'
      BY <1>1, <1>3, <3>1 DEF IInv, MessageSound, Final
    <3>4. RecordedTruth'
      <4>1. command'.status = "accepted_by_chatwoot" => sent[s] = 1
        BY <1>1, <3>1 DEF Outcome
      <4> QED BY <1>1, <1>3, <2>1, <3>1, <4>1 DEF IInv, RecordedTruth, Final
    <3> QED BY <3>2, <3>3, <3>4
  <2>2. CASE command.status # "request_started"
    BY <1>3, <2>2 DEF IInv, LedgerSound, MessageSound, RecordedTruth
  <2> QED BY <2>1, <2>2
<1> QED BY <1>4, <1>5, <1>7, <1>8, <1>9 DEF IInv

LEMMA RecordOutcomeHolds ==
    ASSUME IInv, NEW p \in Procs, RecordOutcome(p)
    PROVE  IInv'
BY RecordHolds DEF RecordOutcome, IInv, TypeOK

LEMMA Counting ==
    ASSUME TypeOK, faults < MaxFaults, faults' = faults + 1
    PROVE  faults' \in 0..MaxFaults
BY FirstTouchAssumption DEF TypeOK

LEMMA RecordLostHolds ==
    ASSUME IInv, NEW p \in Procs, RecordLost(p)
    PROVE  IInv'
<1>1. /\ TypeOK /\ At(p, "finishing") /\ AfterLoss(p)
      /\ UNCHANGED <<intent, timer, cart, optedOut, takeover, sent, closed>>
      /\ faults' \in 0..MaxFaults
  BY Counting DEF IInv, RecordLost
<1>2. CASE Finish(Outcome(p), FailureCode(p))
  BY <1>1, <1>2, RecordHolds
<1>3. CASE UNCHANGED <<command, case>>
  <2>1. CASE Rest(p)
    BY <1>1, <1>3, <2>1, RestHolds DEF records
  <2>2. CASE p \in Workers /\ Go(p, "salvaging")
    <3>1. /\ proc' \in [Procs -> Process] /\ proc'[p].pc = "salvaging"
          /\ proc'[p].src = proc[p].src /\ proc'[p].again = proc[p].again
          /\ \A q \in Procs \ {p} : proc'[q] = proc[q]
      BY <1>1, <2>2, Going DEF Steps
    <3>2. TypeOK'
      BY <1>1, <1>3, <3>1 DEF TypeOK, Process, Steps, Replies
    <3>3. ProcSound'
      BY <1>1, <2>2, <3>1 DEF IInv, ProcSound, At
    <3>4. /\ \A q \in Procs : Engaged(q)' => Engaged(q) /\ proc'[q] = proc[q]
          /\ proc[p].src = command.source
      BY <1>1, <3>1 DEF IInv, SenderSound, Engaged, At
    <3>5. \A q \in Procs : At(q, "salvaging")' => proc'[q].src = command.source
      BY <3>1, <3>4 DEF IInv, SenderSound, At
    <3>6. SenderSound'
      BY <1>1, <1>3, <3>4, <3>5 DEF IInv, SenderSound, At
    <3>7. LedgerSound' /\ MessageSound' /\ RecordedTruth'
      BY <1>1, <1>3 DEF IInv, LedgerSound, MessageSound, RecordedTruth
    <3>8. ClosedSound'
      BY <1>1, <3>1 DEF IInv, ClosedSound, Bought, Sending, At
    <3> QED BY <3>2, <3>3, <3>6, <3>7, <3>8 DEF IInv
  <2> QED BY <1>1, <2>1, <2>2 DEF AfterLoss
<1> QED BY <1>2, <1>3 DEF RecordLost

LEMMA SalvageHolds ==
    ASSUME IInv, NEW w \in Workers, Salvage(w)
    PROVE  IInv'
<1>1. /\ TypeOK /\ w \in Procs /\ command.source \in Forms /\ Rest(w)
      /\ Finish("delivery_unknown", "acceptance_finalization_failed")
      /\ UNCHANGED <<intent, timer, cart, optedOut, takeover, sent, closed, faults>>
  BY DEF IInv, Procs, Salvage, ProcSound, SenderSound, At
<1>2. CASE command.status = "request_started"
  <2>1. Write("delivery_unknown", "acceptance_finalization_failed")
    BY <1>1, <1>2 DEF Finish
  <2> QED BY <1>1, <2>1, GiveUpHolds DEF Reasons
<1>3. CASE command.status # "request_started"
  BY <1>1, <1>3, RestHolds DEF Finish, records, TypeOK
<1> QED BY <1>2, <1>3

LEMMA DieHolds ==
    ASSUME IInv, NEW p \in Procs, Die(p)
    PROVE  IInv'
<1> DEFINE s == proc[p].src
<1>1. TypeOK /\ ~At(p, "idle") /\ Rest(p) /\ UNCHANGED <<records, closed>> /\ faults' \in 0..MaxFaults
  BY Counting DEF IInv, Die
<1>2. CASE UNCHANGED sent
  BY <1>1, <1>2, RestHolds
<1>3. CASE At(p, "sending") /\ sent' = [sent EXCEPT ![s] = @ + 1]
  <2>1. /\ Engaged(p) /\ s \in Sources /\ s = command.source
        /\ command.status \notin {"none", "reserved"} /\ sent[s] = 0
        /\ s \in Failures => command.status = "request_started"
    BY <1>3 DEF IInv, Engaged, At, ProcSound, SenderSound, Sources
  <2>2. /\ proc' \in [Procs -> Process] /\ proc'[p].pc = "idle"
        /\ \A q \in Procs \ {p} : proc'[q] = proc[q]
    BY <1>1, Resting
  <2>3. sent' \in [Sources -> Nat] /\ \A t \in Sources : sent'[t] = IF t = s THEN 1 ELSE sent[t]
    <3>1. /\ sent' \in [Sources -> Nat] /\ sent'[s] = sent[s] + 1
          /\ \A t \in Sources \ {s} : sent'[t] = sent[t]
      BY <1>1, <1>3, <2>1, Typed
    <3>2. 0 + 1 = 1
      OBVIOUS
    <3> QED BY <2>1, <3>1, <3>2
  <2>4. TypeOK'
    BY <1>1, <2>2, <2>3 DEF TypeOK, records, Process, Steps, Replies
  <2>5. ProcSound'
    BY <2>2 DEF IInv, ProcSound, At
  <2>6. SenderSound'
    <3>1. \A q \in Procs : ~Engaged(q)'
      BY <2>1, <2>2 DEF IInv, SenderSound, Engaged
    <3>2. \A q \in Procs : At(q, "salvaging")' => At(q, "salvaging") /\ proc'[q] = proc[q]
      BY <2>2 DEF At
    <3> QED BY <1>1, <3>1, <3>2 DEF IInv, SenderSound, records
  <2>7. LedgerSound' /\ MessageSound'
    BY <1>1, <2>1, <2>3 DEF IInv, LedgerSound, MessageSound, records
  <2>8. RecordedTruth'
    <3>1. command.status # "accepted_by_chatwoot"
      BY <2>1 DEF IInv, RecordedTruth
    <3> QED BY <1>1, <2>1, <3>1 DEF IInv, RecordedTruth, records
  <2>9. ClosedSound'
    BY <1>1, <2>2, Aside DEF IInv, ClosedSound, Bought, records
  <2> QED BY <2>4, <2>5, <2>6, <2>7, <2>8, <2>9 DEF IInv
<1>4. UNCHANGED sent \/ (At(p, "sending") /\ sent' = [sent EXCEPT ![s] = @ + 1])
  <2>1. CASE At(p, "sending")
    <3>1. PICK made \in 0..1 : sent' = IF made = 0 THEN sent ELSE [sent EXCEPT ![s] = @ + 1]
      BY <2>1 DEF Die
    <3> QED BY <2>1, <3>1
  <2>2. CASE ~At(p, "sending")
    <3>1. PICK made \in 0..0 : sent' = IF made = 0 THEN sent ELSE [sent EXCEPT ![s] = @ + 1]
      BY <2>2 DEF Die
    <3> QED BY <3>1
  <2> QED BY <2>1, <2>2
<1> QED BY <1>2, <1>3, <1>4

LEMMA ReconcileHolds ==
    ASSUME IInv, Reconcile
    PROVE  IInv'
<1>1. /\ TypeOK /\ command.status = "delivery_unknown" /\ sent[command.source] > 0
      /\ Write("accepted_by_chatwoot", "none")
      /\ UNCHANGED <<intent, timer, cart, optedOut, takeover, proc, sent, closed, faults>>
  BY DEF IInv, Reconcile
<1>2. /\ command' \in Row /\ case' \in [Failures -> Cases]
      /\ command'.source = command.source /\ command'.status = "accepted_by_chatwoot"
      /\ command'.failure = "none"
      /\ \A e \in Failures :
           case'[e] = IF e = command.source THEN CaseOf("accepted_by_chatwoot") ELSE case[e]
  BY <1>1, Writing DEF Final, Reasons
<1>3. TypeOK'
  BY <1>1, <1>2 DEF TypeOK, Row, Cases
<1>4. command.source \in Sources /\ sent[command.source] = 1
  BY <1>1, Typed DEF IInv, LedgerSound, MessageSound, Row
<1>5. ProcSound' /\ LedgerSound' /\ MessageSound'
  BY <1>1, <1>2 DEF IInv, ProcSound, LedgerSound, MessageSound, At
<1>6. SenderSound'
  BY <1>1, <1>2 DEF IInv, SenderSound, Engaged, At
<1>7. RecordedTruth'
  BY <1>1, <1>2, <1>4 DEF IInv, RecordedTruth
<1>8. ClosedSound'
  BY <1>1 DEF IInv, ClosedSound, Bought, Sending, At
<1> QED BY <1>3, <1>5, <1>6, <1>7, <1>8 DEF IInv

LEMMA StepHolds ==
    ASSUME IInv, [Next]_vars
    PROVE  IInv'
<1>1. CASE \E w \in Workers : WorkerStep(w)
  BY <1>1, ReevaluateHolds, AuthorizeHolds, PostHolds, RecordOutcomeHolds, SalvageHolds
     DEF WorkerStep, Procs
<1>2. CASE \E d \in Desks : DeskStep(d)
  BY <1>2, AdmitCartHolds, AdmitFailureHolds, BeginHolds, PrepareRetryHolds, PostHolds,
     RecordOutcomeHolds DEF DeskStep, Procs
<1>3. CASE \E p \in Procs : RecordLost(p) \/ Die(p)
  BY <1>3, RecordLostHolds, DieHolds
<1>4. CASE World
  BY <1>4, SubmitHolds, ElapseHolds, PurchaseHolds, OptOutHolds, TakeoverHolds, ReconcileHolds
     DEF World
<1>5. CASE UNCHANGED vars
  <2>1. TypeOK' /\ ClosedSound'
    BY <1>5 DEF IInv, TypeOK, ClosedSound, Bought, Sending, At, vars, records
  <2> QED BY <1>5, <2>1, QuietStep DEF vars, records
<1> QED BY <1>1, <1>2, <1>3, <1>4, <1>5 DEF Next

-----------------------------------------------------------------------------
(* Theorems *)

\* Every reachable state has the inductive invariant: one process at a time between
\* the start of a request and the record of its outcome, for the source of the row.
THEOREM InvariantHolds == Spec => []IInv
<1>1. Init => IInv
  BY InitHolds
<1>2. IInv /\ [Next]_vars => IInv'
  BY StepHolds
<1> QED BY <1>1, <1>2, PTL DEF Spec

\* Every variable keeps its type.
THEOREM TypeCorrect == Spec => []TypeOK
<1>1. IInv => TypeOK
  BY DEF IInv
<1> QED BY <1>1, InvariantHolds, PTL

\* A phone gets at most one first template over the three routes (the unique
\* target_phone, the start in one transaction, the retry of one proven failure).
THEOREM OneTemplate == Spec => []OneFirstTouch
<1>1. IInv => OneFirstTouch
  <2> SUFFICES ASSUME IInv PROVE OneFirstTouch
    OBVIOUS
  <2>1. \A s \in Sources : sent[s] \in Nat
    BY Typed DEF IInv
  <2> QED BY <2>1 DEF IInv, MessageSound, OneFirstTouch
<1> QED BY <1>1, InvariantHolds, PTL

\* The ledger and the cases of the rejected payments say what happened.
THEOREM LedgerTruth == Spec => []RecordedTruth
<1>1. IInv => RecordedTruth
  BY DEF IInv
<1> QED BY <1>1, InvariantHolds, PTL

\* A message is created only by who is sending for its source.
LEMMA OnlySenders ==
    ASSUME IInv, [Next]_vars, NEW s \in Sources, sent'[s] # sent[s]
    PROVE  Sending(For[s])
<1>1. CASE \E p \in Procs : Post(p) \/ Die(p)
  <2>1. PICK p \in Procs : Post(p) \/ Die(p)
    BY <1>1
  <2>2. At(p, "sending") /\ s = proc[p].src
    <3>1. CASE Post(p)
      <4>1. PICK made \in 0..1 : sent' = [sent EXCEPT ![proc[p].src] = @ + made]
        BY <3>1 DEF Post
      <4> QED BY <3>1, <4>1, Typed DEF Post, IInv
    <3>2. CASE Die(p)
      BY <2>1, <3>2, Typed DEF Die, IInv
    <3> QED BY <2>1, <3>1, <3>2
  <2> QED BY <2>2 DEF Sending
<1>2. CASE ~\E p \in Procs : Post(p) \/ Die(p)
  <2>1. UNCHANGED sent
    BY <1>2 DEF Next, WorkerStep, DeskStep, World, Procs, Submit, Elapse, Purchase, OptOut,
       Takeover, Reevaluate, Authorize, AdmitCart, AdmitFailure, Begin, PrepareRetry,
       RecordOutcome, RecordLost, Salvage, Reconcile, vars
  <2> QED BY <2>1
<1> QED BY <1>1, <1>2

\* After a purchase or an opt-out that found nobody sending, nothing is sent
\* (the check in the transaction that starts the request, on every route).
THEOREM QuietAfterClosing == Spec => ClosedStaysQuiet
<1>1. IInv /\ [Next]_vars => [\A s \in Sources : For[s] \in closed => sent'[s] = sent[s]]_vars
  BY OnlySenders DEF IInv, ClosedSound
<1> QED BY <1>1, InvariantHolds, PTL DEF Spec, ClosedStaysQuiet

-----------------------------------------------------------------------------
(* The routes implement PublishOnce *)

\* The row says the same of every source, and no message is created.
LEMMA SaysTheSame ==
    ASSUME command'.source = command.source, UNCHANGED sent,
           command'.status = "accepted_by_chatwoot" <=> command.status = "accepted_by_chatwoot"
    PROVE  UNCHANGED Ledger!vars
<1>1. Owed' = Owed
  BY DEF Owed
<1> QED BY <1>1 DEF Ledger!vars

\* The phone gets its row.
LEMMA RowAsks ==
    ASSUME command.source = None, NEW s \in Sources, NEW status \in Open, Insert(s, status),
           UNCHANGED sent
    PROVE  Ledger!Ask(s)
<1>1. None # s /\ None \notin Sources
  BY Apart
<1>2. command'.source = s /\ command'.status # "accepted_by_chatwoot"
  BY Inserting DEF Open
<1>3. Owed[s] = "unasked" /\ Owed' = [Owed EXCEPT ![s] = "owed"]
  BY <1>1, <1>2 DEF Owed
<1> QED BY <1>3 DEF Ledger!Ask

\* A message is created for the source that has the row.
LEMMA RowPublishes ==
    ASSUME NEW s \in Sources, s = command.source, command.status # "accepted_by_chatwoot",
           sent[s] = 0, sent' = [sent EXCEPT ![s] = 1], UNCHANGED command
    PROVE  Ledger!Publish(s)
<1>1. Owed[s] = "owed" /\ Owed' = Owed
  BY DEF Owed
<1> QED BY <1>1 DEF Ledger!Publish

\* Its acceptance is recorded.
LEMMA RowRecords ==
    ASSUME NEW s \in Sources, s = command.source, command.status # "accepted_by_chatwoot",
           sent[s] = 1, command'.source = s, command'.status = "accepted_by_chatwoot",
           UNCHANGED sent
    PROVE  Ledger!Record(s)
<1>1. Owed[s] = "owed" /\ Owed' = [Owed EXCEPT ![s] = "published"]
  BY DEF Owed
<1> QED BY <1>1 DEF Ledger!Record

LEMMA InitRefines == Init => Ledger!Init
<1> SUFFICES ASSUME Init PROVE Ledger!Init
  OBVIOUS
<1>1. command.source = None /\ sent = [s \in Sources |-> 0]
  BY DEF Init
<1>2. Owed = [s \in Sources |-> "unasked"]
  BY <1>1, Apart DEF Owed
<1> QED BY <1>1, <1>2 DEF Ledger!Init

\* A step of the abstract ledger, or none.
Refines == [Ledger!Next]_(Ledger!vars)

LEMMA RecordRefines ==
    ASSUME IInv, NEW p \in Procs, At(p, "finishing"), UNCHANGED sent,
           Finish(Outcome(p), FailureCode(p)) \/ UNCHANGED <<command, case>>
    PROVE  Refines
<1> DEFINE s == proc[p].src
<1>1. /\ TypeOK /\ s \in Sources /\ s = command.source
      /\ proc[p].reply = "sent" => sent[s] = 1
  BY DEF IInv, ProcSound, SenderSound, Engaged, At, Sources
<1>2. CASE UNCHANGED command
  BY <1>2, SaysTheSame DEF Refines
<1>3. CASE Finish(Outcome(p), FailureCode(p)) /\ command.status = "request_started"
  <2>1. command'.source = s /\ command'.status = Outcome(p)
    BY <1>1, <1>3, Answered, Finishing
  <2>2. CASE proc[p].reply = "sent"
    <3>1. command'.status = "accepted_by_chatwoot" /\ sent[s] = 1
      BY <1>1, <2>1, <2>2 DEF Outcome
    <3>2. Ledger!Record(s)
      BY <1>1, <1>3, <2>1, <3>1, RowRecords
    <3> QED BY <1>1, <3>2 DEF Refines, Ledger!Next
  <2>3. CASE proc[p].reply # "sent"
    <3>1. command'.status = "delivery_unknown"
      BY <2>1, <2>3 DEF Outcome
    <3> QED BY <1>1, <1>3, <2>1, <3>1, SaysTheSame DEF Refines
  <2> QED BY <2>2, <2>3
<1>4. CASE Finish(Outcome(p), FailureCode(p)) /\ command.status # "request_started"
  BY <1>4, SaysTheSame DEF Finish, Refines
<1> QED BY <1>2, <1>3, <1>4

LEMMA MessageRefines ==
    ASSUME IInv, NEW p \in Procs, At(p, "sending"), NEW made \in 0..1, UNCHANGED command,
           sent' = [sent EXCEPT ![proc[p].src] = @ + made]
    PROVE  Refines
<1> DEFINE s == proc[p].src
<1>1. /\ TypeOK /\ s \in Sources /\ s = command.source /\ sent[s] = 0
      /\ command.status # "accepted_by_chatwoot"
  BY DEF IInv, ProcSound, SenderSound, Engaged, At, Sources, RecordedTruth
<1>2. sent \in [Sources -> Nat]
  BY <1>1, Typed
<1>3. CASE made = 0
  <2>1. sent' = sent
    BY <1>1, <1>2, <1>3
  <2> QED BY <2>1, SaysTheSame DEF Refines
<1>4. CASE made = 1
  <2>1. sent' = [sent EXCEPT ![s] = 1]
    BY <1>1, <1>2, <1>4
  <2>2. Ledger!Publish(s)
    BY <1>1, <2>1, RowPublishes
  <2> QED BY <1>1, <2>2 DEF Refines, Ledger!Next
<1> QED BY <1>3, <1>4

LEMMA AuthorizeRefines ==
    ASSUME IInv, NEW w \in Workers, Authorize(w)
    PROVE  Refines
<1>1. /\ TypeOK /\ UNCHANGED sent /\ w \in Procs /\ proc[w].src \in Forms
  BY DEF IInv, Authorize, Procs, ProcSound, At
<1>2. Recheck(For[proc[w].src]) \in Reasons
  BY <1>1, Deciding
<1>3. UNCHANGED <<command, case>> \/ \E r \in Reasons :
        /\ command.status \in {"reserved", "request_started"}
        /\ Write("delivery_unknown", r) \/ Write("request_started", r)
  BY <1>2 DEF Authorize, Reasons
<1>4. ASSUME NEW r \in Reasons, command.status \in {"reserved", "request_started"},
             Write("delivery_unknown", r) \/ Write("request_started", r)
      PROVE  Refines
  <2>1. /\ command'.source = command.source
        /\ command'.status \in {"request_started", "delivery_unknown"}
    BY <1>1, <1>4, Writing DEF Final
  <2> QED BY <1>1, <1>4, <2>1, SaysTheSame DEF Refines
<1>5. CASE UNCHANGED <<command, case>>
  BY <1>1, <1>5, SaysTheSame DEF Refines
<1> QED BY <1>3, <1>4, <1>5

LEMMA StartRefines ==
    ASSUME IInv, NEW d \in Desks, Begin(d) \/ PrepareRetry(d)
    PROVE  Refines
<1>1. /\ TypeOK /\ UNCHANGED sent /\ d \in Procs /\ proc[d].src \in Sources
  BY DEF IInv, Begin, PrepareRetry, Procs, ProcSound, At, Sources
<1>2. CASE UNCHANGED command
  BY <1>1, <1>2, SaysTheSame DEF Refines
<1>3. CASE Begin(d) /\ command.source = None /\ Insert(proc[d].src, "request_started")
  <2>1. Ledger!Ask(proc[d].src)
    BY <1>1, <1>3, RowAsks DEF Open
  <2> QED BY <1>1, <2>1 DEF Refines, Ledger!Next
<1>4. CASE PrepareRetry(d) /\ Retryable(proc[d].src) /\
           command' = [command EXCEPT !.status = "request_started", !.failure = "none",
                                      !.retries = 1]
  <2>1. command'.source = command.source /\ command'.status = "request_started"
    BY <1>1, <1>4, Typed DEF Row
  <2>2. command.status = "delivery_unknown"
    BY <1>4 DEF Retryable
  <2> QED BY <1>1, <2>1, <2>2, SaysTheSame DEF Refines
<1> QED BY <1>2, <1>3, <1>4 DEF Begin, PrepareRetry

LEMMA StepRefines ==
    ASSUME IInv, [Next]_vars
    PROVE  Refines
<1> USE DEF IInv
<1>1. CASE UNCHANGED <<command, sent>>
  BY <1>1, SaysTheSame DEF Refines
<1>2. ASSUME NEW w \in Workers, NEW f \in Forms, Reevaluate(w, f) PROVE Refines
  <2>1. /\ UNCHANGED sent
        /\ UNCHANGED command \/ (command.source = None /\ Insert(f, "reserved"))
    BY <1>2 DEF Reevaluate
  <2>2. CASE command.source = None /\ Insert(f, "reserved")
    <3>1. Ledger!Ask(f)
      BY <2>1, <2>2, RowAsks DEF Open, Sources
    <3> QED BY <3>1 DEF Refines, Ledger!Next, Sources
  <2> QED BY <1>1, <2>1, <2>2
<1>3. ASSUME NEW p \in Procs, Post(p) PROVE Refines
  <2>1. PICK made \in 0..1 : sent' = [sent EXCEPT ![proc[p].src] = @ + made]
    BY <1>3 DEF Post
  <2> QED BY <1>3, <2>1, MessageRefines DEF Post, records
<1>4. ASSUME NEW p \in Procs, RecordOutcome(p) \/ RecordLost(p) PROVE Refines
  BY <1>4, RecordRefines DEF RecordOutcome, RecordLost
<1>5. ASSUME NEW w \in Workers, Salvage(w) PROVE Refines
  <2>1. /\ TypeOK /\ UNCHANGED sent
        /\ Finish("delivery_unknown", "acceptance_finalization_failed")
    BY <1>5 DEF Salvage
  <2>2. CASE command.status = "request_started"
    <3>1. command'.source = command.source /\ command'.status = "delivery_unknown"
      BY <2>1, <2>2, Finishing DEF Final, Reasons
    <3> QED BY <2>1, <2>2, <3>1, SaysTheSame DEF Refines
  <2>3. CASE command.status # "request_started"
    BY <1>1, <2>1, <2>3 DEF Finish
  <2> QED BY <2>2, <2>3
<1>6. ASSUME NEW p \in Procs, Die(p) PROVE Refines
  <2>1. UNCHANGED command /\ TypeOK
    BY <1>6 DEF Die, records
  <2>2. CASE UNCHANGED sent
    BY <1>1, <2>1, <2>2
  <2>3. CASE At(p, "sending") /\ sent' = [sent EXCEPT ![proc[p].src] = @ + 1]
    <3>1. PICK made \in 0..1 : made = 1
      OBVIOUS
    <3>2. sent' = [sent EXCEPT ![proc[p].src] = @ + made]
      BY <2>3, <3>1
    <3> QED BY <2>1, <2>3, <3>2, MessageRefines
  <2>4. UNCHANGED sent \/ (At(p, "sending") /\ sent' = [sent EXCEPT ![proc[p].src] = @ + 1])
    <3>1. CASE At(p, "sending")
      BY <1>6, <3>1 DEF Die
    <3>2. CASE ~At(p, "sending")
      <4>1. PICK made \in 0..0 :
               sent' = IF made = 0 THEN sent ELSE [sent EXCEPT ![proc[p].src] = @ + 1]
        BY <1>6, <3>2 DEF Die
      <4> QED BY <4>1
    <3> QED BY <3>1, <3>2
  <2> QED BY <2>2, <2>3, <2>4
<1>7. CASE Reconcile
  <2> DEFINE s == command.source
  <2>1. /\ TypeOK /\ command.status = "delivery_unknown" /\ sent[s] > 0 /\ UNCHANGED sent
        /\ Write("accepted_by_chatwoot", "none")
    BY <1>7 DEF Reconcile
  <2>2. command'.source = s /\ command'.status = "accepted_by_chatwoot"
    BY <2>1, Writing DEF Final, Reasons
  <2>3. s \in Sources /\ sent[s] = 1
    BY <2>1, Typed DEF LedgerSound, MessageSound, Row
  <2>4. Ledger!Record(s)
    BY <2>1, <2>2, <2>3, RowRecords
  <2> QED BY <2>3, <2>4 DEF Refines, Ledger!Next
<1>8. CASE \E f \in Forms : Submit(f) \/ Elapse(f)
  BY <1>1, <1>8 DEF Submit, Elapse
<1>9. CASE (\E i \in Intents : Purchase(i)) \/ OptOut \/ Takeover
  BY <1>1, <1>9 DEF Purchase, OptOut, Takeover
<1>10. ASSUME NEW d \in Desks, (\E c \in Carts : AdmitCart(d, c)) \/
                               (\E e \in Failures : AdmitFailure(d, e))
       PROVE  Refines
  BY <1>1, <1>10 DEF AdmitCart, AdmitFailure
<1>11. CASE UNCHANGED vars
  BY <1>1, <1>11 DEF vars, records
<1>12. CASE \E w \in Workers : WorkerStep(w)
  BY <1>2, <1>3, <1>4, <1>5, <1>12, AuthorizeRefines DEF WorkerStep, Procs
<1>13. CASE \E d \in Desks : DeskStep(d)
  BY <1>3, <1>4, <1>10, <1>13, StartRefines DEF DeskStep, Procs
<1> QED BY <1>4, <1>6, <1>7, <1>8, <1>9, <1>11, <1>12, <1>13 DEF Next, World

\* Whatever route has the phone, its message is created at most once, is recorded as accepted
\* only if it was, and stays so: a first touch keeps the promise PublishOnce makes.
THEOREM Refinement == Spec => LedgerSpec
<1>1. IInv /\ [Next]_vars => [Ledger!Next]_(Ledger!vars)
  BY StepRefines DEF Refines
<1> QED BY <1>1, InitRefines, InvariantHolds, PTL DEF Spec, LedgerSpec, Ledger!Spec

=============================================================================
