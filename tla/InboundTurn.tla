------------------------------ MODULE InboundTurn ------------------------------
(***************************************************************************)
(* One conversation and the turns that answer it: process_chatwoot_work    *)
(* of app.py, the guards and the delivery journal of                       *)
(* ChatwootClient.send_agent_bot_reply, and the delivery of a payment link *)
(* (checkout_delivery.py).  The instance is the one with a manifest: every *)
(* optional step of the turn is on.                                        *)
(*                                                                         *)
(* The inbox (module ChatwootInbox) runs one turn at a time; everything    *)
(* pending is its batch and the newest message its trigger.  A value of    *)
(* turn.pc is an await: the lead, the team, Chatwoot's queue and the rest  *)
(* of the bridge move there.                                               *)
(***************************************************************************)
EXTENDS Naturals, Sequences, SequencesExt, FiniteSets

CONSTANTS
    MaxMessages,   \* bound: messages the lead sends, numbered in order of arrival
    Parts,         \* parts the reply splitter makes of a reply, or of a link's turn
    MaxResumes,    \* conversation_resume_max
    MaxFaults,     \* bound: crashes, failed calls and lost answers
    MaxPeople      \* bound: what the team does in the conversation

ASSUME TurnAssumption ==
    /\ MaxMessages \in Nat \ {0} /\ Parts \in 2..4
    /\ MaxResumes \in Nat /\ MaxFaults \in Nat /\ MaxPeople \in Nat

Messages == 1..MaxMessages
NoMessage == 0

VARIABLES
    log,         \* external: the public messages of the conversation, in order
    text,        \* text[m]: "talk", or "stop" for an explicit opt-out
    status,      \* status[m]: the inbox's file of message m
    human,       \* human_takeover: the durable pause
    unattended,  \* a handoff request nobody of the team has attended
    requested,   \* triggers whose handoff request is recorded (its command key)
    optedOut,    \* the stop recorded for this conversation
    label,       \* external: automation_paused is among Chatwoot's labels
    assignee,    \* external: the conversation is assigned to a person
    journal,     \* markers of the reply journal: <<trigger, part, parts>>
    wire,        \* external: posts with no answer that Chatwoot may still create
    proposal,    \* proposal[t]: the agent's persisted result for trigger t
    issuance,    \* issuance[t]: the checkout issuance reserved for trigger t
    resumedBy,   \* triggers whose resumption is recorded (its command key)
    hook,        \* the delivery of a team message waits in the inbox
    turn,        \* the turn in progress
    late,        \* history: posts begun for t while the conversation was stopped
    faults, people

inbox == <<text, status, hook>>
base == <<human, unattended, requested, optedOut, resumedBy>>
chat == <<log, label, assignee, wire>>
files == <<journal, proposal>>
bounds == <<faults, people>>
vars == <<inbox, base, chat, files, issuance, turn, late, bounds>>

Idle == [pc |-> "idle", trigger |-> NoMessage, blocked |-> FALSE, labelled |-> FALSE,
         what |-> "none", part |-> 0, started |-> FALSE, reason |-> "none"]

Init ==
    /\ log = <<>> /\ text = [m \in Messages |-> "talk"]
    /\ status = [m \in Messages |-> "none"]
    /\ human = FALSE /\ unattended = FALSE /\ requested = {} /\ optedOut = FALSE
    /\ label = FALSE /\ assignee = FALSE /\ journal = {} /\ wire = {}
    /\ proposal = [m \in Messages |-> "none"] /\ issuance = [m \in Messages |-> "none"]
    /\ resumedBy = {} /\ hook = FALSE /\ turn = Idle
    /\ late = [m \in Messages |-> 0] /\ faults = 0 /\ people = 0

-----------------------------------------------------------------------------
(* What the turn reads *)

trigger == turn.trigger
Batch == {m \in Messages : status[m] = "pending" /\ m <= trigger}

\* admit_inbound_commercial_case answers 'blocked'.
Blocked == human \/ optedOut

Alone == {"reply1", "notice", "confirmation"}   \* sent as part 1 of 1
PartCount == IF turn.what \in Alone THEN 1 ELSE Parts

Post(part) == [from |-> "agent", of |-> trigger, part |-> part, parts |-> PartCount,
               kind |-> turn.what]
From(who, m) == [from |-> who, of |-> m, part |-> 0, parts |-> 0, kind |-> "none"]
Marker(p) == <<p.of, p.part, p.parts>>

Posted(marker) == \E i \in DOMAIN log : log[i].from = "agent" /\ Marker(log[i]) = marker
Present(kind) == \E i \in DOMAIN log : log[i].kind = kind

\* Where the messages after the trigger's are; those that are not earlier parts of the
\* batch are news.
Behind(t) == {i \in DOMAIN log : \E j \in 1..(i - 1) : log[j] = From("lead", t)}
Prior(p) == PartCount > 1 /\ p.from = "agent" /\ p.of = trigger /\ p.parts = PartCount
                          /\ p.part < turn.part
News == {i \in Behind(trigger) : ~Prior(log[i])}
PriorParts == {log[i].part : i \in Behind(trigger) \ News}

Advanced(t) == \E i \in Behind(t) : log[i].from # "agent"
Stopped == label \/ assignee \/ Advanced(trigger)
                 \/ (turn.what \in {"reply", "reply1"} /\ human)

-----------------------------------------------------------------------------
(* The turn: admission and resumption *)

Goto(pc) == turn' = [turn EXCEPT !.pc = pc]

\* What follows an admission: the agent's turn, or only the stop of a blocked one.
Admitted == IF Blocked THEN "only_stop" ELSE "history"

\* The worker hands over everything pending; the newest message leads.
StartTurn ==
    /\ turn.pc = "idle"
    /\ \E m \in Messages :
         /\ status[m] = "pending" /\ \A n \in Messages : status[n] = "pending" => n <= m
         /\ turn' = [Idle EXCEPT !.pc = "admit", !.trigger = m]
    /\ UNCHANGED <<inbox, base, chat, files, issuance, late, bounds>>

End ==
    /\ status' = [m \in Messages |-> IF m \in Batch THEN "done" ELSE status[m]]
    /\ turn' = Idle

\* A failing call, or the process dies: the batch stays, to be handed over again, or
\* is given up after the attempts the inbox grants.
TurnFails ==
    /\ turn.pc # "idle" /\ faults < MaxFaults
    /\ faults' = faults + 1
    /\ turn' = Idle
    /\ \/ UNCHANGED status
       \/ status' = [m \in Messages |-> IF m \in Batch THEN "failed" ELSE status[m]]
    /\ UNCHANGED <<text, hook, base, chat, files, issuance, late, people>>

Admit ==
    /\ turn.pc = "admit"
    /\ turn' = [turn EXCEPT !.pc = "resume", !.blocked = Blocked]
    /\ UNCHANGED <<inbox, base, chat, files, issuance, late, bounds>>

NotResumed == Goto(IF turn.blocked THEN "only_stop" ELSE "history")

\* _resume_paused_conversation reads the conversation.  Without the label a person took
\* it off, and no silence is asked for; with it the team must have been quiet (the
\* clock is not modelled: any team message may be old enough).  A failed read is a no.
LookAtPause ==
    /\ turn.pc = "resume"
    /\ \/ /\ ~assignee /\ ~optedOut /\ (label \/ turn.blocked)
          /\ turn' = [turn EXCEPT !.pc = "lift", !.labelled = label]
       \/ /\ \/ assignee \/ optedOut \/ ~(label \/ turn.blocked)
             \/ label /\ \E i \in DOMAIN log : log[i].from = "team"
          /\ NotResumed
    /\ UNCHANGED <<inbox, base, chat, files, issuance, late, bounds>>

Lifted == IF turn.labelled THEN Goto("clear")
          ELSE IF turn.blocked THEN Goto("readmit") ELSE Goto("history")

\* The RPC resume_paused_conversation; 'replayed' and 'already_active' count as resumed.
\* Its answer may be lost: then the caller does not go on to the label.
Lift ==
    /\ turn.pc = "lift"
    /\ IF trigger \in resumedBy
       THEN Lifted /\ UNCHANGED <<human, resumedBy, faults>>
       ELSE IF optedOut \/ Cardinality(resumedBy) >= MaxResumes \/ unattended
       THEN NotResumed /\ UNCHANGED <<human, resumedBy, faults>>
       ELSE /\ human' = FALSE
            /\ resumedBy' = IF human THEN resumedBy \cup {trigger} ELSE resumedBy
            /\ \/ Lifted /\ UNCHANGED faults
               \/ faults < MaxFaults /\ faults' = faults + 1 /\ NotResumed
    /\ UNCHANGED <<inbox, unattended, requested, optedOut, chat, files, issuance, late,
                   people>>

\* clear_conversation_label: the macro runs later than its answer, so it may take the
\* label off and still not be confirmed.
ClearLabel ==
    /\ turn.pc = "clear"
    /\ \/ /\ label' = FALSE /\ UNCHANGED faults
          /\ Goto(IF turn.blocked THEN "readmit" ELSE "history")
       \/ /\ label' \in {FALSE, label}
          /\ faults < MaxFaults /\ faults' = faults + 1 /\ NotResumed
    /\ late' = IF label' THEN late ELSE [m \in Messages |-> 0]
    /\ UNCHANGED <<inbox, base, log, assignee, wire, files, issuance, people>>

Readmit ==
    /\ turn.pc = "readmit"
    /\ Goto(Admitted)
    /\ UNCHANGED <<inbox, base, chat, files, issuance, late, bounds>>

-----------------------------------------------------------------------------
(* The stop, and the agent *)

StopInBatch == \E m \in Batch : text[m] = "stop"

\* Mutant: a blocked admission ends the turn, as before the manifest.
HistoryOfAdmitted ==
    /\ turn.pc \in {"only_stop", "history"}
    /\ IF turn.pc = "only_stop" THEN End /\ UNCHANGED optedOut
       ELSE IF StopInBatch
       THEN optedOut' = TRUE /\ turn' = [turn EXCEPT !.pc = "confirm"] /\ UNCHANGED status
       ELSE Goto("agent") /\ UNCHANGED <<status, optedOut>>
    /\ UNCHANGED <<text, hook, human, unattended, requested, resumedBy, chat, files,
                   issuance, late, bounds>>

\* run_shadow_with_canonical_history: a stop recorded before is reconciled and answered
\* only by an admitted turn; one in the batch is recorded, confirmed unless an earlier
\* stop was, and ends the turn; without any, only an admitted turn reaches the agent.
History ==
    /\ turn.pc \in {"only_stop", "history"}
    /\ IF turn.pc = "only_stop" /\ (optedOut \/ ~StopInBatch)
       THEN End /\ UNCHANGED optedOut
       ELSE IF StopInBatch
       THEN /\ optedOut' = TRUE
            /\ IF optedOut THEN End ELSE Goto("confirm") /\ UNCHANGED status
       ELSE Goto("agent") /\ UNCHANGED <<status, optedOut>>
    /\ UNCHANGED <<text, hook, human, unattended, requested, resumedBy, chat, files,
                   issuance, late, bounds>>

Send(what, pc) == turn' = [turn EXCEPT !.what = what, !.part = 1, !.pc = pc,
                                       !.started = FALSE]

\* confirm_new_opt_out: once per conversation, without the durable authorisation.
Confirm ==
    /\ turn.pc = "confirm"
    /\ IF Present("confirmation") THEN End ELSE Send("confirmation", "look") /\ UNCHANGED status
    /\ UNCHANGED <<text, hook, base, chat, files, issuance, late, bounds>>

\* The agent runs once per delivery: a retry takes the persisted result.  A failed run
\* is handed over.
Agent ==
    /\ turn.pc = "agent"
    /\ \E p \in {"reply1", "reply", "handoff", "link"} :
         /\ proposal[trigger] \in {"none", p}
         /\ proposal' = [proposal EXCEPT ![trigger] = p]
         /\ \/ p = "handoff" /\ Send("notice", "notice")
            \/ p = "link" /\ Send("link", "reserve")
            \/ p \in {"reply1", "reply"} /\ Send(p, "authorise")
    /\ UNCHANGED <<inbox, base, chat, journal, issuance, late, bounds>>

-----------------------------------------------------------------------------
(* Sending one part: send_scoped_agent_bot_reply and send_agent_bot_reply *)

\* Mutant: a reply that was blocked is retried.
RefusedRetried(reason) ==
    /\ UNCHANGED status
    /\ \/ turn.what \in {"reply1", "reply", "confirmation"} /\ turn' = Idle
       \/ turn.what = "notice" /\ Goto("request")
       \/ turn.what = "link" /\ turn' = [turn EXCEPT !.pc = "why", !.reason = reason]

\* What a part that was not sent means to each kind of message.
Refused(reason) ==
    \/ turn.what \in {"reply1", "reply", "confirmation"} /\ End
    \/ turn.what = "notice" /\ Goto("request") /\ UNCHANGED status
    \/ /\ turn.what = "link" /\ UNCHANGED status
       /\ turn' = [turn EXCEPT !.pc = "why", !.reason = reason]

\* reauthorize_durable_reply, asked again before each part.  The parts of a link and the
\* confirmation do not ask.
Authorise ==
    /\ turn.pc = "authorise"
    /\ IF Blocked THEN Refused("durable_automation_stop") ELSE Goto("look") /\ UNCHANGED status
    /\ UNCHANGED <<text, hook, base, chat, files, issuance, late, bounds>>

\* Mutant: the labels and the assignee are read for the first part only.
LookOnce ==
    /\ turn.pc = "look"
    /\ IF (assignee \/ label) /\ turn.part = 1 THEN Refused("team")
       ELSE Goto("read") /\ UNCHANGED status
    /\ UNCHANGED <<text, hook, base, chat, files, issuance, late, bounds>>

\* _current_authorization_result, first half: the conversation and its labels.
Look ==
    /\ turn.pc = "look"
    /\ IF assignee \/ label THEN Refused("team") ELSE Goto("read") /\ UNCHANGED status
    /\ UNCHANGED <<text, hook, base, chat, files, issuance, late, bounds>>

LinkPart == turn.what = "link" /\ turn.part = Parts
ToSend == IF LinkPart /\ ~turn.started THEN "start_link" ELSE "post"

\* The part is in the conversation: the next one, or what follows the last.
NextPart ==
    \/ /\ turn.part = PartCount
       /\ \/ turn.what = "link" /\ Goto("accept") /\ UNCHANGED status
          \/ turn.what = "notice" /\ Goto("request") /\ UNCHANGED status
          \/ turn.what \notin {"link", "notice"} /\ End
    \/ /\ turn.part # PartCount /\ UNCHANGED status
       /\ turn' = [turn EXCEPT !.part = turn.part + 1,
                               !.pc = IF turn.what = "link" THEN "look" ELSE "authorise"]

\* Second half: the messages.  The part itself is a duplicate; anything newer that is not
\* an earlier part of it blocks; every earlier part must be there.
Read ==
    /\ turn.pc = "read"
    /\ IF Posted(Marker(Post(turn.part))) THEN NextPart
       ELSE IF News # {}
       THEN \E i \in News : (\A j \in News : i <= j) /\ Refused(log[i].from)
       ELSE IF PriorParts # 1..(turn.part - 1) THEN Refused("incomplete")
       ELSE Goto(ToSend) /\ UNCHANGED status
    /\ UNCHANGED <<text, hook, base, chat, files, issuance, late, bounds>>

\* A part whose delivery is unknown: only the reply and the link are retried.
Unknown ==
    \/ turn.what = "notice" /\ Goto("request") /\ UNCHANGED status
    \/ turn.what = "confirmation" /\ End
    \/ LinkPart /\ Goto("unknown") /\ UNCHANGED status
    \/ /\ ~LinkPart /\ turn.what \notin {"notice", "confirmation"}
       /\ turn' = Idle /\ UNCHANGED status

\* What becomes of a post: answered, or its answer lost with the message created, still
\* on its way, or gone for good.
Carried(fate) ==
    \/ /\ fate = "answered" /\ NextPart
       /\ log' = Append(log, Post(turn.part)) /\ UNCHANGED <<wire, faults>>
    \/ /\ fate # "answered" /\ faults < MaxFaults /\ faults' = faults + 1 /\ Unknown
       /\ log' = IF fate = "created" THEN Append(log, Post(turn.part)) ELSE log
       /\ wire' = IF fate = "delayed" THEN wire \cup {Post(turn.part)} ELSE wire

\* Mutant: what was posted is not journalled.
PostUnjournalled(fate) ==
    /\ turn.pc = "post"
    /\ UNCHANGED journal
    /\ late' = IF Stopped THEN [late EXCEPT ![trigger] = @ + 1] ELSE late
    /\ Carried(fate)
    /\ UNCHANGED <<text, hook, base, label, assignee, proposal, issuance, people>>

\* _claim_reply_delivery refuses what was posted before, and any part of a reply whose
\* trigger's single-part message was.
Claimed(marker) == marker \in journal \/ (PartCount > 1 /\ <<trigger, 1, 1>> \in journal)

\* The claim, then the POST.
PostPart(fate) ==
    /\ turn.pc = "post"
    /\ IF Claimed(Marker(Post(turn.part)))
       THEN /\ fate = "answered" /\ Unknown
            /\ UNCHANGED <<journal, late, log, wire, faults>>
       ELSE /\ journal' = journal \cup {Marker(Post(turn.part))}
            /\ late' = IF Stopped THEN [late EXCEPT ![trigger] = @ + 1] ELSE late
            /\ Carried(fate)
    /\ UNCHANGED <<text, hook, base, label, assignee, proposal, issuance, people>>

-----------------------------------------------------------------------------
(* The payment link: deliver_checkout_issuance_v2 *)

\* reserve_chatwoot_checkout_issuance_v2: one issuance per trigger, replayed.
Reserve ==
    /\ turn.pc = "reserve"
    /\ IF issuance[trigger] = "none" /\ Blocked
       THEN Refused("blocked_conversation") /\ UNCHANGED issuance
       ELSE /\ issuance' = [issuance EXCEPT ![trigger] = IF @ = "none" THEN "reserved" ELSE @]
            /\ Goto("look") /\ UNCHANGED status
    /\ UNCHANGED <<text, hook, base, chat, files, late, bounds>>

\* Mutant: the link is posted on a reservation.
StartLinkUnrecorded ==
    /\ turn.pc = "start_link"
    /\ turn' = [turn EXCEPT !.started = TRUE, !.pc = "look"]
    /\ UNCHANGED <<inbox, base, chat, files, issuance, late, bounds>>

\* The pre_send_authorizer: reserved -> request_started, or the part is not sent.  Then
\* the conversation is read once more.
StartLink ==
    /\ turn.pc = "start_link"
    /\ IF issuance[trigger] = "reserved" /\ ~Blocked
       THEN /\ issuance' = [issuance EXCEPT ![trigger] = "request_started"]
            /\ turn' = [turn EXCEPT !.started = TRUE, !.pc = "look"] /\ UNCHANGED status
       ELSE Refused("denied") /\ UNCHANGED issuance
    /\ UNCHANGED <<text, hook, base, chat, files, late, bounds>>

\* Sent, or found in the conversation: finalize as accepted_by_chatwoot.
AcceptLink ==
    /\ turn.pc = "accept"
    /\ issuance' = [issuance EXCEPT ![trigger] = "accepted"]
    /\ End
    /\ UNCHANGED <<text, hook, base, chat, files, late, bounds>>

\* The post gave no answer: finalize as delivery_unknown if this turn started it, retry.
LinkUnknown ==
    /\ turn.pc = "unknown"
    /\ issuance' = IF turn.started /\ issuance[trigger] = "request_started"
                   THEN [issuance EXCEPT ![trigger] = "delivery_unknown"] ELSE issuance
    /\ turn' = Idle
    /\ UNCHANGED <<inbox, base, chat, files, late, bounds>>

\* A link that was not sent ends the turn if the lead wrote since, else is handed over.
WhyNotSent ==
    /\ turn.pc = "why"
    /\ IF /\ turn.reason \in {"lead", "agent"}
          /\ \E i \in Behind(trigger) : log[i].from = "lead"
       THEN End ELSE Send("notice", "notice") /\ UNCHANGED status
    /\ UNCHANGED <<text, hook, base, chat, files, issuance, late, bounds>>

-----------------------------------------------------------------------------
(* The handoff: request_current_inbound_handoff *)

\* send_handoff_notice: once per conversation.
Notice ==
    /\ turn.pc = "notice"
    /\ IF Present("notice") THEN Goto("request") ELSE Goto("authorise")
    /\ UNCHANGED <<inbox, base, chat, files, issuance, late, bounds>>

\* request_inbound_human_handoff, replayed by trigger; a conversation that is already
\* with people refuses, and the turn fails.
RequestHandoff ==
    /\ turn.pc = "request"
    /\ trigger \in requested \/ ~Blocked
    /\ IF trigger \in requested THEN UNCHANGED <<human, unattended, requested>>
       ELSE human' = TRUE /\ unattended' = TRUE /\ requested' = requested \cup {trigger}
    /\ Goto("pause")
    /\ UNCHANGED <<inbox, optedOut, resumedBy, chat, files, issuance, late, bounds>>

HandoffRefused ==
    /\ turn.pc = "request"
    /\ trigger \notin requested /\ Blocked
    /\ turn' = Idle
    /\ UNCHANGED <<inbox, base, chat, files, issuance, late, bounds>>

\* ensure_conversation_label, then the private note with the last link (fails softly).
PauseConversation ==
    /\ turn.pc = "pause"
    /\ label' = TRUE
    /\ End
    /\ UNCHANGED <<text, hook, base, log, assignee, wire, files, issuance, late, bounds>>

-----------------------------------------------------------------------------
(* The team's webhook, and the rest of the world *)

\* process_chatwoot_work of a team message: the label, and the handoff is attended (the
\* mark fails softly).  The inbox runs it between two turns.
TeamDelivery ==
    /\ hook /\ turn.pc = "idle"
    /\ hook' = FALSE
    /\ label' = TRUE
    /\ \/ unattended' = FALSE /\ UNCHANGED faults
       \/ unattended /\ faults < MaxFaults /\ faults' = faults + 1 /\ UNCHANGED unattended
    /\ UNCHANGED <<text, status, human, requested, optedOut, resumedBy, log, assignee, wire,
                   files, issuance, turn, late, people>>

LeadWrites(m, what) ==
    /\ status[m] = "none" /\ \A n \in 1..(m - 1) : status[n] # "none"
    /\ log' = Append(log, From("lead", m))
    /\ text' = [text EXCEPT ![m] = what] /\ status' = [status EXCEPT ![m] = "pending"]
    /\ UNCHANGED <<hook, base, label, assignee, wire, files, issuance, turn, late, bounds>>

Act == people < MaxPeople /\ people' = people + 1

TeamWrites ==
    /\ Act /\ log' = Append(log, From("team", NoMessage)) /\ hook' = TRUE
    /\ UNCHANGED <<text, status, base, label, assignee, wire, files, issuance, turn, late,
                   faults>>

TeamAssigns ==
    /\ Act /\ ~assignee /\ assignee' = TRUE
    /\ UNCHANGED <<inbox, base, log, label, wire, files, issuance, turn, late, faults>>

\* A person takes the label off, or unassigns: the conversation is the agent's again.
TeamFrees ==
    /\ Act
    /\ \/ label /\ label' = FALSE /\ UNCHANGED assignee
       \/ assignee /\ assignee' = FALSE /\ UNCHANGED label
    /\ late' = [m \in Messages |-> 0]
    /\ UNCHANGED <<inbox, base, log, wire, files, issuance, turn, faults>>

\* The recovery flows of the bridge hand the same conversation over.
OtherHandoff ==
    /\ Act /\ ~human /\ human' = TRUE /\ unattended' = TRUE
    /\ UNCHANGED <<inbox, requested, optedOut, resumedBy, chat, files, issuance, turn, late,
                   faults>>

\* Chatwoot creates a message whose answer nobody waits for any more.
Land(p) ==
    /\ p \in wire
    /\ wire' = wire \ {p} /\ log' = Append(log, p)
    /\ UNCHANGED <<inbox, base, label, assignee, files, issuance, turn, late, bounds>>

-----------------------------------------------------------------------------
Fate == {"answered", "created", "delayed", "gone"}

TurnStep ==
    \/ Admit \/ LookAtPause \/ Lift \/ ClearLabel \/ Readmit
    \/ History \/ Confirm \/ Agent
    \/ Authorise \/ Look \/ Read \/ \E fate \in Fate : PostPart(fate)
    \/ Reserve \/ StartLink \/ AcceptLink \/ LinkUnknown \/ WhyNotSent
    \/ Notice \/ RequestHandoff \/ HandoffRefused \/ PauseConversation

World ==
    \/ \E m \in Messages, what \in {"talk", "stop"} : LeadWrites(m, what)
    \/ TeamWrites \/ TeamAssigns \/ TeamFrees \/ OtherHandoff

Next == \/ StartTurn \/ TurnStep \/ TurnFails \/ TeamDelivery \/ World
        \/ \E p \in wire : Land(p)

Spec == Init /\ [][Next]_vars

\* The inbox's worker polls for ever and a handler's calls end (timeout=15); Chatwoot's
\* queue drains.
Fairness ==
    /\ WF_vars(StartTurn) /\ WF_vars(TurnStep)
    /\ WF_vars(\E p \in wire : Land(p))

FairSpec == Spec /\ Fairness

-----------------------------------------------------------------------------
(* Properties *)

Message == [from : {"agent", "lead", "team"}, of : 0..MaxMessages, part : 0..Parts,
            parts : 0..Parts,
            kind : {"none", "reply1", "reply", "link", "notice", "confirmation"}]

Places == {"idle", "admit", "resume", "lift", "clear", "readmit", "only_stop", "history",
           "confirm", "agent", "authorise", "look", "read", "post", "reserve",
           "start_link", "accept", "unknown", "why", "notice", "request", "pause"}

Turn == [pc : Places, trigger : 0..MaxMessages, blocked : BOOLEAN, labelled : BOOLEAN,
         what : {"none", "confirmation", "notice", "link", "reply1", "reply"},
         part : 0..Parts, started : BOOLEAN,
         reason : {"none", "durable_automation_stop", "team", "lead", "agent",
                   "incomplete", "denied", "blocked_conversation"}]

TypeOK ==
    /\ log \in Seq(Message) /\ wire \subseteq Message
    /\ text \in [Messages -> {"talk", "stop"}]
    /\ status \in [Messages -> {"none", "pending", "done", "failed"}]
    /\ {human, unattended, optedOut, label, assignee, hook} \subseteq BOOLEAN
    /\ requested \subseteq Messages /\ resumedBy \subseteq Messages
    /\ Cardinality(resumedBy) <= MaxResumes
    /\ journal \subseteq Messages \X (1..Parts) \X {1, Parts}
    /\ proposal \in [Messages -> {"none", "reply1", "reply", "handoff", "link"}]
    /\ issuance \in [Messages -> {"none", "reserved", "request_started", "accepted",
                                  "delivery_unknown"}]
    /\ turn \in Turn
    /\ late \in [Messages -> Nat]
    /\ faults \in 0..MaxFaults /\ people \in 0..MaxPeople

\* Every part is in the conversation at most once, and only behind the one before it,
\* whatever the process, the answers and Chatwoot's queue lose or delay.
PartsOnceInOrder ==
    \A i \in DOMAIN log : log[i].from = "agent" =>
        /\ \A j \in DOMAIN log \ {i} :
              log[j].from = "agent" => Marker(log[j]) # Marker(log[i])
        /\ log[i].part > 1 => \E j \in 1..(i - 1) :
              log[j].from = "agent" /\ Marker(log[j]) = <<log[i].of, log[i].part - 1, log[i].parts>>

\* Once the team takes the conversation (assignee, label, a message), the lead writes
\* again, or the durable pause falls on a reply, at most one more part of the turn under
\* way is posted: the one whose last read was already done.
OvertakenOnce == \A t \in Messages : late[t] <= 1

\* No message that asks to stop is closed without its stop recorded: not by the pause, by
\* the handoff, by a batch it shares or by a newer message.
StopIsRecorded ==
    \A m \in Messages : status[m] = "done" /\ text[m] = "stop" => optedOut

\* The ledger of issuances tells the truth: a link that is or may still be in the
\* conversation was started there, and one accepted is in the conversation.
LinkSent(t, where) == \E p \in where : p.kind = "link" /\ p.of = t /\ p.part = Parts
LinkAccounted ==
    \A t \in Messages :
        /\ LinkSent(t, ToSet(log) \cup wire) =>
              issuance[t] \in {"request_started", "accepted", "delivery_unknown"}
        /\ issuance[t] = "accepted" => LinkSent(t, ToSet(log))

\* A post of the trigger is lost for good: its journal stays, and no read will find it.
Lost(t) == \E marker \in journal :
    marker[1] = t /\ ~Posted(marker) /\ ~ \E p \in wire : Marker(p) = marker

\* Every message is answered, closed, or given up after failures, unless a post of its
\* turn is lost for good (then it is retried for ever, until the lead writes again).
TurnEnds == \A m \in Messages :
    status[m] = "pending" ~> status[m] # "pending" \/ \E t \in m..MaxMessages : Lost(t)
=============================================================================
