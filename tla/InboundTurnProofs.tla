--------------------------- MODULE InboundTurnProofs ---------------------------
(* Proofs about InboundTurn for any number of messages, parts, resumptions,      *)
(* faults and acts of the team.                                                  *)
EXTENDS InboundTurn, FiniteSetTheorems, TLAPS

-----------------------------------------------------------------------------
(* The inductive invariant: what holds of the conversation, its journal and its    *)
(* ledgers whatever the turn is at, and what the turn knows at each of its awaits. *)

Replies == {"reply1", "reply"}
Begun == {"request_started", "accepted", "delivery_unknown"}

\* Messages arrive in order.
ArrivalOrder ==
    \A m \in Messages : status[m] # "none" => \A n \in 1..(m - 1) : status[n] # "none"

\* No message up to m waits to be closed without its stop.
Heard(m) == \A n \in 1..m : ~(status[n] = "pending" /\ text[n] = "stop")

\* The agent's result came after every stop of its batch.
ProposalHeard == \A t \in Messages : proposal[t] # "none" => status[t] # "none" /\ Heard(t)

\* A post that is, or may come to be, in the conversation is claimed in the journal, and
\* the parts of a split reply are those of the agent's result.
PostSound(p) ==
    /\ p.from = "agent" /\ p.of \in Messages /\ p.part \in 1..p.parts
    /\ Marker(p) \in journal
    /\ p.parts = Parts => p.kind = proposal[p.of] /\ p.kind # "none"

JournalSound ==
    /\ \A i \in DOMAIN log : log[i].from = "agent" => PostSound(log[i])
    /\ \A p \in wire : PostSound(p) /\ ~Posted(Marker(p))
    /\ \A p, q \in wire : Marker(p) = Marker(q) => p = q

\* A post that may still land has the part before it in the conversation.
WireOrder == \A p \in wire : p.part > 1 => Posted(<<p.of, p.part - 1, p.parts>>)

\* Once a part of t was posted over a stop, something keeps the next one back.
Taken(t) == label \/ assignee \/ Advanced(t)
Stuck(t) == Taken(t) \/ (human /\ unattended /\ proposal[t] \in Replies)
LateStuck == \A t \in Messages : late[t] > 0 => Stuck(t)

Standing ==
    /\ TypeOK /\ ArrivalOrder /\ ProposalHeard /\ JournalSound /\ WireOrder /\ LateStuck
    /\ PartsOnceInOrder /\ OvertakenOnce /\ StopIsRecorded /\ LinkAccounted

\* The message that leads a turn stays pending under it.
LeadPending == turn.pc # "idle" => trigger \in Messages /\ status[trigger] = "pending"

\* What the turn is sending fits the place it is at.
PlaceSound ==
    /\ turn.pc \in {"idle", "admit", "resume", "lift", "clear", "readmit", "only_stop",
                    "history", "confirm", "agent"} => turn.what = "none" /\ ~turn.started
    /\ turn.pc \in {"authorise", "look", "read", "post", "reserve", "start_link", "accept",
                    "unknown", "why", "notice", "request", "pause"} =>
           turn.what # "none" /\ turn.part \in 1..PartCount
    /\ turn.pc = "authorise" => turn.what \in Replies \cup {"notice"}
    /\ turn.pc \in {"reserve", "why"} => turn.what = "link"
    /\ turn.pc \in {"start_link", "unknown", "accept"} => LinkPart
    /\ turn.pc \in {"notice", "request", "pause"} => turn.what = "notice"

\* It sends the agent's result, or the confirmation of a stop already recorded.
ResultSound ==
    /\ turn.what \in Replies \cup {"link"} => proposal[trigger] = turn.what
    /\ turn.what = "notice" => proposal[trigger] \in {"handoff", "link"}
    /\ turn.pc = "agent" => Heard(trigger)
    /\ turn.pc = "confirm" \/ turn.what = "confirmation" => optedOut /\ ~Heard(trigger)

\* Before a part is posted the one before it was read in the conversation; a link is
\* posted by the turn that recorded its start.
PartSound ==
    /\ turn.pc \in {"start_link", "post"} /\ turn.part > 1 =>
           Posted(<<trigger, turn.part - 1, PartCount>>)
    /\ turn.started => turn.what = "link" /\ issuance[trigger] \in Begun
    /\ turn.pc = "post" /\ LinkPart => turn.started
    /\ turn.pc = "accept" => LinkSent(trigger, ToSet(log))

\* A turn whose last part was posted over a stop does not get past its next reads.
ReadSound ==
    /\ turn.what \in Replies /\ turn.pc \in {"look", "read", "post"} /\ human => unattended
    /\ turn.pc = "look" /\ late[trigger] > 0 => Taken(trigger)
    /\ turn.pc = "read" /\ late[trigger] > 0 => Advanced(trigger)
    /\ turn.pc \in {"start_link", "post"} => late[trigger] = 0

TurnInv == LeadPending /\ PlaceSound /\ ResultSound /\ PartSound /\ ReadSound

IInv == Standing /\ TurnInv

-----------------------------------------------------------------------------
(* The conversation grows at its end *)

LEMMA AppendIs ==
    ASSUME NEW s \in Seq(Message), NEW p \in Message
    PROVE  /\ Append(s, p) \in Seq(Message) /\ Len(s) \in Nat
           /\ DOMAIN s = 1..Len(s) /\ DOMAIN Append(s, p) = 1..(Len(s) + 1)
           /\ \A i \in DOMAIN s : Append(s, p)[i] = s[i] /\ s[i] \in Message
           /\ Append(s, p)[Len(s) + 1] = p
OBVIOUS

\* What was behind a message, or posted, still is; the new message is the only one posted.
LEMMA Grown ==
    ASSUME log \in Seq(Message), NEW p \in Message, log' = Append(log, p)
    PROVE  /\ \A t \in Messages : Advanced(t) => Advanced(t)'
           /\ \A marker : Posted(marker)' <=> \/ Posted(marker)
                                              \/ p.from = "agent" /\ Marker(p) = marker
           /\ ToSet(log)' = ToSet(log) \cup {p}
<1>1. /\ Len(log) \in Nat /\ DOMAIN log = 1..Len(log) /\ DOMAIN log' = 1..(Len(log) + 1)
      /\ \A i \in DOMAIN log : log'[i] = log[i]
      /\ log'[Len(log) + 1] = p
  BY AppendIs
<1>2. ASSUME NEW t \in Messages, Advanced(t) PROVE Advanced(t)'
  <2>1. PICK i \in DOMAIN log : /\ log[i].from # "agent"
                                /\ \E j \in 1..(i - 1) : log[j] = From("lead", t)
    BY <1>2 DEF Advanced, Behind
  <2>2. PICK j \in 1..(i - 1) : log[j] = From("lead", t)
    BY <2>1
  <2>3. i \in DOMAIN log' /\ log'[i] = log[i] /\ j \in DOMAIN log /\ log'[j] = log[j]
    BY <1>1, <2>1, <2>2
  <2>4. From("lead", t)' = From("lead", t)
    BY DEF From
  <2>5. i \in Behind(t)'
    BY <2>2, <2>3, <2>4 DEF Behind
  <2> QED BY <2>1, <2>3, <2>5 DEF Advanced
<1>3. ASSUME NEW marker
      PROVE  Posted(marker)' <=> Posted(marker) \/ (p.from = "agent" /\ Marker(p) = marker)
  <2>1. Posted(marker)' <=> \E i \in DOMAIN log' : log'[i].from = "agent" /\ Marker(log'[i]) = marker
    BY DEF Posted, Marker
  <2>2. DOMAIN log' = DOMAIN log \cup {Len(log) + 1}
    BY <1>1
  <2> QED BY <2>1, <2>2, <1>1 DEF Posted
<1>4. ToSet(log)' = ToSet(log) \cup {p}
  <2>1. DOMAIN log' = DOMAIN log \cup {Len(log) + 1}
    BY <1>1
  <2> QED BY <2>1, <1>1 DEF ToSet
<1> QED BY <1>2, <1>3, <1>4

-----------------------------------------------------------------------------
(* The ends of a send *)

Sends == {"confirmation", "notice", "link", "reply1", "reply"}

\* A part that was not sent ends the turn, goes on to the handoff, or asks why.
LEMMA RefusedIs ==
    ASSUME turn.what \in Sends, NEW reason, Refused(reason)
    PROVE  \/ End /\ turn.what \in Replies \cup {"confirmation"}
           \/ Goto("request") /\ UNCHANGED status /\ turn.what = "notice"
           \/ /\ turn' = [turn EXCEPT !.pc = "why", !.reason = reason]
              /\ UNCHANGED status /\ turn.what = "link"
BY DEF Refused, Sends, Replies

\* After a part that is in the conversation comes the end, or the next part.
LEMMA NextPartIs ==
    ASSUME turn.what \in Sends, NextPart
    PROVE  \/ turn.part = PartCount /\ End
           \/ turn.part = PartCount /\ Goto("accept") /\ UNCHANGED status /\ turn.what = "link"
           \/ turn.part = PartCount /\ Goto("request") /\ UNCHANGED status /\ turn.what = "notice"
           \/ /\ turn.part # PartCount /\ UNCHANGED status
              /\ turn' = [turn EXCEPT !.part = @ + 1,
                                      !.pc = IF turn.what = "link" THEN "look" ELSE "authorise"]
BY DEF NextPart, Sends

LEMMA UnknownIs ==
    ASSUME turn.what \in Sends, Unknown
    PROVE  \/ End /\ turn.what = "confirmation"
           \/ Goto("request") /\ UNCHANGED status /\ turn.what = "notice"
           \/ Goto("unknown") /\ UNCHANGED status /\ LinkPart
           \/ turn' = Idle /\ UNCHANGED status
BY DEF Unknown, Sends, LinkPart

-----------------------------------------------------------------------------
(* Types *)

LEMMA CountType == PartCount \in {1, Parts} /\ 1 \in 1..Parts /\ Parts \in 2..4
BY TurnAssumption DEF PartCount

LEMMA TurnType ==
    ASSUME turn \in Turn
    PROVE  /\ Idle \in Turn
           /\ \A pc \in Places : [turn EXCEPT !.pc = pc] \in Turn
           /\ \A pc \in Places, what \in Sends :
                 [turn EXCEPT !.what = what, !.part = 1, !.pc = pc, !.started = FALSE] \in Turn
<1>1. Idle \in Turn
  BY CountType, TurnAssumption DEF Turn, Idle, Places, Sends, NoMessage
<1>2. ASSUME NEW pc \in Places PROVE [turn EXCEPT !.pc = pc] \in Turn
  BY <1>2 DEF Turn
<1>3. ASSUME NEW pc \in Places, NEW what \in Sends
      PROVE  [turn EXCEPT !.what = what, !.part = 1, !.pc = pc, !.started = FALSE] \in Turn
  <2>1. 1 \in 0..Parts
    BY CountType
  <2>2. what \in {"none", "confirmation", "notice", "link", "reply1", "reply"}
    BY DEF Sends
  <2> HIDE DEF Sends
  <2> QED BY <2>1, <2>2 DEF Turn
<1> QED BY <1>1, <1>2, <1>3

Closing(to) == status' = [m \in Messages |-> IF m \in Batch THEN to ELSE status[m]]

LEMMA StatusType ==
    ASSUME TypeOK, NEW to \in {"done", "failed"}, Closing(to)
    PROVE  status' \in [Messages -> {"none", "pending", "done", "failed"}]
BY DEF TypeOK, Closing

\* An action that moves the turn and closes its batch at most.
LEMMA MoveType ==
    ASSUME TypeOK, turn' \in Turn,
           UNCHANGED status \/ Closing("done") \/ Closing("failed"),
           UNCHANGED <<text, hook, base, chat, files, issuance, late, bounds>>
    PROVE  TypeOK'
<1>1. status' \in [Messages -> {"none", "pending", "done", "failed"}]
  BY StatusType DEF TypeOK
<1> QED BY <1>1 DEF TypeOK, base, chat, files, bounds

LEMMA RefusedType ==
    ASSUME TypeOK, turn.what \in Sends,
           NEW reason \in {"durable_automation_stop", "team", "lead", "agent", "incomplete",
                           "denied", "blocked_conversation"},
           Refused(reason)
    PROVE  turn' \in Turn /\ (UNCHANGED status \/ Closing("done"))
<1>1. turn \in Turn
  BY DEF TypeOK
<1>2. CASE End
  BY <1>1, <1>2, TurnType DEF End, Closing
<1>3. CASE Goto("request") /\ UNCHANGED status
  BY <1>1, <1>3, TurnType DEF Goto, Places
<1>4. CASE turn' = [turn EXCEPT !.pc = "why", !.reason = reason] /\ UNCHANGED status
  BY <1>1, <1>4 DEF Turn, Places
<1> QED BY <1>2, <1>3, <1>4, RefusedIs

LEMMA NextPartType ==
    ASSUME TypeOK, turn.what \in Sends, turn.part \in 1..PartCount, NextPart
    PROVE  turn' \in Turn /\ (UNCHANGED status \/ Closing("done"))
<1>1. turn \in Turn
  BY DEF TypeOK
<1>2. CASE End
  BY <1>1, <1>2, TurnType DEF End, Closing
<1>3. CASE (Goto("request") \/ Goto("accept")) /\ UNCHANGED status
  BY <1>1, <1>3, TurnType DEF Goto, Places
<1>4. CASE /\ turn.part # PartCount /\ UNCHANGED status
           /\ turn' = [turn EXCEPT !.part = @ + 1,
                                   !.pc = IF turn.what = "link" THEN "look" ELSE "authorise"]
  <2>1. turn.part + 1 \in 0..Parts
    BY <1>4, CountType
  <2> QED BY <2>1, <1>1, <1>4 DEF Turn, Places
<1> QED BY <1>2, <1>3, <1>4, NextPartIs

LEMMA UnknownType ==
    ASSUME TypeOK, turn.what \in Sends, Unknown
    PROVE  turn' \in Turn /\ (UNCHANGED status \/ Closing("done"))
<1>1. turn \in Turn
  BY DEF TypeOK
<1>2. CASE End \/ (turn' = Idle /\ UNCHANGED status)
  BY <1>1, <1>2, TurnType DEF End, Closing
<1>3. CASE (Goto("request") \/ Goto("unknown")) /\ UNCHANGED status
  BY <1>1, <1>3, TurnType DEF Goto, Places
<1> QED BY <1>2, <1>3, UnknownIs

\* The post of a part at hand.
LEMMA PostType ==
    ASSUME TypeOK, trigger \in Messages, turn.what \in Sends, turn.part \in 1..PartCount
    PROVE  /\ Post(turn.part) \in Message
           /\ Marker(Post(turn.part)) \in Messages \X (1..Parts) \X {1, Parts}
           /\ Marker(Post(turn.part)) = <<trigger, turn.part, PartCount>>
<1>1. turn.part \in 0..Parts /\ turn.part \in 1..Parts /\ PartCount \in 0..Parts
      /\ trigger \in 0..MaxMessages
  BY CountType, TurnAssumption DEF Messages
<1> QED BY <1>1, CountType DEF Post, Marker, Message, Sends

-----------------------------------------------------------------------------
(* What a step leaves as it was *)

LEMMA SameTalk ==
    ASSUME log' = log
    PROVE  /\ \A t : Advanced(t)' <=> Advanced(t)
           /\ \A marker : Posted(marker)' <=> Posted(marker)
           /\ ToSet(log)' = ToSet(log)
BY DEF Advanced, Behind, From, Posted, Marker, ToSet

LEMMA SameHeard ==
    ASSUME UNCHANGED <<text, status>>
    PROVE  \A m : Heard(m)' <=> Heard(m)
BY DEF Heard

\* A turn with something to send has heard every stop of its batch, or recorded one.
LEMMA SendHeard ==
    ASSUME IInv, turn.what # "none"
    PROVE  trigger \in Messages /\ turn.what \in Sends /\ (optedOut \/ Heard(trigger))
<1>1. turn.what \in Sends
  BY DEF IInv, Standing, TypeOK, Turn, Sends
<1>2. turn.pc # "idle"
  BY DEF IInv, TurnInv, PlaceSound
<1>3. trigger \in Messages
  BY <1>2 DEF IInv, TurnInv, LeadPending
<1>4. CASE turn.what = "confirmation"
  BY <1>1, <1>3, <1>4 DEF IInv, TurnInv, ResultSound
<1>5. CASE turn.what # "confirmation"
  <2>1. proposal[trigger] # "none"
    BY <1>1, <1>5 DEF IInv, TurnInv, ResultSound, Replies, Sends
  <2> QED BY <2>1, <1>1, <1>3 DEF IInv, Standing, ProposalHeard
<1> QED BY <1>4, <1>5

\* Messages may be closed once the stops among them are recorded, or given up.
LEMMA ClosingKeeps ==
    ASSUME IInv, UNCHANGED <<text, proposal>>, optedOut => optedOut',
           \/ UNCHANGED status
           \/ Closing("failed")
           \/ Closing("done") /\ (optedOut' \/ Heard(trigger))
    PROVE  ArrivalOrder' /\ ProposalHeard' /\ StopIsRecorded'
<1> USE DEF IInv, Standing
<1>1. \A m \in Messages : /\ (status'[m] = "none") <=> (status[m] = "none")
                          /\ status'[m] = "pending" => status[m] = "pending"
                          /\ status'[m] = "done" => \/ status[m] = "done"
                                                    \/ m \in Batch /\ Closing("done")
  BY DEF Closing, Batch
<1>2. \A m \in Messages : \A n \in 1..m : n \in Messages
  BY TurnAssumption DEF Messages
<1>3. \A m \in Messages : \A n \in 1..(m - 1) : n \in Messages
  BY TurnAssumption DEF Messages
<1>4. ArrivalOrder'
  BY <1>1, <1>3 DEF ArrivalOrder
<1>5. ProposalHeard'
  BY <1>1, <1>2 DEF ProposalHeard, Heard
<1>6. StopIsRecorded'
  <2> SUFFICES ASSUME NEW m \in Messages, status'[m] = "done", text[m] = "stop"
               PROVE  optedOut'
    BY DEF StopIsRecorded
  <2>1. CASE status[m] = "done"
    BY <2>1 DEF StopIsRecorded
  <2>2. CASE m \in Batch /\ Closing("done")
    <3>1. m \in 1..trigger /\ status[m] = "pending"
      BY <2>2, TurnAssumption DEF Batch, Messages, TypeOK, Turn
    <3>2. ~Heard(trigger)
      BY <3>1 DEF Heard
    <3>3. ~Closing("failed") /\ ~UNCHANGED status
      <4>1. status'[m] = "done"
        OBVIOUS
      <4>2. ASSUME Closing("failed") PROVE FALSE
        BY <4>1, <4>2, <2>2 DEF Closing
      <4> QED BY <4>1, <4>2, <3>1
    <3> QED BY <3>2, <3>3
  <2> QED BY <1>1, <2>1, <2>2
<1> QED BY <1>4, <1>5, <1>6

LEMMA TalkKeeps ==
    ASSUME IInv, UNCHANGED <<log, wire, journal, proposal>>
    PROVE  JournalSound' /\ WireOrder' /\ PartsOnceInOrder'
<1> USE DEF IInv, Standing
<1>1. JournalSound'
  BY SameTalk DEF JournalSound, PostSound, Marker
<1>2. WireOrder'
  BY SameTalk DEF WireOrder
<1>3. PartsOnceInOrder'
  BY DEF PartsOnceInOrder, Marker
<1> QED BY <1>1, <1>2, <1>3

LEMMA LedgerKeeps ==
    ASSUME IInv, UNCHANGED <<log, wire, issuance>>
    PROVE  LinkAccounted'
BY DEF IInv, Standing, LinkAccounted, LinkSent, ToSet

LEMMA LateKeeps ==
    ASSUME IInv, UNCHANGED <<log, late, label, assignee, proposal>>,
           human /\ unattended => human' /\ unattended'
    PROVE  LateStuck' /\ OvertakenOnce'
<1> USE DEF IInv, Standing
<1>1. LateStuck'
  BY SameTalk DEF LateStuck, Stuck, Taken
<1>2. OvertakenOnce'
  BY DEF OvertakenOnce
<1> QED BY <1>1, <1>2

\* A step that moves the turn, and closes its batch at most.
LEMMA MovesKeep ==
    ASSUME IInv, TypeOK', UNCHANGED <<text, chat, files, issuance, late>>,
           optedOut => optedOut', human /\ unattended => human' /\ unattended',
           \/ UNCHANGED status
           \/ Closing("failed")
           \/ Closing("done") /\ (optedOut' \/ Heard(trigger))
    PROVE  Standing'
<1>1. UNCHANGED <<log, wire, journal, proposal, issuance, label, assignee>>
  BY DEF chat, files
<1> QED BY <1>1, ClosingKeeps, TalkKeeps, LedgerKeeps, LateKeeps DEF Standing

\* A part that was not sent, or is in the conversation, leaves what stands standing.
LEMMA EndKeeps ==
    ASSUME IInv, turn.what # "none", UNCHANGED status \/ Closing("done"), turn' \in Turn,
           UNCHANGED <<text, hook, base, chat, files, issuance, late, bounds>>
    PROVE  Standing'
<1>1. TypeOK'
  BY MoveType DEF IInv, Standing
<1>2. UNCHANGED <<optedOut, human, unattended>>
  BY DEF base
<1> QED BY <1>1, <1>2, SendHeard, MovesKeep

LEMMA IdleIsSound == ASSUME turn' = Idle PROVE TurnInv'
BY DEF TurnInv, LeadPending, PlaceSound, ResultSound, PartSound, ReadSound, Idle, Replies, LinkPart

\* Where the turn goes when its part was not sent.
LEMMA RefusedKeeps ==
    ASSUME IInv, turn.what # "none",
           NEW reason \in {"durable_automation_stop", "team", "lead", "agent", "incomplete",
                           "denied", "blocked_conversation"},
           Refused(reason),
           UNCHANGED <<text, hook, base, chat, files, issuance, late, bounds>>
    PROVE  IInv'
<1>1. trigger \in Messages /\ turn.what \in Sends
  BY SendHeard
<1>2. Standing'
  <2>1. TypeOK
    BY DEF IInv, Standing
  <2> QED BY <2>1, <1>1, RefusedType, EndKeeps
<1>3. CASE End
  BY <1>2, <1>3, IdleIsSound DEF End, IInv
<1>4. CASE Goto("request") /\ UNCHANGED status /\ turn.what = "notice"
  <2>1. turn' = [turn EXCEPT !.pc = "request"] /\ turn \in Turn
        /\ UNCHANGED <<proposal, issuance, status>> /\ turn.pc # "idle"
    BY <1>4 DEF Goto, IInv, Standing, TypeOK, files, TurnInv, PlaceSound
  <2>2. LeadPending'
    BY <2>1 DEF LeadPending, IInv, TurnInv, Turn, trigger
  <2>3. turn.part = 1 /\ PartCount = 1 /\ ~turn.started
    <3>1. PartCount = 1
      BY <1>4 DEF PartCount, Alone
    <3>2. turn.pc \in Places
      BY <2>1 DEF Turn
    <3>3. turn.part \in 1..PartCount
      BY <1>4, <3>2 DEF IInv, TurnInv, PlaceSound, Places
    <3> QED BY <1>4, <3>1, <3>3 DEF IInv, TurnInv, PartSound
  <2>4. PlaceSound'
    BY <1>4, <2>1, <2>3 DEF PlaceSound, Turn, PartCount, Alone
  <2>5. ResultSound'
    BY <1>4, <2>1, SameHeard DEF ResultSound, Turn, IInv, TurnInv, Replies, trigger
  <2>6. PartSound' /\ ReadSound'
    BY <1>4, <2>1, <2>3 DEF PartSound, ReadSound, Turn, Replies
  <2> QED BY <1>2, <2>2, <2>4, <2>5, <2>6 DEF IInv, TurnInv
<1>5. CASE /\ turn' = [turn EXCEPT !.pc = "why", !.reason = reason]
           /\ UNCHANGED status /\ turn.what = "link"
  <2>1. turn \in Turn /\ UNCHANGED <<proposal, issuance, status>> /\ turn.pc # "idle"
    BY <1>5 DEF IInv, Standing, TypeOK, files, TurnInv, PlaceSound
  <2>2. turn'.pc = "why" /\ UNCHANGED <<turn.trigger, turn.what, turn.part, turn.started>>
    BY <1>5, <2>1 DEF Turn
  <2>3. LeadPending'
    BY <2>1, <2>2 DEF LeadPending, IInv, TurnInv, trigger
  <2>4. PlaceSound'
    <3>1. turn.pc \in Places
      BY <2>1 DEF Turn
    <3>2. turn.part \in 1..PartCount
      BY <1>5, <3>1 DEF IInv, TurnInv, PlaceSound, Places
    <3> QED BY <1>5, <2>2, <3>2 DEF PlaceSound, PartCount
  <2>5. ResultSound'
    BY <1>5, <2>1, <2>2 DEF ResultSound, IInv, TurnInv, Replies, trigger
  <2>6. PartSound' /\ ReadSound'
    BY <1>5, <2>1, <2>2 DEF PartSound, ReadSound, IInv, TurnInv, Replies, trigger
  <2> QED BY <1>2, <2>3, <2>4, <2>5, <2>6 DEF IInv, TurnInv
<1> QED BY <1>1, <1>3, <1>4, <1>5, RefusedIs

Sending == {"authorise", "look", "read", "post", "reserve", "start_link", "accept", "unknown",
            "why", "notice", "request", "pause"}

\* A turn with something to send is at one of the places where it is sent.
LEMMA SendPlace ==
    ASSUME IInv, turn.what # "none"
    PROVE  /\ turn.pc \in Sending /\ turn.part \in 1..PartCount
           /\ trigger \in Messages /\ status[trigger] = "pending"
           /\ (turn.what = "link" => ~ (turn.what \in Alone))
           /\ (turn.what \in {"notice", "confirmation"} => PartCount = 1 /\ ~turn.started)
<1>1. turn \in Turn
  BY DEF IInv, Standing, TypeOK
<1>2. turn.pc \in Sending
  BY <1>1 DEF Turn, Places, Sending, IInv, TurnInv, PlaceSound
<1>3. turn.part \in 1..PartCount
  BY <1>2 DEF Sending, IInv, TurnInv, PlaceSound
<1>4. trigger \in Messages /\ status[trigger] = "pending"
  BY <1>2 DEF Sending, IInv, TurnInv, LeadPending
<1>5. turn.what \in {"notice", "confirmation"} => PartCount = 1 /\ ~turn.started
  BY DEF PartCount, Alone, IInv, TurnInv, PartSound
<1> QED BY <1>2, <1>3, <1>4, <1>5 DEF Alone

\* What a move within a send keeps.
LEMMA Goes ==
    ASSUME IInv, turn.what # "none", NEW pc \in Sending, Goto(pc),
           UNCHANGED <<status, text, optedOut, proposal, issuance>>
    PROVE  /\ turn'.pc = pc
           /\ UNCHANGED <<turn.trigger, turn.what, turn.part, turn.started, PartCount, LinkPart>>
           /\ turn'.what # "none" /\ turn'.part \in 1..PartCount'
           /\ LeadPending' /\ ResultSound'
           /\ (turn'.started => turn'.what = "link" /\ issuance'[trigger'] \in Begun)
<1>1. turn \in Turn
  BY DEF IInv, Standing, TypeOK
<1>2. turn'.pc = pc /\ UNCHANGED <<turn.trigger, turn.what, turn.part, turn.started>>
  BY <1>1 DEF Goto, Turn
<1>3. UNCHANGED <<PartCount, LinkPart, trigger>>
  BY <1>2 DEF PartCount, LinkPart, trigger
<1>4. LeadPending' /\ turn'.part \in 1..PartCount'
  BY <1>2, <1>3, SendPlace DEF LeadPending
<1>5. ResultSound'
  BY <1>2, <1>3, SameHeard DEF ResultSound, Sending, IInv, TurnInv
<1>6. turn'.started => turn'.what = "link" /\ issuance'[trigger'] \in Begun
  BY <1>2, <1>3 DEF IInv, TurnInv, PartSound
<1> QED BY <1>2, <1>3, <1>4, <1>5, <1>6

\* Behind its last part a reply ends, a notice goes on to the handoff and a link is
\* accepted; behind another part the next one is asked for from the start.
LEMMA NextPartSound ==
    ASSUME IInv, Standing', turn.what # "none", NextPart,
           UNCHANGED <<text, base, proposal, issuance>>,
           LinkPart => LinkSent(trigger, ToSet(log'))
    PROVE  TurnInv'
<1>1. turn.what \in Sends /\ turn \in Turn /\ UNCHANGED optedOut
  BY SendHeard DEF IInv, Standing, TypeOK, base
<1>2. CASE End
  BY <1>2, IdleIsSound DEF End
<1>3. CASE turn.part = PartCount /\ Goto("accept") /\ UNCHANGED status /\ turn.what = "link"
  <2>1. LinkPart /\ PartCount = Parts
    BY <1>3 DEF LinkPart, PartCount, Alone
  <2>2. "accept" \in Sending
    BY DEF Sending
  <2> DEFINE Went == /\ turn'.pc = "accept"
                     /\ UNCHANGED <<turn.trigger, turn.what, turn.part, turn.started,
                                    PartCount, LinkPart>>
                     /\ turn'.what # "none" /\ turn'.part \in 1..PartCount'
                     /\ (turn'.started => turn'.what = "link" /\ issuance'[trigger'] \in Begun)
  <2>3. Went /\ LeadPending' /\ ResultSound'
    BY <1>1, <1>3, <2>2, Goes
  <2>4. PlaceSound' /\ ReadSound'
    BY <2>1, <2>3, <1>3 DEF PlaceSound, ReadSound, Replies
  <2>5. LinkSent(trigger, ToSet(log))'
    BY <2>1, <2>3 DEF trigger
  <2>6. PartSound'
    BY <2>3, <2>5 DEF PartSound
  <2> QED BY <2>3, <2>4, <2>6 DEF TurnInv
<1>4. CASE turn.part = PartCount /\ Goto("request") /\ UNCHANGED status /\ turn.what = "notice"
  <2>1. "request" \in Sending
    BY DEF Sending
  <2>2. LeadPending' /\ ResultSound'
    BY <1>1, <1>4, <2>1, Goes
  <2>3. /\ turn'.pc = "request" /\ turn'.what = "notice" /\ ~turn'.started
        /\ turn'.part \in 1..PartCount'
    BY <1>1, <1>4, <2>1, Goes, SendPlace
  <2>4. PlaceSound' /\ ReadSound' /\ PartSound'
    BY <2>3 DEF PlaceSound, ReadSound, PartSound, Replies
  <2> QED BY <2>2, <2>4 DEF TurnInv
<1>5. CASE /\ turn.part # PartCount /\ UNCHANGED status
           /\ turn' = [turn EXCEPT !.part = turn.part + 1,
                                   !.pc = IF turn.what = "link" THEN "look" ELSE "authorise"]
  <2>1. /\ turn'.pc = (IF turn.what = "link" THEN "look" ELSE "authorise")
        /\ turn'.part = turn.part + 1
        /\ UNCHANGED <<turn.trigger, turn.what, turn.started>>
    BY <1>1, <1>5 DEF Turn
  <2>2. UNCHANGED <<PartCount, trigger>> /\ turn'.part \in 1..PartCount'
    <3>1. turn.part \in 1..PartCount /\ PartCount \in Nat
      BY SendPlace, CountType
    <3> QED BY <1>5, <2>1, <3>1 DEF PartCount, trigger
  <2>3. turn.what \in Replies \cup {"link"}
    <3>1. turn.what \notin {"notice", "confirmation"}
      <4>1. turn.part \in 1..PartCount
        BY SendPlace
      <4> QED BY <1>5, <4>1, SendPlace
    <3> QED BY <1>1, <3>1 DEF Sends, Replies
  <2>4. LeadPending' /\ PlaceSound'
    BY <1>5, <2>1, <2>2, <2>3, SendPlace DEF LeadPending, PlaceSound, Replies
  <2>5. ResultSound'
    BY <2>1, <2>2, <2>3 DEF ResultSound, Replies, IInv, TurnInv
  <2>6. PartSound'
    BY <2>1, <2>2 DEF PartSound, IInv, TurnInv
  <2>7. ReadSound'
    <3>1. CASE turn.what = "link"
      <4>1. trigger' \in Messages /\ proposal'[trigger'] \notin Replies
        BY <2>2, <2>5, <3>1, <2>1, SendPlace DEF ResultSound, Replies
      <4>2. late'[trigger'] > 0 => Taken(trigger)'
        BY <4>1 DEF Standing, LateStuck, Stuck
      <4> QED BY <2>1, <3>1, <4>2 DEF ReadSound, Replies
    <3>2. CASE turn.what # "link"
      BY <2>1, <3>2 DEF ReadSound
    <3> QED BY <3>1, <3>2
  <2> QED BY <2>4, <2>5, <2>6, <2>7 DEF TurnInv
<1> QED BY <1>1, <1>2, <1>3, <1>4, <1>5, NextPartIs

\* A part whose delivery is unknown leaves the turn closed, or to be retried.
LEMMA UnknownSound ==
    ASSUME IInv, turn.what # "none", Unknown, UNCHANGED <<text, base, proposal, issuance>>
    PROVE  TurnInv'
<1>1. turn.what \in Sends /\ UNCHANGED optedOut
  BY SendHeard DEF base
<1>2. CASE End \/ turn' = Idle
  BY <1>2, IdleIsSound DEF End
<1>3. CASE Goto("request") /\ UNCHANGED status /\ turn.what = "notice"
  <2>1. "request" \in Sending
    BY DEF Sending
  <2>2. LeadPending' /\ ResultSound'
    BY <1>1, <1>3, <2>1, Goes
  <2>3. /\ turn'.pc = "request" /\ turn'.what = "notice" /\ ~turn'.started
        /\ turn'.part \in 1..PartCount'
    BY <1>1, <1>3, <2>1, Goes, SendPlace
  <2>4. PlaceSound' /\ ReadSound' /\ PartSound'
    BY <2>3 DEF PlaceSound, ReadSound, PartSound, Replies
  <2> QED BY <2>2, <2>4 DEF TurnInv
<1>4. CASE Goto("unknown") /\ UNCHANGED status /\ LinkPart
  <2>1. "unknown" \in Sending
    BY DEF Sending
  <2>2. LeadPending' /\ ResultSound'
    BY <1>1, <1>4, <2>1, Goes
  <2>3. /\ turn'.pc = "unknown" /\ turn'.what = "link" /\ LinkPart'
        /\ turn'.part \in 1..PartCount' /\ (turn'.started => issuance'[trigger'] \in Begun)
    BY <1>1, <1>4, <2>1, Goes DEF LinkPart
  <2>4. PlaceSound' /\ ReadSound' /\ PartSound'
    BY <2>3 DEF PlaceSound, ReadSound, PartSound, Replies
  <2> QED BY <2>2, <2>4 DEF TurnInv
<1> QED BY <1>1, <1>2, <1>3, <1>4, UnknownIs

-----------------------------------------------------------------------------
(* Admission, resumption, stop and agent *)

Early == {"admit", "resume", "lift", "clear", "readmit", "only_stop", "history", "confirm",
          "agent"}

\* A move before there is anything to send.
LEMMA EarlySound ==
    ASSUME IInv, turn.pc \in Early, turn'.pc \in Early,
           UNCHANGED <<turn.trigger, turn.what, turn.started, status>>,
           turn'.pc = "agent" => Heard(trigger)',
           turn'.pc = "confirm" => optedOut' /\ ~Heard(trigger)'
    PROVE  TurnInv'
<1>1. turn.what = "none" /\ ~turn.started
  BY DEF IInv, TurnInv, PlaceSound, Early
<1>2. LeadPending'
  BY DEF Early, IInv, TurnInv, LeadPending, trigger
<1>3. PlaceSound'
  BY <1>1 DEF Early, PlaceSound
<1>4. ResultSound'
  BY <1>1 DEF Early, ResultSound, Replies
<1>5. PartSound' /\ ReadSound'
  BY <1>1 DEF Early, PartSound, ReadSound, LinkPart, Replies
<1> QED BY <1>2, <1>3, <1>4, <1>5 DEF TurnInv

LEMMA EarlyGoto ==
    ASSUME IInv, NEW pc \in Early, Goto(pc), turn.pc \in Early
    PROVE  /\ turn' \in Turn /\ turn'.pc = pc
           /\ UNCHANGED <<turn.trigger, turn.what, turn.started>>
<1>1. turn \in Turn /\ pc \in Places
  BY DEF IInv, Standing, TypeOK, Early, Places
<1> QED BY <1>1, TurnType DEF Goto, Turn

\* The moves that change nothing else.
LEMMA EarlyKeeps ==
    ASSUME IInv, turn.pc \in Early, NEW pc \in Early \ {"agent", "confirm"}, Goto(pc),
           UNCHANGED <<inbox, base, chat, files, issuance, late, bounds>>
    PROVE  IInv'
<1>1. /\ UNCHANGED <<text, status, hook, optedOut, human, unattended>>
  BY DEF inbox, base
<1>2. TypeOK'
  BY <1>1, EarlyGoto, MoveType DEF IInv, Standing
<1>3. Standing'
  BY <1>1, <1>2, MovesKeep
<1>4. TurnInv'
  <2>1. turn'.pc = pc /\ UNCHANGED <<turn.trigger, turn.what, turn.started>>
    BY EarlyGoto
  <2> QED BY <2>1, <1>1, EarlySound
<1> QED BY <1>3, <1>4 DEF IInv

LEMMA StartTurnKeeps == ASSUME IInv, StartTurn PROVE IInv'
<1>1. PICK m \in Messages : status[m] = "pending"
                            /\ turn' = [Idle EXCEPT !.pc = "admit", !.trigger = m]
  BY DEF StartTurn
<1>2. /\ UNCHANGED <<text, status, hook, optedOut, human, unattended>>
      /\ UNCHANGED <<base, chat, files, issuance, late, bounds>>
  BY DEF StartTurn, inbox, base
<1>3. turn' \in Turn
  <2>1. turn \in Turn
    BY DEF IInv, Standing, TypeOK
  <2>2. Idle \in Turn
    BY <2>1, TurnType
  <2>3. "admit" \in Places
    BY DEF Places
  <2>4. m \in 0..MaxMessages
    BY TurnAssumption DEF Messages
  <2> QED BY <1>1, <2>2, <2>3, <2>4 DEF Turn
<1>4. Standing'
  BY <1>2, <1>3, MoveType, MovesKeep DEF IInv, Standing
<1>5. /\ turn'.pc = "admit" /\ turn'.trigger = m /\ turn'.what = "none" /\ ~turn'.started
  BY <1>1 DEF Idle
<1>6. TurnInv'
  BY <1>1, <1>2, <1>5 DEF TurnInv, LeadPending, PlaceSound, ResultSound, PartSound, ReadSound,
                          trigger, LinkPart, Replies
<1> QED BY <1>4, <1>6 DEF IInv

LEMMA AdmitKeeps == ASSUME IInv, Admit PROVE IInv'
<1>1. /\ UNCHANGED <<text, status, hook, optedOut, human, unattended>>
      /\ UNCHANGED <<base, chat, files, issuance, late, bounds>>
  BY DEF Admit, inbox, base
<1>2. turn' = [turn EXCEPT !.pc = "resume", !.blocked = Blocked] /\ turn \in Turn
      /\ Blocked \in BOOLEAN
  BY DEF Admit, IInv, Standing, TypeOK, Blocked
<1>3. turn' \in Turn /\ turn'.pc = "resume"
      /\ UNCHANGED <<turn.trigger, turn.what, turn.started>>
  BY <1>2 DEF Turn, Places
<1>4. Standing'
  BY <1>1, <1>3, MoveType, MovesKeep DEF IInv, Standing
<1>5. TurnInv'
  BY <1>1, <1>3, EarlySound DEF Early, Admit
<1> QED BY <1>4, <1>5 DEF IInv

LEMMA LookAtPauseKeeps == ASSUME IInv, LookAtPause PROVE IInv'
<1>1. /\ UNCHANGED <<text, status, hook, optedOut, human, unattended>>
      /\ UNCHANGED <<inbox, base, chat, files, issuance, late, bounds>>
  BY DEF LookAtPause, inbox, base
<1>2. CASE turn' = [turn EXCEPT !.pc = "lift", !.labelled = label]
  <2>1. turn \in Turn /\ label \in BOOLEAN
    BY DEF IInv, Standing, TypeOK
  <2>2. turn' \in Turn /\ turn'.pc = "lift"
        /\ UNCHANGED <<turn.trigger, turn.what, turn.started>>
    BY <1>2, <2>1 DEF Turn, Places
  <2>3. Standing'
    BY <1>1, <2>2, MoveType, MovesKeep DEF IInv, Standing
  <2>4. TurnInv'
    BY <1>1, <2>2, EarlySound DEF Early, LookAtPause
  <2> QED BY <2>3, <2>4 DEF IInv
<1>3. CASE NotResumed
  <2>1. (IF turn.blocked THEN "only_stop" ELSE "history") \in Early \ {"agent", "confirm"}
    BY DEF Early
  <2>2. turn.pc \in Early
    BY DEF Early, LookAtPause
  <2> QED BY <1>1, <1>3, <2>1, <2>2, EarlyKeeps DEF NotResumed
<1> QED BY <1>2, <1>3 DEF LookAtPause

LEMMA ReadmitKeeps == ASSUME IInv, Readmit PROVE IInv'
<1>1. Admitted \in Early \ {"agent", "confirm"} /\ turn.pc \in Early
  BY DEF Early, Readmit, Admitted
<1> QED BY <1>1, EarlyKeeps DEF Readmit

LEMMA LiftMoves ==
    ASSUME Lifted \/ NotResumed
    PROVE  \E pc \in Early \ {"agent", "confirm"} : Goto(pc)
<1>1. {"clear", "readmit", "history", "only_stop"} \subseteq Early \ {"agent", "confirm"}
  BY DEF Early
<1>2. \E pc \in {"clear", "readmit", "history", "only_stop"} : Goto(pc)
  BY DEF Lifted, NotResumed
<1> QED BY <1>1, <1>2

\* One more resumption stays within the budget that was read.
LEMMA OneMoreResumed ==
    ASSUME TypeOK, trigger \in Messages, ~(Cardinality(resumedBy) >= MaxResumes)
    PROVE  /\ resumedBy \cup {trigger} \subseteq Messages
           /\ Cardinality(resumedBy \cup {trigger}) <= MaxResumes
<1>1. IsFiniteSet(Messages)
  BY TurnAssumption, FS_Interval DEF Messages
<1>2. IsFiniteSet(resumedBy) /\ resumedBy \subseteq Messages
  BY <1>1, FS_Subset DEF TypeOK
<1>3. /\ Cardinality(resumedBy) \in Nat
      /\ Cardinality(resumedBy \cup {trigger}) \in {Cardinality(resumedBy),
                                                    Cardinality(resumedBy) + 1}
  <2>1. Cardinality(resumedBy) \in Nat
    BY <1>2, FS_CardinalityType
  <2>2. CASE trigger \in resumedBy
    <3>1. resumedBy \cup {trigger} = resumedBy
      BY <2>2
    <3> QED BY <2>1, <3>1
  <2>3. CASE trigger \notin resumedBy
    BY <2>1, <2>3, <1>2, FS_AddElement
  <2> QED BY <2>2, <2>3
<1> QED BY <1>2, <1>3, TurnAssumption

\* The pause is lifted only over a handoff somebody attended.
LEMMA LiftKeeps == ASSUME IInv, Lift PROVE IInv'
<1>1. PICK pc \in Early \ {"agent", "confirm"} : Goto(pc)
  BY LiftMoves DEF Lift
<1>2. /\ UNCHANGED <<inbox, text, status, hook, unattended, requested, optedOut>>
      /\ UNCHANGED <<chat, files, issuance, late, people>>
  BY DEF Lift, inbox
<1>3. turn.pc \in Early /\ trigger \in Messages
  BY DEF Lift, Early, IInv, TurnInv, LeadPending
<1>4. turn' \in Turn /\ turn'.pc = pc /\ UNCHANGED <<turn.trigger, turn.what, turn.started>>
  BY <1>1, <1>3, EarlyGoto
<1>5. /\ human' \in BOOLEAN /\ faults' \in 0..MaxFaults
      /\ resumedBy' \subseteq Messages /\ Cardinality(resumedBy') <= MaxResumes
      /\ (human /\ unattended => human' /\ unattended')
  <2>1. /\ human \in BOOLEAN /\ faults \in 0..MaxFaults
        /\ resumedBy \subseteq Messages /\ Cardinality(resumedBy) <= MaxResumes
    BY DEF IInv, Standing, TypeOK
  <2>2. CASE UNCHANGED <<human, resumedBy, faults>>
    BY <2>1, <2>2, <1>2
  <2>3. CASE ~UNCHANGED <<human, resumedBy, faults>>
    <3>1. /\ ~(Cardinality(resumedBy) >= MaxResumes) /\ ~unattended /\ human' = FALSE
          /\ resumedBy' \in {resumedBy, resumedBy \cup {trigger}}
          /\ UNCHANGED faults \/ (faults < MaxFaults /\ faults' = faults + 1)
      BY <2>3 DEF Lift
    <3>2. faults' \in 0..MaxFaults
      BY <2>1, <3>1, TurnAssumption
    <3>3. resumedBy' \subseteq Messages /\ Cardinality(resumedBy') <= MaxResumes
      BY <2>1, <3>1, <1>3, OneMoreResumed DEF IInv, Standing
    <3> QED BY <3>1, <3>2, <3>3
  <2> QED BY <2>2, <2>3
<1>6. TypeOK'
  BY <1>2, <1>4, <1>5 DEF IInv, Standing, TypeOK, chat, files
<1>7. Standing'
  BY <1>2, <1>5, <1>6, MovesKeep
<1>8. TurnInv'
  BY <1>2, <1>3, <1>4, EarlySound
<1> QED BY <1>7, <1>8 DEF IInv

\* Taking the label off frees the conversation: what was posted over it is forgotten.
LEMMA ClearLabelKeeps == ASSUME IInv, ClearLabel PROVE IInv'
<1>1. PICK pc \in {"readmit", "history", "only_stop"} : Goto(pc)
  BY DEF ClearLabel, NotResumed
<1>2. /\ UNCHANGED <<text, status, hook, base, human, unattended, optedOut>>
      /\ UNCHANGED <<log, assignee, wire, journal, proposal, issuance, people>>
  BY DEF ClearLabel, inbox, base, files
<1>3. turn.pc \in Early /\ pc \in Early \ {"agent", "confirm"}
  BY DEF ClearLabel, Early
<1>4. turn' \in Turn /\ turn'.pc = pc /\ UNCHANGED <<turn.trigger, turn.what, turn.started>>
  BY <1>1, <1>3, EarlyGoto
<1>5. label' \in BOOLEAN /\ faults' \in 0..MaxFaults
  <2>1. label \in BOOLEAN /\ faults \in 0..MaxFaults
    BY DEF IInv, Standing, TypeOK
  <2>2. label' \in {FALSE, label} /\ (UNCHANGED faults \/ (faults < MaxFaults /\ faults' = faults + 1))
    BY DEF ClearLabel
  <2>3. faults' \in 0..MaxFaults
    BY <2>1, <2>2, TurnAssumption
  <2> QED BY <2>1, <2>2, <2>3
<1>6. \/ UNCHANGED <<label, late>>
      \/ late' = [m \in Messages |-> 0]
  BY DEF ClearLabel
<1>7. late' \in [Messages -> Nat]
  BY <1>6 DEF IInv, Standing, TypeOK
<1>8. TypeOK'
  BY <1>2, <1>4, <1>5, <1>7 DEF IInv, Standing, TypeOK, base
<1>9. LateStuck' /\ OvertakenOnce'
  <2>1. CASE UNCHANGED <<label, late>>
    BY <1>2, <2>1, LateKeeps
  <2>2. CASE late' = [m \in Messages |-> 0]
    BY <2>2 DEF LateStuck, OvertakenOnce
  <2> QED BY <1>6, <2>1, <2>2
<1>10. Standing'
  BY <1>2, <1>8, <1>9, ClosingKeeps, TalkKeeps, LedgerKeeps DEF Standing
<1>11. TurnInv'
  BY <1>2, <1>3, <1>4, EarlySound
<1> QED BY <1>10, <1>11 DEF IInv

\* Without a stop in its batch, a turn has heard every stop up to its trigger.
LEMMA BatchHeard ==
    ASSUME IInv, trigger \in Messages
    PROVE  StopInBatch <=> ~Heard(trigger)
<1>1. \A n \in Messages : n <= trigger <=> n \in 1..trigger
  BY TurnAssumption DEF Messages
<1>2. 1..trigger \subseteq Messages
  BY TurnAssumption DEF Messages
<1>3. Batch = {n \in 1..trigger : status[n] = "pending"}
  BY <1>1, <1>2 DEF Batch
<1>4. StopInBatch <=> \E n \in 1..trigger : status[n] = "pending" /\ text[n] = "stop"
  BY <1>3 DEF StopInBatch
<1> QED BY <1>4 DEF Heard

\* The stop is recorded before its batch is closed, and before the agent is asked.
LEMMA HistoryKeeps == ASSUME IInv, History PROVE IInv'
<1>1. /\ UNCHANGED <<text, hook, human, unattended, requested, resumedBy>>
      /\ UNCHANGED <<chat, files, issuance, late, bounds>>
      /\ turn.pc \in Early /\ turn.pc # "idle"
  BY DEF History, Early
<1>2. trigger \in Messages
  BY <1>1 DEF IInv, TurnInv, LeadPending
<1>3. \/ End /\ (optedOut' \/ Heard(trigger)) /\ optedOut' \in {optedOut, TRUE}
      \/ Goto("confirm") /\ UNCHANGED status /\ optedOut' = TRUE /\ ~Heard(trigger)
      \/ Goto("agent") /\ UNCHANGED <<status, optedOut>> /\ Heard(trigger)
  <2>1. optedOut \in BOOLEAN /\ (StopInBatch <=> ~Heard(trigger))
    BY <1>2, BatchHeard DEF IInv, Standing, TypeOK
  <2>2. CASE turn.pc = "only_stop" /\ (optedOut \/ ~StopInBatch)
    BY <2>1, <2>2 DEF History
  <2>3. CASE ~(turn.pc = "only_stop" /\ (optedOut \/ ~StopInBatch)) /\ StopInBatch
    BY <2>1, <2>3 DEF History
  <2>4. CASE ~(turn.pc = "only_stop" /\ (optedOut \/ ~StopInBatch)) /\ ~StopInBatch
    BY <2>1, <2>4 DEF History
  <2> QED BY <2>2, <2>3, <2>4
<1>4. /\ optedOut' \in {optedOut, TRUE}
      /\ UNCHANGED status \/ (Closing("done") /\ (optedOut' \/ Heard(trigger)))
  BY <1>3 DEF End, Closing
<1>5. turn' \in Turn
  <2>1. turn \in Turn /\ "confirm" \in Early /\ "agent" \in Early
    BY DEF IInv, Standing, TypeOK, Early
  <2>2. CASE turn' = Idle
    BY <2>1, <2>2, TurnType
  <2>3. CASE Goto("confirm") \/ Goto("agent")
    BY <2>1, <2>3, <1>1, EarlyGoto
  <2> QED BY <1>3, <2>2, <2>3 DEF End
<1>6. TypeOK'
  <2>1. TypeOK /\ optedOut' \in BOOLEAN
    BY <1>4 DEF IInv, Standing, TypeOK
  <2>2. status' \in [Messages -> {"none", "pending", "done", "failed"}]
    BY <1>4, <2>1, StatusType DEF TypeOK
  <2> QED BY <1>1, <1>5, <2>1, <2>2 DEF TypeOK, chat, files, bounds
<1>7. Standing'
  <2>1. optedOut => optedOut'
    BY <1>4
  <2>2. human /\ unattended => human' /\ unattended'
    BY <1>1
  <2> QED BY <1>1, <1>4, <1>6, <2>1, <2>2, MovesKeep
<1>8. CASE End
  BY <1>7, <1>8, IdleIsSound DEF End, IInv
<1>9. CASE Goto("confirm") /\ UNCHANGED status /\ optedOut' = TRUE /\ ~Heard(trigger)
  <2>1. turn'.pc = "confirm" /\ UNCHANGED <<turn.trigger, turn.what, turn.started>>
    BY <1>1, <1>9, EarlyGoto DEF Early
  <2>2. ~Heard(trigger)'
    BY <1>1, <1>9, <2>1, SameHeard DEF trigger
  <2> QED BY <1>1, <1>7, <1>9, <2>1, <2>2, EarlySound DEF IInv, Early
<1>10. CASE Goto("agent") /\ UNCHANGED <<status, optedOut>> /\ Heard(trigger)
  <2>1. turn'.pc = "agent" /\ UNCHANGED <<turn.trigger, turn.what, turn.started>>
    BY <1>1, <1>10, EarlyGoto DEF Early
  <2>2. Heard(trigger)'
    BY <1>1, <1>10, <2>1, SameHeard DEF trigger
  <2> QED BY <1>1, <1>7, <1>10, <2>1, <2>2, EarlySound DEF IInv, Early
<1> QED BY <1>3, <1>8, <1>9, <1>10

\* What a send begins with.
LEMMA SendIs ==
    ASSUME IInv, trigger \in Messages, NEW what \in Sends, NEW pc \in Sending, Send(what, pc)
    PROVE  /\ turn' \in Turn /\ turn'.pc = pc /\ turn'.what = what /\ turn'.part = 1
           /\ ~turn'.started /\ UNCHANGED <<turn.trigger, trigger>>
           /\ turn'.part \in 1..PartCount'
<1>1. turn \in Turn /\ pc \in Places
  BY DEF IInv, Standing, TypeOK, Sending, Places
<1>2. turn' = [turn EXCEPT !.what = what, !.part = 1, !.pc = pc, !.started = FALSE]
  BY DEF Send
<1>3. /\ turn'.pc = pc /\ turn'.what = what /\ turn'.part = 1
      /\ ~turn'.started /\ UNCHANGED <<turn.trigger, trigger>>
  BY <1>1, <1>2 DEF Turn, trigger
<1>4. turn' \in Turn
  BY <1>1, <1>2, TurnType
<1>5. turn'.part \in 1..PartCount'
  BY <1>3, CountType DEF PartCount
<1> QED BY <1>3, <1>4, <1>5

LEMMA ConfirmKeeps == ASSUME IInv, Confirm PROVE IInv'
<1>1. /\ UNCHANGED <<text, hook, base, chat, files, issuance, late, bounds>>
      /\ UNCHANGED <<human, unattended, optedOut>>
      /\ turn.pc = "confirm"
  BY DEF Confirm, base
<1>2. trigger \in Messages /\ status[trigger] = "pending" /\ optedOut /\ ~Heard(trigger)
  BY <1>1 DEF IInv, TurnInv, LeadPending, ResultSound
<1>3. CASE End
  <2>1. turn' \in Turn /\ Closing("done")
    BY <1>3, TurnType DEF End, Closing, IInv, Standing, TypeOK
  <2>2. TypeOK'
    BY <1>1, <2>1, MoveType DEF IInv, Standing
  <2> QED BY <1>1, <1>2, <1>3, <2>1, <2>2, MovesKeep, IdleIsSound DEF End, IInv
<1>4. CASE Send("confirmation", "look") /\ UNCHANGED status
  <2>1. /\ turn' \in Turn /\ turn'.pc = "look" /\ turn'.what = "confirmation"
        /\ ~turn'.started /\ UNCHANGED <<turn.trigger, trigger>> /\ turn'.part \in 1..PartCount'
    BY <1>2, <1>4, SendIs DEF Sends, Sending
  <2>2. TypeOK'
    BY <1>1, <1>4, <2>1, MoveType DEF IInv, Standing
  <2>3. Standing'
    BY <1>1, <1>4, <2>2, MovesKeep
  <2>4. LeadPending' /\ PlaceSound' /\ PartSound'
    BY <1>2, <1>4, <2>1 DEF LeadPending, PlaceSound, PartSound
  <2>5. ResultSound'
    BY <1>1, <1>2, <1>4, <2>1, SameHeard DEF ResultSound, Replies
  <2>6. ReadSound'
    <3>1. late[trigger] > 0 => Taken(trigger)
      BY <1>2 DEF IInv, Standing, LateStuck, Stuck, ProposalHeard, Replies
    <3>2. UNCHANGED <<log, label, assignee, late>>
      BY <1>1 DEF chat
    <3>3. Taken(trigger)' <=> Taken(trigger)
      BY <2>1, <3>2, SameTalk DEF Taken
    <3> QED BY <2>1, <3>1, <3>2, <3>3 DEF ReadSound, Replies
  <2> QED BY <2>3, <2>4, <2>5, <2>6 DEF IInv, TurnInv
<1> QED BY <1>3, <1>4 DEF Confirm

LEMMA TurnFailsKeeps == ASSUME IInv, TurnFails PROVE IInv'
<1>1. /\ UNCHANGED <<text, hook, base, human, unattended, optedOut, chat, files, issuance, late, people>>
      /\ turn' = Idle /\ faults < MaxFaults /\ faults' = faults + 1
      /\ (UNCHANGED status \/ Closing("failed"))
  BY DEF TurnFails, Closing, base
<1>2. TypeOK'
  <2>1. TypeOK
    BY DEF IInv, Standing
  <2>2. status' \in [Messages -> {"none", "pending", "done", "failed"}]
    BY <1>1, <2>1, StatusType DEF TypeOK
  <2>3. faults' \in 0..MaxFaults
    BY <1>1, <2>1, TurnAssumption DEF TypeOK
  <2>4. turn' \in Turn
    BY <1>1, <2>1, TurnType DEF TypeOK
  <2> QED BY <1>1, <2>1, <2>2, <2>3, <2>4 DEF TypeOK, base, chat, files
<1> QED BY <1>1, <1>2, MovesKeep, IdleIsSound DEF IInv

\* A retry takes the result that is there: no post of the trigger changes its kind.
LEMMA AgentKeeps == ASSUME IInv, Agent PROVE IInv'
<1>1. PICK p \in {"reply1", "reply", "handoff", "link"} :
          /\ proposal[trigger] \in {"none", p}
          /\ proposal' = [proposal EXCEPT ![trigger] = p]
          /\ \/ p = "handoff" /\ Send("notice", "notice")
             \/ p = "link" /\ Send("link", "reserve")
             \/ p \in {"reply1", "reply"} /\ Send(p, "authorise")
  BY DEF Agent
<1>2. /\ UNCHANGED <<text, status, hook, base, human, unattended, optedOut, chat, log, label>>
      /\ UNCHANGED <<assignee, wire, journal, issuance, late, bounds>>
      /\ turn.pc = "agent"
  BY DEF Agent, inbox, base, chat
<1>3. trigger \in Messages /\ status[trigger] = "pending" /\ Heard(trigger)
  BY <1>2 DEF IInv, TurnInv, LeadPending, ResultSound
<1>4. PICK what \in Sends, pc \in Sending :
          /\ Send(what, pc)
          /\ \/ what = "notice" /\ pc = "notice" /\ p = "handoff"
             \/ what = "link" /\ pc = "reserve" /\ p = "link"
             \/ what = p /\ pc = "authorise" /\ p \in Replies
  BY <1>1 DEF Sends, Sending, Replies
<1>5. /\ turn' \in Turn /\ turn'.pc = pc /\ turn'.what = what /\ turn'.part = 1
      /\ ~turn'.started /\ UNCHANGED <<turn.trigger, trigger>> /\ turn'.part \in 1..PartCount'
  BY <1>3, <1>4, SendIs
<1>6. TypeOK
  BY DEF IInv, Standing
<1>7. /\ proposal' \in [Messages -> {"none", "reply1", "reply", "handoff", "link"}]
      /\ proposal'[trigger] = p
      /\ \A t \in Messages : proposal[t] # "none" => proposal'[t] = proposal[t]
      /\ \A t \in Messages \ {trigger} : proposal'[t] = proposal[t]
  BY <1>1, <1>3, <1>6 DEF TypeOK
<1>8. TypeOK'
  BY <1>2, <1>5, <1>6, <1>7 DEF TypeOK, base, bounds
<1>9. ArrivalOrder' /\ StopIsRecorded' /\ LinkAccounted' /\ WireOrder' /\ OvertakenOnce'
  BY <1>2, SameTalk DEF IInv, Standing, ArrivalOrder, StopIsRecorded, LinkAccounted, LinkSent,
                        ToSet, WireOrder, OvertakenOnce
<1>10. PartsOnceInOrder'
  BY <1>2 DEF IInv, Standing, PartsOnceInOrder, Marker
<1>11. ProposalHeard'
  <2> SUFFICES ASSUME NEW t \in Messages, proposal'[t] # "none"
               PROVE  status'[t] # "none" /\ Heard(t)'
    BY DEF ProposalHeard
  <2>1. status[t] # "none" /\ Heard(t)
    BY <1>3, <1>7 DEF IInv, Standing, ProposalHeard
  <2> QED BY <1>2, <2>1, SameHeard
<1>12. JournalSound'
  <2>1. ASSUME NEW q, PostSound(q) PROVE PostSound(q)'
    <3>1. /\ q.from = "agent" /\ q.of \in Messages /\ q.part \in 1..q.parts
          /\ Marker(q) \in journal
          /\ q.parts = Parts => q.kind = proposal[q.of] /\ q.kind # "none"
      BY <2>1 DEF PostSound
    <3>2. q.parts = Parts => q.kind = proposal'[q.of] /\ q.kind # "none"
      BY <3>1, <1>7
    <3>3. Marker(q)' \in journal'
      BY <1>2, <3>1 DEF Marker
    <3> QED BY <3>1, <3>2, <3>3 DEF PostSound
  <2>2. \A i \in DOMAIN log : log[i].from = "agent" => PostSound(log[i])'
    BY <1>2, <2>1 DEF IInv, Standing, JournalSound
  <2>3. \A q \in wire : PostSound(q)' /\ ~Posted(Marker(q))'
    BY <1>2, <2>1, SameTalk DEF IInv, Standing, JournalSound, Marker
  <2>4. \A q, r \in wire : Marker(q) = Marker(r) => q = r
    BY DEF IInv, Standing, JournalSound
  <2> QED BY <1>2, <2>2, <2>3, <2>4 DEF JournalSound, PostSound, Marker
<1>13. LateStuck'
  <2> SUFFICES ASSUME NEW t \in Messages, late'[t] > 0 PROVE Stuck(t)'
    BY DEF LateStuck
  <2>1. Stuck(t)
    BY <1>2 DEF IInv, Standing, LateStuck
  <2>2. proposal[t] \in Replies => proposal'[t] \in Replies
    BY <1>7 DEF Replies
  <2> QED BY <1>2, <2>1, <2>2, SameTalk DEF Stuck, Taken
<1>14. LeadPending' /\ PlaceSound' /\ PartSound' /\ ReadSound'
  BY <1>2, <1>3, <1>4, <1>5 DEF LeadPending, PlaceSound, PartSound, ReadSound, Replies
<1>15. ResultSound'
  BY <1>4, <1>5, <1>7 DEF ResultSound, Replies
<1> QED BY <1>8, <1>9, <1>10, <1>11, <1>12, <1>13, <1>14, <1>15 DEF IInv, Standing, TurnInv

-----------------------------------------------------------------------------
(* Sending a part *)

LEMMA GoesType ==
    ASSUME IInv, NEW pc \in Sending, Goto(pc), UNCHANGED status,
           UNCHANGED <<text, hook, base, chat, files, issuance, late, bounds>>
    PROVE  Standing'
<1>1. turn \in Turn /\ pc \in Places
  BY DEF IInv, Standing, TypeOK, Sending, Places
<1>2. turn' \in Turn
  BY <1>1, TurnType DEF Goto
<1>3. UNCHANGED <<human, unattended, optedOut>>
  BY DEF base
<1> QED BY <1>2, <1>3, MoveType, MovesKeep DEF IInv, Standing

\* An authorised turn is not behind a pause: what stopped it before, if anything, is in
\* Chatwoot.
LEMMA AuthoriseKeeps == ASSUME IInv, Authorise PROVE IInv'
<1>1. /\ UNCHANGED <<text, hook, base, human, unattended, optedOut, chat, log, label, assignee>>
      /\ UNCHANGED <<files, proposal, issuance, late, bounds>>
      /\ turn.pc = "authorise" /\ turn.what # "none"
  BY DEF Authorise, base, chat, files, IInv, TurnInv, PlaceSound
<1>2. CASE Refused("durable_automation_stop")
  BY <1>1, <1>2, RefusedKeeps
<1>3. CASE ~Blocked /\ Goto("look") /\ UNCHANGED status
  <2>1. "look" \in Sending /\ trigger \in Messages
    BY <1>1, SendPlace DEF Sending
  <2>2. Standing'
    BY <1>1, <1>3, <2>1, GoesType
  <2>3. LeadPending' /\ ResultSound'
    BY <1>1, <1>3, <2>1, Goes
  <2>4. /\ turn'.pc = "look" /\ UNCHANGED <<turn.trigger, turn.what, turn.part, turn.started>>
        /\ turn'.what # "none" /\ turn'.part \in 1..PartCount'
        /\ (turn'.started => turn'.what = "link" /\ issuance'[trigger'] \in Begun)
    BY <1>1, <1>3, <2>1, Goes
  <2>5. PlaceSound' /\ PartSound'
    BY <2>4 DEF PlaceSound, PartSound
  <2>6. ReadSound'
    <3>1. late[trigger] > 0 => Taken(trigger)
      BY <1>3, <2>1 DEF Blocked, IInv, Standing, LateStuck, Stuck
    <3>2. Taken(trigger)' <=> Taken(trigger)
      BY <1>1, <2>4, SameTalk DEF Taken, trigger
    <3> QED BY <1>1, <1>3, <2>4, <3>1, <3>2 DEF ReadSound, Blocked, trigger
  <2> QED BY <2>2, <2>3, <2>5, <2>6 DEF IInv, TurnInv
<1> QED BY <1>2, <1>3 DEF Authorise

LEMMA LookKeeps == ASSUME IInv, Look PROVE IInv'
<1>1. /\ UNCHANGED <<text, hook, base, human, unattended, optedOut, chat, log, label, assignee>>
      /\ UNCHANGED <<files, proposal, issuance, late, bounds>>
      /\ turn.pc = "look" /\ turn.what # "none"
  BY DEF Look, base, chat, files, IInv, TurnInv, PlaceSound
<1>2. CASE Refused("team")
  BY <1>1, <1>2, RefusedKeeps
<1>3. CASE ~(assignee \/ label) /\ Goto("read") /\ UNCHANGED status
  <2>1. "read" \in Sending /\ trigger \in Messages
    BY <1>1, SendPlace DEF Sending
  <2>2. Standing'
    BY <1>1, <1>3, <2>1, GoesType
  <2>3. LeadPending' /\ ResultSound'
    BY <1>1, <1>3, <2>1, Goes
  <2>4. /\ turn'.pc = "read" /\ UNCHANGED <<turn.trigger, turn.what, turn.part, turn.started>>
        /\ turn'.what # "none" /\ turn'.part \in 1..PartCount'
        /\ (turn'.started => turn'.what = "link" /\ issuance'[trigger'] \in Begun)
    BY <1>1, <1>3, <2>1, Goes
  <2>5. PlaceSound' /\ PartSound'
    BY <2>4 DEF PlaceSound, PartSound
  <2>6. ReadSound'
    <3>1. late[trigger] > 0 => Advanced(trigger)
      BY <1>1, <1>3 DEF IInv, TurnInv, ReadSound, Taken
    <3>2. Advanced(trigger)' <=> Advanced(trigger)
      BY <1>1, <2>4, SameTalk DEF trigger
    <3>3. turn.what \in Replies /\ human => unattended
      BY <1>1 DEF IInv, TurnInv, ReadSound
    <3> QED BY <1>1, <2>4, <3>1, <3>2, <3>3 DEF ReadSound, trigger
  <2> QED BY <2>2, <2>3, <2>5, <2>6 DEF IInv, TurnInv
<1> QED BY <1>2, <1>3 DEF Look

\* What a read of the conversation says when nothing new is there and every earlier part is.
LEMMA NothingNew ==
    ASSUME News = {}, PriorParts = 1..(turn.part - 1), turn.part \in Nat
    PROVE  /\ ~Advanced(trigger)
           /\ turn.part > 1 => Posted(<<trigger, turn.part - 1, PartCount>>)
<1>1. ~Advanced(trigger)
  <2> SUFFICES ASSUME NEW i \in Behind(trigger), log[i].from # "agent" PROVE FALSE
    BY DEF Advanced
  <2> QED BY DEF News, Prior
<1>2. ASSUME turn.part > 1 PROVE Posted(<<trigger, turn.part - 1, PartCount>>)
  <2>1. turn.part - 1 \in PriorParts
    BY <1>2
  <2>2. PICK i \in Behind(trigger) \ News : log[i].part = turn.part - 1
    BY <2>1 DEF PriorParts
  <2>3. i \in DOMAIN log /\ Prior(log[i])
    BY <2>2 DEF News, Behind
  <2> QED BY <2>2, <2>3 DEF Posted, Prior, Marker
<1> QED BY <1>1, <1>2

\* Marker and kind of the part at hand.
LEMMA PostIs ==
    ASSUME IInv, turn.what # "none"
    PROVE  /\ Marker(Post(turn.part)) = <<trigger, turn.part, PartCount>>
           /\ Post(turn.part) \in Message
           /\ Marker(Post(turn.part)) \in Messages \X (1..Parts) \X {1, Parts}
           /\ PartCount = Parts => proposal[trigger] = turn.what /\ turn.what \in {"reply", "link"}
<1>1. trigger \in Messages /\ turn.what \in Sends /\ turn.part \in 1..PartCount /\ TypeOK
  BY SendPlace, SendHeard DEF IInv, Standing
<1>2. PartCount = Parts => turn.what \in {"reply", "link"}
  BY <1>1, CountType DEF PartCount, Alone, Sends
<1> QED BY <1>1, <1>2, PostType DEF IInv, TurnInv, ResultSound, Replies

LEMMA ReadKeeps == ASSUME IInv, Read PROVE IInv'
<1>1. /\ UNCHANGED <<text, hook, base, human, unattended, optedOut, chat, log, label, assignee>>
      /\ UNCHANGED <<files, proposal, issuance, late, bounds>>
      /\ turn.pc = "read" /\ turn.what # "none"
  BY DEF Read, base, chat, files, IInv, TurnInv, PlaceSound
<1>2. /\ trigger \in Messages /\ turn.what \in Sends /\ turn.part \in 1..PartCount
      /\ TypeOK /\ turn.part \in Nat
  BY <1>1, SendPlace, SendHeard, CountType DEF IInv, Standing
<1>3. CASE Posted(Marker(Post(turn.part))) /\ NextPart
  <2>1. turn' \in Turn /\ (UNCHANGED status \/ Closing("done"))
    BY <1>2, <1>3, NextPartType
  <2>2. Standing'
    BY <1>1, <2>1, EndKeeps
  <2>3. ASSUME LinkPart PROVE LinkSent(trigger, ToSet(log'))
    <3>1. PICK i \in DOMAIN log : /\ log[i].from = "agent"
                                  /\ Marker(log[i]) = <<trigger, turn.part, PartCount>>
      BY <1>1, <1>3, PostIs DEF Posted
    <3>2. PartCount = Parts /\ turn.part = Parts /\ proposal[trigger] = "link"
      BY <1>1, <2>3, PostIs DEF LinkPart, PartCount, Alone
    <3>3. log[i].of = trigger /\ log[i].part = Parts /\ log[i].parts = Parts
      BY <3>1, <3>2 DEF Marker
    <3>4. log[i].kind = "link"
      BY <3>1, <3>2, <3>3 DEF IInv, Standing, JournalSound, PostSound
    <3>5. log[i] \in ToSet(log)
      BY DEF ToSet
    <3> QED BY <1>1, <3>3, <3>4, <3>5 DEF LinkSent
  <2>4. TurnInv'
    BY <1>1, <1>3, <2>2, <2>3, NextPartSound
  <2> QED BY <2>2, <2>4 DEF IInv
<1>4. CASE \E i \in News : Refused(log[i].from)
  <2>1. PICK i \in News : Refused(log[i].from)
    BY <1>4
  <2>2. log[i] \in Message
    BY <1>2 DEF News, Behind, TypeOK
  <2>3. log[i].from \in {"durable_automation_stop", "team", "lead", "agent", "incomplete",
                         "denied", "blocked_conversation"}
    BY <2>2 DEF Message
  <2> QED BY <1>1, <2>1, <2>3, RefusedKeeps
<1>5. CASE Refused("incomplete")
  BY <1>1, <1>5, RefusedKeeps
<1>6. CASE News = {} /\ PriorParts = 1..(turn.part - 1) /\ Goto(ToSend) /\ UNCHANGED status
  <2>1. ToSend \in {"post", "start_link"} /\ ToSend \in Sending
        /\ (ToSend = "start_link" => LinkPart) /\ (ToSend = "post" /\ LinkPart => turn.started)
    BY DEF ToSend, Sending
  <2>2. Standing'
    BY <1>1, <1>6, <2>1, GoesType
  <2>3. LeadPending' /\ ResultSound'
    BY <1>1, <1>6, <2>1, Goes
  <2>4. /\ turn'.pc = ToSend
        /\ UNCHANGED <<turn.trigger, turn.what, turn.part, turn.started, PartCount, LinkPart, trigger>>
        /\ turn'.what # "none" /\ turn'.part \in 1..PartCount'
        /\ (turn'.started => turn'.what = "link" /\ issuance'[trigger'] \in Begun)
    BY <1>1, <1>6, <2>1, Goes DEF trigger
  <2>5. PlaceSound'
    BY <2>1, <2>4 DEF PlaceSound
  <2>6. ~Advanced(trigger) /\ (turn.part > 1 => Posted(<<trigger, turn.part - 1, PartCount>>))
    BY <1>2, <1>6, NothingNew
  <2>7. turn'.part > 1 => Posted(<<trigger, turn.part - 1, PartCount>>)'
    BY <1>1, <2>4, <2>6, SameTalk
  <2>8. PartSound'
    BY <2>1, <2>4, <2>7 DEF PartSound
  <2>9. ReadSound'
    <3>1. late[trigger] = 0
      BY <1>1, <1>2, <2>6 DEF IInv, TurnInv, ReadSound, TypeOK
    <3>2. turn.what \in Replies /\ human => unattended
      BY <1>1 DEF IInv, TurnInv, ReadSound
    <3> QED BY <1>1, <2>1, <2>4, <3>1, <3>2 DEF ReadSound
  <2> QED BY <2>2, <2>3, <2>5, <2>8, <2>9 DEF IInv, TurnInv
<1> QED BY <1>3, <1>4, <1>5, <1>6 DEF Read

-----------------------------------------------------------------------------
(* What is posted, may land, or is written *)

LEMMA PostSoundKeeps ==
    ASSUME UNCHANGED proposal, journal \subseteq journal', NEW q, PostSound(q)
    PROVE  PostSound(q)'
BY DEF PostSound, Marker

LEMMA GrowsInOrder ==
    ASSUME PartsOnceInOrder, log \in Seq(Message), NEW p \in Message, log' = Append(log, p),
           p.from = "agent" => /\ ~Posted(Marker(p))
                               /\ p.part > 1 => Posted(<<p.of, p.part - 1, p.parts>>)
    PROVE  PartsOnceInOrder'
<1>1. /\ Len(log) \in Nat /\ DOMAIN log = 1..Len(log) /\ DOMAIN log' = 1..(Len(log) + 1)
      /\ \A i \in DOMAIN log : log'[i] = log[i]
      /\ log'[Len(log) + 1] = p
  BY AppendIs
<1> SUFFICES ASSUME NEW i \in DOMAIN log', log'[i].from = "agent"
             PROVE  /\ \A j \in DOMAIN log' \ {i} :
                          log'[j].from = "agent" => Marker(log'[j]) # Marker(log'[i])
                    /\ log'[i].part > 1 => \E j \in 1..(i - 1) :
                          log'[j].from = "agent"
                          /\ Marker(log'[j]) = <<log'[i].of, log'[i].part - 1, log'[i].parts>>
  BY DEF PartsOnceInOrder, Marker
<1>2. CASE i \in DOMAIN log
  <2>1. log'[i] = log[i] /\ log[i].from = "agent"
    BY <1>1, <1>2
  <2>2. ASSUME NEW j \in DOMAIN log' \ {i}, log'[j].from = "agent"
        PROVE  Marker(log'[j]) # Marker(log'[i])
    <3>1. CASE j \in DOMAIN log
      BY <1>1, <1>2, <2>1, <2>2, <3>1 DEF PartsOnceInOrder
    <3>2. CASE j \notin DOMAIN log
      <4>1. log'[j] = p
        BY <1>1, <3>2
      <4> QED BY <1>2, <2>1, <2>2, <4>1 DEF Posted
    <3> QED BY <3>1, <3>2
  <2>3. ASSUME log'[i].part > 1
        PROVE  \E j \in 1..(i - 1) :
                  log'[j].from = "agent"
                  /\ Marker(log'[j]) = <<log'[i].of, log'[i].part - 1, log'[i].parts>>
    <3>1. PICK j \in 1..(i - 1) : log[j].from = "agent"
                /\ Marker(log[j]) = <<log[i].of, log[i].part - 1, log[i].parts>>
      BY <1>2, <2>1, <2>3 DEF PartsOnceInOrder
    <3>2. j \in DOMAIN log
      BY <1>1, <1>2
    <3> QED BY <1>1, <2>1, <3>1, <3>2
  <2> QED BY <2>2, <2>3
<1>3. CASE i \notin DOMAIN log
  <2>1. i = Len(log) + 1 /\ log'[i] = p
    BY <1>1, <1>3
  <2>2. ASSUME NEW j \in DOMAIN log' \ {i}, log'[j].from = "agent"
        PROVE  Marker(log'[j]) # Marker(log'[i])
    <3>1. j \in DOMAIN log /\ log'[j] = log[j]
      BY <1>1, <2>1
    <3> QED BY <2>1, <2>2, <3>1 DEF Posted
  <2>3. ASSUME log'[i].part > 1
        PROVE  \E j \in 1..(i - 1) :
                  log'[j].from = "agent"
                  /\ Marker(log'[j]) = <<log'[i].of, log'[i].part - 1, log'[i].parts>>
    <3>1. PICK j \in DOMAIN log : log[j].from = "agent"
                /\ Marker(log[j]) = <<p.of, p.part - 1, p.parts>>
      BY <2>1, <2>3 DEF Posted
    <3>2. j \in 1..(i - 1) /\ log'[j] = log[j]
      BY <1>1, <2>1
    <3> QED BY <2>1, <3>1, <3>2
  <2> QED BY <2>2, <2>3
<1> QED BY <1>2, <1>3

\* What any message added to the conversation leaves true of the posts.
LEMMA TalkGrows ==
    ASSUME IInv, UNCHANGED proposal, NEW p \in Message, log' = Append(log, p),
           journal \subseteq journal', wire' \subseteq wire,
           p.from = "agent" => /\ PostSound(p)' /\ ~Posted(Marker(p))
                               /\ p.part > 1 => Posted(<<p.of, p.part - 1, p.parts>>)
                               /\ \A q \in wire' : Marker(q) # Marker(p)
    PROVE  JournalSound' /\ WireOrder' /\ PartsOnceInOrder'
<1>1. log \in Seq(Message)
  BY DEF IInv, Standing, TypeOK
<1>2. /\ DOMAIN log' = DOMAIN log \cup {Len(log) + 1}
      /\ \A i \in DOMAIN log : log'[i] = log[i]
      /\ log'[Len(log) + 1] = p
  BY <1>1, AppendIs
<1>3. \A marker : Posted(marker)' <=> \/ Posted(marker)
                                      \/ p.from = "agent" /\ Marker(p) = marker
  BY <1>1, Grown
<1>4. PartsOnceInOrder'
  BY <1>1, GrowsInOrder DEF IInv, Standing
<1>5. WireOrder'
  BY <1>3 DEF WireOrder, IInv, Standing
<1>6. (\A i \in DOMAIN log : log[i].from = "agent" => PostSound(log[i]))'
  <2> SUFFICES ASSUME NEW i \in DOMAIN log', log'[i].from = "agent", NEW q, q = log'[i]
               PROVE  PostSound(q)'
    BY DEF PostSound, Marker
  <2>1. CASE i \in DOMAIN log
    BY <2>1, <1>2, PostSoundKeeps DEF IInv, Standing, JournalSound
  <2>2. CASE i \notin DOMAIN log
    <3>1. q = p
      BY <2>2, <1>2
    <3> QED BY <3>1
  <2> QED BY <2>1, <2>2
<1>7. \A q \in wire' : PostSound(q)' /\ ~Posted(Marker(q))'
  BY <1>3, PostSoundKeeps DEF IInv, Standing, JournalSound, Marker
<1>8. (\A q, r \in wire : Marker(q) = Marker(r) => q = r)'
  BY DEF IInv, Standing, JournalSound, Marker
<1>9. JournalSound'
  BY <1>6, <1>7, <1>8 DEF JournalSound, PostSound, Marker
<1> QED BY <1>4, <1>5, <1>9

\* A link that is added is accounted for, and none is taken away.
LEMMA LedgerGrows ==
    ASSUME IInv, UNCHANGED issuance, NEW p,
           ToSet(log) \subseteq ToSet(log)',
           (ToSet(log) \cup wire)' \subseteq ToSet(log) \cup wire \cup {p},
           p.kind = "link" /\ p.part = Parts => issuance[p.of] \in Begun
    PROVE  LinkAccounted'
<1> SUFFICES ASSUME NEW t \in Messages
             PROVE  /\ LinkSent(t, ToSet(log) \cup wire)' => issuance[t] \in Begun
                    /\ issuance[t] = "accepted" => LinkSent(t, ToSet(log))'
  BY DEF LinkAccounted, Begun
<1>1. /\ LinkSent(t, ToSet(log) \cup wire) => issuance[t] \in Begun
      /\ issuance[t] = "accepted" => LinkSent(t, ToSet(log))
  BY DEF IInv, Standing, LinkAccounted, Begun
<1>2. ASSUME LinkSent(t, ToSet(log) \cup wire)' PROVE issuance[t] \in Begun
  <2>1. PICK q \in (ToSet(log) \cup wire)' : q.kind = "link" /\ q.of = t /\ q.part = Parts
    BY <1>2 DEF LinkSent
  <2>2. CASE q = p
    BY <2>1, <2>2
  <2>3. CASE q \in ToSet(log) \cup wire
    BY <1>1, <2>1, <2>3 DEF LinkSent
  <2> QED BY <2>1, <2>2, <2>3
<1>3. ASSUME issuance[t] = "accepted" PROVE LinkSent(t, ToSet(log))'
  BY <1>1, <1>3 DEF LinkSent
<1> QED BY <1>2, <1>3

\* A part that was claimed before is not posted again.
LEMMA PostClaimedKeeps ==
    ASSUME IInv, NEW fate, PostPart(fate), Claimed(Marker(Post(turn.part)))
    PROVE  IInv'
<1>1. /\ UNCHANGED <<text, hook, base, human, unattended, optedOut, chat, files>>
      /\ UNCHANGED <<proposal, issuance, late, bounds>>
      /\ Unknown /\ turn.what # "none"
  BY DEF PostPart, base, chat, files, bounds, IInv, TurnInv, PlaceSound
<1>2. turn' \in Turn /\ (UNCHANGED status \/ Closing("done"))
  BY <1>1, SendHeard, UnknownType DEF IInv, Standing
<1>3. Standing'
  BY <1>1, <1>2, EndKeeps
<1>4. TurnInv'
  BY <1>1, UnknownSound
<1> QED BY <1>3, <1>4 DEF IInv

\* What may become of the post of a part, and of the turn with it.
LEMMA CarriedIs ==
    ASSUME NEW fate, Carried(fate)
    PROVE  /\ \/ NextPart /\ log' = Append(log, Post(turn.part)) /\ UNCHANGED <<wire, faults>>
              \/ Unknown /\ faults < MaxFaults /\ faults' = faults + 1
           /\ \/ log' = Append(log, Post(turn.part)) /\ UNCHANGED wire
              \/ UNCHANGED log /\ wire' = wire \cup {Post(turn.part)}
              \/ UNCHANGED <<log, wire>>
BY DEF Carried

\* A part is posted over a stop only by the turn whose reads were done before it, and once.
LEMMA LatePost ==
    ASSUME IInv, turn.pc = "post", UNCHANGED <<label, assignee, human, unattended, proposal>>,
           \A t \in Messages : Advanced(t) => Advanced(t)',
           late' = IF Stopped THEN [late EXCEPT ![trigger] = late[trigger] + 1] ELSE late
    PROVE  LateStuck' /\ OvertakenOnce' /\ late' \in [Messages -> Nat]
<1>1. trigger \in Messages /\ late \in [Messages -> Nat] /\ late[trigger] = 0
  BY DEF IInv, Standing, TypeOK, TurnInv, LeadPending, ReadSound
<1>2. late' \in [Messages -> Nat]
  BY <1>1
<1>3. OvertakenOnce'
  BY <1>1 DEF IInv, Standing, OvertakenOnce
<1>4. LateStuck'
  <2> SUFFICES ASSUME NEW t \in Messages, late'[t] > 0 PROVE Stuck(t)'
    BY DEF LateStuck
  <2>1. Stuck(t) => Stuck(t)'
    BY DEF Stuck, Taken
  <2>2. CASE late[t] > 0
    BY <2>1, <2>2 DEF IInv, Standing, LateStuck
  <2>3. CASE ~(late[t] > 0)
    <3>1. t = trigger /\ Stopped
      BY <1>1, <2>3
    <3>2. turn.what \in Replies /\ human => unattended /\ proposal[trigger] \in Replies
      BY DEF IInv, TurnInv, ReadSound, ResultSound
    <3>3. Stuck(t)
      BY <3>1, <3>2 DEF Stopped, Stuck, Taken, Replies
    <3> QED BY <2>1, <3>3
  <2> QED BY <2>2, <2>3
<1> QED BY <1>2, <1>3, <1>4

LEMMA PostFreshKeeps ==
    ASSUME IInv, NEW fate, PostPart(fate), ~Claimed(Marker(Post(turn.part)))
    PROVE  IInv'
<1> PICK p \in Message : p = Post(turn.part)
  BY PostIs DEF PostPart, IInv, TurnInv, PlaceSound
<1>1. /\ UNCHANGED <<text, hook, base, human, unattended, optedOut, label, assignee>>
      /\ UNCHANGED <<proposal, issuance, people>>
      /\ turn.pc = "post" /\ turn.what # "none"
      /\ journal' = journal \cup {Marker(p)} /\ Carried(fate)
      /\ late' = IF Stopped THEN [late EXCEPT ![trigger] = late[trigger] + 1] ELSE late
  BY DEF PostPart, base, IInv, TurnInv, PlaceSound
<1>2. /\ trigger \in Messages /\ turn.what \in Sends /\ turn.part \in 1..PartCount
      /\ TypeOK /\ log \in Seq(Message) /\ (optedOut \/ Heard(trigger))
  BY <1>1, SendPlace, SendHeard DEF IInv, Standing, TypeOK
<1>3. /\ p.from = "agent" /\ p.of = trigger /\ p.part = turn.part /\ p.parts = PartCount
      /\ p.kind = turn.what /\ Marker(p) = <<trigger, turn.part, PartCount>>
      /\ Marker(p) \in Messages \X (1..Parts) \X {1, Parts}
      /\ Marker(p) \notin journal
  BY <1>1, PostIs DEF Post, Claimed
<1>4. PostSound(p)'
  <2>1. p.parts = Parts => p.kind = proposal[p.of] /\ p.kind # "none"
    BY <1>1, <1>3, PostIs
  <2> QED BY <1>1, <1>2, <1>3, <2>1 DEF PostSound, Marker
<1>5. ~Posted(Marker(p)) /\ \A q \in wire : Marker(q) # Marker(p)
  BY <1>3 DEF Posted, IInv, Standing, JournalSound, PostSound
<1>6. p.part > 1 => Posted(<<p.of, p.part - 1, p.parts>>)
  BY <1>1, <1>3 DEF IInv, TurnInv, PartSound
<1>7. p.kind = "link" /\ p.part = Parts => issuance[p.of] \in Begun
  BY <1>1, <1>3 DEF IInv, TurnInv, PartSound, LinkPart
<1>8. \/ log' = Append(log, p) /\ UNCHANGED wire
      \/ UNCHANGED log /\ wire' = wire \cup {p}
      \/ UNCHANGED <<log, wire>>
  BY <1>1, CarriedIs
<1>9. \A t \in Messages : Advanced(t) => Advanced(t)'
  BY <1>2, <1>8, SameTalk, Grown
<1>10. LateStuck' /\ OvertakenOnce' /\ late' \in [Messages -> Nat]
  BY <1>1, <1>9, LatePost
<1>11. turn' \in Turn /\ (UNCHANGED status \/ Closing("done")) /\ faults' \in 0..MaxFaults
  <2>1. turn' \in Turn /\ (UNCHANGED status \/ Closing("done"))
    BY <1>1, <1>2, CarriedIs, NextPartType, UnknownType
  <2>2. faults \in 0..MaxFaults /\ (UNCHANGED faults \/ (faults < MaxFaults /\ faults' = faults + 1))
    BY <1>1, <1>2, CarriedIs DEF TypeOK
  <2>3. faults' \in 0..MaxFaults
    BY <2>2, TurnAssumption
  <2> QED BY <2>1, <2>3
<1>12. ArrivalOrder' /\ ProposalHeard' /\ StopIsRecorded'
  BY <1>1, <1>2, <1>11, ClosingKeeps
<1>13. log' \in Seq(Message) /\ wire' \subseteq Message
  <2>1. Append(log, p) \in Seq(Message)
    BY <1>2, AppendIs
  <2>2. wire \subseteq Message
    BY <1>2 DEF TypeOK
  <2> QED BY <1>2, <1>8, <2>1, <2>2
<1>14. TypeOK'
  <2>1. status' \in [Messages -> {"none", "pending", "done", "failed"}]
    BY <1>2, <1>11, StatusType DEF TypeOK
  <2>2. journal' \subseteq Messages \X (1..Parts) \X {1, Parts}
    BY <1>1, <1>2, <1>3 DEF TypeOK
  <2> QED BY <1>1, <1>2, <1>10, <1>11, <1>13, <2>1, <2>2 DEF TypeOK, base
<1>15. JournalSound' /\ WireOrder' /\ PartsOnceInOrder'
  <2>1. CASE log' = Append(log, p) /\ UNCHANGED wire
    BY <1>1, <1>4, <1>5, <1>6, <2>1, TalkGrows
  <2>2. CASE UNCHANGED log
    <3>1. wire' \in {wire, wire \cup {p}} /\ p.from = "agent"
      BY <1>3, <1>5, <1>8, <2>2
    <3>2. \A q \in wire' : PostSound(q)' /\ ~Posted(Marker(q))'
      <4>1. \A q \in wire : PostSound(q)' /\ ~Posted(Marker(q))
        BY <1>1, PostSoundKeeps DEF IInv, Standing, JournalSound
      <4> QED BY <2>2, <3>1, <4>1, <1>4, <1>5, SameTalk DEF Marker
    <3>3. (\A q, r \in wire : Marker(q) = Marker(r) => q = r)'
      BY <3>1, <1>5 DEF IInv, Standing, JournalSound, Marker
    <3>4. (\A i \in DOMAIN log : log[i].from = "agent" => PostSound(log[i]))'
      <4> SUFFICES ASSUME NEW i \in DOMAIN log, log[i].from = "agent", NEW q, q = log[i]
                   PROVE  PostSound(q)'
        BY <2>2 DEF PostSound, Marker
      <4> QED BY <1>1, PostSoundKeeps DEF IInv, Standing, JournalSound
    <3>5. JournalSound'
      BY <3>2, <3>3, <3>4 DEF JournalSound, PostSound, Marker
    <3>6. WireOrder'
      BY <2>2, <3>1, <1>6, SameTalk DEF WireOrder, IInv, Standing
    <3>7. PartsOnceInOrder'
      BY <2>2 DEF PartsOnceInOrder, Marker, IInv, Standing
    <3> QED BY <3>5, <3>6, <3>7
  <2> QED BY <1>8, <2>1, <2>2
<1>16. LinkAccounted'
  <2>1. ToSet(log) \subseteq ToSet(log)' /\ (ToSet(log) \cup wire)' \subseteq ToSet(log) \cup wire \cup {p}
    BY <1>2, <1>8, SameTalk, Grown
  <2> QED BY <1>1, <1>7, <2>1, LedgerGrows
<1>17. Standing'
  BY <1>10, <1>12, <1>14, <1>15, <1>16 DEF Standing
<1>18. CASE NextPart /\ log' = Append(log, p)
  <2>1. p \in ToSet(log')
    BY <1>2, <1>18, Grown
  <2>2. LinkPart => LinkSent(trigger, ToSet(log'))
    BY <1>3, <2>1 DEF LinkPart, LinkSent
  <2>3. TurnInv'
    BY <1>1, <1>17, <1>18, <2>2, NextPartSound
  <2> QED BY <1>17, <2>3 DEF IInv
<1>19. CASE Unknown
  BY <1>1, <1>17, <1>19, UnknownSound DEF IInv
<1> QED BY <1>1, <1>18, <1>19, CarriedIs

LEMMA PostPartKeeps == ASSUME IInv, NEW fate \in Fate, PostPart(fate) PROVE IInv'
BY PostClaimedKeeps, PostFreshKeeps

-----------------------------------------------------------------------------
(* The payment link *)

\* A ledger entry that is written says more than before, never less.
LEMMA LedgerStep ==
    ASSUME IInv, UNCHANGED <<log, wire>>, NEW e, trigger \in Messages,
           issuance' = [issuance EXCEPT ![trigger] = e],
           issuance[trigger] \in Begun => e \in Begun,
           e = "accepted" => LinkSent(trigger, ToSet(log))
    PROVE  LinkAccounted'
<1>1. UNCHANGED ToSet(log)
  BY SameTalk
<1>2. issuance \in [Messages -> {"none", "reserved", "request_started", "accepted",
                                 "delivery_unknown"}]
  BY DEF IInv, Standing, TypeOK
<1>3. \A t \in Messages : issuance'[t] = (IF t = trigger THEN e ELSE issuance[t])
  BY <1>2
<1> SUFFICES ASSUME NEW t \in Messages
             PROVE  /\ LinkSent(t, ToSet(log) \cup wire)' => issuance'[t] \in Begun
                    /\ issuance'[t] = "accepted" => LinkSent(t, ToSet(log))'
  BY DEF LinkAccounted, Begun
<1>4. /\ LinkSent(t, ToSet(log) \cup wire) => issuance[t] \in Begun
      /\ issuance[t] = "accepted" => LinkSent(t, ToSet(log))
  BY DEF IInv, Standing, LinkAccounted, Begun
<1>5. /\ LinkSent(t, ToSet(log) \cup wire)' <=> LinkSent(t, ToSet(log) \cup wire)
      /\ LinkSent(t, ToSet(log))' <=> LinkSent(t, ToSet(log))
  BY <1>1 DEF LinkSent
<1> QED BY <1>3, <1>4, <1>5

\* A turn of the link, and what stopped it before, is stopped in Chatwoot.
LEMMA LinkTaken ==
    ASSUME IInv, turn.what = "link"
    PROVE  trigger \in Messages /\ (late[trigger] > 0 => Taken(trigger))
BY SendPlace DEF IInv, Standing, LateStuck, Stuck, TurnInv, ResultSound, Replies

\* The link is reserved, or started, and its conversation is read.
LEMMA LinkLooks ==
    ASSUME IInv, turn.what = "link", NEW e \in {"reserved", "request_started", "accepted",
                                                "delivery_unknown"},
           issuance' = [issuance EXCEPT ![trigger] = e],
           issuance[trigger] \in Begun => e \in Begun,
           e = "accepted" => issuance[trigger] = "accepted",
           NEW begun \in BOOLEAN, begun => e \in Begun,
           turn' = [turn EXCEPT !.started = begun, !.pc = "look"],
           UNCHANGED <<status, text, hook, base, chat, files, late, bounds>>
    PROVE  IInv'
<1>1. /\ UNCHANGED <<human, unattended, optedOut, log, label, assignee, wire, journal, proposal>>
      /\ turn.what # "none" /\ TypeOK /\ turn \in Turn
  BY DEF base, chat, files, IInv, Standing, TypeOK
<1>2. trigger \in Messages /\ status[trigger] = "pending" /\ turn.part \in 1..PartCount
  BY <1>1, SendPlace
<1>3. /\ turn'.pc = "look" /\ turn'.started = begun
      /\ UNCHANGED <<turn.trigger, turn.what, turn.part, trigger, PartCount>>
  BY <1>1 DEF Turn, trigger, PartCount
<1>4. TypeOK'
  <2>1. turn' \in Turn
    BY <1>1 DEF Turn, Places
  <2>2. issuance' \in [Messages -> {"none", "reserved", "request_started", "accepted",
                                    "delivery_unknown"}]
    BY <1>1 DEF TypeOK
  <2> QED BY <1>1, <2>1, <2>2 DEF TypeOK, base, chat, files, bounds
<1>5. LinkAccounted'
  <2>1. e = "accepted" => LinkSent(trigger, ToSet(log))
    BY <1>2 DEF IInv, Standing, LinkAccounted
  <2> QED BY <1>1, <1>2, <2>1, LedgerStep
<1>6. Standing'
  BY <1>1, <1>4, <1>5, ClosingKeeps, TalkKeeps, LateKeeps DEF Standing
<1>7. LeadPending' /\ PlaceSound'
  BY <1>1, <1>2, <1>3 DEF LeadPending, PlaceSound
<1>8. ResultSound'
  BY <1>1, <1>3 DEF ResultSound, IInv, TurnInv, Replies
<1>9. PartSound'
  <2>1. issuance'[trigger] = e
    BY <1>1, <1>2 DEF TypeOK
  <2> QED BY <1>3, <2>1 DEF PartSound
<1>10. ReadSound'
  <2>1. Taken(trigger)' <=> Taken(trigger)
    BY <1>1, <1>3, SameTalk DEF Taken
  <2> QED BY <1>3, <2>1, LinkTaken DEF ReadSound, Replies
<1> QED BY <1>6, <1>7, <1>8, <1>9, <1>10 DEF IInv, TurnInv

LEMMA ReserveKeeps == ASSUME IInv, Reserve PROVE IInv'
<1>1. /\ UNCHANGED <<text, hook, base, chat, files, late, bounds>>
      /\ turn.pc = "reserve" /\ turn.what = "link" /\ trigger \in Messages
  BY DEF Reserve, IInv, TurnInv, PlaceSound, LeadPending
<1>2. CASE Refused("blocked_conversation") /\ UNCHANGED issuance
  BY <1>1, <1>2, RefusedKeeps
<1>3. CASE /\ issuance' = [issuance EXCEPT ![trigger] = IF @ = "none" THEN "reserved" ELSE @]
           /\ Goto("look") /\ UNCHANGED status
  <2>1. /\ issuance[trigger] \in {"none", "reserved", "request_started", "accepted",
                                  "delivery_unknown"}
        /\ turn.started \in BOOLEAN /\ turn \in Turn
    BY <1>1 DEF IInv, Standing, TypeOK, Turn
  <2>2. turn' = [turn EXCEPT !.started = turn.started, !.pc = "look"]
    BY <1>3, <2>1 DEF Goto, Turn
  <2> DEFINE e == IF issuance[trigger] = "none" THEN "reserved" ELSE issuance[trigger]
  <2>3. issuance' = [issuance EXCEPT ![trigger] = e]
    BY <1>3
  <2>4. /\ e \in {"reserved", "request_started", "accepted", "delivery_unknown"}
        /\ issuance[trigger] \in Begun => e \in Begun
        /\ e = "accepted" => issuance[trigger] = "accepted"
    BY <2>1 DEF Begun
  <2>5. turn.started => e \in Begun
    BY <2>4 DEF IInv, TurnInv, PartSound
  <2> HIDE DEF e
  <2> QED BY <1>1, <1>3, <2>1, <2>2, <2>3, <2>4, <2>5, LinkLooks
<1> QED BY <1>2, <1>3 DEF Reserve

LEMMA StartLinkKeeps == ASSUME IInv, StartLink PROVE IInv'
<1>1. /\ UNCHANGED <<text, hook, base, chat, files, late, bounds>>
      /\ turn.pc = "start_link" /\ turn.what = "link"
  BY DEF StartLink, IInv, TurnInv, PlaceSound, LinkPart
<1>2. CASE Refused("denied") /\ UNCHANGED issuance
  BY <1>1, <1>2, RefusedKeeps
<1>3. CASE /\ issuance[trigger] = "reserved"
           /\ issuance' = [issuance EXCEPT ![trigger] = "request_started"]
           /\ turn' = [turn EXCEPT !.started = TRUE, !.pc = "look"] /\ UNCHANGED status
  BY <1>1, <1>3, LinkLooks DEF Begun
<1> QED BY <1>2, <1>3 DEF StartLink

\* An entry of the ledger written at the end of a link's turn.
LEMMA LinkEnds ==
    ASSUME IInv, turn.what = "link", NEW e \in {"none", "reserved", "request_started", "accepted",
                                                "delivery_unknown"},
           issuance' = [issuance EXCEPT ![trigger] = e],
           issuance[trigger] \in Begun => e \in Begun,
           e = "accepted" => LinkSent(trigger, ToSet(log)),
           turn' = Idle, UNCHANGED status \/ Closing("done"),
           UNCHANGED <<text, hook, base, chat, files, late, bounds>>
    PROVE  IInv'
<1>1. /\ UNCHANGED <<human, unattended, optedOut, log, label, assignee, wire, journal, proposal>>
      /\ turn.what # "none" /\ TypeOK /\ turn \in Turn
  BY DEF base, chat, files, IInv, Standing, TypeOK
<1>2. trigger \in Messages /\ (optedOut \/ Heard(trigger))
  BY <1>1, SendHeard
<1>3. TypeOK'
  <2>1. turn' \in Turn
    BY <1>1, TurnType
  <2>2. issuance' \in [Messages -> {"none", "reserved", "request_started", "accepted",
                                    "delivery_unknown"}]
    BY <1>1 DEF TypeOK
  <2>3. status' \in [Messages -> {"none", "pending", "done", "failed"}]
    BY <1>1, StatusType DEF TypeOK
  <2> QED BY <1>1, <2>1, <2>2, <2>3 DEF TypeOK, base, chat, files, bounds
<1>4. LinkAccounted'
  BY <1>1, <1>2, LedgerStep
<1>5. ArrivalOrder' /\ ProposalHeard' /\ StopIsRecorded'
  BY <1>1, <1>2, ClosingKeeps
<1>6. Standing'
  BY <1>1, <1>3, <1>4, <1>5, TalkKeeps, LateKeeps DEF Standing
<1> QED BY <1>6, IdleIsSound DEF IInv

LEMMA AcceptLinkKeeps == ASSUME IInv, AcceptLink PROVE IInv'
<1>1. /\ UNCHANGED <<text, hook, base, chat, files, late, bounds>>
      /\ turn.what = "link" /\ LinkSent(trigger, ToSet(log))
      /\ issuance' = [issuance EXCEPT ![trigger] = "accepted"]
      /\ turn' = Idle /\ Closing("done")
  BY DEF AcceptLink, End, Closing, IInv, TurnInv, PlaceSound, PartSound, LinkPart
<1> QED BY <1>1, LinkEnds DEF Begun

LEMMA LinkUnknownKeeps == ASSUME IInv, LinkUnknown PROVE IInv'
<1>1. /\ UNCHANGED <<inbox, base, chat, files, late, bounds>>
      /\ turn.what = "link" /\ turn' = Idle /\ trigger \in Messages
      /\ issuance \in [Messages -> {"none", "reserved", "request_started", "accepted",
                                    "delivery_unknown"}]
  BY DEF LinkUnknown, IInv, Standing, TypeOK, TurnInv, PlaceSound, LinkPart, LeadPending
<1>2. UNCHANGED <<text, hook, status>>
  BY <1>1 DEF inbox
<1>3. CASE issuance' = [issuance EXCEPT ![trigger] = "delivery_unknown"]
  BY <1>1, <1>2, <1>3, LinkEnds DEF Begun
<1>4. CASE issuance' = issuance
  <2>1. issuance' = [issuance EXCEPT ![trigger] = issuance[trigger]]
    BY <1>1, <1>4
  <2>2. issuance[trigger] = "accepted" => LinkSent(trigger, ToSet(log))
    BY <1>1 DEF IInv, Standing, LinkAccounted
  <2>3. issuance[trigger] \in {"none", "reserved", "request_started", "accepted",
                               "delivery_unknown"}
    BY <1>1
  <2> QED BY <1>1, <1>2, <2>1, <2>2, <2>3, LinkEnds
<1> QED BY <1>3, <1>4 DEF LinkUnknown

LEMMA WhyNotSentKeeps == ASSUME IInv, WhyNotSent PROVE IInv'
<1>1. /\ UNCHANGED <<text, hook, base, human, unattended, optedOut, chat, files, proposal>>
      /\ UNCHANGED <<issuance, late, bounds>>
      /\ turn.pc = "why" /\ turn.what = "link"
  BY DEF WhyNotSent, base, files, IInv, TurnInv, PlaceSound
<1>2. trigger \in Messages /\ status[trigger] = "pending" /\ proposal[trigger] = "link"
  BY <1>1, SendPlace DEF IInv, TurnInv, ResultSound
<1>3. CASE End
  <2>1. turn' \in Turn /\ Closing("done")
    BY <1>3, TurnType DEF End, Closing, IInv, Standing, TypeOK
  <2> QED BY <1>1, <1>3, <2>1, EndKeeps, IdleIsSound DEF End, IInv
<1>4. CASE Send("notice", "notice") /\ UNCHANGED status
  <2>1. /\ turn' \in Turn /\ turn'.pc = "notice" /\ turn'.what = "notice"
        /\ ~turn'.started /\ UNCHANGED <<turn.trigger, trigger>> /\ turn'.part \in 1..PartCount'
    BY <1>2, <1>4, SendIs DEF Sends, Sending
  <2>2. Standing'
    BY <1>1, <1>4, <2>1, EndKeeps
  <2>3. LeadPending' /\ PlaceSound' /\ ResultSound' /\ PartSound' /\ ReadSound'
    BY <1>1, <1>2, <1>4, <2>1 DEF LeadPending, PlaceSound, ResultSound, PartSound, ReadSound,
                                   Replies
  <2> QED BY <2>2, <2>3 DEF IInv, TurnInv
<1> QED BY <1>3, <1>4 DEF WhyNotSent

-----------------------------------------------------------------------------
(* The handoff *)

LEMMA NoticeGoes ==
    ASSUME IInv, turn.pc \in {"notice", "request"}, NEW pc \in {"request", "authorise", "pause"},
           Goto(pc), UNCHANGED <<status, text, optedOut, proposal, issuance>>
    PROVE  turn' \in Turn /\ TurnInv'
<1>1. turn.what = "notice" /\ pc \in Sending
  BY DEF IInv, TurnInv, PlaceSound, Sending
<1>2. turn' \in Turn
  <2>1. turn \in Turn /\ pc \in Places
    BY DEF IInv, Standing, TypeOK, Places
  <2> QED BY <2>1, TurnType DEF Goto
<1>3. LeadPending' /\ ResultSound'
  BY <1>1, Goes
<1>4. turn'.pc = pc /\ turn'.what = "notice" /\ turn'.part \in 1..PartCount' /\ ~turn'.started
  BY <1>1, Goes, SendPlace
<1>5. PlaceSound' /\ PartSound' /\ ReadSound'
  BY <1>4 DEF PlaceSound, PartSound, ReadSound, Replies
<1> QED BY <1>2, <1>3, <1>5 DEF TurnInv

LEMMA NoticeKeeps == ASSUME IInv, Notice PROVE IInv'
<1>1. /\ UNCHANGED <<text, status, hook, base, human, unattended, optedOut, chat, files, proposal>>
      /\ UNCHANGED <<issuance, late, bounds>> /\ turn.pc = "notice"
      /\ (Goto("request") \/ Goto("authorise"))
  BY DEF Notice, inbox, base, files
<1>2. turn' \in Turn /\ TurnInv'
  BY <1>1, NoticeGoes
<1>3. Standing'
  BY <1>1, <1>2, MoveType, MovesKeep DEF IInv, Standing
<1> QED BY <1>2, <1>3 DEF IInv

LEMMA RequestHandoffKeeps == ASSUME IInv, RequestHandoff PROVE IInv'
<1>1. /\ UNCHANGED <<inbox, text, status, hook, optedOut, resumedBy, chat, files, proposal>>
      /\ UNCHANGED <<issuance, late, bounds>> /\ turn.pc = "request" /\ Goto("pause")
      /\ \/ UNCHANGED <<human, unattended, requested>>
         \/ human' = TRUE /\ unattended' = TRUE /\ requested' = requested \cup {trigger}
  BY DEF RequestHandoff, inbox, files
<1>2. turn' \in Turn /\ TurnInv' /\ trigger \in Messages
  BY <1>1, NoticeGoes DEF IInv, TurnInv, LeadPending
<1>3. TypeOK'
  <2>1. TypeOK
    BY DEF IInv, Standing
  <2>2. human' \in BOOLEAN /\ unattended' \in BOOLEAN /\ requested' \subseteq Messages
    BY <1>1, <1>2, <2>1 DEF TypeOK
  <2> QED BY <1>1, <1>2, <2>1, <2>2 DEF TypeOK, chat, files, bounds
<1>4. human /\ unattended => human' /\ unattended'
  BY <1>1
<1>5. Standing'
  BY <1>1, <1>3, <1>4, MovesKeep
<1> QED BY <1>2, <1>5 DEF IInv

LEMMA HandoffRefusedKeeps == ASSUME IInv, HandoffRefused PROVE IInv'
<1>1. /\ UNCHANGED <<text, status, hook, base, human, unattended, optedOut, chat, files>>
      /\ UNCHANGED <<issuance, late, bounds>> /\ turn' = Idle
  BY DEF HandoffRefused, inbox, base
<1>2. turn' \in Turn
  BY <1>1, TurnType DEF IInv, Standing, TypeOK
<1>3. Standing'
  BY <1>1, <1>2, MoveType, MovesKeep DEF IInv, Standing
<1> QED BY <1>1, <1>3, IdleIsSound DEF IInv

\* With the label on, every post so far is behind a stop.
LEMMA LabelKeeps == ASSUME IInv, label' = TRUE, UNCHANGED late PROVE LateStuck' /\ OvertakenOnce'
BY DEF IInv, Standing, LateStuck, Stuck, Taken, OvertakenOnce

LEMMA PauseConversationKeeps == ASSUME IInv, PauseConversation PROVE IInv'
<1>1. /\ UNCHANGED <<text, hook, base, optedOut, log, assignee, wire, files, journal, proposal>>
      /\ UNCHANGED <<issuance, late, bounds>> /\ label' = TRUE
      /\ turn' = Idle /\ Closing("done") /\ turn.what # "none"
  BY DEF PauseConversation, End, Closing, base, files, IInv, TurnInv, PlaceSound
<1>2. TypeOK'
  <2>1. TypeOK
    BY DEF IInv, Standing
  <2>2. turn' \in Turn
    BY <1>1, <2>1, TurnType DEF TypeOK
  <2>3. status' \in [Messages -> {"none", "pending", "done", "failed"}]
    BY <1>1, <2>1, StatusType
  <2> QED BY <1>1, <2>1, <2>2, <2>3 DEF TypeOK, base, files, bounds
<1>3. ArrivalOrder' /\ ProposalHeard' /\ StopIsRecorded'
  BY <1>1, SendHeard, ClosingKeeps
<1>4. Standing'
  BY <1>1, <1>2, <1>3, TalkKeeps, LedgerKeeps, LabelKeeps DEF Standing
<1> QED BY <1>1, <1>4, IdleIsSound DEF IInv

-----------------------------------------------------------------------------
(* The rest of the world *)

\* What the turn knows of the conversation stays true as others move in it.
LEMMA TurnStays ==
    ASSUME IInv, UNCHANGED <<turn, optedOut, proposal, issuance>>,
           \A t \in Messages : Advanced(t) => Advanced(t)',
           \A marker : Posted(marker) => Posted(marker)',
           ToSet(log) \subseteq ToSet(log)',
           turn.pc # "idle" => UNCHANGED status[trigger] /\ (Heard(trigger)' <=> Heard(trigger)),
           (human => unattended) => (human' => unattended'),
           \/ late' = [m \in Messages |-> 0]
           \/ UNCHANGED late /\ (label => label') /\ (assignee => assignee')
    PROVE  TurnInv'
<1>1. UNCHANGED <<trigger, PartCount, LinkPart>>
  BY DEF trigger, PartCount, LinkPart
<1>2. LeadPending' /\ PlaceSound'
  BY <1>1 DEF IInv, TurnInv, LeadPending, PlaceSound
<1>3. ResultSound'
  <2>1. CASE turn.pc = "idle"
    BY <2>1 DEF IInv, TurnInv, PlaceSound, ResultSound, Replies
  <2>2. CASE turn.pc # "idle"
    BY <1>1, <2>2 DEF IInv, TurnInv, ResultSound
  <2> QED BY <2>1, <2>2
<1>4. PartSound'
  BY <1>1 DEF IInv, TurnInv, PartSound, LinkSent
<1>5. turn.pc # "idle" => trigger \in Messages
  BY DEF IInv, TurnInv, LeadPending
<1>6. ReadSound'
  <2>1. CASE late' = [m \in Messages |-> 0]
    BY <1>1, <1>5, <2>1 DEF IInv, TurnInv, ReadSound
  <2>2. CASE UNCHANGED late /\ (label => label') /\ (assignee => assignee')
    <3>1. turn.pc # "idle" => (Taken(trigger) => Taken(trigger)')
      BY <1>1, <1>5, <2>2 DEF Taken
    <3> QED BY <1>1, <1>5, <2>2, <3>1 DEF IInv, TurnInv, ReadSound
  <2> QED BY <2>1, <2>2
<1> QED BY <1>2, <1>3, <1>4, <1>6 DEF TurnInv

LEMMA TeamDeliveryKeeps == ASSUME IInv, TeamDelivery PROVE IInv'
<1>1. /\ UNCHANGED <<text, status, human, requested, optedOut, resumedBy, log, assignee, wire>>
      /\ UNCHANGED <<files, journal, proposal, issuance, turn, late, people>>
      /\ label' = TRUE /\ hook' = FALSE /\ turn.pc = "idle"
      /\ \/ unattended' = FALSE /\ UNCHANGED faults
         \/ faults < MaxFaults /\ faults' = faults + 1 /\ UNCHANGED unattended
  BY DEF TeamDelivery, files
<1>2. TypeOK'
  <2>1. TypeOK
    BY DEF IInv, Standing
  <2>2. unattended' \in BOOLEAN
    BY <1>1, <2>1 DEF TypeOK
  <2>3. faults' \in 0..MaxFaults
    BY <1>1, <2>1, TurnAssumption DEF TypeOK
  <2> QED BY <1>1, <2>1, <2>2, <2>3 DEF TypeOK, files
<1>3. Standing'
  BY <1>1, <1>2, ClosingKeeps, TalkKeeps, LedgerKeeps, LabelKeeps DEF Standing
<1>4. TurnInv'
  BY <1>1 DEF IInv, TurnInv, LeadPending, PlaceSound, ResultSound, PartSound, ReadSound,
              Replies, LinkPart
<1> QED BY <1>3, <1>4 DEF IInv

LEMMA TeamAssignsKeeps == ASSUME IInv, TeamAssigns PROVE IInv'
<1>1. /\ UNCHANGED <<text, status, hook, base, human, unattended, optedOut, log, label, wire>>
      /\ UNCHANGED <<files, journal, proposal, issuance, turn, late, faults>>
      /\ assignee' = TRUE /\ people < MaxPeople /\ people' = people + 1
  BY DEF TeamAssigns, Act, inbox, base, files
<1>2. TypeOK'
  <2>1. TypeOK
    BY DEF IInv, Standing
  <2>2. people' \in 0..MaxPeople
    BY <1>1, <2>1, TurnAssumption DEF TypeOK
  <2> QED BY <1>1, <2>1, <2>2 DEF TypeOK, base, files
<1>3. LateStuck' /\ OvertakenOnce'
  BY <1>1 DEF IInv, Standing, LateStuck, Stuck, Taken, OvertakenOnce
<1>4. Standing'
  BY <1>1, <1>2, <1>3, ClosingKeeps, TalkKeeps, LedgerKeeps DEF Standing
<1>5. TurnInv'
  BY <1>1, SameTalk, SameHeard, TurnStays DEF trigger
<1> QED BY <1>4, <1>5 DEF IInv

LEMMA TeamFreesKeeps == ASSUME IInv, TeamFrees PROVE IInv'
<1>1. /\ UNCHANGED <<text, status, hook, base, human, unattended, optedOut, log, wire>>
      /\ UNCHANGED <<files, journal, proposal, issuance, turn, faults>>
      /\ label' \in {label, FALSE} /\ assignee' \in {assignee, FALSE}
      /\ late' = [m \in Messages |-> 0] /\ people < MaxPeople /\ people' = people + 1
  BY DEF TeamFrees, Act, inbox, base, files
<1>2. TypeOK'
  <2>1. TypeOK
    BY DEF IInv, Standing
  <2>2. people' \in 0..MaxPeople
    BY <1>1, <2>1, TurnAssumption DEF TypeOK
  <2>3. label' \in BOOLEAN /\ assignee' \in BOOLEAN /\ late' \in [Messages -> Nat]
    BY <1>1, <2>1 DEF TypeOK
  <2> QED BY <1>1, <2>1, <2>2, <2>3 DEF TypeOK, base, files
<1>3. LateStuck' /\ OvertakenOnce'
  BY <1>1 DEF LateStuck, OvertakenOnce
<1>4. Standing'
  BY <1>1, <1>2, <1>3, ClosingKeeps, TalkKeeps, LedgerKeeps DEF Standing
<1>5. TurnInv'
  BY <1>1, SameTalk, SameHeard, TurnStays DEF trigger
<1> QED BY <1>4, <1>5 DEF IInv

LEMMA OtherHandoffKeeps == ASSUME IInv, OtherHandoff PROVE IInv'
<1>1. /\ UNCHANGED <<text, status, hook, requested, optedOut, resumedBy, chat, log, label>>
      /\ UNCHANGED <<assignee, wire, files, journal, proposal, issuance, turn, late, faults>>
      /\ human' = TRUE /\ unattended' = TRUE /\ people < MaxPeople /\ people' = people + 1
  BY DEF OtherHandoff, Act, inbox, chat, files
<1>2. TypeOK'
  <2>1. TypeOK
    BY DEF IInv, Standing
  <2>2. people' \in 0..MaxPeople
    BY <1>1, <2>1, TurnAssumption DEF TypeOK
  <2> QED BY <1>1, <2>1, <2>2 DEF TypeOK, chat, files
<1>3. Standing'
  BY <1>1, <1>2, MovesKeep
<1>4. TurnInv'
  BY <1>1, SameTalk, SameHeard, TurnStays DEF trigger
<1> QED BY <1>3, <1>4 DEF IInv

\* Whatever is added to the conversation, a turn that is stuck stays so.
LEMMA LateGrows ==
    ASSUME IInv, NEW p \in Message, log' = Append(log, p),
           UNCHANGED <<late, label, assignee, human, unattended, proposal>>
    PROVE  LateStuck' /\ OvertakenOnce'
<1>1. \A t \in Messages : Advanced(t) => Advanced(t)'
  BY Grown DEF IInv, Standing, TypeOK
<1> QED BY <1>1 DEF IInv, Standing, LateStuck, Stuck, Taken, OvertakenOnce

LEMMA FromType ==
    \A who \in {"lead", "team"} : \A m \in 0..MaxMessages :
        From(who, m) \in Message /\ From(who, m).from = who /\ From(who, m).kind = "none"
BY TurnAssumption DEF From, Message

LEMMA LeadWritesKeeps ==
    ASSUME IInv, NEW m \in Messages, NEW what \in {"talk", "stop"}, LeadWrites(m, what)
    PROVE  IInv'
<1> PICK p \in Message : p = From("lead", m) /\ p.from = "lead" /\ p.kind = "none"
  <2>1. m \in 0..MaxMessages
    BY TurnAssumption DEF Messages
  <2> QED BY <2>1, FromType
<1>1. /\ UNCHANGED <<hook, base, human, unattended, optedOut, label, assignee, wire>>
      /\ UNCHANGED <<files, journal, proposal, issuance, turn, late, bounds>>
      /\ log' = Append(log, p)
      /\ status[m] = "none" /\ \A n \in 1..(m - 1) : status[n] # "none"
      /\ text' = [text EXCEPT ![m] = what] /\ status' = [status EXCEPT ![m] = "pending"]
  BY DEF LeadWrites, base, files
<1>2. TypeOK /\ log \in Seq(Message)
  BY DEF IInv, Standing, TypeOK
<1>3. \A n \in Messages \ {m} : status'[n] = status[n] /\ text'[n] = text[n]
  BY <1>1, <1>2 DEF TypeOK
<1>4. status'[m] = "pending"
  BY <1>1, <1>2 DEF TypeOK
<1>5. TypeOK'
  <2>1. log' \in Seq(Message)
    BY <1>1, <1>2, AppendIs
  <2>2. /\ text' \in [Messages -> {"talk", "stop"}]
        /\ status' \in [Messages -> {"none", "pending", "done", "failed"}]
    BY <1>1, <1>2 DEF TypeOK
  <2> QED BY <1>1, <1>2, <2>1, <2>2 DEF TypeOK, base, files, bounds
<1>6. \A t \in Messages : status[t] # "none" => t < m
  <2> SUFFICES ASSUME NEW t \in Messages, status[t] # "none", ~(t < m) PROVE FALSE
    OBVIOUS
  <2>1. m \in 1..(t - 1)
    BY <1>1, TurnAssumption DEF Messages
  <2> QED BY <2>1, <1>1 DEF IInv, Standing, ArrivalOrder
<1>7. \A t \in Messages : status[t] # "none" => (Heard(t)' <=> Heard(t))
  <2> SUFFICES ASSUME NEW t \in Messages, status[t] # "none" PROVE Heard(t)' <=> Heard(t)
    OBVIOUS
  <2>1. \A n \in 1..t : n \in Messages /\ n # m
    BY <1>6, TurnAssumption DEF Messages
  <2> QED BY <2>1, <1>3 DEF Heard
<1>8. ArrivalOrder'
  <2> SUFFICES ASSUME NEW t \in Messages, status'[t] # "none", NEW n \in 1..(t - 1)
               PROVE  status'[n] # "none"
    BY DEF ArrivalOrder
  <2>1. n \in Messages
    BY TurnAssumption DEF Messages
  <2>2. CASE t = m
    BY <1>1, <1>3, <1>4, <2>1, <2>2
  <2>3. CASE t # m
    BY <1>3, <1>4, <2>1, <2>3 DEF IInv, Standing, ArrivalOrder
  <2> QED BY <2>2, <2>3
<1>9. ProposalHeard'
  BY <1>1, <1>3, <1>4, <1>7 DEF ProposalHeard, IInv, Standing
<1>10. StopIsRecorded'
  BY <1>1, <1>3, <1>4 DEF StopIsRecorded, IInv, Standing
<1>11. JournalSound' /\ WireOrder' /\ PartsOnceInOrder'
  BY <1>1, TalkGrows
<1>12. LinkAccounted'
  <2>1. ToSet(log)' = ToSet(log) \cup {p}
    BY <1>1, <1>2, Grown
  <2> QED BY <1>1, <2>1, LedgerGrows
<1>13. Standing'
  BY <1>1, <1>5, <1>8, <1>9, <1>10, <1>11, <1>12, LateGrows DEF Standing
<1>14. TurnInv'
  <2>1. /\ \A t \in Messages : Advanced(t) => Advanced(t)'
        /\ \A marker : Posted(marker) => Posted(marker)'
        /\ ToSet(log) \subseteq ToSet(log)'
    BY <1>1, <1>2, Grown
  <2>2. ASSUME turn.pc # "idle"
        PROVE  UNCHANGED status[trigger] /\ (Heard(trigger)' <=> Heard(trigger))
    <3>1. trigger \in Messages /\ status[trigger] = "pending" /\ UNCHANGED trigger
      BY <1>1, <2>2 DEF IInv, TurnInv, LeadPending, trigger
    <3> QED BY <1>1, <1>3, <1>7, <3>1
  <2> QED BY <1>1, <2>1, <2>2, TurnStays
<1> QED BY <1>13, <1>14 DEF IInv

LEMMA TeamWritesKeeps == ASSUME IInv, TeamWrites PROVE IInv'
<1> PICK p \in Message : p = From("team", NoMessage) /\ p.from = "team" /\ p.kind = "none"
  <2>1. NoMessage \in 0..MaxMessages
    BY TurnAssumption DEF NoMessage
  <2> QED BY <2>1, FromType
<1>1. /\ UNCHANGED <<text, status, base, human, unattended, optedOut, label, assignee, wire>>
      /\ UNCHANGED <<files, journal, proposal, issuance, turn, late, faults>>
      /\ log' = Append(log, p) /\ hook' = TRUE /\ people < MaxPeople /\ people' = people + 1
  BY DEF TeamWrites, Act, base, files
<1>2. TypeOK /\ log \in Seq(Message)
  BY DEF IInv, Standing, TypeOK
<1>3. TypeOK'
  <2>1. log' \in Seq(Message)
    BY <1>1, <1>2, AppendIs
  <2>2. people' \in 0..MaxPeople
    BY <1>1, <1>2, TurnAssumption DEF TypeOK
  <2> QED BY <1>1, <1>2, <2>1, <2>2 DEF TypeOK, base, files
<1>4. JournalSound' /\ WireOrder' /\ PartsOnceInOrder'
  BY <1>1, TalkGrows
<1>5. /\ \A t \in Messages : Advanced(t) => Advanced(t)'
      /\ \A marker : Posted(marker) => Posted(marker)'
      /\ ToSet(log)' = ToSet(log) \cup {p}
  BY <1>1, <1>2, Grown
<1>6. LinkAccounted'
  BY <1>1, <1>5, LedgerGrows
<1>7. Standing'
  BY <1>1, <1>3, <1>4, <1>6, ClosingKeeps, LateGrows DEF Standing
<1>8. TurnInv'
  BY <1>1, <1>5, SameHeard, TurnStays DEF trigger
<1> QED BY <1>7, <1>8 DEF IInv

LEMMA LandKeeps == ASSUME IInv, NEW p \in wire, Land(p) PROVE IInv'
<1>1. /\ UNCHANGED <<text, status, hook, base, human, unattended, optedOut, label, assignee>>
      /\ UNCHANGED <<files, journal, proposal, issuance, turn, late, bounds>>
      /\ log' = Append(log, p) /\ wire' = wire \ {p}
  BY DEF Land, inbox, base, files
<1>2. TypeOK /\ log \in Seq(Message) /\ p \in Message
  BY DEF IInv, Standing, TypeOK
<1>3. TypeOK'
  <2>1. log' \in Seq(Message) /\ wire' \subseteq Message
    BY <1>1, <1>2, AppendIs DEF TypeOK
  <2> QED BY <1>1, <1>2, <2>1 DEF TypeOK, base, files, bounds
<1>4. /\ PostSound(p)' /\ ~Posted(Marker(p)) /\ \A q \in wire' : Marker(q) # Marker(p)
      /\ p.part > 1 => Posted(<<p.of, p.part - 1, p.parts>>)
  <2>1. PostSound(p) /\ ~Posted(Marker(p)) /\ \A q \in wire \ {p} : Marker(q) # Marker(p)
    BY DEF IInv, Standing, JournalSound
  <2> QED BY <1>1, <2>1, PostSoundKeeps DEF IInv, Standing, WireOrder
<1>5. JournalSound' /\ WireOrder' /\ PartsOnceInOrder'
  BY <1>1, <1>2, <1>4, TalkGrows
<1>6. /\ \A t \in Messages : Advanced(t) => Advanced(t)'
      /\ \A marker : Posted(marker) => Posted(marker)'
      /\ ToSet(log)' = ToSet(log) \cup {p}
  BY <1>1, <1>2, Grown
<1>7. LinkAccounted'
  <2>1. PostSound(p)
    BY DEF IInv, Standing, JournalSound
  <2>2. p.kind = "link" /\ p.part = Parts => issuance[p.of] \in Begun
    BY <2>1 DEF PostSound, IInv, Standing, LinkAccounted, LinkSent, Begun
  <2> QED BY <1>1, <1>6, <2>2, LedgerGrows
<1>8. Standing'
  BY <1>1, <1>2, <1>3, <1>5, <1>7, ClosingKeeps, LateGrows DEF Standing
<1>9. TurnInv'
  BY <1>1, <1>6, SameHeard, TurnStays DEF trigger
<1> QED BY <1>8, <1>9 DEF IInv

LEMMA StutterKeeps == ASSUME IInv, UNCHANGED vars PROVE IInv'
<1>1. /\ UNCHANGED <<text, status, hook, base, human, unattended, optedOut, chat, log, label>>
      /\ UNCHANGED <<assignee, files, proposal, issuance, turn, late, bounds>>
  BY DEF vars, inbox, base, chat, files
<1>2. Standing'
  BY <1>1, MoveType, MovesKeep DEF IInv, Standing, TypeOK
<1>3. TurnInv'
  BY <1>1, SameTalk, SameHeard, TurnStays DEF trigger
<1> QED BY <1>2, <1>3 DEF IInv

-----------------------------------------------------------------------------
(* Theorems *)

\* The invariant holds of an empty conversation.
LEMMA Initially == Init => IInv
<1> SUFFICES ASSUME Init PROVE IInv
  OBVIOUS
<1>1. log = <<>> /\ wire = {} /\ turn = Idle
  BY DEF Init
<1>2. TypeOK
  <2>1. log \in Seq(Message) /\ wire \subseteq Message
    BY <1>1
  <2>2. turn \in Turn
    BY <1>1, TurnAssumption DEF Turn, Idle, Places, NoMessage
  <2>3. Cardinality({}) <= MaxResumes
    BY FS_EmptySet, TurnAssumption
  <2>4. /\ text \in [Messages -> {"talk", "stop"}]
        /\ status \in [Messages -> {"none", "pending", "done", "failed"}]
        /\ late \in [Messages -> Nat]
        /\ proposal \in [Messages -> {"none", "reply1", "reply", "handoff", "link"}]
        /\ issuance \in [Messages -> {"none", "reserved", "request_started", "accepted",
                                      "delivery_unknown"}]
    BY DEF Init
  <2>5. faults \in 0..MaxFaults /\ people \in 0..MaxPeople
    BY TurnAssumption DEF Init
  <2> QED BY <2>1, <2>2, <2>3, <2>4, <2>5 DEF TypeOK, Init
<1>3. JournalSound /\ WireOrder /\ PartsOnceInOrder
  BY <1>1 DEF JournalSound, WireOrder, PartsOnceInOrder
<1>4. ArrivalOrder /\ ProposalHeard /\ LateStuck /\ OvertakenOnce /\ StopIsRecorded
  BY DEF Init, ArrivalOrder, ProposalHeard, LateStuck, OvertakenOnce, StopIsRecorded
<1>5. LinkAccounted
  <2>1. ToSet(log) \cup wire = {}
    BY <1>1 DEF ToSet
  <2> QED BY <2>1 DEF LinkAccounted, LinkSent, Init
<1>6. TurnInv
  BY <1>1 DEF TurnInv, LeadPending, PlaceSound, ResultSound, PartSound, ReadSound, Idle, Replies,
              LinkPart
<1> QED BY <1>2, <1>3, <1>4, <1>5, <1>6 DEF IInv, Standing

\* Every step of the turn, of the team and of the lead keeps it.
LEMMA StepKeeps == IInv /\ [Next]_vars => IInv'
<1> SUFFICES ASSUME IInv, [Next]_vars PROVE IInv'
  OBVIOUS
<1>1. CASE TurnStep
  BY <1>1, AdmitKeeps, LookAtPauseKeeps, LiftKeeps, ClearLabelKeeps, ReadmitKeeps, HistoryKeeps,
     ConfirmKeeps, AgentKeeps, AuthoriseKeeps, LookKeeps, ReadKeeps, PostPartKeeps, ReserveKeeps,
     StartLinkKeeps, AcceptLinkKeeps, LinkUnknownKeeps, WhyNotSentKeeps, NoticeKeeps,
     RequestHandoffKeeps, HandoffRefusedKeeps, PauseConversationKeeps DEF TurnStep
<1>2. CASE World
  BY <1>2, LeadWritesKeeps, TeamWritesKeeps, TeamAssignsKeeps, TeamFreesKeeps,
     OtherHandoffKeeps DEF World
<1>3. CASE StartTurn \/ TurnFails \/ TeamDelivery
  BY <1>3, StartTurnKeeps, TurnFailsKeeps, TeamDeliveryKeeps
<1>4. CASE \E p \in wire : Land(p)
  BY <1>4, LandKeeps
<1>5. CASE UNCHANGED vars
  BY <1>5, StutterKeeps
<1> QED BY <1>1, <1>2, <1>3, <1>4, <1>5 DEF Next

\* The conversation, the journal, the ledgers and what a turn knows of them at each of its
\* awaits agree in every reachable state.
THEOREM InvariantHolds == Spec => []IInv
BY Initially, StepKeeps, PTL DEF Spec

\* Every state of the turn and of the conversation is of its type; no more resumptions are
\* recorded than conversation_resume_max grants.
THEOREM TypeCorrect == Spec => []TypeOK
<1>1. IInv => TypeOK
  BY DEF IInv, Standing
<1> QED BY <1>1, InvariantHolds, PTL

\* Every part of a reply is in the conversation at most once, and only behind the one
\* before it: the journal of send_agent_bot_reply and its reads of the conversation suffice
\* whatever crashes, answers that are lost and messages that land late.
THEOREM PartsInOrder == Spec => []PartsOnceInOrder
<1>1. IInv => PartsOnceInOrder
  BY DEF IInv, Standing
<1> QED BY <1>1, InvariantHolds, PTL

\* Once a conversation is stopped, at most one more part of the turn under way is posted:
\* the reads before each part (reauthorize_durable_reply, _current_authorization_result)
\* keep back the next one.
THEOREM OneMoreAtMost == Spec => []OvertakenOnce
<1>1. IInv => OvertakenOnce
  BY DEF IInv, Standing
<1> QED BY <1>1, InvariantHolds, PTL

\* A message that asks to stop is closed only with its stop recorded
\* (run_shadow_with_canonical_history), whatever pauses, handoffs and batches it meets.
THEOREM StopsRecorded == Spec => []StopIsRecorded
<1>1. IInv => StopIsRecorded
  BY DEF IInv, Standing
<1> QED BY <1>1, InvariantHolds, PTL

\* The ledger of issuances tells which links are in the conversation or may be
\* (deliver_checkout_issuance_v2).
THEOREM LinksAccounted == Spec => []LinkAccounted
<1>1. IInv => LinkAccounted
  BY DEF IInv, Standing
<1> QED BY <1>1, InvariantHolds, PTL
=============================================================================
