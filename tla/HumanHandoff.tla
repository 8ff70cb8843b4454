---------------------------- MODULE HumanHandoff ----------------------------
(***************************************************************************)
(* The handoffs of one inbound conversation: the request that pauses it,   *)
(* the two effects a worker projects into Chatwoot (the team assignment    *)
(* and a private note), the attendance by a person, and the resumption     *)
(* that gives the conversation back to the agent.                          *)
(*                                                                         *)
(* Every RPC is one transaction.  HumanHandoffProjectionWorker.run_once    *)
(* claims a batch, then works on it effect by effect with calls to         *)
(* Chatwoot in between, and nothing looks at the lease before a call: it   *)
(* is the finalization that refuses a lapsed one.  Every process has the   *)
(* worker_id of the settings, so the generation alone tells leases apart.  *)
(***************************************************************************)
EXTENDS Integers

CONSTANTS
    Worker,         \* projection workers (an old and a new process overlap in a deploy)
    MaxAttempts,    \* HUMAN_HANDOFF_PROJECTION_MAX_ATTEMPTS
    MaxResumes,     \* max_resumes of a conversation
    SlowWorkers,    \* may a lease lapse under a worker that is still on its batch?
    MaxRequests,    \* bound of the model: handoffs of the conversation
    MaxAborts,      \* bound of the model: batches cut short
    MaxGen          \* bound of the model: claims of one effect

None == "none"

ASSUME HandoffAssumption ==
    /\ MaxAttempts \in Nat \ {0}
    /\ MaxResumes \in Nat
    /\ SlowWorkers \in BOOLEAN
    /\ MaxRequests \in Nat \ {0}
    /\ MaxAborts \in Nat
    /\ MaxGen \in Nat \ {0}

VARIABLES
    paused,         \* conversation paused_human and case paused, which move together
    reqs,           \* reqs[r]: the human_handoff_requests
    eff,            \* eff[r][k]: its projection effects
    wk,             \* wk[w]: the batch a worker is on
    assignee,       \* who owns the conversation in Chatwoot
    notes,          \* notes[r]: private notes of r in Chatwoot
    flying,         \* flying[r]: posts of the note whose connection was lost
    webhook,        \* the message of a person waits in the inbox
    resumes, aborts \* counters of the bounds

chatwoot == <<assignee, notes, flying>>
vars == <<paused, reqs, eff, wk, chatwoot, webhook, resumes, aborts>>

Request == 1..MaxRequests
Kind == {"assignment", "private_note"}
LiveStatus == {"requested", "projection_failed"}
Claimable == {"pending", "retryable_failed", "delivery_unknown"}
Settled == {"applied", "conflict", "dead_letter"}

HandoffRequest == [status : LiveStatus \cup {None, "projected", "dead_letter"},
                   attended : BOOLEAN]
Effect == [status : Claimable \cup Settled \cup {None}, lease : {None, "live", "lapsed"},
           gen : Nat, due : BOOLEAN]
\* attempt_count moves with lease_generation: gen stands for both.
Job == [req : Request, kind : Kind, gen : Nat, known : Claimable]
Batch == [pc : {"next", "post", "confirm", "done"}, todo : SUBSET Job,
          outcome : Settled \cup Claimable \cup {None}]

NoEffect == [status |-> None, lease |-> None, gen |-> 0, due |-> FALSE]
NewEffect == [NoEffect EXCEPT !.status = "pending", !.due = TRUE]
Idle == [pc |-> "next", todo |-> {}, outcome |-> None]

Init ==
    /\ paused = FALSE
    /\ reqs = [r \in Request |-> [status |-> None, attended |-> FALSE]]
    /\ eff = [r \in Request |-> [k \in Kind |-> NoEffect]]
    /\ wk = [w \in Worker |-> Idle]
    /\ assignee = "nobody"
    /\ notes = [r \in Request |-> 0]
    /\ flying = [r \in Request |-> 0]
    /\ webhook = FALSE
    /\ resumes = 0 /\ aborts = 0
-----------------------------------------------------------------------------
\* The conversation: handoff, attendance, resumption.

\* request_inbound_human_handoff; a live request makes it fail.
RequestHandoff(r) ==
    /\ ~paused
    /\ reqs[r].status = None /\ \A q \in 1..(r - 1) : reqs[q].status # None
    /\ \A q \in Request : reqs[q].status \notin LiveStatus
    /\ reqs' = [reqs EXCEPT ![r].status = "requested"]
    /\ eff' = [eff EXCEPT ![r] = [k \in Kind |-> NewEffect]]
    /\ paused' = TRUE
    /\ UNCHANGED <<wk, chatwoot, webhook, resumes, aborts>>

\* A person writes to the buyer: Chatwoot sends a webhook, the inbox keeps it.
PersonWrites ==
    /\ ~webhook
    /\ webhook' = TRUE
    /\ UNCHANGED <<paused, reqs, eff, wk, chatwoot, resumes, aborts>>

\* mark_human_handoff_attended at the time the webhook is processed, which is after the
\* creation of every request there is; a failure of the call is only logged.
PersonWebhook ==
    /\ webhook
    /\ webhook' = FALSE
    /\ \/ reqs' = [r \in Request |->
                      IF reqs[r].status \in LiveStatus \cup {"projected"}
                      THEN [reqs[r] EXCEPT !.attended = TRUE]
                      ELSE reqs[r]]
       \/ UNCHANGED reqs
    /\ UNCHANGED <<paused, eff, wk, chatwoot, resumes, aborts>>

\* Mutant of PendingHandoff: a projection that is being retried is forgotten.
PendingHandoffForgetful ==
    \E r \in Request :
        \/ reqs[r].status = "requested"
        \/ reqs[r].status = "projected" /\ ~reqs[r].attended

\* "Una derivacion sin atender bloquea la reanudacion".
PendingHandoff ==
    \E r \in Request :
        \/ reqs[r].status \in LiveStatus
        \/ reqs[r].status = "projected" /\ ~reqs[r].attended

\* _resume_paused_conversation and resume_paused_conversation, on a message of the buyer:
\* the team was quiet for long enough or never wrote, or a person took the label off.
Resume ==
    /\ paused
    /\ assignee # "person"
    /\ ~PendingHandoff
    /\ resumes < MaxResumes
    /\ paused' = FALSE
    /\ resumes' = resumes + 1
    /\ UNCHANGED <<reqs, eff, wk, chatwoot, webhook, aborts>>

\* People move conversations between themselves and their teams.
Reassigned ==
    /\ assignee' \in {"nobody", "person", "other_team"} \ {assignee}
    /\ UNCHANGED <<paused, reqs, eff, wk, notes, flying, webhook, resumes, aborts>>
-----------------------------------------------------------------------------
\* The claim of a batch, and time.

RetryDue(r, k) ==
    /\ eff[r][k].status \in Claimable /\ ~eff[r][k].due
    /\ eff' = [eff EXCEPT ![r][k].due = TRUE]
    /\ UNCHANGED <<paused, reqs, wk, chatwoot, webhook, resumes, aborts>>

Holds(w, r, k) ==
    \E job \in wk[w].todo : job.req = r /\ job.kind = k /\ job.gen = eff[r][k].gen

LeaseLapses(r, k) ==
    /\ eff[r][k].lease = "live"
    /\ SlowWorkers \/ (flying[r] = 0 /\ \A w \in Worker : ~Holds(w, r, k))
    /\ eff' = [eff EXCEPT ![r][k].lease = "lapsed"]
    /\ UNCHANGED <<paused, reqs, wk, chatwoot, webhook, resumes, aborts>>

\* A note whose connection was lost shows up after all, or never.
FlyingSettles(r, n) ==
    /\ flying[r] > 0
    /\ flying' = [flying EXCEPT ![r] = @ - 1]
    /\ notes' = [notes EXCEPT ![r] = @ + n]
    /\ UNCHANGED <<paused, reqs, eff, wk, assignee, webhook, resumes, aborts>>

\* claim_human_handoff_projection_effects
\* Mutant of ToClaim: a lease that lapsed is still a lease.
ToClaimUnleased(e) ==
    /\ eff[e.req][e.kind].status \in Claimable
    /\ eff[e.req][e.kind].due
    /\ eff[e.req][e.kind].lease = None
    /\ eff[e.req][e.kind].gen < MaxGen
    /\ reqs[e.req].status # "projected"

ToClaim(e) ==
    /\ eff[e.req][e.kind].status \in Claimable
    /\ eff[e.req][e.kind].due
    /\ eff[e.req][e.kind].lease # "live"
    /\ eff[e.req][e.kind].gen < MaxGen
    /\ reqs[e.req].status # "projected"

Claimed(e) == [req |-> e.req, kind |-> e.kind, gen |-> eff[e.req][e.kind].gen + 1,
               known |-> eff[e.req][e.kind].status]

Claim(w) ==
    LET batch == {e \in [req : Request, kind : Kind] : ToClaim(e)}
    IN /\ wk[w].todo = {}
       /\ paused
       /\ batch # {}
       /\ eff' = [r \in Request |-> [k \in Kind |->
                    IF [req |-> r, kind |-> k] \in batch
                    THEN [eff[r][k] EXCEPT !.lease = "live", !.gen = @ + 1]
                    ELSE eff[r][k]]]
       /\ wk' = [wk EXCEPT ![w].todo = {Claimed(e) : e \in batch}]
       /\ UNCHANGED <<paused, reqs, chatwoot, webhook, resumes, aborts>>
-----------------------------------------------------------------------------
\* The calls to Chatwoot for the first effect of the batch.

\* The batch is in order of request, the assignment first.
Before(i, j) == i.req < j.req \/ (i.req = j.req /\ i.kind = "assignment")

\* The turn of a job of the batch, at step pc of its calls.
Turn(w, job, pc) ==
    /\ wk[w].pc = pc
    /\ job \in wk[w].todo
    /\ \A other \in wk[w].todo \ {job} : Before(job, other)

\* An HTTP or protocol error: try again, unless the attempts are used up.
Failed(job) ==
    IF job.gen >= MaxAttempts THEN "dead_letter"
    ELSE IF job.known = "delivery_unknown" THEN "delivery_unknown" ELSE "retryable_failed"

\* Nobody knows whether the note is there.
Unknown(job) == IF job.gen >= MaxAttempts THEN "dead_letter" ELSE "delivery_unknown"

Done(w, outcome) == wk' = [wk EXCEPT ![w].pc = "done", ![w].outcome = outcome]

\* The first read fails, or the effect was never deliverable.
ReadFails(w, job) ==
    /\ Turn(w, job, "next")
    /\ \E outcome \in {Failed(job), "dead_letter"} : Done(w, outcome)
    /\ UNCHANGED <<paused, reqs, eff, chatwoot, webhook, resumes, aborts>>

\* ensure_handoff_assignment: read who owns the conversation...
ReadAssignee(w, job) ==
    /\ Turn(w, job, "next") /\ job.kind = "assignment"
    /\ \/ assignee \in {"person", "team"} /\ Done(w, "applied")
       \/ assignee = "other_team" /\ Done(w, "conflict")
       \/ assignee = "nobody" /\ wk' = [wk EXCEPT ![w].pc = "post"]
    /\ UNCHANGED <<paused, reqs, eff, chatwoot, webhook, resumes, aborts>>

\* ... assign the team; a person stays, whatever their team...
PostAssignment(w, job) ==
    /\ Turn(w, job, "post") /\ job.kind = "assignment"
    /\ \/ /\ assignee' = IF assignee = "person" THEN "person" ELSE "team"
          /\ \/ wk' = [wk EXCEPT ![w].pc = "confirm"]
             \/ Done(w, Failed(job))
       \/ UNCHANGED assignee /\ Done(w, Failed(job))
    /\ UNCHANGED <<paused, reqs, eff, notes, flying, webhook, resumes, aborts>>

\* ... and read it back.
ConfirmAssignment(w, job) ==
    /\ Turn(w, job, "confirm") /\ job.kind = "assignment"
    /\ \/ assignee \in {"person", "team"} /\ Done(w, "applied")
       \/ assignee = "other_team" /\ Done(w, "conflict")
       \/ Done(w, Failed(job))
    /\ UNCHANGED <<paused, reqs, eff, chatwoot, webhook, resumes, aborts>>

\* Mutant of ScanNotes: it may write again after an unknown delivery.
ScanNotesRecreating(w, job) ==
    /\ Turn(w, job, "next") /\ job.kind = "private_note"
    /\ \/ notes[job.req] > 1 /\ Done(w, "conflict")
       \/ notes[job.req] = 1 /\ Done(w, "applied")
       \/ notes[job.req] = 0 /\ wk' = [wk EXCEPT ![w].pc = "post"]
    /\ UNCHANGED <<paused, reqs, eff, chatwoot, webhook, resumes, aborts>>

\* ensure_private_handoff_note: look for the marker of the note...
ScanNotes(w, job) ==
    /\ Turn(w, job, "next") /\ job.kind = "private_note"
    /\ \/ notes[job.req] > 1 /\ Done(w, "conflict")
       \/ notes[job.req] = 1 /\ Done(w, "applied")
       \/ notes[job.req] = 0 /\ job.known = "delivery_unknown" /\ Done(w, Unknown(job))
       \/ /\ notes[job.req] = 0 /\ job.known # "delivery_unknown"
          /\ wk' = [wk EXCEPT ![w].pc = "post"]
    /\ UNCHANGED <<paused, reqs, eff, chatwoot, webhook, resumes, aborts>>

\* ... and write it: it is there and confirmed, there and unconfirmed, on its way, or lost.
PostNote(w, job) ==
    /\ Turn(w, job, "post") /\ job.kind = "private_note"
    /\ \/ /\ notes' = [notes EXCEPT ![job.req] = @ + 1] /\ UNCHANGED flying
          /\ Done(w, "applied") \/ Done(w, Unknown(job))
       \/ /\ flying' = [flying EXCEPT ![job.req] = @ + 1] /\ UNCHANGED notes
          /\ Done(w, Unknown(job))
       \/ UNCHANGED <<notes, flying>> /\ Done(w, Unknown(job))
    /\ UNCHANGED <<paused, reqs, eff, assignee, webhook, resumes, aborts>>
-----------------------------------------------------------------------------
\* finalize_human_handoff_projection_effect

Fenced(job) ==
    LET e == eff[job.req][job.kind]
    IN e.gen = job.gen /\ e.lease = "live" /\ e.status \in Claimable

EffectBecomes(job, outcome) ==
    eff' = [eff EXCEPT ![job.req][job.kind] =
               [@ EXCEPT !.status = outcome, !.lease = None, !.due = outcome \notin Claimable]]

\* Mutants of RequestBecomes: the request takes the outcome...
RequestTakesOutcome(job, outcome) == reqs' = [reqs EXCEPT ![job.req].status = outcome]

\* ... or only the outcome at hand is looked at.
RequestBecomesOutcome(job, outcome) ==
    reqs' = [reqs EXCEPT ![job.req].status =
        IF outcome = "applied" /\ \A k \in Kind : k = job.kind \/ eff[job.req][k].status = "applied"
        THEN "projected"
        ELSE IF outcome = "dead_letter" THEN "dead_letter" ELSE "projection_failed"]

RequestBecomes(job, outcome) ==
    LET status(k) == IF k = job.kind THEN outcome ELSE eff[job.req][k].status
    IN reqs' = [reqs EXCEPT ![job.req].status =
                   IF \A k \in Kind : status(k) = "applied" THEN "projected"
                   ELSE IF \E k \in Kind : status(k) = "dead_letter" THEN "dead_letter"
                   ELSE "projection_failed"]

Finalize(w, job) ==
    /\ Turn(w, job, "done")
    /\ Fenced(job)
    /\ EffectBecomes(job, wk[w].outcome)
    /\ RequestBecomes(job, wk[w].outcome)
    /\ wk' = [wk EXCEPT ![w] = [Idle EXCEPT !.todo = wk[w].todo \ {job}]]
    /\ UNCHANGED <<paused, chatwoot, webhook, resumes, aborts>>

\* The fence raises, and with it the rest of the batch is left to its leases.
Refused(w, job) ==
    /\ Turn(w, job, "done")
    /\ ~Fenced(job)
    /\ wk' = [wk EXCEPT ![w] = Idle]
    /\ UNCHANGED <<paused, reqs, eff, chatwoot, webhook, resumes, aborts>>

\* The process dies, or a call raises what run_once does not catch.
Abort(w) ==
    /\ wk[w].todo # {} /\ aborts < MaxAborts
    /\ wk' = [wk EXCEPT ![w] = Idle]
    /\ aborts' = aborts + 1
    /\ UNCHANGED <<paused, reqs, eff, chatwoot, webhook, resumes>>
-----------------------------------------------------------------------------
Attempt(w, job) ==
    \/ ReadFails(w, job)
    \/ ReadAssignee(w, job) \/ PostAssignment(w, job) \/ ConfirmAssignment(w, job)
    \/ ScanNotes(w, job) \/ PostNote(w, job)
    \/ Finalize(w, job) \/ Refused(w, job)

WorkerStep(w) == Claim(w) \/ \E job \in wk[w].todo : Attempt(w, job)

ConversationStep ==
    \/ \E r \in Request : RequestHandoff(r)
    \/ PersonWrites \/ PersonWebhook \/ Resume \/ Reassigned

Next ==
    \/ ConversationStep
    \/ \E w \in Worker : WorkerStep(w) \/ Abort(w)
    \/ \E r \in Request, k \in Kind : RetryDue(r, k) \/ LeaseLapses(r, k)
    \/ \E r \in Request, n \in 0..1 : FlyingSettles(r, n)

Spec == Init /\ [][Next]_vars
-----------------------------------------------------------------------------
\* Type invariant.
TypeOK ==
    /\ paused \in BOOLEAN
    /\ reqs \in [Request -> HandoffRequest]
    /\ eff \in [Request -> [Kind -> Effect]]
    /\ wk \in [Worker -> Batch]
    /\ assignee \in {"nobody", "person", "team", "other_team"}
    /\ notes \in [Request -> Nat] /\ flying \in [Request -> Nat]
    /\ webhook \in BOOLEAN
    /\ resumes \in 0..MaxResumes /\ aborts \in 0..MaxAborts

\* A live request belongs to a paused conversation and is the only one: the live request
\* conflict that request_inbound_human_handoff raises cannot happen to an active one,
\* whatever the worker finalizes after a resumption.
LiveMeansPaused ==
    /\ \A r \in Request : reqs[r].status \in LiveStatus => paused
    /\ \A q, r \in Request :
          reqs[q].status \in LiveStatus /\ reqs[r].status \in LiveStatus => q = r

\* The status of a request summarises both effects, in whatever order, by whatever worker
\* and after however many lost leases they were finalized.
RequestSummarises ==
    \A r \in Request :
        /\ reqs[r].status = "projected" <=> \A k \in Kind : eff[r][k].status = "applied"
        /\ reqs[r].status = "dead_letter" <=> \E k \in Kind : eff[r][k].status = "dead_letter"
        /\ reqs[r].status = "requested" => \A k \in Kind : eff[r][k].status = "pending"

\* An applied note is there to be read.
AppliedNoteIsThere ==
    \A r \in Request : eff[r]["private_note"].status = "applied" => notes[r] > 0

\* No retry, reclaim or late answer undoes what was settled.
SettledStaysSettled ==
    [][\A r \in Request, k \in Kind :
          eff[r][k].status \in Settled => eff'[r][k].status = eff[r][k].status]_vars

\* "Find or create exactly one private note" (chatwoot.py, ensure_private_handoff_note).
AtMostOneNote == \A r \in Request : notes[r] <= 1

\* "Tras un POST incierto, el estado delivery_unknown solo permite escanear: nunca vuelve a
\* crear la nota automaticamente" (executable-human-handoff-v1.md): no post leaves while the
\* effect is in that status.
UnknownOnlyScans ==
    [][\A r \in Request :
          eff[r]["private_note"].status = "delivery_unknown" =>
              notes'[r] + flying'[r] <= notes[r] + flying[r]]_vars

\* A request and its effects exist together.
EffectsExist == \A r \in Request, k \in Kind : reqs[r].status = None <=> eff[r][k].status = None

\* A worker without a batch is between calls, and a call that is over has an outcome.
BatchesStand ==
    \A w \in Worker : /\ wk[w].todo = {} => wk[w].pc = "next"
                      /\ wk[w].pc = "done" => wk[w].outcome # None

\* A note about to be recorded as applied is in Chatwoot.
NoteSeen ==
    \A w \in Worker : \A job \in wk[w].todo :
        Turn(w, job, "done") /\ job.kind = "private_note" /\ wk[w].outcome = "applied" =>
            notes[job.req] > 0

\* The inductive invariant behind the properties above, for whatever leases that lapse.
IInv ==
    /\ TypeOK
    /\ EffectsExist /\ RequestSummarises /\ LiveMeansPaused
    /\ BatchesStand /\ NoteSeen /\ AppliedNoteIsThere

\* The effects of the batches are leased to their workers and as they were when claimed.
HeldIsLeased ==
    \A w \in Worker : \A job \in wk[w].todo :
        LET e == eff[job.req][job.kind]
        IN e.gen = job.gen /\ e.lease = "live" /\ e.status \in Claimable /\ e.status = job.known

\* An effect is in one batch, once.
BatchesApart ==
    \A v, w \in Worker : \A i \in wk[v].todo, j \in wk[w].todo :
        i.req = j.req /\ i.kind = j.kind => v = w /\ i = j

\* Whoever is about to post a note knows that none is there nor on its way.
PostIsFirst ==
    \A w \in Worker : \A job \in wk[w].todo :
        Turn(w, job, "post") /\ job.kind = "private_note" =>
            notes[job.req] = 0 /\ flying[job.req] = 0 /\ job.known # "delivery_unknown"

NeverAgain == {"delivery_unknown"} \cup Settled

\* What was unknown is never again taken for unsent.
UnknownStays ==
    \A w \in Worker : \A job \in wk[w].todo :
        /\ Turn(w, job, "done") /\ job.kind = "private_note"
        /\ job.known = "delivery_unknown" \/ flying[job.req] > 0
        => wk[w].outcome \in NeverAgain

\* While a note is on its way its effect is known to be so, or leased by a worker that
\* died or is about to say so.
LostIsKnown ==
    \A r \in Request :
        flying[r] > 0 /\ eff[r]["private_note"].status \notin NeverAgain =>
            /\ eff[r]["private_note"].lease = "live"
            /\ \A w \in Worker : \A job \in wk[w].todo :
                  job.req = r /\ job.kind = "private_note" => Turn(w, job, "done")

\* A note is in Chatwoot or on its way at most once, and only if the request wants it.
NotesCounted ==
    \A r \in Request :
        notes[r] + flying[r] <= IF eff[r]["private_note"].status = None THEN 0 ELSE 1

\* The inductive invariant behind AtMostOneNote and UnknownOnlyScans, when leases outlive
\* the work on them.
NotesInv ==
    /\ HeldIsLeased /\ BatchesApart /\ PostIsFirst /\ UnknownStays /\ LostIsKnown
    /\ NotesCounted

Fairness ==
    /\ \A w \in Worker : WF_vars(WorkerStep(w))
    /\ \A r \in Request, k \in Kind : WF_vars(RetryDue(r, k)) /\ WF_vars(LeaseLapses(r, k))
    /\ \A r \in Request : WF_vars(\E n \in 0..1 : FlyingSettles(r, n))

FairSpec == Spec /\ Fairness

\* No effect of a paused conversation is retried for ever, nor forgotten.
EffectsSettle ==
    \A r \in Request, k \in Kind :
        eff[r][k].status \in Claimable ~> (eff[r][k].status \in Settled \/ ~paused)
=============================================================================
