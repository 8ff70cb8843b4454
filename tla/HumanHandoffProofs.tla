-------------------------- MODULE HumanHandoffProofs --------------------------
(* Proofs about HumanHandoff for every number of workers, attempts, handoffs,   *)
(* resumptions and lost leases.                                                 *)
EXTENDS HumanHandoff, TLAPS

LEMMA Put ==
    ASSUME NEW S, NEW T, NEW f \in [S -> T], NEW s \in S, NEW t \in T
    PROVE  [f EXCEPT ![s] = t] \in [S -> T]
OBVIOUS

\* What the type invariant says of single components.
LEMMA Typed ==
    ASSUME TypeOK
    PROVE  /\ reqs \in [Request -> HandoffRequest]
           /\ eff \in [Request -> [Kind -> Effect]]
           /\ wk \in [Worker -> Batch]
           /\ \A r \in Request : reqs[r] \in HandoffRequest /\ eff[r] \in [Kind -> Effect]
           /\ \A r \in Request, k \in Kind : eff[r][k] \in Effect
           /\ \A w \in Worker : wk[w] \in Batch /\ wk[w].todo \in SUBSET Job
           /\ \A w \in Worker : \A job \in wk[w].todo :
                 job \in Job /\ job.req \in Request /\ job.kind \in Kind
BY DEF TypeOK, Batch, Job

LEMMA InitType == Init => TypeOK
<1>1. [status |-> None, attended |-> FALSE] \in HandoffRequest
  BY DEF HandoffRequest
<1>2. NoEffect \in Effect
  BY DEF NoEffect, Effect
<1>3. Idle \in Batch
  BY DEF Idle, Batch
<1>4. Init => /\ reqs \in [Request -> HandoffRequest]
              /\ eff \in [Request -> [Kind -> Effect]]
              /\ wk \in [Worker -> Batch]
  BY <1>1, <1>2, <1>3 DEF Init
<1>5. 0 \in 0..MaxResumes /\ 0 \in 0..MaxAborts
  BY HandoffAssumption
<1>6. Init => /\ assignee \in {"nobody", "person", "team", "other_team"}
              /\ notes \in [Request -> Nat] /\ flying \in [Request -> Nat]
  BY DEF Init
<1>8. Init => paused \in BOOLEAN /\ webhook \in BOOLEAN
  BY DEF Init
<1>7. Init => resumes \in 0..MaxResumes /\ aborts \in 0..MaxAborts
  BY <1>5 DEF Init
<1> QED BY <1>4, <1>6, <1>7, <1>8 DEF TypeOK

\* The edits of an effect leave an effect.
LEMMA EffectEdits ==
    ASSUME NEW e \in Effect, NEW s \in Claimable \cup Settled \cup {None}, NEW d \in BOOLEAN
    PROVE  /\ [e EXCEPT !.lease = "live", !.gen = e.gen + 1] \in Effect
           /\ [e EXCEPT !.status = s, !.lease = None, !.due = d] \in Effect
           /\ [e EXCEPT !.due = d] \in Effect
           /\ [e EXCEPT !.lease = "lapsed"] \in Effect
<1>1. e.gen + 1 \in Nat
  BY DEF Effect
<1>2. [e EXCEPT !.lease = "live", !.gen = e.gen + 1] \in Effect
  BY <1>1 DEF Effect
<1>3. [e EXCEPT !.status = s, !.lease = None, !.due = d] \in Effect
  BY DEF Effect
<1>4. [e EXCEPT !.due = d] \in Effect
  BY DEF Effect
<1>5. [e EXCEPT !.lease = "lapsed"] \in Effect
  BY DEF Effect
<1> QED BY <1>2, <1>3, <1>4, <1>5

\* The effects of a batch change field by field.
LEMMA EffectPut ==
    ASSUME TypeOK, NEW r \in Request, NEW k \in Kind, NEW e \in Effect
    PROVE  [eff EXCEPT ![r][k] = e] \in [Request -> [Kind -> Effect]]
<1>1. [eff[r] EXCEPT ![k] = e] \in [Kind -> Effect]
  BY Typed
<1>2. [eff EXCEPT ![r] = [eff[r] EXCEPT ![k] = e]] \in [Request -> [Kind -> Effect]]
  BY <1>1, Typed
<1> QED BY <1>2, Typed

LEMMA RequestHandoffType == ASSUME TypeOK, NEW r \in Request, RequestHandoff(r) PROVE TypeOK'
<1>1. [reqs[r] EXCEPT !.status = "requested"] \in HandoffRequest
  BY Typed DEF HandoffRequest, LiveStatus
<1>2. reqs' \in [Request -> HandoffRequest]
  BY <1>1, Typed DEF RequestHandoff
<1>3. [k \in Kind |-> NewEffect] \in [Kind -> Effect]
  BY DEF NewEffect, NoEffect, Effect, Claimable
<1>4. eff' \in [Request -> [Kind -> Effect]]
  BY <1>3, Typed DEF RequestHandoff
<1> QED BY <1>2, <1>4 DEF RequestHandoff, TypeOK, chatwoot

LEMMA ConversationType == ASSUME TypeOK, ConversationStep PROVE TypeOK'
<1>1. ASSUME NEW r \in Request, RequestHandoff(r) PROVE TypeOK'
  BY <1>1, RequestHandoffType
<1>2. CASE PersonWrites
  BY <1>2 DEF PersonWrites, TypeOK, chatwoot
<1>3. CASE PersonWebhook
  <2>1. \A r \in Request : [reqs[r] EXCEPT !.attended = TRUE] \in HandoffRequest
    BY Typed DEF HandoffRequest
  <2>2. reqs' \in [Request -> HandoffRequest]
    BY <2>1, <1>3, Typed DEF PersonWebhook
  <2> QED BY <2>2, <1>3 DEF PersonWebhook, TypeOK, chatwoot
<1>4. CASE Resume
  <2>1. resumes' \in 0..MaxResumes
    BY <1>4, HandoffAssumption DEF Resume, TypeOK
  <2> QED BY <2>1, <1>4 DEF Resume, TypeOK, chatwoot
<1>5. CASE Reassigned
  BY <1>5 DEF Reassigned, TypeOK
<1> QED BY <1>1, <1>2, <1>3, <1>4, <1>5 DEF ConversationStep

LEMMA ClaimType == ASSUME TypeOK, NEW w \in Worker, Claim(w) PROVE TypeOK'
<1> DEFINE batch == {e \in [req : Request, kind : Kind] : ToClaim(e)}
<1>1. \A e \in batch : Claimed(e) \in Job
  BY Typed DEF ToClaim, Claimed, Job, Effect
<1>2. [wk[w] EXCEPT !.todo = {Claimed(e) : e \in batch}] \in Batch
  BY <1>1, Typed DEF Batch
<1>3. wk' \in [Worker -> Batch]
  BY <1>2, Typed DEF Claim
<1>4. ASSUME NEW r \in Request, NEW k \in Kind
      PROVE  [eff[r][k] EXCEPT !.lease = "live", !.gen = @ + 1] \in Effect
  BY Typed, EffectEdits
<1>5. eff' \in [Request -> [Kind -> Effect]]
  <2>1. ASSUME NEW r \in Request
        PROVE  [k \in Kind |-> IF [req |-> r, kind |-> k] \in batch
                               THEN [eff[r][k] EXCEPT !.lease = "live", !.gen = @ + 1]
                               ELSE eff[r][k]] \in [Kind -> Effect]
    BY <1>4, Typed
  <2> QED BY <2>1 DEF Claim
<1> QED BY <1>3, <1>5 DEF Claim, TypeOK, chatwoot

\* A step of the calls to Chatwoot leaves a batch a batch.
LEMMA DoneType ==
    ASSUME TypeOK, NEW w \in Worker, NEW outcome \in Settled \cup Claimable, Done(w, outcome)
    PROVE  wk' \in [Worker -> Batch]
<1>1. [wk[w] EXCEPT !.pc = "done", !.outcome = outcome] \in Batch
  BY Typed DEF Batch
<1> QED BY <1>1, Typed DEF Done

LEMMA PcType ==
    ASSUME TypeOK, NEW w \in Worker, NEW pc \in {"post", "confirm"}
    PROVE  [wk EXCEPT ![w].pc = pc] \in [Worker -> Batch]
<1>1. [wk[w] EXCEPT !.pc = pc] \in Batch
  BY Typed DEF Batch
<1> QED BY <1>1, Typed

LEMMA Outcomes ==
    ASSUME NEW job \in Job
    PROVE  /\ Failed(job) \in Settled \cup Claimable /\ Unknown(job) \in Settled \cup Claimable
           /\ Unknown(job) \in NeverAgain
           /\ job.known = "delivery_unknown" => Failed(job) \in NeverAgain
           /\ Failed(job) # "applied" /\ Unknown(job) # "applied"
           /\ Failed(job) # None /\ Unknown(job) # None
BY DEF Failed, Unknown, Settled, Claimable, NeverAgain, None

\* The calls to Chatwoot change batches, notes and the assignee only, and end in "done".
LEMMA CallsType ==
    ASSUME TypeOK, NEW w \in Worker, NEW job \in wk[w].todo,
           \/ ReadFails(w, job) \/ ReadAssignee(w, job) \/ PostAssignment(w, job)
           \/ ConfirmAssignment(w, job) \/ ScanNotes(w, job) \/ PostNote(w, job)
    PROVE  TypeOK'
<1>0. job \in Job /\ job.req \in Request
  BY Typed
<1> USE DEF Settled
<1>1. CASE ReadFails(w, job)
  BY <1>1, <1>0, DoneType, Outcomes DEF ReadFails, TypeOK, chatwoot
<1>2. CASE ReadAssignee(w, job)
  BY <1>2, DoneType, PcType DEF ReadAssignee, TypeOK, chatwoot
<1>3. CASE PostAssignment(w, job)
  BY <1>3, <1>0, DoneType, PcType, Outcomes DEF PostAssignment, TypeOK
<1>4. CASE ConfirmAssignment(w, job)
  BY <1>4, <1>0, DoneType, Outcomes DEF ConfirmAssignment, TypeOK, chatwoot
<1>5. CASE ScanNotes(w, job)
  BY <1>5, <1>0, DoneType, PcType, Outcomes DEF ScanNotes, TypeOK, chatwoot
<1>6. CASE PostNote(w, job)
  <2>1. wk' \in [Worker -> Batch]
    BY <1>6, <1>0, DoneType, Outcomes DEF PostNote
  <2>2. notes' \in [Request -> Nat] /\ flying' \in [Request -> Nat]
    <3>1. notes[job.req] + 1 \in Nat /\ flying[job.req] + 1 \in Nat
      BY <1>0 DEF TypeOK
    <3>2. /\ notes' = notes \/ notes' = [notes EXCEPT ![job.req] = notes[job.req] + 1]
          /\ flying' = flying \/ flying' = [flying EXCEPT ![job.req] = flying[job.req] + 1]
      BY <1>6 DEF PostNote
    <3>3. notes \in [Request -> Nat] /\ flying \in [Request -> Nat]
      BY DEF TypeOK
    <3> QED BY <3>1, <3>2, <3>3, <1>0
  <2> QED BY <2>1, <2>2, <1>6 DEF PostNote, TypeOK
<1> QED BY <1>1, <1>2, <1>3, <1>4, <1>5, <1>6

LEMMA FinalizeType ==
    ASSUME TypeOK, NEW w \in Worker, NEW job \in wk[w].todo, Finalize(w, job)
    PROVE  TypeOK'
<1>0. job \in Job /\ job.req \in Request /\ job.kind \in Kind /\ wk[w].outcome \in Settled \cup Claimable \cup {None}
  BY Typed DEF Batch
<1>1. [eff[job.req][job.kind] EXCEPT !.status = wk[w].outcome, !.lease = None,
                                     !.due = wk[w].outcome \notin Claimable] \in Effect
  BY <1>0, Typed, EffectEdits
<1>2. eff' \in [Request -> [Kind -> Effect]]
  BY <1>1, <1>0, EffectPut, Typed DEF Finalize, EffectBecomes
<1>3. \A s \in LiveStatus \cup {"projected", "dead_letter"} :
          [reqs EXCEPT ![job.req].status = s] \in [Request -> HandoffRequest]
  <2>1. \A s \in LiveStatus \cup {"projected", "dead_letter"} :
            [reqs[job.req] EXCEPT !.status = s] \in HandoffRequest
    BY <1>0, Typed DEF HandoffRequest
  <2> QED BY <2>1, <1>0, Typed
<1>4. reqs' \in [Request -> HandoffRequest]
  BY <1>3 DEF Finalize, RequestBecomes, LiveStatus
<1>5. [Idle EXCEPT !.todo = wk[w].todo \ {job}] \in Batch
  BY Typed DEF Idle, Batch
<1>6. wk' \in [Worker -> Batch]
  BY <1>5, Typed DEF Finalize
<1> QED BY <1>2, <1>4, <1>6 DEF Finalize, TypeOK, chatwoot

LEMMA IdleType == Idle \in Batch
BY DEF Idle, Batch

\* Every action keeps the type invariant.
LEMMA StepType == TypeOK /\ [Next]_vars => TypeOK'
<1> SUFFICES ASSUME TypeOK, [Next]_vars PROVE TypeOK'
  OBVIOUS
<1>1. CASE ConversationStep
  BY <1>1, ConversationType
<1>2. ASSUME NEW w \in Worker, WorkerStep(w) PROVE TypeOK'
  <2>1. CASE Claim(w)
    BY <2>1, ClaimType
  <2>2. ASSUME NEW job \in wk[w].todo, Attempt(w, job) PROVE TypeOK'
    <3>1. CASE Finalize(w, job)
      BY <3>1, FinalizeType
    <3>2. CASE Refused(w, job)
      BY <3>2, IdleType, Typed DEF Refused, TypeOK, chatwoot
    <3> QED BY <3>1, <3>2, <2>2, CallsType DEF Attempt
  <2> QED BY <2>1, <2>2, <1>2 DEF WorkerStep
<1>3. ASSUME NEW w \in Worker, Abort(w) PROVE TypeOK'
  <2>1. aborts' \in 0..MaxAborts
    BY <1>3, HandoffAssumption DEF Abort, TypeOK
  <2> QED BY <2>1, <1>3, IdleType, Typed DEF Abort, TypeOK, chatwoot
<1>4. ASSUME NEW r \in Request, NEW k \in Kind, RetryDue(r, k) \/ LeaseLapses(r, k) PROVE TypeOK'
  <2>1. [eff[r][k] EXCEPT !.due = TRUE] \in Effect /\ [eff[r][k] EXCEPT !.lease = "lapsed"] \in Effect
    BY Typed, EffectEdits
  <2>2. eff' \in [Request -> [Kind -> Effect]]
    <3>1. \/ eff' = [eff EXCEPT ![r][k] = [eff[r][k] EXCEPT !.due = TRUE]]
          \/ eff' = [eff EXCEPT ![r][k] = [eff[r][k] EXCEPT !.lease = "lapsed"]]
      BY <1>4 DEF RetryDue, LeaseLapses
    <3>2. /\ [eff EXCEPT ![r][k] = [eff[r][k] EXCEPT !.due = TRUE]] \in [Request -> [Kind -> Effect]]
          /\ [eff EXCEPT ![r][k] = [eff[r][k] EXCEPT !.lease = "lapsed"]]
                \in [Request -> [Kind -> Effect]]
      BY <2>1, EffectPut
    <3> QED BY <3>1, <3>2
  <2> QED BY <2>2, <1>4 DEF RetryDue, LeaseLapses, TypeOK, chatwoot
<1>5. ASSUME NEW r \in Request, NEW n \in 0..1, FlyingSettles(r, n) PROVE TypeOK'
  BY <1>5 DEF FlyingSettles, TypeOK
<1>6. CASE UNCHANGED vars
  BY <1>6 DEF vars, TypeOK, chatwoot
<1> QED BY <1>1, <1>2, <1>3, <1>4, <1>5, <1>6 DEF Next

\* Every variable keeps its type (human_handoff_requests and _projection_effects).
THEOREM TypeCorrect == Spec => []TypeOK
BY InitType, StepType, PTL DEF Spec

-----------------------------------------------------------------------------
(* Requests and effects, whatever happens to the leases. *)

RequestSide == EffectsExist /\ RequestSummarises /\ LiveMeansPaused

SameStatus ==
    /\ \A r \in Request : reqs'[r].status = reqs[r].status
    /\ \A r \in Request, k \in Kind : eff'[r][k].status = eff[r][k].status

LEMMA SameStatusKeeps ==
    ASSUME RequestSide, SameStatus, paused' = paused
    PROVE  RequestSide'
BY DEF RequestSide, SameStatus, EffectsExist, RequestSummarises, LiveMeansPaused

LEMMA InitSide == Init => RequestSide
BY DEF Init, RequestSide, EffectsExist, RequestSummarises, LiveMeansPaused, NoEffect,
       LiveStatus, None, Kind

\* What a new request writes.
LEMMA NewRequest ==
    ASSUME TypeOK, NEW r \in Request, RequestHandoff(r)
    PROVE  /\ reqs'[r].status = "requested" /\ \A k \in Kind : eff'[r][k].status = "pending"
           /\ \A q \in Request \ {r} : reqs'[q].status = reqs[q].status /\ eff'[q] = eff[q]
<1>1. reqs'[r] = [reqs[r] EXCEPT !.status = "requested"] /\ eff'[r] = [k \in Kind |-> NewEffect]
  BY Typed DEF RequestHandoff
<1>2. "status" \in DOMAIN reqs[r]
  BY Typed DEF HandoffRequest
<1>3. NewEffect.status = "pending"
  BY DEF NewEffect, NoEffect
<1>4. \A q \in Request \ {r} : reqs'[q] = reqs[q] /\ eff'[q] = eff[q]
  BY Typed DEF RequestHandoff
<1> QED BY <1>1, <1>2, <1>3, <1>4

LEMMA RequestHandoffSide ==
    ASSUME TypeOK, RequestSide, NEW r \in Request, RequestHandoff(r)
    PROVE  RequestSide'
<1>1. paused' /\ \A q \in Request : reqs[q].status \notin LiveStatus
  BY DEF RequestHandoff
<1>2. EffectsExist'
  BY NewRequest DEF RequestSide, EffectsExist, None
<1>3. RequestSummarises'
  BY NewRequest DEF RequestSide, RequestSummarises, Kind
<1>4. LiveMeansPaused'
  BY <1>1, NewRequest DEF LiveMeansPaused
<1> QED BY <1>2, <1>3, <1>4 DEF RequestSide

\* What a finalization writes.
LEMMA Finalized ==
    ASSUME TypeOK, NEW w \in Worker, NEW job \in wk[w].todo, Finalize(w, job)
    PROVE  /\ eff'[job.req][job.kind].status = wk[w].outcome
           /\ \A r \in Request, k \in Kind :
                 r # job.req \/ k # job.kind => eff'[r][k] = eff[r][k]
           /\ \A r \in Request : r # job.req => reqs'[r] = reqs[r]
           /\ reqs'[job.req].status =
                 IF \A k \in Kind : eff'[job.req][k].status = "applied" THEN "projected"
                 ELSE IF \E k \in Kind : eff'[job.req][k].status = "dead_letter"
                 THEN "dead_letter" ELSE "projection_failed"
<1> DEFINE status(k) == IF k = job.kind THEN wk[w].outcome ELSE eff[job.req][k].status
           becomes == IF \A k \in Kind : status(k) = "applied" THEN "projected"
                      ELSE IF \E k \in Kind : status(k) = "dead_letter"
                      THEN "dead_letter" ELSE "projection_failed"
<1>0. job.req \in Request /\ job.kind \in Kind
  BY Typed
<1>1. eff'[job.req] = [eff[job.req] EXCEPT ![job.kind] =
         [@ EXCEPT !.status = wk[w].outcome, !.lease = None, !.due = wk[w].outcome \notin Claimable]]
  BY <1>0, Typed DEF Finalize, EffectBecomes
<1>2. "status" \in DOMAIN eff[job.req][job.kind] /\ "status" \in DOMAIN reqs[job.req]
  BY <1>0, Typed DEF Effect, HandoffRequest
<1>3. eff'[job.req][job.kind].status = wk[w].outcome
  BY <1>0, <1>1, <1>2, Typed
<1>4. \A r \in Request, k \in Kind : r # job.req \/ k # job.kind => eff'[r][k] = eff[r][k]
  BY <1>0, <1>1, Typed DEF Finalize, EffectBecomes
<1>5. reqs' = [reqs EXCEPT ![job.req].status = becomes]
  BY DEF Finalize, RequestBecomes
<1>6. reqs'[job.req].status = becomes /\ \A r \in Request : r # job.req => reqs'[r] = reqs[r]
  BY <1>0, <1>2, <1>5, Typed
<1>7. \A k \in Kind : eff'[job.req][k].status = status(k)
  BY <1>0, <1>3, <1>4
<1> QED BY <1>3, <1>4, <1>6, <1>7

\* A finalization is fenced by a claimable effect, so it never revives a request.
LEMMA FinalizeSide ==
    ASSUME TypeOK, RequestSide, BatchesStand, NEW w \in Worker, NEW job \in wk[w].todo,
           Finalize(w, job)
    PROVE  RequestSide'
<1> DEFINE r == job.req
<1>0. r \in Request /\ job.kind \in Kind
  BY Typed
<1>1. wk[w].outcome # None /\ eff[r][job.kind].status \in Claimable /\ paused' = paused
  BY DEF Finalize, Fenced, Turn, BatchesStand
<1>2. reqs[r].status # None /\ reqs[r].status # "projected"
  BY <1>0, <1>1 DEF RequestSide, EffectsExist, RequestSummarises, Claimable, None
<1>3. reqs'[r].status \in {"projected", "dead_letter", "projection_failed"}
  BY Finalized
<1>4. EffectsExist'
  <2>1. \A k \in Kind : eff'[r][k].status # None
    BY <1>0, <1>1, <1>2, Finalized DEF RequestSide, EffectsExist
  <2>2. reqs'[r].status # None
    BY <1>3 DEF None
  <2> QED BY <2>1, <2>2, <1>0, Finalized DEF RequestSide, EffectsExist
<1>5. RequestSummarises'
  <2>1. /\ reqs'[r].status = "projected" <=> \A k \in Kind : eff'[r][k].status = "applied"
        /\ reqs'[r].status = "dead_letter" <=> \E k \in Kind : eff'[r][k].status = "dead_letter"
        /\ reqs'[r].status # "requested"
    BY <1>0, Finalized DEF Kind
  <2> QED BY <2>1, <1>0, Finalized DEF RequestSide, RequestSummarises
<1>6. LiveMeansPaused'
  <2>1. reqs'[r].status \in LiveStatus => reqs[r].status \in LiveStatus
    <3> SUFFICES ASSUME reqs'[r].status \in LiveStatus, reqs[r].status \notin LiveStatus
                 PROVE FALSE
      OBVIOUS
    <3>1. reqs[r].status = "dead_letter"
      BY <1>0, <1>2, Typed DEF HandoffRequest
    <3>2. PICK k \in Kind : eff[r][k].status = "dead_letter"
      BY <3>1, <1>0 DEF RequestSide, RequestSummarises
    <3>3. k # job.kind
      BY <3>2, <1>1 DEF Claimable
    <3>4. eff'[r][k].status = "dead_letter"
      BY <3>2, <3>3, <1>0, Finalized
    <3> QED BY <3>4, <1>0, Finalized DEF LiveStatus, Kind
  <2>2. \A q \in Request : reqs'[q].status \in LiveStatus => reqs[q].status \in LiveStatus
    BY <2>1, Finalized
  <2> QED BY <2>2, <1>1 DEF RequestSide, LiveMeansPaused
<1> QED BY <1>4, <1>5, <1>6 DEF RequestSide

\* What the edits of an effect keep.
LEMMA EffectFields ==
    ASSUME NEW e \in Effect, NEW f
    PROVE  /\ f = [e EXCEPT !.lease = "live", !.gen = e.gen + 1] =>
                f.status = e.status /\ f.lease = "live" /\ f.gen = e.gen + 1
           /\ f = [e EXCEPT !.due = TRUE] =>
                f.status = e.status /\ f.lease = e.lease /\ f.gen = e.gen
           /\ f = [e EXCEPT !.lease = "lapsed"] => f.status = e.status /\ f.gen = e.gen
BY DEF Effect

\* A claim writes leases and generations, never a status.
LEMMA ClaimKeepsStatus ==
    ASSUME TypeOK, NEW w \in Worker, Claim(w)
    PROVE  SameStatus /\ paused' = paused
<1>1. ASSUME NEW r \in Request, NEW k \in Kind PROVE eff'[r][k].status = eff[r][k].status
  <2>1. \/ eff'[r][k] = [eff[r][k] EXCEPT !.lease = "live", !.gen = eff[r][k].gen + 1]
        \/ eff'[r][k] = eff[r][k]
    BY DEF Claim
  <2>2. eff[r][k] \in Effect
    BY Typed
  <2>3. CASE eff'[r][k] = [eff[r][k] EXCEPT !.lease = "live", !.gen = eff[r][k].gen + 1]
    BY <2>2, <2>3 DEF Effect
  <2> QED BY <2>1, <2>3
<1> QED BY <1>1 DEF Claim, SameStatus

LEMMA TimeKeepsStatus ==
    ASSUME TypeOK, NEW q \in Request, NEW j \in Kind, RetryDue(q, j) \/ LeaseLapses(q, j)
    PROVE  SameStatus /\ paused' = paused
<1>1. ASSUME NEW r \in Request, NEW k \in Kind PROVE eff'[r][k].status = eff[r][k].status
  <2>1. \/ eff'[r][k] = [eff[r][k] EXCEPT !.due = TRUE]
        \/ eff'[r][k] = [eff[r][k] EXCEPT !.lease = "lapsed"]
        \/ eff'[r][k] = eff[r][k]
    <3>1. CASE r = q /\ k = j
      BY <3>1, Typed DEF RetryDue, LeaseLapses
    <3>2. CASE r # q \/ k # j
      BY <3>2, Typed DEF RetryDue, LeaseLapses
    <3> QED BY <3>1, <3>2
  <2>2. eff[r][k] \in Effect
    BY Typed
  <2>3. CASE eff'[r][k] = [eff[r][k] EXCEPT !.due = TRUE]
    BY <2>2, <2>3 DEF Effect
  <2>4. CASE eff'[r][k] = [eff[r][k] EXCEPT !.lease = "lapsed"]
    BY <2>2, <2>4 DEF Effect
  <2> QED BY <2>1, <2>3, <2>4
<1> QED BY <1>1 DEF RetryDue, LeaseLapses, SameStatus

\* The calls to Chatwoot of a batch.
Calls(w, job) ==
    \/ ReadFails(w, job) \/ ReadAssignee(w, job) \/ PostAssignment(w, job)
    \/ ConfirmAssignment(w, job) \/ ScanNotes(w, job) \/ PostNote(w, job)

LEMMA CallsFrame ==
    ASSUME NEW w \in Worker, NEW job \in wk[w].todo, Calls(w, job)
    PROVE  eff' = eff /\ reqs' = reqs /\ paused' = paused
BY DEF Calls, ReadFails, ReadAssignee, PostAssignment, ConfirmAssignment, ScanNotes, PostNote

LEMMA StepSide ==
    ASSUME TypeOK, RequestSide, BatchesStand, [Next]_vars
    PROVE  RequestSide'
<1>0. ASSUME eff' = eff, reqs' = reqs, paused' = paused PROVE RequestSide'
  BY <1>0, SameStatusKeeps DEF SameStatus
<1>1. CASE ConversationStep
  <2>1. ASSUME NEW r \in Request, RequestHandoff(r) PROVE RequestSide'
    BY <2>1, RequestHandoffSide
  <2>2. CASE PersonWrites \/ Reassigned
    BY <2>2, <1>0 DEF PersonWrites, Reassigned
  <2>3. CASE PersonWebhook
    <3>1. \A r \in Request : [reqs[r] EXCEPT !.attended = TRUE].status = reqs[r].status
      BY Typed DEF HandoffRequest
    <3>2. SameStatus /\ paused' = paused
      BY <2>3, <3>1 DEF PersonWebhook, SameStatus
    <3> QED BY <3>2, SameStatusKeeps
  <2>4. CASE Resume
    BY <2>4 DEF Resume, PendingHandoff, RequestSide, EffectsExist, RequestSummarises,
                LiveMeansPaused
  <2> QED BY <2>1, <2>2, <2>3, <2>4, <1>1 DEF ConversationStep
<1>2. ASSUME NEW w \in Worker, WorkerStep(w) PROVE RequestSide'
  <2>1. CASE Claim(w)
    BY <2>1, ClaimKeepsStatus, SameStatusKeeps
  <2>2. ASSUME NEW job \in wk[w].todo, Attempt(w, job) PROVE RequestSide'
    <3>1. CASE Finalize(w, job)
      BY <3>1, FinalizeSide
    <3>2. CASE Refused(w, job)
      BY <3>2, <1>0 DEF Refused
    <3>3. CASE Calls(w, job)
      BY <3>3, <1>0, CallsFrame
    <3> QED BY <3>1, <3>2, <3>3, <2>2 DEF Attempt, Calls
  <2> QED BY <2>1, <2>2, <1>2 DEF WorkerStep
<1>3. ASSUME NEW w \in Worker, Abort(w) PROVE RequestSide'
  BY <1>3, <1>0 DEF Abort
<1>4. ASSUME NEW r \in Request, NEW k \in Kind, RetryDue(r, k) \/ LeaseLapses(r, k)
      PROVE RequestSide'
  BY <1>4, TimeKeepsStatus, SameStatusKeeps
<1>5. ASSUME NEW r \in Request, NEW n \in 0..1, FlyingSettles(r, n) PROVE RequestSide'
  BY <1>5, <1>0 DEF FlyingSettles
<1>6. CASE UNCHANGED vars
  BY <1>6, <1>0 DEF vars
<1> QED BY <1>1, <1>2, <1>3, <1>4, <1>5, <1>6 DEF Next

-----------------------------------------------------------------------------
(* Batches and the notes that were seen. *)

\* How the batch of a worker moves.
LEMMA DoneBatch ==
    ASSUME TypeOK, NEW w \in Worker, NEW outcome, Done(w, outcome)
    PROVE  /\ wk'[w].pc = "done" /\ wk'[w].outcome = outcome /\ wk'[w].todo = wk[w].todo
           /\ \A v \in Worker : v # w => wk'[v] = wk[v]
BY Typed DEF Done, Batch

LEMMA PcBatch ==
    ASSUME TypeOK, NEW w \in Worker, NEW pc, wk' = [wk EXCEPT ![w].pc = pc]
    PROVE  /\ wk'[w].pc = pc /\ wk'[w].outcome = wk[w].outcome /\ wk'[w].todo = wk[w].todo
           /\ \A v \in Worker : v # w => wk'[v] = wk[v]
BY Typed DEF Batch

\* What a call leaves behind: the same batch, at the next call or with an outcome.
LEMMA CallsBatch ==
    ASSUME TypeOK, NEW w \in Worker, NEW job \in wk[w].todo, Calls(w, job)
    PROVE  /\ \A v \in Worker : v # w => wk'[v] = wk[v]
           /\ wk'[w].todo = wk[w].todo
           /\ wk'[w].pc \in {"post", "confirm", "done"}
           /\ wk'[w].pc = "done" => wk'[w].outcome \in Settled \cup Claimable
           /\ Turn(w, job, wk[w].pc)
<1>0. job \in Job
  BY Typed
<1>1. CASE ReadFails(w, job)
  BY <1>0, <1>1, DoneBatch, Outcomes DEF ReadFails, Turn, Settled
<1>2. CASE ReadAssignee(w, job)
  BY <1>0, <1>2, DoneBatch, PcBatch, Outcomes DEF ReadAssignee, Turn, Settled
<1>3. CASE PostAssignment(w, job)
  BY <1>0, <1>3, DoneBatch, PcBatch, Outcomes DEF PostAssignment, Turn, Settled
<1>4. CASE ConfirmAssignment(w, job)
  BY <1>0, <1>4, DoneBatch, Outcomes DEF ConfirmAssignment, Turn, Settled
<1>5. CASE ScanNotes(w, job)
  BY <1>0, <1>5, DoneBatch, PcBatch, Outcomes DEF ScanNotes, Turn, Settled
<1>6. CASE PostNote(w, job)
  BY <1>0, <1>6, DoneBatch, Outcomes DEF PostNote, Turn, Settled
<1> QED BY <1>1, <1>2, <1>3, <1>4, <1>5, <1>6 DEF Calls

\* A note whose turn it is has no twin, so a call is about that note.
LEMMA NoteTurn ==
    ASSUME TypeOK, NEW w \in Worker, NEW job \in wk[w].todo, NEW i \in wk[w].todo,
           Turn(w, job, wk[w].pc), \A other \in wk[w].todo \ {i} : Before(i, other),
           i.kind = "private_note"
    PROVE  i = job
<1> SUFFICES ASSUME i # job PROVE FALSE
  OBVIOUS
<1>1. Before(job, i) /\ Before(i, job)
  BY DEF Turn
<1>2. i.req \in Int /\ job.req \in Int
  BY Typed, HandoffAssumption DEF Request
<1> QED BY <1>1, <1>2 DEF Before

\* Turns of the other workers stay what they were; its own are about the current job.
LEMMA TurnsAfterCall ==
    ASSUME TypeOK, NEW w \in Worker, NEW job \in wk[w].todo, Calls(w, job)
    PROVE  /\ \A v \in Worker, pc \in {"next", "post", "confirm", "done"} :
                 v # w => \A i \in wk[v].todo : Turn(v, i, pc)' => Turn(v, i, pc)
           /\ \A pc \in {"next", "post", "confirm", "done"} :
                 \A i \in wk[w].todo : Turn(w, i, pc)' /\ i.kind = "private_note" => i = job
<1>1. \A v \in Worker : v # w => wk'[v] = wk[v]
  BY CallsBatch
<1>2. wk'[w].todo = wk[w].todo /\ Turn(w, job, wk[w].pc)
  BY CallsBatch
<1>3. ASSUME NEW i \in wk[w].todo, NEW pc \in {"next", "post", "confirm", "done"},
             Turn(w, i, pc)', i.kind = "private_note"
      PROVE  i = job
  <2>1. \A other \in wk[w].todo \ {i} : Before(i, other)
    BY <1>2, <1>3 DEF Turn, Before
  <2> QED BY <2>1, <1>2, <1>3, NoteTurn
<1> QED BY <1>1, <1>3 DEF Turn, Before

\* Notes never disappear from Chatwoot.
LEMMA NotesGrow == ASSUME TypeOK, [Next]_vars, NEW r \in Request PROVE notes'[r] >= notes[r]
<1>0. notes \in [Request -> Nat]
  BY DEF TypeOK
<1>1. ASSUME NEW w \in Worker, NEW job \in wk[w].todo, PostNote(w, job) PROVE notes'[r] >= notes[r]
  <2>1. notes' = notes \/ notes' = [notes EXCEPT ![job.req] = notes[job.req] + 1]
    BY <1>1 DEF PostNote
  <2> QED BY <2>1, <1>0, Typed
<1>2. ASSUME NEW q \in Request, NEW n \in 0..1, FlyingSettles(q, n) PROVE notes'[r] >= notes[r]
  <2>1. notes' = [notes EXCEPT ![q] = notes[q] + n]
    BY <1>2 DEF FlyingSettles
  <2> QED BY <2>1, <1>0
<1>3. ASSUME notes' = notes PROVE notes'[r] >= notes[r]
  BY <1>0, <1>3
<1>4. CASE ConversationStep \/ UNCHANGED vars
  BY <1>3, <1>4 DEF vars, chatwoot, ConversationStep, RequestHandoff, PersonWrites, PersonWebhook,
                    Resume, Reassigned
<1>5. ASSUME NEW w \in Worker, WorkerStep(w) \/ Abort(w) PROVE notes'[r] >= notes[r]
  <2>1. CASE Claim(w) \/ Abort(w)
    BY <1>3, <2>1 DEF chatwoot, Claim, Abort
  <2>2. ASSUME NEW job \in wk[w].todo, Attempt(w, job), ~PostNote(w, job)
        PROVE  notes'[r] >= notes[r]
    BY <1>3, <2>2 DEF chatwoot, Attempt, ReadFails, ReadAssignee, PostAssignment,
                      ConfirmAssignment, ScanNotes, Finalize, Refused
  <2> QED BY <1>1, <1>5, <2>1, <2>2 DEF WorkerStep
<1>6. ASSUME NEW q \in Request, NEW k \in Kind, RetryDue(q, k) \/ LeaseLapses(q, k)
      PROVE  notes'[r] >= notes[r]
  BY <1>3, <1>6 DEF chatwoot, RetryDue, LeaseLapses
<1> QED BY <1>2, <1>4, <1>5, <1>6 DEF Next

LEMMA InitBatches == Init => BatchesStand /\ NoteSeen /\ AppliedNoteIsThere
BY DEF Init, BatchesStand, NoteSeen, AppliedNoteIsThere, Idle, NoEffect, Kind, None

\* How a batch changes, whatever the step.
LEMMA BatchSteps ==
    ASSUME TypeOK, [Next]_vars, NEW w \in Worker
    PROVE  \/ wk'[w] = wk[w]
           \/ Claim(w)
           \/ wk'[w] = Idle
           \/ \E job \in wk[w].todo : Calls(w, job) \/ Finalize(w, job)
<1>1. ASSUME NEW v \in Worker, WorkerStep(v) \/ Abort(v)
      PROVE  \/ wk'[w] = wk[w] \/ wk'[w] = Idle \/ Claim(w)
             \/ \E job \in wk[w].todo : Calls(w, job) \/ Finalize(w, job)
  <2>1. CASE v = w
    BY <1>1, <2>1, Typed DEF WorkerStep, Attempt, Calls, Refused, Abort
  <2>2. CASE v # w
    BY <1>1, <2>2, Typed
       DEF WorkerStep, Attempt, Claim, ReadFails, ReadAssignee, PostAssignment, ConfirmAssignment,
           ScanNotes, PostNote, Finalize, Refused, Abort, Done
  <2> QED BY <2>1, <2>2
<1> QED
  BY <1>1
     DEF Next, vars, ConversationStep, RequestHandoff, PersonWrites, PersonWebhook, Resume,
         Reassigned, RetryDue, LeaseLapses, FlyingSettles

LEMMA StepBatches == ASSUME TypeOK, BatchesStand, [Next]_vars PROVE BatchesStand'
<1> SUFFICES ASSUME NEW w \in Worker
             PROVE  /\ wk'[w].todo = {} => wk'[w].pc = "next"
                    /\ wk'[w].pc = "done" => wk'[w].outcome # None
  BY DEF BatchesStand
<1>0. /\ wk[w].todo = {} => wk[w].pc = "next"
      /\ wk[w].pc = "done" => wk[w].outcome # None
  BY DEF BatchesStand
<1>1. CASE wk'[w] = wk[w]
  BY <1>0, <1>1
<1>2. CASE wk'[w] = Idle
  BY <1>2 DEF Idle
<1>3. CASE Claim(w)
  <2>1. wk'[w].pc = wk[w].pc /\ wk[w].todo = {}
    BY <1>3, Typed DEF Claim, Batch
  <2> QED BY <2>1, <1>0
<1>4. ASSUME NEW job \in wk[w].todo, Calls(w, job)
      PROVE  /\ wk'[w].todo = {} => wk'[w].pc = "next"
             /\ wk'[w].pc = "done" => wk'[w].outcome # None
  BY <1>4, CallsBatch DEF Settled, Claimable, None
<1>5. ASSUME NEW job \in wk[w].todo, Finalize(w, job)
      PROVE  /\ wk'[w].todo = {} => wk'[w].pc = "next"
             /\ wk'[w].pc = "done" => wk'[w].outcome # None
  BY <1>5, Typed DEF Finalize, Idle
<1> QED BY <1>1, <1>2, <1>3, <1>4, <1>5, BatchSteps

\* The statuses of effects change by requests and finalizations only.
LEMMA StatusSteps ==
    ASSUME TypeOK, [Next]_vars
    PROVE  \/ \A r \in Request, k \in Kind : eff'[r][k].status = eff[r][k].status
           \/ \E q \in Request : RequestHandoff(q)
           \/ \E w \in Worker : \E job \in wk[w].todo : Finalize(w, job)
<1>1. ASSUME NEW w \in Worker, Claim(w)
      PROVE  \A r \in Request, k \in Kind : eff'[r][k].status = eff[r][k].status
  BY <1>1, ClaimKeepsStatus DEF SameStatus
<1>2. ASSUME NEW q \in Request, NEW j \in Kind, RetryDue(q, j) \/ LeaseLapses(q, j)
      PROVE  \A r \in Request, k \in Kind : eff'[r][k].status = eff[r][k].status
  BY <1>2, TimeKeepsStatus DEF SameStatus
<1>3. ASSUME NEW w \in Worker, NEW job \in wk[w].todo, Attempt(w, job), ~Finalize(w, job)
      PROVE  eff' = eff
  BY <1>3, CallsFrame DEF Attempt, Calls, Refused
<1> QED
  BY <1>1, <1>2, <1>3
     DEF Next, vars, WorkerStep, ConversationStep, PersonWrites, PersonWebhook, Resume, Reassigned,
         Abort, FlyingSettles

\* A call that reports a note as applied has seen it, or has just written it.
LEMMA CallSawNote ==
    ASSUME TypeOK, NEW w \in Worker, NEW job \in wk[w].todo, Calls(w, job),
           job.kind = "private_note", wk'[w].pc = "done", wk'[w].outcome = "applied"
    PROVE  notes'[job.req] > 0
<1>0. job \in Job /\ job.req \in Request /\ notes \in [Request -> Nat]
  BY Typed DEF TypeOK
<1>1. CASE ReadFails(w, job)
  BY <1>0, <1>1, DoneBatch, Outcomes DEF ReadFails
<1>2. CASE ScanNotes(w, job)
  <2>1. notes' = notes
    BY <1>2 DEF ScanNotes, chatwoot
  <2>2. ~Done(w, "conflict") /\ ~Done(w, Unknown(job))
    BY <1>0, DoneBatch, Outcomes
  <2>3. ~(wk' = [wk EXCEPT ![w].pc = "post"])
    BY PcBatch
  <2> QED BY <1>0, <1>2, <2>1, <2>2, <2>3 DEF ScanNotes
<1>3. CASE PostNote(w, job)
  <2>1. notes' = [notes EXCEPT ![job.req] = notes[job.req] + 1] \/ Done(w, Unknown(job))
    BY <1>3 DEF PostNote
  <2>2. ~Done(w, Unknown(job))
    BY <1>0, DoneBatch, Outcomes
  <2> QED BY <1>0, <2>1, <2>2
<1> QED
  BY <1>1, <1>2, <1>3 DEF Calls, ReadAssignee, PostAssignment, ConfirmAssignment

LEMMA StepSeen ==
    ASSUME TypeOK, RequestSide, BatchesStand, NoteSeen, AppliedNoteIsThere, [Next]_vars
    PROVE  NoteSeen' /\ AppliedNoteIsThere'
<1>1. ASSUME NEW w \in Worker, NEW job \in wk'[w].todo, Turn(w, job, "done")',
             job.kind = "private_note", wk'[w].outcome = "applied"
      PROVE  notes'[job.req] > 0
  <2>0. wk'[w].pc = "done"
    BY <1>1 DEF Turn
  <2>1. CASE wk'[w] = wk[w]
    <3>1. job \in wk[w].todo /\ Turn(w, job, "done") /\ wk[w].outcome = "applied"
      BY <1>1, <2>1 DEF Turn, Before
    <3>2. notes[job.req] > 0 /\ job.req \in Request
      BY <3>1, <1>1, Typed DEF NoteSeen
    <3> QED BY <3>2, NotesGrow, StepType DEF TypeOK
  <2>2. CASE wk'[w] = Idle
    BY <2>0, <2>2 DEF Idle
  <2>3. CASE Claim(w)
    BY <2>0, <2>3, Typed DEF Claim, Batch, BatchesStand
  <2>4. ASSUME NEW j \in wk[w].todo, Finalize(w, j) PROVE FALSE
    BY <2>0, <2>4, Typed DEF Finalize, Idle
  <2>5. ASSUME NEW j \in wk[w].todo, Calls(w, j) PROVE notes'[job.req] > 0
    <3>1. job \in wk[w].todo
      BY <2>5, CallsBatch
    <3>2. job = j
      BY <3>1, <2>5, <1>1, TurnsAfterCall
    <3> QED BY <3>2, <2>5, <2>0, <1>1, CallSawNote
  <2> QED BY <2>1, <2>2, <2>3, <2>4, <2>5, BatchSteps
<1>2. NoteSeen'
  BY <1>1 DEF NoteSeen
<1>3. ASSUME NEW r \in Request, eff'[r]["private_note"].status = "applied" PROVE notes'[r] > 0
  <2>0. notes[r] > 0 => notes'[r] > 0
    BY NotesGrow, StepType DEF TypeOK
  <2>1. CASE eff[r]["private_note"].status = "applied"
    BY <2>0, <2>1 DEF AppliedNoteIsThere
  <2>2. ASSUME NEW q \in Request, RequestHandoff(q), eff[r]["private_note"].status # "applied"
        PROVE  FALSE
    BY <2>2, <1>3, NewRequest DEF Kind
  <2>3. ASSUME NEW w \in Worker, NEW job \in wk[w].todo, Finalize(w, job),
               eff[r]["private_note"].status # "applied"
        PROVE  notes[r] > 0
    <3>1. r = job.req /\ job.kind = "private_note"
      BY <2>3, <1>3, Finalized DEF Kind
    <3>2. wk[w].outcome = "applied"
      BY <3>1, <2>3, <1>3, Finalized
    <3> QED BY <3>1, <3>2, <2>3 DEF NoteSeen, Finalize
  <2> QED BY <2>0, <2>1, <2>2, <2>3, <1>3, StatusSteps DEF Kind
<1>4. AppliedNoteIsThere'
  BY <1>3 DEF AppliedNoteIsThere
<1> QED BY <1>2, <1>4

-----------------------------------------------------------------------------
\* The inductive invariant: whatever leases lapse under whatever workers, the requests,
\* their effects and the notes agree.
THEOREM InvariantHolds == Spec => []IInv
<1>1. Init => IInv
  BY InitType, InitSide, InitBatches DEF IInv, RequestSide
<1>2. IInv /\ [Next]_vars => IInv'
  <2> SUFFICES ASSUME IInv, [Next]_vars PROVE IInv'
    OBVIOUS
  <2>1. TypeOK /\ RequestSide /\ BatchesStand /\ NoteSeen /\ AppliedNoteIsThere
    BY DEF IInv, RequestSide
  <2> QED BY <2>1, StepType, StepSide, StepBatches, StepSeen DEF IInv, RequestSide
<1> QED BY <1>1, <1>2, PTL DEF Spec

\* The status of a request is what its two effects say, in whatever order and by whatever
\* worker they were finalized (finalize_human_handoff_projection_effect).
THEOREM RequestsSummarise == Spec => []RequestSummarises
<1>1. IInv => RequestSummarises
  BY DEF IInv
<1> QED BY <1>1, InvariantHolds, PTL

\* A live request keeps its conversation paused, and there is one at most: the worker that
\* finalizes an old request never makes a resumed conversation look handed off.
THEOREM LivePaused == Spec => []LiveMeansPaused
<1>1. IInv => LiveMeansPaused
  BY DEF IInv
<1> QED BY <1>1, InvariantHolds, PTL

\* A note that is recorded as applied is in Chatwoot (ensure_private_handoff_note).
THEOREM AppliedNotes == Spec => []AppliedNoteIsThere
<1>1. IInv => AppliedNoteIsThere
  BY DEF IInv
<1> QED BY <1>1, InvariantHolds, PTL

\* Nothing that is settled is ever undone: the fence of the finalization refuses what comes
\* late, whatever the leases did.
THEOREM SettledStays == Spec => SettledStaysSettled
<1> DEFINE Stays == \A r \in Request, k \in Kind :
                      eff[r][k].status \in Settled => eff'[r][k].status = eff[r][k].status
<1>1. IInv /\ [Next]_vars => Stays
  <2> SUFFICES ASSUME IInv, [Next]_vars, NEW r \in Request, NEW k \in Kind,
                      eff[r][k].status \in Settled
               PROVE  eff'[r][k].status = eff[r][k].status
    OBVIOUS
  <2>0. TypeOK /\ EffectsExist
    BY DEF IInv
  <2>1. ASSUME NEW q \in Request, RequestHandoff(q) PROVE eff'[r][k].status = eff[r][k].status
    <3>1. q # r
      BY <2>0, <2>1 DEF RequestHandoff, EffectsExist, Settled, None
    <3> QED BY <3>1, <2>0, <2>1, NewRequest
  <2>2. ASSUME NEW w \in Worker, NEW job \in wk[w].todo, Finalize(w, job)
        PROVE  eff'[r][k].status = eff[r][k].status
    <3>1. job.req # r \/ job.kind # k
      BY <2>2 DEF Finalize, Fenced, Settled, Claimable
    <3> QED BY <3>1, <2>0, <2>2, Finalized
  <2> QED BY <2>0, <2>1, <2>2, StatusSteps
<1>2. IInv /\ [Next]_vars => [Stays]_vars
  BY <1>1
<1> QED BY <1>2, InvariantHolds, PTL DEF SettledStaysSettled, Spec

-----------------------------------------------------------------------------
(* At most one note, when no lease lapses under the work on it. *)

LEMMA InitNotes == Init => NotesInv
<1> SUFFICES ASSUME Init PROVE NotesInv
  OBVIOUS
<1>1. \A w \in Worker : wk[w].todo = {}
  BY DEF Init, Idle
<1>2. \A r \in Request : notes[r] = 0 /\ flying[r] = 0
  BY DEF Init
<1> QED BY <1>1, <1>2 DEF NotesInv, HeldIsLeased, BatchesApart, PostIsFirst, UnknownStays,
                           LostIsKnown, NotesCounted

\* Steps that leave effects, batches and notes alone.
LEMMA NotesFrame ==
    ASSUME NotesInv, eff' = eff, wk' = wk, notes' = notes, flying' = flying
    PROVE  NotesInv'
BY DEF NotesInv, HeldIsLeased, BatchesApart, PostIsFirst, UnknownStays, LostIsKnown,
       NotesCounted, Turn, Before

\* A batch that is dropped.
LEMMA NotesDrop ==
    ASSUME TypeOK, NotesInv, NEW w \in Worker, wk' = [wk EXCEPT ![w] = Idle],
           eff' = eff, notes' = notes, flying' = flying
    PROVE  NotesInv'
<1>1. wk'[w].todo = {} /\ \A v \in Worker : v # w => wk'[v] = wk[v]
  BY Typed DEF Idle
<1>2. \A v \in Worker : \A job \in wk'[v].todo :
          /\ v # w /\ job \in wk[v].todo /\ wk'[v] = wk[v]
          /\ \A pc : Turn(v, job, pc)' <=> Turn(v, job, pc)
  BY <1>1 DEF Turn, Before
<1>3. HeldIsLeased' /\ BatchesApart'
  BY <1>2 DEF NotesInv, HeldIsLeased, BatchesApart
<1>4. PostIsFirst' /\ UnknownStays'
  BY <1>2 DEF NotesInv, PostIsFirst, UnknownStays
<1>5. LostIsKnown' /\ NotesCounted'
  BY <1>2 DEF NotesInv, LostIsKnown, NotesCounted
<1> QED BY <1>3, <1>4, <1>5 DEF NotesInv

\* Edits of effects that keep their statuses, and the leases of the held and the lost.
LEMMA NotesTime ==
    ASSUME TypeOK, NotesInv, ~SlowWorkers, NEW q \in Request, NEW j \in Kind,
           RetryDue(q, j) \/ LeaseLapses(q, j)
    PROVE  NotesInv'
<1>0. wk' = wk /\ notes' = notes /\ flying' = flying
  BY DEF RetryDue, LeaseLapses, chatwoot
<1>1. ASSUME NEW r \in Request, NEW k \in Kind
      PROVE  /\ eff'[r][k].status = eff[r][k].status /\ eff'[r][k].gen = eff[r][k].gen
             /\ \/ eff'[r][k].lease = eff[r][k].lease
                \/ flying[r] = 0 /\ \A w \in Worker : ~Holds(w, r, k)
  <2>1. CASE r # q \/ k # j
    <3>1. eff'[r][k] = eff[r][k]
      BY <2>1, Typed DEF RetryDue, LeaseLapses
    <3> QED BY <3>1
  <2>2. CASE r = q /\ k = j /\ RetryDue(q, j)
    <3>1. eff[r][k] \in Effect /\ eff'[r][k] = [eff[r][k] EXCEPT !.due = TRUE]
      BY <2>2, Typed DEF RetryDue
    <3> QED BY <3>1, EffectFields
  <2>3. CASE r = q /\ k = j /\ LeaseLapses(q, j)
    <3>1. eff[r][k] \in Effect /\ eff'[r][k] = [eff[r][k] EXCEPT !.lease = "lapsed"]
      BY <2>3, Typed DEF LeaseLapses
    <3>2. flying[r] = 0 /\ \A w \in Worker : ~Holds(w, r, k)
      BY <2>3 DEF LeaseLapses
    <3> QED BY <3>1, <3>2, EffectFields
  <2> QED BY <2>1, <2>2, <2>3
<1>2. HeldIsLeased'
  <2> SUFFICES ASSUME NEW w \in Worker, NEW job \in wk[w].todo
               PROVE  LET e == eff'[job.req][job.kind]
                      IN /\ e.gen = job.gen /\ e.lease = "live"
                         /\ e.status \in Claimable /\ e.status = job.known
    BY <1>0 DEF HeldIsLeased
  <2>1. job.req \in Request /\ job.kind \in Kind
    BY Typed
  <2>2. Holds(w, job.req, job.kind)
    BY DEF NotesInv, HeldIsLeased, Holds
  <2> QED BY <2>1, <2>2, <1>1 DEF NotesInv, HeldIsLeased
<1>3. BatchesApart' /\ PostIsFirst' /\ UnknownStays'
  BY <1>0 DEF NotesInv, BatchesApart, PostIsFirst, UnknownStays, Turn, Before
<1>4. LostIsKnown'
  BY <1>0, <1>1 DEF NotesInv, LostIsKnown, Turn, Before, Kind
<1>5. NotesCounted'
  BY <1>0, <1>1 DEF NotesInv, NotesCounted, Kind
<1> QED BY <1>2, <1>3, <1>4, <1>5 DEF NotesInv

LEMMA NotesRequest ==
    ASSUME TypeOK, RequestSide, NotesInv, NEW r \in Request, RequestHandoff(r)
    PROVE  NotesInv'
<1>0. wk' = wk /\ notes' = notes /\ flying' = flying
  BY DEF RequestHandoff, chatwoot
<1>1. \A k \in Kind : eff[r][k].status = None
  BY DEF RequestHandoff, RequestSide, EffectsExist
<1>2. \A w \in Worker : \A job \in wk[w].todo : job.req \in Request /\ job.req # r
  BY <1>1, Typed DEF NotesInv, HeldIsLeased, Claimable, None
<1>3. \A q \in Request : q # r => eff'[q] = eff[q]
  BY NewRequest
<1>4. HeldIsLeased'
  BY <1>0, <1>2, <1>3 DEF NotesInv, HeldIsLeased
<1>5. BatchesApart' /\ PostIsFirst' /\ UnknownStays'
  BY <1>0 DEF NotesInv, BatchesApart, PostIsFirst, UnknownStays, Turn, Before
<1>6. notes[r] + flying[r] <= 0 /\ notes[r] \in Nat /\ flying[r] \in Nat
  BY <1>1 DEF NotesInv, NotesCounted, Kind, TypeOK
<1>7. LostIsKnown'
  BY <1>0, <1>3, <1>6 DEF NotesInv, LostIsKnown, Turn, Before
<1>8. NotesCounted'
  BY <1>0, <1>3, <1>6 DEF NotesInv, NotesCounted
<1> QED BY <1>4, <1>5, <1>7, <1>8 DEF NotesInv

LEMMA NotesFlying ==
    ASSUME TypeOK, NotesInv, NEW r \in Request, NEW n \in 0..1, FlyingSettles(r, n)
    PROVE  NotesInv'
<1>0. wk' = wk /\ eff' = eff /\ flying[r] > 0
  BY DEF FlyingSettles
<1>1. /\ notes' = [notes EXCEPT ![r] = notes[r] + n]
      /\ flying' = [flying EXCEPT ![r] = flying[r] - 1]
      /\ notes \in [Request -> Nat] /\ flying \in [Request -> Nat]
  BY DEF FlyingSettles, TypeOK
<1>2. /\ \A q \in Request : q # r => notes'[q] = notes[q] /\ flying'[q] = flying[q]
      /\ notes'[r] + flying'[r] <= notes[r] + flying[r]
      /\ notes'[r] \in Nat /\ flying'[r] \in Nat /\ notes[r] \in Nat /\ flying[r] \in Nat
  BY <1>0, <1>1
<1>3. HeldIsLeased' /\ BatchesApart'
  BY <1>0 DEF NotesInv, HeldIsLeased, BatchesApart
<1>4. PostIsFirst'
  <2> SUFFICES ASSUME NEW w \in Worker, NEW job \in wk[w].todo, Turn(w, job, "post"),
                      job.kind = "private_note"
               PROVE  notes'[job.req] = 0 /\ flying'[job.req] = 0
                      /\ job.known # "delivery_unknown"
    BY <1>0 DEF PostIsFirst, Turn, Before
  <2>1. notes[job.req] = 0 /\ flying[job.req] = 0 /\ job.known # "delivery_unknown"
    BY DEF NotesInv, PostIsFirst
  <2> QED BY <2>1, <1>0, <1>2, Typed
<1>5. \A q \in Request : flying'[q] > 0 => flying[q] > 0
  BY <1>0, <1>2
<1>6. UnknownStays'
  BY <1>0, <1>5, Typed DEF NotesInv, UnknownStays, Turn, Before
<1>7. LostIsKnown'
  BY <1>0, <1>5 DEF NotesInv, LostIsKnown, Turn, Before
<1>8. NotesCounted'
  <2> SUFFICES ASSUME NEW q \in Request
               PROVE  notes'[q] + flying'[q] <= IF eff[q]["private_note"].status = None THEN 0 ELSE 1
    BY <1>0 DEF NotesCounted
  <2>1. notes[q] + flying[q] <= IF eff[q]["private_note"].status = None THEN 0 ELSE 1
    BY DEF NotesInv, NotesCounted
  <2>2. CASE q = r
    BY <2>1, <2>2, <1>2
  <2>3. CASE q # r
    BY <2>1, <2>3, <1>2
  <2> QED BY <2>2, <2>3
<1> QED BY <1>3, <1>4, <1>6, <1>7, <1>8 DEF NotesInv

\* What a claim does to an effect: nothing, or a lease of its own to one that had none.
LEMMA ClaimEffects ==
    ASSUME TypeOK, NEW w \in Worker, Claim(w), NEW r \in Request, NEW k \in Kind
    PROVE  /\ eff'[r][k].status = eff[r][k].status
           /\ eff[r][k].lease = "live" => eff'[r][k] = eff[r][k]
           /\ ToClaim([req |-> r, kind |-> k]) =>
                eff'[r][k].lease = "live" /\ eff'[r][k].gen = eff[r][k].gen + 1
<1>1. /\ ToClaim([req |-> r, kind |-> k]) =>
            eff'[r][k] = [eff[r][k] EXCEPT !.lease = "live", !.gen = eff[r][k].gen + 1]
      /\ ~ToClaim([req |-> r, kind |-> k]) => eff'[r][k] = eff[r][k]
  BY DEF Claim
<1>2. eff[r][k].lease = "live" => ~ToClaim([req |-> r, kind |-> k])
  BY DEF ToClaim
<1>3. eff[r][k] \in Effect
  BY Typed
<1>4. CASE ToClaim([req |-> r, kind |-> k])
  <2>1. eff'[r][k] = [eff[r][k] EXCEPT !.lease = "live", !.gen = eff[r][k].gen + 1]
    BY <1>1, <1>4
  <2> QED BY <1>2, <1>3, <1>4, <2>1 DEF Effect
<1>5. CASE ~ToClaim([req |-> r, kind |-> k])
  BY <1>1, <1>5
<1> QED BY <1>4, <1>5

\* What it puts in the batch.
LEMMA ClaimBatch ==
    ASSUME TypeOK, NEW w \in Worker, Claim(w)
    PROVE  /\ \A v \in Worker : v # w => wk'[v] = wk[v]
           /\ wk[w].todo = {} /\ wk'[w].pc = wk[w].pc
           /\ \A job \in wk'[w].todo :
                 /\ job.req \in Request /\ job.kind \in Kind
                 /\ ToClaim([req |-> job.req, kind |-> job.kind])
                 /\ job = Claimed([req |-> job.req, kind |-> job.kind])
                 /\ job.gen = eff[job.req][job.kind].gen + 1
                 /\ job.known = eff[job.req][job.kind].status
<1> DEFINE batch == {e \in [req : Request, kind : Kind] : ToClaim(e)}
<1>1. wk[w].todo = {} /\ wk' = [wk EXCEPT ![w].todo = {Claimed(e) : e \in batch}]
  BY DEF Claim
<1>2. wk'[w].todo = {Claimed(e) : e \in batch} /\ wk'[w].pc = wk[w].pc
  BY <1>1, Typed DEF Batch
<1>3. ASSUME NEW e \in batch
      PROVE  LET job == Claimed(e)
             IN /\ job.req \in Request /\ job.kind \in Kind
                /\ e = [req |-> job.req, kind |-> job.kind] /\ ToClaim(e)
                /\ job.gen = eff[job.req][job.kind].gen + 1
                /\ job.known = eff[job.req][job.kind].status
  BY DEF Claimed
<1>4. \A v \in Worker : v # w => wk'[v] = wk[v]
  BY <1>1, Typed
<1>5. ASSUME NEW job \in wk'[w].todo
      PROVE  /\ job.req \in Request /\ job.kind \in Kind
             /\ ToClaim([req |-> job.req, kind |-> job.kind])
             /\ job = Claimed([req |-> job.req, kind |-> job.kind])
             /\ job.gen = eff[job.req][job.kind].gen + 1
             /\ job.known = eff[job.req][job.kind].status
  <2>1. PICK e \in batch : job = Claimed(e)
    BY <1>2
  <2>2. e = [req |-> job.req, kind |-> job.kind]
    BY <2>1, <1>3
  <2> QED BY <2>1, <2>2, <1>3
<1> QED BY <1>1, <1>2, <1>4, <1>5

LEMMA NotesClaim ==
    ASSUME TypeOK, BatchesStand, NotesInv, NEW w \in Worker, Claim(w)
    PROVE  NotesInv'
<1>0. notes' = notes /\ flying' = flying /\ wk'[w].pc = "next"
  BY ClaimBatch DEF Claim, chatwoot, BatchesStand
<1>1. \A v \in Worker : v # w => wk'[v] = wk[v]
  BY ClaimBatch
<1>2. \A v \in Worker : v # w => \A job \in wk[v].todo :
          /\ job.req \in Request /\ job.kind \in Kind
          /\ eff[job.req][job.kind].lease = "live"
          /\ eff'[job.req][job.kind] = eff[job.req][job.kind]
  BY Typed, ClaimEffects DEF NotesInv, HeldIsLeased
<1>3. \A job \in wk'[w].todo : /\ job.req \in Request /\ job.kind \in Kind
                               /\ eff[job.req][job.kind].lease # "live"
  BY ClaimBatch DEF ToClaim
<1>4. HeldIsLeased'
  <2>1. ASSUME NEW job \in wk'[w].todo
        PROVE  LET e == eff'[job.req][job.kind]
               IN /\ e.gen = job.gen /\ e.lease = "live"
                  /\ e.status \in Claimable /\ e.status = job.known
    <3>1. /\ job.req \in Request /\ job.kind \in Kind
          /\ ToClaim([req |-> job.req, kind |-> job.kind])
          /\ job.gen = eff[job.req][job.kind].gen + 1
          /\ job.known = eff[job.req][job.kind].status
      BY ClaimBatch
    <3>2. eff[job.req][job.kind].status \in Claimable
      BY <3>1 DEF ToClaim
    <3> QED BY <3>1, <3>2, ClaimEffects
  <2>2. ASSUME NEW v \in Worker, v # w, NEW job \in wk'[v].todo
        PROVE  LET e == eff'[job.req][job.kind]
               IN /\ e.gen = job.gen /\ e.lease = "live"
                  /\ e.status \in Claimable /\ e.status = job.known
    BY <2>2, <1>1, <1>2 DEF NotesInv, HeldIsLeased
  <2> QED BY <2>1, <2>2 DEF HeldIsLeased
<1>5. BatchesApart'
  <2> SUFFICES ASSUME NEW u \in Worker, NEW v \in Worker, NEW i \in wk'[u].todo,
                      NEW j \in wk'[v].todo, i.req = j.req, i.kind = j.kind
               PROVE  u = v /\ i = j
    BY DEF BatchesApart
  <2>1. CASE u = w /\ v = w
    <3>1. /\ i = Claimed([req |-> i.req, kind |-> i.kind])
          /\ j = Claimed([req |-> j.req, kind |-> j.kind])
      BY <2>1, ClaimBatch
    <3> QED BY <3>1, <2>1
  <2>2. CASE u # w /\ v # w
    BY <2>2, <1>1 DEF NotesInv, BatchesApart
  <2>3. CASE u = w /\ v # w
    BY <2>3, <1>1, <1>2, <1>3
  <2>4. CASE u # w /\ v = w
    BY <2>4, <1>1, <1>2, <1>3
  <2> QED BY <2>1, <2>2, <2>3, <2>4
<1>6. \A v \in Worker : \A job \in wk'[v].todo, pc \in {"post", "done"} :
          Turn(v, job, pc)' => v # w /\ job \in wk[v].todo /\ wk'[v] = wk[v] /\ Turn(v, job, pc)
  BY <1>0, <1>1 DEF Turn, Before
<1>7. PostIsFirst'
  BY <1>0, <1>6 DEF NotesInv, PostIsFirst
<1>8. UnknownStays'
  BY <1>0, <1>6 DEF NotesInv, UnknownStays
<1>9. LostIsKnown'
  <2> SUFFICES ASSUME NEW r \in Request, flying[r] > 0,
                      eff'[r]["private_note"].status \notin NeverAgain
               PROVE  /\ eff'[r]["private_note"].lease = "live"
                      /\ \A v \in Worker : \A job \in wk'[v].todo :
                            job.req = r /\ job.kind = "private_note" => Turn(v, job, "done")'
    BY <1>0 DEF LostIsKnown
  <2>1. eff[r]["private_note"].lease = "live" /\ eff'[r]["private_note"].lease = "live"
    BY ClaimEffects DEF NotesInv, LostIsKnown, Kind
  <2>2. ASSUME NEW v \in Worker, NEW job \in wk'[v].todo, job.req = r, job.kind = "private_note"
        PROVE  Turn(v, job, "done")'
    <3>1. v # w /\ wk'[v] = wk[v]
      BY <2>1, <2>2, <1>1, <1>3
    <3>2. eff[r]["private_note"].status \notin NeverAgain
      BY ClaimEffects DEF Kind
    <3> QED BY <3>1, <3>2, <2>2 DEF NotesInv, LostIsKnown, Turn, Before
  <2> QED BY <2>1, <2>2
<1>10. NotesCounted'
  BY <1>0, ClaimEffects DEF NotesInv, NotesCounted, Kind
<1> QED BY <1>4, <1>5, <1>7, <1>8, <1>9, <1>10 DEF NotesInv

\* What a call of a job does to the notes: a post may leave one, first of its request.
LEMMA CallNotes ==
    ASSUME TypeOK, NEW w \in Worker, NEW job \in wk[w].todo, Calls(w, job)
    PROVE  /\ \A r \in Request : r # job.req \/ job.kind # "private_note" =>
                notes'[r] = notes[r] /\ flying'[r] = flying[r]
           /\ ~PostNote(w, job) => notes' = notes /\ flying' = flying
           /\ wk[w].pc # "done"
<1>0. job.req \in Request /\ notes \in [Request -> Nat] /\ flying \in [Request -> Nat]
  BY Typed DEF TypeOK
<1>1. ~PostNote(w, job) => notes' = notes /\ flying' = flying
  BY DEF Calls, ReadFails, ReadAssignee, PostAssignment, ConfirmAssignment, ScanNotes, chatwoot
<1>2. PostNote(w, job) =>
        /\ job.kind = "private_note"
        /\ notes' = notes \/ notes' = [notes EXCEPT ![job.req] = notes[job.req] + 1]
        /\ flying' = flying \/ flying' = [flying EXCEPT ![job.req] = flying[job.req] + 1]
  BY DEF PostNote
<1>3. wk[w].pc # "done"
  BY DEF Calls, ReadFails, ReadAssignee, PostAssignment, ConfirmAssignment, ScanNotes, PostNote, Turn
<1> QED BY <1>0, <1>1, <1>2, <1>3

\* A note is posted once: after a post there is one note, in Chatwoot or on its way.
LEMMA PostCounts ==
    ASSUME TypeOK, NotesInv, NEW w \in Worker, NEW job \in wk[w].todo, PostNote(w, job)
    PROVE  notes'[job.req] + flying'[job.req] <= 1
<1>0. job.req \in Request /\ notes \in [Request -> Nat] /\ flying \in [Request -> Nat]
  BY Typed DEF TypeOK
<1>1. notes[job.req] = 0 /\ flying[job.req] = 0
  BY DEF PostNote, NotesInv, PostIsFirst
<1>2. \/ notes' = [notes EXCEPT ![job.req] = notes[job.req] + 1] /\ flying' = flying
      \/ notes' = notes /\ flying' = [flying EXCEPT ![job.req] = flying[job.req] + 1]
      \/ notes' = notes /\ flying' = flying
  BY DEF PostNote
<1> QED BY <1>0, <1>1, <1>2

\* The outcome of a call for a note that is, or may be, on its way.
LEMMA CallOutcome ==
    ASSUME TypeOK, NotesInv, NEW w \in Worker, NEW job \in wk[w].todo, Calls(w, job),
           job.kind = "private_note", wk'[w].pc = "done",
           job.known = "delivery_unknown" \/ flying'[job.req] > 0
    PROVE  wk'[w].outcome \in NeverAgain
<1>0. job \in Job /\ job.req \in Request /\ job.kind \in Kind
  BY Typed
<1>1. ASSUME NEW outcome \in NeverAgain, Done(w, outcome) PROVE wk'[w].outcome \in NeverAgain
  BY <1>1, DoneBatch
<1>2. Unknown(job) \in NeverAgain /\ "applied" \in NeverAgain /\ "conflict" \in NeverAgain
      /\ "dead_letter" \in NeverAgain
  BY <1>0, Outcomes DEF NeverAgain, Settled
<1>3. CASE ReadFails(w, job)
  <2>1. flying' = flying /\ Turn(w, job, "next")
    BY <1>3 DEF ReadFails, chatwoot
  <2>2. flying[job.req] > 0 => job.known = "delivery_unknown"
    <3> SUFFICES ASSUME flying[job.req] > 0, job.known # "delivery_unknown" PROVE FALSE
      OBVIOUS
    <3>1. eff[job.req]["private_note"].status \in Claimable \ {"delivery_unknown"}
      BY DEF NotesInv, HeldIsLeased
    <3>2. eff[job.req]["private_note"].status \notin NeverAgain
      BY <3>1 DEF Claimable, NeverAgain, Settled
    <3>3. Turn(w, job, "done")
      BY <3>2, <1>0 DEF NotesInv, LostIsKnown
    <3> QED BY <3>3, <2>1 DEF Turn
  <2>3. Failed(job) \in NeverAgain
    BY <2>1, <2>2, <1>0, Outcomes
  <2> QED BY <2>3, <1>1, <1>2, <1>3 DEF ReadFails
<1>4. CASE ScanNotes(w, job)
  <2>1. ~(wk' = [wk EXCEPT ![w].pc = "post"])
    BY PcBatch
  <2> QED BY <2>1, <1>1, <1>2, <1>4 DEF ScanNotes
<1>5. CASE PostNote(w, job)
  BY <1>1, <1>2, <1>5 DEF PostNote
<1> QED BY <1>3, <1>4, <1>5 DEF Calls, ReadAssignee, PostAssignment, ConfirmAssignment

\* Who is sent to post a note has seen that there is none.
LEMMA CallPosts ==
    ASSUME TypeOK, NotesInv, NEW w \in Worker, NEW job \in wk[w].todo, Calls(w, job),
           job.kind = "private_note", wk'[w].pc = "post"
    PROVE  /\ notes'[job.req] = 0 /\ flying'[job.req] = 0 /\ job.known # "delivery_unknown"
<1>0. job \in Job /\ job.req \in Request /\ job.kind \in Kind
  BY Typed
<1>1. ScanNotes(w, job)
  <2>1. \A outcome : ~Done(w, outcome)
    BY DoneBatch
  <2> QED BY <2>1 DEF Calls, ReadFails, ReadAssignee, PostAssignment, ConfirmAssignment, PostNote
<1>2. notes[job.req] = 0 /\ job.known # "delivery_unknown" /\ Turn(w, job, "next")
      /\ notes' = notes /\ flying' = flying
  <2>1. \A outcome : ~Done(w, outcome)
    BY DoneBatch
  <2> QED BY <2>1, <1>1 DEF ScanNotes, chatwoot
<1>3. eff[job.req]["private_note"].status \in Claimable \ {"delivery_unknown"}
  BY <1>2 DEF NotesInv, HeldIsLeased
<1>4. eff[job.req]["private_note"].status \notin NeverAgain
  BY <1>3 DEF Claimable, NeverAgain, Settled
<1>5. ~(flying[job.req] > 0)
  BY <1>0, <1>2, <1>4 DEF NotesInv, LostIsKnown, Turn
<1> QED BY <1>0, <1>2, <1>5 DEF TypeOK

LEMMA NotesCalls ==
    ASSUME TypeOK, NotesInv, NEW w \in Worker, NEW job \in wk[w].todo, Calls(w, job)
    PROVE  NotesInv'
<1>0. job \in Job /\ job.req \in Request /\ job.kind \in Kind
  BY Typed
<1>1. eff' = eff
  BY CallsFrame
<1>2. /\ \A v \in Worker : v # w => wk'[v] = wk[v]
      /\ \A v \in Worker : wk'[v].todo = wk[v].todo
  BY CallsBatch
<1>3. HeldIsLeased' /\ BatchesApart'
  BY <1>1, <1>2 DEF NotesInv, HeldIsLeased, BatchesApart
\* The notes of the jobs of the other workers are not touched.
<1>4. ASSUME NEW v \in Worker, v # w, NEW i \in wk[v].todo, i.kind = "private_note"
      PROVE  notes'[i.req] = notes[i.req] /\ flying'[i.req] = flying[i.req]
  <2>1. i.req # job.req \/ job.kind # "private_note"
    BY <1>4 DEF NotesInv, BatchesApart
  <2> QED BY <2>1, CallNotes, Typed
<1>5. ASSUME NEW v \in Worker, NEW i \in wk[v].todo, NEW pc \in {"post", "done"},
             Turn(v, i, pc)', i.kind = "private_note"
      PROVE  \/ v # w /\ Turn(v, i, pc) /\ wk'[v] = wk[v]
             \/ v = w /\ i = job /\ wk'[w].pc = pc
  BY <1>5, <1>2, TurnsAfterCall DEF Turn
<1>6. PostIsFirst'
  <2> SUFFICES ASSUME NEW v \in Worker, NEW i \in wk[v].todo, Turn(v, i, "post")',
                      i.kind = "private_note"
               PROVE  notes'[i.req] = 0 /\ flying'[i.req] = 0 /\ i.known # "delivery_unknown"
    BY <1>2 DEF PostIsFirst
  <2>1. CASE v # w
    BY <2>1, <1>4, <1>5 DEF NotesInv, PostIsFirst
  <2>2. CASE v = w
    BY <2>2, <1>5, CallPosts
  <2> QED BY <2>1, <2>2
<1>7. UnknownStays'
  <2> SUFFICES ASSUME NEW v \in Worker, NEW i \in wk[v].todo, Turn(v, i, "done")',
                      i.kind = "private_note",
                      i.known = "delivery_unknown" \/ flying'[i.req] > 0
               PROVE  wk'[v].outcome \in NeverAgain
    BY <1>2 DEF UnknownStays
  <2>1. CASE v # w
    BY <2>1, <1>4, <1>5 DEF NotesInv, UnknownStays
  <2>2. CASE v = w
    BY <2>2, <1>5, CallOutcome
  <2> QED BY <2>1, <2>2
<1>8. LostIsKnown'
  <2> SUFFICES ASSUME NEW r \in Request, flying'[r] > 0,
                      eff[r]["private_note"].status \notin NeverAgain
               PROVE  /\ eff[r]["private_note"].lease = "live"
                      /\ \A v \in Worker : \A i \in wk[v].todo :
                            i.req = r /\ i.kind = "private_note" => Turn(v, i, "done")'
    BY <1>1, <1>2 DEF LostIsKnown
  <2>1. CASE flying[r] > 0
    <3>1. /\ eff[r]["private_note"].lease = "live"
          /\ \A v \in Worker : \A i \in wk[v].todo :
                i.req = r /\ i.kind = "private_note" => Turn(v, i, "done")
      BY <2>1 DEF NotesInv, LostIsKnown
    <3>2. \A i \in wk[w].todo : ~Turn(w, i, "done")
      BY CallNotes DEF Turn
    <3>3. \A v \in Worker : v # w => \A i \in wk[v].todo : Turn(v, i, "done") => Turn(v, i, "done")'
      BY <1>2 DEF Turn, Before
    <3> QED BY <3>1, <3>2, <3>3
  <2>2. CASE ~(flying[r] > 0)
    <3>1. PostNote(w, job) /\ r = job.req /\ job.kind = "private_note"
      BY <2>2, CallNotes
    <3>2. eff[r]["private_note"].lease = "live"
      BY <3>1 DEF NotesInv, HeldIsLeased
    <3>3. \A v \in Worker : \A i \in wk[v].todo :
              i.req = r /\ i.kind = "private_note" => v = w /\ i = job
      BY <3>1 DEF NotesInv, BatchesApart
    <3>4. Turn(w, job, "done")'
      <4>1. wk'[w].pc = "done"
        BY <3>1, DoneBatch DEF PostNote
      <4> QED BY <4>1, <1>2, <3>1 DEF PostNote, Turn, Before
    <3> QED BY <3>2, <3>3, <3>4
  <2> QED BY <2>1, <2>2
<1>9. NotesCounted'
  <2> SUFFICES ASSUME NEW r \in Request
               PROVE  notes'[r] + flying'[r] <= IF eff[r]["private_note"].status = None THEN 0 ELSE 1
    BY <1>1 DEF NotesCounted
  <2>1. CASE PostNote(w, job) /\ r = job.req
    <3>1. job.kind = "private_note" /\ eff[r]["private_note"].status # None
      BY <2>1 DEF PostNote, NotesInv, HeldIsLeased, Claimable, None
    <3> QED BY <3>1, <2>1, PostCounts
  <2>2. CASE ~(PostNote(w, job) /\ r = job.req)
    <3>1. notes'[r] = notes[r] /\ flying'[r] = flying[r]
      BY <2>2, CallNotes
    <3> QED BY <3>1 DEF NotesInv, NotesCounted
  <2> QED BY <2>1, <2>2
<1> QED BY <1>3, <1>6, <1>7, <1>8, <1>9 DEF NotesInv

LEMMA NotesFinalize ==
    ASSUME TypeOK, BatchesStand, NotesInv, NEW w \in Worker, NEW job \in wk[w].todo,
           Finalize(w, job)
    PROVE  NotesInv'
<1>0. job.req \in Request /\ job.kind \in Kind /\ Turn(w, job, "done") /\ wk[w].outcome # None
      /\ notes' = notes /\ flying' = flying
  BY Typed DEF Finalize, Turn, BatchesStand, chatwoot
<1>1. /\ wk'[w].todo = wk[w].todo \ {job} /\ wk'[w].pc = "next"
      /\ \A v \in Worker : v # w => wk'[v] = wk[v]
  BY Typed DEF Finalize, Idle
<1>2. \A v \in Worker : \A i \in wk'[v].todo :
          /\ i \in wk[v].todo /\ i.req \in Request /\ i.kind \in Kind
          /\ i.req # job.req \/ i.kind # job.kind
  BY <1>1, Typed DEF NotesInv, BatchesApart
<1>3. HeldIsLeased'
  BY <1>2, Finalized DEF NotesInv, HeldIsLeased
<1>4. BatchesApart'
  BY <1>2 DEF NotesInv, BatchesApart
<1>5. \A v \in Worker : \A i \in wk'[v].todo, pc \in {"post", "done"} :
          Turn(v, i, pc)' => v # w /\ i \in wk[v].todo /\ wk'[v] = wk[v] /\ Turn(v, i, pc)
  BY <1>1 DEF Turn, Before
<1>6. PostIsFirst'
  BY <1>0, <1>5 DEF NotesInv, PostIsFirst
<1>7. UnknownStays'
  BY <1>0, <1>5 DEF NotesInv, UnknownStays
<1>8. LostIsKnown'
  <2> SUFFICES ASSUME NEW r \in Request, flying[r] > 0,
                      eff'[r]["private_note"].status \notin NeverAgain
               PROVE  /\ eff'[r]["private_note"].lease = "live"
                      /\ \A v \in Worker : \A i \in wk'[v].todo :
                            i.req = r /\ i.kind = "private_note" => Turn(v, i, "done")'
    BY <1>0 DEF LostIsKnown
  <2>1. ~(r = job.req /\ job.kind = "private_note")
    <3> SUFFICES ASSUME r = job.req, job.kind = "private_note" PROVE FALSE
      OBVIOUS
    <3>1. eff'[r]["private_note"].status = wk[w].outcome
      BY Finalized
    <3>2. wk[w].outcome \in NeverAgain
      BY <1>0 DEF NotesInv, UnknownStays
    <3> QED BY <3>1, <3>2
  <2>2. eff'[r]["private_note"] = eff[r]["private_note"]
    BY <2>1, Finalized DEF Kind
  <2>3. /\ eff[r]["private_note"].lease = "live"
        /\ \A v \in Worker : \A i \in wk[v].todo :
              i.req = r /\ i.kind = "private_note" => Turn(v, i, "done")
    BY <2>2 DEF NotesInv, LostIsKnown
  <2>4. ASSUME NEW v \in Worker, NEW i \in wk'[v].todo, i.req = r, i.kind = "private_note"
        PROVE  Turn(v, i, "done")'
    <3>1. Turn(v, i, "done") /\ i \in wk[v].todo
      BY <2>3, <2>4, <1>2
    <3>2. CASE v = w
      <4>1. i # job
        BY <2>1, <2>4
      <4>2. wk[w].pc = "done"
        BY <1>0 DEF Turn
      <4>3. \A other \in wk[w].todo \ {i} : Before(i, other)
        BY <3>1, <3>2 DEF Turn
      <4> QED BY <4>1, <4>2, <4>3, <3>1, <3>2, <1>0, <2>4, NoteTurn
    <3>3. CASE v # w
      BY <3>1, <3>3, <1>1 DEF Turn, Before
    <3> QED BY <3>2, <3>3
  <2> QED BY <2>2, <2>3, <2>4
<1>9. NotesCounted'
  <2>1. \A r \in Request :
            eff[r]["private_note"].status # None => eff'[r]["private_note"].status # None
    BY <1>0, Finalized DEF Kind
  <2>2. \A r \in Request : eff[r]["private_note"].status = None =>
            notes[r] + flying[r] <= 0 /\ notes[r] + flying[r] \in Int
    BY DEF NotesInv, NotesCounted, TypeOK
  <2> QED BY <1>0, <2>1, <2>2 DEF NotesInv, NotesCounted
<1> QED BY <1>3, <1>4, <1>6, <1>7, <1>8, <1>9 DEF NotesInv

LEMMA StepNotes ==
    ASSUME IInv, NotesInv, ~SlowWorkers, [Next]_vars
    PROVE  NotesInv'
<1>0. TypeOK /\ RequestSide /\ BatchesStand
  BY DEF IInv, RequestSide
<1>1. ASSUME NEW w \in Worker, WorkerStep(w) PROVE NotesInv'
  <2>1. CASE Claim(w)
    BY <2>1, <1>0, NotesClaim
  <2>2. ASSUME NEW job \in wk[w].todo, Attempt(w, job) PROVE NotesInv'
    <3>1. CASE Calls(w, job)
      BY <3>1, <1>0, NotesCalls
    <3>2. CASE Finalize(w, job)
      BY <3>2, <1>0, NotesFinalize
    <3>3. CASE Refused(w, job)
      BY <3>3, <1>0, NotesDrop DEF Refused, chatwoot
    <3> QED BY <3>1, <3>2, <3>3, <2>2 DEF Attempt, Calls
  <2> QED BY <2>1, <2>2, <1>1 DEF WorkerStep
<1>2. ASSUME NEW w \in Worker, Abort(w) PROVE NotesInv'
  BY <1>2, <1>0, NotesDrop DEF Abort, chatwoot
<1>3. ASSUME NEW r \in Request, RequestHandoff(r) PROVE NotesInv'
  BY <1>3, <1>0, NotesRequest
<1>4. CASE PersonWrites \/ PersonWebhook \/ Resume \/ Reassigned \/ UNCHANGED vars
  BY <1>4, NotesFrame
     DEF PersonWrites, PersonWebhook, Resume, Reassigned, vars, chatwoot
<1>5. ASSUME NEW r \in Request, NEW k \in Kind, RetryDue(r, k) \/ LeaseLapses(r, k)
      PROVE NotesInv'
  BY <1>5, <1>0, NotesTime
<1>6. ASSUME NEW r \in Request, NEW n \in 0..1, FlyingSettles(r, n) PROVE NotesInv'
  BY <1>6, <1>0, NotesFlying
<1> QED BY <1>1, <1>2, <1>3, <1>4, <1>5, <1>6 DEF Next, ConversationStep

\* If no lease lapses under the work on it, notes, losses and batches keep the discipline
\* that the single note rests on, for any number of workers, deaths and retries.
THEOREM NotesInvariantHolds == ~SlowWorkers /\ Spec => []NotesInv
<1> SUFFICES ASSUME ~SlowWorkers PROVE Spec => []NotesInv
  OBVIOUS
<1>1. Init => NotesInv
  BY InitNotes
<1>2. IInv /\ NotesInv /\ [Next]_vars => NotesInv'
  BY StepNotes
<1> QED BY <1>1, <1>2, InvariantHolds, PTL DEF Spec

\* One private note at most (ensure_private_handoff_note), under that assumption.
THEOREM OneNote == ~SlowWorkers /\ Spec => []AtMostOneNote
<1>1. TypeOK /\ NotesInv => AtMostOneNote
  <2> SUFFICES ASSUME TypeOK, NotesInv, NEW r \in Request PROVE notes[r] <= 1
    BY DEF AtMostOneNote
  <2>1. notes[r] + flying[r] <= 1 /\ notes[r] \in Nat /\ flying[r] \in Nat
    BY DEF NotesInv, NotesCounted, TypeOK
  <2> QED BY <2>1
<1> QED BY <1>1, TypeCorrect, NotesInvariantHolds, PTL

\* After an unknown delivery nothing is posted (executable-human-handoff-v1.md), under that
\* assumption.
THEOREM UnknownScans == ~SlowWorkers /\ Spec => UnknownOnlyScans
<1> DEFINE Scans == \A r \in Request : eff[r]["private_note"].status = "delivery_unknown" =>
                       notes'[r] + flying'[r] <= notes[r] + flying[r]
<1>1. IInv /\ NotesInv /\ [Next]_vars => Scans
  <2> SUFFICES ASSUME IInv, NotesInv, [Next]_vars, NEW r \in Request,
                      eff[r]["private_note"].status = "delivery_unknown"
               PROVE  notes'[r] + flying'[r] <= notes[r] + flying[r]
    OBVIOUS
  <2>0. TypeOK /\ notes \in [Request -> Nat] /\ flying \in [Request -> Nat]
    BY DEF IInv, TypeOK
  <2>1. ASSUME notes' = notes, flying' = flying
        PROVE  notes'[r] + flying'[r] <= notes[r] + flying[r]
    BY <2>0, <2>1
  <2>2. ASSUME NEW q \in Request, NEW n \in 0..1, FlyingSettles(q, n)
        PROVE  notes'[r] + flying'[r] <= notes[r] + flying[r]
    <3>1. /\ notes' = [notes EXCEPT ![q] = notes[q] + n]
          /\ flying' = [flying EXCEPT ![q] = flying[q] - 1]
      BY <2>2 DEF FlyingSettles
    <3> QED BY <3>1, <2>0
  <2>3. ASSUME NEW w \in Worker, NEW job \in wk[w].todo, Calls(w, job)
        PROVE  notes'[r] + flying'[r] <= notes[r] + flying[r]
    <3>1. CASE PostNote(w, job) /\ job.req = r
      <4>1. job.known # "delivery_unknown" /\ job.kind = "private_note"
        BY <3>1 DEF PostNote, NotesInv, PostIsFirst
      <4> QED BY <4>1, <3>1 DEF NotesInv, HeldIsLeased
    <3>2. CASE ~(PostNote(w, job) /\ job.req = r)
      <4>1. notes'[r] = notes[r] /\ flying'[r] = flying[r]
        BY <3>2, <2>0, <2>3, CallNotes
      <4> QED BY <4>1, <2>0
    <3> QED BY <3>1, <3>2
  <2> QED
    BY <2>1, <2>2, <2>3
       DEF Next, vars, chatwoot, ConversationStep, RequestHandoff, PersonWrites, PersonWebhook,
           Resume, Reassigned, WorkerStep, Attempt, Calls, Claim, Finalize, Refused, Abort,
           RetryDue, LeaseLapses
<1>2. IInv /\ NotesInv /\ [Next]_vars => [Scans]_vars
  BY <1>1
<1> QED BY <1>2, InvariantHolds, NotesInvariantHolds, PTL DEF UnknownOnlyScans, Spec
=============================================================================
