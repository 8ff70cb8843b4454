-------------------------- MODULE ChatwootInboxProofs --------------------------
(* Proofs about ChatwootInbox for every set of files, conversations and         *)
(* processes.                                                                   *)
EXTENDS ChatwootInbox, TLAPS

LEMMA InitType == Init => TypeOK
<1> USE InboxAssumption DEF Init, TypeOK, Envelope, Status, Timer, Worker, Idle, None
<1> QED OBVIOUS

LEMMA Put ==
    ASSUME NEW S, NEW T, NEW f \in [S -> T], NEW s \in S, NEW t \in T
    PROVE  [f EXCEPT ![s] = t] \in [S -> T]
OBVIOUS

LEMMA IdleType == Idle \in Worker
BY DEF Idle, Worker

\* The files a worker writes are envelopes.
LEMMA FailedType ==
    ASSUME TypeOK, NEW m \in Work, NEW n \in 0..MaxAttempts
    PROVE  [file EXCEPT ![m] = Failed(m, n)] \in [Work -> Envelope]
<1>1. file[m] \in Envelope
  BY DEF TypeOK
<1>2. Failed(m, n) \in Envelope
  BY <1>1 DEF Failed, Envelope, Status, Timer
<1> QED BY <1>2, Put DEF TypeOK

LEMMA NextAttemptType == ASSUME NEW n \in 0..MaxAttempts PROVE NextAttempt(n) \in 0..MaxAttempts
BY InboxAssumption DEF NextAttempt

LEMMA ArriveType ==
    ASSUME TypeOK, NEW d \in Work, NEW n \in 0..MaxAdmissions, Arrive(d, n)
    PROVE  TypeOK'
<1>1. [status |-> "admitted", attempts |-> 0, timer |-> "debounce", recovery |-> n] \in Envelope
  BY InboxAssumption DEF Envelope, Status, Timer
<1>2. file' \in [Work -> Envelope]
  BY <1>1 DEF Arrive, TypeOK
<1>3. later' \subseteq Work \X Work
  BY DEF Arrive, TypeOK
<1>4. QED
  BY <1>2, <1>3 DEF Arrive, TypeOK

\* A process that turns to failing its group is a process still.
LEMMA FailingType ==
    ASSUME NEW v \in Worker, NEW l \in Work \cup {None}
    PROVE  [v EXCEPT !.pc = "failing", !.replaying = l, !.todo = v.batch] \in Worker
BY DEF Worker

\* Every action keeps the type invariant.
LEMMA StepType == TypeOK /\ [Next]_vars => TypeOK'
<1> SUFFICES ASSUME TypeOK, [Next]_vars PROVE TypeOK'
  OBVIOUS
<1>1. ASSUME NEW d \in Work, Admit(d) PROVE TypeOK'
  BY <1>1, ArriveType, InboxAssumption DEF Admit
<1>2. ASSUME NEW d \in Work, AdmitRecovery(d) PROVE TypeOK'
  <2>1. CASE file[d].status = "absent" /\ Arrive(d, 1)
    BY <2>1, ArriveType, InboxAssumption
  <2>2. CASE file[d].recovery < MaxAdmissions /\ Arrive(d, file[d].recovery + 1)
    <3>1. file[d].recovery + 1 \in 0..MaxAdmissions
      BY <2>2, InboxAssumption DEF TypeOK, Envelope
    <3> QED BY <3>1, <2>2, ArriveType
  <2> QED BY <2>1, <2>2, <1>2 DEF AdmitRecovery
<1>3. ASSUME NEW d \in Work, TimerElapses(d) PROVE TypeOK'
  BY <1>3 DEF TimerElapses, TypeOK, Envelope, Timer, history
<1>4. ASSUME NEW p \in Procs, Scan(p) PROVE TypeOK'
  BY <1>4 DEF Scan, TypeOK, Worker, Idle, Journals, history
<1>0. /\ \A p \in Procs : /\ proc[p] \in Worker /\ proc[p].batch \in SUBSET Work
                         /\ proc[p].todo \in SUBSET Work /\ proc[p].queue \in SUBSET Work
                         /\ proc[p].leader \in Work \cup {None}
      /\ proc \in [Procs -> Worker]
      /\ \A d \in Work : file[d].attempts \in 0..MaxAttempts /\ journal[d] \in SUBSET Work
  BY DEF TypeOK, Worker, Envelope
<1>5. ASSUME NEW p \in Procs, NEW l \in Work, OpenJournal(p, l) PROVE TypeOK'
  <2>1. [proc[p] EXCEPT !.queue = @ \ {l}] \in Worker
    BY <1>0 DEF Worker
  <2>2. [proc[p] EXCEPT !.queue = @ \ {l}, !.replaying = l, !.todo = journal[l]] \in Worker
    BY <1>0 DEF Worker
  <2>3. proc' \in [Procs -> Worker]
    BY <2>1, <2>2, <1>0, <1>5 DEF OpenJournal
  <2> QED BY <2>3, <1>5 DEF OpenJournal, TypeOK, history
<1>6. ASSUME NEW p \in Procs, NEW m \in Work, ReplayMember(p, m) PROVE TypeOK'
  <2>1. [proc[p] EXCEPT !.todo = @ \ {m}] \in Worker
    BY <1>0 DEF Worker
  <2>2. proc' \in [Procs -> Worker]
    BY <2>1, <1>0, <1>6, IdleType DEF ReplayMember
  <2>3. file' \in [Work -> Envelope]
    <3>1. NextAttempt(file[m].attempts) \in 0..MaxAttempts /\ file[m].attempts \in 0..MaxAttempts
      BY <1>0, NextAttemptType
    <3> QED BY <3>1, <1>6, FailedType DEF ReplayMember, TypeOK
  <2> QED BY <2>2, <2>3, <1>6 DEF ReplayMember, TypeOK, history
<1>7. ASSUME NEW p \in Procs, CloseJournal(p) PROVE TypeOK'
  <2>1. [proc[p] EXCEPT !.replaying = None] \in Worker
    BY <1>0 DEF Worker
  <2>2. proc' \in [Procs -> Worker]
    BY <2>1, <1>0, <1>7, IdleType DEF CloseJournal
  <2> QED BY <2>2, <1>7 DEF CloseJournal, TypeOK, history
<1>16. ASSUME NEW p \in Procs, ScanEnds(p) PROVE TypeOK'
  BY <1>16, IdleType, <1>0 DEF ScanEnds, TypeOK, history
<1>8. ASSUME NEW p \in Procs, NEW c \in {Conv[d] : d \in Work}, Lock(p, c) PROVE TypeOK'
  BY <1>8 DEF Lock, TypeOK, Worker, Idle, Journals, history
<1>9. ASSUME NEW p \in Procs, StartHandler(p) PROVE TypeOK'
  <2>1. PICK d \in Members(proc[p].conv) :
          proc' = [proc EXCEPT ![p] = [@ EXCEPT !.pc = "handling",
                                          !.batch = Members(proc[p].conv), !.leader = d]]
    BY <1>9 DEF StartHandler
  <2>2. Members(proc[p].conv) \in SUBSET Work /\ d \in Work
    BY <2>1 DEF Members
  <2>3. [proc[p] EXCEPT !.pc = "handling", !.batch = Members(proc[p].conv), !.leader = d]
            \in Worker
    BY <2>2, <1>0 DEF Worker
  <2> QED BY <2>1, <2>3, <1>0, <1>9 DEF StartHandler, TypeOK, history
<1>10. ASSUME NEW p \in Procs, SkipGroup(p) PROVE TypeOK'
  BY <1>10 DEF SkipGroup, TypeOK, Worker, Idle, history
<1>11. ASSUME NEW p \in Procs, HandlerReturns(p) PROVE TypeOK'
  <2>1. [proc[p] EXCEPT !.pc = "completing", !.todo = proc[p].batch] \in Worker
    BY <1>0 DEF Worker
  <2>2. proc' \in [Procs -> Worker]
    BY <2>1, <1>0, <1>11 DEF HandlerReturns
  <2> QED BY <2>2, <1>11 DEF HandlerReturns, TypeOK
<1>12. ASSUME NEW p \in Procs, NEW retryable \in BOOLEAN, HandlerFails(p, retryable)
       PROVE TypeOK'
  <2> DEFINE l == proc[p].leader
  <2>1. CASE l \in Work
    <3>1. [proc[p] EXCEPT !.pc = "failing", !.replaying = l, !.todo = proc[p].batch] \in Worker
      BY <1>0, FailingType
    <3>2. proc' \in [Procs -> Worker]
      BY <3>1, <1>0, <1>12, IdleType DEF HandlerFails
    <3>3. NextAttempt(file[l].attempts) \in 0..MaxAttempts
      BY <2>1, <1>0, NextAttemptType
    <3>4. [file[l] EXCEPT !.attempts = NextAttempt(file[l].attempts), !.timer = "backoff"]
              \in Envelope
      <4>1. file[l] \in Envelope
        BY <2>1 DEF TypeOK
      <4>2. "backoff" \in Timer
        BY DEF Timer
      <4> QED BY <3>3, <4>1, <4>2 DEF Envelope
    <3>5. file' \in [Work -> Envelope]
      <4>1. file' = file \/ file' = [file EXCEPT ![l] = Failed(l, NextAttempt(file[l].attempts))]
              \/ file' = [file EXCEPT ![l] = [@ EXCEPT !.attempts = NextAttempt(file[l].attempts),
                                                     !.timer = "backoff"]]
        BY <1>12 DEF HandlerFails
      <4>2. file \in [Work -> Envelope]
        BY DEF TypeOK
      <4>3. [file EXCEPT ![l] = Failed(l, NextAttempt(file[l].attempts))] \in [Work -> Envelope]
        BY <3>3, <2>1, FailedType
      <4>4. [file EXCEPT ![l] = [@ EXCEPT !.attempts = NextAttempt(file[l].attempts),
                                         !.timer = "backoff"]] \in [Work -> Envelope]
        BY <3>4, <4>2, <2>1
      <4> QED BY <4>1, <4>2, <4>3, <4>4
    <3>6. journal' \in [Work -> SUBSET Work]
      BY <1>12, <1>0 DEF HandlerFails, TypeOK
    <3> QED BY <3>2, <3>5, <3>6, <1>12 DEF HandlerFails, TypeOK
  <2>2. CASE l = None
    <3>1. [proc[p] EXCEPT !.pc = "failing", !.replaying = l, !.todo = proc[p].batch] \in Worker
      BY <1>0, FailingType
    <3>2. proc' \in [Procs -> Worker]
      BY <3>1, <1>0, <1>12, IdleType DEF HandlerFails
    <3>3. l \notin Work
      BY <2>2, InboxAssumption
    <3>4. file' = file /\ journal' = journal
      BY <3>3, <1>12 DEF HandlerFails, TypeOK
    <3> QED BY <3>2, <3>4, <1>12 DEF HandlerFails, TypeOK
  <2> QED BY <2>1, <2>2, <1>0
<1>13. ASSUME NEW p \in Procs, NEW m \in Work, CompleteMember(p, m) PROVE TypeOK'
  <2>1. [proc[p] EXCEPT !.todo = @ \ {m}] \in Worker
    BY <1>0 DEF Worker
  <2>2. proc' \in [Procs -> Worker]
    BY <2>1, <1>0, <1>13, IdleType DEF CompleteMember
  <2>3. [file[m] EXCEPT !.status = "completed", !.timer = "cooldown"] \in Envelope
    BY DEF TypeOK, Envelope, Status, Timer
  <2>4. file' \in [Work -> Envelope]
    BY <2>3, <1>13 DEF CompleteMember, TypeOK
  <2> QED BY <2>2, <2>4, <1>13 DEF CompleteMember, TypeOK, history
<1>14. ASSUME NEW p \in Procs, Crash(p) PROVE TypeOK'
  BY <1>14, InboxAssumption DEF Crash, TypeOK, Worker, Idle, history
<1>15. CASE UNCHANGED vars
  BY <1>15 DEF TypeOK, vars
<1> QED
  BY <1>1, <1>2, <1>3, <1>4, <1>5, <1>6, <1>7, <1>8, <1>9, <1>10, <1>11, <1>12, <1>13,
     <1>14, <1>15, <1>16 DEF Next, WorkerStep

-----------------------------------------------------------------------------
(* The parts of the inductive invariant other than the type. *)
Parts == /\ LocksExclusive
         /\ OwnedIsAdmitted
         /\ JournalOfOneGroup
         /\ JournalsQueued
         /\ ReplaySound
         /\ DebounceIsFresh
         /\ CompletedWasAnswered

LEMMA InitParts == Init => Parts
BY InboxAssumption
   DEF Init, Idle, Parts, LocksExclusive, Holds, OwnedIsAdmitted, Owned, JournalOfOneGroup,
       JournalsQueued, ReplaySound, DebounceIsFresh, CompletedWasAnswered

\* A worker that lets go of everything disturbs nothing.
LEMMA ReleaseParts ==
    ASSUME TypeOK, Parts, NEW p \in Procs, proc' = [proc EXCEPT ![p] = Idle],
           UNCHANGED <<file, journal, answered>>
    PROVE  Parts'
<1>1. /\ \A q \in Procs : q # p => proc'[q] = proc[q]
      /\ proc'[p].pc = "idle" /\ proc'[p].replaying = None
  BY DEF TypeOK, Idle
<1>2. LocksExclusive'
  BY <1>1 DEF Parts, LocksExclusive, Holds
<1>3. OwnedIsAdmitted'
  BY <1>1 DEF Parts, OwnedIsAdmitted, Owned, Admitted
<1>4. JournalOfOneGroup' /\ DebounceIsFresh' /\ CompletedWasAnswered'
  BY DEF Parts, JournalOfOneGroup, DebounceIsFresh, CompletedWasAnswered, Admitted
<1>5. JournalsQueued'
  BY <1>1 DEF Parts, JournalsQueued
<1>6. ReplaySound'
  BY <1>1 DEF Parts, ReplaySound, Settled, Admitted
<1> QED BY <1>2, <1>3, <1>4, <1>5, <1>6 DEF Parts

\* What arrives is not owned, and if a journal names it, it is a re-armed recovery.
LEMMA ArriveParts ==
    ASSUME TypeOK, Parts, NEW d \in Work, NEW n \in 0..MaxAdmissions, Arrive(d, n),
           \/ file[d].status = "absent"
           \/ file[d].status \in Terminal /\ d \in Recoveries
    PROVE  Parts'
<1>1. /\ \A e \in Work : e # d => file'[e] = file[e] /\ answered'[e] = answered[e]
      /\ file'[d].status = "admitted" /\ file'[d].timer = "debounce" /\ file'[d].attempts = 0
      /\ UNCHANGED <<proc, journal>>
  BY DEF Arrive, TypeOK
<1>2. file[d].status # "admitted"
  BY DEF Terminal
<1>3. LocksExclusive'
  BY <1>1 DEF Parts, LocksExclusive, Holds
<1>4. OwnedIsAdmitted'
  BY <1>1, <1>2 DEF Parts, OwnedIsAdmitted, Owned, Admitted, TypeOK, Worker
<1>5. JournalOfOneGroup'
  BY <1>1 DEF Parts, JournalOfOneGroup, TypeOK
<1>6. DebounceIsFresh' /\ CompletedWasAnswered'
  BY <1>1 DEF Parts, DebounceIsFresh, CompletedWasAnswered, Admitted
<1>7. JournalsQueued'
  BY <1>1 DEF Parts, JournalsQueued
<1>8. ReplaySound'
  <2> SUFFICES ASSUME NEW p \in Procs, proc[p].replaying # None
               PROVE  /\ proc[p].pc \in {"scanning", "locked", "failing"}
                      /\ LET l == proc[p].replaying IN
                         /\ \A m \in journal[l] \ proc[p].todo :
                                file'[m].status = "failed" \/ Settled(m)'
                         /\ journal[l] = {} => Settled(l)' /\ \A m \in proc[p].todo : Settled(m)'
                         /\ journal[l] # {} => proc[p].todo \subseteq journal[l]
                         /\ \A m \in proc[p].todo \cup {l} : file'[m].status # "absent"
    BY <1>1 DEF Parts, ReplaySound
  <2> DEFINE l == proc[p].replaying
  <2>1. l \in Work /\ proc[p].todo \subseteq Work /\ journal[l] \subseteq Work
    BY DEF TypeOK, Worker
  <2>2. \A m \in Work : Settled(m) /\ file[m].status # "absent" => Settled(m)'
    BY <1>1 DEF Settled, Admitted
  <2>3. \A m \in journal[l] : file[m].status # "absent"
    BY <2>1 DEF Parts, JournalOfOneGroup
  <2>4. \A m \in Work : file[m].status = "failed" => file'[m].status = "failed" \/ Settled(m)'
    BY <1>1, <2>1 DEF Settled, Admitted
  <2> QED BY <1>1, <2>1, <2>2, <2>3, <2>4 DEF Parts, ReplaySound
<1> QED BY <1>3, <1>4, <1>5, <1>6, <1>7, <1>8 DEF Parts

\* A clock runs out only while no process replays a journal.
LEMMA TimerParts ==
    ASSUME TypeOK, Parts, NEW d \in Work, TimerElapses(d)
    PROVE  Parts'
<1>1. /\ \A e \in Work : /\ file'[e].status = file[e].status
                         /\ file'[e].attempts = file[e].attempts
                         /\ file'[e].timer \in {file[e].timer, "off"}
      /\ UNCHANGED <<proc, journal, answered>>
  BY DEF TimerElapses, TypeOK, Envelope, history
<1>2. \A p \in Procs : proc[p].replaying = None
  BY DEF TimerElapses, Awaiting, Parts, ReplaySound
<1>3. LocksExclusive' /\ JournalsQueued'
  BY <1>1 DEF Parts, LocksExclusive, Holds, JournalsQueued
<1>4. OwnedIsAdmitted'
  <2>1. \A p \in Procs : Owned(p)' = Owned(p) /\ Owned(p) \subseteq Work
    BY <1>1 DEF Owned, TypeOK, Worker
  <2>2. \A p \in Procs : \A e \in Owned(p) : Admitted(e)' /\ file'[e].timer # "debounce"
    BY <1>1, <2>1 DEF Parts, OwnedIsAdmitted, Admitted
  <2> QED BY <1>1, <2>1, <2>2 DEF Parts, OwnedIsAdmitted
<1>5. JournalOfOneGroup'
  BY <1>1 DEF Parts, JournalOfOneGroup, TypeOK
<1>6. DebounceIsFresh' /\ CompletedWasAnswered'
  BY <1>1 DEF Parts, DebounceIsFresh, CompletedWasAnswered, Admitted
<1>7. ReplaySound'
  BY <1>1, <1>2 DEF Parts, ReplaySound
<1> QED BY <1>3, <1>4, <1>5, <1>6, <1>7 DEF Parts

\* A listing starts: every journal on disk is in its queue.
LEMMA ScanParts ==
    ASSUME TypeOK, Parts, NEW p \in Procs, Scan(p)
    PROVE  Parts'
<1>1. /\ \A q \in Procs : q # p => proc'[q] = proc[q]
      /\ proc'[p].pc = "scanning" /\ proc'[p].replaying = None
      /\ UNCHANGED <<file, journal, answered>>
  BY DEF Scan, TypeOK, Idle, history
<1>2. LocksExclusive'
  BY <1>1 DEF Parts, LocksExclusive, Holds
<1>3. OwnedIsAdmitted'
  BY <1>1 DEF Parts, OwnedIsAdmitted, Owned, Admitted
<1>4. JournalOfOneGroup' /\ DebounceIsFresh' /\ CompletedWasAnswered' /\ JournalsQueued'
  BY <1>1 DEF Parts, JournalOfOneGroup, DebounceIsFresh, CompletedWasAnswered, Admitted,
              JournalsQueued
<1>5. ReplaySound'
  BY <1>1 DEF Parts, ReplaySound, Settled, Admitted
<1> QED BY <1>2, <1>3, <1>4, <1>5 DEF Parts

LEMMA LockParts ==
    ASSUME TypeOK, Parts, NEW p \in Procs, NEW c \in {Conv[d] : d \in Work}, Lock(p, c)
    PROVE  Parts'
<1>1. /\ \A q \in Procs : q # p => proc'[q] = proc[q]
      /\ proc'[p].pc = "locked" /\ proc'[p].replaying = None /\ proc'[p].conv = c
      /\ proc'[p].queue = Journals
      /\ UNCHANGED <<file, journal, answered>>
      /\ \A q \in Procs : ~Holds(q, c)
  BY DEF Lock, TypeOK, Idle, history
<1>2. LocksExclusive'
  BY <1>1 DEF Parts, LocksExclusive, Holds
<1>3. OwnedIsAdmitted'
  BY <1>1 DEF Parts, OwnedIsAdmitted, Owned, Admitted
<1>4. JournalOfOneGroup' /\ DebounceIsFresh' /\ CompletedWasAnswered'
  BY <1>1 DEF Parts, JournalOfOneGroup, DebounceIsFresh, CompletedWasAnswered, Admitted
<1>5. JournalsQueued'
  BY <1>1 DEF Parts, JournalsQueued, Journals
<1>6. ReplaySound'
  BY <1>1 DEF Parts, ReplaySound, Settled, Admitted
<1> QED BY <1>2, <1>3, <1>4, <1>5, <1>6 DEF Parts

LEMMA OpenJournalParts ==
    ASSUME TypeOK, Parts, NEW p \in Procs, NEW l \in Work, OpenJournal(p, l)
    PROVE  Parts'
<1>1. /\ \A q \in Procs : q # p => proc'[q] = proc[q]
      /\ proc'[p].pc = proc[p].pc /\ proc'[p].conv = proc[p].conv
      /\ proc'[p].queue = proc[p].queue \ {l}
      /\ UNCHANGED <<file, journal, answered>>
      /\ proc[p].pc \in {"scanning", "locked"} /\ proc[p].replaying = None
  BY DEF OpenJournal, TypeOK, Worker, history
<1>2. \/ journal[l] = {} /\ proc'[p].replaying = None
      \/ journal[l] # {} /\ proc'[p].replaying = l /\ proc'[p].todo = journal[l]
  BY DEF OpenJournal, TypeOK, Worker
<1>3. LocksExclusive'
  BY <1>1 DEF Parts, LocksExclusive, Holds
<1>4. OwnedIsAdmitted'
  BY <1>1 DEF Parts, OwnedIsAdmitted, Owned, Admitted
<1>5. JournalOfOneGroup' /\ DebounceIsFresh' /\ CompletedWasAnswered'
  BY <1>1 DEF Parts, JournalOfOneGroup, DebounceIsFresh, CompletedWasAnswered, Admitted
<1>6. JournalsQueued'
  BY <1>1, <1>2, InboxAssumption DEF Parts, JournalsQueued
<1>7. ReplaySound'
  <2>1. journal[l] # {} => \A m \in journal[l] \cup {l} : file[m].status # "absent"
    BY DEF Parts, JournalOfOneGroup, TypeOK
  <2>2. \A m \in Work : Settled(m)' = Settled(m)
    BY <1>1 DEF Settled, Admitted
  <2>3. \A q \in Procs : proc[q].replaying # None => proc[q].replaying \in Work
    BY DEF TypeOK, Worker
  <2> SUFFICES ASSUME NEW q \in Procs
               PROVE  ReplaySound!(q)'
    BY DEF ReplaySound
  <2>4. CASE q = p
    BY <2>4, <1>1, <1>2, <2>1 DEF Parts, ReplaySound
  <2>5. CASE q # p
    BY <2>5, <1>1, <2>2 DEF Parts, ReplaySound, Settled, Admitted
  <2> QED BY <2>4, <2>5
<1> QED BY <1>3, <1>4, <1>5, <1>6, <1>7 DEF Parts

\* Under the lock, with its journals replayed, nothing of the conversation is in one.
LEMMA StartHandlerParts ==
    ASSUME TypeOK, Parts, NEW p \in Procs, StartHandler(p)
    PROVE  Parts'
<1> DEFINE items == Members(proc[p].conv)
<1>1. PICK d \in items :
        /\ Ready(d, items)
        /\ proc' = [proc EXCEPT ![p] = [@ EXCEPT !.pc = "handling", !.batch = items,
                                                 !.leader = d]]
  BY DEF StartHandler
<1>2. /\ \A q \in Procs : q # p => proc'[q] = proc[q]
      /\ proc'[p].pc = "handling" /\ proc'[p].conv = proc[p].conv
      /\ proc'[p].batch = items /\ proc'[p].leader = d
      /\ proc'[p].replaying = None
      /\ proc[p].pc = "locked" /\ proc[p].queue = {} /\ proc[p].replaying = None
  BY <1>1 DEF StartHandler, Listed, TypeOK, Worker
<1>3. UNCHANGED <<file, journal, answered>>
  BY DEF StartHandler, history
<1>4. \A e \in items : /\ e \in Work /\ Admitted(e) /\ Conv[e] = proc[p].conv
                      /\ file[e].timer # "debounce"
  BY <1>1 DEF Members, Ready
<1>5. \A l \in Work : journal[l] # {} => Conv[l] # proc[p].conv
  BY <1>2, InboxAssumption DEF Parts, JournalsQueued
<1>6. items \cap UNION {journal[l] : l \in Work} = {}
  BY <1>4, <1>5 DEF Parts, JournalOfOneGroup
<1>7. LocksExclusive'
  BY <1>2 DEF Parts, LocksExclusive, Holds
<1>8. OwnedIsAdmitted'
  <2> SUFFICES ASSUME NEW q \in Procs PROVE OwnedIsAdmitted!(q)'
    BY DEF OwnedIsAdmitted
  <2>1. CASE q = p
    BY <2>1, <1>1, <1>2, <1>3, <1>4, <1>6 DEF OwnedIsAdmitted, Owned, Admitted
  <2>2. CASE q # p
    BY <2>2, <1>2, <1>3 DEF Parts, OwnedIsAdmitted, Owned, Admitted
  <2> QED BY <2>1, <2>2
<1>9. JournalOfOneGroup' /\ DebounceIsFresh' /\ CompletedWasAnswered'
  BY <1>3 DEF Parts, JournalOfOneGroup, DebounceIsFresh, CompletedWasAnswered, Admitted
<1>10. JournalsQueued'
  BY <1>2, <1>3 DEF Parts, JournalsQueued
<1>11. ReplaySound'
  BY <1>2, <1>3 DEF Parts, ReplaySound, Settled, Admitted
<1> QED BY <1>7, <1>8, <1>9, <1>10, <1>11 DEF Parts

LEMMA HandlerReturnsParts ==
    ASSUME TypeOK, Parts, NEW p \in Procs, HandlerReturns(p)
    PROVE  Parts'
<1>1. /\ \A q \in Procs : q # p => proc'[q] = proc[q]
      /\ proc'[p].pc = "completing" /\ proc'[p].conv = proc[p].conv
      /\ proc'[p].todo = proc[p].batch /\ proc'[p].leader = proc[p].leader
      /\ proc'[p].replaying = proc[p].replaying
      /\ proc[p].pc = "handling"
      /\ UNCHANGED <<file, journal>>
  BY DEF HandlerReturns, TypeOK, Worker
<1>2. proc[p].replaying = None
  BY <1>1 DEF Parts, ReplaySound
<1>3. \A d \in Work : answered'[d] # answered[d] => answered'[d] # "no"
  BY DEF HandlerReturns
<1>4. \A d \in proc[p].batch : answered'[d] # "no"
  BY DEF HandlerReturns, TypeOK, Worker
<1>5. LocksExclusive'
  BY <1>1 DEF Parts, LocksExclusive, Holds
<1>6. OwnedIsAdmitted'
  <2> SUFFICES ASSUME NEW q \in Procs PROVE OwnedIsAdmitted!(q)'
    BY DEF OwnedIsAdmitted
  <2>1. CASE q = p
    BY <2>1, <1>1, <1>4 DEF Parts, OwnedIsAdmitted, Owned, Admitted
  <2>2. CASE q # p
    <3>1. proc[q].todo \subseteq Work
      BY DEF TypeOK, Worker
    <3> QED BY <3>1, <2>2, <1>1, <1>3 DEF Parts, OwnedIsAdmitted, Owned, Admitted
  <2> QED BY <2>1, <2>2
<1>7. JournalOfOneGroup' /\ DebounceIsFresh' /\ CompletedWasAnswered'
  BY <1>1, <1>3 DEF Parts, JournalOfOneGroup, DebounceIsFresh, CompletedWasAnswered, Admitted
<1>8. JournalsQueued'
  BY <1>1 DEF Parts, JournalsQueued
<1>9. ReplaySound'
  BY <1>1, <1>2 DEF Parts, ReplaySound, Settled, Admitted
<1> QED BY <1>5, <1>6, <1>7, <1>8, <1>9 DEF Parts

\* One member leaves the replay, failed or already failed.
LEMMA ReplayMemberParts ==
    ASSUME TypeOK, Parts, NEW p \in Procs, NEW m \in Work, ReplayMember(p, m),
           file[m].status \in {"admitted", "failed"}
    PROVE  Parts'
<1>1. /\ \A q \in Procs : q # p => proc'[q] = proc[q]
      /\ proc'[p].pc = proc[p].pc /\ proc'[p].conv = proc[p].conv
      /\ proc'[p].queue = proc[p].queue /\ proc'[p].replaying = proc[p].replaying
      /\ proc'[p].todo = proc[p].todo \ {m}
      /\ m \in proc[p].todo /\ proc[p].replaying # None
      /\ UNCHANGED <<journal, answered>>
  BY DEF ReplayMember, TypeOK, Worker, history
<1>2. /\ \A d \in Work : d # m => file'[d] = file[d]
      /\ file'[m].status = "failed"
      /\ file' = file \/ file'[m].timer = "cooldown"
  <2>1. CASE file[m].status = "failed"
    BY <2>1 DEF ReplayMember, Admitted
  <2>2. CASE file[m].status = "admitted"
    <3>1. PICK n : file' = [file EXCEPT ![m] = Failed(m, n)]
      BY <2>2 DEF ReplayMember, Admitted
    <3>2. \A k : Failed(m, k).status = "failed" /\ Failed(m, k).timer = "cooldown"
      BY DEF Failed, TypeOK, Envelope
    <3> QED BY <3>1, <3>2 DEF TypeOK
  <2> QED BY <2>1, <2>2
<1>3. proc[p].replaying \in Work /\ proc[p].pc \in {"scanning", "locked", "failing"}
  BY <1>1 DEF Parts, ReplaySound, TypeOK, Worker
<1>4. \A q \in Procs : m \notin Owned(q)
  <2>1. journal[proc[p].replaying] # {} => m \in journal[proc[p].replaying]
    BY <1>1 DEF Parts, ReplaySound
  <2>2. journal[proc[p].replaying] = {} => Settled(m)
    BY <1>1 DEF Parts, ReplaySound
  <2> QED BY <2>1, <2>2, <1>3 DEF Parts, OwnedIsAdmitted, Settled
<1>5. LocksExclusive'
  BY <1>1 DEF Parts, LocksExclusive, Holds
<1>6. OwnedIsAdmitted'
  <2> SUFFICES ASSUME NEW q \in Procs PROVE OwnedIsAdmitted!(q)'
    BY DEF OwnedIsAdmitted
  <2>0. Owned(q) \subseteq Work
    BY DEF Owned, TypeOK, Worker
  <2>1. CASE q = p
    BY <2>1, <1>1, <1>3 DEF Parts, OwnedIsAdmitted, Owned
  <2>2. CASE q # p
    BY <2>0, <2>2, <1>1, <1>2, <1>4 DEF Parts, OwnedIsAdmitted, Owned, Admitted
  <2> QED BY <2>1, <2>2
<1>7. JournalOfOneGroup'
  BY <1>1, <1>2 DEF Parts, JournalOfOneGroup, TypeOK
<1>8. DebounceIsFresh' /\ CompletedWasAnswered'
  <2>1. file[m].status = "failed" => file[m].timer # "debounce"
    BY DEF Parts, DebounceIsFresh, Admitted
  <2>2. file'[m].timer # "debounce"
    BY <2>1, <1>2
  <2> QED BY <2>2, <1>1, <1>2 DEF Parts, DebounceIsFresh, CompletedWasAnswered, Admitted
<1>9. JournalsQueued'
  BY <1>1 DEF Parts, JournalsQueued
<1>10. ReplaySound'
  <2> SUFFICES ASSUME NEW q \in Procs PROVE ReplaySound!(q)'
    BY DEF ReplaySound
  <2>1. \A d \in Work : Settled(d) => Settled(d)'
    BY <1>2 DEF Settled, Admitted
  <2>2. \A d \in Work : file[d].status # "absent" => file'[d].status # "absent"
    BY <1>2
  <2>3. \A d \in Work : file[d].status = "failed" => file'[d].status = "failed"
    BY <1>2
  <2>4. /\ proc[q].todo \subseteq Work
        /\ proc[q].replaying # None =>
             proc[q].replaying \in Work /\ journal[proc[q].replaying] \subseteq Work
    BY DEF TypeOK, Worker
  <2>5. CASE q = p
    BY <2>1, <2>2, <2>3, <2>4, <2>5, <1>1, <1>2, <1>3 DEF Parts, ReplaySound
  <2>6. CASE q # p
    <3>1. proc'[q] = proc[q] /\ journal' = journal
      BY <2>6, <1>1
    <3>2. CASE proc[q].replaying = None
      BY <3>1, <3>2 DEF Parts, ReplaySound
    <3>3. CASE proc[q].replaying # None
      <4> DEFINE l == proc[q].replaying
      <4>1. /\ \A d \in journal[l] \ proc[q].todo : file[d].status = "failed" \/ Settled(d)
            /\ journal[l] = {} => Settled(l) /\ \A d \in proc[q].todo : Settled(d)
            /\ \A d \in proc[q].todo \cup {l} : file[d].status # "absent"
            /\ proc[q].pc \in {"scanning", "locked", "failing"}
            /\ journal[l] # {} => proc[q].todo \subseteq journal[l]
        BY <3>3 DEF Parts, ReplaySound
      <4>2. /\ \A d \in journal[l] \ proc[q].todo : file'[d].status = "failed" \/ Settled(d)'
            /\ journal[l] = {} => Settled(l)' /\ \A d \in proc[q].todo : Settled(d)'
            /\ \A d \in proc[q].todo \cup {l} : file'[d].status # "absent"
        <5>1. \A d \in journal[l] : d \in Work
          BY <3>3, <2>4
        <5>2. l \in Work /\ \A d \in proc[q].todo : d \in Work
          BY <3>3, <2>4
        <5>3. \A d \in journal[l] \ proc[q].todo : file'[d].status = "failed" \/ Settled(d)'
          BY <4>1, <5>1, <2>1, <2>3
        <5>4. journal[l] = {} => Settled(l)' /\ \A d \in proc[q].todo : Settled(d)'
          BY <4>1, <5>2, <2>1, <3>1
        <5>5. \A d \in proc[q].todo \cup {l} : file'[d].status # "absent"
          BY <4>1, <5>2, <2>2
        <5> QED BY <5>3, <5>4, <5>5
      <4> QED BY <3>1, <3>3, <4>1, <4>2 DEF ReplaySound
    <3> QED BY <3>2, <3>3
  <2> QED BY <2>5, <2>6
<1> QED BY <1>5, <1>6, <1>7, <1>8, <1>9, <1>10 DEF Parts

\* The unlink: what the journal named is failed or re-armed.
LEMMA CloseJournalParts ==
    ASSUME TypeOK, Parts, NEW p \in Procs, CloseJournal(p)
    PROVE  /\ Parts'
           /\ \A m \in journal[proc[p].replaying] : file[m].status = "failed" \/ Settled(m)
<1> DEFINE l == proc[p].replaying
<1>1. /\ \A q \in Procs : q # p => proc'[q] = proc[q]
      /\ proc'[p].replaying = None
      /\ \/ proc'[p].pc = "idle"
         \/ /\ proc'[p].pc = proc[p].pc /\ proc'[p].conv = proc[p].conv
            /\ proc'[p].queue = proc[p].queue /\ proc[p].pc # "failing"
      /\ UNCHANGED <<file, answered>>
      /\ l # None /\ proc[p].todo = {}
  BY DEF CloseJournal, TypeOK, Worker, Idle, history
<1>2. l \in Work /\ proc[p].pc \in {"scanning", "locked", "failing"}
  BY <1>1 DEF Parts, ReplaySound, TypeOK, Worker
<1>3. journal'[l] = {} /\ \A k \in Work : k # l => journal'[k] = journal[k]
  BY <1>2 DEF CloseJournal, TypeOK
<1>4. \A m \in journal[l] : file[m].status = "failed" \/ Settled(m)
  BY <1>1 DEF Parts, ReplaySound
<1>5. \A m \in journal[l] \cup {l} : Settled(m)
  <2>1. \A m \in Work : file[m].status = "failed" => Settled(m)
    BY DEF Settled, Admitted
  <2>2. journal[l] \subseteq Work
    BY <1>2 DEF TypeOK
  <2>3. journal[l] = {} => Settled(l)
    BY <1>1 DEF Parts, ReplaySound
  <2>4. journal[l] # {} => l \in journal[l]
    BY <1>2 DEF Parts, JournalOfOneGroup
  <2> QED BY <2>1, <2>2, <2>3, <2>4, <1>4
<1>6. LocksExclusive'
  BY <1>1 DEF Parts, LocksExclusive, Holds
<1>7. OwnedIsAdmitted'
  <2> SUFFICES ASSUME NEW q \in Procs PROVE OwnedIsAdmitted!(q)'
    BY DEF OwnedIsAdmitted
  <2>1. UNION {journal'[k] : k \in Work} \subseteq UNION {journal[k] : k \in Work}
    BY <1>3
  <2>2. CASE q = p
    BY <2>2, <1>1, <1>2 DEF Parts, OwnedIsAdmitted, Owned
  <2>3. CASE q # p
    BY <2>1, <2>3, <1>1 DEF Parts, OwnedIsAdmitted, Owned, Admitted
  <2> QED BY <2>2, <2>3
<1>8. JournalOfOneGroup' /\ DebounceIsFresh' /\ CompletedWasAnswered'
  BY <1>1, <1>3 DEF Parts, JournalOfOneGroup, DebounceIsFresh, CompletedWasAnswered, Admitted
<1>9. JournalsQueued'
  BY <1>1, <1>2, <1>3 DEF Parts, JournalsQueued
<1>10. ReplaySound'
  <2> SUFFICES ASSUME NEW q \in Procs, q # p, proc[q].replaying # None
               PROVE  ReplaySound!(q)'
    BY <1>1, <1>2 DEF Parts, ReplaySound
  <2>1. \A d \in Work : Settled(d)' = Settled(d)
    BY <1>1 DEF Settled, Admitted
  <2>2. proc[q].todo \subseteq Work /\ proc[q].replaying \in Work
    BY DEF TypeOK, Worker
  <2>3. CASE proc[q].replaying # l
    BY <2>1, <2>2, <2>3, <1>1, <1>3 DEF Parts, ReplaySound, TypeOK
  <2>4. CASE proc[q].replaying = l
    BY <2>1, <2>2, <2>4, <1>1, <1>3, <1>5 DEF Parts, ReplaySound
  <2> QED BY <2>3, <2>4
<1> QED BY <1>4, <1>6, <1>7, <1>8, <1>9, <1>10 DEF Parts

\* The three ways a handler failure is recorded.
LEMMA HandlerFailsParts ==
    ASSUME TypeOK, Parts, NEW p \in Procs, NEW retryable \in BOOLEAN,
           HandlerFails(p, retryable)
    PROVE  Parts'
<1> DEFINE l == proc[p].leader
           batch == proc[p].batch
<1>1. /\ proc[p].pc = "handling" /\ proc[p].replaying = None
      /\ l \in batch /\ batch \subseteq Work /\ batch # {}
      /\ proc[p].conv \in {Conv[d] : d \in Work}
      /\ \A d \in batch : /\ Admitted(d) /\ Conv[d] = proc[p].conv
                          /\ file[d].timer # "debounce"
                          /\ d \notin UNION {journal[k] : k \in Work}
      /\ UNCHANGED answered
  BY DEF HandlerFails, Parts, ReplaySound, OwnedIsAdmitted, Owned, TypeOK, Worker
<1>2. /\ journal[l] = {}
      /\ \A k \in Work : l \notin journal[k]
      /\ \A d \in batch : ~Settled(d)
  <2>1. \A k \in Work : l \notin journal[k]
    BY <1>1
  <2> QED BY <2>1, <1>1 DEF Parts, JournalOfOneGroup, Settled
<1>3. \A q \in Procs : q # p => Owned(q) \cap batch = {} /\ Owned(q) \subseteq Work
  <2> SUFFICES ASSUME NEW q \in Procs, q # p, NEW d \in Owned(q), d \in batch PROVE FALSE
    BY DEF Owned, TypeOK, Worker
  <2>1. Conv[d] = proc[q].conv /\ Conv[d] = proc[p].conv
    BY <1>1 DEF Parts, OwnedIsAdmitted
  <2>2. proc[q].pc \in {"handling", "completing"}
    BY DEF Owned
  <2> QED BY <2>1, <2>2, <1>1 DEF Parts, LocksExclusive, Holds
\* No replay in progress has a member of the batch in its hands.
<1>4. \A q \in Procs : proc[q].replaying # None =>
        /\ proc[q].replaying # l
        /\ proc[q].todo \cap batch = {}
        /\ journal[proc[q].replaying] \cap batch = {}
        /\ proc[q].replaying \notin batch
  <2> SUFFICES ASSUME NEW q \in Procs, proc[q].replaying # None
               PROVE  /\ proc[q].replaying # l
                      /\ proc[q].todo \cap batch = {}
                      /\ journal[proc[q].replaying] \cap batch = {}
                      /\ proc[q].replaying \notin batch
    OBVIOUS
  <2>1. proc[q].replaying \in Work
    BY DEF TypeOK, Worker
  <2>2. CASE journal[proc[q].replaying] = {}
    BY <2>1, <2>2, <1>1, <1>2 DEF Parts, ReplaySound
  <2>3. CASE journal[proc[q].replaying] # {}
    BY <2>1, <2>3, <1>1, <1>2 DEF Parts, ReplaySound, JournalOfOneGroup
  <2> QED BY <2>2, <2>3
<1>5. CASE batch # {l} /\ Exhausted(l, retryable)
  <2>1. /\ \A q \in Procs : q # p => proc'[q] = proc[q]
        /\ proc'[p].pc = "failing" /\ proc'[p].replaying = l /\ proc'[p].todo = batch
        /\ proc'[p].conv = proc[p].conv
        /\ file' = file
        /\ journal'[l] = batch /\ \A k \in Work : k # l => journal'[k] = journal[k]
    <3>1. /\ file' = file
          /\ journal' = [journal EXCEPT ![l] = batch]
          /\ proc' = [proc EXCEPT ![p] = [@ EXCEPT !.pc = "failing", !.replaying = l,
                                                   !.todo = batch]]
      BY <1>5 DEF HandlerFails
    <3>2. /\ proc \in [Procs -> Worker] /\ journal \in [Work -> SUBSET Work]
          /\ proc[p] \in Worker /\ l \in Work
      BY <1>1 DEF TypeOK
    <3>3. /\ \A q \in Procs : q # p => proc'[q] = proc[q]
          /\ proc'[p] = [proc[p] EXCEPT !.pc = "failing", !.replaying = l, !.todo = batch]
      BY <3>1, <3>2
    <3>4. /\ proc'[p].pc = "failing" /\ proc'[p].replaying = l /\ proc'[p].todo = batch
          /\ proc'[p].conv = proc[p].conv
      BY <3>2, <3>3 DEF Worker
    <3> QED BY <3>1, <3>2, <3>3, <3>4
  <2>2. LocksExclusive'
    BY <2>1, <1>1 DEF Parts, LocksExclusive, Holds
  <2>3. OwnedIsAdmitted'
    <3> SUFFICES ASSUME NEW q \in Procs PROVE OwnedIsAdmitted!(q)'
      BY DEF OwnedIsAdmitted
    <3>1. CASE q = p
      BY <3>1, <2>1, <1>1 DEF OwnedIsAdmitted, Owned
    <3>2. CASE q # p
      <4>1. Owned(q)' = Owned(q)
        BY <3>2, <2>1 DEF Owned
      <4>2. \A d \in Owned(q) : d \notin UNION {journal'[k] : k \in Work}
        BY <3>2, <2>1, <1>3 DEF Parts, OwnedIsAdmitted
      <4> QED BY <4>1, <4>2, <3>2, <2>1, <1>1 DEF Parts, OwnedIsAdmitted, Admitted
    <3> QED BY <3>1, <3>2
  <2>4. JournalOfOneGroup'
    BY <2>1, <1>1 DEF Parts, JournalOfOneGroup, Admitted
  <2>5. DebounceIsFresh' /\ CompletedWasAnswered'
    BY <2>1, <1>1 DEF Parts, DebounceIsFresh, CompletedWasAnswered, Admitted
  <2>6. JournalsQueued'
    <3> SUFFICES ASSUME NEW q \in Procs, NEW k \in Work, proc'[q].pc = "locked",
                        journal'[k] # {}, Conv[k] = proc'[q].conv
                 PROVE  k \in proc'[q].queue \/ k = proc'[q].replaying
      BY DEF JournalsQueued
    <3>1. q # p /\ proc'[q] = proc[q]
      BY <2>1
    <3>2. k # l
      BY <3>1, <1>1 DEF Parts, LocksExclusive, Holds
    <3> QED BY <3>1, <3>2, <2>1 DEF Parts, JournalsQueued
  <2>7. ReplaySound'
    <3> SUFFICES ASSUME NEW q \in Procs PROVE ReplaySound!(q)'
      BY DEF ReplaySound
    <3>1. \A d \in Work : Settled(d)' = Settled(d)
      BY <2>1 DEF Settled, Admitted
    <3>2. CASE q = p
      <4>1. proc'[p].todo = journal'[l] /\ journal'[l] # {}
        BY <2>1, <1>1
      <4>2. \A d \in batch : file'[d].status = "admitted"
        BY <2>1, <1>1 DEF Admitted
      <4>3. l # None
        BY <1>1, InboxAssumption
      <4> QED BY <3>2, <4>1, <4>2, <4>3, <2>1, <1>1 DEF ReplaySound
    <3>3. CASE q # p
      <4>1. proc'[q] = proc[q]
        BY <3>3, <2>1
      <4>2. CASE proc[q].replaying = None
        BY <4>1, <4>2 DEF Parts, ReplaySound
      <4>3. CASE proc[q].replaying # None
        <5>1. proc[q].replaying \in Work /\ proc[q].todo \subseteq Work
          BY <4>3 DEF TypeOK, Worker
        <5>2. journal'[proc[q].replaying] = journal[proc[q].replaying]
          BY <5>1, <4>3, <2>1, <1>4
        <5>3. journal[proc[q].replaying] \subseteq Work
          BY <5>1 DEF TypeOK
        <5> QED BY <3>1, <4>1, <4>3, <5>1, <5>2, <5>3, <2>1 DEF Parts, ReplaySound
      <4> QED BY <4>2, <4>3
    <3> QED BY <3>2, <3>3
  <2> QED BY <2>2, <2>3, <2>4, <2>5, <2>6, <2>7 DEF Parts
<1>6. CASE batch = {l} \/ ~Exhausted(l, retryable)
  <2>1. /\ \A q \in Procs : q # p => proc'[q] = proc[q]
        /\ proc'[p].pc = "idle" /\ proc'[p].replaying = None
        /\ \A d \in Work : d # l => file'[d] = file[d]
        /\ file'[l].status \in {"admitted", "failed"}
        /\ file'[l].timer \in {"cooldown", "backoff"}
        /\ journal' = journal
    <3>1. file[l] \in Envelope /\ l \in Work
      BY <1>1 DEF TypeOK
    <3>2. \A k : Failed(l, k).status = "failed" /\ Failed(l, k).timer = "cooldown"
      BY <3>1 DEF Failed, Envelope
    <3>3. file[l].status = "admitted"
      BY <1>1 DEF Admitted
    <3>4. \/ file' = [file EXCEPT ![l] = Failed(l, NextAttempt(file[l].attempts))]
          \/ file' = [file EXCEPT ![l].attempts = NextAttempt(file[l].attempts),
                                  ![l].timer = "backoff"]
      BY <1>6 DEF HandlerFails
    <3>5. journal' = journal /\ proc' = [proc EXCEPT ![p] = Idle]
      BY <1>6 DEF HandlerFails
    <3>6. /\ \A d \in Work : d # l => file'[d] = file[d]
          /\ file'[l].status \in {"admitted", "failed"}
          /\ file'[l].timer \in {"cooldown", "backoff"}
      BY <3>1, <3>2, <3>3, <3>4 DEF TypeOK, Envelope
    <3> QED BY <3>5, <3>6 DEF TypeOK, Idle
  <2>2. LocksExclusive'
    BY <2>1 DEF Parts, LocksExclusive, Holds
  <2>3. OwnedIsAdmitted'
    <3> SUFFICES ASSUME NEW q \in Procs PROVE OwnedIsAdmitted!(q)'
      BY DEF OwnedIsAdmitted
    <3>1. CASE q = p
      BY <3>1, <2>1 DEF OwnedIsAdmitted, Owned
    <3>2. CASE q # p
      <4>1. Owned(q)' = Owned(q) /\ l \notin Owned(q) /\ Owned(q) \subseteq Work
        BY <3>2, <2>1, <1>1, <1>3 DEF Owned
      <4> QED BY <4>1, <3>2, <2>1, <1>1 DEF Parts, OwnedIsAdmitted, Admitted
    <3> QED BY <3>1, <3>2
  <2>4. JournalOfOneGroup'
    BY <2>1, <1>1, <1>2 DEF Parts, JournalOfOneGroup, TypeOK
  <2>5. DebounceIsFresh' /\ CompletedWasAnswered'
    BY <2>1, <1>1 DEF Parts, DebounceIsFresh, CompletedWasAnswered, Admitted
  <2>6. JournalsQueued'
    BY <2>1 DEF Parts, JournalsQueued
  <2>7. ReplaySound'
    <3> SUFFICES ASSUME NEW q \in Procs, q # p, proc[q].replaying # None
                 PROVE  ReplaySound!(q)'
      BY <2>1 DEF Parts, ReplaySound
    <3>1. \A d \in Work : d # l => Settled(d)' = Settled(d)
      BY <2>1 DEF Settled, Admitted
    <3>2. proc[q].replaying \in Work /\ proc[q].todo \subseteq Work
      BY DEF TypeOK, Worker
    <3>3. journal[proc[q].replaying] \subseteq Work
      BY <3>2 DEF TypeOK
    <3> QED BY <3>1, <3>2, <3>3, <2>1, <1>1, <1>4 DEF Parts, ReplaySound
  <2> QED BY <2>2, <2>3, <2>4, <2>5, <2>6, <2>7 DEF Parts
<1> QED BY <1>5, <1>6

LEMMA CompleteMemberParts ==
    ASSUME TypeOK, Parts, NEW p \in Procs, NEW m \in Work, CompleteMember(p, m)
    PROVE  Parts'
<1>1. /\ proc[p].pc = "completing" /\ m \in proc[p].todo /\ proc[p].replaying = None
      /\ proc[p].conv \in {Conv[d] : d \in Work}
      /\ Admitted(m) /\ Conv[m] = proc[p].conv /\ file[m].timer # "debounce"
      /\ \A k \in Work : m \notin journal[k]
      /\ answered[m] # "no"
      /\ UNCHANGED <<journal, answered>>
  BY DEF CompleteMember, Parts, ReplaySound, OwnedIsAdmitted, Owned, history
<1>2. /\ \A d \in Work : d # m => file'[d] = file[d]
      /\ file'[m].status = "completed" /\ file'[m].timer = "cooldown"
  BY DEF CompleteMember, TypeOK, Envelope
<1>3. /\ \A q \in Procs : q # p => proc'[q] = proc[q]
      /\ proc'[p].replaying = None
      /\ \/ proc'[p].pc = "idle"
         \/ /\ proc'[p].pc = "completing" /\ proc'[p].conv = proc[p].conv
            /\ proc'[p].todo = proc[p].todo \ {m} /\ proc'[p].leader = proc[p].leader
            /\ m # proc[p].leader
  BY <1>1 DEF CompleteMember, TypeOK, Worker, Idle
<1>4. \A q \in Procs : q # p => m \notin Owned(q)
  <2> SUFFICES ASSUME NEW q \in Procs, q # p, m \in Owned(q) PROVE FALSE
    OBVIOUS
  <2>1. Conv[m] = proc[q].conv /\ proc[q].pc \in {"handling", "completing"}
    BY DEF Parts, OwnedIsAdmitted, Owned
  <2> QED BY <2>1, <1>1 DEF Parts, LocksExclusive, Holds
<1>5. ~Settled(m)
  BY <1>1 DEF Settled
<1>6. LocksExclusive'
  BY <1>1, <1>3 DEF Parts, LocksExclusive, Holds
<1>7. OwnedIsAdmitted'
  <2> SUFFICES ASSUME NEW q \in Procs PROVE OwnedIsAdmitted!(q)'
    BY DEF OwnedIsAdmitted
  <2>1. proc[q].todo \subseteq Work /\ Owned(q) \subseteq Work
    BY DEF Owned, TypeOK, Worker
  <2>2. CASE q = p
    BY <2>1, <2>2, <1>1, <1>2, <1>3 DEF Parts, OwnedIsAdmitted, Owned, Admitted
  <2>3. CASE q # p
    <3>1. Owned(q)' = Owned(q) /\ m \notin Owned(q)
      BY <2>3, <1>3, <1>4 DEF Owned
    <3> QED BY <3>1, <2>1, <2>3, <1>1, <1>2, <1>3 DEF Parts, OwnedIsAdmitted, Admitted
  <2> QED BY <2>2, <2>3
<1>8. JournalOfOneGroup'
  BY <1>1, <1>2 DEF Parts, JournalOfOneGroup, TypeOK
<1>9. DebounceIsFresh' /\ CompletedWasAnswered'
  BY <1>1, <1>2 DEF Parts, DebounceIsFresh, CompletedWasAnswered, Admitted
<1>10. JournalsQueued'
  BY <1>1, <1>3 DEF Parts, JournalsQueued
<1>11. ReplaySound'
  <2> SUFFICES ASSUME NEW q \in Procs, q # p, proc[q].replaying # None
               PROVE  ReplaySound!(q)'
    BY <1>3 DEF Parts, ReplaySound
  <2>1. \A d \in Work : d # m => Settled(d)' = Settled(d)
    BY <1>2 DEF Settled, Admitted
  <2>2. proc[q].replaying \in Work /\ proc[q].todo \subseteq Work
    BY DEF TypeOK, Worker
  <2>3. journal[proc[q].replaying] \subseteq Work
    BY <2>2 DEF TypeOK
  <2>4. proc[q].todo \subseteq journal[proc[q].replaying] \/ journal[proc[q].replaying] = {}
    BY DEF Parts, ReplaySound
  <2> QED BY <2>1, <2>2, <2>3, <2>4, <1>1, <1>2, <1>3, <1>5 DEF Parts, ReplaySound
<1> QED BY <1>6, <1>7, <1>8, <1>9, <1>10, <1>11 DEF Parts

-----------------------------------------------------------------------------
LEMMA StepParts == TypeOK /\ Parts /\ [Next]_vars => Parts'
<1> SUFFICES ASSUME TypeOK, Parts, [Next]_vars PROVE Parts'
  OBVIOUS
<1>1. ASSUME NEW d \in Work, Admit(d) PROVE Parts'
  BY <1>1, ArriveParts, InboxAssumption DEF Admit
<1>2. ASSUME NEW d \in Work, AdmitRecovery(d) PROVE Parts'
  <2>1. CASE file[d].status = "absent" /\ Arrive(d, 1)
    BY <2>1, ArriveParts, InboxAssumption
  <2>2. CASE /\ file[d].status \in Terminal /\ file[d].recovery < MaxAdmissions
             /\ Arrive(d, file[d].recovery + 1)
    <3>1. file[d].recovery + 1 \in 0..MaxAdmissions
      BY <2>2, InboxAssumption DEF TypeOK, Envelope
    <3> QED BY <3>1, <2>2, <1>2, ArriveParts DEF AdmitRecovery
  <2> QED BY <2>1, <2>2, <1>2 DEF AdmitRecovery
<1>3. ASSUME NEW d \in Work, TimerElapses(d) PROVE Parts'
  BY <1>3, TimerParts
<1>4. ASSUME NEW p \in Procs, WorkerStep(p) PROVE Parts'
  <2>1. CASE Scan(p)
    BY <2>1, ScanParts
  <2>2. ASSUME NEW l \in Work, OpenJournal(p, l) PROVE Parts'
    BY <2>2, OpenJournalParts
  <2>3. ASSUME NEW m \in Work, ReplayMember(p, m) PROVE Parts'
    <3>1. CASE file[m].status \in {"admitted", "failed"}
      BY <3>1, <2>3, ReplayMemberParts
    <3>2. CASE file[m].status \notin {"admitted", "failed"}
      BY <3>2, <2>3, ReleaseParts DEF ReplayMember, Admitted, history
    <3> QED BY <3>1, <3>2
  <2>4. ASSUME NEW m \in Work, CompleteMember(p, m) PROVE Parts'
    BY <2>4, CompleteMemberParts
  <2>5. CASE CloseJournal(p)
    BY <2>5, CloseJournalParts
  <2>6. CASE ScanEnds(p)
    BY <2>6, ReleaseParts DEF ScanEnds, history
  <2>7. ASSUME NEW c \in {Conv[d] : d \in Work}, Lock(p, c) PROVE Parts'
    BY <2>7, LockParts
  <2>8. CASE StartHandler(p)
    BY <2>8, StartHandlerParts
  <2>9. CASE SkipGroup(p)
    BY <2>9, ReleaseParts DEF SkipGroup, history
  <2>10. CASE HandlerReturns(p)
    BY <2>10, HandlerReturnsParts
  <2>11. ASSUME NEW retryable \in BOOLEAN, HandlerFails(p, retryable) PROVE Parts'
    BY <2>11, HandlerFailsParts
  <2> QED BY <1>4, <2>1, <2>2, <2>3, <2>4, <2>5, <2>6, <2>7, <2>8, <2>9, <2>10, <2>11
          DEF WorkerStep
<1>5. ASSUME NEW p \in Procs, Crash(p) PROVE Parts'
  BY <1>5, ReleaseParts DEF Crash, history
<1>6. CASE UNCHANGED vars
  <2>1. UNCHANGED <<file, journal, proc, answered>>
    BY <1>6 DEF vars
  <2> QED BY <2>1 DEF Parts, LocksExclusive, Holds, OwnedIsAdmitted, Owned, Admitted,
                 JournalOfOneGroup, JournalsQueued, ReplaySound, Settled, DebounceIsFresh,
                 CompletedWasAnswered
<1> QED BY <1>1, <1>2, <1>3, <1>4, <1>5, <1>6 DEF Next

-----------------------------------------------------------------------------
(* The second layer of the invariant: why a superseded file never leads. *)
RankParts == /\ LaterIsOrder
             /\ LeaderOutranks
             /\ NoJournalUnderTurn
             /\ AnsweredNotFresh
             /\ StaleCovered
             /\ NoOlderReplay

\* Covers(e, d): e is the newer file that keeps a stale d from leading.
Covers(e, d) == /\ Admitted(e) /\ Conv[e] = Conv[d]
                /\ file[e].timer # "debounce" /\ Outranks(e, d)

\* Unjournalled(c): no journal of conversation c is on disk.
Unjournalled(c) == \A l \in Work : journal[l] # {} => Conv[l] # c

LEMMA StaleMeans ==
    StaleCovered <=> \A d \in Work : Stale(d) =>
        /\ \E e \in Work : Covers(e, d)
        /\ Unjournalled(Conv[d])
        /\ \A p \in Procs : InTurn(p) /\ proc[p].conv = Conv[d] => d \in Owned(p)
BY DEF StaleCovered, Covers, Unjournalled

LEMMA InitRank == Init => RankParts
BY InboxAssumption
   DEF Init, Idle, RankParts, LaterIsOrder, LeaderOutranks, NoJournalUnderTurn, InTurn,
       AnsweredNotFresh, Admitted, StaleCovered, Stale, NoOlderReplay

\* Two files never outrank each other.
LEMMA OutranksOnce ==
    ASSUME TypeOK, LaterIsOrder, NEW d \in Work, NEW e \in Work, Outranks(d, e), Outranks(e, d)
    PROVE  FALSE
<1>1. MsgId[d] \in Int /\ MsgId[e] \in Int
  BY InboxAssumption
<1> QED BY <1>1 DEF Outranks, LaterIsOrder

\* A step that hands out and answers nothing: turns go on as they were or end, no journal
\* appears, no file becomes stale, and a file of a conversation without journals that is
\* past its debounce stays so.
LEMMA KeepRank ==
    ASSUME TypeOK, RankParts, UNCHANGED <<later, answered>>,
           \A q \in Procs : InTurn(q)' => proc'[q] = proc[q],
           \A l \in Work : journal'[l] # {} => journal[l] # {},
           \A d \in Work : Stale(d)' => Stale(d),
           \A d \in Work : Admitted(d)' => Admitted(d),
           \A d \in Work : file'[d].timer = "debounce" => file[d].timer = "debounce",
           \A d \in Work : Admitted(d) /\ file[d].timer # "debounce" /\ Unjournalled(Conv[d])
                               => Admitted(d)'
    PROVE  RankParts'
<1>1. LaterIsOrder'
  BY DEF RankParts, LaterIsOrder
<1>2. \A q \in Procs : InTurn(q)' => InTurn(q) /\ Owned(q)' = Owned(q)
  BY DEF InTurn, Owned
<1>3. LeaderOutranks' /\ NoOlderReplay'
  BY DEF RankParts, LeaderOutranks, NoOlderReplay, Outranks, InTurn
<1>4. NoJournalUnderTurn'
  BY <1>2 DEF RankParts, NoJournalUnderTurn
<1>5. AnsweredNotFresh'
  BY DEF RankParts, AnsweredNotFresh
<1>6. StaleCovered'
  <2> SUFFICES ASSUME NEW d \in Work, Stale(d)'
               PROVE  /\ \E e \in Work : Covers(e, d)'
                      /\ Unjournalled(Conv[d])'
                      /\ \A p \in Procs : InTurn(p)' /\ proc'[p].conv = Conv[d]
                                              => d \in Owned(p)'
    BY DEF StaleCovered, Covers, Unjournalled
  <2>1. Stale(d)
    OBVIOUS
  <2>2. Unjournalled(Conv[d])
    BY <2>1, StaleMeans DEF RankParts
  <2>3. PICK e \in Work : Covers(e, d)
    BY <2>1, StaleMeans DEF RankParts
  <2>4. Covers(e, d)'
    BY <2>2, <2>3 DEF Covers, Outranks
  <2>5. Unjournalled(Conv[d])'
    BY <2>2 DEF Unjournalled
  <2>6. \A p \in Procs : InTurn(p)' /\ proc'[p].conv = Conv[d] => d \in Owned(p)'
    BY <1>2, <2>1, StaleMeans DEF RankParts
  <2> QED BY <2>4, <2>5, <2>6
<1> QED BY <1>1, <1>3, <1>4, <1>5, <1>6 DEF RankParts

\* What arrives starts unanswered, and was neither admitted nor in anybody's hands.
LEMMA ArriveRank ==
    ASSUME TypeOK, Parts, RankParts, NEW d \in Work, NEW n \in 0..MaxAdmissions, Arrive(d, n),
           ~Admitted(d)
    PROVE  RankParts'
<1>1. /\ \A e \in Work : e # d => file'[e] = file[e] /\ answered'[e] = answered[e]
      /\ Admitted(d)' /\ answered'[d] = "no"
      /\ UNCHANGED <<proc, journal>>
  BY DEF Arrive, TypeOK, Admitted
<1>2. \A e, f \in Work : e # d /\ f # d => (<<e, f>> \in later' <=> <<e, f>> \in later)
  BY DEF Arrive
<1>3. \A e, f \in Work : e # d /\ f # d => (Outranks(e, f)' <=> Outranks(e, f))
  BY <1>2 DEF Outranks
<1>4. \A e \in Work : e # d => (Admitted(e)' <=> Admitted(e)) /\ (Stale(e)' <=> Stale(e))
  BY <1>1 DEF Admitted, Stale
<1>5. \A p \in Procs : Owned(p)' = Owned(p) /\ d \notin Owned(p) /\ Owned(p) \subseteq Work
  BY <1>1 DEF Owned, Parts, OwnedIsAdmitted, TypeOK, Worker
<1>6. LaterIsOrder'
  <2>1. \A e \in Work : <<e, d>> \notin later'
    BY DEF Arrive
  <2> QED BY <2>1, <1>2 DEF RankParts, LaterIsOrder
<1>7. LeaderOutranks' /\ NoOlderReplay'
  <2> SUFFICES ASSUME NEW p \in Procs PROVE LeaderOutranks!(p)' /\ NoOlderReplay!(p)'
    BY DEF LeaderOutranks, NoOlderReplay
  <2>1. proc[p].pc = "handling" => proc[p].leader \in Work /\ proc[p].leader # d
    BY <1>5 DEF Parts, OwnedIsAdmitted, Owned
  <2>2. proc[p].pc = "completing" => proc[p].leader \in Work /\ proc[p].leader # d
    BY <1>5 DEF Parts, OwnedIsAdmitted, Owned
  <2>3. proc[p].pc = "handling" => proc[p].batch \subseteq Work /\ d \notin proc[p].batch
    BY <1>5 DEF Owned
  <2>4. proc[p].pc = "completing" => proc[p].todo \subseteq Work /\ d \notin proc[p].todo
    BY <1>5 DEF Owned
  <2> QED BY <2>1, <2>2, <2>3, <2>4, <1>1, <1>3
          DEF RankParts, LeaderOutranks, NoOlderReplay
<1>8. NoJournalUnderTurn'
  BY <1>1 DEF RankParts, NoJournalUnderTurn, InTurn
<1>9. AnsweredNotFresh'
  BY <1>1, <1>4 DEF RankParts, AnsweredNotFresh
<1>10. StaleCovered'
  <2> SUFFICES ASSUME NEW x \in Work, Stale(x)'
               PROVE  /\ \E e \in Work : Covers(e, x)'
                      /\ Unjournalled(Conv[x])'
                      /\ \A p \in Procs : InTurn(p)' /\ proc'[p].conv = Conv[x]
                                              => x \in Owned(p)'
    BY DEF StaleCovered, Covers, Unjournalled
  <2>1. x # d /\ Stale(x)
    BY <1>1, <1>4 DEF Stale
  <2>2. PICK e \in Work : Covers(e, x)
    BY <2>1, StaleMeans DEF RankParts
  <2>3. e # d
    BY <2>2 DEF Covers
  <2>4. Covers(e, x)'
    BY <2>1, <2>2, <2>3, <1>1, <1>3, <1>4 DEF Covers
  <2>5. Unjournalled(Conv[x])'
    BY <2>1, <1>1, StaleMeans DEF RankParts, Unjournalled
  <2>6. \A p \in Procs : InTurn(p)' /\ proc'[p].conv = Conv[x] => x \in Owned(p)'
    BY <2>1, <1>1, <1>5, StaleMeans DEF RankParts, InTurn
  <2> QED BY <2>4, <2>5, <2>6
<1> QED BY <1>6, <1>7, <1>8, <1>9, <1>10 DEF RankParts

\* The handler is given every file of the conversation, the stale ones included, and
\* leads with one that outranks them all: a stale leader would outrank what covers it.
LEMMA StartHandlerRank ==
    ASSUME TypeOK, Parts, RankParts, NEW p \in Procs, StartHandler(p)
    PROVE  RankParts'
<1> DEFINE items == Members(proc[p].conv)
<1>1. PICK d \in items :
        /\ Ready(d, items)
        /\ proc' = [proc EXCEPT ![p] = [@ EXCEPT !.pc = "handling", !.batch = items,
                                                 !.leader = d]]
  BY DEF StartHandler
<1>2. /\ \A q \in Procs : q # p => proc'[q] = proc[q]
      /\ proc'[p].pc = "handling" /\ proc'[p].conv = proc[p].conv
      /\ proc'[p].batch = items /\ proc'[p].leader = d
      /\ proc[p].pc = "locked" /\ proc[p].queue = {} /\ proc[p].replaying = None
  BY <1>1 DEF StartHandler, Listed, TypeOK, Worker
<1>3. UNCHANGED <<file, journal, answered, later>>
  BY DEF StartHandler, history
<1>4. d \in Work /\ Admitted(d) /\ Conv[d] = proc[p].conv
  BY <1>1 DEF Members
<1>5. \A e \in items \ {d} : Outranks(d, e)
  BY <1>1 DEF Ready, IsLeader
<1>6. Unjournalled(proc[p].conv)
  BY <1>2, InboxAssumption DEF Parts, JournalsQueued, Unjournalled
<1>7. \A q \in Procs : q # p => Owned(q)' = Owned(q) /\ (InTurn(q)' <=> InTurn(q))
  BY <1>2 DEF Owned, InTurn
<1>8. answered[d] # "superseded"
  <2> SUFFICES ASSUME answered[d] = "superseded" PROVE FALSE
    OBVIOUS
  <2>1. Stale(d)
    BY <1>4, <1>6 DEF Stale, Unjournalled, Parts, JournalOfOneGroup
  <2>2. PICK e \in Work : Covers(e, d)
    BY <2>1, <1>4, StaleMeans DEF RankParts
  <2>3. e \in items
    BY <2>2, <1>4 DEF Covers, Members
  <2>4. Outranks(e, d)
    BY <2>2 DEF Covers
  <2>5. e # d
    BY <2>4, <1>4, OutranksOnce DEF RankParts
  <2> QED BY <2>3, <2>4, <2>5, <1>4, <1>5, OutranksOnce DEF RankParts
<1>9. LaterIsOrder' /\ AnsweredNotFresh'
  BY <1>3 DEF RankParts, LaterIsOrder, AnsweredNotFresh, Admitted
<1>10. LeaderOutranks'
  <2> SUFFICES ASSUME NEW q \in Procs PROVE LeaderOutranks!(q)'
    BY DEF LeaderOutranks
  <2>1. CASE q = p
    BY <2>1, <1>2, <1>3, <1>5 DEF Outranks
  <2>2. CASE q # p
    BY <2>2, <1>2, <1>3 DEF RankParts, LeaderOutranks, Outranks
  <2> QED BY <2>1, <2>2
<1>11. NoOlderReplay'
  BY <1>2, <1>3, <1>8 DEF RankParts, NoOlderReplay
<1>12. NoJournalUnderTurn'
  BY <1>2, <1>3, <1>6, <1>7 DEF RankParts, NoJournalUnderTurn, Unjournalled
<1>13. StaleCovered'
  <2> SUFFICES ASSUME NEW x \in Work, Stale(x)'
               PROVE  /\ \E e \in Work : Covers(e, x)'
                      /\ Unjournalled(Conv[x])'
                      /\ \A q \in Procs : InTurn(q)' /\ proc'[q].conv = Conv[x]
                                              => x \in Owned(q)'
    BY DEF StaleCovered, Covers, Unjournalled
  <2>1. Stale(x) /\ Admitted(x)
    BY <1>3 DEF Stale, Admitted
  <2>2. \E e \in Work : Covers(e, x)'
    BY <2>1, <1>3, StaleMeans DEF RankParts, Covers, Admitted, Outranks
  <2>3. Unjournalled(Conv[x])'
    BY <2>1, <1>3, StaleMeans DEF RankParts, Unjournalled
  <2>4. \A q \in Procs : InTurn(q)' /\ proc'[q].conv = Conv[x] => x \in Owned(q)'
    <3>1. proc'[p].conv = Conv[x] => x \in Owned(p)'
      BY <2>1, <1>2 DEF Owned, Members
    <3> QED BY <3>1, <2>1, <1>2, <1>7, StaleMeans DEF RankParts
  <2> QED BY <2>2, <2>3, <2>4
<1> QED BY <1>9, <1>10, <1>11, <1>12, <1>13 DEF RankParts

\* The answer supersedes the rest of the batch; the leader covers it.
LEMMA HandlerReturnsRank ==
    ASSUME TypeOK, Parts, RankParts, NEW p \in Procs, HandlerReturns(p)
    PROVE  RankParts'
<1> DEFINE l == proc[p].leader
           batch == proc[p].batch
<1>1. /\ \A q \in Procs : q # p => proc'[q] = proc[q]
      /\ proc'[p].pc = "completing" /\ proc'[p].conv = proc[p].conv
      /\ proc'[p].todo = batch /\ proc'[p].leader = l
      /\ proc[p].pc = "handling"
      /\ UNCHANGED <<file, journal, later>>
  BY DEF HandlerReturns, TypeOK, Worker
<1>2. /\ l \in batch /\ batch \subseteq Work
      /\ \A d \in batch : /\ Admitted(d) /\ Conv[d] = proc[p].conv
                          /\ file[d].timer # "debounce"
      /\ \A d \in batch \ {l} : Outranks(l, d)
      /\ proc[p].conv \in {Conv[d] : d \in Work}
  BY <1>1 DEF Parts, OwnedIsAdmitted, Owned, TypeOK, Worker, RankParts, LeaderOutranks
<1>3. \A d \in Work : answered'[d] = IF d \notin batch THEN answered[d]
                                     ELSE IF d = l THEN "led" ELSE "superseded"
  BY DEF HandlerReturns
<1>4. Unjournalled(proc[p].conv)
  BY <1>1 DEF RankParts, NoJournalUnderTurn, InTurn, Unjournalled
<1>5. \A q \in Procs : InTurn(q)' <=> InTurn(q)
  BY <1>1 DEF InTurn
<1>6. \A q \in Procs : Owned(q)' = Owned(q)
  BY <1>1 DEF Owned
<1>7. \A q \in Procs : q # p /\ InTurn(q) => proc[q].conv # proc[p].conv
  BY <1>1, <1>2 DEF Parts, LocksExclusive, Holds, InTurn
<1>8. LaterIsOrder'
  BY <1>1 DEF RankParts, LaterIsOrder
<1>9. AnsweredNotFresh'
  BY <1>1, <1>2, <1>3 DEF RankParts, AnsweredNotFresh, Admitted
<1>10. ASSUME NEW q \in Procs, q # p, InTurn(q)
       PROVE  /\ proc[q].leader \in Work
              /\ answered'[proc[q].leader] = answered[proc[q].leader]
  <2>1. proc[q].leader \in Owned(q)
    BY <1>10 DEF Parts, OwnedIsAdmitted, Owned, InTurn
  <2>2. Conv[proc[q].leader] = proc[q].conv /\ proc[q].leader \in Work
    BY <2>1 DEF Parts, OwnedIsAdmitted, Owned, TypeOK, Worker
  <2>3. proc[q].leader \notin batch
    BY <2>2, <1>2, <1>7, <1>10
  <2> QED BY <2>2, <2>3, <1>3
<1>11. LeaderOutranks' /\ NoOlderReplay'
  <2> SUFFICES ASSUME NEW q \in Procs PROVE LeaderOutranks!(q)' /\ NoOlderReplay!(q)'
    BY DEF LeaderOutranks, NoOlderReplay
  <2>1. CASE q = p
    BY <2>1, <1>1, <1>2, <1>3 DEF Outranks
  <2>2. CASE q # p /\ ~InTurn(q)
    BY <2>2, <1>1 DEF InTurn
  <2>3. CASE q # p /\ InTurn(q)
    BY <2>3, <1>1, <1>10 DEF RankParts, LeaderOutranks, NoOlderReplay, Outranks
  <2> QED BY <2>1, <2>2, <2>3
<1>12. NoJournalUnderTurn'
  BY <1>1, <1>5 DEF RankParts, NoJournalUnderTurn
<1>13. StaleCovered'
  <2> SUFFICES ASSUME NEW x \in Work, Stale(x)'
               PROVE  /\ \E e \in Work : Covers(e, x)'
                      /\ Unjournalled(Conv[x])'
                      /\ \A q \in Procs : InTurn(q)' /\ proc'[q].conv = Conv[x]
                                              => x \in Owned(q)'
    BY DEF StaleCovered, Covers, Unjournalled
  <2>1. Admitted(x) /\ answered'[x] = "superseded" /\ \A k \in Work : x \notin journal[k]
    BY <1>1 DEF Stale, Admitted
  <2>2. CASE x \in batch
    <3>1. x # l /\ Conv[x] = proc[p].conv
      BY <2>1, <2>2, <1>2, <1>3
    <3>2. PICK e \in Work : e = l
      BY <1>2
    <3>3. Covers(e, x)'
      BY <2>2, <3>1, <3>2, <1>1, <1>2 DEF Covers, Admitted, Outranks
    <3>4. Unjournalled(Conv[x])'
      BY <3>1, <1>1, <1>4 DEF Unjournalled
    <3>5. \A q \in Procs : InTurn(q)' /\ proc'[q].conv = Conv[x] => x \in Owned(q)'
      <4> SUFFICES ASSUME NEW q \in Procs, InTurn(q)', proc'[q].conv = Conv[x]
                   PROVE  x \in Owned(q)'
        OBVIOUS
      <4>1. q = p
        <5> SUFFICES ASSUME q # p PROVE FALSE
          OBVIOUS
        <5>1. InTurn(q) /\ proc[q].conv = Conv[x]
          BY <1>1, <1>5
        <5> QED BY <5>1, <3>1, <1>7
      <4> QED BY <4>1, <2>2, <1>1 DEF Owned
    <3> QED BY <3>3, <3>4, <3>5
  <2>3. CASE x \notin batch
    <3>1. Stale(x)
      BY <2>1, <2>3, <1>3 DEF Stale
    <3>2. \E e \in Work : Covers(e, x)'
      BY <3>1, <1>1, StaleMeans DEF RankParts, Covers, Admitted, Outranks
    <3>3. Unjournalled(Conv[x])'
      BY <3>1, <1>1, StaleMeans DEF RankParts, Unjournalled
    <3>4. \A q \in Procs : InTurn(q)' /\ proc'[q].conv = Conv[x] => x \in Owned(q)'
      BY <3>1, <1>1, <1>5, <1>6, StaleMeans DEF RankParts
    <3> QED BY <3>2, <3>3, <3>4
  <2> QED BY <2>2, <2>3
<1> QED BY <1>8, <1>9, <1>11, <1>12, <1>13 DEF RankParts

\* Reconciling fails only what is settled or in a journal: neither is what covers a
\* stale file.
LEMMA ReplayMemberRank ==
    ASSUME TypeOK, Parts, RankParts, NEW p \in Procs, NEW m \in Work, ReplayMember(p, m)
    PROVE  RankParts'
<1>1. /\ \A q \in Procs : q # p => proc'[q] = proc[q]
      /\ proc[p].pc \in {"scanning", "locked", "failing"} /\ proc[p].replaying # None
      /\ ~InTurn(p)'
      /\ m \in proc[p].todo
      /\ UNCHANGED <<journal, answered, later>>
  BY DEF ReplayMember, TypeOK, Worker, Idle, history, InTurn, Parts, ReplaySound
<1>2. /\ \A d \in Work : d # m => file'[d] = file[d]
      /\ file' = file \/ (file'[m].status = "failed" /\ file'[m].timer = "cooldown")
  <2>1. CASE ~Admitted(m)
    BY <2>1 DEF ReplayMember
  <2>2. CASE Admitted(m)
    <3>1. PICK n : file' = [file EXCEPT ![m] = Failed(m, n)]
      BY <2>2 DEF ReplayMember, Admitted
    <3>2. \A k : Failed(m, k).status = "failed" /\ Failed(m, k).timer = "cooldown"
      BY DEF Failed, TypeOK, Envelope
    <3> QED BY <3>1, <3>2 DEF TypeOK
  <2> QED BY <2>1, <2>2
<1>3. Admitted(m) /\ file[m].timer # "debounce" => ~Unjournalled(Conv[m])
  <2> SUFFICES ASSUME Admitted(m), file[m].timer # "debounce" PROVE ~Unjournalled(Conv[m])
    OBVIOUS
  <2>1. ~Settled(m) /\ proc[p].replaying \in Work
    BY <1>1 DEF Settled, TypeOK, Worker
  <2>2. journal[proc[p].replaying] # {} /\ m \in journal[proc[p].replaying]
    BY <2>1, <1>1 DEF Parts, ReplaySound
  <2>3. Conv[m] = Conv[proc[p].replaying]
    BY <2>1, <2>2 DEF Parts, JournalOfOneGroup
  <2> QED BY <2>1, <2>2, <2>3 DEF Unjournalled
<1>4. \A d \in Work : /\ Admitted(d)' => Admitted(d)
                      /\ Stale(d)' => Stale(d)
                      /\ file'[d].timer = "debounce" => file[d].timer = "debounce"
  <2>1. \A d \in Work : Admitted(d)' => Admitted(d)
    BY <1>2 DEF Admitted
  <2> QED BY <2>1, <1>1, <1>2 DEF Stale
<1>5. \A d \in Work : Admitted(d) /\ file[d].timer # "debounce" /\ Unjournalled(Conv[d])
                          => Admitted(d)'
  BY <1>2, <1>3 DEF Admitted
<1>6. \A q \in Procs : InTurn(q)' => proc'[q] = proc[q]
  BY <1>1
<1> QED BY <1>1, <1>4, <1>5, <1>6, KeepRank

\* The unlink makes nothing stale: what the journal named is failed or a fresh arrival.
LEMMA CloseJournalRank ==
    ASSUME TypeOK, Parts, RankParts, NEW p \in Procs, CloseJournal(p)
    PROVE  RankParts'
<1> DEFINE l == proc[p].replaying
<1>1. /\ \A q \in Procs : q # p => proc'[q] = proc[q]
      /\ proc[p].pc \in {"scanning", "locked", "failing"}
      /\ ~InTurn(p)'
      /\ l \in Work
      /\ UNCHANGED <<file, answered, later>>
  BY DEF CloseJournal, TypeOK, Worker, Idle, history, InTurn, Parts, ReplaySound
<1>2. journal'[l] = {} /\ \A k \in Work : k # l => journal'[k] = journal[k]
  BY <1>1 DEF CloseJournal, TypeOK
<1>3. \A m \in journal[l] : file[m].status = "failed" \/ Settled(m)
  BY CloseJournalParts
<1>4. \A d \in Work : Admitted(d)' <=> Admitted(d)
  BY <1>1 DEF Admitted
<1>5. \A d \in Work : Stale(d)' => Stale(d)
  <2> SUFFICES ASSUME NEW d \in Work, Stale(d)', d \in journal[l] PROVE FALSE
    BY <1>1, <1>2, <1>4 DEF Stale
  <2>1. Admitted(d) /\ answered[d] = "superseded"
    BY <1>1, <1>4 DEF Stale
  <2>2. file[d].timer # "debounce"
    BY <2>1 DEF RankParts, AnsweredNotFresh
  <2> QED BY <2>1, <2>2, <1>3 DEF Settled, Admitted
<1>6. \A q \in Procs : InTurn(q)' => proc'[q] = proc[q]
  BY <1>1
<1>7. \A k \in Work : journal'[k] # {} => journal[k] # {}
  BY <1>2
<1> QED BY <1>1, <1>4, <1>5, <1>6, <1>7, KeepRank

\* A clock that runs out ends no admission.
LEMMA TimerRank ==
    ASSUME TypeOK, RankParts, NEW d \in Work, TimerElapses(d)
    PROVE  RankParts'
<1>1. /\ \A e \in Work : file'[e].status = file[e].status
                         /\ file'[e].timer \in {file[e].timer, "off"}
      /\ UNCHANGED <<proc, journal, answered, later>>
  BY DEF TimerElapses, TypeOK, Envelope, history
<1>2. \A e \in Work : (Admitted(e)' <=> Admitted(e)) /\ (Stale(e)' => Stale(e))
  BY <1>1 DEF Admitted, Stale
<1> QED BY <1>1, <1>2, KeepRank

\* A worker that moves without handing out, answering or writing.
LEMMA QuietRank ==
    ASSUME TypeOK, RankParts, NEW p \in Procs,
           \A q \in Procs : q # p => proc'[q] = proc[q], ~InTurn(p)',
           UNCHANGED <<file, journal, answered, later>>
    PROVE  RankParts'
<1>1. \A e \in Work : (Admitted(e)' <=> Admitted(e)) /\ (Stale(e)' => Stale(e))
  BY DEF Admitted, Stale
<1> QED BY <1>1, KeepRank

\* The group that fails becomes a journal, which takes in every stale file of the
\* conversation; a single file that fails leaves none.
LEMMA HandlerFailsRank ==
    ASSUME TypeOK, Parts, RankParts, NEW p \in Procs, NEW retryable \in BOOLEAN,
           HandlerFails(p, retryable)
    PROVE  RankParts'
<1> DEFINE l == proc[p].leader
           batch == proc[p].batch
<1>1. /\ proc[p].pc = "handling" /\ InTurn(p)
      /\ l \in batch /\ batch \subseteq Work /\ l \in Work
      /\ proc[p].conv \in {Conv[d] : d \in Work}
      /\ \A d \in batch : Admitted(d) /\ Conv[d] = proc[p].conv
      /\ UNCHANGED <<answered, later>>
  BY DEF HandlerFails, Parts, OwnedIsAdmitted, Owned, TypeOK, Worker, InTurn
<1>2. /\ \A q \in Procs : q # p => proc'[q] = proc[q]
      /\ ~InTurn(p)'
  <2>1. /\ proc \in [Procs -> Worker]
        /\ \/ proc' = [proc EXCEPT ![p] = Idle]
           \/ proc' = [proc EXCEPT ![p] = [@ EXCEPT !.pc = "failing", !.replaying = l,
                                                    !.todo = batch]]
    BY DEF HandlerFails, TypeOK
  <2>2. CASE proc' = [proc EXCEPT ![p] = Idle]
    BY <2>1, <2>2 DEF Idle, InTurn
  <2>3. CASE proc' = [proc EXCEPT ![p] = [@ EXCEPT !.pc = "failing", !.replaying = l,
                                                   !.todo = batch]]
    <3>1. proc[p] \in Worker
      BY <2>1
    <3>2. /\ \A q \in Procs : q # p => proc'[q] = proc[q]
          /\ proc'[p] = [proc[p] EXCEPT !.pc = "failing", !.replaying = l, !.todo = batch]
      BY <2>1, <2>3
    <3>3. proc'[p].pc = "failing"
      BY <3>1, <3>2 DEF Worker
    <3> QED BY <3>2, <3>3 DEF InTurn
  <2> QED BY <2>1, <2>2, <2>3
<1>3. \A q \in Procs : InTurn(q)' => q # p /\ proc'[q] = proc[q] /\ InTurn(q)
  BY <1>2 DEF InTurn
<1>4. \A q \in Procs : InTurn(q)' => proc[q].conv # proc[p].conv
  BY <1>1, <1>3 DEF Parts, LocksExclusive, Holds, InTurn
<1>5. CASE ~Exhausted(l, retryable)
  <2>1. /\ file' = [file EXCEPT ![l].attempts = NextAttempt(file[l].attempts),
                                ![l].timer = "backoff"]
        /\ journal' = journal
    BY <1>5 DEF HandlerFails
  <2>2. \A e \in Work : /\ file'[e].status = file[e].status
                        /\ file'[e].timer \in {file[e].timer, "backoff"}
    BY <2>1, <1>1 DEF TypeOK, Envelope
  <2>3. \A e \in Work : (Admitted(e)' <=> Admitted(e)) /\ (Stale(e)' => Stale(e))
    BY <2>1, <2>2, <1>1 DEF Admitted, Stale
  <2> QED BY <2>1, <2>2, <2>3, <1>1, <1>3, KeepRank
<1>6. CASE Exhausted(l, retryable)
  <2>1. \/ file' = file /\ journal' = [journal EXCEPT ![l] = batch]
        \/ /\ batch = {l} /\ journal' = journal
           /\ \E k : file' = [file EXCEPT ![l] = Failed(l, k)]
    BY <1>6 DEF HandlerFails
  <2>2. /\ \A d \in Work : d # l => file'[d] = file[d]
        /\ file' = file \/ (file'[l].status = "failed" /\ file'[l].timer = "cooldown"
                            /\ batch = {l})
    <3>1. \A k : Failed(l, k).status = "failed" /\ Failed(l, k).timer = "cooldown"
      BY <1>1 DEF Failed, TypeOK, Envelope
    <3> QED BY <2>1, <3>1, <1>1 DEF TypeOK
  <2>3. \A k \in Work : k # l => journal'[k] = journal[k]
    BY <2>1, <1>1 DEF TypeOK
  <2>4. \A d \in Work : Admitted(d)' => Admitted(d)
    BY <2>2, <1>1 DEF Admitted
  <2>5. \A k \in Work : journal'[k] # {} => journal[k] # {} \/ k = l
    BY <2>3
  \* Nothing stale is left in the conversation.
  <2>6. \A d \in Work : Stale(d)' => Stale(d) /\ Conv[d] # proc[p].conv
    <3> SUFFICES ASSUME NEW d \in Work, Stale(d)'
                 PROVE  Stale(d) /\ Conv[d] # proc[p].conv
      OBVIOUS
    <3>1. Admitted(d) /\ answered[d] = "superseded" /\ Admitted(d)'
      BY <2>4, <1>1 DEF Stale
    <3>2. \A k \in Work : d \notin journal[k]
      <4>1. \A k \in Work : k # l => d \notin journal[k]
        BY <2>3 DEF Stale
      <4>2. d \notin journal[l]
        <5>1. journal[l] = {}
          BY <1>1 DEF RankParts, NoJournalUnderTurn
        <5> QED BY <5>1
      <4> QED BY <4>1, <4>2
    <3>3. Stale(d)
      BY <3>1, <3>2 DEF Stale
    <3>4. ASSUME Conv[d] = proc[p].conv PROVE FALSE
      <4>1. d \in batch
        BY <3>3, <3>4, <1>1, StaleMeans DEF RankParts, Owned
      <4>2. CASE journal' = [journal EXCEPT ![l] = batch]
        <5>1. journal'[l] = batch
          BY <4>2, <1>1 DEF TypeOK
        <5> QED BY <4>1, <5>1, <1>1 DEF Stale
      <4>3. CASE batch = {l} /\ \E k : file' = [file EXCEPT ![l] = Failed(l, k)]
        <5>1. \A k : Failed(l, k).status = "failed"
          BY <1>1 DEF Failed, TypeOK, Envelope
        <5>2. file'[l].status = "failed"
          BY <4>3, <5>1, <1>1 DEF TypeOK
        <5> QED BY <4>1, <4>3, <5>2, <3>1 DEF Admitted
      <4> QED BY <4>2, <4>3, <2>1
    <3> QED BY <3>3, <3>4
  <2>7. LaterIsOrder'
    BY <1>1 DEF RankParts, LaterIsOrder
  <2>8. LeaderOutranks' /\ NoOlderReplay'
    <3> SUFFICES ASSUME NEW q \in Procs PROVE LeaderOutranks!(q)' /\ NoOlderReplay!(q)'
      BY DEF LeaderOutranks, NoOlderReplay
    <3> QED BY <1>1, <1>3 DEF RankParts, LeaderOutranks, NoOlderReplay, Outranks, InTurn
  <2>9. NoJournalUnderTurn'
    BY <1>1, <1>3, <1>4, <2>5 DEF RankParts, NoJournalUnderTurn
  <2>10. AnsweredNotFresh'
    BY <2>2, <2>4, <1>1 DEF RankParts, AnsweredNotFresh
  <2>11. StaleCovered'
    <3> SUFFICES ASSUME NEW x \in Work, Stale(x)'
                 PROVE  /\ \E e \in Work : Covers(e, x)'
                        /\ Unjournalled(Conv[x])'
                        /\ \A q \in Procs : InTurn(q)' /\ proc'[q].conv = Conv[x]
                                                => x \in Owned(q)'
      BY DEF StaleCovered, Covers, Unjournalled
    <3>1. Stale(x) /\ Conv[x] # proc[p].conv
      BY <2>6
    <3>2. PICK e \in Work : Covers(e, x)
      BY <3>1, StaleMeans DEF RankParts
    <3>3. e # l
      BY <3>1, <3>2, <1>1 DEF Covers
    <3>4. Covers(e, x)'
      BY <3>2, <3>3, <2>2, <1>1 DEF Covers, Admitted, Outranks
    <3>5. Unjournalled(Conv[x])'
      BY <3>1, <2>5, <1>1, StaleMeans DEF RankParts, Unjournalled
    <3>6. \A q \in Procs : InTurn(q)' /\ proc'[q].conv = Conv[x] => x \in Owned(q)'
      <4>1. \A q \in Procs : InTurn(q)' => Owned(q)' = Owned(q)
        BY <1>3 DEF Owned
      <4> QED BY <4>1, <3>1, <1>3, StaleMeans DEF RankParts
    <3> QED BY <3>4, <3>5, <3>6
  <2> QED BY <2>7, <2>8, <2>9, <2>10, <2>11 DEF RankParts
<1> QED BY <1>5, <1>6

\* One more of the batch is closed.  What is left stale of the batch is covered by the
\* leader, which is closed last.
LEMMA CompleteMemberRank ==
    ASSUME TypeOK, Parts, RankParts, NEW p \in Procs, NEW m \in Work, CompleteMember(p, m)
    PROVE  RankParts'
<1> DEFINE l == proc[p].leader
<1>1. /\ proc[p].pc = "completing" /\ InTurn(p) /\ m \in proc[p].todo
      /\ l \in Work /\ l \in proc[p].todo
      /\ proc[p].conv \in {Conv[d] : d \in Work}
      /\ \A d \in proc[p].todo : /\ Admitted(d) /\ Conv[d] = proc[p].conv
                                 /\ file[d].timer # "debounce"
      /\ answered[l] = "led" /\ \A d \in proc[p].todo \ {l} : Outranks(l, d)
      /\ UNCHANGED <<journal, answered, later>>
  <2>1. proc[p].pc = "completing" /\ m \in proc[p].todo /\ UNCHANGED <<journal, answered, later>>
    BY DEF CompleteMember, history
  <2>2. /\ proc[p].conv \in {Conv[d] : d \in Work} /\ l \in proc[p].todo
        /\ \A d \in proc[p].todo : /\ Admitted(d) /\ Conv[d] = proc[p].conv
                                   /\ file[d].timer # "debounce"
    BY <2>1 DEF Parts, OwnedIsAdmitted, Owned
  <2>3. answered[l] = "led" /\ \A d \in proc[p].todo \ {l} : Outranks(l, d)
    BY <2>1 DEF RankParts, LeaderOutranks
  <2> QED BY <2>1, <2>2, <2>3 DEF InTurn, TypeOK, Worker
<1>2. /\ \A d \in Work : d # m => file'[d] = file[d]
      /\ file'[m].status = "completed" /\ file'[m].timer = "cooldown"
  BY DEF CompleteMember, TypeOK, Envelope
<1>3. /\ \A q \in Procs : q # p => proc'[q] = proc[q]
      /\ \/ proc'[p].pc = "idle" /\ proc[p].todo = {m}
         \/ /\ proc'[p].pc = "completing" /\ proc'[p].conv = proc[p].conv
            /\ proc'[p].todo = proc[p].todo \ {m} /\ proc'[p].leader = l
            /\ m # l
  <2>1. proc[p] \in Worker /\ proc \in [Procs -> Worker]
    BY DEF TypeOK
  <2> QED BY <2>1, <1>1 DEF CompleteMember, Worker, Idle
<1>4. \A d \in Work : /\ Admitted(d)' => Admitted(d) /\ d # m
                      /\ Stale(d)' => Stale(d) /\ d # m
  <2>1. \A d \in Work : Admitted(d)' => Admitted(d) /\ d # m
    BY <1>2 DEF Admitted
  <2> QED BY <2>1, <1>1 DEF Stale
<1>5. \A q \in Procs : InTurn(q)' => InTurn(q) /\ proc'[q].conv = proc[q].conv
  BY <1>3, <1>1 DEF InTurn
<1>6. LaterIsOrder'
  BY <1>1 DEF RankParts, LaterIsOrder
<1>7. LeaderOutranks' /\ NoOlderReplay'
  <2> SUFFICES ASSUME NEW q \in Procs PROVE LeaderOutranks!(q)' /\ NoOlderReplay!(q)'
    BY DEF LeaderOutranks, NoOlderReplay
  <2>1. CASE q = p
    BY <2>1, <1>1, <1>3 DEF Outranks
  <2>2. CASE q # p
    BY <2>2, <1>1, <1>3 DEF RankParts, LeaderOutranks, NoOlderReplay, Outranks
  <2> QED BY <2>1, <2>2
<1>8. NoJournalUnderTurn'
  BY <1>1, <1>5 DEF RankParts, NoJournalUnderTurn
<1>9. AnsweredNotFresh'
  BY <1>1, <1>2, <1>4 DEF RankParts, AnsweredNotFresh
<1>10. StaleCovered'
  <2> SUFFICES ASSUME NEW x \in Work, Stale(x)'
               PROVE  /\ \E e \in Work : Covers(e, x)'
                      /\ Unjournalled(Conv[x])'
                      /\ \A q \in Procs : InTurn(q)' /\ proc'[q].conv = Conv[x]
                                              => x \in Owned(q)'
    BY DEF StaleCovered, Covers, Unjournalled
  <2>1. Stale(x) /\ x # m
    BY <1>4
  <2>2. Unjournalled(Conv[x])'
    BY <2>1, <1>1, StaleMeans DEF RankParts, Unjournalled
  <2>3. \A q \in Procs : InTurn(q)' /\ proc'[q].conv = Conv[x] => x \in Owned(q)'
    <3> SUFFICES ASSUME NEW q \in Procs, InTurn(q)', proc'[q].conv = Conv[x]
                 PROVE  x \in Owned(q)'
      OBVIOUS
    <3>1. x \in Owned(q)
      BY <2>1, <1>5, StaleMeans DEF RankParts
    <3>2. CASE q = p
      BY <3>1, <3>2, <2>1, <1>1, <1>3 DEF Owned, InTurn
    <3>3. CASE q # p
      BY <3>1, <3>3, <1>3 DEF Owned
    <3> QED BY <3>2, <3>3
  <2>4. CASE Conv[x] # proc[p].conv
    <3>1. PICK e \in Work : Covers(e, x)
      BY <2>1, StaleMeans DEF RankParts
    <3>2. e # m
      BY <3>1, <2>4, <1>1 DEF Covers
    <3>3. Covers(e, x)'
      BY <3>1, <3>2, <1>1, <1>2 DEF Covers, Admitted, Outranks
    <3> QED BY <3>3, <2>2, <2>3
  <2>5. CASE Conv[x] = proc[p].conv
    <3>1. x \in proc[p].todo
      BY <2>1, <2>5, <1>1, StaleMeans DEF RankParts, Owned
    <3>2. x # l
      BY <2>1, <1>1 DEF Stale
    <3>3. PICK e \in Work : e = l
      BY <1>1
    <3>4. e # m
      BY <3>1, <3>3, <2>1, <1>3
    <3>5. Covers(e, x)
      BY <3>1, <3>2, <3>3, <2>5, <1>1 DEF Covers
    <3>6. Covers(e, x)'
      BY <3>4, <3>5, <1>1, <1>2 DEF Covers, Admitted, Outranks
    <3> QED BY <3>6, <2>2, <2>3
  <2> QED BY <2>4, <2>5
<1> QED BY <1>6, <1>7, <1>8, <1>9, <1>10 DEF RankParts

LEMMA StepRank == TypeOK /\ Parts /\ RankParts /\ [Next]_vars => RankParts'
<1> SUFFICES ASSUME TypeOK, Parts, RankParts, [Next]_vars PROVE RankParts'
  OBVIOUS
<1>1. ASSUME NEW d \in Work, Admit(d) PROVE RankParts'
  BY <1>1, ArriveRank, InboxAssumption DEF Admit, Admitted
<1>2. ASSUME NEW d \in Work, AdmitRecovery(d) PROVE RankParts'
  <2>1. CASE file[d].status = "absent" /\ Arrive(d, 1)
    BY <2>1, ArriveRank, InboxAssumption DEF Admitted
  <2>2. CASE /\ file[d].status \in Terminal /\ file[d].recovery < MaxAdmissions
             /\ Arrive(d, file[d].recovery + 1)
    <3>1. file[d].recovery + 1 \in 0..MaxAdmissions /\ ~Admitted(d)
      BY <2>2, InboxAssumption DEF TypeOK, Envelope, Admitted, Terminal
    <3> QED BY <3>1, <2>2, ArriveRank
  <2> QED BY <2>1, <2>2, <1>2 DEF AdmitRecovery
<1>3. ASSUME NEW d \in Work, TimerElapses(d) PROVE RankParts'
  BY <1>3, TimerRank
<1>4. ASSUME NEW p \in Procs, WorkerStep(p) \/ Crash(p) PROVE RankParts'
  <2> USE DEF history, InTurn
  <2>1. CASE Scan(p) \/ ScanEnds(p) \/ SkipGroup(p) \/ Crash(p)
    <3>1. /\ \A q \in Procs : q # p => proc'[q] = proc[q]
          /\ proc'[p].pc \in {"idle", "scanning"}
          /\ UNCHANGED <<file, journal, answered, later>>
      <4>1. CASE Scan(p)
        BY <4>1 DEF Scan, TypeOK, Idle
      <4>2. CASE ScanEnds(p)
        BY <4>2 DEF ScanEnds, TypeOK, Idle
      <4>3. CASE SkipGroup(p)
        BY <4>3 DEF SkipGroup, TypeOK, Idle
      <4>4. CASE Crash(p)
        BY <4>4 DEF Crash, TypeOK, Idle
      <4> QED BY <2>1, <4>1, <4>2, <4>3, <4>4
    <3> QED BY <3>1, QuietRank
  <2>2. ASSUME NEW l \in Work, OpenJournal(p, l) PROVE RankParts'
    <3>1. /\ \A q \in Procs : q # p => proc'[q] = proc[q]
          /\ proc'[p].pc \in {"scanning", "locked"}
          /\ UNCHANGED <<file, journal, answered, later>>
      BY <2>2 DEF OpenJournal, TypeOK, Worker
    <3> QED BY <3>1, QuietRank
  <2>3. ASSUME NEW m \in Work, ReplayMember(p, m) PROVE RankParts'
    BY <2>3, ReplayMemberRank
  <2>4. ASSUME NEW m \in Work, CompleteMember(p, m) PROVE RankParts'
    BY <2>4, CompleteMemberRank
  <2>5. CASE CloseJournal(p)
    BY <2>5, CloseJournalRank
  <2>6. ASSUME NEW c \in {Conv[d] : d \in Work}, Lock(p, c) PROVE RankParts'
    BY <2>6, QuietRank DEF Lock, TypeOK, Idle
  <2>7. CASE StartHandler(p)
    BY <2>7, StartHandlerRank
  <2>8. CASE HandlerReturns(p)
    BY <2>8, HandlerReturnsRank
  <2>9. ASSUME NEW retryable \in BOOLEAN, HandlerFails(p, retryable) PROVE RankParts'
    BY <2>9, HandlerFailsRank
  <2> QED BY <1>4, <2>1, <2>2, <2>3, <2>4, <2>5, <2>6, <2>7, <2>8, <2>9 DEF WorkerStep
<1>5. CASE UNCHANGED vars
  <2>1. UNCHANGED <<file, journal, proc, answered, later>>
    BY <1>5 DEF vars
  <2>2. \A e \in Work : (Admitted(e)' <=> Admitted(e)) /\ (Stale(e)' => Stale(e))
    BY <2>1 DEF Admitted, Stale
  <2> QED BY <2>1, <2>2, KeepRank
<1> QED BY <1>1, <1>2, <1>3, <1>4, <1>5 DEF Next

\* Type correctness of every reachable state.
THEOREM TypeCorrect == Spec => []TypeOK
BY InitType, StepType, PTL DEF Spec

\* The inductive invariant: locks, journals and replays of chatwoot_inbox.py keep their
\* discipline for any number of processes, files and crashes.
THEOREM InvariantHolds == Spec => []IInv
<1>1. Init => TypeOK /\ Parts /\ RankParts
  BY InitType, InitParts, InitRank
<1>2. TypeOK /\ Parts /\ RankParts /\ [Next]_vars => (TypeOK /\ Parts /\ RankParts)'
  BY StepType, StepParts, StepRank
<1>3. TypeOK /\ Parts /\ RankParts => IInv
  BY DEF IInv, Parts, RankParts
<1> QED BY <1>1, <1>2, <1>3, PTL DEF Spec

\* What is completed was answered since it was last admitted (run_once, complete).
THEOREM CompletedAnswered == Spec => []CompletedWasAnswered
<1>1. IInv => CompletedWasAnswered
  BY DEF IInv
<1> QED BY <1>1, InvariantHolds, PTL

\* A message that a newer one superseded in an answered batch never leads a turn
\* (run_once: the superseded members are completed first, the leader last).
THEOREM NoReplayOfOlder == Spec => []NoOlderReplay
<1>1. IInv => NoOlderReplay
  BY DEF IInv
<1> QED BY <1>1, InvariantHolds, PTL

\* Nobody finishes a message under the handler that owns it (flock in run_once).
THEOREM BatchAdmitted == Spec => []BatchStaysAdmitted
<1>1. IInv => BatchStaysAdmitted
  BY DEF IInv, BatchStaysAdmitted, OwnedIsAdmitted, Owned
<1> QED BY <1>1, InvariantHolds, PTL

\* Reconciling a journal never raises (_reconcile_group_failure).
THEOREM JournalsReplayable == Spec => []JournalReplayable
<1>1. IInv => JournalReplayable
  BY DEF IInv, JournalReplayable, Journals, JournalOfOneGroup
<1> QED BY <1>1, InvariantHolds, PTL

\* One conversation, one handler; a doomed group is not answered.
THEOREM OneHandler == Spec => []OneHandlerPerConversation
<1>1. IInv => OneHandlerPerConversation
  BY DEF IInv, OneHandlerPerConversation, LocksExclusive, Holds, OwnedIsAdmitted, Owned, Journals
<1> QED BY <1>1, InvariantHolds, PTL

\* A journal disappears only over members that are failed, or recoveries re-armed since.
THEOREM GroupFailureWhole == Spec => GroupFailsWhole
<1> DEFINE Whole == \A l \in Journals : journal'[l] = {} =>
                      \A m \in journal[l] : \/ file'[m].status = "failed"
                                            \/ m \in Recoveries /\ file[m].attempts = 0
<1>1. IInv /\ [Next]_vars => Whole
  <2> SUFFICES ASSUME IInv, [Next]_vars, NEW l \in Journals, journal'[l] = {},
                      NEW m \in journal[l]
               PROVE  file'[m].status = "failed" \/ (m \in Recoveries /\ file[m].attempts = 0)
    OBVIOUS
  <2>1. TypeOK /\ Parts /\ l \in Work /\ journal[l] # {}
    BY DEF IInv, Parts, Journals
  <2>2. \E p \in Procs : CloseJournal(p) \/ \E r \in BOOLEAN : HandlerFails(p, r)
    <3>1. journal' # journal
      BY <2>1
    <3>2. ~(UNCHANGED vars) /\ \A d \in Work : ~Admit(d) /\ ~AdmitRecovery(d) /\ ~TimerElapses(d)
      BY <3>1 DEF vars, Admit, AdmitRecovery, Arrive, TimerElapses
    <3>3. PICK p \in Procs : WorkerStep(p) \/ Crash(p)
      BY <3>2 DEF Next
    <3>4. ~Crash(p) /\ ~Scan(p) /\ ~ScanEnds(p) /\ ~StartHandler(p) /\ ~SkipGroup(p)
          /\ ~HandlerReturns(p) /\ \A c \in {Conv[d] : d \in Work} : ~Lock(p, c)
      BY <3>1 DEF Crash, Scan, ScanEnds, StartHandler, SkipGroup, HandlerReturns, Lock
    <3>5. \A d \in Work : ~OpenJournal(p, d) /\ ~ReplayMember(p, d) /\ ~CompleteMember(p, d)
      BY <3>1 DEF OpenJournal, ReplayMember, CompleteMember
    <3> QED BY <3>3, <3>4, <3>5 DEF WorkerStep
  <2>3. ASSUME NEW p \in Procs, CloseJournal(p)
        PROVE  file'[m].status = "failed" \/ (m \in Recoveries /\ file[m].attempts = 0)
    <3>1. \A k \in journal[proc[p].replaying] : file[k].status = "failed" \/ Settled(k)
      BY <2>1, <2>3, CloseJournalParts
    <3>2. l = proc[p].replaying
      BY <2>1, <2>3 DEF CloseJournal, TypeOK
    <3>3. file[m].status \in {"admitted", "failed"} /\ m \in Work
      BY <2>1 DEF Parts, JournalOfOneGroup, TypeOK
    <3>4. UNCHANGED file
      BY <2>3 DEF CloseJournal
    <3> QED BY <3>1, <3>2, <3>3, <3>4, <2>1 DEF Settled, Admitted, Parts, DebounceIsFresh
  <2>4. ASSUME NEW p \in Procs, NEW r \in BOOLEAN, HandlerFails(p, r) PROVE FALSE
    <3>1. proc[p].batch # {}
      BY <2>1, <2>4 DEF Parts, OwnedIsAdmitted, HandlerFails
    <3> QED BY <3>1, <2>1, <2>4 DEF HandlerFails, TypeOK
  <2> QED BY <2>2, <2>3, <2>4
<1>2. QED
  BY <1>1, InvariantHolds, PTL DEF Spec, GroupFailsWhole

=============================================================================
