---------------------------- MODULE ChatwootInbox ----------------------------
(***************************************************************************)
(* The durable Chatwoot inbox (src/src/bridge/chatwoot_inbox.py): one file *)
(* per webhook delivery or stalled-conversation recovery, the worker that  *)
(* groups admitted files by conversation and hands each group to the turn  *)
(* handler, the journal that fails a whole group, and the monitor that     *)
(* re-arms finished recoveries.                                            *)
(*                                                                         *)
(* A process runs one event loop: between two awaits nothing else of that  *)
(* process runs, but it may crash there, and another process (a deploy     *)
(* overlapping the old one) may take steps.  The only await of the worker  *)
(* is the handler.                                                         *)
(***************************************************************************)
EXTENDS Integers, FiniteSets

CONSTANTS
    Work,           \* identities of work files: webhook deliveries and recoveries
    Recoveries,     \* those made by the stalled monitor, `stalled-chatwoot:<c>:<m>'
    Conv,           \* Conv[d]: the debounce key of d's payload
    MsgId,          \* MsgId[d]: Chatwoot's message id in d's payload (-1: none)
    Procs,          \* processes running the bridge over one work directory
    MaxAttempts,    \* 8 in the code: attempts an ordinary error is given
    MaxAdmissions,  \* recovery_max_admissions
    MaxCrashes      \* bound of the model: crashes explored

None == "none"      \* no leader, no conversation

ASSUME InboxAssumption ==
    /\ IsFiniteSet(Work)
    /\ None \notin Work
    /\ Recoveries \subseteq Work
    /\ DOMAIN Conv = Work
    /\ MsgId \in [Work -> Int]
    /\ MaxAttempts \in Nat \ {0}
    /\ MaxAdmissions \in Nat \ {0}
    /\ MaxCrashes \in Nat

VARIABLES
    file,       \* file[d]: the envelope in <sha256(d)>.json
    later,      \* <<d, e>>: d was admitted (admitted_at) after e
    journal,    \* journal[l]: member_files of .group-failure-<l>.json, {} if absent
    proc,       \* proc[p]: where the worker of process p stands
    crashes,    \* crashes so far
    answered    \* history: how d's last admission was covered by a handler that returned

vars == <<file, later, journal, proc, crashes, answered>>
history == <<answered>>

Status == {"absent", "admitted", "completed", "failed"}

\* The one clock of an envelope that still runs: admitted_at + debounce,
\* next_attempt_at, or terminal_at + cooldown.
Timer == {"off", "debounce", "backoff", "cooldown"}

Envelope == [status : Status, attempts : 0..MaxAttempts, timer : Timer,
             recovery : 0..MaxAdmissions]

Idle == [pc |-> "idle", conv |-> None, batch |-> {}, leader |-> None,
         queue |-> {}, replaying |-> None, todo |-> {}]

Worker == [pc : {"idle", "scanning", "locked", "handling", "completing", "failing"},
           conv : {Conv[d] : d \in Work} \cup {None},
           batch : SUBSET Work, leader : Work \cup {None},
           queue : SUBSET Work, replaying : Work \cup {None}, todo : SUBSET Work]

Terminal == {"completed", "failed"}
Admitted(d) == file[d].status = "admitted"
Members(c) == {d \in Work : Admitted(d) /\ Conv[d] = c}

\* max by (canonical message id, admitted_at)
Outranks(d, e) == \/ MsgId[d] > MsgId[e]
                  \/ MsgId[d] = MsgId[e] /\ <<d, e>> \in later

IsLeader(d, items) == d \in items /\ \A e \in items \ {d} : Outranks(d, e)

\* flock is held from a successful LOCK_NB until `finally', or until the process dies.
Holds(p, c) == proc[p].pc \notin {"idle", "scanning"} /\ proc[p].conv = c

\* The event loop of p is free: its worker waits for the next poll or for the handler.
Awaiting(p) == proc[p].pc \in {"idle", "handling"}

Journals == {l \in Work : journal[l] # {}}

Init ==
    /\ file = [d \in Work |-> [status |-> "absent", attempts |-> 0, timer |-> "off",
                               recovery |-> 0]]
    /\ later = {}
    /\ journal = [d \in Work |-> {}]
    /\ proc = [p \in Procs |-> Idle]
    /\ crashes = 0
    /\ answered = [d \in Work |-> "no"]

-----------------------------------------------------------------------------
(* Admission *)

Arrive(d, recovery) ==
    /\ file' = [file EXCEPT ![d] = [status |-> "admitted", attempts |-> 0,
                                    timer |-> "debounce", recovery |-> recovery]]
    /\ later' = {q \in later : d \notin {q[1], q[2]}}
                  \cup {<<d, e>> : e \in {x \in Work \ {d} : file[x].status # "absent"}}
    /\ answered' = [answered EXCEPT ![d] = "no"]
    /\ UNCHANGED <<journal, proc, crashes>>

\* A webhook delivery.  os.link refuses an identity that has a file, whatever its
\* status: a redelivery changes nothing.
Admit(d) ==
    /\ d \notin Recoveries
    /\ \E p \in Procs : Awaiting(p)
    /\ file[d].status = "absent"
    /\ Arrive(d, 0)

\* The stalled monitor finds a candidate: first admission, or a re-arm.
AdmitRecovery(d) ==
    /\ d \in Recoveries
    /\ \E p \in Procs : Awaiting(p)
    /\ \/ file[d].status = "absent" /\ Arrive(d, 1)
       \/ /\ file[d].status \in Terminal
          /\ file[d].recovery < MaxAdmissions
          /\ file[d].timer # "cooldown"
          /\ Arrive(d, file[d].recovery + 1)

\* Timing assumption of the model: a clock of seconds (debounce, backoff) or minutes
\* (cooldown) does not run out inside a run of file writes (milliseconds).  Only a
\* recovery's cooldown is ever read.
TimerElapses(d) ==
    /\ file[d].timer # "off"
    /\ file[d].timer = "cooldown" => d \in Recoveries
    /\ \A p \in Procs : Awaiting(p)
    /\ file' = [file EXCEPT ![d].timer = "off"]
    /\ UNCHANGED <<later, journal, proc, crashes, history>>

-----------------------------------------------------------------------------
(* Replaying the group-failure journals *)

\* run_once lists the directory: journals first, the lock is not held.
Scan(p) ==
    /\ proc[p].pc = "idle"
    /\ Journals # {}
    /\ proc' = [proc EXCEPT ![p] = [Idle EXCEPT !.pc = "scanning", !.queue = Journals]]
    /\ UNCHANGED <<file, later, journal, crashes, history>>

OpenJournal(p, l) ==
    /\ proc[p].pc \in {"scanning", "locked"}
    /\ proc[p].replaying = None
    /\ l \in proc[p].queue
    /\ \/ /\ journal[l] = {}                                   \* already replayed
          /\ proc' = [proc EXCEPT ![p].queue = @ \ {l}]
       \/ /\ journal[l] # {}
          /\ proc' = [proc EXCEPT ![p].queue = @ \ {l}, ![p].replaying = l,
                                  ![p].todo = journal[l]]
    /\ UNCHANGED <<file, later, journal, crashes, history>>

Failed(d, attempts) == [file[d] EXCEPT !.status = "failed", !.attempts = attempts,
                                       !.timer = "cooldown"]
NextAttempt(n) == IF n < MaxAttempts THEN n + 1 ELSE MaxAttempts

\* Mutant: a member that is already failed makes the replay raise too.
ReplayMemberOnce(p, m) ==
    /\ m \in proc[p].todo
    /\ proc[p].replaying # None
    /\ IF Admitted(m)
         THEN /\ file' = [file EXCEPT ![m] = Failed(m, file[m].attempts)]
              /\ proc' = [proc EXCEPT ![p].todo = @ \ {m}]
         ELSE proc' = [proc EXCEPT ![p] = Idle] /\ UNCHANGED file
    /\ UNCHANGED <<later, journal, crashes, history>>

\* One member of the journal, in the order of the hashed names (arbitrary here).
\* A completed member is `invalid_group_failure_member': the iteration is abandoned.
ReplayMember(p, m) ==
    /\ m \in proc[p].todo
    /\ proc[p].replaying # None
    /\ \/ /\ file[m].status = "failed"
          /\ proc' = [proc EXCEPT ![p].todo = @ \ {m}]
          /\ UNCHANGED file
       \/ /\ Admitted(m)
          /\ file' = [file EXCEPT ![m] =
                        Failed(m, IF m = proc[p].replaying
                                    THEN NextAttempt(file[m].attempts)
                                    ELSE file[m].attempts)]
          /\ proc' = [proc EXCEPT ![p].todo = @ \ {m}]
       \/ /\ file[m].status \notin {"admitted", "failed"}
          /\ proc' = [proc EXCEPT ![p] = Idle]
          /\ UNCHANGED file
    /\ UNCHANGED <<later, journal, crashes, history>>

\* Mutant: the journal is unlinked before its members are failed.
CloseJournalEarly(p) ==
    /\ proc[p].replaying # None
    /\ journal[proc[p].replaying] # {}
    /\ journal' = [journal EXCEPT ![proc[p].replaying] = {}]
    /\ UNCHANGED <<file, later, proc, crashes, history>>

\* Every member is failed: unlink.  fail_group ends here and the lock is released;
\* a listing goes on with the next journal.
CloseJournal(p) ==
    /\ proc[p].replaying # None
    /\ proc[p].todo = {}
    /\ journal' = [journal EXCEPT ![proc[p].replaying] = {}]
    /\ \/ proc[p].pc = "failing" /\ proc' = [proc EXCEPT ![p] = Idle]
       \/ proc[p].pc # "failing" /\ proc' = [proc EXCEPT ![p].replaying = None]
    /\ UNCHANGED <<file, later, crashes, history>>

\* The scan found no group to serve after its replays.
ScanEnds(p) ==
    /\ proc[p].pc = "scanning" /\ proc[p].queue = {} /\ proc[p].replaying = None
    /\ proc' = [proc EXCEPT ![p] = Idle]
    /\ UNCHANGED <<file, later, journal, crashes, history>>

-----------------------------------------------------------------------------
(* Serving a conversation *)

\* A group seen by the scan: take its lock and list the directory again.
Lock(p, c) ==
    /\ proc[p].pc = "idle"
    /\ Members(c) # {}
    /\ \A q \in Procs : ~Holds(q, c)
    /\ proc' = [proc EXCEPT ![p] = [Idle EXCEPT !.pc = "locked", !.conv = c,
                                                !.queue = Journals]]
    /\ UNCHANGED <<file, later, journal, crashes, history>>

Listed(p) == proc[p].pc = "locked" /\ proc[p].queue = {} /\ proc[p].replaying = None

\* Leader not deferred, latest arrival past its debounce.
Ready(d, items) ==
    IsLeader(d, items) /\ file[d].timer # "backoff"
                       /\ \A e \in items : file[e].timer # "debounce"

StartHandler(p) ==
    /\ Listed(p)
    /\ LET items == Members(proc[p].conv) IN
       \E d \in items :
         /\ Ready(d, items)
         /\ proc' = [proc EXCEPT ![p] = [@ EXCEPT !.pc = "handling", !.batch = items,
                                                  !.leader = d]]
    /\ UNCHANGED <<file, later, journal, crashes, history>>

SkipGroup(p) ==
    /\ Listed(p)
    /\ LET items == Members(proc[p].conv) IN ~ \E d \in items : Ready(d, items)
    /\ proc' = [proc EXCEPT ![p] = Idle]
    /\ UNCHANGED <<file, later, journal, crashes, history>>

\* Mutant: what is closed is listed again after the handler.
HandlerReturnsRelisting(p) ==
    /\ proc[p].pc = "handling"
    /\ proc' = [proc EXCEPT ![p] = [@ EXCEPT !.pc = "completing",
                                             !.todo = Members(proc[p].conv)]]
    /\ answered' = [d \in Work |-> IF d \notin proc[p].batch THEN answered[d]
                                   ELSE IF d = proc[p].leader THEN "led" ELSE "superseded"]
    /\ UNCHANGED <<file, later, journal, crashes>>

HandlerReturns(p) ==
    /\ proc[p].pc = "handling"
    /\ proc' = [proc EXCEPT ![p] = [@ EXCEPT !.pc = "completing", !.todo = proc[p].batch]]
    /\ answered' = [d \in Work |-> IF d \notin proc[p].batch THEN answered[d]
                                   ELSE IF d = proc[p].leader THEN "led" ELSE "superseded"]
    /\ UNCHANGED <<file, later, journal, crashes>>

\* max_attempts: 1 for a recovery, none for a retryable error, else MaxAttempts.
Exhausted(d, retryable) ==
    \/ file[d].recovery > 0
    \/ ~retryable /\ file[d].attempts + 1 >= MaxAttempts

HandlerFails(p, retryable) ==
    /\ proc[p].pc = "handling"
    /\ LET l == proc[p].leader
           n == NextAttempt(file[l].attempts) IN
       \/ /\ proc[p].batch # {l} /\ Exhausted(l, retryable)      \* fail_group
          /\ journal' = [journal EXCEPT ![l] = proc[p].batch]
          /\ proc' = [proc EXCEPT ![p] = [@ EXCEPT !.pc = "failing", !.replaying = l,
                                                   !.todo = proc[p].batch]]
          /\ UNCHANGED file
       \/ /\ proc[p].batch = {l} /\ Exhausted(l, retryable)      \* record_failure
          /\ file' = [file EXCEPT ![l] = Failed(l, n)]
          /\ proc' = [proc EXCEPT ![p] = Idle]
          /\ UNCHANGED journal
       \/ /\ ~Exhausted(l, retryable)                            \* record_failure
          /\ file' = [file EXCEPT ![l].attempts = n, ![l].timer = "backoff"]
          /\ proc' = [proc EXCEPT ![p] = Idle]
          /\ UNCHANGED journal
    /\ UNCHANGED <<later, crashes, answered>>

\* Mutant: the members are completed in any order.
CompleteMemberAnyOrder(p, m) ==
    /\ proc[p].pc = "completing" /\ m \in proc[p].todo
    /\ file' = [file EXCEPT ![m].status = "completed", ![m].timer = "cooldown"]
    /\ \/ proc[p].todo # {m} /\ proc' = [proc EXCEPT ![p].todo = @ \ {m}]
       \/ proc[p].todo = {m} /\ proc' = [proc EXCEPT ![p] = Idle]
    /\ UNCHANGED <<later, journal, crashes, history>>

\* The superseded members first, one file at a time; the leader last.
CompleteMember(p, m) ==
    /\ proc[p].pc = "completing"
    /\ m \in proc[p].todo
    /\ \/ /\ m # proc[p].leader
          /\ proc' = [proc EXCEPT ![p].todo = @ \ {m}]
       \/ /\ proc[p].todo = {m}
          /\ proc' = [proc EXCEPT ![p] = Idle]
    /\ file' = [file EXCEPT ![m].status = "completed", ![m].timer = "cooldown"]
    /\ UNCHANGED <<later, journal, crashes, history>>

\* The process dies, or its worker task is cancelled inside the handler: what is on
\* disk stays, the lock is gone.
Crash(p) ==
    /\ crashes < MaxCrashes
    /\ proc[p].pc # "idle"
    /\ proc' = [proc EXCEPT ![p] = Idle]
    /\ crashes' = crashes + 1
    /\ UNCHANGED <<file, later, journal, history>>

-----------------------------------------------------------------------------
WorkerStep(p) ==
    \/ Scan(p)
    \/ \E l \in Work : OpenJournal(p, l)
    \/ \E m \in Work : ReplayMember(p, m) \/ CompleteMember(p, m)
    \/ CloseJournal(p) \/ ScanEnds(p)
    \/ \E c \in {Conv[d] : d \in Work} : Lock(p, c)
    \/ StartHandler(p)
    \/ SkipGroup(p)
    \/ HandlerReturns(p)
    \/ \E retryable \in BOOLEAN : HandlerFails(p, retryable)

Next ==
    \/ \E d \in Work : Admit(d) \/ AdmitRecovery(d) \/ TimerElapses(d)
    \/ \E p \in Procs : WorkerStep(p) \/ Crash(p)

Spec == Init /\ [][Next]_vars

\* The worker polls for ever and visits every group of its listing; clocks run;
\* an outage of the handler's dependencies ends.
Fairness ==
    /\ \A d \in Work : SF_vars(TimerElapses(d))
    /\ \A p \in Procs :
         /\ WF_vars(Scan(p))
         /\ WF_vars(\E l \in Work : OpenJournal(p, l))
         /\ WF_vars(\E m \in Work : ReplayMember(p, m) \/ CompleteMember(p, m))
         /\ WF_vars(CloseJournal(p) \/ ScanEnds(p))
         /\ WF_vars(StartHandler(p) \/ SkipGroup(p))
         /\ WF_vars(proc[p].pc = "handling" /\ WorkerStep(p))
         /\ SF_vars(HandlerReturns(p))
         /\ \A c \in {Conv[d] : d \in Work} : SF_vars(Lock(p, c))

FairSpec == Spec /\ Fairness

-----------------------------------------------------------------------------
(* Properties *)

TypeOK ==
    /\ file \in [Work -> Envelope]
    /\ later \subseteq Work \X Work
    /\ journal \in [Work -> SUBSET Work]
    /\ proc \in [Procs -> Worker]
    /\ crashes \in 0..MaxCrashes
    /\ answered \in [Work -> {"no", "led", "superseded"}]

\* A message counts as done only if a handler that was given it returned since it was
\* last admitted: nothing that arrives while a turn is being answered is closed with it.
CompletedWasAnswered ==
    \A d \in Work : file[d].status = "completed" => answered[d] # "no"

\* A message that a newer one superseded in an answered batch never leads a turn
\* afterwards, whatever crash happens between the completions: the lead is not
\* answered a second time on an older message.
NoOlderReplay ==
    \A p \in Procs : proc[p].pc = "handling" => answered[proc[p].leader] # "superseded"

\* While a turn runs its batch stays admitted: neither another process nor a journal
\* replay finishes a message under the handler that owns it.
BatchStaysAdmitted ==
    \A p \in Procs :
        /\ proc[p].pc = "handling" => \A d \in proc[p].batch : Admitted(d)
        /\ proc[p].pc = "completing" => \A d \in proc[p].todo : Admitted(d)

\* A journal can always be replayed: none of its members is absent or completed, so
\* reconciling never raises and never blocks every conversation of the inbox.
JournalReplayable ==
    \A l \in Journals : /\ l \in journal[l]
                        /\ \A m \in journal[l] : file[m].status \in {"admitted", "failed"}

\* A group failure is all or nothing: a journal disappears only when every member
\* it names is failed.  (With a second process the monitor can re-arm a recovery
\* between the replay of that member and the unlink; a webhook message never.)
GroupFailsWhole ==
    [][\A l \in Journals : journal'[l] = {} =>
            \A m \in journal[l] : \/ file'[m].status = "failed"
                                  \/ m \in Recoveries /\ file[m].attempts = 0]_vars

\* One conversation is never in two handlers, and none of a batch is in a journal that
\* is waiting to be replayed: a doomed group is not answered.
OneHandlerPerConversation ==
    \A p, q \in Procs :
        proc[p].pc = "handling" =>
            /\ p # q /\ proc[q].pc = "handling" => proc[p].conv # proc[q].conv
            /\ \A l \in Journals : proc[p].batch \cap journal[l] = {}

\* Every admitted message is eventually completed or failed, with crashes, retries and
\* re-arms in between.
EveryAdmissionEnds ==
    \A d \in Work : Admitted(d) ~> file[d].status \in Terminal

-----------------------------------------------------------------------------
(* The inductive invariant behind the safety properties *)

\* What p still has in its hands: the batch under the handler, what is left to close.
Owned(p) == IF proc[p].pc = "handling" THEN proc[p].batch
            ELSE IF proc[p].pc = "completing" THEN proc[p].todo ELSE {}

\* Two processes never hold the lock of one conversation.
LocksExclusive ==
    \A p, q \in Procs : p # q =>
        ~ \E c \in {Conv[d] : d \in Work} : Holds(p, c) /\ Holds(q, c)

\* Who holds a lock names a conversation; what p owns is admitted, of p's
\* conversation, past its debounce and in no journal.
OwnedIsAdmitted ==
    \A p \in Procs :
        /\ proc[p].pc \notin {"idle", "scanning"} =>
                proc[p].conv \in {Conv[d] : d \in Work}
        /\ proc[p].pc = "handling" => proc[p].leader \in proc[p].batch
        /\ \A d \in Owned(p) : /\ Admitted(d) /\ Conv[d] = proc[p].conv
                               /\ file[d].timer # "debounce"
                               /\ d \notin UNION {journal[l] : l \in Work}
        /\ proc[p].pc = "completing" => /\ proc[p].leader \in proc[p].todo
                                        /\ \A d \in proc[p].todo : answered[d] # "no"

\* A journal names its leader and files of one conversation, none of them completed.
JournalOfOneGroup ==
    \A l \in Work : journal[l] # {} =>
        /\ l \in journal[l]
        /\ \A m \in journal[l] : /\ Conv[m] = Conv[l]
                                 /\ file[m].status \in {"admitted", "failed"}

\* Under the lock of a conversation, its journals are still to be replayed.
JournalsQueued ==
    \A p \in Procs, l \in Work :
        proc[p].pc = "locked" /\ journal[l] # {} /\ Conv[l] = proc[p].conv =>
            l \in proc[p].queue \/ l = proc[p].replaying

\* Settled(m): m will not run again before a clock does.
Settled(m) == Admitted(m) => m \in Recoveries /\ file[m].timer = "debounce"

\* The replay of l: what it has done is settled, and all of it is if another process
\* already closed the journal.
ReplaySound ==
    \A p \in Procs :
        /\ proc[p].replaying # None => proc[p].pc \in {"scanning", "locked", "failing"}
        /\ proc[p].pc = "failing" => proc[p].replaying # None
        /\ proc[p].replaying # None =>
            LET l == proc[p].replaying IN
            /\ \A m \in journal[l] \ proc[p].todo : file[m].status = "failed" \/ Settled(m)
            /\ journal[l] = {} => Settled(l) /\ \A m \in proc[p].todo : Settled(m)
            /\ journal[l] # {} => proc[p].todo \subseteq journal[l]
            /\ \A m \in proc[p].todo \cup {l} : file[m].status # "absent"

\* A fresh arrival has no attempts.
DebounceIsFresh ==
    \A d \in Work : file[d].timer = "debounce" => file[d].attempts = 0 /\ Admitted(d)

\* Two files are never each admitted after the other.
LaterIsOrder == \A d, e \in Work : <<d, e>> \in later => <<e, d>> \notin later

\* The leader outranks the rest of its batch until the last of it is closed.
LeaderOutranks ==
    \A p \in Procs :
        /\ proc[p].pc = "handling" =>
               \A d \in proc[p].batch \ {proc[p].leader} : Outranks(proc[p].leader, d)
        /\ proc[p].pc = "completing" =>
               /\ answered[proc[p].leader] = "led"
               /\ \A d \in proc[p].todo \ {proc[p].leader} : Outranks(proc[p].leader, d)

\* No journal of a conversation waits while a turn of it runs or is closed.
InTurn(p) == proc[p].pc \in {"handling", "completing"}
NoJournalUnderTurn ==
    \A p \in Procs, l \in Work : InTurn(p) /\ journal[l] # {} => Conv[l] # proc[p].conv

\* A file that was answered since its admission is past its debounce.
AnsweredNotFresh ==
    \A d \in Work : Admitted(d) /\ answered[d] # "no" => file[d].timer # "debounce"

\* Stale(d): an answer superseded d, its file is still to be closed and no journal
\* will fail it.
Stale(d) == /\ Admitted(d) /\ answered[d] = "superseded"
            /\ \A k \in Work : d \notin journal[k]

\* A stale file has a newer one of its conversation beside it that is past its own
\* debounce, no journal of the conversation takes that one away first, and whoever
\* serves the conversation has the stale file in its hands.
StaleCovered ==
    \A d \in Work : Stale(d) =>
        /\ \E e \in Work : /\ Admitted(e) /\ Conv[e] = Conv[d]
                           /\ file[e].timer # "debounce" /\ Outranks(e, d)
        /\ \A l \in Work : journal[l] # {} => Conv[l] # Conv[d]
        /\ \A p \in Procs : InTurn(p) /\ proc[p].conv = Conv[d] => d \in Owned(p)

IInv ==
    /\ TypeOK
    /\ LocksExclusive
    /\ OwnedIsAdmitted
    /\ JournalOfOneGroup
    /\ JournalsQueued
    /\ ReplaySound
    /\ DebounceIsFresh
    /\ CompletedWasAnswered
    /\ LaterIsOrder
    /\ LeaderOutranks
    /\ NoJournalUnderTurn
    /\ AnsweredNotFresh
    /\ StaleCovered
    /\ NoOlderReplay

=============================================================================
