------------------------ MODULE FollowupEngineProofs ------------------------
(* Proofs about FollowupEngine for every number of dispatchers, messages,    *)
(* retries, repetitions, handoffs and claims.                                *)
EXTENDS FollowupEngine, TLAPS

\* What the type invariant says of single components.
LEMMA Typed ==
    ASSUME TypeOK
    PROVE  /\ rc \in Case /\ rc.status \in CaseStatus /\ rc.version \in Nat
           /\ seq \in Sequence /\ seq.status \in SeqStatus
           /\ seq.revision \in Nat /\ seq.accepted \in Nat
           /\ act \in [Action -> ScheduledAction]
           /\ att \in [Action -> [Gen -> Attempt]]
           /\ wk \in [Worker -> Dispatcher]
           /\ \A i \in Action : act[i] \in ScheduledAction /\ att[i] \in [Gen -> Attempt]
           /\ \A i \in Action, g \in Gen : att[i][g] \in Attempt
           /\ \A w \in Worker : /\ wk[w] \in Dispatcher
                                /\ wk[w].action \in Action /\ wk[w].gen \in Gen
                                /\ wk[w].version \in Nat /\ wk[w].revision \in Nat
BY DEF TypeOK, Case, Sequence, Dispatcher

LEMMA Idles == Idle \in Dispatcher
<1>1. 1 \in Action /\ 1 \in Gen
  BY EngineAssumption DEF Action, Gen
<1> QED BY <1>1 DEF Idle, Dispatcher

LEMMA NewActions ==
    /\ NoAction \in ScheduledAction
    /\ \A v \in Nat : /\ NewAction(v) \in ScheduledAction
                      /\ NewAction(v).status = "pending" /\ NewAction(v).owner = None
    /\ \A v \in Nat, s \in {"pending", "cancelled"} :
          /\ [NewAction(v) EXCEPT !.status = s] \in ScheduledAction
          /\ [NewAction(v) EXCEPT !.status = s].status = s
          /\ [NewAction(v) EXCEPT !.status = s].owner = None
<1>1. 0 \in 0..MaxGen
  BY EngineAssumption
<1>2. NoAction \in ScheduledAction
  BY <1>1 DEF NoAction, ScheduledAction
<1>3. ASSUME NEW v \in Nat
      PROVE  /\ NewAction(v) \in ScheduledAction
             /\ NewAction(v).status = "pending" /\ NewAction(v).owner = None
  BY <1>1 DEF NewAction, NoAction, ScheduledAction, Live, Claimable
<1>4. ASSUME NEW v \in Nat, NEW s \in {"pending", "cancelled"}
      PROVE  /\ [NewAction(v) EXCEPT !.status = s] \in ScheduledAction
             /\ [NewAction(v) EXCEPT !.status = s].status = s
             /\ [NewAction(v) EXCEPT !.status = s].owner = None
  BY <1>1 DEF NewAction, NoAction, ScheduledAction, Live, Claimable, Terminal
<1> QED BY <1>2, <1>3, <1>4

LEMMA InitType == Init => TypeOK
<1> SUFFICES ASSUME Init PROVE TypeOK
  OBVIOUS
<1>1. rc \in Case /\ seq \in Sequence
  BY DEF Init, Case, Sequence, CaseStatus, SeqStatus
<1>2. act \in [Action -> ScheduledAction]
  BY NewActions DEF Init
<1>3. NoAttempt \in Attempt
  BY DEF NoAttempt, Attempt
<1>4. att \in [Action -> [Gen -> Attempt]]
  BY <1>3 DEF Init
<1>5. wk \in [Worker -> Dispatcher]
  BY Idles DEF Init
<1>6. /\ optOut \in {"none", "unmatched", "applied"}
      /\ purchase \in {"none", "known", "other_offer", "ambiguous", "applied"}
      /\ conversation \in {"none", "open", "paused"}
      /\ replied \in {"never", "after_anchor", "before_anchor"}
  BY DEF Init
<1>7. timeUp \in BOOLEAN
  BY DEF Init
<1>8. repeats \in 0..MaxRepeats /\ handoffs \in 0..MaxHandoffs
  BY EngineAssumption DEF Init
<1> QED BY <1>1, <1>2, <1>4, <1>5, <1>6, <1>7, <1>8 DEF TypeOK

LEMMA InitInv == Init => IInv
<1> SUFFICES ASSUME Init PROVE IInv
  OBVIOUS
<1>1. TypeOK
  BY InitType
<1>2. \A i \in Action : act[i] = NoAction /\ act[i].status = None /\ act[i].owner = None
  BY DEF Init, NoAction
<1>3. \A i \in Action, g \in Gen : att[i][g] = NoAttempt /\ att[i][g].reason = None
  BY DEF Init, NoAttempt
<1>4. None \notin Live /\ None # "opt_out"
  BY DEF None, Live, Claimable
<1>5. OneLiveAction /\ UnplannedIsEmpty /\ OwnedIsClaimable
  BY <1>2, <1>4 DEF OneLiveAction, UnplannedIsEmpty, OwnedIsClaimable
<1>6. AttemptsHaveActions /\ OptedOutIsLast
  BY <1>3, <1>4 DEF AttemptsHaveActions, OptedOutIsLast
<1>7. DispatchersHaveActions
  BY DEF Init, Idle, DispatchersHaveActions
<1> QED BY <1>1, <1>5, <1>6, <1>7 DEF IInv

\* An owner comes only with a claimable status.
Owns(j) ==
    \/ act'[j].owner = None
    \/ act'[j].status \in Claimable
    \/ act'[j].owner = act[j].owner /\ act'[j].status = act[j].status

\* How an action's status may move: never from or to nothing, never back to life, never
\* out of a terminal one, and an acceptance with a successor is kept.
Follows(j) ==
    \/ act'[j].status = act[j].status
    \/ /\ act[j].status # None /\ act'[j].status # None
       /\ act'[j].status \in Live => act[j].status \in Live
       /\ act[j].status \in Terminal => act'[j].status \in Terminal
       /\ \/ act[j].status # "accepted_by_chatwoot"
          \/ act'[j].status = "accepted_by_chatwoot"
          \/ \A k \in Action : k > j => act[k].status = None

\* A case does not come back from nothing, nor from a cancellation.
CaseFollows ==
    /\ rc.status # "none" => rc'.status # "none"
    /\ rc.status = "cancelled" => rc'.status = "cancelled"

\* An attempt is of an action that exists, and only an opt-out that cancels the case cuts
\* off one of a live action.
AttemptFollows(i, g) ==
    \/ att'[i][g] = att[i][g]
    \/ /\ act[i].status # None
       /\ att'[i][g].reason = "opt_out" =>
             \/ att[i][g].reason = "opt_out"
             \/ rc'.status = "cancelled" /\ act[i].status \in Live

\* A dispatcher keeps its action, or takes one that exists.
DispatcherFollows(w) ==
    \/ wk'[w].pc = "idle"
    \/ wk[w].pc # "idle" /\ wk'[w].action = wk[w].action
    \/ act[wk'[w].action].status # None

\* A step that moves the sequence nowhere.
Quiet ==
    /\ CaseFollows
    /\ \A j \in Action : Follows(j) /\ Owns(j)
    /\ \A i \in Action, g \in Gen : AttemptFollows(i, g)
    /\ \A w \in Worker : DispatcherFollows(w)

\* A step that accepts i, with a successor.
Advances(i) ==
    /\ CaseOpen /\ CaseFollows
    /\ \A w \in Worker : DispatcherFollows(w)
    /\ act[i].status \in Live /\ act'[i].status = "accepted_by_chatwoot"
    /\ i + 1 \in Action => act'[i + 1].status = "pending" /\ act'[i + 1].owner = None
    /\ act'[i].owner = None
    /\ \A j \in Action \ {i, i + 1} : act'[j] = act[j]
    /\ \A k \in Action, g \in Gen :
          \/ att'[k][g] = att[k][g]
          \/ act[k].status # None /\ att'[k][g].reason # "opt_out"

\* A step that plans the case.
Plans ==
    /\ rc.status = "none" /\ rc'.status # "none"
    /\ act'[1].status \in {"pending", "cancelled"} /\ act'[1].owner = None
    /\ \A j \in Action \ {1} : act'[j] = act[j]
    /\ att' = att /\ wk' = wk

LEMMA QuietKeeps ==
    ASSUME IInv, TypeOK', Quiet
    PROVE  IInv'
<1>1. \A j \in Action : act'[j].status \in Live => act[j].status \in Live
  BY DEF Quiet, Follows
<1>2. \A j \in Action : act'[j].status = None <=> act[j].status = None
  BY DEF Quiet, Follows
<1>3. OneLiveAction'
  <2>1. ASSUME NEW i \in Action, NEW j \in Action,
               act'[i].status \in Live, act'[j].status \in Live
        PROVE  i = j
    BY <1>1, <2>1 DEF IInv, OneLiveAction
  <2>2. ASSUME NEW i \in Action, NEW j \in Action, i < j, act'[j].status # None
        PROVE  act'[i].status = "accepted_by_chatwoot"
    <3>1. act[j].status # None
      BY <1>2, <2>2
    <3>2. act[i].status = "accepted_by_chatwoot"
      BY <2>2, <3>1 DEF IInv, OneLiveAction
    <3>3. j > i
      BY <2>2 DEF Action
    <3> QED BY <3>1, <3>2, <3>3 DEF Quiet, Follows
  <2> QED BY <2>1, <2>2 DEF OneLiveAction
<1>4. UnplannedIsEmpty'
  BY <1>2 DEF IInv, UnplannedIsEmpty, Quiet, CaseFollows
<1>5. AttemptsHaveActions'
  BY <1>2 DEF IInv, AttemptsHaveActions, Quiet, AttemptFollows
<1>6. OptedOutIsLast'
  <2> SUFFICES ASSUME NEW i \in Action, NEW g \in Gen, att'[i][g].reason = "opt_out"
               PROVE  /\ rc'.status = "cancelled"
                      /\ \A j \in Action : j > i => act[j].status = None
    BY <1>2 DEF OptedOutIsLast
  <2>1. CASE att[i][g].reason = "opt_out"
    BY <2>1 DEF IInv, OptedOutIsLast, Quiet, CaseFollows
  <2>2. CASE rc'.status = "cancelled" /\ act[i].status \in Live
    <3>1. act[i].status # "accepted_by_chatwoot"
      BY <2>2 DEF Live, Claimable
    <3>2. \A j \in Action : j > i => i < j
      BY DEF Action
    <3> QED BY <2>2, <3>1, <3>2 DEF IInv, OneLiveAction
  <2> QED BY <2>1, <2>2 DEF Quiet, AttemptFollows
<1>7. OwnedIsClaimable'
  BY DEF IInv, OwnedIsClaimable, Quiet, Owns
<1>8. DispatchersHaveActions'
  <2> SUFFICES ASSUME NEW w \in Worker, wk'[w].pc # "idle"
               PROVE  act'[wk'[w].action].status # None
    BY DEF DispatchersHaveActions
  <2>1. wk'[w].action \in Action
    BY DEF TypeOK, Dispatcher
  <2>2. act[wk'[w].action].status # None
    BY DEF IInv, DispatchersHaveActions, Quiet, DispatcherFollows
  <2> QED BY <1>2, <2>1, <2>2
<1> QED BY <1>3, <1>4, <1>5, <1>6, <1>7, <1>8 DEF IInv

LEMMA AdvancesKeeps ==
    ASSUME IInv, TypeOK', NEW i \in Action, Advances(i)
    PROVE  IInv'
<1>1. act[i].status # "accepted_by_chatwoot" /\ act[i].status # None
  BY DEF Advances, Live, Claimable, None
<1>2. \A j \in Action : j > i => act[j].status = None
  <2>1. \A j \in Action : j > i => i < j
    BY DEF Action
  <2> QED BY <1>1, <2>1 DEF IInv, OneLiveAction
<1>3. \A j \in Action : j < i => act[j].status = "accepted_by_chatwoot"
  BY <1>1 DEF IInv, OneLiveAction
<1>4. \A j \in Action : j < i \/ j = i \/ j = i + 1 \/ j > i + 1
  BY DEF Action
<1>5. \A j \in Action : /\ j < i => j \in Action \ {i, i + 1}
                        /\ j > i + 1 => j \in Action \ {i, i + 1} /\ j > i
  BY DEF Action
<1>6. \A j \in Action : /\ j <= i => act'[j].status = "accepted_by_chatwoot"
                        /\ j = i + 1 => act'[j].status = "pending"
                        /\ j > i + 1 => act'[j].status = None
  <2> SUFFICES ASSUME NEW j \in Action
               PROVE  /\ j <= i => act'[j].status = "accepted_by_chatwoot"
                      /\ j = i + 1 => act'[j].status = "pending"
                      /\ j > i + 1 => act'[j].status = None
    OBVIOUS
  <2>1. CASE j < i
    <3>1. act'[j].status = "accepted_by_chatwoot"
      BY <1>3, <1>5, <2>1 DEF Advances
    <3> QED BY <2>1, <3>1 DEF Action
  <2>2. CASE j = i
    <3>1. act'[j].status = "accepted_by_chatwoot"
      BY <2>2 DEF Advances
    <3> QED BY <2>2, <3>1 DEF Action
  <2>3. CASE j = i + 1
    <3>1. act'[j].status = "pending"
      BY <2>3 DEF Advances
    <3> QED BY <2>3, <3>1 DEF Action
  <2>4. CASE j > i + 1
    <3>1. act'[j].status = None
      BY <1>2, <1>5, <2>4 DEF Advances
    <3> QED BY <2>4, <3>1 DEF Action
  <2> QED BY <1>4, <2>1, <2>2, <2>3, <2>4
<1>7. "accepted_by_chatwoot" \notin Live /\ None \notin Live /\ "pending" # None
  BY DEF Live, Claimable, None
<1>8. \A j \in Action : act'[j].status \in Live => j = i + 1
  <2> TAKE j \in Action
  <2>1. j <= i \/ j = i + 1 \/ j > i + 1
    BY DEF Action
  <2> QED BY <1>6, <1>7, <2>1
<1>9. OneLiveAction'
  <2>1. ASSUME NEW k \in Action, NEW j \in Action, k < j, act'[j].status # None
        PROVE  act'[k].status = "accepted_by_chatwoot"
    <3>1. ~(j > i + 1)
      BY <1>6, <2>1
    <3>2. k <= i
      BY <2>1, <3>1 DEF Action
    <3> QED BY <1>6, <3>2
  <2> QED BY <1>8, <2>1 DEF OneLiveAction
<1>10. UnplannedIsEmpty'
  BY DEF UnplannedIsEmpty, Advances, CaseFollows, CaseOpen
<1>11. \A j \in Action : act[j].status # None => act'[j].status # None
  <2> TAKE j \in Action
  <2>1. CASE j <= i
    BY <1>6, <2>1 DEF None
  <2>2. CASE j > i
    BY <1>2, <2>2
  <2> QED BY <2>1, <2>2 DEF Action
<1>12. AttemptsHaveActions'
  BY <1>11 DEF IInv, AttemptsHaveActions, Advances
<1>13. OptedOutIsLast'
  <2> SUFFICES ASSUME NEW k \in Action, NEW g \in Gen, att'[k][g].reason = "opt_out"
               PROVE  FALSE
    BY DEF OptedOutIsLast
  <2>1. att[k][g].reason = "opt_out"
    BY DEF Advances
  <2>2. rc.status = "cancelled"
    BY <2>1 DEF IInv, OptedOutIsLast
  <2> QED BY <2>2 DEF Advances, CaseOpen
<1>14. OwnedIsClaimable'
  <2> SUFFICES ASSUME NEW j \in Action, act'[j].owner # None
               PROVE  act'[j].status \in Claimable
    BY DEF OwnedIsClaimable
  <2>1. j \in Action \ {i, i + 1}
    BY DEF Advances
  <2> QED BY <2>1 DEF IInv, OwnedIsClaimable, Advances
<1>15. DispatchersHaveActions'
  <2> SUFFICES ASSUME NEW w \in Worker, wk'[w].pc # "idle"
               PROVE  act'[wk'[w].action].status # None
    BY DEF DispatchersHaveActions
  <2>1. wk'[w].action \in Action
    BY DEF TypeOK, Dispatcher
  <2>2. act[wk'[w].action].status # None
    BY DEF IInv, DispatchersHaveActions, Advances, DispatcherFollows
  <2> QED BY <1>11, <2>1, <2>2
<1> QED BY <1>9, <1>10, <1>12, <1>13, <1>14, <1>15 DEF IInv

LEMMA PlansKeeps ==
    ASSUME IInv, TypeOK', Plans
    PROVE  IInv'
<1>1. \A i \in Action : act[i].status = None
  BY DEF IInv, UnplannedIsEmpty, Plans
<1>2. \A j \in Action : j # 1 => act'[j].status = None
  BY <1>1 DEF Plans
<1>3. None \notin Live
  BY DEF Live, Claimable, None
<1>4. OneLiveAction'
  <2>1. \A i, j \in Action : i < j => j # 1
    BY DEF Action
  <2> QED BY <1>2, <1>3, <2>1 DEF OneLiveAction
<1>5. UnplannedIsEmpty'
  BY DEF UnplannedIsEmpty, Plans
<1>6. \A i \in Action, g \in Gen : att[i][g] = NoAttempt
  BY <1>1 DEF IInv, AttemptsHaveActions
<1>7. AttemptsHaveActions' /\ OptedOutIsLast'
  BY <1>6 DEF AttemptsHaveActions, OptedOutIsLast, Plans, NoAttempt, None
<1>8. OwnedIsClaimable'
  BY DEF IInv, OwnedIsClaimable, Plans
<1>9. DispatchersHaveActions'
  <2>1. \A w \in Worker : wk[w].action \in Action
    BY Typed DEF IInv
  <2>2. \A w \in Worker : wk[w].pc = "idle"
    BY <1>1, <2>1 DEF IInv, DispatchersHaveActions
  <2> QED BY <2>2 DEF DispatchersHaveActions, Plans
<1> QED BY <1>4, <1>5, <1>7, <1>8, <1>9 DEF IInv
-----------------------------------------------------------------------------
\* What the edits of each variable leave.

LEMMA Rebuild ==
    ASSUME TypeOK, rc' \in Case, seq' \in Sequence,
           act' \in [Action -> ScheduledAction], att' \in [Action -> [Gen -> Attempt]],
           wk' \in [Worker -> Dispatcher], UNCHANGED <<buyer, timeUp, bounds>>
    PROVE  TypeOK'
BY DEF TypeOK, buyer, bounds

LEMMA BackTyped ==
    ASSUME TypeOK, NEW w \in Worker, Back(w)
    PROVE  wk' \in [Worker -> Dispatcher] /\ \A v \in Worker : DispatcherFollows(v)
<1>1. Idle \in Dispatcher /\ Idle.pc = "idle"
  BY Idles DEF Idle
<1>2. wk \in [Worker -> Dispatcher] /\ wk' = [wk EXCEPT ![w] = Idle]
  BY Typed DEF Back
<1>3. \A v \in Worker : v = w \/ wk'[v] = wk[v]
  BY <1>2
<1>4. \A v \in Worker : DispatcherFollows(v)
  BY <1>1, <1>2, <1>3 DEF DispatcherFollows
<1> QED BY <1>1, <1>2, <1>4

LEMMA Moves ==
    ASSUME TypeOK, NEW w \in Worker, NEW d \in Dispatcher, wk' = [wk EXCEPT ![w] = d],
           (wk[w].pc # "idle" /\ d.action = wk[w].action) \/ act[d.action].status # None
    PROVE  wk' \in [Worker -> Dispatcher] /\ \A v \in Worker : DispatcherFollows(v)
<1>1. wk \in [Worker -> Dispatcher]
  BY Typed
<1>2. wk'[w] = d /\ \A v \in Worker : v = w \/ wk'[v] = wk[v]
  BY <1>1
<1> QED BY <1>1, <1>2 DEF DispatcherFollows

LEMMA BecomesTyped ==
    ASSUME TypeOK, NEW i \in Action, NEW s \in Live \cup Terminal \cup {None},
           ActionBecomes(i, s)
    PROVE  /\ act' \in [Action -> ScheduledAction]
           /\ act'[i].status = s /\ act'[i].owner = None
           /\ \A j \in Action \ {i} : act'[j] = act[j]
<1>1. act[i] \in ScheduledAction /\ act \in [Action -> ScheduledAction]
  BY Typed
<1> DEFINE a == [act[i] EXCEPT !.status = s, !.owner = None, !.lease = None]
<1>2. a \in ScheduledAction /\ a.status = s /\ a.owner = None
  BY <1>1 DEF ScheduledAction
<1>3. act' = [act EXCEPT ![i] = a]
  BY <1>1 DEF ActionBecomes
<1> HIDE DEF a
<1> QED BY <1>1, <1>2, <1>3

LEMMA BecomesFollows ==
    ASSUME TypeOK, NEW i \in Action, NEW s \in Live \cup Terminal, ActionBecomes(i, s),
           act[i].status # None,
           s \in Live => act[i].status \in Live,
           act[i].status \in Terminal => s \in Terminal,
           \/ act[i].status # "accepted_by_chatwoot"
           \/ s = "accepted_by_chatwoot"
           \/ \A k \in Action : k > i => act[k].status = None
    PROVE  \A j \in Action : Follows(j) /\ Owns(j)
<1>1. act'[i].status = s /\ act'[i].owner = None /\ \A j \in Action \ {i} : act'[j] = act[j]
  BY BecomesTyped
<1>2. s # None
  BY DEF Live, Claimable, Terminal, None
<1>3. Follows(i) /\ Owns(i)
  BY <1>1, <1>2 DEF Follows, Owns
<1>4. \A j \in Action \ {i} : Follows(j) /\ Owns(j)
  BY <1>1 DEF Follows, Owns
<1> QED BY <1>3, <1>4

LEMMA StatusKept ==
    ASSUME TypeOK, NEW i \in Action, ActionBecomes(i, act[i].status)
    PROVE  /\ act' \in [Action -> ScheduledAction]
           /\ \A j \in Action : Follows(j) /\ Owns(j)
<1>1. act[i].status \in Live \cup Terminal \cup {None}
  BY Typed DEF ScheduledAction
<1>2. /\ act' \in [Action -> ScheduledAction]
      /\ act'[i].status = act[i].status /\ act'[i].owner = None
      /\ \A j \in Action \ {i} : act'[j] = act[j]
  BY <1>1, BecomesTyped
<1> QED BY <1>2 DEF Follows, Owns

\* A claimable action may become anything that exists.
LEMMA ClaimableFollows ==
    ASSUME TypeOK, NEW i \in Action, NEW s \in Live \cup Terminal, ActionBecomes(i, s),
           act[i].status \in Claimable
    PROVE  /\ act' \in [Action -> ScheduledAction]
           /\ \A j \in Action : Follows(j) /\ Owns(j)
<1>1. /\ act[i].status # None /\ act[i].status # "accepted_by_chatwoot"
      /\ act[i].status \in Live /\ act[i].status \notin Terminal
  BY DEF Claimable, Live, Terminal, None
<1> QED BY <1>1, BecomesTyped, BecomesFollows

LEMMA ActPut ==
    ASSUME TypeOK, NEW i \in Action, NEW a \in ScheduledAction, act' = [act EXCEPT ![i] = a],
           \/ a.status = act[i].status /\ a.owner = act[i].owner
           \/ act[i].status \in Live /\ a.status \in Claimable
    PROVE  /\ act' \in [Action -> ScheduledAction]
           /\ \A j \in Action : Follows(j) /\ Owns(j)
<1>1. act' \in [Action -> ScheduledAction]
  BY Typed
<1>2. act'[i] = a /\ \A j \in Action \ {i} : act'[j] = act[j]
  BY Typed
<1>3. Follows(i) /\ Owns(i)
  <2>1. CASE a.status = act[i].status /\ a.owner = act[i].owner
    BY <1>2, <2>1 DEF Follows, Owns
  <2>2. CASE act[i].status \in Live /\ a.status \in Claimable
    <3>1. /\ act[i].status # None /\ act[i].status # "accepted_by_chatwoot"
          /\ act[i].status \notin Terminal /\ a.status # None
      BY <2>2 DEF Claimable, Live, Terminal, None
    <3> QED BY <1>2, <2>2, <3>1 DEF Follows, Owns
  <2> QED BY <2>1, <2>2
<1> QED BY <1>1, <1>2, <1>3 DEF Follows, Owns

\* One attempt is replaced; folded, so that the lemmas below apply as they stand.
AttSet(i, g, r) == att' = [att EXCEPT ![i][g] = r]

LEMMA AttPut ==
    ASSUME TypeOK, NEW i \in Action, NEW g \in Gen, NEW r \in Attempt,
           AttSet(i, g, r)
    PROVE  /\ att' \in [Action -> [Gen -> Attempt]]
           /\ att'[i][g] = r
           /\ \A k \in Action, h \in Gen : k # i \/ h # g => att'[k][h] = att[k][h]
<1>1. att \in [Action -> [Gen -> Attempt]] /\ att[i] \in [Gen -> Attempt]
  BY Typed
<1>2. [att[i] EXCEPT ![g] = r] \in [Gen -> Attempt]
  BY <1>1
<1> QED BY <1>1, <1>2 DEF AttSet

\* An attempt of an existing action, edited by anything but an opt-out.
LEMMA AttFollows ==
    ASSUME TypeOK, NEW i \in Action, NEW g \in Gen, NEW r \in Attempt,
           AttSet(i, g, r),
           act[i].status # None, r.reason \in {att[i][g].reason, None}
    PROVE  \A k \in Action, h \in Gen : AttemptFollows(k, h)
<1>1. att'[i][g] = r /\ \A k \in Action, h \in Gen : k # i \/ h # g => att'[k][h] = att[k][h]
  BY AttPut
<1>2. None # "opt_out"
  BY DEF None
<1> QED BY <1>1, <1>2 DEF AttemptFollows

LEMMA EndsTyped ==
    ASSUME TypeOK, NEW s \in SeqStatus, SequenceEnds(s)
    PROVE  seq' \in Sequence
<1>1. seq \in Sequence /\ seq.revision + 1 \in Nat
  BY Typed
<1>2. [seq EXCEPT !.status = s, !.revision = seq.revision + 1] \in Sequence
  BY <1>1 DEF Sequence
<1> QED BY <1>1, <1>2 DEF SequenceEnds

LEMMA CaseTyped ==
    ASSUME TypeOK, NEW s \in CaseStatus \ {"none"}, CaseBecomes(s)
    PROVE  rc' \in Case /\ CaseFollows
<1>1. rc \in Case /\ rc.version + 1 \in Nat
  BY Typed
<1>2. [status |-> s, version |-> rc.version + 1] \in Case
  BY <1>1 DEF Case
<1>3. rc' \in Case
  BY <1>1, <1>2 DEF CaseBecomes
<1>4. CaseFollows
  BY DEF CaseBecomes, CaseOpen, CaseFollows
<1> QED BY <1>3, <1>4

\* What a stop does to the actions...
LEMMA StopActionsTyped ==
    ASSUME TypeOK, StopActions
    PROVE  /\ act' \in [Action -> ScheduledAction]
           /\ \A j \in Action : Follows(j) /\ Owns(j)
<1>1. ASSUME NEW i \in Action
      PROVE  act'[i] \in ScheduledAction /\ Follows(i) /\ Owns(i)
  <2>1. act[i] \in ScheduledAction
    BY Typed
  <2>2. CASE act[i].status \notin Claimable
    <3>1. act'[i] = act[i]
      BY <2>2 DEF StopActions
    <3> QED BY <2>1, <3>1 DEF Follows, Owns
  <2>3. CASE act[i].status \in Claimable
    <3> DEFINE s == IF Started(i) THEN "delivery_unknown" ELSE "cancelled"
    <3> DEFINE a == [act[i] EXCEPT !.owner = None, !.lease = None, !.status = s]
    <3>1. act'[i] = a
      BY <2>3 DEF StopActions
    <3>2. s \in {"delivery_unknown", "cancelled"}
      OBVIOUS
    <3> HIDE DEF s
    <3>3. a \in ScheduledAction /\ a.status = s /\ a.owner = None
      BY <2>1, <3>2 DEF ScheduledAction, Live, Terminal
    <3> HIDE DEF a
    <3>4. /\ act[i].status # None /\ act[i].status # "accepted_by_chatwoot"
          /\ act[i].status \in Live /\ act[i].status \notin Terminal /\ s # None
      BY <2>3, <3>2 DEF Claimable, Live, Terminal, None
    <3> QED BY <3>1, <3>3, <3>4 DEF Follows, Owns
  <2> QED BY <2>2, <2>3
<1>2. act' = [i \in Action |-> act'[i]]
  BY DEF StopActions
<1> QED BY <1>1, <1>2

\* ... and to their attempts.
LEMMA StopAttemptsTyped ==
    ASSUME TypeOK, NEW S, NEW reason \in {None, "opt_out", "handoff"},
           NEW window \in {None, "open", "closed", "infinity"}, StopAttempts(S, reason, window)
    PROVE  /\ att' \in [Action -> [Gen -> Attempt]]
           /\ \A i \in Action, g \in Gen :
                 \/ att'[i][g] = att[i][g]
                 \/ act[i].status \in S /\ att'[i][g].reason \in {reason, None}
<1>1. ASSUME NEW r \in Attempt
      PROVE  /\ Stopped(r, reason, window) \in Attempt
             /\ \/ Stopped(r, reason, window) = r
                \/ Stopped(r, reason, window).reason \in {reason, None}
  <2>1. ASSUME NEW o \in {"failed_before_request", "delivery_unknown"},
               NEW q \in {None, "opt_out", "handoff"},
               NEW v \in {None, "open", "closed", "infinity"}
        PROVE  Completed(r, o, q, v) \in Attempt /\ Completed(r, o, q, v).reason = q
    BY DEF Completed, Attempt
  <2>2. CASE r.phase = "reserved"
    <3>1. Stopped(r, reason, window) = Completed(r, "failed_before_request", None, None)
      BY <2>2 DEF Stopped
    <3> QED BY <2>1, <3>1
  <2>3. CASE r.phase = "request_started"
    <3>1. Stopped(r, reason, window) = Completed(r, "delivery_unknown", reason, window)
      BY <2>3 DEF Stopped
    <3> QED BY <2>1, <3>1
  <2>4. CASE r.phase \notin {"reserved", "request_started"}
    <3>1. Stopped(r, reason, window) = r
      BY <2>4 DEF Stopped
    <3> QED BY <3>1
  <2> QED BY <2>2, <2>3, <2>4
<1>2. ASSUME NEW i \in Action
      PROVE  /\ att'[i] \in [Gen -> Attempt]
             /\ \A g \in Gen :
                   \/ att'[i][g] = att[i][g]
                   \/ act[i].status \in S /\ att'[i][g].reason \in {reason, None}
  <2>1. att[i] \in [Gen -> Attempt] /\ \A g \in Gen : att[i][g] \in Attempt
    BY Typed
  <2>2. CASE act[i].status \in S
    <3>1. att'[i] = [g \in Gen |-> Stopped(att[i][g], reason, window)]
      BY <2>2 DEF StopAttempts
    <3> QED BY <1>1, <2>1, <2>2, <3>1
  <2>3. CASE act[i].status \notin S
    <3>1. att'[i] = att[i]
      BY <2>3 DEF StopAttempts
    <3> QED BY <2>1, <3>1
  <2> QED BY <2>2, <2>3
<1>3. att' = [i \in Action |-> att'[i]]
  BY DEF StopAttempts
<1> QED BY <1>2, <1>3
-----------------------------------------------------------------------------
\* One lemma per action: the types stay, and the step is quiet, plans or advances.

LEMMA PlannedShape ==
    ASSUME IInv, NEW c \in CaseStatus \ {"none"}, NEW q \in SeqStatus,
           NEW s \in {"pending", "cancelled"}, NEW v \in Nat, Planned(c, q, s, v),
           purchase' \in {"none", "known", "other_offer", "ambiguous", "applied"}
    PROVE  TypeOK' /\ Plans
<1> USE DEF IInv
<1>1. rc' \in Case /\ rc'.status # "none" /\ rc.status = "none"
  BY DEF Planned, Case
<1>2. seq' \in Sequence
  BY DEF Planned, Sequence
<1>3. 1 \in Action
  BY EngineAssumption DEF Action
<1> DEFINE a == [NewAction(1) EXCEPT !.status = s]
<1>4. a \in ScheduledAction /\ a.status = s /\ a.owner = None
  <2>1. 1 \in Nat
    OBVIOUS
  <2> HIDE DEF a
  <2>2. \A u \in Nat, t \in {"pending", "cancelled"} :
           /\ [NewAction(u) EXCEPT !.status = t] \in ScheduledAction
           /\ [NewAction(u) EXCEPT !.status = t].status = t
           /\ [NewAction(u) EXCEPT !.status = t].owner = None
    BY NewActions, Zenon
  <2> QED BY <2>1, <2>2, Zenon DEF a
<1>5. act' = [act EXCEPT ![1] = a]
  BY DEF Planned
<1> HIDE DEF a
<1>6. /\ act' \in [Action -> ScheduledAction] /\ act'[1] = a
      /\ \A j \in Action \ {1} : act'[j] = act[j]
  BY <1>3, <1>4, <1>5, Typed
<1>7. TypeOK'
  BY <1>1, <1>2, <1>6 DEF Planned, TypeOK, bounds
<1>8. Plans
  BY <1>1, <1>4, <1>6 DEF Plans, Planned
<1> QED BY <1>7, <1>8

LEMMA PlanningShape ==
    ASSUME IInv, Planning
    PROVE  TypeOK' /\ Plans
<1>1. ASSUME PlanRecovery PROVE TypeOK' /\ Plans
  <2>1. "grace_period" \in CaseStatus \ {"none"} /\ "active" \in SeqStatus /\ 1 \in Nat
    BY DEF CaseStatus, SeqStatus
  <2>2. purchase' \in {"none", "known", "other_offer", "ambiguous", "applied"}
    BY <1>1 DEF PlanRecovery
  <2>3. Planned("grace_period", "active", "pending", 1)
    BY <1>1 DEF PlanRecovery
  <2> QED BY <2>1, <2>2, <2>3, PlannedShape
<1>2. ASSUME StopForKnownPurchase PROVE TypeOK' /\ Plans
  <2>1. "won" \in CaseStatus \ {"none"} /\ "completed" \in SeqStatus /\ 2 \in Nat
    BY DEF CaseStatus, SeqStatus
  <2>2. purchase' \in {"none", "known", "other_offer", "ambiguous", "applied"}
    BY <1>2 DEF StopForKnownPurchase
  <2>3. Planned("won", "completed", "cancelled", 2)
    BY <1>2 DEF StopForKnownPurchase
  <2> QED BY <2>1, <2>2, <2>3, PlannedShape
<1>3. ASSUME FailClosedAmbiguousKnownPurchase PROVE TypeOK' /\ Plans
  <2>1. "paused" \in CaseStatus \ {"none"} /\ "paused" \in SeqStatus /\ 2 \in Nat
    BY DEF CaseStatus, SeqStatus
  <2>2. purchase' \in {"none", "known", "other_offer", "ambiguous", "applied"}
    BY <1>3 DEF FailClosedAmbiguousKnownPurchase
  <2>3. Planned("paused", "paused", "cancelled", 2)
    BY <1>3 DEF FailClosedAmbiguousKnownPurchase
  <2> QED BY <2>1, <2>2, <2>3, PlannedShape
<1> QED BY <1>1, <1>2, <1>3 DEF Planning

\* A step that leaves case, actions and attempts alone is quiet.
LEMMA NothingMoves ==
    ASSUME rc' = rc, act' = act, att' = att, \A w \in Worker : DispatcherFollows(w)
    PROVE  Quiet
BY DEF Quiet, CaseFollows, Follows, Owns, AttemptFollows, DispatcherFollows

LEMMA TimeShape ==
    ASSUME IInv,
           \/ TimeUp
           \/ \E i \in Action : BecomesDue(i) \/ LeaseLapses(i)
           \/ \E i \in Action, g \in Gen : WindowCloses(i, g)
    PROVE  TypeOK' /\ Quiet
<1> USE DEF IInv
<1>1. ASSUME TimeUp PROVE TypeOK' /\ Quiet
  <2>1. TypeOK'
    BY <1>1 DEF TimeUp, TypeOK, buyer, bounds
  <2> QED BY <1>1, <2>1, NothingMoves DEF TimeUp, DispatcherFollows
<1>2. ASSUME NEW i \in Action, BecomesDue(i) PROVE TypeOK' /\ Quiet
  <2> DEFINE a == [act[i] EXCEPT !.due = TRUE]
  <2>1. a \in ScheduledAction /\ a.status = act[i].status /\ a.owner = act[i].owner
    BY Typed DEF ScheduledAction
  <2>2. act' = [act EXCEPT ![i] = a]
    BY <1>2 DEF BecomesDue
  <2> HIDE DEF a
  <2>3. act' \in [Action -> ScheduledAction] /\ \A j \in Action : Follows(j) /\ Owns(j)
    BY <2>1, <2>2, ActPut
  <2>4. TypeOK'
    BY <1>2, <2>3, Typed, Rebuild DEF BecomesDue
  <2>5. Quiet
    BY <1>2, <2>3 DEF BecomesDue, Quiet, CaseFollows, AttemptFollows, DispatcherFollows
  <2> QED BY <2>4, <2>5
<1>3. ASSUME NEW i \in Action, LeaseLapses(i) PROVE TypeOK' /\ Quiet
  <2> DEFINE a == [act[i] EXCEPT !.lease = "lapsed"]
  <2>1. a \in ScheduledAction /\ a.status = act[i].status /\ a.owner = act[i].owner
    BY Typed DEF ScheduledAction
  <2>2. act' = [act EXCEPT ![i] = a]
    BY <1>3 DEF LeaseLapses
  <2> HIDE DEF a
  <2>3. act' \in [Action -> ScheduledAction] /\ \A j \in Action : Follows(j) /\ Owns(j)
    BY <2>1, <2>2, ActPut
  <2>4. TypeOK'
    BY <1>3, <2>3, Typed, Rebuild DEF LeaseLapses
  <2>5. Quiet
    BY <1>3, <2>3 DEF LeaseLapses, Quiet, CaseFollows, AttemptFollows, DispatcherFollows
  <2> QED BY <2>4, <2>5
<1>4. ASSUME NEW i \in Action, NEW g \in Gen, WindowCloses(i, g) PROVE TypeOK' /\ Quiet
  <2> DEFINE r == [att[i][g] EXCEPT !.window = "closed"]
  <2>0. att[i][g] \in Attempt
    BY Typed
  <2>1. r \in Attempt /\ r.reason = att[i][g].reason
    BY <2>0 DEF Attempt
  <2>2. AttSet(i, g, r)
    BY <1>4 DEF WindowCloses, AttSet
  <2>3. act[i].status # None
    <3>1. att[i][g] # NoAttempt
      BY <1>4 DEF WindowCloses, NoAttempt, None
    <3> QED BY <3>1 DEF AttemptsHaveActions
  <2> HIDE DEF r
  <2>4. /\ att' \in [Action -> [Gen -> Attempt]]
        /\ \A k \in Action, h \in Gen : AttemptFollows(k, h)
    BY <2>1, <2>2, <2>3, AttPut, AttFollows
  <2>5. TypeOK'
    BY <1>4, <2>4, Typed, Rebuild DEF WindowCloses
  <2>6. Quiet
    BY <1>4, <2>4 DEF WindowCloses, Quiet, CaseFollows, Follows, Owns, DispatcherFollows
  <2> QED BY <2>5, <2>6
<1> QED BY <1>1, <1>2, <1>3, <1>4

\* The steps of a dispatcher that only move it.
LEMMA PositionShape ==
    ASSUME IInv, NEW w \in Worker,
           ReevaluateYes(w) \/ Abandon(w) \/ ReadClock(w) \/ FinalYes(w)
    PROVE  TypeOK' /\ Quiet
<1> USE DEF IInv
<1>0. wk[w] \in Dispatcher /\ rc.version \in Nat /\ seq.revision \in Nat /\ timeUp \in BOOLEAN
  BY Typed DEF TypeOK
<1>1. wk' \in [Worker -> Dispatcher] /\ \A v \in Worker : DispatcherFollows(v)
  <2>1. ASSUME ReevaluateYes(w) PROVE wk' \in [Worker -> Dispatcher] /\ \A v \in Worker : DispatcherFollows(v)
    <3> DEFINE d == [wk[w] EXCEPT !.pc = "decided", !.version = rc.version,
                                  !.revision = seq.revision]
    <3>1. d \in Dispatcher /\ wk[w].pc # "idle" /\ d.action = wk[w].action
      BY <1>0, <2>1 DEF Dispatcher, ReevaluateYes, FinalYes
    <3>2. wk' = [wk EXCEPT ![w] = d]
      BY <2>1 DEF ReevaluateYes
    <3> HIDE DEF d
    <3> QED BY <3>1, <3>2, Moves
  <2>2. ASSUME Abandon(w) PROVE wk' \in [Worker -> Dispatcher] /\ \A v \in Worker : DispatcherFollows(v)
    BY <2>2, BackTyped DEF Abandon
  <2>3. ASSUME ReadClock(w) PROVE wk' \in [Worker -> Dispatcher] /\ \A v \in Worker : DispatcherFollows(v)
    <3> DEFINE saw == replied = "after_anchor"
    <3> DEFINE d == [wk[w] EXCEPT !.pc = "final", !.late = timeUp, !.sawReply = saw]
    <3>1. saw \in BOOLEAN
      OBVIOUS
    <3>2. wk' = [wk EXCEPT ![w] = d]
      BY <2>3 DEF ReadClock
    <3> HIDE DEF saw
    <3>3. d \in Dispatcher /\ wk[w].pc # "idle" /\ d.action = wk[w].action
      BY <1>0, <2>3, <3>1 DEF Dispatcher, ReadClock
    <3> HIDE DEF d
    <3> QED BY <3>2, <3>3, Moves
  <2>4. ASSUME FinalYes(w) PROVE wk' \in [Worker -> Dispatcher] /\ \A v \in Worker : DispatcherFollows(v)
    <3> DEFINE d == [wk[w] EXCEPT !.pc = "cleared"]
    <3>1. d \in Dispatcher /\ wk[w].pc # "idle" /\ d.action = wk[w].action
      BY <1>0, <2>4 DEF Dispatcher, ReevaluateYes, FinalYes
    <3>2. wk' = [wk EXCEPT ![w] = d]
      BY <2>4 DEF FinalYes
    <3> HIDE DEF d
    <3> QED BY <3>1, <3>2, Moves
  <2> QED BY <2>1, <2>2, <2>3, <2>4
<1>2. UNCHANGED <<rc, seq, act, att, buyer, timeUp, bounds>>
  BY DEF ReevaluateYes, Abandon, ReadClock, FinalYes
<1>3. TypeOK'
  BY <1>1, <1>2, Typed, Rebuild
<1> QED BY <1>1, <1>2, <1>3, NothingMoves

LEMMA ClaimShape ==
    ASSUME IInv, NEW w \in Worker, NEW i \in Action, Claim(w, i)
    PROVE  TypeOK' /\ Quiet
<1> USE DEF IInv
<1>1. act[i] \in ScheduledAction /\ act[i].gen + 1 \in Gen /\ act[i].gen + 1 \in 0..MaxGen
  <2>1. act[i] \in ScheduledAction /\ act[i].gen \in 0..MaxGen
    BY Typed DEF ScheduledAction
  <2>2. MaxGen \in Nat
    BY EngineAssumption
  <2> QED BY <2>1, <2>2 DEF Claim, Gen
<1> DEFINE a == [act[i] EXCEPT !.owner = w, !.lease = "live", !.gen = act[i].gen + 1]
<1>2. a \in ScheduledAction /\ a.status \in Claimable /\ act[i].status \in Live
  BY <1>1 DEF ScheduledAction, Claim, Live
<1>3. act' = [act EXCEPT ![i] = a]
  BY DEF Claim
<1> HIDE DEF a
<1>4. act' \in [Action -> ScheduledAction] /\ \A j \in Action : Follows(j) /\ Owns(j)
  BY <1>2, <1>3, ActPut
<1> DEFINE saw == replied = "after_anchor"
<1> DEFINE d == [Idle EXCEPT !.pc = "claimed", !.action = i, !.gen = act[i].gen + 1,
                             !.sawReply = saw]
<1>5. wk' = [wk EXCEPT ![w] = d]
  BY DEF Claim
<1>6. saw \in BOOLEAN
  OBVIOUS
<1> HIDE DEF saw
<1>7. d \in Dispatcher /\ d.action = i
  BY <1>1, <1>6, Idles DEF Dispatcher
<1> HIDE DEF d
<1>8. wk' \in [Worker -> Dispatcher] /\ \A v \in Worker : DispatcherFollows(v)
  <2>1. act[i].status # None
    BY DEF Claim, Claimable, None
  <2> QED BY <1>5, <1>7, <2>1, Moves
<1>9. TypeOK'
  BY <1>4, <1>8, Typed, Rebuild DEF Claim
<1>10. Quiet
  BY <1>4, <1>8 DEF Claim, Quiet, CaseFollows, AttemptFollows
<1> QED BY <1>9, <1>10

LEMMA SweepShape ==
    ASSUME IInv, NEW i \in Action, SweepExpired(i)
    PROVE  TypeOK' /\ Quiet
<1> USE DEF IInv
<1>1. "expired" \in Live \cup Terminal /\ "completed" \in SeqStatus
      /\ "expired" \in CaseStatus \ {"none"}
  BY DEF Terminal, SeqStatus, CaseStatus
<1>2. act' \in [Action -> ScheduledAction] /\ \A j \in Action : Follows(j) /\ Owns(j)
  BY <1>1, ClaimableFollows DEF SweepExpired
<1>3. seq' \in Sequence
  BY <1>1, EndsTyped DEF SweepExpired
<1>4. rc' \in Case /\ CaseFollows
  BY <1>1, CaseTyped DEF SweepExpired
<1>5. TypeOK'
  BY <1>2, <1>3, <1>4, Typed, Rebuild DEF SweepExpired
<1>6. Quiet
  BY <1>2, <1>4 DEF SweepExpired, Quiet, AttemptFollows, DispatcherFollows
<1> QED BY <1>5, <1>6

\* Every decision but `execute' closes a claimable action, or defers it.
LEMMA DecideShape ==
    ASSUME IInv, NEW w \in Worker, Decide(w), UNCHANGED <<att, buyer, timeUp, bounds>>
    PROVE  TypeOK' /\ Quiet
<1> USE DEF IInv
<1> DEFINE i == wk[w].action
<1>1. i \in Action /\ act[i].status \in Claimable
  BY Typed DEF Decide, HoldsLease
<1>2. wk' \in [Worker -> Dispatcher] /\ \A v \in Worker : DispatcherFollows(v)
  BY BackTyped DEF Decide
<1>3. ASSUME NEW s \in {"cancelled", "expired"}, ActionBecomes(i, s)
      PROVE  act' \in [Action -> ScheduledAction] /\ \A j \in Action : Follows(j) /\ Owns(j)
  <2>1. s \in Live \cup Terminal
    BY DEF Terminal
  <2> QED BY <1>1, <1>3, <2>1, ClaimableFollows
<1>4. ASSUME NEW q \in {"completed", "paused"}, SequenceEnds(q) PROVE seq' \in Sequence
  <2>1. q \in SeqStatus
    BY DEF SeqStatus
  <2> QED BY <1>4, <2>1, EndsTyped
<1>5. ASSUME NEW c \in {"cancelled", "paused", "escalated", "expired"}, CaseBecomes(c)
      PROVE  rc' \in Case /\ CaseFollows
  <2>1. c \in CaseStatus \ {"none"}
    BY DEF CaseStatus
  <2> QED BY <1>5, <2>1, CaseTyped
<1> DEFINE Closes == \E s \in {"cancelled", "expired"}, q \in {"completed", "paused"} :
                        /\ ActionBecomes(i, s) /\ SequenceEnds(q)
                        /\ \/ UNCHANGED rc
                           \/ \E c \in {"cancelled", "paused", "escalated", "expired"} :
                                 CaseBecomes(c)
<1> DEFINE Defers == /\ act' = [act EXCEPT ![i].status = "deferred", ![i].owner = None,
                                          ![i].lease = None, ![i].due = FALSE]
                     /\ UNCHANGED <<rc, seq>>
<1>6. Closes \/ Defers
  BY DEF Decide
<1>7. CASE Closes
  <2>1. act' \in [Action -> ScheduledAction] /\ \A j \in Action : Follows(j) /\ Owns(j)
    BY <1>3, <1>7
  <2>2. seq' \in Sequence
    BY <1>4, <1>7
  <2>3. rc' \in Case /\ CaseFollows
    BY <1>5, <1>7, Typed DEF CaseFollows
  <2>4. TypeOK'
    BY <1>2, <2>1, <2>2, <2>3, Typed, Rebuild
  <2> QED BY <1>2, <2>1, <2>3, <2>4 DEF Quiet, AttemptFollows
<1>8. CASE Defers
  <2> DEFINE a == [act[i] EXCEPT !.status = "deferred", !.owner = None, !.lease = None,
                                 !.due = FALSE]
  <2>0. act[i] \in ScheduledAction
    BY <1>1, Typed
  <2>1. a \in ScheduledAction /\ a.status \in Claimable /\ act[i].status \in Live
    BY <1>1, <2>0 DEF ScheduledAction, Live, Claimable
  <2>2. act' = [act EXCEPT ![i] = a]
    BY <1>8
  <2> HIDE DEF a, i
  <2>3. act' \in [Action -> ScheduledAction] /\ \A j \in Action : Follows(j) /\ Owns(j)
    BY <1>1, <2>1, <2>2, ActPut
  <2>4. TypeOK'
    BY <1>2, <1>8, <2>3, Typed, Rebuild
  <2> QED BY <1>2, <1>8, <2>3, <2>4 DEF Quiet, CaseFollows, AttemptFollows
<1> QED BY <1>6, <1>7, <1>8

LEMMA ReserveShape ==
    ASSUME IInv, NEW w \in Worker, Reserve(w)
    PROVE  TypeOK' /\ Quiet
<1> USE DEF IInv
<1> DEFINE i == wk[w].action
<1> DEFINE g == wk[w].gen
<1>1. /\ i \in Action /\ g \in Gen /\ act[i] \in ScheduledAction
      /\ act[i].status # None /\ wk[w] \in Dispatcher
      /\ wk[w].version \in Nat /\ wk[w].revision \in Nat
  BY Typed DEF Reserve, HoldsLease, Claimable, None
<1> DEFINE a == [act[i] EXCEPT !.count = act[i].count + 1]
<1>2. a \in ScheduledAction /\ a.status = act[i].status /\ a.owner = act[i].owner
  BY <1>1 DEF ScheduledAction
<1>3. act' = [act EXCEPT ![i] = a]
  BY DEF Reserve
<1> DEFINE r == [NoAttempt EXCEPT !.phase = "reserved", !.version = wk[w].version,
                                  !.revision = wk[w].revision]
<1>4. r \in Attempt /\ r.reason = None
  BY <1>1 DEF Attempt, NoAttempt
<1>5. AttSet(i, g, r)
  BY DEF Reserve, AttSet
<1> DEFINE d == [wk[w] EXCEPT !.pc = "reserved"]
<1>6. d \in Dispatcher /\ wk[w].pc # "idle" /\ d.action = wk[w].action
  BY <1>1 DEF Dispatcher, Reserve
<1>7. wk' = [wk EXCEPT ![w] = d]
  BY DEF Reserve
<1> HIDE DEF a, r, d, i, g
<1>8. act' \in [Action -> ScheduledAction] /\ \A j \in Action : Follows(j) /\ Owns(j)
  BY <1>1, <1>2, <1>3, ActPut
<1>9. /\ att' \in [Action -> [Gen -> Attempt]]
      /\ \A k \in Action, h \in Gen : AttemptFollows(k, h)
  BY <1>1, <1>4, <1>5, AttPut, AttFollows
<1>10. wk' \in [Worker -> Dispatcher] /\ \A v \in Worker : DispatcherFollows(v)
  BY <1>6, <1>7, Moves
<1>11. TypeOK'
  BY <1>8, <1>9, <1>10, Typed, Rebuild DEF Reserve
<1>12. Quiet
  BY <1>8, <1>9, <1>10 DEF Reserve, Quiet, CaseFollows
<1> QED BY <1>11, <1>12

\* A dispatcher's attempt that has begun is of an action that exists.
LEMMA AttemptedExists ==
    ASSUME IInv, NEW i \in Action, NEW g \in Gen,
           att[i][g].phase # None \/ att[i][g].outcome # None
    PROVE  act[i].status # None
<1>1. att[i][g] # NoAttempt
  BY DEF NoAttempt
<1> QED BY <1>1 DEF IInv, AttemptsHaveActions

LEMMA FailShape ==
    ASSUME IInv, NEW w \in Worker, FailBeforeRequest(w)
    PROVE  TypeOK' /\ Quiet
<1> USE DEF IInv
<1> DEFINE i == wk[w].action
<1> DEFINE g == wk[w].gen
<1>1. /\ i \in Action /\ g \in Gen /\ act[i] \in ScheduledAction /\ att[i][g] \in Attempt
      /\ act[i].status \in Claimable /\ act[i].status # None
  BY Typed DEF FailBeforeRequest, HoldsLease, Claimable, None
<1> DEFINE r == [att[i][g] EXCEPT !.phase = "completed", !.outcome = "failed_before_request"]
<1>2. r \in Attempt /\ r.reason = att[i][g].reason
  BY <1>1 DEF Attempt
<1>3. AttSet(i, g, r)
  BY <1>1, Typed DEF FailBeforeRequest, AttSet
<1> DEFINE a == [act[i] EXCEPT !.status = "retryable_failed", !.owner = None,
                               !.lease = None, !.due = FALSE]
<1>4. a \in ScheduledAction /\ a.status \in Claimable /\ act[i].status \in Live
  BY <1>1 DEF ScheduledAction, Live, Claimable
<1>5. \/ act' = [act EXCEPT ![i] = a]
      \/ \E s \in {"expired", "permanent_failed"} : ActionBecomes(i, s)
  BY DEF FailBeforeRequest
<1> HIDE DEF a, r, i, g
<1>6. \A s \in {"expired", "permanent_failed"} : s \in Live \cup Terminal
  BY DEF Terminal
<1>7. act' \in [Action -> ScheduledAction] /\ \A j \in Action : Follows(j) /\ Owns(j)
  <2>1. CASE act' = [act EXCEPT ![i] = a]
    BY <1>1, <1>4, <2>1, ActPut
  <2>2. CASE \E s \in {"expired", "permanent_failed"} : ActionBecomes(i, s)
    BY <1>1, <1>6, <2>2, ClaimableFollows
  <2> QED BY <1>5, <2>1, <2>2
<1>8. /\ att' \in [Action -> [Gen -> Attempt]]
      /\ \A k \in Action, h \in Gen : AttemptFollows(k, h)
  BY <1>1, <1>2, <1>3, AttPut, AttFollows
<1>9. wk' \in [Worker -> Dispatcher] /\ \A v \in Worker : DispatcherFollows(v)
  BY BackTyped DEF FailBeforeRequest
<1>10. TypeOK'
  BY <1>7, <1>8, <1>9, Typed, Rebuild DEF FailBeforeRequest
<1>11. Quiet
  BY <1>7, <1>8, <1>9 DEF FailBeforeRequest, Quiet, CaseFollows
<1> QED BY <1>10, <1>11

\* An attempt that is closed before its request: its action is still claimable.
LEMMA CloseUnsentTyped ==
    ASSUME IInv, NEW w \in Worker, NEW s \in {"permanent_failed", "cancelled"},
           CloseUnsent(w, s)
    PROVE  /\ act' \in [Action -> ScheduledAction] /\ att' \in [Action -> [Gen -> Attempt]]
           /\ wk' \in [Worker -> Dispatcher] /\ \A v \in Worker : DispatcherFollows(v)
           /\ \A j \in Action : Follows(j) /\ Owns(j)
           /\ \A k \in Action, h \in Gen : AttemptFollows(k, h)
<1> USE DEF IInv
<1> DEFINE i == wk[w].action
<1> DEFINE g == wk[w].gen
<1>1. i \in Action /\ g \in Gen /\ att[i][g] \in Attempt
  BY Typed
<1>2. act[i].status \in Claimable /\ act[i].status # None
  <2>1. w # None
    BY EngineAssumption
  <2> QED BY <1>1, <2>1 DEF CloseUnsent, OwnedIsClaimable, Claimable, None
<1> DEFINE r == [att[i][g] EXCEPT !.phase = "completed", !.outcome = "failed_before_request"]
<1>3. r \in Attempt /\ r.reason = att[i][g].reason
  BY <1>1 DEF Attempt
<1>4. AttSet(i, g, r)
  BY <1>1, Typed DEF CloseUnsent, AttSet
<1>5. ActionBecomes(i, s) /\ Back(w)
  BY DEF CloseUnsent
<1> HIDE DEF r, i, g
<1>6. s \in Live \cup Terminal
  BY DEF Terminal
<1>7. act' \in [Action -> ScheduledAction] /\ \A j \in Action : Follows(j) /\ Owns(j)
  BY <1>1, <1>2, <1>5, <1>6, ClaimableFollows
<1> QED BY <1>1, <1>2, <1>3, <1>4, <1>5, <1>7, AttPut, AttFollows, BackTyped

LEMMA SegmentShape ==
    ASSUME IInv, NEW w \in Worker, CloseForSegmentCoupon(w)
    PROVE  TypeOK' /\ Quiet
<1> USE DEF IInv
<1>1. /\ act' \in [Action -> ScheduledAction] /\ att' \in [Action -> [Gen -> Attempt]]
      /\ wk' \in [Worker -> Dispatcher] /\ \A v \in Worker : DispatcherFollows(v)
      /\ \A j \in Action : Follows(j) /\ Owns(j)
      /\ \A k \in Action, h \in Gen : AttemptFollows(k, h)
  BY CloseUnsentTyped DEF CloseForSegmentCoupon
<1>2. "completed" \in SeqStatus /\ "cancelled" \in CaseStatus \ {"none"}
  BY DEF SeqStatus, CaseStatus
<1>3. seq' \in Sequence
  BY <1>2, EndsTyped DEF CloseForSegmentCoupon
<1>4. rc' \in Case /\ CaseFollows
  BY <1>2, CaseTyped DEF CloseForSegmentCoupon
<1>5. TypeOK'
  BY <1>1, <1>3, <1>4, Rebuild DEF CloseForSegmentCoupon, CloseUnsent
<1> QED BY <1>1, <1>4, <1>5 DEF Quiet

LEMMA TerminatedShape ==
    ASSUME IInv, NEW w \in Worker, RunTerminated(w)
    PROVE  TypeOK' /\ Quiet
<1> USE DEF IInv
<1>1. /\ act' \in [Action -> ScheduledAction] /\ att' \in [Action -> [Gen -> Attempt]]
      /\ wk' \in [Worker -> Dispatcher] /\ \A v \in Worker : DispatcherFollows(v)
      /\ \A j \in Action : Follows(j) /\ Owns(j)
      /\ \A k \in Action, h \in Gen : AttemptFollows(k, h)
  BY CloseUnsentTyped DEF RunTerminated
<1>2. /\ rc \in Case /\ rc.version + 1 \in Nat
      /\ seq \in Sequence /\ seq.revision + 1 \in Nat
  BY Typed
<1>3. seq' \in Sequence
  <2>1. [seq EXCEPT !.status = "completed", !.revision = seq.revision + 1] \in Sequence
    BY <1>2 DEF Sequence, SeqStatus
  <2> QED BY <1>2, <2>1 DEF RunTerminated
<1>4. rc' \in Case /\ CaseFollows
  <2>1. [status |-> "cancelled", version |-> rc.version + 1] \in Case
    BY <1>2 DEF Case, CaseStatus
  <2>2. rc' \in Case
    BY <1>2, <2>1 DEF RunTerminated
  <2>3. CaseFollows
    BY DEF RunTerminated, CaseFollows
  <2> QED BY <2>2, <2>3
<1>5. TypeOK'
  BY <1>1, <1>3, <1>4, Rebuild DEF RunTerminated, CloseUnsent
<1> QED BY <1>1, <1>4, <1>5 DEF Quiet

LEMMA MarkShape ==
    ASSUME IInv, NEW w \in Worker, MarkRequestStarted(w)
    PROVE  TypeOK' /\ Quiet
<1> USE DEF IInv
<1> DEFINE i == wk[w].action
<1> DEFINE g == wk[w].gen
<1>1. /\ i \in Action /\ g \in Gen /\ att[i][g] \in Attempt /\ wk[w] \in Dispatcher
      /\ act[i].status # None
  BY Typed DEF MarkRequestStarted, HoldsLease, Claimable, None
<1> DEFINE r == [att[i][g] EXCEPT !.phase = "request_started"]
<1>2. r \in Attempt /\ r.reason = att[i][g].reason
  BY <1>1 DEF Attempt
<1>3. AttSet(i, g, r)
  BY DEF MarkRequestStarted, AttSet
<1> DEFINE d == [wk[w] EXCEPT !.pc = "started"]
<1>4. d \in Dispatcher /\ wk[w].pc # "idle" /\ d.action = wk[w].action
  BY <1>1 DEF Dispatcher, MarkRequestStarted
<1>5. wk' = [wk EXCEPT ![w] = d]
  BY DEF MarkRequestStarted
<1> HIDE DEF r, d, i, g
<1>6. /\ att' \in [Action -> [Gen -> Attempt]]
      /\ \A k \in Action, h \in Gen : AttemptFollows(k, h)
  BY <1>1, <1>2, <1>3, AttPut, AttFollows
<1>7. wk' \in [Worker -> Dispatcher] /\ \A v \in Worker : DispatcherFollows(v)
  BY <1>4, <1>5, Moves
<1>8. TypeOK'
  BY <1>6, <1>7, Typed, Rebuild DEF MarkRequestStarted
<1>9. Quiet
  BY <1>6, <1>7 DEF MarkRequestStarted, Quiet, CaseFollows, Follows, Owns
<1> QED BY <1>8, <1>9

LEMMA PostShape ==
    ASSUME IInv, NEW w \in Worker, NEW delivered \in BOOLEAN,
           NEW result \in {"sent", "unknown", "blocked"}, Post(w, delivered, result)
    PROVE  TypeOK' /\ Quiet
<1> USE DEF IInv
<1> DEFINE i == wk[w].action
<1> DEFINE g == wk[w].gen
<1>1. /\ i \in Action /\ g \in Gen /\ att[i][g] \in Attempt /\ wk[w] \in Dispatcher
  BY Typed
<1>2. act[i].status # None
  BY DEF Post, DispatchersHaveActions
<1> DEFINE r == [att[i][g] EXCEPT !.delivered = delivered]
<1>3. r \in Attempt /\ r.reason = att[i][g].reason
  BY <1>1 DEF Attempt
<1>4. AttSet(i, g, r)
  BY DEF Post, AttSet
<1> DEFINE d == [wk[w] EXCEPT !.pc = "posted", !.result = result]
<1>5. d \in Dispatcher /\ wk[w].pc # "idle" /\ d.action = wk[w].action
  BY <1>1 DEF Dispatcher, Post
<1>6. wk' = [wk EXCEPT ![w] = d]
  BY DEF Post
<1> HIDE DEF r, d, i, g
<1>7. /\ att' \in [Action -> [Gen -> Attempt]]
      /\ \A k \in Action, h \in Gen : AttemptFollows(k, h)
  BY <1>1, <1>2, <1>3, <1>4, AttPut, AttFollows
<1>8. wk' \in [Worker -> Dispatcher] /\ \A v \in Worker : DispatcherFollows(v)
  BY <1>5, <1>6, Moves
<1>9. TypeOK'
  BY <1>7, <1>8, Typed, Rebuild DEF Post
<1>10. Quiet
  BY <1>7, <1>8 DEF Post, Quiet, CaseFollows, Follows, Owns
<1> QED BY <1>9, <1>10

LEMMA ReevaluationShape ==
    ASSUME IInv, NEW w \in Worker, ReevaluateNo(w) \/ FinalNo(w)
    PROVE  TypeOK' /\ Quiet
BY DecideShape DEF ReevaluateNo, FinalNo

\* What an acceptance writes into its attempt.
LEMMA AcceptedTyped ==
    ASSUME IInv, NEW i \in Action, NEW g \in Gen, Acceptable(i, g), Accepted(i, g)
    PROVE  /\ act[i].status # None
           /\ att' \in [Action -> [Gen -> Attempt]]
           /\ \A k \in Action, h \in Gen : AttemptFollows(k, h)
           /\ \A k \in Action, h \in Gen :
                 \/ att'[k][h] = att[k][h]
                 \/ act[k].status # None /\ att'[k][h].reason # "opt_out"
<1> USE DEF IInv
<1>1. act[i].status # None
  BY AttemptedExists DEF Acceptable, Unresolved, None
<1>2. att[i][g] \in Attempt
  BY Typed
<1> DEFINE q == IF att[i][g].phase = "completed" THEN "accepted" ELSE None
<1>3. q \in {"accepted", None}
  OBVIOUS
<1> DEFINE r == [att[i][g] EXCEPT !.phase = "completed", !.outcome = "accepted",
                                  !.reason = None, !.window = None, !.resolution = q]
<1>4. AttSet(i, g, r)
  BY <1>2, Typed DEF Accepted, AttSet
<1> HIDE DEF q
<1>5. r \in Attempt /\ r.reason = None
  BY <1>2, <1>3 DEF Attempt
<1> HIDE DEF r
<1>6. /\ att' \in [Action -> [Gen -> Attempt]] /\ att'[i][g] = r
      /\ \A k \in Action, h \in Gen : k # i \/ h # g => att'[k][h] = att[k][h]
  BY <1>4, <1>5, AttPut
<1>7. \A k \in Action, h \in Gen : AttemptFollows(k, h)
  BY <1>1, <1>4, <1>5, AttFollows
<1>8. None # "opt_out"
  BY DEF None
<1> QED BY <1>1, <1>5, <1>6, <1>7, <1>8

LEMMA SuccessorTyped ==
    ASSUME TypeOK, NEW i \in Action, AcceptWithSuccessor(i)
    PROVE  /\ rc' = [status |-> "active", version |-> rc.version + 1]
           /\ rc' \in Case /\ seq' \in Sequence
           /\ act' \in [Action -> ScheduledAction]
           /\ act'[i].status = "accepted_by_chatwoot" /\ act'[i].owner = None
           /\ i + 1 \in Action => act'[i + 1].status = "pending" /\ act'[i + 1].owner = None
           /\ \A j \in Action \ {i, i + 1} : act'[j] = act[j]
<1>1. /\ rc.version + 1 \in Nat /\ seq \in Sequence
      /\ seq.revision + 1 \in Nat /\ seq.accepted + 1 \in Nat
      /\ act[i] \in ScheduledAction /\ act \in [Action -> ScheduledAction]
  BY Typed
<1>2. rc' = [status |-> "active", version |-> rc.version + 1] /\ rc' \in Case
  BY <1>1 DEF AcceptWithSuccessor, Case, CaseStatus
<1>3. seq' \in Sequence
  <2>1. [seq EXCEPT !.revision = seq.revision + 1, !.accepted = seq.accepted + 1] \in Sequence
    BY <1>1 DEF Sequence
  <2> QED BY <2>1 DEF AcceptWithSuccessor
<1> DEFINE a == [act[i] EXCEPT !.status = "accepted_by_chatwoot", !.owner = None, !.lease = None]
<1> DEFINE b == NewAction(rc.version + 1)
<1>4. a \in ScheduledAction /\ a.status = "accepted_by_chatwoot" /\ a.owner = None
  BY <1>1 DEF ScheduledAction, Terminal
<1>5. b \in ScheduledAction /\ b.status = "pending" /\ b.owner = None
  BY <1>1, NewActions
<1>6. i # i + 1
  BY DEF Action
<1>7. act' = [[act EXCEPT ![i] = a] EXCEPT ![i + 1] = b]
  BY <1>1 DEF AcceptWithSuccessor
<1> HIDE DEF a, b
<1>8. act' \in [Action -> ScheduledAction]
  BY <1>1, <1>4, <1>5, <1>7
<1>9. /\ act'[i] = a /\ \A j \in Action \ {i, i + 1} : act'[j] = act[j]
      /\ i + 1 \in Action => act'[i + 1] = b
  BY <1>1, <1>6, <1>7
<1> QED BY <1>2, <1>3, <1>4, <1>5, <1>8, <1>9

\* An acceptance advances the sequence, or is quiet.
LEMMA AcceptanceShape ==
    ASSUME IInv, NEW i \in Action, NEW g \in Gen, NEW expired \in BOOLEAN,
           RecordAcceptance(i, g, expired), UNCHANGED <<timeUp, bounds>>,
           wk' \in [Worker -> Dispatcher], \A v \in Worker : DispatcherFollows(v)
    PROVE  TypeOK' /\ (Quiet \/ Advances(i))
<1> USE DEF IInv
<1>1. /\ act[i].status # None
      /\ att' \in [Action -> [Gen -> Attempt]]
      /\ \A k \in Action, h \in Gen : AttemptFollows(k, h)
      /\ \A k \in Action, h \in Gen :
            \/ att'[k][h] = att[k][h]
            \/ act[k].status # None /\ att'[k][h].reason # "opt_out"
  BY AcceptedTyped DEF RecordAcceptance
<1>2. /\ optOut' \in {"none", "unmatched", "applied"}
      /\ purchase' \in {"none", "known", "other_offer", "ambiguous", "applied"}
      /\ conversation' \in {"none", "open", "paused"}
  BY DEF RecordAcceptance, LinksConversation, TypeOK
<1>3. /\ timeUp' \in BOOLEAN
      /\ repeats' \in 0..MaxRepeats /\ handoffs' \in 0..MaxHandoffs
  BY DEF bounds, TypeOK
<1>4. AnchorMoves => replied' \in {"never", "after_anchor", "before_anchor"}
  BY DEF AnchorMoves, TypeOK
<1>5. ASSUME rc' \in Case, seq' \in Sequence, act' \in [Action -> ScheduledAction],
             AnchorMoves \/ replied' = replied
      PROVE  TypeOK'
  BY <1>1, <1>2, <1>3, <1>4, <1>5 DEF TypeOK
<1>6. ASSUME CaseOpen, act[i].status \in Live, AcceptWithSuccessor(i)
      PROVE  TypeOK' /\ Advances(i)
  <2>1. /\ rc' = [status |-> "active", version |-> rc.version + 1]
        /\ rc' \in Case /\ seq' \in Sequence
        /\ act' \in [Action -> ScheduledAction]
        /\ act'[i].status = "accepted_by_chatwoot" /\ act'[i].owner = None
        /\ i + 1 \in Action => act'[i + 1].status = "pending" /\ act'[i + 1].owner = None
        /\ \A j \in Action \ {i, i + 1} : act'[j] = act[j]
    BY <1>6, SuccessorTyped
  <2>2. TypeOK'
    BY <1>5, <1>6, <2>1 DEF AcceptWithSuccessor
  <2>3. CaseFollows
    BY <1>6, <2>1 DEF CaseFollows, CaseOpen
  <2> QED BY <1>1, <1>6, <2>1, <2>2, <2>3 DEF Advances
<1>7. "accepted_by_chatwoot" \in Terminal /\ "accepted_by_chatwoot" \notin Live
  BY DEF Terminal, Live, Claimable
<1>8. ActionBecomes(i, "accepted_by_chatwoot") =>
          /\ act' \in [Action -> ScheduledAction]
          /\ \A j \in Action : Follows(j) /\ Owns(j)
  BY <1>1, <1>7, BecomesTyped, BecomesFollows
<1>9. ASSUME CaseOpen, AcceptLast(i)
      PROVE  TypeOK' /\ Quiet
  <2>1. /\ rc.version + 2 \in Nat /\ seq.revision + 2 \in Nat /\ seq.accepted + 1 \in Nat
    BY Typed
  <2>2. rc' \in Case /\ rc'.status = "sequence_exhausted"
    BY <1>9, <2>1 DEF AcceptLast, Case, CaseStatus
  <2>3. seq' \in Sequence
    BY <1>9, <2>1 DEF AcceptLast, Sequence, SeqStatus
  <2>4. TypeOK'
    BY <1>5, <1>8, <1>9, <2>2, <2>3 DEF AcceptLast
  <2>5. CaseFollows
    BY <1>9, <2>2 DEF CaseFollows, CaseOpen
  <2> QED BY <1>1, <1>8, <1>9, <2>4, <2>5 DEF Quiet, AcceptLast
<1>10. ASSUME AcceptOnly(i)
       PROVE  TypeOK' /\ Quiet
  <2>1. TypeOK'
    BY <1>5, <1>8, <1>10, Typed DEF AcceptOnly
  <2> QED BY <1>1, <1>8, <1>10, <2>1 DEF Quiet, AcceptOnly, CaseFollows
<1>11. Authoritative(i, g) => CaseOpen /\ act[i].status \in Live
  BY DEF Authoritative, Current
<1> QED BY <1>6, <1>9, <1>10, <1>11 DEF RecordAcceptance

LEMMA SentShape ==
    ASSUME IInv, NEW w \in Worker, FinalizeSent(w)
    PROVE  TypeOK' /\ (Quiet \/ \E i \in Action : Advances(i))
<1>1. TypeOK /\ wk[w].action \in Action /\ wk[w].gen \in Gen
  BY Typed DEF IInv
<1>2. wk' \in [Worker -> Dispatcher] /\ \A v \in Worker : DispatcherFollows(v)
  BY <1>1, BackTyped DEF FinalizeSent
<1>3. FALSE \in BOOLEAN
  OBVIOUS
<1> QED BY <1>1, <1>2, <1>3, AcceptanceShape DEF FinalizeSent

\* The opted-out attempt is of the last step of its sequence, so even an accepted action
\* may be cancelled.
LEMMA OptedOutTyped ==
    ASSUME IInv, NEW i \in Action, NEW g \in Gen, OptedOutNotApplied(i, g)
    PROVE  /\ act' \in [Action -> ScheduledAction] /\ att' \in [Action -> [Gen -> Attempt]]
           /\ \A j \in Action : Follows(j) /\ Owns(j)
           /\ \A k \in Action, h \in Gen : AttemptFollows(k, h)
<1> USE DEF IInv
<1>1. att[i][g] \in Attempt
  BY Typed
<1>2. act[i].status # None
  BY AttemptedExists DEF OptedOutNotApplied, Unresolved, None
<1>3. \A k \in Action : k > i => act[k].status = None
  BY DEF OptedOutNotApplied, OptedOutIsLast
<1> DEFINE r == [att[i][g] EXCEPT !.outcome = "rejected", !.resolution = "not_applied",
                                  !.window = None]
<1>4. r \in Attempt /\ r.reason = att[i][g].reason
  BY <1>1 DEF Attempt
<1>5. AttSet(i, g, r)
  BY <1>1, Typed DEF OptedOutNotApplied, AttSet
<1> HIDE DEF r
<1>6. "cancelled" \in Terminal /\ "cancelled" \notin Live
  BY DEF Terminal, Live, Claimable
<1>7. ActionBecomes(i, "cancelled")
  BY DEF OptedOutNotApplied
<1>8. act' \in [Action -> ScheduledAction] /\ \A j \in Action : Follows(j) /\ Owns(j)
  BY <1>2, <1>3, <1>6, <1>7, BecomesTyped, BecomesFollows
<1> QED BY <1>2, <1>4, <1>5, <1>8, AttPut, AttFollows

\* An attempt that ends after its request, in an outcome that is not an acceptance.
LEMMA EndedTyped ==
    ASSUME IInv, NEW i \in Action, NEW g \in Gen, att[i][g].phase = "request_started",
           NEW r \in Attempt, r.reason = att[i][g].reason, AttSet(i, g, r),
           NEW s \in {"delivery_unknown", "permanent_failed"},
           \/ act[i].status \in Live /\ ActionBecomes(i, s)
           \/ ActionBecomes(i, act[i].status)
    PROVE  /\ act' \in [Action -> ScheduledAction] /\ att' \in [Action -> [Gen -> Attempt]]
           /\ \A j \in Action : Follows(j) /\ Owns(j)
           /\ \A k \in Action, h \in Gen : AttemptFollows(k, h)
<1> USE DEF IInv
<1>1. act[i].status # None
  BY AttemptedExists DEF None
<1>2. att' \in [Action -> [Gen -> Attempt]] /\ \A k \in Action, h \in Gen : AttemptFollows(k, h)
  BY <1>1, AttPut, AttFollows
<1>3. CASE act[i].status \in Live /\ ActionBecomes(i, s)
  <2>1. /\ act[i].status \notin Terminal /\ act[i].status # "accepted_by_chatwoot"
        /\ s \in Live \cup Terminal
    BY <1>3 DEF Live, Claimable, Terminal
  <2> QED BY <1>1, <1>2, <1>3, <2>1, BecomesTyped, BecomesFollows
<1>4. CASE ActionBecomes(i, act[i].status)
  BY <1>2, <1>4, StatusKept
<1> QED BY <1>3, <1>4

LEMMA UnknownShape ==
    ASSUME IInv, NEW w \in Worker, FinalizeUnknown(w)
    PROVE  TypeOK' /\ Quiet
<1> USE DEF IInv
<1> DEFINE i == wk[w].action
<1> DEFINE g == wk[w].gen
<1>1. i \in Action /\ g \in Gen /\ att[i][g] \in Attempt
  BY Typed
<1> DEFINE r == [att[i][g] EXCEPT !.phase = "completed", !.outcome = "delivery_unknown",
                                  !.window = "open"]
<1>2. r \in Attempt /\ r.reason = att[i][g].reason
  BY <1>1 DEF Attempt
<1>3. AttSet(i, g, r) /\ att[i][g].phase = "request_started"
  BY <1>1, Typed DEF FinalizeUnknown, AttSet
<1>4. \/ act[i].status \in Live /\ ActionBecomes(i, "delivery_unknown")
      \/ ActionBecomes(i, act[i].status)
  BY DEF FinalizeUnknown, Authoritative, Current
<1> HIDE DEF r, i, g
<1>5. /\ act' \in [Action -> ScheduledAction] /\ att' \in [Action -> [Gen -> Attempt]]
      /\ \A j \in Action : Follows(j) /\ Owns(j)
      /\ \A k \in Action, h \in Gen : AttemptFollows(k, h)
  <2>1. "delivery_unknown" \in {"delivery_unknown", "permanent_failed"}
    OBVIOUS
  <2> QED BY <1>1, <1>2, <1>3, <1>4, <2>1, EndedTyped
<1>6. wk' \in [Worker -> Dispatcher] /\ \A v \in Worker : DispatcherFollows(v)
  BY BackTyped DEF FinalizeUnknown
<1>7. TypeOK'
  BY <1>5, <1>6, Typed, Rebuild DEF FinalizeUnknown
<1> QED BY <1>5, <1>6, <1>7 DEF FinalizeUnknown, Quiet, CaseFollows

LEMMA BlockedShape ==
    ASSUME IInv, NEW w \in Worker, FinalizeBlocked(w)
    PROVE  TypeOK' /\ Quiet
<1> USE DEF IInv
<1> DEFINE i == wk[w].action
<1> DEFINE g == wk[w].gen
<1>1. i \in Action /\ g \in Gen /\ att[i][g] \in Attempt
  BY Typed
<1> DEFINE r == [att[i][g] EXCEPT !.phase = "completed", !.outcome = "rejected"]
<1>2. r \in Attempt /\ r.reason = att[i][g].reason
  BY <1>1 DEF Attempt
<1>3. \/ /\ AttSet(i, g, r) /\ att[i][g].phase = "request_started"
         /\ \/ act[i].status \in Live /\ ActionBecomes(i, "permanent_failed")
            \/ ActionBecomes(i, act[i].status)
      \/ OptedOutNotApplied(i, g)
  BY <1>1, Typed DEF FinalizeBlocked, Authoritative, Current, AttSet
<1> HIDE DEF r, i, g
<1>4. /\ act' \in [Action -> ScheduledAction] /\ att' \in [Action -> [Gen -> Attempt]]
      /\ \A j \in Action : Follows(j) /\ Owns(j)
      /\ \A k \in Action, h \in Gen : AttemptFollows(k, h)
  <2>1. CASE OptedOutNotApplied(i, g)
    BY <1>1, <2>1, OptedOutTyped
  <2>2. CASE ~OptedOutNotApplied(i, g)
    <3>1. "permanent_failed" \in {"delivery_unknown", "permanent_failed"}
      OBVIOUS
    <3> QED BY <1>1, <1>2, <1>3, <2>2, <3>1, EndedTyped
  <2> QED BY <2>1, <2>2
<1>5. wk' \in [Worker -> Dispatcher] /\ \A v \in Worker : DispatcherFollows(v)
  BY BackTyped DEF FinalizeBlocked
<1>6. TypeOK'
  BY <1>4, <1>5, Typed, Rebuild DEF FinalizeBlocked
<1> QED BY <1>4, <1>5, <1>6 DEF FinalizeBlocked, Quiet, CaseFollows

\* A stop, whatever it writes about the buyer: actions, attempts and case are what count.
LEMMA StopShape ==
    ASSUME IInv, StopActions, NEW S,
           NEW reason \in {None, "opt_out", "handoff"},
           NEW window \in {None, "open", "closed", "infinity"},
           StopAttempts(S, reason, window), S \subseteq Live,
           reason = "opt_out" => rc'.status = "cancelled",
           rc' \in Case, seq' \in Sequence, CaseFollows,
           wk' \in [Worker -> Dispatcher], \A v \in Worker : DispatcherFollows(v),
           optOut' \in {"none", "unmatched", "applied"},
           purchase' \in {"none", "known", "other_offer", "ambiguous", "applied"},
           conversation' \in {"none", "open", "paused"},
           replied' = replied, timeUp' = timeUp,
           repeats' = repeats, handoffs' \in 0..MaxHandoffs
    PROVE  TypeOK' /\ Quiet
<1> USE DEF IInv
<1>1. act' \in [Action -> ScheduledAction] /\ \A j \in Action : Follows(j) /\ Owns(j)
  BY StopActionsTyped
<1>2. /\ att' \in [Action -> [Gen -> Attempt]]
      /\ \A i \in Action, g \in Gen :
            \/ att'[i][g] = att[i][g]
            \/ act[i].status \in S /\ att'[i][g].reason \in {reason, None}
  BY StopAttemptsTyped
<1>3. \A i \in Action, g \in Gen : AttemptFollows(i, g)
  <2>1. None # "opt_out" /\ None \notin Live
    BY DEF None, Live, Claimable
  <2> QED BY <1>2, <2>1 DEF AttemptFollows
<1>4. TypeOK'
  BY <1>1, <1>2 DEF TypeOK
<1> QED BY <1>1, <1>3, <1>4 DEF Quiet

LEMMA PurchaseShape ==
    ASSUME IInv, ApplyPurchase \/ AmbiguousPurchase
    PROVE  TypeOK' /\ Quiet
<1> USE DEF IInv
<1>1. /\ StopActions /\ StopAttempts(Claimable, None, "open")
      /\ wk' = wk /\ optOut' = optOut /\ conversation' = conversation /\ replied' = replied
      /\ timeUp' = timeUp /\ repeats' = repeats /\ handoffs' = handoffs
      /\ purchase' \in {"applied", "ambiguous"}
  BY DEF ApplyPurchase, AmbiguousPurchase, bounds
<1>2. rc.version + 1 \in Nat /\ seq.revision + 1 \in Nat /\ seq \in Sequence
  BY Typed
<1>3. rc' \in Case /\ CaseFollows
  <2>1. CASE ApplyPurchase
    <3>1. rc' \in Case
      BY <1>2, <2>1 DEF ApplyPurchase, Case, CaseStatus
    <3>2. CaseFollows
      BY <2>1 DEF ApplyPurchase, CaseFollows
    <3> QED BY <3>1, <3>2
  <2>2. CASE AmbiguousPurchase
    <3>1. "paused" \in CaseStatus \ {"none"}
      BY DEF CaseStatus
    <3> QED BY <2>2, <3>1, CaseTyped DEF AmbiguousPurchase
  <2> QED BY <2>1, <2>2
<1>4. seq' \in Sequence
  <2>1. CASE ApplyPurchase
    <3>1. [seq EXCEPT !.status = "completed", !.revision = seq.revision + 1] \in Sequence
      BY <1>2 DEF Sequence, SeqStatus
    <3> QED BY <2>1, <3>1 DEF ApplyPurchase
  <2>2. CASE AmbiguousPurchase
    <3>1. "paused" \in SeqStatus
      BY DEF SeqStatus
    <3> QED BY <2>2, <3>1, EndsTyped DEF AmbiguousPurchase
  <2> QED BY <2>1, <2>2
<1>5. \A v \in Worker : DispatcherFollows(v)
  BY <1>1 DEF DispatcherFollows
<1>6. Claimable \subseteq Live /\ None # "opt_out"
  BY DEF Live, None
<1>7. /\ optOut' \in {"none", "unmatched", "applied"}
      /\ purchase' \in {"none", "known", "other_offer", "ambiguous", "applied"}
      /\ conversation' \in {"none", "open", "paused"}
      /\ handoffs' \in 0..MaxHandoffs /\ wk' \in [Worker -> Dispatcher]
  BY <1>1 DEF TypeOK
<1> QED BY <1>1, <1>3, <1>4, <1>5, <1>6, <1>7, StopShape

LEMMA OptOutShape ==
    ASSUME IInv, ApplyOptOut
    PROVE  TypeOK' /\ Quiet
<1> USE DEF IInv
<1>1. /\ optOut' = "applied" /\ conversation' \in {conversation, "paused"}
      /\ wk' = wk /\ purchase' = purchase /\ replied' = replied
      /\ timeUp' = timeUp /\ repeats' = repeats /\ handoffs' = handoffs
  BY DEF ApplyOptOut, bounds
<1>2. /\ optOut' \in {"none", "unmatched", "applied"}
      /\ purchase' \in {"none", "known", "other_offer", "ambiguous", "applied"}
      /\ conversation' \in {"none", "open", "paused"}
      /\ handoffs' \in 0..MaxHandoffs /\ wk' \in [Worker -> Dispatcher]
  BY <1>1 DEF TypeOK
<1>3. \A v \in Worker : DispatcherFollows(v)
  BY <1>1 DEF DispatcherFollows
<1>4. CASE rc.status \in {"grace_period", "active", "paused"}
  <2>1. /\ StopActions /\ StopAttempts(Live, "opt_out", "open")
        /\ rc' = [status |-> "cancelled", version |-> rc.version + 1]
        /\ \/ seq' = [seq EXCEPT !.status = "cancelled", !.revision = @ + 1]
           \/ seq' = seq
    BY <1>4 DEF ApplyOptOut
  <2>2. rc.version + 1 \in Nat /\ seq.revision + 1 \in Nat /\ seq \in Sequence
    BY Typed
  <2>3. rc' \in Case /\ rc'.status = "cancelled" /\ CaseFollows
    BY <2>1, <2>2 DEF Case, CaseStatus, CaseFollows
  <2>4. [seq EXCEPT !.status = "cancelled", !.revision = seq.revision + 1] \in Sequence
    BY <2>2 DEF Sequence, SeqStatus
  <2>5. seq' \in Sequence
    BY <2>1, <2>2, <2>4
  <2> QED BY <1>1, <1>2, <1>3, <2>1, <2>3, <2>5, StopShape
<1>5. CASE rc.status \notin {"grace_period", "active", "paused"}
  <2>1. UNCHANGED <<rc, seq, act, att>>
    BY <1>5 DEF ApplyOptOut
  <2>2. TypeOK'
    BY <1>1, <1>2, <2>1 DEF TypeOK
  <2> QED BY <1>3, <2>1, <2>2, NothingMoves
<1> QED BY <1>4, <1>5

LEMMA HandoffShape ==
    ASSUME IInv, HandoffByOperator \/ \E w \in Worker : HandoffByAgent(w)
    PROVE  TypeOK' /\ Quiet
<1> USE DEF IInv
<1>1. Handoff /\ handoffs' \in 0..MaxHandoffs
  <2>1. CASE HandoffByOperator
    BY <2>1, EngineAssumption DEF HandoffByOperator, TypeOK
  <2>2. CASE \E w \in Worker : HandoffByAgent(w)
    BY <2>2 DEF HandoffByAgent, TypeOK
  <2> QED BY <2>1, <2>2
<1>2. wk' \in [Worker -> Dispatcher] /\ \A v \in Worker : DispatcherFollows(v)
  <2>1. CASE HandoffByOperator
    BY <2>1, Typed DEF HandoffByOperator, DispatcherFollows
  <2>2. CASE \E w \in Worker : HandoffByAgent(w)
    BY <2>2, BackTyped DEF HandoffByAgent
  <2> QED BY <2>1, <2>2
<1>3. rc.version + 1 \in Nat /\ seq.revision + 1 \in Nat /\ seq \in Sequence /\ rc \in Case
  BY Typed
<1>4. rc' \in Case /\ CaseFollows
  <2>1. rc' \in Case
    BY <1>1, <1>3 DEF Handoff, Case, CaseStatus
  <2>2. CaseFollows
    BY <1>1 DEF Handoff, CaseFollows
  <2> QED BY <2>1, <2>2
<1>5. seq' \in Sequence
  <2>1. [seq EXCEPT !.status = "paused", !.revision = seq.revision + 1] \in Sequence
    BY <1>3 DEF Sequence, SeqStatus
  <2> QED BY <1>1, <1>3, <2>1 DEF Handoff
<1>6. /\ optOut' = optOut /\ purchase' = purchase /\ replied' = replied
      /\ conversation' = "paused" /\ timeUp' = timeUp /\ repeats' = repeats
      /\ StopActions /\ StopAttempts(Live, "handoff", "infinity")
  BY <1>1 DEF Handoff
<1>7. /\ optOut' \in {"none", "unmatched", "applied"}
      /\ purchase' \in {"none", "known", "other_offer", "ambiguous", "applied"}
      /\ conversation' \in {"none", "open", "paused"}
  BY <1>6 DEF TypeOK
<1> QED BY <1>1, <1>2, <1>4, <1>5, <1>6, <1>7, StopShape

LEMMA RepeatShape ==
    ASSUME IInv, RepeatPaymentFailure
    PROVE  TypeOK' /\ Quiet
<1> USE DEF IInv
<1>1. rc \in Case /\ rc.version + 1 \in Nat
  BY Typed
<1>2. rc' \in Case /\ rc'.status = rc.status
  <2>1. /\ [rc EXCEPT !.version = rc.version + 1] \in Case
        /\ [rc EXCEPT !.version = rc.version + 1].status = rc.status
    BY <1>1 DEF Case
  <2> QED BY <2>1 DEF RepeatPaymentFailure
<1>3. ASSUME NEW i \in Action
      PROVE  /\ act'[i] \in ScheduledAction
             /\ act'[i].status = act[i].status /\ act'[i].owner = act[i].owner
  <2>1. act[i] \in ScheduledAction
    BY Typed
  <2>2. CASE act[i].status \notin Claimable
    <3>1. act'[i] = act[i]
      BY <2>2 DEF RepeatPaymentFailure
    <3> QED BY <2>1, <3>1
  <2>3. CASE act[i].status \in Claimable
    <3> DEFINE d == act[i].due /\ (i > 1 \/ seq.status # "active")
    <3>1. act'[i] = [act[i] EXCEPT !.version = rc.version + 1, !.due = d]
      BY <2>3 DEF RepeatPaymentFailure
    <3>2. d \in BOOLEAN
      OBVIOUS
    <3> HIDE DEF d
    <3> QED BY <1>1, <2>1, <3>1, <3>2 DEF ScheduledAction
  <2> QED BY <2>2, <2>3
<1>4. act' = [i \in Action |-> act'[i]]
  BY DEF RepeatPaymentFailure
<1>5. act' \in [Action -> ScheduledAction]
  BY <1>3, <1>4
<1>6. UNCHANGED <<seq, att, wk, buyer, timeUp, handoffs>> /\ repeats' \in 0..MaxRepeats
  <2>1. repeats \in 0..MaxRepeats /\ MaxRepeats \in Nat
    BY EngineAssumption DEF TypeOK
  <2>2. repeats < MaxRepeats /\ repeats' = repeats + 1
    BY DEF RepeatPaymentFailure
  <2>3. UNCHANGED <<seq, att, wk, buyer, timeUp, handoffs>>
    BY DEF RepeatPaymentFailure
  <2> QED BY <2>1, <2>2, <2>3
<1>7. TypeOK'
  BY <1>2, <1>5, <1>6 DEF TypeOK, buyer
<1> QED BY <1>2, <1>3, <1>6, <1>7
        DEF Quiet, CaseFollows, Follows, Owns, AttemptFollows, DispatcherFollows

\* What the buyer and the conversation do without touching the case.
LEMMA BuyerShape ==
    ASSUME IInv, KeepPurchase \/ BuyOtherOffer \/ RecordOptOut \/ Conversation
    PROVE  TypeOK' /\ Quiet
<1> USE DEF IInv
<1>1. UNCHANGED <<rc, seq, act, att, wk, timeUp, bounds>>
  BY DEF KeepPurchase, BuyOtherOffer, RecordOptOut, Conversation, BuyerReplies,
         InboundHandoff, ResumeConversation
<1>2. /\ optOut' \in {"none", "unmatched", "applied"}
      /\ purchase' \in {"none", "known", "other_offer", "ambiguous", "applied"}
      /\ conversation' \in {"none", "open", "paused"}
      /\ replied' \in {"never", "after_anchor", "before_anchor"}
  BY DEF TypeOK, KeepPurchase, BuyOtherOffer, RecordOptOut, Conversation, BuyerReplies,
         InboundHandoff, ResumeConversation
<1>3. TypeOK'
  BY <1>1, <1>2 DEF TypeOK, bounds
<1> QED BY <1>1, <1>3, NothingMoves DEF DispatcherFollows

\* What the operator settles without an acceptance.
LEMMA NotAppliedShape ==
    ASSUME IInv, NEW i \in Action, NEW g \in Gen, ReconcileNotApplied(i, g)
    PROVE  TypeOK' /\ Quiet
<1> USE DEF IInv
<1>1. att[i][g] \in Attempt
  BY Typed
<1>2. act[i].status # None
  BY AttemptedExists DEF ReconcileNotApplied, Unresolved, None
<1>3. /\ act' \in [Action -> ScheduledAction] /\ att' \in [Action -> [Gen -> Attempt]]
      /\ \A j \in Action : Follows(j) /\ Owns(j)
      /\ \A k \in Action, h \in Gen : AttemptFollows(k, h)
  <2>1. CASE OptedOutNotApplied(i, g)
    BY <2>1, OptedOutTyped
  <2>2. CASE ~OptedOutNotApplied(i, g)
    <3> DEFINE r == [att[i][g] EXCEPT !.outcome = "rejected", !.reason = None,
                                      !.resolution = "not_applied", !.window = None]
    <3>1. r \in Attempt /\ r.reason = None
      BY <1>1 DEF Attempt
    <3>2. att' = [att EXCEPT ![i][g].outcome = "rejected", ![i][g].reason = None,
                             ![i][g].resolution = "not_applied", ![i][g].window = None]
      BY <2>2 DEF ReconcileNotApplied
    <3>3. AttSet(i, g, r)
      BY <1>1, <3>2, Typed DEF AttSet
    <3> HIDE DEF r
    <3>4. att' \in [Action -> [Gen -> Attempt]] /\ \A k \in Action, h \in Gen : AttemptFollows(k, h)
      BY <1>2, <3>1, <3>3, AttPut, AttFollows
    <3> DEFINE a == [act[i] EXCEPT !.status = "retryable_failed", !.owner = None,
                                   !.lease = None, !.due = FALSE]
    <3>5. act[i] \in ScheduledAction
      BY Typed
    <3>6. a \in ScheduledAction /\ a.status \in Claimable
      BY <3>5 DEF ScheduledAction, Live, Claimable
    <3>7. \/ act' = [act EXCEPT ![i] = a] /\ act[i].status \in Live
          \/ ActionBecomes(i, act[i].status)
      BY <2>2 DEF ReconcileNotApplied, Current
    <3> HIDE DEF a
    <3>8. act' \in [Action -> ScheduledAction] /\ \A j \in Action : Follows(j) /\ Owns(j)
      BY <3>6, <3>7, ActPut, StatusKept
    <3> QED BY <3>4, <3>8
  <2> QED BY <2>1, <2>2
<1>4. TypeOK'
  BY <1>3, Typed, Rebuild DEF ReconcileNotApplied
<1> QED BY <1>3, <1>4 DEF ReconcileNotApplied, Quiet, CaseFollows, DispatcherFollows

LEMMA EscalatedShape ==
    ASSUME IInv, NEW i \in Action, NEW g \in Gen, ReconcileEscalated(i, g)
    PROVE  TypeOK' /\ Quiet
<1> USE DEF IInv
<1>1. att[i][g] \in Attempt
  BY Typed
<1>2. act[i].status # None
  BY AttemptedExists DEF ReconcileEscalated, Unresolved, None
<1> DEFINE r == [att[i][g] EXCEPT !.resolution = "escalated"]
<1>3. r \in Attempt /\ r.reason = att[i][g].reason
  BY <1>1 DEF Attempt
<1>4. AttSet(i, g, r)
  BY DEF ReconcileEscalated, AttSet
<1> HIDE DEF r
<1>5. att' \in [Action -> [Gen -> Attempt]] /\ \A k \in Action, h \in Gen : AttemptFollows(k, h)
  BY <1>2, <1>3, <1>4, AttPut, AttFollows
<1>6. act' \in [Action -> ScheduledAction] /\ \A j \in Action : Follows(j) /\ Owns(j)
  BY StatusKept DEF ReconcileEscalated
<1>7. "paused" \in SeqStatus /\ "paused" \in CaseStatus \ {"none"}
  BY DEF SeqStatus, CaseStatus
<1>8. seq' \in Sequence /\ rc' \in Case /\ CaseFollows
  BY <1>7, EndsTyped, CaseTyped DEF ReconcileEscalated
<1>9. TypeOK'
  BY <1>5, <1>6, <1>8, Typed, Rebuild DEF ReconcileEscalated
<1> QED BY <1>5, <1>6, <1>8, <1>9 DEF ReconcileEscalated, Quiet, DispatcherFollows

LEMMA ReconcileShape ==
    ASSUME IInv, NEW i \in Action, NEW g \in Gen, Reconcile(i, g)
    PROVE  TypeOK' /\ (Quiet \/ Advances(i))
<1> USE DEF IInv
<1>1. att[i][g] \in Attempt
  BY Typed
<1>2. act[i].status # None
  BY AttemptedExists
     DEF Reconcile, ReconcileAccepted, ReconcileNotApplied, ReconcileEscalated, Unresolved, None
<1>3. CASE ReconcileAccepted(i, g)
  <2>1. timeUp \in BOOLEAN /\ wk' \in [Worker -> Dispatcher]
    BY <1>3 DEF ReconcileAccepted, TypeOK
  <2>2. \A v \in Worker : DispatcherFollows(v)
    BY <1>3 DEF ReconcileAccepted, DispatcherFollows
  <2> QED BY <1>3, <2>1, <2>2, AcceptanceShape DEF ReconcileAccepted
<1>4. CASE ReconcileNotApplied(i, g)
  BY <1>4, NotAppliedShape
<1>5. CASE ReconcileEscalated(i, g)
  BY <1>5, EscalatedShape
<1> QED BY <1>3, <1>4, <1>5 DEF Reconcile
-----------------------------------------------------------------------------
\* Every step is quiet, plans the case, or advances the sequence by one acceptance.
LEMMA StepShape ==
    ASSUME IInv, [Next]_vars
    PROVE  TypeOK' /\ (Quiet \/ Plans \/ \E i \in Action : Advances(i))
<1>1. ASSUME NEW w \in Worker, DispatcherStep(w) \/ Abandon(w)
      PROVE  TypeOK' /\ (Quiet \/ \E i \in Action : Advances(i))
  <2>1. CASE \E i \in Action : Claim(w, i)
    BY <2>1, ClaimShape
  <2>2. CASE ReevaluateNo(w) \/ FinalNo(w)
    BY <2>2, ReevaluationShape
  <2>3. CASE ReevaluateYes(w) \/ Abandon(w) \/ ReadClock(w) \/ FinalYes(w)
    BY <2>3, PositionShape
  <2>4. CASE Reserve(w) \/ FailBeforeRequest(w) \/ MarkRequestStarted(w)
    BY <2>4, ReserveShape, FailShape, MarkShape
  <2>5. CASE HandoffByAgent(w)
    BY <2>5, HandoffShape
  <2>6. CASE CloseForSegmentCoupon(w) \/ RunTerminated(w)
    BY <2>6, SegmentShape, TerminatedShape
  <2>7. CASE \E delivered \in BOOLEAN, result \in {"sent", "unknown", "blocked"} :
                Post(w, delivered, result)
    BY <2>7, PostShape
  <2>8. CASE FinalizeSent(w) \/ FinalizeUnknown(w) \/ FinalizeBlocked(w)
    BY <2>8, SentShape, UnknownShape, BlockedShape
  <2> QED BY <1>1, <2>1, <2>2, <2>3, <2>4, <2>5, <2>6, <2>7, <2>8 DEF DispatcherStep
<1>2. CASE Planning
  BY <1>2, PlanningShape
<1>3. CASE \/ TimeUp
           \/ \E i \in Action : BecomesDue(i) \/ LeaseLapses(i)
           \/ \E i \in Action, g \in Gen : WindowCloses(i, g)
  BY <1>3, TimeShape
<1>4. CASE \E i \in Action : SweepExpired(i)
  BY <1>4, SweepShape
<1>5. CASE \E i \in Action, g \in Gen : Reconcile(i, g)
  BY <1>5, ReconcileShape
<1>6. CASE Stop \/ Conversation
  BY <1>6, PurchaseShape, OptOutShape, HandoffShape, RepeatShape, BuyerShape DEF Stop
<1>7. CASE UNCHANGED vars
  <2>1. TypeOK'
    BY <1>7 DEF IInv, TypeOK, vars, buyer, bounds
  <2> QED BY <1>7, <2>1, NothingMoves DEF vars, DispatcherFollows
<1> QED BY <1>1, <1>2, <1>3, <1>4, <1>5, <1>6, <1>7 DEF Next

\* The inductive invariant: the actions of a sequence are a run of accepted ones and one
\* more, and what else points at an action (an attempt, an owner, a dispatcher, an opt-out)
\* agrees with it.
THEOREM InvariantHolds == Spec => []IInv
<1>1. Init => IInv
  BY InitInv
<1>2. IInv /\ [Next]_vars => IInv'
  BY StepShape, QuietKeeps, PlansKeeps, AdvancesKeeps
<1> QED BY <1>1, <1>2, PTL DEF Spec

\* Type correctness of the engine.
THEOREM TypeCorrect == Spec => []TypeOK
<1>1. IInv => TypeOK
  BY DEF IInv
<1> QED BY <1>1, InvariantHolds, PTL

\* scheduled_actions_one_live_per_sequence_idx is never the reason a successor fails: one
\* live action per sequence, and no step before the acceptance of the one before it.
THEOREM OneLive == Spec => []OneLiveAction
<1>1. IInv => OneLiveAction
  BY DEF IInv
<1> QED BY <1>1, InvariantHolds, PTL

\* A terminal action never becomes pending again (followup-engine-v1.md), whatever the
\* dispatchers, the stops and the operator do.
THEOREM TerminalStays == Spec => TerminalStaysTerminal
<1> DEFINE Stays == \A i \in Action : act[i].status \in Terminal => act'[i].status \in Terminal
<1>1. IInv /\ [Next]_vars => Stays
  <2> SUFFICES ASSUME IInv, [Next]_vars, NEW j \in Action, act[j].status \in Terminal
               PROVE  act'[j].status \in Terminal
    OBVIOUS
  <2>1. act[j].status # None /\ act[j].status \notin Live
    BY DEF Terminal, Live, Claimable, None
  <2>2. CASE Quiet
    BY <2>2 DEF Quiet, Follows
  <2>3. CASE Plans
    BY <2>1, <2>3 DEF Plans, IInv, UnplannedIsEmpty
  <2>4. ASSUME NEW i \in Action, Advances(i) PROVE act'[j].status \in Terminal
    <3>1. act[i].status # "accepted_by_chatwoot" /\ act[i].status \in Live
      BY <2>4 DEF Advances, Live, Claimable
    <3>2. j # i
      BY <2>1, <3>1
    <3>3. j # i + 1
      <4>1. i < i + 1
        BY DEF Action
      <4> QED BY <2>1, <3>1, <4>1 DEF IInv, OneLiveAction
    <3> QED BY <2>4, <3>2, <3>3 DEF Advances
  <2> QED BY <2>2, <2>3, <2>4, StepShape
<1>2. IInv /\ [Next]_vars => [Stays]_vars
  BY <1>1
<1> QED BY <1>2, InvariantHolds, PTL DEF TerminalStaysTerminal, Spec
-----------------------------------------------------------------------------
(* The inductive invariant of a cart. *)

\* What was never planned was never sent.
LEMMA UnplannedUnspent ==
    ASSUME IInv, NEW i \in Action, act[i].status = None
    PROVE  /\ \A g \in Gen : ~Spent(i, g) /\ att[i][g] = NoAttempt
           /\ \A w \in Worker : wk[w].pc # "idle" => wk[w].action # i
<1>1. \A g \in Gen : att[i][g] = NoAttempt
  BY DEF IInv, AttemptsHaveActions
<1>2. \A w \in Worker : wk[w].pc # "idle" => wk[w].action # i
  BY DEF IInv, DispatchersHaveActions
<1>3. /\ NoAttempt.delivered = FALSE /\ NoAttempt.phase # "request_started"
      /\ NoAttempt.outcome # "delivery_unknown"
  BY DEF NoAttempt, None
<1> QED BY <1>1, <1>2, <1>3 DEF Spent, Unresolved

\* An attempt that is open is of the live action, if there is one.
LEMMA OpenIsLive ==
    ASSUME IInv, AcceptedSettled, NEW i \in Action, NEW g \in Gen,
           att[i][g].phase = "request_started" \/ Unresolved(i, g),
           NEW j \in Action, act[j].status \in Live
    PROVE  j = i
<1>1. act[i].status # None
  BY AttemptedExists DEF Unresolved, None
<1>2. act[i].status # "accepted_by_chatwoot"
  BY DEF AcceptedSettled
<1>3. act[j].status # None /\ act[j].status # "accepted_by_chatwoot"
  BY DEF Live, Claimable, None
<1>4. ~(i < j) /\ ~(j < i)
  BY <1>1, <1>2, <1>3 DEF IInv, OneLiveAction
<1> QED BY <1>4 DEF Action

\* A request in flight is not unknown yet.
LEMMA StartedNotWaiting ==
    ASSUME OutcomeIsFinal, NEW i \in Action, NEW g \in Gen, att[i][g].phase = "request_started"
    PROVE  ~Unresolved(i, g)
BY DEF OutcomeIsFinal, Unresolved, None

\* While the case is open, whoever claimed a live action has not spent it, and finds it spent
\* only before the first re-evaluation, which will stop him.
LEMMA HolderUnspent ==
    ASSUME IInv, CartInv, CaseOpen, NEW w \in Worker, wk[w].pc \in Ahead, HoldsLease(w),
           NEW g \in Gen, Spent(wk[w].action, g)
    PROVE  wk[w].pc = "claimed" /\ Waiting(wk[w].action, g) /\ Waits(wk[w].action)
<1> DEFINE i == wk[w].action
<1>1. i \in Action /\ wk[w].gen \in Gen
  BY Typed DEF IInv
<1>2. act[i].status \in Claimable /\ act[i].status \in Live /\ act[i].gen = wk[w].gen
  BY DEF HoldsLease, Live
<1>3. InFlight(i, g) \/ Waiting(i, g)
  BY <1>1, <1>2 DEF CartInv, LiveSpent
<1>4. ~InFlight(i, g)
  <2>1. att[i][wk[w].gen].phase # "request_started"
    BY DEF CartInv, RequestsOwned, Attempted
  <2> QED BY <1>2, <2>1 DEF InFlight
<1>5. Waits(i)
  BY <1>2, <1>3, <1>4 DEF Waiting
<1>6. Holder(w, i)
  BY DEF Holder, Ahead
<1> QED BY <1>3, <1>4, <1>5, <1>6 DEF Waits

LEMMA HolderStartsNothing ==
    ASSUME IInv, CartInv, CaseOpen, NEW w \in Worker, wk[w].pc \in Ahead, HoldsLease(w)
    PROVE  ~Started(wk[w].action)
<1> SUFFICES ASSUME NEW g \in Gen, att[wk[w].action][g].phase = "request_started"
             PROVE  FALSE
  BY DEF Started
<1>1. wk[w].action \in Action
  BY Typed DEF IInv
<1>2. Spent(wk[w].action, g)
  BY DEF Spent
<1>3. Unresolved(wk[w].action, g)
  BY <1>2, HolderUnspent DEF Waiting
<1> QED BY <1>1, <1>3, StartedNotWaiting DEF CartInv

\* An attempt that is closed cannot be spent by someone who may still start it.
LEMMA StartedIsInFlight ==
    ASSUME IInv, CartInv, CaseOpen, NEW i \in Action, act[i].status \in Live, NEW g \in Gen,
           att[i][g].phase = "request_started"
    PROVE  InFlight(i, g)
<1>1. Spent(i, g)
  BY DEF Spent
<1>2. ~Unresolved(i, g)
  BY StartedNotWaiting DEF CartInv
<1> QED BY <1>1, <1>2 DEF CartInv, LiveSpent, Waiting
-----------------------------------------------------------------------------
\* The invariant of a cart, over the steps that start no claim and no request.

\* A dispatcher stands still or stops.
Halts(w) == wk'[w].pc = "idle" \/ wk'[w] = wk[w]

\* An attempt is not begun, and only what was in flight becomes unknown.
Fades(i, g) ==
    /\ att'[i][g].delivered = att[i][g].delivered
    /\ att'[i][g].phase = "request_started" => att[i][g].phase = "request_started"
    /\ Unresolved(i, g)' => Unresolved(i, g) \/ att[i][g].phase = "request_started"
    /\ att'[i][g].outcome # None \/ att'[i][g].resolution # None =>
           att'[i][g].phase = "completed"

\* An action keeps its claims, is accepted with nothing open, and is claimable after a stop
\* only if it was.
Settles(i) ==
    /\ act[i].status # None => act'[i].gen = act[i].gen
    /\ act'[i].status = "accepted_by_chatwoot" =>
          \/ act[i].status = "accepted_by_chatwoot"
          \/ \A g \in Gen : att'[i][g].phase # "request_started" /\ ~Unresolved(i, g)'
    /\ rc'.status \in {"won", "cancelled"} /\ act'[i].status \in Claimable =>
          rc.status \in {"won", "cancelled"} /\ act[i].status \in Claimable

\* What stays in flight stays so under an open case, or under one that expired.
Runs(i, g) ==
    att'[i][g].phase = "request_started" =>
        /\ rc.status = "expired" => rc'.status = "expired"
        /\ CaseOpen /\ act[i].status \in Claimable =>
              (CaseOpen' /\ act'[i].status \in Claimable) \/ rc'.status = "expired"

StartsNothing ==
    /\ \A w \in Worker : Halts(w)
    /\ \A i \in Action, g \in Gen : Fades(i, g) /\ Runs(i, g)
    /\ \A i \in Action : Settles(i)
    /\ CaseOpen' => CaseOpen
    /\ \A w \in Worker :
          wk[w].pc = "started" /\ CaseOpen' =>
              att'[wk[w].action][wk[w].gen].phase = "request_started"

LEMMA SpentFades ==
    ASSUME StartsNothing, NEW i \in Action, NEW g \in Gen, Spent(i, g)'
    PROVE  Spent(i, g)
<1>1. Fades(i, g) /\ \A w \in Worker : Halts(w)
  BY DEF StartsNothing
<1>2. CASE \E w \in Worker : wk'[w].pc = "started" /\ wk'[w].action = i /\ wk'[w].gen = g
  BY <1>1, <1>2 DEF Halts, Spent
<1>3. CASE att'[i][g].delivered \/ att'[i][g].phase = "request_started" \/ Unresolved(i, g)'
  BY <1>1, <1>3 DEF Fades, Spent
<1> QED BY <1>2, <1>3 DEF Spent

LEMMA StartsNothingKeeps ==
    ASSUME IInv, CartInv, StartsNothing, LiveSpent', RepliesFollow'
    PROVE  CartInv'
<1>1. \A w \in Worker : wk'[w].pc # "idle" => wk'[w] = wk[w]
  BY DEF StartsNothing, Halts
<1>2. \A w \in Worker : wk[w].action \in Action /\ wk[w].gen \in Gen
  BY Typed DEF IInv
<1>3. SpentOnce'
  BY SpentFades DEF CartInv, SpentOnce
<1>4. AcceptedSettled'
  <2> SUFFICES ASSUME NEW i \in Action, NEW g \in Gen, act'[i].status = "accepted_by_chatwoot"
               PROVE  att'[i][g].phase # "request_started" /\ ~Unresolved(i, g)'
    BY DEF AcceptedSettled
  <2>1. CASE act[i].status = "accepted_by_chatwoot"
    BY <2>1 DEF CartInv, AcceptedSettled, StartsNothing, Fades
  <2> QED BY <2>1 DEF StartsNothing, Settles
<1>5. StartedRuns'
  <2> SUFFICES ASSUME NEW i \in Action, NEW g \in Gen, att'[i][g].phase = "request_started"
               PROVE  (CaseOpen' /\ act'[i].status \in Claimable) \/ rc'.status = "expired"
    BY DEF StartedRuns, Started
  <2>1. att[i][g].phase = "request_started" /\ Runs(i, g)
    BY DEF StartsNothing, Fades
  <2>2. (CaseOpen /\ act[i].status \in Claimable) \/ rc.status = "expired"
    BY <2>1 DEF CartInv, StartedRuns, Started
  <2> QED BY <2>1, <2>2 DEF Runs
<1>6. StoppedUnclaimed'
  BY DEF CartInv, StoppedUnclaimed, StartsNothing, Settles
<1>7. ClaimsApart'
  BY <1>1 DEF CartInv, ClaimsApart
<1>8. ClaimsCounted'
  <2> SUFFICES ASSUME NEW w \in Worker, wk'[w].pc # "idle"
               PROVE  wk'[w].gen <= act'[wk'[w].action].gen
    BY DEF ClaimsCounted
  <2>1. wk'[w] = wk[w] /\ wk[w].action \in Action
    BY <1>1, <1>2
  <2>2. act[wk[w].action].status # None
    BY <2>1 DEF IInv, DispatchersHaveActions
  <2>3. act'[wk[w].action].gen = act[wk[w].action].gen
    BY <2>1, <2>2 DEF StartsNothing, Settles
  <2> QED BY <2>1, <2>3 DEF CartInv, ClaimsCounted
<1>9. OutcomeIsFinal'
  BY DEF OutcomeIsFinal, StartsNothing, Fades
<1>10. RefusedUndelivered'
  <2> SUFFICES ASSUME NEW w \in Worker, wk'[w].pc = "posted", wk'[w].result = "blocked"
               PROVE  ~att'[wk'[w].action][wk'[w].gen].delivered
    BY DEF RefusedUndelivered, Attempted
  <2>1. wk'[w] = wk[w]
    BY <1>1
  <2> QED BY <1>2, <2>1 DEF CartInv, RefusedUndelivered, Attempted, StartsNothing, Fades
<1>11. RequestsOwned'
  <2> SUFFICES ASSUME NEW w \in Worker
               PROVE  /\ wk'[w].pc \in Ahead =>
                            att'[wk'[w].action][wk'[w].gen].phase # "request_started"
                      /\ wk'[w].pc = "started" /\ CaseOpen' =>
                            att'[wk'[w].action][wk'[w].gen].phase = "request_started"
    BY DEF RequestsOwned, Attempted
  <2>1. CASE wk'[w].pc = "idle"
    BY <2>1 DEF Ahead
  <2>2. CASE wk'[w] = wk[w]
    BY <1>2, <2>2 DEF CartInv, RequestsOwned, Attempted, StartsNothing, Fades
  <2> QED BY <1>1, <2>1, <2>2
<1> QED BY <1>3, <1>4, <1>5, <1>6, <1>7, <1>8, <1>9, <1>10, <1>11 DEF CartInv

\* With the buyer's conversation as it was, a quiet step keeps what it knows of replies.
LEMMA BuyerKept ==
    ASSUME CartInv, Quiet, CaseOpen' => CaseOpen,
           conversation' = conversation, replied' = replied
    PROVE  RepliesFollow'
<1>1. 1 \in Action /\ \A j \in Action : Follows(j)
  BY EngineAssumption DEF Action, Quiet
<1>2. act'[1].status \in Live \cup {None} => act[1].status \in Live \cup {None}
  BY <1>1 DEF Follows
<1>3. \A j \in Action : act'[j].status \in Live => act[j].status \in Live
  BY <1>1 DEF Follows
<1> QED BY <1>2, <1>3 DEF CartInv, RepliesFollow

\* Time, the buyer and a dispatcher that dies leave what the invariant speaks of alone.
SameAttempt(i, g) ==
    /\ att'[i][g].phase = att[i][g].phase /\ att'[i][g].outcome = att[i][g].outcome
    /\ att'[i][g].version = att[i][g].version /\ att'[i][g].revision = att[i][g].revision
    /\ att'[i][g].delivered = att[i][g].delivered
    /\ att'[i][g].resolution = att[i][g].resolution

SameAction(i) ==
    /\ act'[i].status = act[i].status /\ act'[i].gen = act[i].gen
    /\ act'[i].owner = act[i].owner

Steady ==
    /\ rc' = rc /\ seq' = seq
    /\ \A i \in Action : SameAction(i) /\ \A g \in Gen : SameAttempt(i, g)
    /\ \A w \in Worker : Halts(w)
    /\ optOut' = "applied" => optOut = "applied"
    /\ replied = "after_anchor" => replied' = "after_anchor"
    /\ MaxMessages > 2 /\ conversation = "paused" =>
          \/ conversation' = "paused"
          \/ \A i \in Action, g \in Gen : act[i].status \in Claimable => ~Unresolved(i, g)

LEMMA SteadyKeeps ==
    ASSUME IInv, CartInv, Steady, RepliesFollow'
    PROVE  CartInv'
<1>1. CaseOpen' <=> CaseOpen
  BY DEF Steady, CaseOpen
<1>2. \A i \in Action, g \in Gen : Unresolved(i, g)' <=> Unresolved(i, g)
  BY DEF Steady, SameAttempt, Unresolved
<1>3. StartsNothing
  <2>1. ASSUME NEW i \in Action, NEW g \in Gen PROVE Fades(i, g) /\ Runs(i, g)
    <3>1. SameAttempt(i, g) /\ SameAction(i) /\ rc' = rc
      BY DEF Steady
    <3>2. Fades(i, g)
      BY <1>2, <3>1 DEF SameAttempt, Fades, CartInv, OutcomeIsFinal
    <3>3. Runs(i, g)
      BY <1>1, <3>1 DEF SameAction, Runs
    <3> QED BY <3>2, <3>3
  <2>2. ASSUME NEW i \in Action PROVE Settles(i)
    <3>1. SameAction(i) /\ rc' = rc
      BY DEF Steady
    <3> QED BY <3>1 DEF SameAction, Settles
  <2>3. \A w \in Worker : wk[w].action \in Action /\ wk[w].gen \in Gen
    BY Typed DEF IInv
  <2>4. \A w \in Worker : wk[w].pc = "started" /\ CaseOpen' =>
            att'[wk[w].action][wk[w].gen].phase = "request_started"
    BY <1>1, <2>3 DEF CartInv, RequestsOwned, Attempted, Steady, SameAttempt
  <2> QED BY <1>1, <2>1, <2>2, <2>4 DEF StartsNothing, Steady
<1>4. ASSUME NEW i \in Action, NEW g \in Gen, CaseOpen', act'[i].status \in Live,
             Spent(i, g)'
      PROVE  InFlight(i, g)' \/ Waiting(i, g)'
  <2>1. Spent(i, g)
    BY <1>3, <1>4, SpentFades
  <2>2. SameAction(i) /\ SameAttempt(i, g) /\ rc' = rc /\ seq' = seq
    BY DEF Steady
  <2>3. InFlight(i, g) \/ Waiting(i, g)
    BY <1>1, <1>4, <2>1, <2>2 DEF CartInv, LiveSpent, SameAction
  <2>4. CASE InFlight(i, g)
    <3>1. Permitted'
      BY <2>4 DEF Steady, Permitted, InFlight
    <3>2. Current(i, g)'
      BY <1>1, <1>4, <2>2, <2>4 DEF Current, InFlight, SameAction, SameAttempt
    <3> QED BY <2>2, <2>4, <3>1, <3>2 DEF InFlight, SameAction, SameAttempt
  <2>5. CASE Waiting(i, g)
    <3>1. Unresolved(i, g)'
      BY <1>2, <2>5 DEF Waiting
    <3>2. ASSUME act'[i].status \in Claimable PROVE Waits(i)'
      <4>1. Waits(i) /\ Unresolved(i, g) /\ act[i].status \in Claimable
        BY <2>2, <2>5, <3>2 DEF Waiting, SameAction
      <4>2. ASSUME NEW w \in Worker, Holder(w, i)'
            PROVE  wk'[w] = wk[w] /\ Holder(w, i)
        <5>1. wk'[w] = wk[w]
          BY <4>2 DEF Holder, Steady, Halts
        <5>2. wk'[w].pc # "idle" /\ wk'[w].action = i
          BY <4>2 DEF Holder
        <5>3. act'[i].owner = w /\ act'[i].gen = wk'[w].gen /\ act'[i].status \in Claimable
          BY <4>2, <5>2 DEF Holder, HoldsLease
        <5> QED BY <2>2, <5>1, <5>2, <5>3 DEF Holder, HoldsLease, SameAction
      <4>3. \A w \in Worker : Holder(w, i)' => wk'[w].pc = "claimed"
        BY <4>1, <4>2 DEF Waits
      <4>4. MaxMessages <= 2 => /\ i > 1 /\ replied' = "after_anchor"
                                /\ \A w \in Worker : Holder(w, i)' => wk'[w].sawReply
        BY <4>1, <4>2 DEF Waits, Steady
      <4>5. MaxMessages > 2 => conversation' = "paused"
        BY <4>1 DEF Waits, Steady
      <4> QED BY <4>3, <4>4, <4>5 DEF Waits
    <3> QED BY <3>1, <3>2 DEF Waiting
  <2> QED BY <2>3, <2>4, <2>5
<1>5. LiveSpent'
  BY <1>4 DEF LiveSpent
<1> QED BY <1>3, <1>5, StartsNothingKeeps

LEMMA SteadyBuyer ==
    ASSUME UNCHANGED buyer
    PROVE  /\ optOut' = optOut /\ replied' = replied /\ conversation' = conversation
           /\ optOut' = "applied" => optOut = "applied"
           /\ replied = "after_anchor" => replied' = "after_anchor"
           /\ MaxMessages > 2 /\ conversation = "paused" =>
                 \/ conversation' = "paused"
                 \/ \A i \in Action, g \in Gen : act[i].status \in Claimable => ~Unresolved(i, g)
BY DEF buyer

LEMMA TimeCart ==
    ASSUME IInv, CartInv,
           \/ TimeUp
           \/ \E i \in Action : BecomesDue(i) \/ LeaseLapses(i)
           \/ \E i \in Action, g \in Gen : WindowCloses(i, g)
    PROVE  CartInv'
<1>1. Quiet
  BY TimeShape
<1>2. rc' = rc /\ seq' = seq /\ wk' = wk /\ UNCHANGED buyer
  BY DEF TimeUp, BecomesDue, LeaseLapses, WindowCloses
<1>3. ASSUME NEW i \in Action PROVE SameAction(i)
  <2>1. act \in [Action -> ScheduledAction] /\ act[i] \in ScheduledAction
    BY Typed DEF IInv
  <2>2. CASE act' = act
    BY <2>2 DEF SameAction
  <2>3. ASSUME NEW j \in Action, BecomesDue(j) PROVE SameAction(i)
    <3>1. act' = [act EXCEPT ![j].due = TRUE]
      BY <2>3 DEF BecomesDue
    <3>2. act'[i] = act[i] \/ act'[i] = [act[i] EXCEPT !.due = TRUE]
      BY <2>1, <3>1
    <3> QED BY <2>1, <3>2 DEF SameAction, ScheduledAction
  <2>4. ASSUME NEW j \in Action, LeaseLapses(j) PROVE SameAction(i)
    <3>1. act' = [act EXCEPT ![j].lease = "lapsed"]
      BY <2>4 DEF LeaseLapses
    <3>2. act'[i] = act[i] \/ act'[i] = [act[i] EXCEPT !.lease = "lapsed"]
      BY <2>1, <3>1
    <3> QED BY <2>1, <3>2 DEF SameAction, ScheduledAction
  <2> QED BY <2>2, <2>3, <2>4 DEF TimeUp, WindowCloses
<1>4. ASSUME NEW i \in Action, NEW g \in Gen PROVE SameAttempt(i, g)
  <2>1. att[i][g] \in Attempt
    BY Typed DEF IInv
  <2>2. CASE att' = att
    BY <2>2 DEF SameAttempt
  <2>3. ASSUME NEW j \in Action, NEW h \in Gen, WindowCloses(j, h) PROVE SameAttempt(i, g)
    <3> DEFINE r == [att[j][h] EXCEPT !.window = "closed"]
    <3>1. att' = [att EXCEPT ![j][h] = r]
      BY <2>3 DEF WindowCloses
    <3>2. att[j][h] \in Attempt
      BY Typed DEF IInv
    <3>3. r \in Attempt
      BY <3>2 DEF Attempt
    <3>4. att'[i][g] = att[i][g] \/ (i = j /\ g = h /\ att'[i][g] = r)
      <4> HIDE DEF r
      <4> QED BY <3>1, <3>3, AttPut DEF IInv
    <3> QED BY <3>2, <3>4 DEF SameAttempt, Attempt
  <2> QED BY <2>2, <2>3 DEF TimeUp, BecomesDue, LeaseLapses
<1>5. Steady
  BY <1>2, <1>3, <1>4, SteadyBuyer DEF Steady, Halts
<1>6. RepliesFollow'
  BY <1>1, <1>2, BuyerKept, SteadyBuyer DEF CaseOpen
<1> QED BY <1>5, <1>6, SteadyKeeps

\* A step that leaves the engine as it is, a dispatcher that stops aside.
LEMMA EngineUntouched ==
    ASSUME UNCHANGED <<rc, seq, act, att>>
    PROVE  /\ \A i \in Action : SameAction(i) /\ \A g \in Gen : SameAttempt(i, g)
           /\ CaseOpen' <=> CaseOpen
BY DEF SameAction, SameAttempt, CaseOpen

LEMMA BuyerCart ==
    ASSUME IInv, CartInv, ResumesClear,
           KeepPurchase \/ BuyOtherOffer \/ RecordOptOut \/ Conversation
    PROVE  CartInv'
<1>1. UNCHANGED <<rc, seq, act, att, wk>> /\ Quiet
  BY BuyerShape
     DEF KeepPurchase, BuyOtherOffer, RecordOptOut, Conversation, BuyerReplies, InboundHandoff,
         ResumeConversation
<1>2. /\ optOut' = "applied" => optOut = "applied"
      /\ replied = "after_anchor" => replied' = "after_anchor"
  BY DEF KeepPurchase, BuyOtherOffer, RecordOptOut, Conversation, BuyerReplies, InboundHandoff,
         ResumeConversation
<1>3. conversation' = "paused" \/ conversation # "paused" \/ conversation' = "open"
  BY DEF KeepPurchase, BuyOtherOffer, RecordOptOut, Conversation, BuyerReplies, InboundHandoff,
         ResumeConversation
<1>4. Steady
  BY <1>1, <1>2, <1>3, EngineUntouched DEF Steady, Halts, ResumesClear
<1>5. RepliesFollow'
  <2>1. CASE KeepPurchase \/ BuyOtherOffer \/ RecordOptOut
    <3>1. conversation' = conversation /\ replied' = replied
      BY <2>1 DEF KeepPurchase, BuyOtherOffer, RecordOptOut
    <3> QED BY <1>1, <3>1, BuyerKept, EngineUntouched
  <2>2. CASE Conversation
    BY <1>1, <2>2 DEF Conversation, BuyerReplies, InboundHandoff, ResumeConversation,
       CartInv, RepliesFollow
  <2> QED BY <2>1, <2>2
<1> QED BY <1>4, <1>5, SteadyKeeps

LEMMA AbandonCart ==
    ASSUME IInv, CartInv, (\E w \in Worker : Abandon(w)) \/ UNCHANGED vars
    PROVE  CartInv'
<1>1. UNCHANGED <<rc, seq, act, att>> /\ UNCHANGED buyer
  BY DEF Abandon, vars
<1>2. \A w \in Worker : Halts(w) /\ DispatcherFollows(w)
  <2>1. CASE UNCHANGED vars
    BY <2>1 DEF vars, Halts, DispatcherFollows
  <2>2. ASSUME NEW v \in Worker, Abandon(v) PROVE \A w \in Worker : Halts(w) /\ DispatcherFollows(w)
    <3>1. wk \in [Worker -> Dispatcher] /\ wk' = [wk EXCEPT ![v] = Idle] /\ Idle.pc = "idle"
      BY <2>2, Typed DEF IInv, Abandon, Back, Idle
    <3> QED BY <2>2, <3>1, BackTyped DEF Halts, IInv, Abandon
  <2> QED BY <2>1, <2>2
<1>3. Quiet
  BY <1>1, <1>2, NothingMoves
<1>4. Steady
  BY <1>1, <1>2, EngineUntouched, SteadyBuyer DEF Steady
<1>5. RepliesFollow'
  BY <1>1, <1>3, BuyerKept, SteadyBuyer, EngineUntouched
<1> QED BY <1>4, <1>5, SteadyKeeps
-----------------------------------------------------------------------------
\* Stops, and what else leaves no live action under an open case.

LEMMA ClosingKeeps ==
    ASSUME IInv, CartInv, StartsNothing, RepliesFollow',
           \/ ~CaseOpen'
           \/ \A j \in Action : act'[j].status \notin Live
    PROVE  CartInv'
<1>1. LiveSpent'
  BY DEF LiveSpent
<1> QED BY <1>1, StartsNothingKeeps

LEMMA StoppedFades ==
    ASSUME NEW r \in Attempt, NEW reason \in {None, "opt_out", "handoff"},
           NEW window \in {None, "open", "closed", "infinity"},
           NEW q, q = Stopped(r, reason, window)
    PROVE  /\ q.delivered = r.delivered /\ q.phase # "request_started"
           /\ \/ q = r
              \/ /\ q.phase = "completed" /\ q.resolution = r.resolution
                 /\ q.outcome = "delivery_unknown" => r.phase = "request_started"
<1>1. ASSUME NEW o \in {"failed_before_request", "delivery_unknown"},
             NEW e \in {None, "opt_out", "handoff"},
             NEW v \in {None, "open", "closed", "infinity"}
      PROVE  /\ Completed(r, o, e, v).delivered = r.delivered
             /\ Completed(r, o, e, v).phase = "completed"
             /\ Completed(r, o, e, v).outcome = o
             /\ Completed(r, o, e, v).resolution = r.resolution
  BY DEF Completed, Attempt
<1>2. CASE r.phase = "reserved"
  <2>1. q = Completed(r, "failed_before_request", None, None)
    BY <1>2 DEF Stopped
  <2> QED BY <1>1, <2>1
<1>3. CASE r.phase = "request_started"
  <2>1. q = Completed(r, "delivery_unknown", reason, window)
    BY <1>3 DEF Stopped
  <2> QED BY <1>1, <1>3, <2>1
<1>4. CASE r.phase \notin {"reserved", "request_started"}
  <2>1. q = r
    BY <1>4 DEF Stopped
  <2> QED BY <1>4, <2>1
<1> QED BY <1>2, <1>3, <1>4

LEMMA StopStartsNothing ==
    ASSUME IInv, CartInv, StopActions, NEW S, S = Claimable \/ S = Live,
           NEW reason \in {None, "opt_out", "handoff"},
           NEW window \in {None, "open", "closed", "infinity"},
           StopAttempts(S, reason, window),
           \A w \in Worker : Halts(w),
           ~CaseOpen', rc.status = "expired" => rc'.status = "expired"
    PROVE  StartsNothing
<1>1. ASSUME NEW i \in Action
      PROVE  /\ act'[i].gen = act[i].gen /\ act'[i].status \notin Claimable
             /\ act'[i].status = "accepted_by_chatwoot" => act[i].status = "accepted_by_chatwoot"
  <2>1. act[i] \in ScheduledAction
    BY Typed DEF IInv
  <2>2. CASE act[i].status \notin Claimable
    <3>1. act'[i] = act[i]
      BY <2>2 DEF StopActions
    <3> QED BY <2>2, <3>1
  <2>3. CASE act[i].status \in Claimable
    <3> DEFINE s == IF Started(i) THEN "delivery_unknown" ELSE "cancelled"
    <3>1. act'[i] = [act[i] EXCEPT !.owner = None, !.lease = None, !.status = s]
      BY <2>3 DEF StopActions
    <3>2. s \in {"delivery_unknown", "cancelled"}
      OBVIOUS
    <3> HIDE DEF s
    <3>3. act'[i].gen = act[i].gen /\ act'[i].status = s
      BY <2>1, <3>1 DEF ScheduledAction
    <3> QED BY <3>2, <3>3 DEF Claimable
  <2> QED BY <2>2, <2>3
<1>2. ASSUME NEW i \in Action, NEW g \in Gen
      PROVE  Fades(i, g) /\ Runs(i, g)
  <2>1. att[i][g] \in Attempt
    BY Typed DEF IInv
  <2>2. CASE act[i].status \notin S
    <3>1. att'[i] = att[i]
      BY <2>2 DEF StopAttempts
    <3>2. act[i].status \notin Claimable
      BY <2>2 DEF Live
    <3>3. Fades(i, g)
      BY <3>1 DEF Fades, Unresolved, CartInv, OutcomeIsFinal
    <3> QED BY <3>2, <3>3 DEF Runs
  <2>3. CASE act[i].status \in S
    <3>1. att'[i][g] = Stopped(att[i][g], reason, window)
      BY <2>3 DEF StopAttempts
    <3>2. /\ att'[i][g].delivered = att[i][g].delivered
          /\ att'[i][g].phase # "request_started"
          /\ \/ att'[i][g] = att[i][g]
             \/ /\ att'[i][g].phase = "completed"
                /\ att'[i][g].resolution = att[i][g].resolution
                /\ att'[i][g].outcome = "delivery_unknown" => att[i][g].phase = "request_started"
      BY <2>1, <3>1, StoppedFades
    <3>3. Fades(i, g)
      BY <3>2 DEF Fades, Unresolved, CartInv, OutcomeIsFinal
    <3> QED BY <3>2, <3>3 DEF Runs
  <2> QED BY <2>2, <2>3
<1>3. \A i \in Action : Settles(i)
  BY <1>1 DEF Settles
<1> QED BY <1>2, <1>3 DEF StartsNothing

LEMMA PurchaseCart ==
    ASSUME IInv, CartInv, ApplyPurchase \/ AmbiguousPurchase
    PROVE  CartInv'
<1>1. Quiet
  BY PurchaseShape
<1>2. /\ StopActions /\ StopAttempts(Claimable, None, "open") /\ wk' = wk
      /\ conversation' = conversation /\ replied' = replied
  BY DEF ApplyPurchase, AmbiguousPurchase
<1>3. ~CaseOpen' /\ rc.status # "expired"
  BY DEF ApplyPurchase, AmbiguousPurchase, CaseBecomes, CaseOpen
<1>4. StartsNothing
  BY <1>2, <1>3, StopStartsNothing DEF Halts
<1>5. RepliesFollow'
  BY <1>1, <1>2, <1>3, BuyerKept
<1> QED BY <1>3, <1>4, <1>5, ClosingKeeps

\* Who has a conversation had his first message accepted, and keeps it so.
LEMMA PausedReplies ==
    ASSUME CartInv, Quiet, ~CaseOpen', conversation # "none", replied' = replied
    PROVE  RepliesFollow'
<1>1. 1 \in Action /\ \A j \in Action : Follows(j)
  BY EngineAssumption DEF Action, Quiet
<1>2. act'[1].status \in Live \cup {None} => act[1].status \in Live \cup {None}
  BY <1>1 DEF Follows
<1>3. \A j \in Action : act'[j].status \in Live => act[j].status \in Live
  BY <1>1 DEF Follows
<1> QED BY <1>2, <1>3 DEF CartInv, RepliesFollow

LEMMA OptOutCart ==
    ASSUME IInv, CartInv, ApplyOptOut
    PROVE  CartInv'
<1>1. Quiet
  BY OptOutShape
<1>2. /\ wk' = wk /\ replied' = replied
      /\ conversation' = conversation \/ conversation # "none"
  BY DEF ApplyOptOut
<1>3. ~CaseOpen' /\ (rc.status = "expired" => rc'.status = "expired")
  BY DEF ApplyOptOut, CaseOpen
<1>4. StartsNothing
  <2>1. CASE rc.status \in {"grace_period", "active", "paused"}
    <3>1. StopActions /\ StopAttempts(Live, "opt_out", "open")
      BY <2>1 DEF ApplyOptOut
    <3> QED BY <1>2, <1>3, <3>1, StopStartsNothing DEF Halts
  <2>2. CASE rc.status \notin {"grace_period", "active", "paused"}
    <3>1. UNCHANGED <<rc, seq, act, att>> /\ ~CaseOpen
      BY <2>2 DEF ApplyOptOut, CaseOpen
    <3>2. \A i \in Action, g \in Gen : Fades(i, g) /\ Runs(i, g) /\ Settles(i)
      BY <3>1 DEF Fades, Runs, Settles, Unresolved, CartInv, OutcomeIsFinal
    <3>3. \A i \in Action : Settles(i)
      BY <3>1 DEF Settles
    <3> QED BY <1>2, <1>3, <3>2, <3>3 DEF StartsNothing, Halts
  <2> QED BY <2>1, <2>2
<1>5. RepliesFollow'
  BY <1>1, <1>2, <1>3, BuyerKept, PausedReplies
<1> QED BY <1>3, <1>4, <1>5, ClosingKeeps

LEMMA HandoffCart ==
    ASSUME IInv, CartInv, HandoffByOperator \/ \E w \in Worker : HandoffByAgent(w)
    PROVE  CartInv'
<1>1. Quiet
  BY HandoffShape
<1>2. Handoff
  BY DEF HandoffByOperator, HandoffByAgent
<1>3. \A w \in Worker : Halts(w)
  <2>1. CASE HandoffByOperator
    BY <2>1 DEF HandoffByOperator, Halts
  <2>2. ASSUME NEW v \in Worker, HandoffByAgent(v) PROVE \A w \in Worker : Halts(w)
    <3>1. wk \in [Worker -> Dispatcher] /\ wk' = [wk EXCEPT ![v] = Idle] /\ Idle.pc = "idle"
      BY <2>2, Typed DEF IInv, HandoffByAgent, Back, Idle
    <3> QED BY <3>1 DEF Halts
  <2> QED BY <2>1, <2>2
<1>4. /\ StopActions /\ StopAttempts(Live, "handoff", "infinity") /\ replied' = replied
      /\ conversation # "none"
  BY <1>2 DEF Handoff
<1>5. ~CaseOpen' /\ (rc.status = "expired" => rc'.status = "expired")
  BY <1>2 DEF Handoff, CaseOpen
<1>6. StartsNothing
  BY <1>3, <1>4, <1>5, StopStartsNothing
<1>7. RepliesFollow'
  BY <1>1, <1>4, <1>5, PausedReplies
<1> QED BY <1>5, <1>6, <1>7, ClosingKeeps
-----------------------------------------------------------------------------
\* Ends of a claimable action: the sweep, the decisions, and the closes before a request.

LEMMA Becomes ==
    ASSUME TypeOK, NEW i \in Action, NEW s, ActionBecomes(i, s)
    PROVE  /\ act'[i].status = s /\ act'[i].owner = None /\ act'[i].gen = act[i].gen
           /\ \A j \in Action : act'[j].gen = act[j].gen
           /\ \A j \in Action : j # i => act'[j] = act[j]
<1>1. act[i] \in ScheduledAction /\ act \in [Action -> ScheduledAction]
  BY Typed
<1> DEFINE a == [act[i] EXCEPT !.status = s, !.owner = None, !.lease = None]
<1>2. a.status = s /\ a.owner = None /\ a.gen = act[i].gen
  BY <1>1 DEF ScheduledAction
<1>3. act' = [act EXCEPT ![i] = a]
  BY <1>1 DEF ActionBecomes
<1> HIDE DEF a
<1>4. act'[i] = a /\ \A j \in Action : j # i => act'[j] = act[j]
  BY <1>1, <1>3
<1> QED BY <1>2, <1>4

LEMMA BackHalts ==
    ASSUME TypeOK, NEW v \in Worker, Back(v)
    PROVE  wk'[v].pc = "idle" /\ \A w \in Worker : Halts(w) /\ (w # v => wk'[w] = wk[w])
<1>1. wk \in [Worker -> Dispatcher] /\ wk' = [wk EXCEPT ![v] = Idle] /\ Idle.pc = "idle"
  BY Typed DEF Back, Idle
<1> QED BY <1>1 DEF Halts

LEMMA CaseMoves ==
    ASSUME NEW c \in CaseStatus \ {"grace_period", "active"}, CaseBecomes(c)
    PROVE  /\ ~CaseOpen' /\ (rc.status = "expired" => rc'.status = "expired")
           /\ CaseOpen => rc'.status = c
BY DEF CaseBecomes, CaseOpen

LEMMA EndsClaim ==
    ASSUME IInv, CartInv, Quiet, NEW i \in Action, act[i].status \in Claimable,
           NEW s \in {"cancelled", "expired", "permanent_failed"}, ActionBecomes(i, s),
           CaseOpen => ~Started(i) \/ rc'.status = "expired",
           \A w \in Worker : Halts(w), \A k \in Action, g \in Gen : Fades(k, g),
           rc.status = "expired" => rc'.status = "expired", CaseOpen' => CaseOpen,
           \A k \in Action, g \in Gen :
              att[k][g].phase = "request_started" => att'[k][g].phase = "request_started",
           conversation' = conversation, replied' = replied
    PROVE  CartInv'
<1>1. /\ act'[i].status = s /\ \A j \in Action : act'[j].gen = act[j].gen
      /\ \A j \in Action : j # i => act'[j] = act[j]
  BY Becomes DEF IInv
<1>2. act[i].status \in Live /\ s \notin Live
  BY DEF Live, Claimable
<1>3. \A j \in Action : act'[j].status \notin Live
  BY <1>1, <1>2 DEF IInv, OneLiveAction
<1>4. \A j \in Action : act'[j].status \notin Claimable
  BY <1>3 DEF Live
<1>5. \A j \in Action : Settles(j)
  BY <1>1, <1>4 DEF Settles
<1>6. ASSUME NEW j \in Action, NEW g \in Gen PROVE Runs(j, g)
  <2>1. ASSUME att'[j][g].phase = "request_started", CaseOpen, act[j].status \in Claimable
        PROVE  rc'.status = "expired"
    <3>1. j = i
      BY <1>2, <2>1 DEF IInv, OneLiveAction, Live
    <3>2. att[i][g].phase = "request_started"
      BY <2>1, <3>1 DEF Fades
    <3> QED BY <2>1, <3>2 DEF Started
  <2> QED BY <2>1 DEF Runs
<1>7. \A w \in Worker : wk[w].pc = "started" /\ CaseOpen' =>
          att'[wk[w].action][wk[w].gen].phase = "request_started"
  <2>1. \A w \in Worker : wk[w].action \in Action /\ wk[w].gen \in Gen
    BY Typed DEF IInv
  <2> QED BY <2>1 DEF CartInv, RequestsOwned, Attempted
<1>8. StartsNothing
  BY <1>5, <1>6, <1>7 DEF StartsNothing
<1>9. RepliesFollow'
  BY BuyerKept
<1> QED BY <1>3, <1>8, <1>9, ClosingKeeps

LEMMA AttemptsKept ==
    ASSUME CartInv, att' = att
    PROVE  \A k \in Action, g \in Gen :
              /\ Fades(k, g)
              /\ att[k][g].phase = "request_started" => att'[k][g].phase = "request_started"
BY DEF Fades, Unresolved, CartInv, OutcomeIsFinal

LEMMA SweepCart ==
    ASSUME IInv, CartInv, NEW i \in Action, SweepExpired(i)
    PROVE  CartInv'
<1>1. Quiet
  BY SweepShape
<1>2. /\ act[i].status \in Claimable /\ ActionBecomes(i, "expired") /\ CaseBecomes("expired")
      /\ att' = att /\ wk' = wk /\ conversation' = conversation /\ replied' = replied
  BY DEF SweepExpired, buyer
<1>3. "expired" \in CaseStatus \ {"grace_period", "active"}
  BY DEF CaseStatus
<1>4. /\ ~CaseOpen' /\ (rc.status = "expired" => rc'.status = "expired")
      /\ CaseOpen => rc'.status = "expired"
  BY <1>2, <1>3, CaseMoves
<1>5. "expired" \in {"cancelled", "expired", "permanent_failed"} /\ \A w \in Worker : Halts(w)
  BY <1>2 DEF Halts
<1> QED BY <1>1, <1>2, <1>4, <1>5, AttemptsKept, EndsClaim

\* An attempt that was reserved and never used.
Unsent(i, h) ==
    att' = [att EXCEPT ![i][h].phase = "completed",
                       ![i][h].outcome = "failed_before_request"]

LEMMA UnsentFades ==
    ASSUME IInv, CartInv, NEW i \in Action, NEW h \in Gen, att[i][h].phase = "reserved",
           Unsent(i, h)
    PROVE  \A k \in Action, g \in Gen :
              /\ Fades(k, g)
              /\ att[k][g].phase = "request_started" => att'[k][g].phase = "request_started"
<1> DEFINE r == [att[i][h] EXCEPT !.phase = "completed", !.outcome = "failed_before_request"]
<1>1. TypeOK /\ att[i][h] \in Attempt /\ att \in [Action -> [Gen -> Attempt]]
  BY Typed DEF IInv
<1>2. /\ r \in Attempt /\ r.delivered = att[i][h].delivered /\ r.phase = "completed"
      /\ r.outcome = "failed_before_request"
  BY <1>1 DEF Attempt
<1>3. att' = [att EXCEPT ![i][h] = r]
  BY <1>1 DEF Unsent
<1> HIDE DEF r
<1>4. att'[i][h] = r /\ \A k \in Action, g \in Gen : k # i \/ g # h => att'[k][g] = att[k][g]
  BY <1>1, <1>2, <1>3, AttPut
<1>5. TAKE k \in Action, g \in Gen
<1>6. CASE k = i /\ g = h
  BY <1>2, <1>4, <1>6 DEF Fades, Unresolved
<1>7. CASE k # i \/ g # h
  BY <1>4, <1>7 DEF Fades, Unresolved, CartInv, OutcomeIsFinal
<1> QED BY <1>6, <1>7

LEMMA CloseUnsentCart ==
    ASSUME IInv, CartInv, Quiet, NEW w \in Worker, wk[w].pc \in Ahead,
           NEW s \in {"permanent_failed", "cancelled"}, CloseUnsent(w, s),
           rc.status = "expired" => rc'.status = "expired", CaseOpen' => CaseOpen
    PROVE  CartInv'
<1> DEFINE i == wk[w].action
<1>1. i \in Action
  BY Typed DEF IInv
<1>2. act[i].status \in Claimable
  <2>1. w # None
    BY EngineAssumption
  <2> QED BY <1>1, <2>1 DEF CloseUnsent, IInv, OwnedIsClaimable
<1>3. HoldsLease(w)
  BY <1>2 DEF CloseUnsent, HoldsLease
<1>4. CaseOpen => ~Started(i)
  BY <1>3, HolderStartsNothing
<1>5. \A v \in Worker : Halts(v)
  BY BackHalts DEF CloseUnsent, IInv
<1>6. \A k \in Action, g \in Gen :
          /\ Fades(k, g)
          /\ att[k][g].phase = "request_started" => att'[k][g].phase = "request_started"
  <2>1. wk[w].gen \in Gen
    BY Typed DEF IInv
  <2> QED BY <1>1, <2>1, UnsentFades DEF CloseUnsent, Attempted, Unsent
<1>7. ActionBecomes(i, s) /\ conversation' = conversation /\ replied' = replied
  BY DEF CloseUnsent, buyer
<1> HIDE DEF i
<1> QED BY <1>1, <1>2, <1>4, <1>5, <1>6, <1>7, EndsClaim

LEMMA CloseCart ==
    ASSUME IInv, CartInv, NEW w \in Worker, CloseForSegmentCoupon(w) \/ RunTerminated(w)
    PROVE  CartInv'
<1>1. CASE CloseForSegmentCoupon(w)
  <2>1. "cancelled" \in CaseStatus \ {"grace_period", "active"}
    BY DEF CaseStatus
  <2>2. ~CaseOpen' /\ (rc.status = "expired" => rc'.status = "expired")
    BY <1>1, <2>1, CaseMoves DEF CloseForSegmentCoupon
  <2>3. Quiet /\ wk[w].pc \in Ahead /\ CloseUnsent(w, "permanent_failed")
    BY <1>1, SegmentShape DEF CloseForSegmentCoupon, Ahead
  <2> QED BY <2>2, <2>3, CloseUnsentCart
<1>2. CASE RunTerminated(w)
  <2>1. ~CaseOpen' /\ (rc.status = "expired" => rc'.status = "expired")
    BY <1>2 DEF RunTerminated, CaseOpen
  <2>2. Quiet /\ wk[w].pc \in Ahead /\ CloseUnsent(w, "cancelled")
    BY <1>2, TerminatedShape DEF RunTerminated, Ahead
  <2> QED BY <2>1, <2>2, CloseUnsentCart
<1> QED BY <1>1, <1>2

\* Nobody holds an action without an owner.
LEMMA WaitsFreed ==
    ASSUME NEW i \in Action, act'[i].owner = None,
           MaxMessages <= 2 => i > 1 /\ replied' = "after_anchor",
           MaxMessages > 2 => conversation' = "paused"
    PROVE  Waits(i)'
<1>1. ASSUME NEW w \in Worker PROVE ~Holder(w, i)'
  <2>1. w # None
    BY EngineAssumption
  <2> QED BY <2>1 DEF Holder, HoldsLease
<1> QED BY <1>1 DEF Waits

\* A claim is given back, and the action may be claimed again.
LEMMA ReleaseKeeps ==
    ASSUME IInv, CartInv, Quiet, NEW i \in Action, act[i].status \in Claimable,
           act'[i].status \in Claimable, act'[i].owner = None, act'[i].gen = act[i].gen,
           \A j \in Action : j # i => act'[j] = act[j],
           rc' = rc, \A w \in Worker : Halts(w),
           \A k \in Action, g \in Gen :
              /\ Fades(k, g)
              /\ att[k][g].phase = "request_started" => att'[k][g].phase = "request_started",
           conversation' = conversation, replied' = replied,
           \A g \in Gen : CaseOpen /\ Spent(i, g) => Unresolved(i, g)' /\ Waits(i)
    PROVE  CartInv'
<1>1. CaseOpen' <=> CaseOpen
  BY DEF CaseOpen
<1>2. act'[i].status # "accepted_by_chatwoot" /\ act[i].status \in Live
  BY DEF Claimable, Live
<1>3. \A j \in Action : Settles(j)
  BY <1>2 DEF Settles, CartInv, AcceptedSettled
<1>4. \A j \in Action, g \in Gen : Runs(j, g)
  BY <1>1 DEF Runs
<1>5. \A w \in Worker : wk[w].pc = "started" /\ CaseOpen' =>
          att'[wk[w].action][wk[w].gen].phase = "request_started"
  <2>1. \A w \in Worker : wk[w].action \in Action /\ wk[w].gen \in Gen
    BY Typed DEF IInv
  <2> QED BY <1>1, <2>1 DEF CartInv, RequestsOwned, Attempted
<1>6. StartsNothing
  BY <1>1, <1>3, <1>4, <1>5 DEF StartsNothing
<1>7. RepliesFollow'
  BY <1>1, BuyerKept
<1>8. LiveSpent'
  <2> SUFFICES ASSUME NEW j \in Action, NEW g \in Gen, CaseOpen', act'[j].status \in Live,
                      Spent(j, g)'
               PROVE  Waiting(j, g)'
    BY DEF LiveSpent
  <2>1. j = i
    <3>1. j # i => act[j].status \in Live
      OBVIOUS
    <3> QED BY <1>2, <3>1 DEF IInv, OneLiveAction
  <2>2. Spent(i, g)
    BY <1>6, <2>1, SpentFades
  <2>3. Unresolved(i, g)' /\ Waits(i)
    BY <1>1, <2>2
  <2>4. Waits(i)'
    BY <2>3, WaitsFreed DEF Waits
  <2> QED BY <2>1, <2>3, <2>4 DEF Waiting
<1> QED BY <1>6, <1>7, <1>8, StartsNothingKeeps

LEMMA DecideCart ==
    ASSUME IInv, CartInv, NEW w \in Worker, wk[w].pc \in Ahead, Decide(w),
           UNCHANGED <<att, buyer, timeUp, bounds>>
    PROVE  CartInv'
<1> DEFINE i == wk[w].action
<1>1. i \in Action /\ act[i].status \in Claimable /\ HoldsLease(w) /\ TypeOK
  BY Typed DEF Decide, HoldsLease, IInv
<1>2. Quiet
  BY DecideShape
<1>3. \A v \in Worker : Halts(v)
  BY BackHalts DEF Decide, IInv
<1>4. conversation' = conversation /\ replied' = replied /\ att' = att
  BY DEF buyer
<1>5. \A k \in Action, g \in Gen :
          /\ Fades(k, g)
          /\ att[k][g].phase = "request_started" => att'[k][g].phase = "request_started"
  BY <1>4, AttemptsKept
<1>6. \A g \in Gen : CaseOpen /\ Spent(i, g) => Waiting(i, g) /\ Waits(i)
  BY <1>1, HolderUnspent
<1> DEFINE Closes == \E s \in {"cancelled", "expired"} :
                        /\ ActionBecomes(i, s)
                        /\ \/ UNCHANGED rc
                           \/ \E c \in {"cancelled", "paused", "escalated", "expired"} :
                                 CaseBecomes(c)
<1> DEFINE Defers == /\ act' = [act EXCEPT ![i].status = "deferred", ![i].owner = None,
                                          ![i].lease = None, ![i].due = FALSE]
                     /\ UNCHANGED <<rc, seq>>
<1>7. Closes \/ Defers
  BY DEF Decide
<1>8. CASE Closes
  <2>1. (CaseOpen' => CaseOpen) /\ (rc.status = "expired" => rc'.status = "expired")
    <3>1. \A c \in {"cancelled", "paused", "escalated", "expired"} :
              c \in CaseStatus \ {"grace_period", "active"}
      BY DEF CaseStatus
    <3>2. ASSUME NEW c \in {"cancelled", "paused", "escalated", "expired"}, CaseBecomes(c)
          PROVE  ~CaseOpen' /\ (rc.status = "expired" => rc'.status = "expired")
      BY <3>1, <3>2, CaseMoves
    <3>3. ASSUME UNCHANGED rc
          PROVE  (CaseOpen' => CaseOpen) /\ (rc.status = "expired" => rc'.status = "expired")
      BY <3>3 DEF CaseOpen
    <3> QED BY <1>8, <3>2, <3>3
  <2>2. CaseOpen => ~Started(i)
    BY <1>1, HolderStartsNothing
  <2>3. PICK s \in {"cancelled", "expired"} : ActionBecomes(i, s)
    BY <1>8
  <2> HIDE DEF i
  <2> QED BY <1>1, <1>2, <1>3, <1>4, <1>5, <2>1, <2>2, <2>3, EndsClaim
<1>9. CASE Defers
  <2> DEFINE a == [act[i] EXCEPT !.status = "deferred", !.owner = None, !.lease = None,
                                 !.due = FALSE]
  <2>1. act[i] \in ScheduledAction /\ act \in [Action -> ScheduledAction]
    BY <1>1, Typed
  <2>2. a.status \in Claimable /\ a.owner = None /\ a.gen = act[i].gen
    BY <2>1 DEF ScheduledAction, Claimable
  <2>3. act' = [act EXCEPT ![i] = a]
    BY <1>9
  <2> HIDE DEF a
  <2>4. act'[i] = a /\ \A j \in Action : j # i => act'[j] = act[j]
    BY <1>1, <2>1, <2>3
  <2>5. PICK j \in Action : j = i
    BY <1>1
  <2>6. \A g \in Gen : CaseOpen /\ Spent(j, g) => Unresolved(j, g)' /\ Waits(j)
    BY <1>4, <1>6, <2>5 DEF Waiting, Unresolved
  <2>7. rc' = rc
    BY <1>9
  <2> HIDE DEF i
  <2>8. /\ act[j].status \in Claimable /\ act'[j].status \in Claimable
        /\ act'[j].owner = None /\ act'[j].gen = act[j].gen
        /\ \A k \in Action : k # j => act'[k] = act[k]
    BY <1>1, <2>2, <2>4, <2>5
  <2> QED BY <1>2, <1>3, <1>4, <1>5, <2>6, <2>7, <2>8, ReleaseKeeps
<1> QED BY <1>7, <1>8, <1>9

LEMMA FailCart ==
    ASSUME IInv, CartInv, NEW w \in Worker, FailBeforeRequest(w)
    PROVE  CartInv'
<1> DEFINE i == wk[w].action
<1>1. i \in Action /\ wk[w].gen \in Gen /\ act[i].status \in Claimable /\ TypeOK
  BY Typed DEF FailBeforeRequest, HoldsLease, IInv
<1>2. wk[w].pc \in Ahead /\ wk[w].pc # "claimed" /\ HoldsLease(w)
  BY DEF FailBeforeRequest, Ahead
<1>3. Quiet
  BY FailShape
<1>4. \A v \in Worker : Halts(v)
  BY <1>1, BackHalts DEF FailBeforeRequest
<1>5. rc' = rc /\ conversation' = conversation /\ replied' = replied
  BY DEF FailBeforeRequest, buyer
<1>6. \A k \in Action, g \in Gen :
          /\ Fades(k, g)
          /\ att[k][g].phase = "request_started" => att'[k][g].phase = "request_started"
  BY <1>1, UnsentFades DEF FailBeforeRequest, Attempted, Unsent
<1>7. \A g \in Gen : CaseOpen => ~Spent(i, g)
  BY <1>2, HolderUnspent
<1>8. CaseOpen => ~Started(i)
  BY <1>2, HolderStartsNothing
<1> DEFINE a == [act[i] EXCEPT !.status = "retryable_failed", !.owner = None,
                               !.lease = None, !.due = FALSE]
<1>9. act[i] \in ScheduledAction /\ act \in [Action -> ScheduledAction]
  BY <1>1, Typed
<1>10. a.status \in Claimable /\ a.owner = None /\ a.gen = act[i].gen
  BY <1>9 DEF ScheduledAction, Claimable
<1>11. \/ act' = [act EXCEPT ![i] = a]
       \/ \E s \in {"expired", "permanent_failed"} : ActionBecomes(i, s)
  BY DEF FailBeforeRequest
<1> HIDE DEF a, i
<1>12. CASE act' = [act EXCEPT ![i] = a]
  <2>1. act'[i] = a /\ \A j \in Action : j # i => act'[j] = act[j]
    BY <1>1, <1>9, <1>12
  <2> QED BY <1>1, <1>3, <1>4, <1>5, <1>6, <1>7, <1>10, <2>1, ReleaseKeeps
<1>13. CASE \E s \in {"expired", "permanent_failed"} : ActionBecomes(i, s)
  <2>1. PICK s \in {"expired", "permanent_failed"} : ActionBecomes(i, s)
    BY <1>13
  <2>2. (CaseOpen' => CaseOpen) /\ (rc.status = "expired" => rc'.status = "expired")
    BY <1>5 DEF CaseOpen
  <2> QED BY <1>1, <1>3, <1>4, <1>5, <1>6, <1>8, <2>1, <2>2, EndsClaim
<1> QED BY <1>11, <1>12, <1>13
-----------------------------------------------------------------------------
\* What follows a request: acceptance, an unknown delivery, a refusal.

\* What is open is all that its action has spent.
LEMMA OpenAlone ==
    ASSUME CartInv, NEW i \in Action, NEW g \in Gen,
           att[i][g].phase = "request_started" \/ Unresolved(i, g),
           NEW h \in Gen, Spent(i, h)
    PROVE  h = g
<1>1. Spent(i, g)
  BY DEF Spent
<1> QED BY <1>1 DEF CartInv, SpentOnce

LEMMA AcceptedFades ==
    ASSUME IInv, CartInv, NEW i \in Action, NEW g \in Gen, Acceptable(i, g), Accepted(i, g)
    PROVE  /\ \A k \in Action, h \in Gen :
                 /\ Fades(k, h)
                 /\ k # i \/ h # g => att'[k][h] = att[k][h]
           /\ \A h \in Gen : att'[i][h].phase # "request_started" /\ ~Unresolved(i, h)'
<1>1. TypeOK /\ att[i][g] \in Attempt /\ att \in [Action -> [Gen -> Attempt]]
  BY Typed DEF IInv
<1> DEFINE q == IF att[i][g].phase = "completed" THEN "accepted" ELSE None
<1>2. q \in {"accepted", None}
  OBVIOUS
<1> DEFINE r == [att[i][g] EXCEPT !.phase = "completed", !.outcome = "accepted",
                                  !.reason = None, !.window = None, !.resolution = q]
<1>3. AttSet(i, g, r)
  BY <1>1 DEF Accepted, AttSet
<1> HIDE DEF q
<1>4. /\ r \in Attempt /\ r.delivered = att[i][g].delivered /\ r.phase = "completed"
      /\ r.outcome = "accepted"
  BY <1>1, <1>2 DEF Attempt
<1> HIDE DEF r
<1>5. att'[i][g] = r /\ \A k \in Action, h \in Gen : k # i \/ h # g => att'[k][h] = att[k][h]
  BY <1>1, <1>3, <1>4, AttPut
<1>6. ASSUME NEW k \in Action, NEW h \in Gen PROVE Fades(k, h)
  <2>1. CASE k = i /\ h = g
    BY <1>4, <1>5, <2>1 DEF Fades, Unresolved
  <2>2. CASE k # i \/ h # g
    BY <1>5, <2>2 DEF Fades, Unresolved, CartInv, OutcomeIsFinal
  <2> QED BY <2>1, <2>2
<1>7. ASSUME NEW h \in Gen
      PROVE  att'[i][h].phase # "request_started" /\ ~Unresolved(i, h)'
  <2>1. CASE h = g
    BY <1>4, <1>5, <2>1 DEF Unresolved
  <2>2. CASE h # g
    <3>1. att'[i][h] = att[i][h]
      BY <1>5, <2>2
    <3>2. ~Spent(i, h)
      BY <2>2, OpenAlone DEF Acceptable
    <3> QED BY <3>1, <3>2 DEF Spent, Unresolved
  <2> QED BY <2>1, <2>2
<1> QED BY <1>5, <1>6, <1>7

\* The actions after an acceptance: the accepted one, a fresh successor, the rest.
LEMMA AcceptedActions ==
    ASSUME IInv, CartInv, NEW i \in Action, NEW g \in Gen, NEW expired,
           RecordAcceptance(i, g, expired)
    PROVE  /\ act'[i].status = "accepted_by_chatwoot" /\ act'[i].gen = act[i].gen
           /\ \A j \in Action : j # i /\ j # i + 1 => act'[j] = act[j] /\ act[j].status \notin Live
           /\ \/ /\ CaseOpen /\ CaseOpen' /\ act[i].status \in Live /\ conversation # "paused"
                 /\ rc'.status = "active" /\ AnchorMoves
                 /\ i + 1 \in Action => act[i + 1].status = None /\ act'[i + 1].status = "pending"
              \/ /\ CaseOpen /\ rc'.status = "sequence_exhausted"
                 /\ i + 1 \in Action => act'[i + 1] = act[i + 1] /\ act[i + 1].status \notin Live
              \/ /\ rc' = rc /\ replied' = replied
                 /\ i + 1 \in Action => act'[i + 1] = act[i + 1] /\ act[i + 1].status \notin Live
<1>1. TypeOK /\ act[i] \in ScheduledAction /\ act \in [Action -> ScheduledAction] /\ i # i + 1
  BY Typed DEF IInv, Action
<1>2. att[i][g].phase = "request_started" \/ Unresolved(i, g)
  BY DEF RecordAcceptance, Acceptable
<1>3. \A j \in Action : j # i => act[j].status \notin Live
  BY <1>2, OpenIsLive DEF CartInv
<1>4. ASSUME CaseOpen, act[i].status \in Live, ~ConversationPaused, AcceptWithSuccessor(i)
      PROVE  /\ act'[i].status = "accepted_by_chatwoot" /\ act'[i].gen = act[i].gen
             /\ \A j \in Action : j # i /\ j # i + 1 => act'[j] = act[j]
             /\ CaseOpen' /\ conversation # "paused"
             /\ rc'.status = "active" /\ AnchorMoves
             /\ i + 1 \in Action => act[i + 1].status = None /\ act'[i + 1].status = "pending"
  <2> DEFINE a == [act[i] EXCEPT !.status = "accepted_by_chatwoot", !.owner = None,
                                 !.lease = None]
  <2> DEFINE b == NewAction(rc.version + 1)
  <2>1. a.status = "accepted_by_chatwoot" /\ a.gen = act[i].gen
    BY <1>1 DEF ScheduledAction
  <2>2. act' = [[act EXCEPT ![i] = a] EXCEPT ![i + 1] = b]
    BY <1>1, <1>4 DEF AcceptWithSuccessor
  <2> HIDE DEF a, b
  <2>3. act'[i] = a /\ \A j \in Action : j # i /\ j # i + 1 => act'[j] = act[j]
    BY <1>1, <2>2
  <2>4. rc'.status = "active" /\ AnchorMoves /\ CaseOpen'
    BY <1>4 DEF AcceptWithSuccessor, CaseOpen
  <2>5. ASSUME i + 1 \in Action
        PROVE  act[i + 1].status = None /\ act'[i + 1].status = "pending"
    <3>1. act'[i + 1].status = "pending"
      BY <1>1, <1>4, <2>5, SuccessorTyped
    <3>2. act[i].status # "accepted_by_chatwoot" /\ i < i + 1
      BY <1>4 DEF Live, Claimable, Action
    <3>3. act[i + 1].status = None
      BY <2>5, <3>2 DEF IInv, OneLiveAction
    <3> QED BY <3>1, <3>3
  <2>6. conversation # "paused"
    BY <1>4 DEF ConversationPaused
  <2> QED BY <2>1, <2>3, <2>4, <2>5, <2>6
<1>5. Authoritative(i, g) => CaseOpen /\ act[i].status \in Live /\ ~ConversationPaused
  BY DEF Authoritative, Current
<1>6. CASE AcceptWithSuccessor(i) /\ Authoritative(i, g)
  BY <1>3, <1>4, <1>5, <1>6
<1>7. ASSUME ActionBecomes(i, "accepted_by_chatwoot")
      PROVE  /\ act'[i].status = "accepted_by_chatwoot" /\ act'[i].gen = act[i].gen
             /\ \A j \in Action : j # i => act'[j] = act[j]
  BY <1>1, <1>7, Becomes
<1>8. CASE AcceptLast(i) /\ Authoritative(i, g)
  <2>1. ActionBecomes(i, "accepted_by_chatwoot") /\ rc'.status = "sequence_exhausted"
    BY <1>8 DEF AcceptLast
  <2> QED BY <1>1, <1>3, <1>5, <1>7, <1>8, <2>1
<1>9. CASE AcceptOnly(i)
  <2>1. ActionBecomes(i, "accepted_by_chatwoot") /\ rc' = rc /\ replied' = replied
    BY <1>9 DEF AcceptOnly
  <2> QED BY <1>1, <1>3, <1>7, <2>1
<1> QED BY <1>6, <1>8, <1>9 DEF RecordAcceptance

LEMMA AcceptanceCart ==
    ASSUME IInv, CartInv, NEW i \in Action, NEW g \in Gen, NEW expired,
           RecordAcceptance(i, g, expired), \A w \in Worker : Halts(w),
           \A w \in Worker : wk[w].pc = "started" /\ CaseOpen =>
              wk[w].action # i \/ wk[w].gen # g
    PROVE  CartInv'
<1>1. /\ \A k \in Action, h \in Gen :
            Fades(k, h) /\ (k # i \/ h # g => att'[k][h] = att[k][h])
      /\ \A h \in Gen : att'[i][h].phase # "request_started" /\ ~Unresolved(i, h)'
  BY AcceptedFades DEF RecordAcceptance
<1>2. att[i][g].phase = "request_started" \/ Unresolved(i, g)
  BY DEF RecordAcceptance, Acceptable
<1>3. act'[i].status = "accepted_by_chatwoot" /\ act'[i].gen = act[i].gen
  BY AcceptedActions
<1>4. \A j \in Action : j # i /\ j # i + 1 => act'[j] = act[j] /\ act[j].status \notin Live
  BY AcceptedActions
<1> DEFINE Successor ==
        /\ CaseOpen /\ CaseOpen' /\ act[i].status \in Live /\ conversation # "paused"
        /\ rc'.status = "active" /\ AnchorMoves
        /\ i + 1 \in Action => act[i + 1].status = None /\ act'[i + 1].status = "pending"
<1> DEFINE Last ==
        /\ CaseOpen /\ rc'.status = "sequence_exhausted"
        /\ i + 1 \in Action => act'[i + 1] = act[i + 1] /\ act[i + 1].status \notin Live
<1> DEFINE Only ==
        /\ rc' = rc /\ replied' = replied
        /\ i + 1 \in Action => act'[i + 1] = act[i + 1] /\ act[i + 1].status \notin Live
<1>5. Successor \/ Last \/ Only
  BY AcceptedActions
<1>6. /\ "accepted_by_chatwoot" \notin Live /\ "accepted_by_chatwoot" \notin Claimable
      /\ "pending" # "accepted_by_chatwoot" /\ "accepted_by_chatwoot" # None
      /\ \A s : s \in Claimable => s \in Live
  BY DEF Live, Claimable, None
<1>7. ~Successor => \A j \in Action : act'[j].status \notin Live /\ (j # i => act'[j] = act[j])
  BY <1>3, <1>4, <1>5, <1>6
<1>8. (CaseOpen' => CaseOpen) /\ (~Successor => ~CaseOpen' \/ rc' = rc)
  BY <1>5 DEF CaseOpen
<1>9. \A j \in Action : Settles(j)
  <2> TAKE j \in Action
  <2>1. CASE j = i
    BY <1>1, <1>3, <1>6, <2>1 DEF Settles
  <2>2. CASE j # i /\ j # i + 1
    BY <1>4, <1>6, <2>2 DEF Settles
  <2>3. CASE j = i + 1 /\ Successor
    BY <1>6, <2>3 DEF Settles
  <2>4. CASE j # i /\ ~Successor
    BY <1>6, <1>7, <2>4 DEF Settles
  <2> QED BY <2>1, <2>2, <2>3, <2>4
<1>10. ASSUME NEW j \in Action, NEW h \in Gen PROVE Runs(j, h)
  <2> SUFFICES ASSUME att'[j][h].phase = "request_started"
               PROVE  /\ rc.status = "expired" => rc'.status = "expired"
                      /\ ~(CaseOpen /\ act[j].status \in Claimable)
    BY DEF Runs
  <2>1. rc.status = "expired" => rc'.status = "expired"
    BY <1>5 DEF CaseOpen
  <2>2. j # i
    BY <1>1
  <2>3. act[j].status \notin Live
    BY <1>2, <2>2, OpenIsLive DEF CartInv
  <2> QED BY <1>6, <2>1, <2>3
<1>11. \A w \in Worker : wk[w].pc = "started" /\ CaseOpen' =>
           att'[wk[w].action][wk[w].gen].phase = "request_started"
  <2>1. \A w \in Worker : wk[w].action \in Action /\ wk[w].gen \in Gen
    BY Typed DEF IInv
  <2> QED BY <1>1, <1>8, <2>1 DEF CartInv, RequestsOwned, Attempted
<1>12. StartsNothing
  BY <1>1, <1>8, <1>9, <1>10, <1>11 DEF StartsNothing
<1>13. LiveSpent'
  <2> SUFFICES ASSUME NEW j \in Action, NEW h \in Gen, CaseOpen', act'[j].status \in Live,
                      Spent(j, h)'
               PROVE  FALSE
    BY DEF LiveSpent
  <2>1. Spent(j, h)
    BY <1>12, SpentFades
  <2>2. Successor /\ j = i + 1
    BY <1>3, <1>4, <1>6, <1>7
  <2>3. act[j].status = None
    BY <2>2
  <2> QED BY <2>1, <2>3, UnplannedUnspent
<1>14. act'[1].status = "accepted_by_chatwoot"
  <2>1. 1 \in Action /\ (i = 1 \/ 1 < i) /\ 1 # i + 1
    BY EngineAssumption DEF Action
  <2>2. act[i].status # None
    BY <1>2, AttemptedExists DEF Unresolved, None
  <2>3. 1 < i => act[1].status = "accepted_by_chatwoot"
    BY <2>1, <2>2 DEF IInv, OneLiveAction
  <2>4. 1 < i => act'[1] = act[1]
    BY <1>4, <2>1
  <2> QED BY <1>3, <2>1, <2>3, <2>4
<1>15. conversation' = (IF conversation = "none" THEN "open" ELSE conversation)
  BY DEF RecordAcceptance, LinksConversation
<1>16. RepliesFollow'
  <2>1. act'[1].status \notin Live \cup {None}
    BY <1>6, <1>14
  <2>2. CASE Successor
    <3>1. conversation' # "paused"
      BY <1>15, <2>2
    <3>2. ASSUME MaxMessages <= 2, replied' = "before_anchor", NEW j \in Action
          PROVE  act'[j].status \notin Live
      <4>1. CASE j = i + 1
        <5>1. i = 1
          BY <3>2, <4>1, EngineAssumption DEF Action
        <5>2. replied = "never"
          BY <2>2, <5>1 DEF CartInv, RepliesFollow
        <5> QED BY <2>2, <3>2, <5>2 DEF AnchorMoves
      <4>2. CASE j # i + 1
        BY <1>3, <1>4, <1>6, <4>2
      <4> QED BY <4>1, <4>2
    <3> QED BY <2>1, <3>1, <3>2 DEF RepliesFollow
  <2>3. CASE ~Successor
    <3>1. CaseOpen' /\ conversation' = "paused" => replied' # "never"
      <4>1. CASE Last
        BY <4>1 DEF CaseOpen
      <4>2. CASE Only
        BY <1>15, <4>2 DEF CartInv, RepliesFollow, CaseOpen
      <4> QED BY <1>5, <2>3, <4>1, <4>2
    <3> QED BY <1>7, <2>1, <2>3, <3>1 DEF RepliesFollow
  <2> QED BY <2>2, <2>3
<1> QED BY <1>12, <1>13, <1>16, StartsNothingKeeps

LEMMA SentCart ==
    ASSUME IInv, CartInv, NEW w \in Worker, FinalizeSent(w)
    PROVE  CartInv'
<1>1. wk[w].action \in Action /\ wk[w].gen \in Gen /\ TypeOK
  BY Typed DEF IInv
<1>2. \A v \in Worker : Halts(v)
  BY <1>1, BackHalts DEF FinalizeSent
<1>3. \A v \in Worker : wk[v].pc = "started" /\ CaseOpen =>
          wk[v].action # wk[w].action \/ wk[v].gen # wk[w].gen
  BY DEF FinalizeSent, CartInv, ClaimsApart
<1>4. RecordAcceptance(wk[w].action, wk[w].gen, FALSE)
  BY DEF FinalizeSent
<1> QED BY <1>1, <1>2, <1>3, <1>4, AcceptanceCart

\* An open attempt is closed, and its action is not accepted.
LEMMA OpenEnds ==
    ASSUME IInv, CartInv, Quiet, NEW i \in Action, NEW g \in Gen,
           att[i][g].phase = "request_started" \/ Unresolved(i, g),
           NEW r \in Attempt, r.delivered = att[i][g].delivered, r.phase = "completed",
           AttSet(i, g, r),
           act'[i].gen = act[i].gen, \A j \in Action : j # i => act'[j] = act[j],
           \/ act'[i].status = act[i].status
           \/ /\ act'[i].status # "accepted_by_chatwoot"
              /\ act'[i].status \in Claimable => CaseOpen,
           rc' = rc, conversation' = conversation, replied' = replied,
           \A w \in Worker : Halts(w),
           \A w \in Worker : wk[w].pc = "started" /\ CaseOpen =>
              wk[w].action # i \/ wk[w].gen # g,
           CaseOpen /\ act'[i].status \in Live /\ (r.delivered \/ Unresolved(i, g)') =>
              Waiting(i, g)'
    PROVE  CartInv'
<1>1. TypeOK
  BY DEF IInv
<1>2. att'[i][g] = r /\ \A k \in Action, h \in Gen : k # i \/ h # g => att'[k][h] = att[k][h]
  BY <1>1, AttPut
<1>3. CaseOpen' <=> CaseOpen
  BY DEF CaseOpen
<1>4. ASSUME NEW k \in Action, NEW h \in Gen PROVE Fades(k, h)
  <2>1. CASE k = i /\ h = g
    BY <1>2, <2>1 DEF Fades
  <2>2. CASE k # i \/ h # g
    BY <1>2, <2>2 DEF Fades, Unresolved, CartInv, OutcomeIsFinal
  <2> QED BY <2>1, <2>2
<1>5. ASSUME NEW h \in Gen PROVE att'[i][h].phase # "request_started"
  <2>1. CASE h = g
    BY <1>2, <2>1
  <2>2. CASE h # g
    <3>1. ~Spent(i, h)
      BY <2>2, OpenAlone
    <3> QED BY <1>2, <2>2, <3>1 DEF Spent
  <2> QED BY <2>1, <2>2
<1>6. \A j \in Action : Settles(j)
  <2> TAKE j \in Action
  <2>1. CASE j # i
    <3>1. act'[j] = act[j]
      BY <2>1
    <3> QED BY <3>1 DEF Settles
  <2>2. CASE j = i
    BY <2>2 DEF Settles, CaseOpen
  <2> QED BY <2>1, <2>2
<1>7. ASSUME NEW j \in Action, NEW h \in Gen PROVE Runs(j, h)
  <2>1. CASE j = i
    BY <1>5, <2>1 DEF Runs
  <2>2. CASE j # i
    <3>1. act'[j] = act[j]
      BY <2>2
    <3> QED BY <1>3, <3>1 DEF Runs
  <2> QED BY <2>1, <2>2
<1>8. \A w \in Worker : wk[w].pc = "started" /\ CaseOpen' =>
          att'[wk[w].action][wk[w].gen].phase = "request_started"
  <2>1. \A w \in Worker : wk[w].action \in Action /\ wk[w].gen \in Gen
    BY <1>1, Typed
  <2> QED BY <1>2, <1>3, <2>1 DEF CartInv, RequestsOwned, Attempted
<1>9. StartsNothing
  BY <1>3, <1>4, <1>6, <1>7, <1>8 DEF StartsNothing
<1>10. LiveSpent'
  <2> SUFFICES ASSUME NEW j \in Action, NEW h \in Gen, CaseOpen', act'[j].status \in Live,
                      Spent(j, h)'
               PROVE  Waiting(j, h)'
    BY DEF LiveSpent
  <2>1. j = i
    <3>1. j # i => act[j].status \in Live
      OBVIOUS
    <3> QED BY <3>1, OpenIsLive DEF CartInv
  <2>2. h = g
    BY <1>9, <2>1, SpentFades, OpenAlone
  <2>3. r.delivered \/ Unresolved(i, g)'
    <3>1. ~\E w \in Worker : wk'[w].pc = "started" /\ wk'[w].action = i /\ wk'[w].gen = g
      BY <1>3 DEF Halts
    <3>2. att'[i][g].phase # "request_started"
      BY <1>5
    <3> QED BY <1>2, <2>1, <2>2, <3>1, <3>2 DEF Spent
  <2> QED BY <1>3, <2>1, <2>2, <2>3
<1>11. RepliesFollow'
  BY <1>3, BuyerKept
<1> QED BY <1>9, <1>10, <1>11, StartsNothingKeeps

\* The finalization finds the engine moved on although the case and the action did not: it
\* is the conversation that was paused, by a handoff that answers a reply.
LEMMA PausedWaits ==
    ASSUME IInv, CartInv, CaseOpen, conversation = "paused", replied' = replied,
           conversation' = conversation, NEW i \in Action, act[i].status \in Live,
           act'[i].owner = None
    PROVE  Waits(i)'
<1>1. i # 1
  BY DEF CartInv, RepliesFollow
<1>2. MaxMessages <= 2 => replied = "after_anchor"
  BY DEF CartInv, RepliesFollow, IInv, TypeOK
<1>3. i > 1
  BY <1>1 DEF Action
<1> QED BY <1>2, <1>3, WaitsFreed

LEMMA UnknownCart ==
    ASSUME IInv, CartInv, NEW w \in Worker, FinalizeUnknown(w)
    PROVE  CartInv'
<1>1. PICK i \in Action, g \in Gen : i = wk[w].action /\ g = wk[w].gen
  BY Typed DEF IInv
<1>2. TypeOK /\ att[i][g] \in Attempt /\ att \in [Action -> [Gen -> Attempt]]
  BY Typed DEF IInv
<1>3. Quiet
  BY UnknownShape
<1>4. \A v \in Worker : Halts(v)
  BY <1>2, BackHalts DEF FinalizeUnknown
<1>5. \A v \in Worker : wk[v].pc = "started" /\ CaseOpen => wk[v].action # i \/ wk[v].gen # g
  BY <1>1 DEF FinalizeUnknown, CartInv, ClaimsApart
<1>6. rc' = rc /\ conversation' = conversation /\ replied' = replied
  BY DEF FinalizeUnknown, buyer
<1>7. att[i][g].phase = "request_started"
  BY <1>1 DEF FinalizeUnknown
<1> DEFINE r == [att[i][g] EXCEPT !.phase = "completed", !.outcome = "delivery_unknown",
                                  !.window = "open"]
<1>8. AttSet(i, g, r)
  BY <1>1, <1>2 DEF FinalizeUnknown, AttSet
<1>9. /\ r \in Attempt /\ r.delivered = att[i][g].delivered /\ r.phase = "completed"
      /\ r.outcome = "delivery_unknown" /\ r.resolution = att[i][g].resolution
  BY <1>2 DEF Attempt
<1> HIDE DEF r
<1>10. att'[i][g] = r
  BY <1>2, <1>8, <1>9, AttPut
<1>11. Unresolved(i, g)'
  BY <1>7, <1>9, <1>10 DEF Unresolved, CartInv, OutcomeIsFinal
<1>12. \/ Authoritative(i, g) /\ ActionBecomes(i, "delivery_unknown")
       \/ ~Authoritative(i, g) /\ ActionBecomes(i, act[i].status)
  BY <1>1 DEF FinalizeUnknown
<1>13. /\ act'[i].status = "delivery_unknown" \/ act'[i].status = act[i].status
       /\ act'[i].owner = None /\ act'[i].gen = act[i].gen
       /\ \A j \in Action : j # i => act'[j] = act[j]
       /\ Authoritative(i, g) => act'[i].status = "delivery_unknown"
  BY <1>2, <1>12, Becomes
<1>14. "delivery_unknown" \notin Claimable /\ "delivery_unknown" # "accepted_by_chatwoot"
  BY DEF Claimable
<1>15. ASSUME CaseOpen, act'[i].status \in Live PROVE Waiting(i, g)'
  <2>1. ASSUME act'[i].status \in Claimable PROVE Waits(i)'
    <3>1. ~Authoritative(i, g) /\ act[i].status \in Claimable
      BY <1>13, <1>14, <2>1
    <3>2. act[i].status \in Live
      BY <3>1 DEF Live
    <3>3. InFlight(i, g)
      BY <1>7, <1>15, <3>2, StartedIsInFlight
    <3>4. conversation = "paused"
      BY <3>1, <3>3 DEF Authoritative, InFlight, ConversationPaused
    <3> QED BY <1>6, <1>13, <1>15, <3>2, <3>4, PausedWaits
  <2> QED BY <1>11, <2>1 DEF Waiting
<1> QED BY <1>3, <1>4, <1>5, <1>6, <1>7, <1>8, <1>9, <1>13, <1>14, <1>15, OpenEnds

\* An attempt that an opt-out cut off is of a cancelled case.
LEMMA OptedOutCart ==
    ASSUME IInv, CartInv, Quiet, NEW i \in Action, NEW g \in Gen, OptedOutNotApplied(i, g),
           rc' = rc, conversation' = conversation, replied' = replied,
           \A w \in Worker : Halts(w)
    PROVE  CartInv'
<1>1. TypeOK /\ att[i][g] \in Attempt /\ att \in [Action -> [Gen -> Attempt]]
  BY Typed DEF IInv
<1>2. Unresolved(i, g) /\ ~CaseOpen
  BY DEF OptedOutNotApplied, IInv, OptedOutIsLast, CaseOpen
<1> DEFINE r == [att[i][g] EXCEPT !.outcome = "rejected", !.resolution = "not_applied",
                                  !.window = None]
<1>3. AttSet(i, g, r)
  BY <1>1 DEF OptedOutNotApplied, AttSet
<1>4. att[i][g].phase = "completed"
  BY <1>2 DEF Unresolved, CartInv, OutcomeIsFinal, None
<1>5. r \in Attempt /\ r.delivered = att[i][g].delivered /\ r.phase = "completed"
  BY <1>1, <1>4 DEF Attempt
<1> HIDE DEF r
<1>6. /\ act'[i].status = "cancelled" /\ act'[i].gen = act[i].gen
      /\ \A j \in Action : j # i => act'[j] = act[j]
  BY <1>1, Becomes DEF OptedOutNotApplied
<1>7. "cancelled" # "accepted_by_chatwoot" /\ "cancelled" \notin Claimable
  BY DEF Claimable
<1> QED BY <1>2, <1>3, <1>5, <1>6, <1>7, OpenEnds

LEMMA BlockedCart ==
    ASSUME IInv, CartInv, NEW w \in Worker, FinalizeBlocked(w)
    PROVE  CartInv'
<1>1. PICK i \in Action, g \in Gen : i = wk[w].action /\ g = wk[w].gen
  BY Typed DEF IInv
<1>2. TypeOK /\ att[i][g] \in Attempt /\ att \in [Action -> [Gen -> Attempt]]
  BY Typed DEF IInv
<1>3. Quiet
  BY BlockedShape
<1>4. \A v \in Worker : Halts(v)
  BY <1>2, BackHalts DEF FinalizeBlocked
<1>5. \A v \in Worker : wk[v].pc = "started" /\ CaseOpen => wk[v].action # i \/ wk[v].gen # g
  BY <1>1 DEF FinalizeBlocked, CartInv, ClaimsApart
<1>6. rc' = rc /\ conversation' = conversation /\ replied' = replied
  BY DEF FinalizeBlocked, buyer
<1>7. ~att[i][g].delivered
  BY <1>1 DEF FinalizeBlocked, CartInv, RefusedUndelivered, Attempted
<1>8. CASE OptedOutNotApplied(i, g)
  BY <1>3, <1>4, <1>6, <1>8, OptedOutCart
<1>9. CASE ~OptedOutNotApplied(i, g)
  <2>1. att[i][g].phase = "request_started"
    BY <1>1, <1>9 DEF FinalizeBlocked
  <2> DEFINE r == [att[i][g] EXCEPT !.phase = "completed", !.outcome = "rejected"]
  <2>2. AttSet(i, g, r)
    BY <1>1, <1>2, <1>9 DEF FinalizeBlocked, AttSet
  <2>3. /\ r \in Attempt /\ r.delivered = att[i][g].delivered /\ r.phase = "completed"
        /\ r.outcome = "rejected"
    BY <1>2 DEF Attempt
  <2> HIDE DEF r
  <2>4. att'[i][g] = r
    BY <1>2, <2>2, <2>3, AttPut
  <2>5. ~Unresolved(i, g)' /\ ~r.delivered
    BY <1>7, <2>3, <2>4 DEF Unresolved
  <2>6. \/ ActionBecomes(i, "permanent_failed")
        \/ ActionBecomes(i, act[i].status)
    BY <1>1, <1>9 DEF FinalizeBlocked
  <2>7. /\ act'[i].status = "permanent_failed" \/ act'[i].status = act[i].status
        /\ act'[i].gen = act[i].gen /\ \A j \in Action : j # i => act'[j] = act[j]
    BY <1>2, <2>6, Becomes
  <2>8. "permanent_failed" \notin Claimable /\ "permanent_failed" # "accepted_by_chatwoot"
    BY DEF Claimable
  <2> QED BY <1>3, <1>4, <1>5, <1>6, <2>1, <2>2, <2>3, <2>5, <2>7, <2>8, OpenEnds
<1> QED BY <1>8, <1>9
-----------------------------------------------------------------------------
\* The operator.

\* Nobody has started what is unknown.
LEMMA UnknownNotStarted ==
    ASSUME IInv, CartInv, NEW i \in Action, NEW g \in Gen, Unresolved(i, g)
    PROVE  /\ att[i][g].phase = "completed"
           /\ \A w \in Worker : wk[w].pc = "started" /\ CaseOpen =>
                 wk[w].action # i \/ wk[w].gen # g
<1>1. att[i][g].phase = "completed"
  BY DEF Unresolved, CartInv, OutcomeIsFinal, None
<1> QED BY <1>1 DEF CartInv, RequestsOwned, Attempted

LEMMA NotAppliedCart ==
    ASSUME IInv, CartInv, NEW i \in Action, NEW g \in Gen, ReconcileNotApplied(i, g)
    PROVE  CartInv'
<1>1. TypeOK /\ att[i][g] \in Attempt /\ att \in [Action -> [Gen -> Attempt]]
  BY Typed DEF IInv
<1>2. Quiet
  BY NotAppliedShape
<1>3. Unresolved(i, g) /\ ~att[i][g].delivered
  BY DEF ReconcileNotApplied
<1>4. /\ rc' = rc /\ conversation' = conversation /\ replied' = replied
      /\ \A w \in Worker : Halts(w)
  BY DEF ReconcileNotApplied, buyer, Halts
<1>5. /\ att[i][g].phase = "completed"
      /\ \A w \in Worker : wk[w].pc = "started" /\ CaseOpen =>
            wk[w].action # i \/ wk[w].gen # g
  BY <1>3, UnknownNotStarted
<1>6. CASE OptedOutNotApplied(i, g)
  BY <1>2, <1>4, <1>6, OptedOutCart
<1>7. CASE ~OptedOutNotApplied(i, g)
  <2> DEFINE r == [att[i][g] EXCEPT !.outcome = "rejected", !.reason = None,
                                    !.resolution = "not_applied", !.window = None]
  <2>1. att' = [att EXCEPT ![i][g].outcome = "rejected", ![i][g].reason = None,
                           ![i][g].resolution = "not_applied", ![i][g].window = None]
    BY <1>7 DEF ReconcileNotApplied
  <2>2. AttSet(i, g, r)
    BY <1>1, <2>1 DEF AttSet
  <2>3. /\ r \in Attempt /\ r.delivered = att[i][g].delivered /\ r.phase = "completed"
        /\ r.outcome = "rejected"
    BY <1>1, <1>5 DEF Attempt
  <2> HIDE DEF r
  <2>4. att'[i][g] = r
    BY <1>1, <2>2, <2>3, AttPut
  <2>5. ~Unresolved(i, g)' /\ ~r.delivered
    BY <1>3, <2>3, <2>4 DEF Unresolved
  <2> DEFINE a == [act[i] EXCEPT !.status = "retryable_failed", !.owner = None,
                                 !.lease = None, !.due = FALSE]
  <2>6. act[i] \in ScheduledAction /\ act \in [Action -> ScheduledAction]
    BY <1>1, Typed
  <2>7. a.status = "retryable_failed" /\ a.gen = act[i].gen
    BY <2>6 DEF ScheduledAction
  <2>8. CaseOpen /\ (act' = [act EXCEPT ![i] = a] \/ ActionBecomes(i, act[i].status))
    BY <1>7 DEF ReconcileNotApplied, Current
  <2> HIDE DEF a
  <2>9. /\ act'[i].status = "retryable_failed" \/ act'[i].status = act[i].status
        /\ act'[i].gen = act[i].gen /\ \A j \in Action : j # i => act'[j] = act[j]
    <3>1. CASE act' = [act EXCEPT ![i] = a]
      <4>1. act'[i] = a /\ \A j \in Action : j # i => act'[j] = act[j]
        BY <2>6, <3>1
      <4> QED BY <2>7, <4>1
    <3>2. CASE ActionBecomes(i, act[i].status)
      BY <1>1, <3>2, Becomes
    <3> QED BY <2>8, <3>1, <3>2
  <2> QED BY <1>2, <1>3, <1>4, <1>5, <2>2, <2>3, <2>5, <2>8, <2>9, OpenEnds
<1> QED BY <1>6, <1>7

LEMMA EscalatedCart ==
    ASSUME IInv, CartInv, NEW i \in Action, NEW g \in Gen, ReconcileEscalated(i, g)
    PROVE  CartInv'
<1>1. TypeOK /\ att[i][g] \in Attempt /\ att \in [Action -> [Gen -> Attempt]]
  BY Typed DEF IInv
<1>2. Quiet
  BY EscalatedShape
<1>3. Unresolved(i, g)
  BY DEF ReconcileEscalated
<1>4. /\ conversation' = conversation /\ replied' = replied
      /\ \A w \in Worker : Halts(w)
  BY DEF ReconcileEscalated, buyer, Halts
<1>5. att[i][g].phase = "completed"
  BY <1>3, UnknownNotStarted
<1>6. ~CaseOpen' /\ (rc.status = "expired" => rc'.status = "expired")
  <2>1. "paused" \in CaseStatus \ {"grace_period", "active"}
    BY DEF CaseStatus
  <2> QED BY <2>1, CaseMoves DEF ReconcileEscalated
<1> DEFINE r == [att[i][g] EXCEPT !.resolution = "escalated"]
<1>7. AttSet(i, g, r)
  BY <1>1 DEF ReconcileEscalated, AttSet
<1>8. /\ r \in Attempt /\ r.delivered = att[i][g].delivered /\ r.phase = "completed"
      /\ r.resolution # None
  BY <1>1, <1>5 DEF Attempt, None
<1> HIDE DEF r
<1>9. att'[i][g] = r /\ \A k \in Action, h \in Gen : k # i \/ h # g => att'[k][h] = att[k][h]
  BY <1>1, <1>7, <1>8, AttPut
<1>10. /\ act'[i].status = act[i].status /\ \A j \in Action : act'[j].gen = act[j].gen
       /\ \A j \in Action : j # i => act'[j] = act[j]
  BY <1>1, Becomes DEF ReconcileEscalated
<1>11. rc'.status \notin {"won", "cancelled"} \/ rc' = rc
  BY DEF ReconcileEscalated, CaseBecomes
<1>12. ASSUME NEW j \in Action PROVE Settles(j)
  <2>1. act'[j].status = act[j].status
    BY <1>10
  <2> QED BY <1>10, <1>11, <2>1 DEF Settles
<1>13. ASSUME NEW k \in Action, NEW h \in Gen PROVE Fades(k, h)
  <2>1. CASE k = i /\ h = g
    BY <1>8, <1>9, <2>1 DEF Fades, Unresolved
  <2>2. CASE k # i \/ h # g
    BY <1>9, <2>2 DEF Fades, Unresolved, CartInv, OutcomeIsFinal
  <2> QED BY <2>1, <2>2
<1>14. ASSUME NEW k \in Action, NEW h \in Gen PROVE Runs(k, h)
  <2> SUFFICES ASSUME att'[k][h].phase = "request_started", act[k].status \in Claimable
               PROVE  FALSE
    BY <1>6 DEF Runs
  <2>1. att[k][h].phase = "request_started" /\ act[k].status \in Live
    BY <1>13 DEF Fades, Live
  <2>2. k = i
    BY <1>3, <2>1, OpenIsLive DEF CartInv
  <2>3. h = g
    BY <1>3, <2>1, <2>2, OpenAlone DEF Spent
  <2> QED BY <1>5, <2>1, <2>2, <2>3
<1>15. StartsNothing
  BY <1>4, <1>6, <1>12, <1>13, <1>14 DEF StartsNothing
<1>16. RepliesFollow'
  BY <1>2, <1>4, <1>6, BuyerKept
<1> QED BY <1>6, <1>15, <1>16, ClosingKeeps

LEMMA ReconcileCart ==
    ASSUME IInv, CartInv, NEW i \in Action, NEW g \in Gen, Reconcile(i, g)
    PROVE  CartInv'
<1>1. CASE ReconcileAccepted(i, g)
  <2>1. Unresolved(i, g) /\ RecordAcceptance(i, g, timeUp) /\ \A w \in Worker : Halts(w)
    BY <1>1 DEF ReconcileAccepted, Halts
  <2> QED BY <2>1, UnknownNotStarted, AcceptanceCart
<1> QED BY <1>1, NotAppliedCart, EscalatedCart DEF Reconcile
-----------------------------------------------------------------------------
\* A dispatcher on its way to the request.

\* An attempt that is reserved, and was not spent.
Reserved(k, h) ==
    /\ ~Spent(k, h)
    /\ att'[k][h].phase = "reserved" /\ att'[k][h].outcome = None
    /\ att'[k][h].resolution = None /\ att'[k][h].delivered = FALSE

\* An action under its old claim, or under a new one of w.
Claimed(w, j) ==
    /\ act'[j].status = act[j].status
    /\ act'[j].gen \in Int /\ act[j].gen <= act'[j].gen
    /\ \/ act'[j].owner = act[j].owner /\ act'[j].gen = act[j].gen
       \/ act'[j].owner = w /\ ~Started(j)

LEMMA ForwardKeeps ==
    ASSUME IInv, CartInv, NEW w \in Worker, NEW d \in Dispatcher, d.pc \in Ahead,
           wk' = [wk EXCEPT ![w] = d], rc' = rc, seq' = seq, UNCHANGED buyer,
           \A j \in Action : Claimed(w, j),
           \A k \in Action, h \in Gen : att'[k][h] = att[k][h] \/ Reserved(k, h),
           att[d.action][d.gen].phase # "request_started",
           d.gen <= act'[d.action].gen,
           \A v \in Worker : v # w /\ wk[v].pc # "idle" =>
              wk[v].action # d.action \/ wk[v].gen # d.gen,
           \A h \in Gen : CaseOpen /\ act[d.action].status \in Claimable /\ Spent(d.action, h) =>
              d.pc = "claimed" /\ (Waits(d.action) /\ MaxMessages <= 2 => d.sawReply)
    PROVE  CartInv'
<1>1. /\ d.action \in Action /\ d.gen \in Gen
      /\ \A v \in Worker : wk[v].action \in Action /\ wk[v].gen \in Gen
  BY Typed DEF Dispatcher, IInv
<1>2. wk'[w] = d /\ \A v \in Worker : v # w => wk'[v] = wk[v]
  BY Typed DEF IInv
<1>3. /\ CaseOpen' <=> CaseOpen
      /\ conversation' = conversation /\ replied' = replied /\ optOut' = optOut
      /\ \A j \in Action : act'[j].status = act[j].status
  BY DEF CaseOpen, buyer, Claimed
<1>4. d.pc \notin {"idle", "started", "posted"}
  BY DEF Ahead
<1>5. \A k \in Action, h \in Gen :
          /\ att'[k][h].phase = "request_started" => att[k][h].phase = "request_started"
          /\ att[k][h].phase = "request_started" => att'[k][h] = att[k][h]
          /\ att'[k][h].delivered => att[k][h].delivered
          /\ Unresolved(k, h)' => Unresolved(k, h)
  BY DEF Reserved, Spent, Unresolved, None
<1>6. ASSUME NEW k \in Action, NEW h \in Gen, Spent(k, h)'
      PROVE  Spent(k, h) /\ att'[k][h] = att[k][h]
  <2>1. CASE \E v \in Worker : wk'[v].pc = "started" /\ wk'[v].action = k /\ wk'[v].gen = h
    BY <1>2, <1>4, <2>1 DEF Spent, Reserved
  <2>2. CASE att'[k][h].delivered \/ att'[k][h].phase = "request_started" \/ Unresolved(k, h)'
    BY <1>5, <2>2 DEF Spent, Reserved
  <2> QED BY <1>6, <2>1, <2>2 DEF Spent
<1>7. SpentOnce'
  BY <1>6 DEF CartInv, SpentOnce
<1>8. LiveSpent'
  <2> SUFFICES ASSUME NEW j \in Action, NEW h \in Gen, CaseOpen', act'[j].status \in Live,
                      Spent(j, h)'
               PROVE  InFlight(j, h)' \/ Waiting(j, h)'
    BY DEF LiveSpent
  <2>1. Spent(j, h) /\ att'[j][h] = att[j][h] /\ CaseOpen /\ act[j].status \in Live
    BY <1>3, <1>6
  <2>2. InFlight(j, h) \/ Waiting(j, h)
    BY <2>1 DEF CartInv, LiveSpent
  <2>3. CASE InFlight(j, h)
    <3>1. Started(j) /\ Claimed(w, j)
      BY <2>3 DEF InFlight, Started
    <3>2. act'[j].status = act[j].status /\ act'[j].gen = act[j].gen
      BY <3>1 DEF Claimed
    <3> QED BY <1>3, <2>1, <2>3, <3>2 DEF InFlight, Current, Permitted
  <2>4. CASE Waiting(j, h)
    <3>1. Unresolved(j, h)'
      BY <2>1, <2>4 DEF Waiting, Unresolved
    <3>2. ASSUME act'[j].status \in Claimable PROVE Waits(j)'
      <4>1. Waits(j) /\ act[j].status \in Claimable
        BY <1>3, <2>4, <3>2 DEF Waiting
      <4>2. ASSUME NEW v \in Worker, Holder(v, j)', v # w
            PROVE  Holder(v, j) /\ wk'[v] = wk[v]
        <5>1. wk'[v] = wk[v] /\ wk[v].pc # "idle" /\ wk[v].action = j
          BY <1>2, <4>2 DEF Holder
        <5>2. act'[j].owner = v /\ act'[j].gen = wk[v].gen
          BY <4>2, <5>1 DEF Holder, HoldsLease
        <5>3. act[j].owner = v /\ act[j].gen = wk[v].gen
          BY <4>2, <5>2 DEF Claimed
        <5> QED BY <4>1, <5>1, <5>3 DEF Holder, HoldsLease
      <4>3. ASSUME Holder(w, j)'
            PROVE  d.pc = "claimed" /\ (MaxMessages <= 2 => d.sawReply)
        <5>1. d.action = j
          BY <1>2, <4>3 DEF Holder
        <5> QED BY <2>1, <4>1, <5>1
      <4>4. \A v \in Worker : Holder(v, j)' => wk'[v].pc = "claimed"
        BY <1>2, <4>1, <4>2, <4>3 DEF Waits
      <4>5. MaxMessages <= 2 => /\ j > 1 /\ replied' = "after_anchor"
                                /\ \A v \in Worker : Holder(v, j)' => wk'[v].sawReply
        BY <1>2, <1>3, <4>1, <4>2, <4>3 DEF Waits
      <4>6. MaxMessages > 2 => conversation' = "paused"
        BY <1>3, <4>1 DEF Waits
      <4> QED BY <4>4, <4>5, <4>6 DEF Waits
    <3> QED BY <3>1, <3>2 DEF Waiting
  <2> QED BY <2>2, <2>3, <2>4
<1>9. AcceptedSettled'
  BY <1>3, <1>5 DEF CartInv, AcceptedSettled
<1>10. StartedRuns'
  BY <1>3, <1>5 DEF CartInv, StartedRuns, Started
<1>11. StoppedUnclaimed'
  BY <1>3 DEF CartInv, StoppedUnclaimed
<1>12. ClaimsApart'
  BY <1>2 DEF CartInv, ClaimsApart
<1>13. ClaimsCounted'
  <2> SUFFICES ASSUME NEW v \in Worker, v # w, wk[v].pc # "idle"
               PROVE  wk[v].gen <= act'[wk[v].action].gen
    BY <1>2 DEF ClaimsCounted
  <2>1. wk[v].gen <= act[wk[v].action].gen /\ act[wk[v].action].gen <= act'[wk[v].action].gen
    BY <1>1 DEF CartInv, ClaimsCounted, Claimed
  <2>2. wk[v].gen \in Int /\ act[wk[v].action].gen \in Int /\ act'[wk[v].action].gen \in Int
    <3>1. \A j \in Action : act[j] \in ScheduledAction /\ act'[j].gen \in Int
      BY Typed DEF IInv, Claimed
    <3> QED BY <1>1, <3>1 DEF ScheduledAction, Gen
  <2> QED BY <2>1, <2>2
<1>14. OutcomeIsFinal'
  BY DEF CartInv, OutcomeIsFinal, Reserved
<1>15. RefusedUndelivered'
  BY <1>1, <1>2, <1>4, <1>5 DEF CartInv, RefusedUndelivered, Attempted
<1>16. RequestsOwned'
  <2> SUFFICES ASSUME NEW v \in Worker
               PROVE  /\ wk'[v].pc \in Ahead =>
                            att'[wk'[v].action][wk'[v].gen].phase # "request_started"
                      /\ wk'[v].pc = "started" /\ CaseOpen' =>
                            att'[wk'[v].action][wk'[v].gen].phase = "request_started"
    BY DEF RequestsOwned, Attempted
  <2>1. CASE v = w
    BY <1>1, <1>2, <1>4, <1>5, <2>1
  <2>2. CASE v # w
    BY <1>1, <1>2, <1>3, <1>5, <2>2 DEF CartInv, RequestsOwned, Attempted
  <2> QED BY <2>1, <2>2
<1>17. RepliesFollow'
  <2>1. 1 \in Action
    BY EngineAssumption DEF Action
  <2> QED BY <1>3, <2>1 DEF CartInv, RepliesFollow
<1> QED BY <1>7, <1>8, <1>9, <1>10, <1>11, <1>12, <1>13, <1>14, <1>15, <1>16, <1>17 DEF CartInv

\* What a step that writes no action and no attempt leaves to show.
LEMMA ActionsKept ==
    ASSUME TypeOK, act' = act, NEW w \in Worker
    PROVE  \A j \in Action : Claimed(w, j)
<1>1. \A j \in Action : act[j].gen \in Int
  BY Typed DEF ScheduledAction
<1> QED BY <1>1 DEF Claimed

LEMMA ClaimCart ==
    ASSUME IInv, CartInv, NEW w \in Worker, NEW i \in Action, Claim(w, i)
    PROVE  CartInv'
<1>1. /\ act[i] \in ScheduledAction /\ act \in [Action -> ScheduledAction]
      /\ \A j \in Action : act[j].gen \in Int
      /\ act[i].gen \in Int /\ act[i].gen + 1 \in Gen /\ TypeOK
  <2>1. act[i] \in ScheduledAction /\ act[i].gen \in 0..MaxGen /\ MaxGen \in Nat
    BY Typed, EngineAssumption DEF ScheduledAction, IInv
  <2>2. \A j \in Action : act[j].gen \in Int
    BY Typed DEF ScheduledAction, IInv
  <2> QED BY <2>1, <2>2, Typed DEF Claim, Gen, IInv
<1> DEFINE saw == replied = "after_anchor"
<1> DEFINE d == [Idle EXCEPT !.pc = "claimed", !.action = i, !.gen = act[i].gen + 1,
                             !.sawReply = saw]
<1>2. wk' = [wk EXCEPT ![w] = d]
  BY DEF Claim
<1>3. saw \in BOOLEAN
  OBVIOUS
<1> HIDE DEF saw
<1>4. /\ d \in Dispatcher /\ d.action = i /\ d.gen = act[i].gen + 1 /\ d.pc = "claimed"
      /\ d.sawReply = saw
  BY <1>1, <1>3, Idles DEF Dispatcher
<1> DEFINE a == [act[i] EXCEPT !.owner = w, !.lease = "live", !.gen = act[i].gen + 1]
<1>5. a.status = act[i].status /\ a.owner = w /\ a.gen = act[i].gen + 1
  BY <1>1 DEF ScheduledAction
<1>6. act' = [act EXCEPT ![i] = a]
  BY DEF Claim
<1> HIDE DEF a, d
<1>7. act'[i] = a /\ \A j \in Action : j # i => act'[j] = act[j]
  BY <1>1, <1>6
<1>8. ~Started(i) /\ act[i].status \in Claimable
  BY DEF Claim
<1>9. ASSUME NEW j \in Action PROVE Claimed(w, j)
  <2>1. CASE j = i
    BY <1>1, <1>5, <1>7, <1>8, <2>1 DEF Claimed
  <2>2. CASE j # i
    <3>1. act'[j] = act[j]
      BY <1>7, <2>2
    <3> QED BY <1>1, <3>1 DEF Claimed
  <2> QED BY <2>1, <2>2
<1>10. att[d.action][d.gen].phase # "request_started"
  BY <1>1, <1>4, <1>8 DEF Started
<1>11. d.gen <= act'[d.action].gen
  BY <1>1, <1>4, <1>5, <1>7
<1>12. ASSUME NEW v \in Worker, wk[v].pc # "idle"
       PROVE  wk[v].action # d.action \/ wk[v].gen # d.gen
  <2>1. wk[v].action = i => wk[v].gen <= act[i].gen
    BY <1>12 DEF CartInv, ClaimsCounted
  <2>2. wk[v].gen \in Int
    BY Typed DEF IInv, Gen
  <2> QED BY <1>1, <1>4, <2>1, <2>2
<1>13. Waits(i) /\ MaxMessages <= 2 => saw
  BY DEF Waits, saw
<1>14. rc' = rc /\ seq' = seq /\ att' = att /\ UNCHANGED buyer
  BY DEF Claim
<1>15. d.pc \in Ahead
  BY <1>4 DEF Ahead
<1> QED BY <1>2, <1>4, <1>9, <1>10, <1>11, <1>12, <1>13, <1>14, <1>15, ForwardKeeps

\* A lease holder goes on: he keeps his action and his claim.
LEMMA HolderKeeps ==
    ASSUME IInv, CartInv, NEW w \in Worker, wk[w].pc \in Ahead, HoldsLease(w),
           NEW d \in Dispatcher, d.pc \in Ahead, d.action = wk[w].action, d.gen = wk[w].gen,
           wk' = [wk EXCEPT ![w] = d], rc' = rc, seq' = seq, UNCHANGED buyer,
           \A j \in Action : Claimed(w, j) /\ act'[j].gen = act[j].gen,
           \A k \in Action, h \in Gen : att'[k][h] = att[k][h] \/ Reserved(k, h),
           wk[w].pc = "claimed" => ~Waits(wk[w].action)
    PROVE  CartInv'
<1>1. att[d.action][d.gen].phase # "request_started"
  BY DEF CartInv, RequestsOwned, Attempted
<1>2. wk[w].action \in Action /\ wk[w].gen \in Gen /\ wk[w].pc # "idle"
  BY Typed DEF IInv, Ahead
<1>3. d.gen <= act'[d.action].gen
  BY <1>2 DEF CartInv, ClaimsCounted
<1>4. \A v \in Worker : v # w /\ wk[v].pc # "idle" =>
          wk[v].action # d.action \/ wk[v].gen # d.gen
  BY <1>2 DEF CartInv, ClaimsApart
<1>5. \A h \in Gen : ~(CaseOpen /\ Spent(d.action, h))
  BY HolderUnspent
<1> QED BY <1>1, <1>3, <1>4, <1>5, ForwardKeeps

LEMMA PositionCart ==
    ASSUME IInv, CartInv, NEW w \in Worker, ReevaluateYes(w) \/ ReadClock(w) \/ FinalYes(w)
    PROVE  CartInv'
<1>1. /\ wk[w] \in Dispatcher /\ rc.version \in Nat /\ seq.revision \in Nat
      /\ timeUp \in BOOLEAN /\ TypeOK
  BY Typed DEF TypeOK, IInv
<1>2. /\ rc' = rc /\ seq' = seq /\ act' = act /\ att' = att /\ UNCHANGED buyer
      /\ HoldsLease(w) /\ wk[w].pc \in Ahead
  BY DEF ReevaluateYes, ReadClock, FinalYes, MayExecute, Ahead
<1>3. \A j \in Action : Claimed(w, j) /\ act'[j].gen = act[j].gen
  BY <1>1, <1>2, ActionsKept
<1>4. \A k \in Action, h \in Gen : att'[k][h] = att[k][h]
  BY <1>2
<1>5. CASE ReevaluateYes(w)
  <2> DEFINE d == [wk[w] EXCEPT !.pc = "decided", !.version = rc.version,
                                !.revision = seq.revision]
  <2>1. /\ d \in Dispatcher /\ d.pc = "decided" /\ d.action = wk[w].action
        /\ d.gen = wk[w].gen
    BY <1>1 DEF Dispatcher
  <2>2. wk' = [wk EXCEPT ![w] = d]
    BY <1>5 DEF ReevaluateYes
  <2> HIDE DEF d
  <2>3. ~Waits(wk[w].action)
    <3>1. ConversationPaused <=> conversation = "paused"
      BY DEF ConversationPaused
    <3>2. ~(wk[w].action > 1 /\ wk[w].sawReply) /\ conversation # "paused"
      BY <1>5, <3>1 DEF ReevaluateYes, MayExecute
    <3>3. Holder(w, wk[w].action)
      BY <1>2 DEF Holder, Ahead
    <3>4. MaxMessages <= 2 \/ MaxMessages > 2
      BY EngineAssumption
    <3> QED BY <3>2, <3>3, <3>4 DEF Waits
  <2>4. d.pc \in Ahead
    BY <2>1 DEF Ahead
  <2> QED BY <1>2, <1>3, <1>4, <2>1, <2>2, <2>3, <2>4, HolderKeeps
<1>6. CASE ReadClock(w)
  <2> DEFINE saw == replied = "after_anchor"
  <2> DEFINE d == [wk[w] EXCEPT !.pc = "final", !.late = timeUp, !.sawReply = saw]
  <2>1. saw \in BOOLEAN
    OBVIOUS
  <2>2. wk' = [wk EXCEPT ![w] = d]
    BY <1>6 DEF ReadClock
  <2> HIDE DEF saw
  <2>3. d \in Dispatcher /\ d.pc = "final" /\ d.action = wk[w].action /\ d.gen = wk[w].gen
    BY <1>1, <2>1 DEF Dispatcher
  <2> HIDE DEF d
  <2>4. d.pc \in Ahead /\ wk[w].pc # "claimed"
    BY <1>6, <2>3 DEF Ahead, ReadClock
  <2> QED BY <1>2, <1>3, <1>4, <2>2, <2>3, <2>4, HolderKeeps
<1>7. CASE FinalYes(w)
  <2> DEFINE d == [wk[w] EXCEPT !.pc = "cleared"]
  <2>1. d \in Dispatcher /\ d.pc = "cleared" /\ d.action = wk[w].action /\ d.gen = wk[w].gen
    BY <1>1 DEF Dispatcher
  <2>2. wk' = [wk EXCEPT ![w] = d]
    BY <1>7 DEF FinalYes
  <2> HIDE DEF d
  <2>3. d.pc \in Ahead /\ wk[w].pc # "claimed"
    BY <1>7, <2>1 DEF Ahead, FinalYes
  <2> QED BY <1>2, <1>3, <1>4, <2>1, <2>2, <2>3, HolderKeeps
<1> QED BY <1>5, <1>6, <1>7

LEMMA ReserveCart ==
    ASSUME IInv, CartInv, NEW w \in Worker, Reserve(w)
    PROVE  CartInv'
<1>1. PICK i \in Action, g \in Gen : i = wk[w].action /\ g = wk[w].gen
  BY Typed DEF IInv
<1>2. /\ TypeOK /\ act[i] \in ScheduledAction /\ act \in [Action -> ScheduledAction]
      /\ wk[w] \in Dispatcher /\ wk[w].version \in Nat /\ wk[w].revision \in Nat
      /\ \A j \in Action : act[j].gen \in Int
  BY Typed DEF IInv, ScheduledAction
<1>3. /\ rc' = rc /\ seq' = seq /\ UNCHANGED buyer /\ CaseOpen
      /\ HoldsLease(w) /\ wk[w].pc \in Ahead /\ wk[w].pc # "claimed"
  BY DEF Reserve, Ahead
<1> DEFINE a == [act[i] EXCEPT !.count = act[i].count + 1]
<1>4. a.status = act[i].status /\ a.owner = act[i].owner /\ a.gen = act[i].gen
  BY <1>2 DEF ScheduledAction
<1>5. act' = [act EXCEPT ![i] = a]
  BY <1>1 DEF Reserve
<1> DEFINE r == [NoAttempt EXCEPT !.phase = "reserved", !.version = wk[w].version,
                                  !.revision = wk[w].revision]
<1>6. /\ r \in Attempt /\ r.phase = "reserved" /\ r.outcome = None /\ r.resolution = None
      /\ r.delivered = FALSE
  BY <1>2 DEF Attempt, NoAttempt
<1>7. AttSet(i, g, r)
  BY <1>1 DEF Reserve, AttSet
<1> DEFINE d == [wk[w] EXCEPT !.pc = "reserved"]
<1>8. d \in Dispatcher /\ d.pc = "reserved" /\ d.action = wk[w].action /\ d.gen = wk[w].gen
  BY <1>2 DEF Dispatcher
<1>9. wk' = [wk EXCEPT ![w] = d]
  BY DEF Reserve
<1> HIDE DEF a, r, d
<1>10. d.pc \in Ahead
  BY <1>8 DEF Ahead
<1>11. act'[i] = a /\ \A j \in Action : j # i => act'[j] = act[j]
  BY <1>2, <1>5
<1>12. ASSUME NEW j \in Action PROVE Claimed(w, j) /\ act'[j].gen = act[j].gen
  <2>1. /\ act'[j].status = act[j].status /\ act'[j].owner = act[j].owner
        /\ act'[j].gen = act[j].gen
    BY <1>4, <1>11
  <2> QED BY <1>2, <2>1 DEF Claimed
<1>13. ~Spent(i, g)
  BY <1>1, <1>3, HolderUnspent
<1>14. att'[i][g] = r /\ \A k \in Action, h \in Gen : k # i \/ h # g => att'[k][h] = att[k][h]
  <2>1. TypeOK /\ r \in Attempt
    BY <1>2, <1>6
  <2> QED BY <1>7, <2>1, AttPut
<1>15. \A k \in Action, h \in Gen : att'[k][h] = att[k][h] \/ Reserved(k, h)
  BY <1>6, <1>13, <1>14 DEF Reserved
<1> QED BY <1>3, <1>8, <1>9, <1>10, <1>12, <1>15, HolderKeeps

\* The only step that spends: the holder of the lease, whose action nobody has spent.
LEMMA MarkCart ==
    ASSUME IInv, CartInv, NEW w \in Worker, MarkRequestStarted(w)
    PROVE  CartInv'
<1>1. PICK i \in Action, g \in Gen : i = wk[w].action /\ g = wk[w].gen
  BY Typed DEF IInv
<1>2. /\ TypeOK /\ att[i][g] \in Attempt /\ wk[w] \in Dispatcher
      /\ wk \in [Worker -> Dispatcher]
      /\ \A v \in Worker : wk[v].action \in Action /\ wk[v].gen \in Gen
  BY Typed DEF IInv
<1>3. /\ rc' = rc /\ seq' = seq /\ act' = act /\ UNCHANGED buyer
      /\ CaseOpen /\ seq.status = "active" /\ optOut = "none"
      /\ HoldsLease(w) /\ wk[w].pc \in Ahead /\ wk[w].pc # "claimed"
      /\ rc.version = att[i][g].version /\ seq.revision = att[i][g].revision
      /\ att[i][g].phase = "reserved"
  BY <1>1 DEF MarkRequestStarted, Ahead, PendingOptOutStop, Attempted
<1>4. \A h \in Gen : ~Spent(i, h)
  BY <1>1, <1>3, HolderUnspent
<1> DEFINE r == [att[i][g] EXCEPT !.phase = "request_started"]
<1>5. /\ r \in Attempt /\ r.phase = "request_started" /\ r.outcome = att[i][g].outcome
      /\ r.resolution = att[i][g].resolution /\ r.delivered = att[i][g].delivered
      /\ r.version = att[i][g].version /\ r.revision = att[i][g].revision
  BY <1>2 DEF Attempt
<1>6. AttSet(i, g, r)
  BY <1>1 DEF MarkRequestStarted, AttSet
<1> DEFINE d == [wk[w] EXCEPT !.pc = "started"]
<1>7. d.pc = "started" /\ d.action = i /\ d.gen = g
  BY <1>1, <1>2 DEF Dispatcher
<1>8. wk' = [wk EXCEPT ![w] = d]
  BY DEF MarkRequestStarted
<1> HIDE DEF r, d
<1>9. att'[i][g] = r /\ \A k \in Action, h \in Gen : k # i \/ h # g => att'[k][h] = att[k][h]
  <2>1. TypeOK /\ r \in Attempt
    BY <1>2, <1>5
  <2> QED BY <1>6, <2>1, AttPut
<1>10. wk'[w] = d /\ \A v \in Worker : v # w => wk'[v] = wk[v]
  BY <1>2, <1>8
<1>11. /\ CaseOpen' <=> CaseOpen
       /\ conversation' = conversation /\ replied' = replied /\ optOut' = optOut
  BY <1>3 DEF CaseOpen, buyer
<1>12. att[i][g].outcome = None /\ att[i][g].resolution = None
  BY <1>3 DEF CartInv, OutcomeIsFinal
<1>13. /\ act[i].status \in Claimable /\ act[i].status \in Live /\ act[i].gen = g
       /\ act[i].status # "accepted_by_chatwoot"
  BY <1>1, <1>3 DEF HoldsLease, Live, Claimable
<1>14. \A k \in Action, h \in Gen : Unresolved(k, h)' => Unresolved(k, h)
  BY <1>5, <1>9 DEF Unresolved
<1>15. ASSUME NEW k \in Action, NEW h \in Gen, Spent(k, h)', k # i \/ h # g PROVE Spent(k, h)
  <2>1. att'[k][h] = att[k][h]
    BY <1>9, <1>15
  <2>2. CASE \E v \in Worker : wk'[v].pc = "started" /\ wk'[v].action = k /\ wk'[v].gen = h
    BY <1>7, <1>10, <1>15, <2>2 DEF Spent
  <2>3. CASE att'[k][h].delivered \/ att'[k][h].phase = "request_started" \/ Unresolved(k, h)'
    BY <1>14, <2>1, <2>3 DEF Spent
  <2> QED BY <1>15, <2>2, <2>3 DEF Spent
<1>16. SpentOnce'
  <2> SUFFICES ASSUME NEW k \in Action, NEW g1 \in Gen, NEW g2 \in Gen,
                      Spent(k, g1)', Spent(k, g2)'
               PROVE  g1 = g2
    BY DEF SpentOnce
  <2>1. CASE k = i
    BY <1>4, <1>15, <2>1
  <2>2. CASE k # i
    BY <1>15, <2>2 DEF CartInv, SpentOnce
  <2> QED BY <2>1, <2>2
<1>17. LiveSpent'
  <2> SUFFICES ASSUME NEW k \in Action, NEW h \in Gen, act[k].status \in Live, Spent(k, h)'
               PROVE  InFlight(k, h)'
    BY <1>3 DEF LiveSpent
  <2>1. k = i
    BY <1>13 DEF IInv, OneLiveAction
  <2>2. h = g
    BY <1>4, <1>15, <2>1
  <2> QED BY <1>3, <1>5, <1>9, <1>11, <1>13, <2>1, <2>2 DEF InFlight, Current, Permitted
<1>18. AcceptedSettled'
  <2> SUFFICES ASSUME NEW k \in Action, NEW h \in Gen, act[k].status = "accepted_by_chatwoot"
               PROVE  att'[k][h].phase # "request_started" /\ ~Unresolved(k, h)'
    BY <1>3 DEF AcceptedSettled
  <2>1. k # i
    BY <1>13
  <2> QED BY <1>9, <1>14, <2>1 DEF CartInv, AcceptedSettled
<1>19. StartedRuns'
  <2> SUFFICES ASSUME NEW k \in Action, NEW h \in Gen, att'[k][h].phase = "request_started"
               PROVE  act[k].status \in Claimable
    BY <1>3, <1>11 DEF StartedRuns, Started
  <2>1. CASE k = i
    BY <1>13, <2>1
  <2>2. CASE k # i
    <3>1. Started(k)
      BY <1>9, <2>2 DEF Started
    <3> QED BY <1>3, <3>1 DEF CartInv, StartedRuns, CaseOpen
  <2> QED BY <2>1, <2>2
<1>20. StoppedUnclaimed'
  BY <1>3 DEF CartInv, StoppedUnclaimed
<1>21. \A v \in Worker : v # w /\ wk[v].pc # "idle" => wk[v].action # i \/ wk[v].gen # g
  BY <1>1, <1>3 DEF CartInv, ClaimsApart, Ahead
<1>22. ClaimsApart'
  BY <1>7, <1>10, <1>21 DEF CartInv, ClaimsApart
<1>23. ClaimsCounted'
  <2>1. g <= act[i].gen
    BY <1>1, <1>3 DEF CartInv, ClaimsCounted, Ahead
  <2> QED BY <1>3, <1>7, <1>10, <2>1 DEF CartInv, ClaimsCounted
<1>24. OutcomeIsFinal'
  <2> SUFFICES ASSUME NEW k \in Action, NEW h \in Gen,
                      att'[k][h].outcome # None \/ att'[k][h].resolution # None
               PROVE  att'[k][h].phase = "completed"
    BY DEF OutcomeIsFinal
  <2>1. k # i \/ h # g
    BY <1>5, <1>9, <1>12
  <2> QED BY <1>9, <2>1 DEF CartInv, OutcomeIsFinal
<1>25. RefusedUndelivered'
  <2> SUFFICES ASSUME NEW v \in Worker, wk'[v].pc = "posted", wk'[v].result = "blocked"
               PROVE  ~att'[wk'[v].action][wk'[v].gen].delivered
    BY DEF RefusedUndelivered, Attempted
  <2>1. v # w
    BY <1>7, <1>10
  <2>2. wk'[v] = wk[v] /\ (wk[v].action # i \/ wk[v].gen # g)
    BY <1>10, <1>21, <2>1
  <2> QED BY <1>2, <1>9, <2>2 DEF CartInv, RefusedUndelivered, Attempted
<1>26. RequestsOwned'
  <2> SUFFICES ASSUME NEW v \in Worker
               PROVE  /\ wk'[v].pc \in Ahead =>
                            att'[wk'[v].action][wk'[v].gen].phase # "request_started"
                      /\ wk'[v].pc = "started" /\ CaseOpen' =>
                            att'[wk'[v].action][wk'[v].gen].phase = "request_started"
    BY DEF RequestsOwned, Attempted
  <2>1. CASE v = w
    BY <1>5, <1>7, <1>9, <1>10, <2>1 DEF Ahead
  <2>2. CASE v # w /\ wk[v].pc = "idle"
    BY <1>10, <2>2 DEF Ahead
  <2>3. CASE v # w /\ wk[v].pc # "idle"
    <3>1. /\ wk'[v] = wk[v]
          /\ att'[wk[v].action][wk[v].gen] = att[wk[v].action][wk[v].gen]
      BY <1>2, <1>9, <1>10, <1>21, <2>3
    <3> QED BY <1>11, <3>1 DEF CartInv, RequestsOwned, Attempted
  <2> QED BY <2>1, <2>2, <2>3
<1>27. RepliesFollow'
  BY <1>3, <1>11 DEF CartInv, RepliesFollow
<1> QED BY <1>16, <1>17, <1>18, <1>19, <1>20, <1>22, <1>23, <1>24, <1>25, <1>26, <1>27
        DEF CartInv

\* The request tells what happened to it.
LEMMA PostCart ==
    ASSUME IInv, CartInv, NEW w \in Worker, NEW delivered \in BOOLEAN,
           NEW result \in {"sent", "unknown", "blocked"}, Post(w, delivered, result)
    PROVE  CartInv'
<1>1. PICK i \in Action, g \in Gen : i = wk[w].action /\ g = wk[w].gen
  BY Typed DEF IInv
<1>2. /\ TypeOK /\ att[i][g] \in Attempt /\ wk[w] \in Dispatcher
      /\ wk \in [Worker -> Dispatcher]
      /\ \A v \in Worker : wk[v].action \in Action /\ wk[v].gen \in Gen
  BY Typed DEF IInv
<1>3. /\ rc' = rc /\ seq' = seq /\ act' = act /\ UNCHANGED buyer
      /\ wk[w].pc = "started" /\ (result = "blocked" => delivered = FALSE)
  BY DEF Post
<1> DEFINE r == [att[i][g] EXCEPT !.delivered = delivered]
<1>4. /\ r \in Attempt /\ r.phase = att[i][g].phase /\ r.outcome = att[i][g].outcome
      /\ r.resolution = att[i][g].resolution /\ r.delivered = delivered
      /\ r.version = att[i][g].version /\ r.revision = att[i][g].revision
  BY <1>2 DEF Attempt
<1>5. AttSet(i, g, r)
  BY <1>1 DEF Post, AttSet
<1> DEFINE d == [wk[w] EXCEPT !.pc = "posted", !.result = result]
<1>6. d.pc = "posted" /\ d.action = i /\ d.gen = g /\ d.result = result
  BY <1>1, <1>2 DEF Dispatcher
<1>7. wk' = [wk EXCEPT ![w] = d]
  BY DEF Post
<1> HIDE DEF r, d
<1>8. att'[i][g] = r /\ \A k \in Action, h \in Gen : k # i \/ h # g => att'[k][h] = att[k][h]
  <2>1. TypeOK /\ r \in Attempt
    BY <1>2, <1>4
  <2> QED BY <1>5, <2>1, AttPut
<1>9. wk'[w] = d /\ \A v \in Worker : v # w => wk'[v] = wk[v]
  BY <1>2, <1>7
<1>10. /\ CaseOpen' <=> CaseOpen
       /\ conversation' = conversation /\ replied' = replied /\ optOut' = optOut
  BY <1>3 DEF CaseOpen, buyer
<1>11. \A k \in Action, h \in Gen :
          /\ att'[k][h].phase = att[k][h].phase /\ att'[k][h].outcome = att[k][h].outcome
          /\ att'[k][h].resolution = att[k][h].resolution
          /\ att'[k][h].version = att[k][h].version
          /\ att'[k][h].revision = att[k][h].revision
          /\ Unresolved(k, h)' <=> Unresolved(k, h)
  BY <1>4, <1>8 DEF Unresolved
<1>12. Spent(i, g)
  BY <1>1, <1>3 DEF Spent
<1>13. ASSUME NEW k \in Action, NEW h \in Gen, Spent(k, h)' PROVE Spent(k, h)
  <2>1. CASE k = i /\ h = g
    BY <1>12, <2>1
  <2>2. CASE k # i \/ h # g
    <3>1. att'[k][h] = att[k][h]
      BY <1>8, <2>2
    <3>2. CASE \E v \in Worker : wk'[v].pc = "started" /\ wk'[v].action = k /\ wk'[v].gen = h
      BY <1>6, <1>9, <3>2 DEF Spent
    <3>3. CASE att'[k][h].delivered \/ att'[k][h].phase = "request_started" \/ Unresolved(k, h)'
      BY <1>11, <3>1, <3>3 DEF Spent
    <3> QED BY <1>13, <3>2, <3>3 DEF Spent
  <2> QED BY <2>1, <2>2
<1>14. SpentOnce'
  BY <1>13 DEF CartInv, SpentOnce
<1>15. LiveSpent'
  <2> SUFFICES ASSUME NEW k \in Action, NEW h \in Gen, CaseOpen', act'[k].status \in Live,
                      Spent(k, h)'
               PROVE  InFlight(k, h)' \/ Waiting(k, h)'
    BY DEF LiveSpent
  <2>1. InFlight(k, h) \/ Waiting(k, h)
    BY <1>3, <1>10, <1>13 DEF CartInv, LiveSpent
  <2>2. CASE InFlight(k, h)
    BY <1>3, <1>10, <1>11, <2>2 DEF InFlight, Current, Permitted
  <2>3. CASE Waiting(k, h)
    <3>1. ASSUME act[k].status \in Claimable PROVE Waits(k)'
      <4>1. Waits(k)
        BY <2>3, <3>1 DEF Waiting
      <4>2. ASSUME NEW v \in Worker, Holder(v, k)' PROVE Holder(v, k) /\ wk'[v] = wk[v]
        <5>1. wk'[v].action = wk[v].action /\ wk'[v].gen = wk[v].gen /\ wk[v].pc # "idle"
          BY <1>1, <1>3, <1>6, <1>9, <4>2 DEF Holder
        <5>2. Holder(v, k)
          BY <1>3, <4>2, <5>1 DEF Holder, HoldsLease
        <5>3. v # w
          BY <1>3, <4>1, <5>2 DEF Waits
        <5> QED BY <1>9, <5>2, <5>3
      <4> QED BY <1>10, <4>1, <4>2 DEF Waits
    <3> QED BY <1>3, <1>11, <2>3, <3>1 DEF Waiting
  <2> QED BY <2>1, <2>2, <2>3
<1>16. AcceptedSettled'
  BY <1>3, <1>11 DEF CartInv, AcceptedSettled
<1>17. StartedRuns'
  BY <1>3, <1>10, <1>11 DEF CartInv, StartedRuns, Started
<1>18. StoppedUnclaimed'
  BY <1>3 DEF CartInv, StoppedUnclaimed
<1>19. \A v \in Worker : v # w /\ wk[v].pc # "idle" => wk[v].action # i \/ wk[v].gen # g
  BY <1>1, <1>3 DEF CartInv, ClaimsApart
<1>20. ClaimsApart'
  BY <1>6, <1>9, <1>19 DEF CartInv, ClaimsApart
<1>21. ClaimsCounted'
  <2>1. g <= act[i].gen
    BY <1>1, <1>3 DEF CartInv, ClaimsCounted
  <2> QED BY <1>3, <1>6, <1>9, <2>1 DEF CartInv, ClaimsCounted
<1>22. OutcomeIsFinal'
  BY <1>11 DEF CartInv, OutcomeIsFinal
<1>23. RefusedUndelivered'
  <2> SUFFICES ASSUME NEW v \in Worker, wk'[v].pc = "posted", wk'[v].result = "blocked"
               PROVE  ~att'[wk'[v].action][wk'[v].gen].delivered
    BY DEF RefusedUndelivered, Attempted
  <2>1. CASE v = w
    BY <1>3, <1>4, <1>6, <1>8, <1>9, <2>1
  <2>2. CASE v # w
    <3>1. wk'[v] = wk[v] /\ (wk[v].action # i \/ wk[v].gen # g)
      BY <1>9, <1>19, <2>2
    <3> QED BY <1>2, <1>8, <3>1 DEF CartInv, RefusedUndelivered, Attempted
  <2> QED BY <2>1, <2>2
<1>24. RequestsOwned'
  <2> SUFFICES ASSUME NEW v \in Worker
               PROVE  /\ wk'[v].pc \in Ahead =>
                            att'[wk'[v].action][wk'[v].gen].phase # "request_started"
                      /\ wk'[v].pc = "started" /\ CaseOpen' =>
                            att'[wk'[v].action][wk'[v].gen].phase = "request_started"
    BY DEF RequestsOwned, Attempted
  <2>1. CASE v = w
    BY <1>6, <1>9, <2>1 DEF Ahead
  <2>2. CASE v # w
    BY <1>2, <1>9, <1>10, <1>11, <2>2 DEF CartInv, RequestsOwned, Attempted
  <2> QED BY <2>1, <2>2
<1>25. RepliesFollow'
  BY <1>3, <1>10 DEF CartInv, RepliesFollow
<1> QED BY <1>14, <1>15, <1>16, <1>17, <1>18, <1>20, <1>21, <1>22, <1>23, <1>24, <1>25
        DEF CartInv
-----------------------------------------------------------------------------
\* Every step.

LEMMA InitCart == Init => CartInv
<1> SUFFICES ASSUME Init PROVE CartInv
  OBVIOUS
<1>1. /\ \A i \in Action : act[i] = NoAction /\ \A g \in Gen : att[i][g] = NoAttempt
      /\ \A w \in Worker : wk[w].pc = "idle"
      /\ rc.status = "none" /\ conversation = "none" /\ replied = "never"
  BY DEF Init, Idle
<1>2. /\ NoAction.status = None /\ NoAttempt.phase = None /\ NoAttempt.outcome = None
      /\ NoAttempt.resolution = None /\ NoAttempt.delivered = FALSE
  BY DEF NoAction, NoAttempt
<1>3. \A i \in Action, g \in Gen : ~Spent(i, g)
  BY <1>1, <1>2 DEF Spent, Unresolved, None
<1>4. SpentOnce /\ LiveSpent
  BY <1>3 DEF SpentOnce, LiveSpent
<1>5. AcceptedSettled /\ StartedRuns /\ StoppedUnclaimed
  BY <1>1, <1>2 DEF AcceptedSettled, StartedRuns, Started, StoppedUnclaimed, None
<1>6. ClaimsApart /\ ClaimsCounted /\ RefusedUndelivered /\ RequestsOwned
  BY <1>1 DEF ClaimsApart, ClaimsCounted, RefusedUndelivered, RequestsOwned, Ahead
<1>7. OutcomeIsFinal
  BY <1>1, <1>2 DEF OutcomeIsFinal
<1>8. RepliesFollow
  BY <1>1 DEF RepliesFollow
<1> QED BY <1>4, <1>5, <1>6, <1>7, <1>8 DEF CartInv

LEMMA PlanningCart ==
    ASSUME IInv, CartInv, Planning
    PROVE  CartInv'
<1>1. Plans
  BY PlanningShape
<1>2. \A i \in Action : act[i].status = None
  BY <1>1 DEF Plans, IInv, UnplannedIsEmpty
<1>3. 1 \in Action
  BY EngineAssumption DEF Action
<1>4. \A i \in Action, g \in Gen : ~Spent(i, g) /\ att[i][g] = NoAttempt
  BY <1>2, UnplannedUnspent
<1>5. \A w \in Worker : wk[w].pc = "idle"
  BY <1>2, UnplannedUnspent, Typed DEF IInv
<1>6. att' = att /\ wk' = wk /\ conversation' = conversation /\ replied' = replied
  BY <1>1 DEF Plans, Planning, PlanRecovery, StopForKnownPurchase,
              FailClosedAmbiguousKnownPurchase, Planned
<1>7. NoAttempt.phase = None /\ NoAttempt.outcome = None
  BY DEF NoAttempt
<1>8. \A i \in Action, g \in Gen : ~Spent(i, g)'
  <2>1. \A i \in Action, g \in Gen : Unresolved(i, g)' <=> Unresolved(i, g)
    BY <1>6 DEF Unresolved
  <2> QED BY <1>4, <1>6, <2>1 DEF Spent
<1>9. SpentOnce' /\ LiveSpent'
  BY <1>8 DEF SpentOnce, LiveSpent
<1>10. AcceptedSettled' /\ StartedRuns'
  BY <1>4, <1>6, <1>7 DEF AcceptedSettled, StartedRuns, Started, Unresolved, None
<1>11. StoppedUnclaimed'
  <2> SUFFICES ASSUME rc'.status \in {"won", "cancelled"}, NEW i \in Action
               PROVE  act'[i].status \notin Claimable
    BY DEF StoppedUnclaimed
  <2>1. CASE i = 1
    <3>1. StopForKnownPurchase
      BY DEF Planning, PlanRecovery, FailClosedAmbiguousKnownPurchase, Planned
    <3> DEFINE a == [NewAction(1) EXCEPT !.status = "cancelled"]
    <3>2. a.status = "cancelled"
      BY DEF NewAction, NoAction
    <3>3. act' = [act EXCEPT ![1] = a]
      BY <3>1 DEF StopForKnownPurchase, Planned
    <3> HIDE DEF a
    <3>4. act'[1] = a
      BY <1>3, <3>3, Typed DEF IInv
    <3> QED BY <2>1, <3>2, <3>4 DEF Claimable
  <2>2. CASE i # 1
    BY <1>1, <1>2, <2>2 DEF Plans, Claimable, None
  <2> QED BY <2>1, <2>2
<1>12. ClaimsApart' /\ ClaimsCounted' /\ RefusedUndelivered' /\ RequestsOwned'
  BY <1>5, <1>6 DEF ClaimsApart, ClaimsCounted, RefusedUndelivered, RequestsOwned, Ahead
<1>13. OutcomeIsFinal'
  BY <1>6 DEF CartInv, OutcomeIsFinal
<1>14. conversation = "none" /\ replied = "never"
  BY <1>2, <1>3 DEF CartInv, RepliesFollow
<1>15. RepliesFollow'
  BY <1>6, <1>14 DEF RepliesFollow
<1> QED BY <1>9, <1>10, <1>11, <1>12, <1>13, <1>15 DEF CartInv

LEMMA StepCart ==
    ASSUME MaxRepeats = 0, IInv, CartInv, [Next]_vars, ResumesClear
    PROVE  CartInv'
<1>1. ASSUME NEW w \in Worker, DispatcherStep(w) PROVE CartInv'
  <2>1. CASE \E i \in Action : Claim(w, i)
    BY <2>1, ClaimCart
  <2>2. CASE ReevaluateNo(w) \/ FinalNo(w)
    <3>1. /\ wk[w].pc \in Ahead /\ Decide(w)
          /\ UNCHANGED <<att, buyer, timeUp, bounds>>
      BY <2>2 DEF ReevaluateNo, FinalNo, Ahead
    <3> QED BY <3>1, DecideCart
  <2>3. CASE ReevaluateYes(w) \/ ReadClock(w) \/ FinalYes(w)
    BY <2>3, PositionCart
  <2>4. CASE Reserve(w) \/ FailBeforeRequest(w) \/ MarkRequestStarted(w)
    BY <2>4, ReserveCart, FailCart, MarkCart
  <2>5. CASE HandoffByAgent(w)
    BY <2>5, HandoffCart
  <2>6. CASE CloseForSegmentCoupon(w) \/ RunTerminated(w)
    BY <2>6, CloseCart
  <2>7. CASE \E delivered \in BOOLEAN, result \in {"sent", "unknown", "blocked"} :
                Post(w, delivered, result)
    BY <2>7, PostCart
  <2>8. CASE FinalizeSent(w) \/ FinalizeUnknown(w) \/ FinalizeBlocked(w)
    BY <2>8, SentCart, UnknownCart, BlockedCart
  <2> QED BY <1>1, <2>1, <2>2, <2>3, <2>4, <2>5, <2>6, <2>7, <2>8 DEF DispatcherStep
<1>2. CASE Planning
  BY <1>2, PlanningCart
<1>3. CASE \/ TimeUp
           \/ \E i \in Action : BecomesDue(i) \/ LeaseLapses(i)
           \/ \E i \in Action, g \in Gen : WindowCloses(i, g)
  BY <1>3, TimeCart
<1>4. CASE \E i \in Action : SweepExpired(i)
  BY <1>4, SweepCart
<1>5. CASE \E i \in Action, g \in Gen : Reconcile(i, g)
  BY <1>5, ReconcileCart
<1>6. CASE (\E w \in Worker : Abandon(w)) \/ UNCHANGED vars
  BY <1>6, AbandonCart
<1>7. CASE Stop \/ Conversation
  <2>1. ~RepeatPaymentFailure
    BY DEF IInv, TypeOK, RepeatPaymentFailure
  <2>2. CASE ApplyPurchase \/ AmbiguousPurchase
    BY <2>2, PurchaseCart
  <2>3. CASE ApplyOptOut
    BY <2>3, OptOutCart
  <2>4. CASE HandoffByOperator
    BY <2>4, HandoffCart
  <2>5. CASE KeepPurchase \/ BuyOtherOffer \/ RecordOptOut \/ Conversation
    BY <2>5, BuyerCart
  <2> QED BY <1>7, <2>1, <2>2, <2>3, <2>4, <2>5 DEF Stop
<1> QED BY <1>1, <1>2, <1>3, <1>4, <1>5, <1>6, <1>7 DEF Next

\* The inductive invariant of an abandoned cart (its repetition never joins the case):
\* what a step has spent, and whether another request for it can start.  With more than two
\* messages the conversation must not be resumed over a delivery nobody knows of.
THEOREM CartHolds ==
    ASSUME MaxRepeats = 0
    PROVE  Spec /\ [][ResumesClear]_vars => [](IInv /\ CartInv)
<1>1. Init => IInv /\ CartInv
  BY InitInv, InitCart
<1>2. IInv /\ CartInv /\ [Next]_vars /\ [ResumesClear]_vars => (IInv /\ CartInv)'
  <2> SUFFICES ASSUME IInv, CartInv, [Next]_vars, [ResumesClear]_vars
               PROVE  IInv' /\ CartInv'
    OBVIOUS
  <2>1. IInv'
    BY StepShape, QuietKeeps, PlansKeeps, AdvancesKeeps
  <2>2. CASE ResumesClear
    BY <2>1, <2>2, StepCart
  <2>3. CASE UNCHANGED vars
    BY <2>1, <2>3, AbandonCart
  <2> QED BY <2>1, <2>2, <2>3
<1> QED BY <1>1, <1>2, PTL DEF Spec

\* What the invariant of a cart gives.
LEMMA CartSafe ==
    ASSUME IInv, CartInv
    PROVE  OneDeliveryPerAction /\ UnknownBlocksSends /\ StoppedLeavesNothing
<1>1. OneDeliveryPerAction
  BY DEF CartInv, SpentOnce, Spent, OneDeliveryPerAction
<1>2. UnknownBlocksSends
  <2> SUFFICES ASSUME NEW i \in Action, NEW j \in Action, NEW g \in Gen, NEW h \in Gen,
                      Unresolved(i, g), att[j][h].phase = "request_started"
               PROVE  FALSE
    BY DEF UnknownBlocksSends
  <2>1. act[i].status # None /\ act[j].status # None
    BY AttemptedExists DEF Unresolved, None
  <2>2. ~(i < j)
    BY <2>1 DEF IInv, OneLiveAction, CartInv, AcceptedSettled
  <2>3. ~(j < i)
    BY <2>1 DEF IInv, OneLiveAction, CartInv, AcceptedSettled
  <2>4. i = j
    BY <2>2, <2>3 DEF Action
  <2>5. h = g
    BY <2>4, OpenAlone DEF Spent
  <2> QED BY <2>4, <2>5, StartedNotWaiting DEF CartInv
<1>3. StoppedLeavesNothing
  BY DEF CartInv, StoppedUnclaimed, StartedRuns, CaseOpen, StoppedLeavesNothing
<1> QED BY <1>1, <1>2, <1>3

\* No step of the sequence reaches the buyer twice: not by a retry, a reclaimed lease, a late
\* finalization or a reconciliation.
THEOREM OneDelivery ==
    ASSUME MaxRepeats = 0
    PROVE  Spec /\ [][ResumesClear]_vars => []OneDeliveryPerAction
<1>1. IInv /\ CartInv => OneDeliveryPerAction
  BY CartSafe
<1> QED BY <1>1, CartHolds, PTL

\* An uncertain result blocks the sends of the whole sequence (principle 9 of
\* followup-engine-v1.md) until it is reconciled.
THEOREM UnknownBlocks ==
    ASSUME MaxRepeats = 0
    PROVE  Spec /\ [][ResumesClear]_vars => []UnknownBlocksSends
<1>1. IInv /\ CartInv => UnknownBlocksSends
  BY CartSafe
<1> QED BY <1>1, CartHolds, PTL

\* A purchase or an opt-out leaves no claimable action and no request in flight.
THEOREM StopsLeaveNothing ==
    ASSUME MaxRepeats = 0
    PROVE  Spec /\ [][ResumesClear]_vars => []StoppedLeavesNothing
<1>1. IInv /\ CartInv => StoppedLeavesNothing
  BY CartSafe
<1> QED BY <1>1, CartHolds, PTL

\* A cart of at most two messages needs no word about resumed conversations: after the first
\* message only a reply that the claim sees pauses the conversation.
THEOREM ShortCart ==
    ASSUME MaxRepeats = 0, MaxMessages <= 2
    PROVE  Spec => [](OneDeliveryPerAction /\ UnknownBlocksSends /\ StoppedLeavesNothing)
<1>1. [Next]_vars => [ResumesClear]_vars
  <2>1. ~(MaxMessages > 2)
    BY EngineAssumption
  <2> QED BY <2>1 DEF ResumesClear
<1>2. IInv /\ CartInv => OneDeliveryPerAction /\ UnknownBlocksSends /\ StoppedLeavesNothing
  BY CartSafe
<1>3. Spec => [](IInv /\ CartInv)
  BY <1>1, CartHolds, PTL DEF Spec
<1> QED BY <1>2, <1>3, PTL
=============================================================================
