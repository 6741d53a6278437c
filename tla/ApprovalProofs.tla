--------------------------- MODULE ApprovalProofs ---------------------------
(***************************************************************************)
(* What holds of Approval for every set of runs, companies, industries and *)
(* sessions, every cap and quota.  IInv is the inductive invariant; each   *)
(* action has a lemma that it preserves IInv.                              *)
(***************************************************************************)
EXTENDS Approval, FiniteSetTheorems, TLAPS

(* Two transactions never work on one item, nor hold one day's row. *)
DistinctItems ==
  \A s, t \in Sessions :
    (Busy(s) /\ Busy(t) /\ session[s].item = session[t].item) => s = t

DistinctDays ==
  \A s, t \in Sessions :
    (/\ Busy(s) /\ session[s].locks > 0
     /\ Busy(t) /\ session[t].locks > 0
     /\ session[s].date = session[t].date) => s = t

SameSubject(i, j) == i[1] = j[1] /\ i[3] = j[3]

(* What an approval has read under its locks is still true. *)
DecisionStands(s) ==
  session[s].kind = "decide" =>
    LET i == session[s].item
        d == session[s].date
    IN  /\ item[i] = "pending"
        /\ session[s].pc = "score" =>
             /\ score[i] = "passed"
             /\ \A l \in leads : ~SameSubject(l.item, i)
        /\ session[s].locks > 0 =>
             /\ session[s].pc = "score"
             /\ total[d] < Cap[i[1]]
        /\ session[s].locks > 1 => count[d][session[s].industry] < Quota(i[1])

(* A revocation knows its lead. *)
RevocationStands(s) ==
  session[s].kind = "revoke" =>
    \E l \in leads : /\ l.item = session[s].item
                     /\ l.date = session[s].date
                     /\ l.industry = session[s].industry

Stands == \A s \in Sessions : DecisionStands(s) /\ RevocationStands(s)

(* The unique index on pending items. *)
OneOpenItem ==
  \A i, j \in Items :
    (item[i] = "pending" /\ item[j] = "pending" /\ SameSubject(i, j)) => i = j

(* retry_run has an attempt number left, a matter of the bound only. *)
RetryHasRoom == retrying # NoRun => attempts[retrying] < MaxAttempts

IInv ==
  /\ TypeOK
  /\ RetryHasRoom
  /\ IsFiniteSet(leads)
  /\ ApprovedHaveLeads
  /\ OneOpenItem
  /\ DistinctItems
  /\ DistinctDays
  /\ Stands
  /\ CountersMatchLeads
  /\ CapsHold

-----------------------------------------------------------------------------
(* A busy session carries a transaction. *)
LEMMA BusyType ==
  ASSUME TypeOK, NEW s \in Sessions, Busy(s)
  PROVE  session[s] \in Transaction
BY DEF TypeOK, Busy, Idle

(* A step that gives session s a record of the right type and changes nothing
   else keeps the types. *)
LEMMA SessionType ==
  ASSUME TypeOK, NEW s \in Sessions, NEW x \in Transaction \cup {Idle},
         session' = [session EXCEPT ![s] = x],
         UNCHANGED <<attempts, score, item, shortlist, chosen, leads, total, count, retrying,
                     upserts, today>>
  PROVE  TypeOK'
<1>1. session' \in [Sessions -> Transaction \cup {Idle}]
  BY DEF TypeOK
<1> QED
  BY <1>1 DEF TypeOK

LEMMA QuotaType ==
  ASSUME NEW r \in Runs
  PROVE  Quota(r) \in Int
<1>1. Cap[r] * SharePct[r] \in Int
  BY ShapeAssumption
<1> QED
  BY <1>1 DEF Quota

(* An item is its three coordinates. *)
LEMMA ItemParts ==
  ASSUME NEW i \in Items
  PROVE  /\ i = <<i[1], i[2], i[3]>>
         /\ i[1] \in Runs /\ i[2] \in 1 .. MaxAttempts /\ i[3] \in Companies
BY DEF Items

LEMMA InitInvariant == Init => IInv
<1> SUFFICES ASSUME Init PROVE IInv
  OBVIOUS
<1> USE ShapeAssumption DEF Init
<1>1. TypeOK
  BY DEF TypeOK, Days
<1>2. IsFiniteSet(leads) /\ Cardinality({}) = 0
  BY FS_EmptySet
<1>3. \A d \in Days : On(d) = {} /\ \A x \in Industries : In(d, x) = {}
  BY DEF On, In
<1>4. CountersMatchLeads
  BY <1>2, <1>3 DEF CountersMatchLeads
<1>5. CapsHold
  BY <1>3 DEF CapsHold
<1>6. \A s \in Sessions : session[s].kind = "none"
  BY DEF Idle
<1>7. DistinctItems /\ DistinctDays /\ Stands
  BY <1>6 DEF DistinctItems, DistinctDays, Stands, DecisionStands, RevocationStands, Busy
<1>8. ApprovedHaveLeads /\ OneOpenItem
  BY DEF ApprovedHaveLeads, OneOpenItem
<1> QED
  BY <1>1, <1>2, <1>4, <1>5, <1>7, <1>8 DEF IInv, RetryHasRoom

-----------------------------------------------------------------------------
(* Actions that touch neither the items nor the leads and counters. *)
LEMMA Frame ==
  ASSUME IInv, UNCHANGED <<item, leads, total, count>>,
         TypeOK', RetryHasRoom', DistinctItems', DistinctDays', Stands'
  PROVE  IInv'
BY DEF IInv, ApprovedHaveLeads, OneOpenItem, CountersMatchLeads, CapsHold, On, In

LEMMA UpsertInvariant ==
  ASSUME IInv, NEW i \in Items, NEW gate \in {"low", "passed"}, upsert_score(i, gate)
  PROVE  IInv'
<1> USE DEF IInv, upsert_score
<1>1. TypeOK'
  <2>1. score' \in [Items -> {"none", "low", "passed", "invalid"}]
    BY DEF TypeOK
  <2>2. upserts' \in 0 .. MaxUpserts
    BY ShapeAssumption DEF TypeOK
  <2> QED
    BY <2>1, <2>2 DEF TypeOK
<1>2. DistinctItems' /\ DistinctDays'
  BY DEF DistinctItems, DistinctDays, Busy
<1>3. Stands'
  <2> SUFFICES ASSUME NEW s \in Sessions PROVE DecisionStands(s)' /\ RevocationStands(s)'
    BY DEF Stands
  <2>1. DecisionStands(s) /\ RevocationStands(s)
    BY DEF Stands
  <2>2. RevocationStands(s)'
    BY <2>1 DEF RevocationStands
  <2>3. ASSUME session[s].kind = "decide", session[s].pc = "score"
        PROVE  score'[session[s].item] = score[session[s].item]
    BY <2>3 DEF ScoreFree, HoldsScore, TypeOK
  <2> QED
    BY <2>1, <2>2, <2>3 DEF DecisionStands
<1> QED
  BY <1>1, <1>2, <1>3, Frame DEF RetryHasRoom

(* Rolling back releases locks and promises nothing. *)
LEMMA RollbackInvariant ==
  ASSUME IInv, NEW s \in Sessions, Rollback(s),
         UNCHANGED <<attempts, score, item, shortlist, chosen, leads, total, count, upserts, today>>,
         retrying' \in {retrying, NoRun}
  PROVE  IInv'
<1> USE DEF IInv, Rollback
<1>1. TypeOK'
  BY DEF TypeOK
<1>2. ~Busy(s)' /\ \A t \in Sessions : t # s => session'[t] = session[t]
  BY DEF Busy, Idle, TypeOK
<1>3. session'[s].kind = "none"
  BY DEF Idle, TypeOK
<1>4. DistinctItems' /\ DistinctDays'
  BY <1>2 DEF DistinctItems, DistinctDays, Busy
<1>5. Stands'
  BY <1>2, <1>3 DEF Stands, DecisionStands, RevocationStands
<1> QED
  BY <1>1, <1>4, <1>5, Frame DEF RetryHasRoom

LEMMA BeginApproveInvariant ==
  ASSUME IInv, NEW s \in Sessions, NEW i \in Items, begin_approve(s, i)
  PROVE  IInv'
<1> USE DEF IInv, begin_approve
<1>1. PICK d \in Days :
        session' = [session EXCEPT ![s] =
          [kind |-> "decide", pc |-> "item", locks |-> 0, item |-> i, date |-> d,
           industry |-> Industry[i[3]]]]
  BY DEF begin_approve
<1>2. Industry[i[3]] \in Industries
  BY ShapeAssumption DEF Items
<1>3. /\ session'[s] = [kind |-> "decide", pc |-> "item", locks |-> 0, item |-> i, date |-> d,
                        industry |-> Industry[i[3]]]
      /\ \A t \in Sessions : t # s => session'[t] = session[t]
  BY <1>1 DEF TypeOK
<1>4. TypeOK'
  <2>1. [kind |-> "decide", pc |-> "item", locks |-> 0, item |-> i, date |-> d,
         industry |-> Industry[i[3]]] \in Transaction
    BY <1>2 DEF Transaction
  <2>2. UNCHANGED <<attempts, score, item, shortlist, chosen, leads, total, count, retrying,
                    upserts, today>>
    BY DEF begin_approve
  <2> QED
    BY <1>1, <2>1, <2>2, SessionType
<1>5. DistinctItems'
  BY <1>3 DEF DistinctItems, Busy, ItemFree, HoldsItem
<1>6. DistinctDays'
  BY <1>3 DEF DistinctDays, Busy
<1>7. Stands'
  <2> SUFFICES ASSUME NEW t \in Sessions PROVE DecisionStands(t)' /\ RevocationStands(t)'
    BY DEF Stands
  <2>1. CASE t = s
    BY <1>3, <2>1 DEF DecisionStands, RevocationStands
  <2>2. CASE t # s
    BY <1>3, <2>2 DEF Stands, DecisionStands, RevocationStands
  <2> QED
    BY <2>1, <2>2
<1> QED
  BY <1>4, <1>5, <1>6, <1>7, Frame DEF RetryHasRoom

LEMMA BeginRevokeInvariant ==
  ASSUME IInv, NEW s \in Sessions, NEW i \in Items, begin_revoke(s, i)
  PROVE  IInv'
<1> USE DEF IInv, begin_revoke
<1>1. PICK l \in leads :
        /\ l.item = i
        /\ session' = [session EXCEPT ![s] =
             [kind |-> "revoke", pc |-> "item", locks |-> 0, item |-> i, date |-> l.date,
              industry |-> l.industry]]
  BY DEF begin_revoke
<1>2. l \in Lead
  BY DEF TypeOK
<1>3. /\ session'[s] = [kind |-> "revoke", pc |-> "item", locks |-> 0, item |-> i,
                        date |-> l.date, industry |-> l.industry]
      /\ \A t \in Sessions : t # s => session'[t] = session[t]
  BY <1>1 DEF TypeOK
<1>4. TypeOK'
  <2>1. [kind |-> "revoke", pc |-> "item", locks |-> 0, item |-> i, date |-> l.date,
         industry |-> l.industry] \in Transaction
    BY <1>2 DEF Transaction, Lead
  <2>2. UNCHANGED <<attempts, score, item, shortlist, chosen, leads, total, count, retrying,
                    upserts, today>>
    BY DEF begin_revoke
  <2> QED
    BY <1>1, <2>1, <2>2, SessionType
<1>5. DistinctItems'
  BY <1>3 DEF DistinctItems, Busy, ItemFree, HoldsItem
<1>6. DistinctDays'
  BY <1>3 DEF DistinctDays, Busy
<1>7. Stands'
  <2> SUFFICES ASSUME NEW t \in Sessions PROVE DecisionStands(t)' /\ RevocationStands(t)'
    BY DEF Stands
  <2>1. CASE t = s
    BY <1>1, <1>3, <2>1 DEF DecisionStands, RevocationStands
  <2>2. CASE t # s
    BY <1>3, <2>2 DEF Stands, DecisionStands, RevocationStands
  <2> QED
    BY <2>1, <2>2
<1> QED
  BY <1>4, <1>5, <1>6, <1>7, Frame DEF RetryHasRoom

(* One more counter row locked by s, which was free of other sessions. *)
LEMMA OneMoreLock ==
  ASSUME IInv, NEW s \in Sessions, Busy(s), session[s].locks < 2, LockedOneMore(s),
         UNCHANGED <<attempts, score, item, shortlist, chosen, leads, total, count, retrying,
                     upserts, today>>,
         session[s].locks = 0 => DayFree(session[s].date),
         session[s].kind = "decide" =>
           /\ session[s].pc = "score"
           /\ total[session[s].date] < Cap[session[s].item[1]]
           /\ session[s].locks = 1 =>
                count[session[s].date][session[s].industry] < Quota(session[s].item[1])
  PROVE  IInv'
<1> USE DEF IInv, LockedOneMore
<1>1. session[s] \in Transaction
  BY BusyType
<1>2. session'[s] = [session[s] EXCEPT !.locks = @ + 1]
  BY DEF TypeOK
<1>3. \A t \in Sessions : t # s => session'[t] = session[t]
  BY DEF TypeOK
<1>4. /\ session'[s].kind = session[s].kind
      /\ session'[s].pc = session[s].pc
      /\ session'[s].item = session[s].item
      /\ session'[s].date = session[s].date
      /\ session'[s].industry = session[s].industry
      /\ session'[s].locks = session[s].locks + 1
  BY <1>1, <1>2 DEF Transaction
<1>5. session'[s] \in Transaction
  BY <1>1, <1>2 DEF Transaction
<1>6. TypeOK'
  BY <1>5 DEF TypeOK
<1>7. DistinctItems'
  BY <1>3, <1>4 DEF DistinctItems, Busy
<1>8. DistinctDays'
  <2>1. ASSUME NEW t \in Sessions, t # s, Busy(t), session[t].locks > 0,
               session[t].date = session[s].date
        PROVE  session[s].locks > 0
    <3> SUFFICES ASSUME session[s].locks = 0 PROVE FALSE
      BY <1>1 DEF Transaction
    <3>1. ~HoldsDay(t, session[s].date)
      BY DEF DayFree
    <3>2. session[t] \in Transaction
      BY <2>1, BusyType
    <3> QED
      BY <2>1, <3>1, <3>2 DEF HoldsDay, DayPlace, Transaction
  <2>2. ASSUME NEW t \in Sessions, t # s, Busy(t), session[t].locks > 0,
               session[t].date = session[s].date
        PROVE  FALSE
    BY <2>1, <2>2 DEF DistinctDays
  <2> QED
    BY <1>3, <1>4, <2>2 DEF DistinctDays, Busy
<1>9. Stands'
  <2> SUFFICES ASSUME NEW t \in Sessions PROVE DecisionStands(t)' /\ RevocationStands(t)'
    BY DEF Stands
  <2>0. DecisionStands(t) /\ RevocationStands(t)
    BY DEF Stands
  <2>1. CASE t = s
    <3>1. DecisionStands(s)'
      BY <1>1, <1>4, <2>0, <2>1 DEF DecisionStands, Quota, Transaction
    <3>2. RevocationStands(s)'
      BY <1>4, <2>0, <2>1 DEF RevocationStands
    <3> QED
      BY <2>1, <3>1, <3>2
  <2>2. CASE t # s
    BY <1>3, <2>0, <2>2 DEF DecisionStands, RevocationStands, Quota
  <2> QED
    BY <2>1, <2>2
<1> QED
  BY <1>6, <1>7, <1>8, <1>9, Frame DEF RetryHasRoom

LEMMA LockScoreInvariant ==
  ASSUME IInv, NEW s \in Sessions, lock_score(s)
  PROVE  IInv'
<1> USE DEF IInv, lock_score
<1> DEFINE i == session[s].item
<1>1. CASE score[i] = "passed" /\ ~\E l \in leads : l.item[1] = i[1] /\ l.item[3] = i[3]
  <2>0. session' = [session EXCEPT ![s].pc = "score"]
    BY <1>1
  <2>1. session[s] \in Transaction
    BY BusyType DEF Busy
  <2>2. session'[s] = [session[s] EXCEPT !.pc = "score"]
    BY <2>0 DEF TypeOK
  <2>3. \A t \in Sessions : t # s => session'[t] = session[t]
    BY <2>0 DEF TypeOK
  <2>4. /\ session'[s].kind = "decide"
        /\ session'[s].pc = "score"
        /\ session'[s].item = session[s].item
        /\ session'[s].date = session[s].date
        /\ session'[s].industry = session[s].industry
        /\ session'[s].locks = session[s].locks
    BY <2>1, <2>2 DEF Transaction
  <2>5. session'[s] \in Transaction
    BY <2>1, <2>2 DEF Transaction
  <2>6. TypeOK'
    BY <2>0, <2>5 DEF TypeOK
  <2>7. DistinctItems'
    BY <2>3, <2>4 DEF DistinctItems, Busy
  <2>8. DistinctDays'
    BY <2>3, <2>4 DEF DistinctDays, Busy
  <2>9. Stands'
    <3> SUFFICES ASSUME NEW t \in Sessions PROVE DecisionStands(t)' /\ RevocationStands(t)'
      BY DEF Stands
    <3>0. DecisionStands(t) /\ RevocationStands(t)
      BY DEF Stands
    <3>1. CASE t = s
      <4>1. DecisionStands(s)'
        BY <1>1, <2>4, <3>0, <3>1 DEF DecisionStands, SameSubject, Quota
      <4>2. RevocationStands(s)'
        BY <2>4 DEF RevocationStands
      <4> QED
        BY <3>1, <4>1, <4>2
    <3>2. CASE t # s
      BY <2>3, <3>0, <3>2 DEF DecisionStands, RevocationStands, Quota
    <3> QED
      BY <3>1, <3>2
  <2> QED
    BY <2>6, <2>7, <2>8, <2>9, Frame DEF RetryHasRoom
<1>2. CASE ~(score[i] = "passed" /\ ~\E l \in leads : l.item[1] = i[1] /\ l.item[3] = i[3])
  <2>1. Rollback(s)
    BY <1>2
  <2> QED
    BY <2>1, RollbackInvariant
<1> QED
  BY <1>1, <1>2

LEMMA LockDayInvariant ==
  ASSUME IInv, NEW s \in Sessions, lock_day(s)
  PROVE  IInv'
<1> USE DEF IInv, lock_day
<1> DEFINE d == session[s].date
<1>0. Busy(s) /\ session[s].locks = 0
  <2>1. Busy(s)
    BY DEF WantsDay, AtCounters, Busy
  <2>2. session[s] \in Transaction
    BY <2>1, BusyType
  <2> QED
    BY <2>1, <2>2 DEF WantsDay, DayPlace, Transaction
<1>1. CASE session[s].kind = "decide" /\ total[d] >= Cap[session[s].item[1]]
  BY <1>1, RollbackInvariant
<1>2. CASE ~(session[s].kind = "decide" /\ total[d] >= Cap[session[s].item[1]])
  <2>1. LockedOneMore(s)
    BY <1>2
  <2>2. session[s] \in Transaction
    BY <1>0, BusyType
  <2>3. total[d] \in Nat /\ Cap[session[s].item[1]] \in Nat
    BY <2>2, ShapeAssumption DEF TypeOK, Transaction, Items
  <2>4. session[s].kind = "decide" => total[d] < Cap[session[s].item[1]]
    BY <1>2, <2>3
  <2>5. session[s].kind = "decide" => session[s].pc = "score"
    BY DEF WantsDay, AtCounters
  <2>6. DayFree(d)
    OBVIOUS
  <2> QED
    BY <1>0, <2>1, <2>4, <2>5, <2>6, OneMoreLock
<1> QED
  BY <1>1, <1>2

LEMMA LockCounterInvariant ==
  ASSUME IInv, NEW s \in Sessions, lock_counter(s)
  PROVE  IInv'
<1> USE DEF IInv, lock_counter
<1> DEFINE d == session[s].date
           x == session[s].industry
<1>0. Busy(s) /\ session[s] \in Transaction /\ session[s].locks = 1
  <2>1. Busy(s)
    BY DEF WantsCounter, AtCounters, Busy
  <2>2. session[s] \in Transaction
    BY <2>1, BusyType
  <2> QED
    BY <2>1, <2>2 DEF WantsCounter, CounterPlace, DayPlace, Transaction
<1>1. CASE session[s].kind = "decide" /\ count[d][x] + 1 > Quota(session[s].item[1])
  BY <1>1, RollbackInvariant
<1>2. CASE ~(session[s].kind = "decide" /\ count[d][x] + 1 > Quota(session[s].item[1]))
  <2>1. LockedOneMore(s)
    BY <1>2
  <2>2. session[s].kind = "decide" => total[d] < Cap[session[s].item[1]]
    BY <1>0 DEF Stands, DecisionStands
  <2>3. session[s].item[1] \in Runs
    BY <1>0 DEF Transaction, Items
  <2>4. count[d][x] \in Nat
    BY <1>0 DEF TypeOK, Transaction
  <2>4a. Quota(session[s].item[1]) \in Int
    BY <2>3, QuotaType
  <2>5. session[s].kind = "decide" => count[d][x] < Quota(session[s].item[1])
    BY <1>2, <2>4, <2>4a
  <2>6. session[s].kind = "decide" => session[s].pc = "score"
    BY DEF WantsCounter, AtCounters
  <2> QED
    BY <1>0, <2>1, <2>2, <2>5, <2>6, OneMoreLock
<1> QED
  BY <1>1, <1>2

-----------------------------------------------------------------------------
LEMMA ChooseInvariant ==
  ASSUME IInv, NEW r \in Runs, NEW n \in 1 .. MaxAttempts, shortlist_choose(r, n)
  PROVE  IInv'
<1> USE DEF IInv, shortlist_choose
<1>1. TypeOK'
  <2>1. PICK S \in Chosen(r, n) : chosen' = [chosen EXCEPT ![r][n] = S]
    OBVIOUS
  <2>2. S \in SUBSET Companies
    BY <2>1 DEF Chosen, Candidates
  <2> QED
    BY <2>1, <2>2 DEF TypeOK
<1>2. DistinctItems' /\ DistinctDays'
  BY DEF DistinctItems, DistinctDays, Busy
<1>3. Stands'
  BY DEF Stands, DecisionStands, RevocationStands
<1> QED
  BY <1>1, <1>2, <1>3, Frame DEF RetryHasRoom

LEMMA ShortlistInvariant ==
  ASSUME IInv, NEW r \in Runs, NEW n \in 1 .. MaxAttempts, shortlist_insert(r, n)
  PROVE  IInv'
<1>0. chosen[r][n] \in SUBSET Companies
  <2>1. chosen \in [Runs -> [1 .. MaxAttempts -> SUBSET Companies]]
    BY DEF IInv, TypeOK
  <2> QED
    BY <2>1
<1> USE DEF IInv, shortlist_insert
<1>1. PICK S \in SUBSET Companies :
        /\ S = chosen[r][n]
        /\ chosen' = [chosen EXCEPT ![r][n] = {}]
        /\ IF \E c \in S : item[<<r, n, c>>] = "none" /\ OpenElsewhere(r, n, c)
           THEN /\ shortlist' = [shortlist EXCEPT ![r][n] = "conflict"]
                /\ UNCHANGED item
           ELSE /\ \A c \in S : item[<<r, n, c>>] # "none" => ItemFree(<<r, n, c>>)
                /\ item' = [i \in Items |->
                     IF i[1] = r /\ i[2] = n /\ i[3] \in S /\ item[i] = "none"
                     THEN "pending" ELSE item[i]]
                /\ shortlist' = [shortlist EXCEPT ![r][n] = "done"]
  <2> HIDE DEF IInv
  <2> WITNESS chosen[r][n] \in SUBSET Companies
  <2> QED
    BY <1>0
<1>2. CASE \E c \in S : item[<<r, n, c>>] = "none" /\ OpenElsewhere(r, n, c)
  <2>1. shortlist' = [shortlist EXCEPT ![r][n] = "conflict"] /\ UNCHANGED item
    BY <1>1, <1>2
  <2>2. TypeOK'
    BY <1>1, <2>1 DEF TypeOK
  <2>3. DistinctItems' /\ DistinctDays'
    BY DEF DistinctItems, DistinctDays, Busy
  <2>4. Stands'
    BY <2>1 DEF Stands, DecisionStands, RevocationStands
  <2> QED
    BY <2>1, <2>2, <2>3, <2>4, Frame DEF RetryHasRoom
<1>3. CASE ~\E c \in S : item[<<r, n, c>>] = "none" /\ OpenElsewhere(r, n, c)
  <2>1. /\ item' = [i \in Items |->
             IF i[1] = r /\ i[2] = n /\ i[3] \in S /\ item[i] = "none"
             THEN "pending" ELSE item[i]]
        /\ shortlist' = [shortlist EXCEPT ![r][n] = "done"]
    BY <1>1, <1>3
  <2>2. TypeOK'
    BY <1>1, <2>1 DEF TypeOK
  <2>3. \A i \in Items : item[i] # "none" => item'[i] = item[i]
    BY <2>1 DEF TypeOK
  <2>4. ApprovedHaveLeads'
    <3>1. \A i \in Items : (item'[i] = "approved") = (item[i] = "approved")
      BY <2>1 DEF TypeOK
    <3> QED
      BY <3>1 DEF ApprovedHaveLeads
  <2>5. OneOpenItem'
    <3> SUFFICES ASSUME NEW i \in Items, NEW j \in Items, item'[i] = "pending",
                        item'[j] = "pending", SameSubject(i, j)
                 PROVE  i = j
      BY DEF OneOpenItem, SameSubject
    <3> USE ItemParts
    <3>1. ASSUME NEW k \in Items, NEW m \in Items, SameSubject(k, m),
                 item[k] = "none", item'[k] = "pending", item[m] = "pending"
          PROVE  FALSE
      <4>1. k[1] = r /\ k[2] = n /\ k[3] \in S
        BY <2>1, <3>1
      <4>2. k = <<r, n, k[3]>> /\ m = <<r, m[2], k[3]>> /\ m[2] \in 1 .. MaxAttempts
        BY <3>1, <4>1 DEF SameSubject
      <4>3. m[2] # n
        BY <3>1, <4>2
      <4> QED
        BY <1>3, <3>1, <4>1, <4>2, <4>3 DEF OpenElsewhere
    <3>2. CASE item[i] = "none" /\ item[j] = "none"
      BY <2>1, <3>2 DEF SameSubject
    <3>3. CASE item[i] = "none" /\ item[j] # "none"
      BY <2>3, <3>1, <3>3
    <3>4. CASE item[i] # "none" /\ item[j] = "none"
      BY <2>3, <3>1, <3>4 DEF SameSubject
    <3>5. CASE item[i] # "none" /\ item[j] # "none"
      BY <2>3, <3>5 DEF OneOpenItem
    <3> QED
      BY <3>2, <3>3, <3>4, <3>5
  <2>6. DistinctItems' /\ DistinctDays'
    BY DEF DistinctItems, DistinctDays, Busy
  <2>7. Stands'
    <3> SUFFICES ASSUME NEW t \in Sessions PROVE DecisionStands(t)' /\ RevocationStands(t)'
      BY DEF Stands
    <3>1. DecisionStands(t) /\ RevocationStands(t)
      BY DEF Stands
    <3>2. RevocationStands(t)'
      BY <3>1 DEF RevocationStands
    <3>3. session[t].kind = "decide" => session[t].item \in Items
      BY BusyType DEF Busy, Transaction
    <3> QED
      BY <2>3, <3>1, <3>2, <3>3 DEF DecisionStands
  <2>8. CountersMatchLeads' /\ CapsHold'
    BY DEF CountersMatchLeads, CapsHold, On, In
  <2> QED
    BY <2>2, <2>4, <2>5, <2>6, <2>7, <2>8 DEF RetryHasRoom
<1> QED
  BY <1>2, <1>3

LEMMA RejectInvariant ==
  ASSUME IInv, NEW i \in Items, reject(i)
  PROVE  IInv'
<1> USE DEF IInv, reject
<1>1. TypeOK'
  BY DEF TypeOK
<1>2. \A j \in Items : j # i => item'[j] = item[j]
  BY DEF TypeOK
<1>3. item'[i] = "rejected"
  BY DEF TypeOK
<1>4. ApprovedHaveLeads'
  BY <1>2, <1>3 DEF ApprovedHaveLeads
<1>5. OneOpenItem'
  BY <1>2, <1>3 DEF OneOpenItem, SameSubject
<1>6. DistinctItems' /\ DistinctDays'
  BY DEF DistinctItems, DistinctDays, Busy
<1>7. Stands'
  <2> SUFFICES ASSUME NEW t \in Sessions PROVE DecisionStands(t)' /\ RevocationStands(t)'
    BY DEF Stands
  <2>1. DecisionStands(t) /\ RevocationStands(t)
    BY DEF Stands
  <2>2. RevocationStands(t)'
    BY <2>1 DEF RevocationStands
  <2>3. session[t].kind = "decide" => session[t].item \in Items /\ session[t].item # i
    BY BusyType DEF Busy, Transaction, ItemFree, HoldsItem
  <2> QED
    BY <1>2, <2>1, <2>2, <2>3 DEF DecisionStands
<1>8. CountersMatchLeads' /\ CapsHold'
  BY DEF CountersMatchLeads, CapsHold, On, In
<1> QED
  BY <1>1, <1>4, <1>5, <1>6, <1>7, <1>8 DEF RetryHasRoom

LEMMA CommitRetryInvariant ==
  ASSUME IInv, commit_retry
  PROVE  IInv'
<1> USE DEF IInv, commit_retry
<1> DEFINE n == attempts[retrying]
<1>0. retrying \in Runs /\ n \in 1 .. MaxAttempts
  BY DEF TypeOK
<1>1. TypeOK'
  <2>1. score' \in [Items -> {"none", "low", "passed", "invalid"}]
    BY DEF TypeOK
  <2>2. n + 1 \in 1 .. MaxAttempts
    BY <1>0, ShapeAssumption DEF RetryHasRoom
  <2>3. attempts' \in [Runs -> 1 .. MaxAttempts]
    BY <1>0, <2>2 DEF TypeOK
  <2> QED
    BY <2>1, <2>3 DEF TypeOK
<1>2. DistinctItems' /\ DistinctDays'
  BY DEF DistinctItems, DistinctDays, Busy
<1>3. Stands'
  <2> SUFFICES ASSUME NEW t \in Sessions PROVE DecisionStands(t)' /\ RevocationStands(t)'
    BY DEF Stands
  <2>1. DecisionStands(t) /\ RevocationStands(t)
    BY DEF Stands
  <2>2. RevocationStands(t)'
    BY <2>1 DEF RevocationStands
  <2>3. ASSUME session[t].kind = "decide", session[t].pc = "score"
        PROVE  score'[session[t].item] = score[session[t].item]
    <3> DEFINE i == session[t].item
    <3>1. i \in Items
      BY <2>3, BusyType DEF Busy, Transaction
    <3>2. ~(i[1] = retrying /\ i[2] = n)
      <4> SUFFICES ASSUME i[1] = retrying, i[2] = n PROVE FALSE
        OBVIOUS
      <4>1. i = <<retrying, n, i[3]>> /\ i[3] \in Companies
        BY <3>1, ItemParts
      <4>2. ScoreFree(i)
        BY <4>1
      <4> QED
        BY <2>3, <4>2 DEF ScoreFree, HoldsScore
    <3> QED
      BY <3>1, <3>2 DEF TypeOK
  <2> QED
    BY <2>1, <2>2, <2>3 DEF DecisionStands
<1> QED
  BY <1>1, <1>2, <1>3, Frame DEF RetryHasRoom

-----------------------------------------------------------------------------
LEMMA FiniteDays ==
  ASSUME IsFiniteSet(leads), NEW d, NEW x
  PROVE  /\ IsFiniteSet(On(d)) /\ IsFiniteSet(In(d, x))
         /\ Cardinality(On(d)) \in Nat /\ Cardinality(In(d, x)) \in Nat
<1>1. On(d) \in SUBSET leads /\ In(d, x) \in SUBSET leads
  BY DEF On, In
<1>2. IsFiniteSet(On(d)) /\ IsFiniteSet(In(d, x))
  BY <1>1, FS_Subset
<1> QED
  BY <1>2, FS_CardinalityType

LEMMA CommitApproveInvariant ==
  ASSUME IInv, NEW s \in Sessions, commit_approve(s)
  PROVE  IInv'
<1> USE DEF IInv, commit_approve, Rollback
<1>a. session[s] \in Transaction /\ session[s].kind = "decide"
  BY BusyType DEF HasBoth, AtCounters, Busy
<1>b. PICK i \in Items, d \in Days, x \in Industries :
        i = session[s].item /\ d = session[s].date /\ x = session[s].industry
  BY <1>a DEF Transaction
<1> DEFINE new == [item |-> i, date |-> d, industry |-> x]
<1>0. /\ session[s].kind = "decide" /\ session[s].pc = "score" /\ session[s].locks = 2
      /\ i[1] \in Runs
  BY <1>a, ItemParts DEF HasBoth, AtCounters
<1>1. /\ leads' = leads \cup {new}
      /\ total' = [total EXCEPT ![d] = @ + 1]
      /\ count' = [count EXCEPT ![d][x] = @ + 1]
      /\ item' = [item EXCEPT ![i] = "approved"]
      /\ session' = [session EXCEPT ![s] = Idle]
  BY <1>b
<1>2. /\ item[i] = "pending" /\ score[i] = "passed"
      /\ \A l \in leads : ~SameSubject(l.item, i)
      /\ total[d] < Cap[i[1]] /\ count[d][x] < Quota(i[1])
  BY <1>0, <1>b DEF Stands, DecisionStands
<1>3. new \notin leads /\ new.item = i /\ new.date = d /\ new.industry = x
  BY <1>2 DEF SameSubject
<1>4. /\ total'[d] = total[d] + 1
      /\ \A e \in Days : e # d => total'[e] = total[e]
      /\ count'[d][x] = count[d][x] + 1
      /\ \A e \in Days : \A y \in Industries : (e # d \/ y # x) => count'[e][y] = count[e][y]
  BY <1>0, <1>1 DEF TypeOK
<1>5. item'[i] = "approved" /\ \A j \in Items : j # i => item'[j] = item[j]
  BY <1>0, <1>1 DEF TypeOK
<1>6. ~Busy(s)' /\ \A t \in Sessions : t # s => session'[t] = session[t]
  BY <1>1 DEF Busy, Idle, TypeOK
<1>7. TypeOK'
  <2>1. new \in Lead
    BY <1>0 DEF Lead
  <2>2. leads' \subseteq Lead
    BY <1>1, <2>1 DEF TypeOK
  <2>3. total' \in [Days -> Nat]
    <3>1. total \in [Days -> Nat] /\ total[d] + 1 \in Nat
      BY DEF TypeOK
    <3> QED
      BY <1>1, <3>1
  <2>4. count' \in [Days -> [Industries -> Nat]]
    <3>1. count \in [Days -> [Industries -> Nat]] /\ count[d] \in [Industries -> Nat]
          /\ count[d][x] + 1 \in Nat
      BY DEF TypeOK
    <3>2. [count[d] EXCEPT ![x] = @ + 1] \in [Industries -> Nat]
      BY <3>1
    <3>3. count' = [count EXCEPT ![d] = [count[d] EXCEPT ![x] = @ + 1]]
      BY <1>1
    <3> QED
      BY <3>1, <3>2, <3>3
  <2>5. item' \in [Items -> {"none", "pending", "approved", "rejected"}]
    BY <1>1 DEF TypeOK
  <2>6. session' \in [Sessions -> Transaction \cup {Idle}]
    BY <1>1 DEF TypeOK
  <2> QED
    BY <2>2, <2>3, <2>4, <2>5, <2>6 DEF TypeOK
<1>8. IsFiniteSet(leads)'
  <2>1. IsFiniteSet(leads \cup {new})
    BY FS_AddElement
  <2> QED
    BY <1>1, <2>1
<1>9. ApprovedHaveLeads'
  <2>1. \A j \in Items : (item'[j] = "approved") <=> (\E l \in leads' : l.item = j)
    <3>1. \A j \in Items : (item[j] = "approved") <=> (\E l \in leads : l.item = j)
      BY DEF ApprovedHaveLeads
    <3>2. ASSUME NEW j \in Items, j # i
          PROVE  (\E l \in leads' : l.item = j) <=> (\E l \in leads : l.item = j)
      <4> HIDE DEF new
      <4>1. \A l \in leads' : l \in leads \/ l = new
        BY <1>1
      <4>2. leads \subseteq leads'
        BY <1>1
      <4> QED
        BY <1>3, <3>2, <4>1, <4>2
    <3>3. \E l \in leads' : l.item = i
      BY <1>1, <1>3
    <3> QED
      BY <1>5, <3>1, <3>2, <3>3
  <2>2. \A l, m \in leads' : (l.item[1] = m.item[1] /\ l.item[3] = m.item[3]) => l = m
    BY <1>1, <1>2, <1>3 DEF ApprovedHaveLeads, SameSubject
  <2> QED
    BY <2>1, <2>2 DEF ApprovedHaveLeads
<1>10. OneOpenItem'
  BY <1>5 DEF OneOpenItem, SameSubject
<1>11. DistinctItems' /\ DistinctDays'
  BY <1>6 DEF DistinctItems, DistinctDays, Busy
<1>12. Stands'
  <2> SUFFICES ASSUME NEW t \in Sessions PROVE DecisionStands(t)' /\ RevocationStands(t)'
    BY DEF Stands
  <2>1. CASE t = s
    BY <1>6, <2>1 DEF DecisionStands, RevocationStands, Busy
  <2>2. CASE t # s
    <3>1. DecisionStands(t) /\ RevocationStands(t) /\ session'[t] = session[t]
      BY <1>6, <2>2 DEF Stands
    <3>2. RevocationStands(t)'
      BY <1>1, <3>1 DEF RevocationStands
    <3>3. ASSUME session[t].kind = "decide" PROVE DecisionStands(t)'
      <4> DEFINE j == session[t].item
      <4>1. session[t] \in Transaction /\ j \in Items
        BY <3>3, BusyType DEF Busy, Transaction
      <4>2. j # i
        BY <1>0, <1>b, <2>2, <3>3 DEF DistinctItems, Busy
      <4>3. item'[j] = "pending"
        BY <1>5, <3>1, <3>3, <4>1, <4>2 DEF DecisionStands
      <4>4. ~SameSubject(i, j)
        BY <1>0, <1>2, <1>5, <4>1, <4>2, <4>3 DEF OneOpenItem
      <4>5. session[t].pc = "score" =>
               score'[j] = "passed" /\ \A l \in leads' : ~SameSubject(l.item, j)
        BY <1>1, <1>3, <3>1, <3>3, <4>4 DEF DecisionStands
      <4>6. session[t].locks > 0 => session[t].date # d
        BY <1>0, <1>b, <2>2, <3>3 DEF DistinctDays, Busy
      <4>7. session[t].locks > 0 =>
              session[t].pc = "score" /\ total'[session[t].date] < Cap[j[1]]
        BY <1>4, <3>1, <3>3, <4>1, <4>6 DEF DecisionStands, Transaction
      <4>8. session[t].locks > 1 => session[t].locks > 0
        BY <4>1 DEF Transaction
      <4>9. session[t].locks > 1 =>
              count'[session[t].date][session[t].industry] < Quota(j[1])
        BY <1>4, <3>1, <3>3, <4>1, <4>6, <4>8 DEF DecisionStands, Transaction
      <4>10. Quota(j[1])' = Quota(j[1])
        BY <3>1 DEF Quota
      <4> QED
        BY <3>1, <4>3, <4>5, <4>7, <4>9, <4>10 DEF DecisionStands, SameSubject
    <3>4. session[t].kind # "decide" => DecisionStands(t)'
      BY <3>1 DEF DecisionStands
    <3> QED
      BY <3>2, <3>3, <3>4
  <2> QED
    BY <2>1, <2>2
<1>13. /\ On(d)' = On(d) \cup {new} /\ new \notin On(d)
       /\ In(d, x)' = In(d, x) \cup {new} /\ new \notin In(d, x)
  BY <1>1, <1>3 DEF On, In
<1>14. /\ \A e \in Days : e # d => On(e)' = On(e)
       /\ \A e \in Days, y \in Industries : (e # d \/ y # x) => In(e, y)' = In(e, y)
  BY <1>1, <1>3 DEF On, In
<1>15. /\ Cardinality(On(d)') = Cardinality(On(d)) + 1
       /\ Cardinality(In(d, x)') = Cardinality(In(d, x)) + 1
  BY <1>13, FiniteDays, FS_AddElement
<1>16. CountersMatchLeads'
  <2> SUFFICES ASSUME NEW e \in Days
               PROVE  /\ total'[e] = Cardinality(On(e)')
                      /\ \A y \in Industries : count'[e][y] = Cardinality(In(e, y)')
    BY DEF CountersMatchLeads
  <2>1. total'[e] = Cardinality(On(e)')
    BY <1>0, <1>4, <1>14, <1>15 DEF CountersMatchLeads
  <2>2. ASSUME NEW y \in Industries PROVE count'[e][y] = Cardinality(In(e, y)')
    BY <1>0, <1>4, <1>14, <1>15 DEF CountersMatchLeads
  <2> QED
    BY <2>1, <2>2
<1>17. CapsHold'
  <2>1. Cardinality(On(d)') <= Cap[i[1]]
    BY <1>0, <1>2, <1>15, ShapeAssumption DEF CountersMatchLeads, TypeOK
  <2>2. Cardinality(In(d, x)') <= Quota(i[1])
    BY <1>0, <1>2, <1>15, QuotaType DEF CountersMatchLeads, TypeOK
  <2> SUFFICES ASSUME NEW e \in Days, On(e)' # {}
               PROVE  /\ \E r \in Runs : Cardinality(On(e)') <= Cap[r]
                      /\ \A y \in Industries : In(e, y)' # {} =>
                           \E r \in Runs : Cardinality(In(e, y)') <= Quota(r)
    BY DEF CapsHold, Quota
  <2>3. \E r \in Runs : Cardinality(On(e)') <= Cap[r]
    BY <1>0, <1>14, <2>1 DEF CapsHold
  <2>4. ASSUME NEW y \in Industries, In(e, y)' # {}
        PROVE  \E r \in Runs : Cardinality(In(e, y)') <= Quota(r)
    <3>1. CASE e = d /\ y = x
      BY <1>0, <2>2, <3>1
    <3>2. CASE ~(e = d /\ y = x)
      <4>1. In(e, y) = In(e, y)' /\ In(e, y) # {}
        BY <1>14, <2>4, <3>2
      <4>2. On(e) # {}
        BY <4>1 DEF In
      <4> QED
        BY <4>1, <4>2 DEF CapsHold
    <3> QED
      BY <3>1, <3>2
  <2> QED
    BY <2>3, <2>4
<1> QED
  BY <1>7, <1>8, <1>9, <1>10, <1>11, <1>12, <1>16, <1>17 DEF RetryHasRoom

LEMMA CommitRevokeInvariant ==
  ASSUME IInv, NEW s \in Sessions, commit_revoke(s)
  PROVE  IInv'
<1> USE DEF IInv, commit_revoke, Rollback
<1>a. session[s] \in Transaction /\ session[s].kind = "revoke"
  BY BusyType DEF HasBoth, AtCounters, Busy
<1>b. PICK i \in Items, d \in Days, x \in Industries :
        i = session[s].item /\ d = session[s].date /\ x = session[s].industry
  BY <1>a DEF Transaction
<1>c. PICK old \in leads : old.item = i /\ old.date = d /\ old.industry = x
  BY <1>a, <1>b DEF Stands, RevocationStands
<1>0. session[s].kind = "revoke" /\ session[s].locks = 2
  BY <1>a DEF HasBoth
<1>1. /\ total' = [total EXCEPT ![d] = Less1(@)]
      /\ count' = [count EXCEPT ![d][x] = Less1(@)]
      /\ item' = [item EXCEPT ![i] = "rejected"]
      /\ session' = [session EXCEPT ![s] = Idle]
      /\ leads' = { l \in leads : l.item # i }
  BY <1>b
<1>2. leads' = leads \ {old}
  BY <1>1, <1>c DEF ApprovedHaveLeads
<1>3. \A l \in leads' : l.item # i
  BY <1>1
<1>4. /\ On(d)' = On(d) \ {old} /\ old \in On(d)
      /\ In(d, x)' = In(d, x) \ {old} /\ old \in In(d, x)
  BY <1>2, <1>c DEF On, In
<1>5. /\ \A e \in Days : e # d => On(e)' = On(e)
      /\ \A e \in Days, y \in Industries : (e # d \/ y # x) => In(e, y)' = In(e, y)
  BY <1>2, <1>c DEF On, In
<1>6. /\ Cardinality(On(d)') = Cardinality(On(d)) - 1
      /\ Cardinality(In(d, x)') = Cardinality(In(d, x)) - 1
      /\ Cardinality(On(d)') \in Nat /\ Cardinality(In(d, x)') \in Nat
  <2>1. /\ IsFiniteSet(On(d)') /\ IsFiniteSet(In(d, x)')
        /\ Cardinality(On(d)') = Cardinality(On(d)) - 1
        /\ Cardinality(In(d, x)') = Cardinality(In(d, x)) - 1
    BY <1>4, FiniteDays, FS_RemoveElement
  <2> QED
    BY <2>1, FS_CardinalityType
<1>7. total[d] = Cardinality(On(d)) /\ count[d][x] = Cardinality(In(d, x))
  BY DEF CountersMatchLeads
<1>8. /\ total'[d] = total[d] - 1 /\ total'[d] \in Nat
      /\ count'[d][x] = count[d][x] - 1 /\ count'[d][x] \in Nat
  <2>1. total[d] \in Nat /\ total[d] > 0 /\ count[d][x] \in Nat /\ count[d][x] > 0
    BY <1>6, <1>7, FiniteDays
  <2>2. Less1(total[d]) = total[d] - 1 /\ Less1(count[d][x]) = count[d][x] - 1
    BY <2>1 DEF Less1
  <2>3. total'[d] = Less1(total[d]) /\ count'[d][x] = Less1(count[d][x])
    BY <1>1 DEF TypeOK
  <2> QED
    BY <2>1, <2>2, <2>3
<1>9. /\ \A e \in Days : e # d => total'[e] = total[e]
      /\ \A e \in Days : \A y \in Industries : (e # d \/ y # x) => count'[e][y] = count[e][y]
  BY <1>1 DEF TypeOK
<1>10. item'[i] = "rejected" /\ \A j \in Items : j # i => item'[j] = item[j]
  BY <1>1 DEF TypeOK
<1>11. ~Busy(s)' /\ \A t \in Sessions : t # s => session'[t] = session[t]
  BY <1>1 DEF Busy, Idle, TypeOK
<1>12. TypeOK'
  <2>1. leads' \subseteq Lead
    BY <1>2 DEF TypeOK
  <2>2. \A e \in Days : total'[e] \in Nat
    <3>1. \A e \in Days : total[e] \in Nat
      BY DEF TypeOK
    <3>2. total'[d] \in Nat
      BY <1>8, <3>1 DEF Less1
    <3> QED
      BY <1>9, <3>1, <3>2
  <2>3. total' \in [Days -> Nat]
    BY <1>1, <2>2 DEF TypeOK
  <2>4. \A e \in Days, y \in Industries : count'[e][y] \in Nat
    <3>1. \A e \in Days, y \in Industries : count[e][y] \in Nat
      BY DEF TypeOK
    <3> HIDE DEF IInv, commit_revoke
    <3> QED
      BY <1>8, <1>9, <3>1
  <2>5. count' \in [Days -> [Industries -> Nat]]
    <3>1. count \in [Days -> [Industries -> Nat]] /\ count[d] \in [Industries -> Nat]
      BY DEF TypeOK
    <3>2. count' = [count EXCEPT ![d] = [count[d] EXCEPT ![x] = Less1(@)]]
      BY <1>1
    <3>3. count[d][x] \in Nat /\ Less1(count[d][x]) \in Nat
      BY <3>1 DEF Less1
    <3>4. [count[d] EXCEPT ![x] = Less1(@)] \in [Industries -> Nat]
      BY <3>1, <3>3
    <3> QED
      BY <3>1, <3>2, <3>4
  <2>6. item' \in [Items -> {"none", "pending", "approved", "rejected"}]
    BY <1>1 DEF TypeOK
  <2>7. session' \in [Sessions -> Transaction \cup {Idle}]
    BY <1>1 DEF TypeOK
  <2> QED
    BY <2>1, <2>3, <2>5, <2>6, <2>7 DEF TypeOK
<1>13. IsFiniteSet(leads)'
  <2>1. IsFiniteSet(leads \ {old})
    BY FS_RemoveElement
  <2> QED
    BY <1>2, <2>1
<1>14. ApprovedHaveLeads'
  <2>1. \A j \in Items : (item'[j] = "approved") <=> (\E l \in leads' : l.item = j)
    <3>1. \A j \in Items : (item[j] = "approved") <=> (\E l \in leads : l.item = j)
      BY DEF ApprovedHaveLeads
    <3>2. \A j \in Items : j # i =>
            ((\E l \in leads' : l.item = j) <=> (\E l \in leads : l.item = j))
      BY <1>1
    <3> QED
      BY <1>3, <1>10, <3>1, <3>2
  <2> QED
    BY <1>2, <2>1 DEF ApprovedHaveLeads
<1>15. OneOpenItem'
  BY <1>10 DEF OneOpenItem, SameSubject
<1>16. DistinctItems' /\ DistinctDays'
  BY <1>11 DEF DistinctItems, DistinctDays, Busy
<1>17. Stands'
  <2> SUFFICES ASSUME NEW t \in Sessions PROVE DecisionStands(t)' /\ RevocationStands(t)'
    BY DEF Stands
  <2>1. CASE t = s
    BY <1>11, <2>1 DEF DecisionStands, RevocationStands, Busy
  <2>2. CASE t # s
    <3>1. DecisionStands(t) /\ RevocationStands(t) /\ session'[t] = session[t]
      BY <1>11, <2>2 DEF Stands
    <3>2. Busy(t) => session[t].item # i /\ session[t] \in Transaction
      BY <1>0, <1>b, <2>2, BusyType DEF DistinctItems, Busy
    <3>3. RevocationStands(t)'
      BY <1>1, <3>1, <3>2 DEF RevocationStands, Busy
    <3>4. ASSUME session[t].kind = "decide" PROVE DecisionStands(t)'
      <4> DEFINE j == session[t].item
      <4>1. session[t] \in Transaction /\ j \in Items /\ j # i
        BY <3>2, <3>4 DEF Busy, Transaction
      <4>2. item'[j] = "pending"
        BY <1>10, <3>1, <3>4, <4>1 DEF DecisionStands
      <4>3. session[t].pc = "score" =>
               score'[j] = "passed" /\ \A l \in leads' : ~SameSubject(l.item, j)
        BY <1>2, <3>1, <3>4 DEF DecisionStands
      <4>4. session[t].locks > 0 => session[t].date # d
        BY <1>0, <1>b, <2>2, <3>4 DEF DistinctDays, Busy
      <4>5. session[t].locks > 0 =>
              session[t].pc = "score" /\ total'[session[t].date] < Cap[j[1]]
        BY <1>9, <3>1, <3>4, <4>1, <4>4 DEF DecisionStands, Transaction
      <4>6. session[t].locks > 1 => session[t].locks > 0
        BY <4>1 DEF Transaction
      <4>7. session[t].locks > 1 =>
              count'[session[t].date][session[t].industry] < Quota(j[1])
        BY <1>9, <3>1, <3>4, <4>1, <4>4, <4>6 DEF DecisionStands, Transaction
      <4>8. Quota(j[1])' = Quota(j[1])
        BY <3>1 DEF Quota
      <4> QED
        BY <3>1, <4>2, <4>3, <4>5, <4>7, <4>8 DEF DecisionStands, SameSubject
    <3>5. session[t].kind # "decide" => DecisionStands(t)'
      BY <3>1 DEF DecisionStands
    <3> QED
      BY <3>3, <3>4, <3>5
  <2> QED
    BY <2>1, <2>2
<1>18. CountersMatchLeads'
  <2> SUFFICES ASSUME NEW e \in Days
               PROVE  /\ total'[e] = Cardinality(On(e)')
                      /\ \A y \in Industries : count'[e][y] = Cardinality(In(e, y)')
    BY DEF CountersMatchLeads
  <2>1. total'[e] = Cardinality(On(e)')
    BY <1>5, <1>6, <1>7, <1>8, <1>9 DEF CountersMatchLeads
  <2>2. ASSUME NEW y \in Industries PROVE count'[e][y] = Cardinality(In(e, y)')
    BY <1>5, <1>6, <1>7, <1>8, <1>9 DEF CountersMatchLeads
  <2> QED
    BY <2>1, <2>2
<1>19. CapsHold'
  <2> SUFFICES ASSUME NEW e \in Days, On(e)' # {}
               PROVE  /\ \E r \in Runs : Cardinality(On(e)') <= Cap[r]
                      /\ \A y \in Industries : In(e, y)' # {} =>
                           \E r \in Runs : Cardinality(In(e, y)') <= Quota(r)
    BY DEF CapsHold, Quota
  <2>1. /\ Cardinality(On(d)) \in Nat /\ Cardinality(In(d, x)) \in Nat
        /\ \A r \in Runs : Cap[r] \in Int /\ Quota(r) \in Int
    BY FiniteDays, QuotaType, ShapeAssumption
  <2>2. On(e) # {} /\ \A y \in Industries : In(e, y)' # {} => In(e, y) # {}
    BY <1>4, <1>5
  <2>3. \E r \in Runs : Cardinality(On(e)') <= Cap[r]
    <3>1. PICK r \in Runs : Cardinality(On(e)) <= Cap[r]
      BY <2>2 DEF CapsHold
    <3> QED
      BY <1>5, <1>6, <2>1, <3>1
  <2>4. ASSUME NEW y \in Industries, In(e, y)' # {}
        PROVE  \E r \in Runs : Cardinality(In(e, y)') <= Quota(r)
    <3>1. PICK r \in Runs : Cardinality(In(e, y)) <= Quota(r)
      BY <2>2, <2>4 DEF CapsHold
    <3> QED
      BY <1>5, <1>6, <2>1, <3>1
  <2> QED
    BY <2>3, <2>4
<1> QED
  BY <1>12, <1>13, <1>14, <1>15, <1>16, <1>17, <1>18, <1>19 DEF RetryHasRoom

-----------------------------------------------------------------------------
LEMMA QuietInvariant ==
  ASSUME IInv, UNCHANGED <<score, item, shortlist, chosen, leads, total, count, session, upserts>>,
         attempts' = attempts, retrying' \in Runs \cup {NoRun}, today' \in Days,
         RetryHasRoom'
  PROVE  IInv'
<1> USE DEF IInv
<1>1. TypeOK'
  BY DEF TypeOK
<1>2. DistinctItems' /\ DistinctDays'
  BY DEF DistinctItems, DistinctDays, Busy
<1>3. Stands'
  BY DEF Stands, DecisionStands, RevocationStands, Quota
<1> QED
  BY <1>1, <1>2, <1>3, Frame

LEMMA DeadlockInvariant ==
  ASSUME IInv, NEW s \in Sessions, deadlock_detected(s)
  PROVE  IInv'
<1> USE DEF deadlock_detected
<1>1. CASE Rollback(s) /\ UNCHANGED retrying
  BY <1>1, RollbackInvariant
<1>2. CASE retrying' = NoRun /\ UNCHANGED session
  BY <1>2, QuietInvariant DEF RetryHasRoom, IInv, TypeOK
<1> QED
  BY <1>1, <1>2

LEMMA StepInvariant == IInv /\ [Next]_vars => IInv'
<1> SUFFICES ASSUME IInv, [Next]_vars PROVE IInv'
  OBVIOUS
<1>1. CASE \E i \in Items : \E gate \in {"low", "passed"} : upsert_score(i, gate)
  BY <1>1, UpsertInvariant
<1>2. CASE \E r \in Runs, n \in 1 .. MaxAttempts :
             shortlist_choose(r, n) \/ shortlist_insert(r, n)
  BY <1>2, ChooseInvariant, ShortlistInvariant
<1>3. CASE \E s \in Sessions, i \in Items : begin_approve(s, i) \/ begin_revoke(s, i)
  BY <1>3, BeginApproveInvariant, BeginRevokeInvariant
<1>4. ASSUME NEW s \in Sessions,
             \/ lock_score(s) \/ lock_day(s) \/ lock_counter(s)
             \/ commit_approve(s) \/ commit_revoke(s) \/ deadlock_detected(s)
      PROVE  IInv'
  BY <1>4, LockScoreInvariant, LockDayInvariant, LockCounterInvariant,
     CommitApproveInvariant, CommitRevokeInvariant, DeadlockInvariant
<1>5. CASE \E i \in Items : reject(i)
  BY <1>5, RejectInvariant
<1>6. ASSUME NEW r \in Runs, begin_retry(r) PROVE IInv'
  BY <1>6, QuietInvariant DEF begin_retry, RetryHasRoom, IInv, TypeOK
<1>7. CASE commit_retry
  BY <1>7, CommitRetryInvariant
<1>8. CASE midnight
  <2>1. today' \in Days
    BY <1>8, ShapeAssumption DEF midnight, IInv, TypeOK, Days
  <2> QED
    BY <1>8, <2>1, QuietInvariant DEF midnight, RetryHasRoom, IInv, TypeOK
<1>9. CASE UNCHANGED vars
  BY <1>9, QuietInvariant DEF vars, RetryHasRoom, IInv, TypeOK
<1> QED
  BY <1>1, <1>2, <1>3, <1>4, <1>5, <1>6, <1>7, <1>8, <1>9 DEF Next

(* IInv holds in every reachable state. *)
THEOREM ApprovalInvariant == Spec => []IInv
BY InitInvariant, StepInvariant, PTL DEF Spec

(* Rows, counters and transactions stay within their types; in particular no
   counter goes below zero. *)
THEOREM ApprovalTypes == Spec => []TypeOK
<1>1. IInv => TypeOK
  BY DEF IInv
<1> QED
  BY <1>1, ApprovalInvariant, PTL

(* The counters of decide_review_item and revoke_approval equal the leads. *)
THEOREM Counters == Spec => []CountersMatchLeads
<1>1. IInv => CountersMatchLeads
  BY DEF IInv
<1> QED
  BY <1>1, ApprovalInvariant, PTL

(* No interleaving of approvals passes the daily cap or an industry's quota. *)
THEOREM Caps == Spec => []CapsHold
<1>1. IInv => CapsHold
  BY DEF IInv
<1> QED
  BY <1>1, ApprovalInvariant, PTL

(* An approved item and its one lead come and go together. *)
THEOREM OneLead == Spec => []ApprovedHaveLeads
<1>1. IInv => ApprovedHaveLeads
  BY DEF IInv
<1> QED
  BY <1>1, ApprovalInvariant, PTL

(* The common lock order of approval and revocation excludes circular waits. *)
THEOREM NoCircularWait == Spec => []ReviewersNeverDeadlock
<1>1. IInv => ReviewersNeverDeadlock
  <2> SUFFICES ASSUME IInv, NEW s \in Sessions, NEW t \in Sessions,
                      BlockedBy(s, t), BlockedBy(t, s)
               PROVE  FALSE
    BY DEF ReviewersNeverDeadlock
  <2>1. Busy(s) /\ Busy(t)
    BY DEF BlockedBy, WantsDay, WantsCounter, AtCounters, Busy
  <2>2. session[s] \in Transaction /\ session[t] \in Transaction
    BY <2>1, BusyType DEF IInv
  <2>3. session[s].locks < 2 /\ session[t].locks < 2
    BY <2>2 DEF BlockedBy, WantsDay, WantsCounter, DayPlace, CounterPlace, Transaction
  <2>4. session[s].locks = 0 /\ session[t].locks = 0
    BY <2>2, <2>3 DEF BlockedBy, WantsDay, WantsCounter, HoldsDay, HoldsCounter,
                      DayPlace, CounterPlace, Transaction
  <2> QED
    BY <2>2, <2>4 DEF BlockedBy, WantsDay, WantsCounter, HoldsDay, HoldsCounter,
                      DayPlace, CounterPlace, Transaction
<1> QED
  BY <1>1, ApprovalInvariant, PTL

(* The score an approval read under for share is still valid when it commits. *)
LEMMA LeadStep ==
  ASSUME IInv, [Next]_vars
  PROVE  \A l \in leads' \ leads : score[l.item] = "passed" /\ score'[l.item] = "passed"
<1> SUFFICES ASSUME NEW l \in leads' \ leads
             PROVE  score[l.item] = "passed" /\ score'[l.item] = "passed"
  OBVIOUS
<1>1. PICK s \in Sessions : commit_approve(s)
  BY DEF Next, vars, upsert_score, shortlist_choose, shortlist_insert, begin_approve, begin_revoke, lock_score,
         lock_day, lock_counter, commit_revoke, deadlock_detected, reject, begin_retry,
         commit_retry, midnight
<1>2. l.item = session[s].item /\ UNCHANGED score
  BY <1>1 DEF commit_approve
<1>3. session[s].kind = "decide" /\ session[s].pc = "score"
  BY <1>1 DEF commit_approve, HasBoth, AtCounters
<1>4. score[session[s].item] = "passed"
  BY <1>3 DEF IInv, Stands, DecisionStands
<1> QED
  BY <1>2, <1>4

THEOREM ValidScores == Spec => LeadsRestOnValidScores
<1>1. IInv /\ [Next]_vars =>
        [\A l \in leads' \ leads : score[l.item] = "passed" /\ score'[l.item] = "passed"]_vars
  BY LeadStep
<1> QED
  BY <1>1, ApprovalInvariant, PTL DEF Spec, LeadsRestOnValidScores
=============================================================================
