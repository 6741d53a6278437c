------------------------------ MODULE Approval ------------------------------
(***************************************************************************)
(* Review and approval: the shortlist stage that fills review_items        *)
(* (packages/pipeline/src/stages/shortlist.ts), decide_review_item and     *)
(* revoke_approval (packages/db/migrations/0004_functions.sql), and what   *)
(* the score stage and retry_run (0011_admin_rpcs.sql) do to the scores    *)
(* meanwhile.                                                              *)
(*                                                                         *)
(* Reviewers' transactions are not atomic: each takes its row locks one    *)
(* after the other, reads the row it has just locked (READ COMMITTED), and *)
(* writes at the end.  One action is one lock taken, or the commit; a      *)
(* check that fails rolls back and leaves no trace.  current_date is the   *)
(* day the transaction began, which may be over when it commits.           *)
(*                                                                         *)
(* Whether the chosen email is verified is ContactEmail's matter: refusing *)
(* one changes nothing here.                                               *)
(***************************************************************************)
EXTENDS Integers, FiniteSets

CONSTANTS
  Runs, Companies, Industries,
  Industry,      \* Industry[c]: companies.industry
  Sessions,      \* database sessions of reviewers and admins
  Cap,           \* Cap[r]: targets.final_max in the settings snapshot of run r
  SharePct,      \* SharePct[r]: targets.industry_share_max, in per cent
  ReviewMax,     \* targets.review_max
  NoRun,
  MaxAttempts,   \* bound: attempts of a run
  MaxUpserts,    \* bound: scores written
  MaxDays,       \* bound: calendar days
  Reruns         \* bound: whether a shortlist stage that succeeded runs again

Days  == 1 .. MaxDays
Items == Runs \X (1 .. MaxAttempts) \X Companies

ASSUME ShapeAssumption ==
  /\ Industry \in [Companies -> Industries]
  /\ Cap \in [Runs -> Nat] /\ SharePct \in [Runs -> 0 .. 100]
  /\ ReviewMax \in Nat /\ MaxUpserts \in Nat
  /\ MaxAttempts \in Nat \ {0} /\ MaxDays \in Nat \ {0}
  /\ NoRun \notin Runs /\ Reruns \in BOOLEAN

VARIABLES
  attempts,   \* attempts[r]: the latest attempt of run r
  score,      \* score[i]: none, low (gate not passed), passed, or invalidated
  item,       \* item[i]: status of the review item of company i[3] in attempt i[2]
  shortlist,  \* shortlist[r][n]: how far that attempt's shortlist stage has come
  chosen,     \* chosen[r][n]: the companies it has chosen, not inserted yet
  leads,      \* the leads, with their fixed counter coordinates
  total,      \* approval_day_totals
  count,      \* approval_counters
  session,    \* session[s]: the transaction of s
  retrying,   \* the run whose row a retry_run transaction has locked
  upserts,    \* how many scores were written
  today

vars == <<attempts, score, item, shortlist, chosen, leads, total, count, session, retrying, upserts, today>>

(* pc: the review item's row is locked, the score's too; locks: how many of the
   two counter rows are. *)
Transaction == [ kind : {"decide", "revoke"}, pc : {"item", "score"}, locks : 0 .. 2,
                 item : Items, date : Days, industry : Industries ]
Idle == [kind |-> "none"]
Busy(s) == session[s].kind \in {"decide", "revoke"}

Lead == [item : Items, date : Days, industry : Industries]

TypeOK ==
  /\ attempts \in [Runs -> 1 .. MaxAttempts]
  /\ score \in [Items -> {"none", "low", "passed", "invalid"}]
  /\ item \in [Items -> {"none", "pending", "approved", "rejected"}]
  /\ shortlist \in [Runs -> [1 .. MaxAttempts -> {"none", "chosen", "done", "conflict"}]]
  /\ chosen \in [Runs -> [1 .. MaxAttempts -> SUBSET Companies]]
  /\ leads \subseteq Lead
  /\ total \in [Days -> Nat]
  /\ count \in [Days -> [Industries -> Nat]]
  /\ session \in [Sessions -> Transaction \cup {Idle}]
  /\ retrying \in Runs \cup {NoRun}
  /\ upserts \in 0 .. MaxUpserts
  /\ today \in Days

Init ==
  /\ attempts = [r \in Runs |-> 1]
  /\ score = [i \in Items |-> "none"]
  /\ item = [i \in Items |-> "none"]
  /\ shortlist = [r \in Runs |-> [n \in 1 .. MaxAttempts |-> "none"]]
  /\ chosen = [r \in Runs |-> [n \in 1 .. MaxAttempts |-> {}]]
  /\ leads = {}
  /\ total = [d \in Days |-> 0]
  /\ count = [d \in Days |-> [x \in Industries |-> 0]]
  /\ session = [s \in Sessions |-> Idle]
  /\ retrying = NoRun
  /\ upserts = 0
  /\ today = 1

-----------------------------------------------------------------------------
(* floor(cap * share) *)
Quota(r) == (Cap[r] * SharePct[r]) \div 100

ValidSettings(r) == Cap[r] > 0 /\ SharePct[r] > 0

(* A faulty variant of DayPlace: a revocation locks the industry's counter first. *)
DayPlaceReversed(kind) == IF kind = "revoke" THEN 2 ELSE 1

(* The order of the counter rows: first the day's total, then the industry's. *)
DayPlace(kind) == 1
CounterPlace(kind) == 3 - DayPlace(kind)

(* Row locks. *)
HoldsItem(s, i)  == Busy(s) /\ session[s].item = i

(* A faulty variant of HoldsScore: the score is read without for share. *)
HoldsScoreNever(s, i) == FALSE
HoldsScore(s, i) == session[s].kind = "decide" /\ session[s].item = i /\ session[s].pc = "score"
HoldsDay(s, d) ==
  Busy(s) /\ session[s].locks >= DayPlace(session[s].kind) /\ session[s].date = d
HoldsCounter(s, d, x) ==
  /\ Busy(s) /\ session[s].locks >= CounterPlace(session[s].kind)
  /\ session[s].date = d /\ session[s].industry = x

ItemFree(i)  == \A s \in Sessions : ~HoldsItem(s, i)
ScoreFree(i) == \A s \in Sessions : ~HoldsScore(s, i)
DayFree(d)   == \A s \in Sessions : ~HoldsDay(s, d)
CounterFree(d, x) == \A s \in Sessions : ~HoldsCounter(s, d, x)

Rollback(s) == session' = [session EXCEPT ![s] = Idle]
LockedOneMore(s) == session' = [session EXCEPT ![s].locks = @ + 1]

-----------------------------------------------------------------------------
(* The score stage upserts; invalidated_at is not among the columns it sets.
   A worker that lost its lease may still do so for an old attempt. *)
upsert_score(i, gate) ==
  /\ upserts < MaxUpserts
  /\ upserts' = upserts + 1
  /\ i[2] <= attempts[i[1]]
  /\ ScoreFree(i)
  /\ score' = [score EXCEPT ![i] = IF @ = "invalid" THEN @ ELSE gate]
  /\ UNCHANGED <<attempts, item, shortlist, chosen, leads, total, count, session, retrying, today>>

(* The candidates in order of score, up to review_max and the industry quota:
   any set that leaves out only what one of the limits forbids. *)
Candidates(r, n) == { c \in Companies : score[<<r, n, c>>] = "passed" }
SameIndustry(S, c) == { x \in S : Industry[x] = Industry[c] }
Chosen(r, n) ==
  { S \in SUBSET Candidates(r, n) :
      /\ Cardinality(S) <= ReviewMax
      /\ \A c \in S : Cardinality(SameIndustry(S, c)) <= (ReviewMax * SharePct[r]) \div 100
      /\ \A c \in Candidates(r, n) \ S :
           \/ Cardinality(S) = ReviewMax
           \/ Cardinality(SameIndustry(S, c)) = (ReviewMax * SharePct[r]) \div 100 }

(* review_items_one_open_per_run refuses a second pending item of a company
   in one run; the upsert only knows the key (attempt_id, company_id). *)
OpenElsewhere(r, n, c) ==
  \E m \in 1 .. MaxAttempts : m # n /\ item[<<r, m, c>>] = "pending"

(* The stage first reads and chooses; what it read may change before ...  It
   runs again after a failure, or when its completion was lost; one handler of
   an attempt at a time: its job has one holder whose lease is kept. *)
shortlist_choose(r, n) ==
  /\ n <= attempts[r]
  /\ shortlist[r][n] \in {"none", "conflict"} \cup (IF Reruns THEN {"done"} ELSE {})
  /\ \E S \in Chosen(r, n) : chosen' = [chosen EXCEPT ![r][n] = S]
  /\ shortlist' = [shortlist EXCEPT ![r][n] = "chosen"]
  /\ UNCHANGED <<attempts, score, item, leads, total, count, session, retrying, upserts, today>>

(* ... its transaction inserts the items; one refused row undoes them all. *)
shortlist_insert(r, n) ==
  /\ shortlist[r][n] = "chosen"
  /\ retrying # r
  /\ IF \E c \in chosen[r][n] : item[<<r, n, c>>] = "none" /\ OpenElsewhere(r, n, c)
     THEN /\ shortlist' = [shortlist EXCEPT ![r][n] = "conflict"]
          /\ UNCHANGED item
     ELSE /\ \A c \in chosen[r][n] : item[<<r, n, c>>] # "none" => ItemFree(<<r, n, c>>)
          /\ item' = [i \in Items |->
               IF i[1] = r /\ i[2] = n /\ i[3] \in chosen[r][n] /\ item[i] = "none"
               THEN "pending" ELSE item[i]]
          /\ shortlist' = [shortlist EXCEPT ![r][n] = "done"]
  /\ chosen' = [chosen EXCEPT ![r][n] = {}]
  /\ UNCHANGED <<attempts, score, leads, total, count, session, retrying, upserts, today>>

-----------------------------------------------------------------------------
(* A faulty variant of begin_approve: the item is read without for update. *)
begin_approveUnlocked(s, i) ==
  /\ session[s] = Idle
  /\ item[i] = "pending"
  /\ ValidSettings(i[1])
  /\ session' = [session EXCEPT ![s] =
       [kind |-> "decide", pc |-> "item", locks |-> 0, item |-> i, date |-> today,
        industry |-> Industry[i[3]]]]
  /\ UNCHANGED <<attempts, score, item, shortlist, chosen, leads, total, count, retrying, upserts, today>>

(* decide_review_item(approved): the item row, which must be pending; the wait
   for it may have outlasted the day ... *)
begin_approve(s, i) ==
  /\ session[s] = Idle
  /\ ItemFree(i)
  /\ item[i] = "pending"
  /\ ValidSettings(i[1])
  /\ \E d \in {today - 1, today} \cap Days : session' = [session EXCEPT ![s] =
       [kind |-> "decide", pc |-> "item", locks |-> 0, item |-> i, date |-> d,
        industry |-> Industry[i[3]]]]
  /\ UNCHANGED <<attempts, score, item, shortlist, chosen, leads, total, count, retrying, upserts, today>>

(* ... the score row (for share): valid, gate passed, and the company has no
   lead of this run yet ... *)
lock_score(s) ==
  /\ session[s].kind = "decide" /\ session[s].pc = "item"
  /\ LET i == session[s].item
     IN  IF /\ score[i] = "passed"
            /\ ~\E l \in leads : l.item[1] = i[1] /\ l.item[3] = i[3]
         THEN session' = [session EXCEPT ![s].pc = "score"] ELSE Rollback(s)
  /\ UNCHANGED <<attempts, score, item, shortlist, chosen, leads, total, count, retrying, upserts, today>>

AtCounters(s) == \/ session[s].kind = "decide" /\ session[s].pc = "score"
                 \/ session[s].kind = "revoke"
WantsDay(s) == AtCounters(s) /\ session[s].locks + 1 = DayPlace(session[s].kind)
WantsCounter(s) == AtCounters(s) /\ session[s].locks + 1 = CounterPlace(session[s].kind)
HasBoth(s) == AtCounters(s) /\ session[s].locks = 2

(* A faulty variant of lock_day: the day's row is read without for update. *)
read_day(s) ==
  /\ WantsDay(s)
  /\ IF /\ session[s].kind = "decide"
        /\ total[session[s].date] >= Cap[session[s].item[1]]
     THEN Rollback(s) ELSE LockedOneMore(s)
  /\ UNCHANGED <<attempts, score, item, shortlist, chosen, leads, total, count, retrying, upserts, today>>

(* ... the day's total, below the cap (a revocation only locks it) ... *)
lock_day(s) ==
  /\ WantsDay(s)
  /\ LET d == session[s].date
     IN  /\ DayFree(d)
         /\ IF session[s].kind = "decide" /\ total[d] >= Cap[session[s].item[1]]
            THEN Rollback(s) ELSE LockedOneMore(s)
  /\ UNCHANGED <<attempts, score, item, shortlist, chosen, leads, total, count, retrying, upserts, today>>

(* ... and the industry's counter, below the quota. *)
lock_counter(s) ==
  /\ WantsCounter(s)
  /\ LET d == session[s].date
         x == session[s].industry
     IN  /\ CounterFree(d, x)
         /\ IF session[s].kind = "decide" /\ count[d][x] + 1 > Quota(session[s].item[1])
            THEN Rollback(s) ELSE LockedOneMore(s)
  /\ UNCHANGED <<attempts, score, item, shortlist, chosen, leads, total, count, retrying, upserts, today>>

(* The lead, both counters and the item.  leads.run_id references runs, so the
   insert locks the run's row (for key share): it waits for a retry_run. *)
commit_approve(s) ==
  /\ HasBoth(s) /\ session[s].kind = "decide"
  /\ retrying # session[s].item[1]
  /\ LET i == session[s].item
         d == session[s].date
         x == session[s].industry
     IN  /\ leads' = leads \cup {[item |-> i, date |-> d, industry |-> x]}
         /\ total' = [total EXCEPT ![d] = @ + 1]
         /\ count' = [count EXCEPT ![d][x] = @ + 1]
         /\ item' = [item EXCEPT ![i] = "approved"]
  /\ Rollback(s)
  /\ UNCHANGED <<attempts, score, shortlist, chosen, retrying, upserts, today>>

(* decide_review_item(rejected): one row lock, one write. *)
reject(i) ==
  /\ ItemFree(i)
  /\ item[i] = "pending"
  /\ ValidSettings(i[1])
  /\ item' = [item EXCEPT ![i] = "rejected"]
  /\ UNCHANGED <<attempts, score, shortlist, chosen, leads, total, count, session, retrying, upserts, today>>

(* A faulty variant of begin_revoke: the counters are today's, not those of the lead. *)
begin_revokeToday(s, i) ==
  /\ session[s] = Idle
  /\ ItemFree(i)
  /\ item[i] = "approved"
  /\ session' = [session EXCEPT ![s] =
       [kind |-> "revoke", pc |-> "item", locks |-> 0, item |-> i, date |-> today,
        industry |-> Industry[i[3]]]]
  /\ UNCHANGED <<attempts, score, item, shortlist, chosen, leads, total, count, retrying, upserts, today>>

(* revoke_approval: the item, then the lead's own coordinates. *)
begin_revoke(s, i) ==
  /\ session[s] = Idle
  /\ ItemFree(i)
  /\ item[i] = "approved"
  /\ \E l \in leads :
       /\ l.item = i
       /\ session' = [session EXCEPT ![s] =
            [kind |-> "revoke", pc |-> "item", locks |-> 0, item |-> i, date |-> l.date,
             industry |-> l.industry]]
  /\ UNCHANGED <<attempts, score, item, shortlist, chosen, leads, total, count, retrying, upserts, today>>

Less1(n) == IF n > 0 THEN n - 1 ELSE 0

commit_revoke(s) ==
  /\ HasBoth(s) /\ session[s].kind = "revoke"
  /\ LET i == session[s].item
         d == session[s].date
         x == session[s].industry
     IN  /\ leads' = { l \in leads : l.item # i }
         /\ total' = [total EXCEPT ![d] = Less1(@)]
         /\ count' = [count EXCEPT ![d][x] = Less1(@)]
         /\ item' = [item EXCEPT ![i] = "rejected"]
  /\ Rollback(s)
  /\ UNCHANGED <<attempts, score, shortlist, chosen, retrying, upserts, today>>

-----------------------------------------------------------------------------
(* retry_run locks the run's row (for update) ... *)
begin_retry(r) ==
  /\ retrying = NoRun
  /\ attempts[r] < MaxAttempts
  /\ retrying' = r
  /\ UNCHANGED <<attempts, score, item, shortlist, chosen, leads, total, count, session, upserts, today>>

(* ... opens an attempt and invalidates the scores of the one before, for which
   it needs those rows to itself.  The items of that attempt stay as they are. *)
commit_retry ==
  /\ retrying # NoRun
  /\ LET n == attempts[retrying]
     IN  /\ \A c \in Companies : ScoreFree(<<retrying, n, c>>)
         /\ attempts' = [attempts EXCEPT ![retrying] = n + 1]
         /\ score' = [i \in Items |->
              IF i[1] = retrying /\ i[2] = n /\ score[i] # "none" THEN "invalid" ELSE score[i]]
  /\ retrying' = NoRun
  /\ UNCHANGED <<item, shortlist, chosen, leads, total, count, session, upserts, today>>

(* A reviewer and retry_run that wait for each other: PostgreSQL ends one. *)
RetryCycle(s) ==
  /\ HasBoth(s) /\ session[s].kind = "decide"
  /\ retrying = session[s].item[1]
  /\ session[s].item[2] = attempts[retrying]

deadlock_detected(s) ==
  /\ RetryCycle(s)
  /\ \/ Rollback(s) /\ UNCHANGED retrying
     \/ retrying' = NoRun /\ UNCHANGED session
  /\ UNCHANGED <<attempts, score, item, shortlist, chosen, leads, total, count, upserts, today>>

midnight ==
  /\ today < MaxDays
  /\ today' = today + 1
  /\ UNCHANGED <<attempts, score, item, shortlist, chosen, leads, total, count, session, retrying, upserts>>

Next ==
  \/ \E i \in Items : \E gate \in {"low", "passed"} : upsert_score(i, gate)
  \/ \E r \in Runs, n \in 1 .. MaxAttempts : shortlist_choose(r, n) \/ shortlist_insert(r, n)
  \/ \E s \in Sessions, i \in Items : begin_approve(s, i) \/ begin_revoke(s, i)
  \/ \E s \in Sessions :
       \/ lock_score(s) \/ lock_day(s) \/ lock_counter(s)
       \/ commit_approve(s) \/ commit_revoke(s) \/ deadlock_detected(s)
  \/ \E i \in Items : reject(i)
  \/ \E r \in Runs : begin_retry(r)
  \/ commit_retry
  \/ midnight

Spec == Init /\ [][Next]_vars

-----------------------------------------------------------------------------
On(d)     == { l \in leads : l.date = d }
In(d, x)  == { l \in On(d) : l.industry = x }

(* The counters are the number of leads at their coordinates, after any mix of
   approvals, revocations and rollbacks, also across midnight. *)
CountersMatchLeads ==
  \A d \in Days :
    /\ total[d] = Cardinality(On(d))
    /\ \A x \in Industries : count[d][x] = Cardinality(In(d, x))

(* The caps are per day, over all runs together: no day ever has more leads, of
   all industries or of one, than the most generous run allows. *)
CapsHold ==
  \A d \in Days : On(d) # {} =>
    /\ \E r \in Runs : Cardinality(On(d)) <= Cap[r]
    /\ \A x \in Industries : In(d, x) # {} =>
         \E r \in Runs : Cardinality(In(d, x)) <= Quota(r)

(* An item is approved exactly while it has its one lead. *)
ApprovedHaveLeads ==
  /\ \A i \in Items : (item[i] = "approved") <=> (\E l \in leads : l.item = i)
  /\ \A l, m \in leads : (l.item[1] = m.item[1] /\ l.item[3] = m.item[3]) => l = m

(* A lead is created only on a score that is valid at that very moment,
   although it was read several lock waits before. *)
LeadsRestOnValidScores ==
  [][\A l \in leads' \ leads : score[l.item] = "passed" /\ score'[l.item] = "passed"]_vars

BlockedBy(s, t) ==
  /\ s # t
  /\ \/ WantsDay(s) /\ HoldsDay(t, session[s].date)
     \/ WantsCounter(s) /\ HoldsCounter(t, session[s].date, session[s].industry)

(* Approvals and revocations never wait for each other in a circle. *)
ReviewersNeverDeadlock ==
  \A s, t \in Sessions : ~(BlockedBy(s, t) /\ BlockedBy(t, s))

=============================================================================
