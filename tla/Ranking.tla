------------------------------ MODULE Ranking ------------------------------
(***************************************************************************)
(* From observations to a shortlist: competitor_select, competitor_analyze, *)
(* score, then recommend and shortlist side by side                        *)
(* (packages/pipeline/src/stages/competitor.ts, score.ts, shortlist.ts),   *)
(* while an administrator replaces competitors (0011_admin_rpcs.sql), a    *)
(* deletion request suspends a company, and contact_pages, which score     *)
(* does not wait for, may still reject a site.  A stage is a sequence of   *)
(* statements and transactions, which a crash may cut anywhere; that the   *)
(* old execution goes on beside the new one, as after a lost lease, is     *)
(* left out.                                                               *)
(***************************************************************************)
EXTENDS ScoreRules

CONSTANTS
  Companies,     \* companies that are not excluded, 1 .. n in the order of their ids
  Base,          \* Base[c]: industry, sido, sigungu, dong, size, group
  Targets,       \* the companies observed in this attempt
  Observations,  \* Observations[c]: what may have been observed of c
  Settings,      \* settings scoring
  TargetNumbers, \* settings targets
  PEERS_PER_COMPANY,
  Ranks,         \* ranks of competitors an administrator may use
  Replacements,  \* <<c, rank, peer>> an administrator may ask for
  MaxEvents,     \* bound: replacements, suspensions, rejected sites and cuts
  OpenBefore     \* companies that an earlier attempt of the run left pending

ASSUME RankingAssumption ==
  /\ ValidTargets(TargetNumbers)
  /\ Companies \subseteq Nat /\ IsFiniteSet(Companies) /\ Targets \subseteq Companies
  /\ Ranks \subseteq Nat /\ IsFiniteSet(Ranks) /\ PEERS_PER_COMPANY \in Ranks
  /\ Replacements \subseteq Companies \X Ranks \X Companies

(* Null is no company, no boolean and no status; what was observed has a status. *)
ASSUME NullAssumption ==
  /\ None \notin Companies /\ None \notin BOOLEAN
  /\ None \notin {"confirmed", "likely", "not_official"}
  /\ \A c \in Companies : \A o \in Observations[c] : "status" \in DOMAIN o

(* The cap is a whole number, as the seed of the settings has it: what reads
   them (targetSettingsFrom) would take a fraction too.  A company has finitely
   many channels. *)
ASSUME NumbersAssumption ==
  /\ TargetNumbers.reviewMax \in Nat /\ TargetNumbers.share \in Nat \X Nat
  /\ \A c \in Companies : Ticket[Base[c].industry] \in Nat
  /\ \A c \in Companies : \A o \in Observations[c] :
       "channels" \in DOMAIN o /\ IsFiniteSet(o.channels)

VARIABLES
  obs,        \* obs[c]: what is observed of c
  suspended,  \* companies with do_not_contact
  rows,       \* rows[c, rank]: competitors with their competitor_metrics, or Nobody
  scores,     \* scores[c], or None
  advice,     \* recommendations
  items,      \* items[c]: the rank of its review item, or None
  open,       \* companies with a pending item of an earlier attempt
  stage,      \* stage[s]: pending, running, succeeded
  exec,       \* exec[s]: what the execution of s holds
  touched,    \* companies whose inputs changed since score read its page
  raced,      \* competitors replaced while an analysis held the old one
  events      \* replacements, suspensions, rejected sites and cuts so far

facts == <<obs, suspended>>
out   == <<rows, scores, advice, items, open>>
seen  == <<touched, raced>>
vars  == <<facts, out, stage, exec, seen, events>>

StageNames == {"competitor_select", "competitor_analyze", "score", "recommend", "shortlist"}

dependsOn == [ competitor_select  |-> {}, competitor_analyze |-> {"competitor_select"},
               score |-> {"competitor_analyze"}, recommend |-> {"score"}, shortlist |-> {"score"} ]

Resting == [todo |-> <<>>, held |-> None]

(* SetToSortSeq, whose search through all sequences is too slow here. *)
InOrder(S, before) ==
  [i \in 1 .. Cardinality(S) |-> CHOOSE x \in S : Cardinality({y \in S : <<y, x>> \in before}) = i - 1]

ById(S) == InOrder(S, {p \in S \X S : p[1] < p[2]})

Official(c) == obs[c].status \in {"confirmed", "likely"}

-----------------------------------------------------------------------------
(* Stages. *)

Running(s) == stage[s] = "running"

Idle(s) == Running(s) /\ exec[s].todo = <<>>

start(s, todo) ==
  /\ stage[s] = "pending" /\ \A d \in dependsOn[s] : stage[d] = "succeeded"
  /\ stage' = [stage EXCEPT ![s] = "running"]
  /\ exec' = [exec EXCEPT ![s].todo = todo]

finish(s) ==
  /\ stage' = [stage EXCEPT ![s] = "succeeded"]
  /\ exec' = [exec EXCEPT ![s] = Resting]

fail(s) ==
  /\ stage' = [stage EXCEPT ![s] = "pending"]
  /\ exec' = [exec EXCEPT ![s] = Resting]

(* The item in hand is done with. *)
step(s) == exec' = [exec EXCEPT ![s].todo = Tail(@), ![s].held = None]

(* The process dies, or a statement fails: the stage is begun anew. *)
cut(s) ==
  /\ Running(s) /\ events < MaxEvents
  /\ fail(s)
  /\ events' = events + 1
  /\ UNCHANGED <<facts, out, seen>>

-----------------------------------------------------------------------------
(* competitor_select. *)

similarity(p, c) ==
  LET p0 == Base[p]  c0 == Base[c]  Same(f) == p0[f] # None /\ p0[f] = c0[f] IN
  (IF Same("dong") THEN 3 ELSE IF Same("sigungu") THEN 2 ELSE IF Same("sido") THEN 1 ELSE 0)
    + (IF Same("size") THEN 2 ELSE 0)

(* Never its own network, never one that must not be contacted. *)
Candidates(c) ==
  { p \in Companies \ ({c} \cup suspended) :
      Base[p].industry = Base[c].industry /\ (Base[p].group = None \/ Base[p].group # Base[c].group) }

MostSimilar(c) ==
  LET moreSimilar(p, q) == \/ similarity(p, c) > similarity(q, c)
                           \/ similarity(p, c) = similarity(q, c) /\ p < q
  IN InOrder(Candidates(c), {p \in Candidates(c) \X Candidates(c) : moreSimilar(p[1], p[2])})

(* A peer that was not analysed, or is not official, has no numbers. *)
NoMetrics(p) == [of |-> p, official |-> FALSE, ors |-> None, diversity |-> None, recency |-> None, activity |-> None]

Chosen(p) == [peer |-> p, valid |-> FALSE, metrics |-> NoMetrics(None)]

Nobody == Chosen(None)

Taken(k) == rows[k].peer # None

Analysed(k) == rows[k].metrics.of # None

(* What the inserts of one company leave: a taken rank is left alone. *)
Inserted(c, peers) ==
  [k \in DOMAIN rows |->
     IF k[1] = c /\ ~Taken(k) /\ k[2] \in 1 .. PEERS_PER_COMPANY /\ k[2] <= Len(peers)
     THEN Chosen(peers[k[2]]) ELSE rows[k]]

(* One competitor twice: the second unique constraint, which no clause of the
   insert expects. *)
Twins(c, table) ==
  \E k, m \in DOMAIN table : /\ k # m /\ k[1] = c /\ m[1] = c
                             /\ table[k].peer # None /\ table[k].peer = table[m].peer

select_start ==
  /\ start("competitor_select", ById(Targets))
  /\ UNCHANGED <<facts, out, seen, events>>

select_company ==
  /\ Running("competitor_select") /\ exec["competitor_select"].todo # <<>>
  /\ \E c \in {Head(exec["competitor_select"].todo)} :
     \E new \in {Inserted(c, MostSimilar(c))} :
       ~Twins(c, new) /\ rows' = new
  /\ step("competitor_select")
  /\ UNCHANGED <<facts, scores, advice, items, open, stage, seen, events>>

select_fails ==
  /\ Running("competitor_select") /\ exec["competitor_select"].todo # <<>>
  /\ \E c \in {Head(exec["competitor_select"].todo)} :
     \E new \in {Inserted(c, MostSimilar(c))} :
       Twins(c, new)
  /\ fail("competitor_select")
  /\ UNCHANGED <<facts, out, seen, events>>

select_end ==
  /\ Idle("competitor_select")
  /\ finish("competitor_select")
  /\ UNCHANGED <<facts, out, seen, events>>

(* A faulty variant: the new competitor inherits the flag of the old one. *)
replace_competitorAsValid(c, rank, p) ==
  LET k == <<c, rank>>
      new == [rows EXCEPT ![k] = [Chosen(p) EXCEPT !.valid = rows[k].valid]]
  IN
  /\ p # c /\ events < MaxEvents /\ ~Twins(c, new)
  /\ rows' = new
  /\ touched' = touched \cup {c}
  /\ raced' = IF \E i \in DOMAIN exec["competitor_analyze"].todo : exec["competitor_analyze"].todo[i].key = k
              THEN raced \cup {k} ELSE raced
  /\ events' = events + 1
  /\ UNCHANGED <<facts, scores, advice, items, open, stage, exec>>

(* replace_competitor, at any time. *)
replace_competitor(c, rank, p) ==
  LET k == <<c, rank>>
      new == [rows EXCEPT ![k] = Chosen(p)]
  IN
  /\ p # c /\ events < MaxEvents /\ ~Twins(c, new)
  /\ rows' = new
  /\ touched' = touched \cup {c}
  /\ raced' = IF \E i \in DOMAIN exec["competitor_analyze"].todo : exec["competitor_analyze"].todo[i].key = k
              THEN raced \cup {k} ELSE raced
  /\ events' = events + 1
  /\ UNCHANGED <<facts, scores, advice, items, open, stage, exec>>

-----------------------------------------------------------------------------
(* competitor_analyze. *)

(* A faulty variant: what is not valid is analysed, not what has no metrics. *)
UnanalysedInvalid == {k \in DOMAIN rows : Taken(k) /\ ~rows[k].valid}

Unanalysed == {k \in DOMAIN rows : Taken(k) /\ ~Analysed(k)}

Page(keys) ==
  LET earlier == {p \in keys \X keys : p[1][1] < p[2][1] \/ (p[1][1] = p[2][1] /\ p[1][2] < p[2][2])}
      seq == InOrder(keys, earlier)
  IN [i \in DOMAIN seq |-> [key |-> seq[i], peer |-> rows[seq[i]].peer]]

analyze_start ==
  /\ start("competitor_analyze", Page(Unanalysed))
  /\ UNCHANGED <<facts, out, seen, events>>

(* The peer's latest observations; ORS rounded to what the column holds. *)
MetricsOf(p) ==
  LET usable == {ch \in obs[p].channels : ch.analyzable}
      ors2   == median(Measured(obs[p]), LAMBDA o : o.ors)
  IN [ of |-> p, official |-> TRUE,
       ors |-> IF ors2 = None THEN None ELSE (ors2 + 1) \div 2,
       diversity |-> Cardinality({ch.type : ch \in obs[p].channels}),
       recency   |-> SumOver(usable, LAMBDA ch : ch.posts60),
       activity  |-> SumOver(usable, LAMBDA ch : ch.posts120) ]

(* The metrics are stored in one statement, by the peer the page named ... *)
analyze_insert ==
  /\ Running("competitor_analyze") /\ exec["competitor_analyze"].todo # <<>>
  /\ exec["competitor_analyze"].held = None
  /\ \E job \in {Head(exec["competitor_analyze"].todo)} :
       /\ \E m \in {IF Official(job.peer) THEN MetricsOf(job.peer) ELSE NoMetrics(job.peer)} :
            rows' = [rows EXCEPT ![job.key].metrics = m]
       /\ exec' = [exec EXCEPT !["competitor_analyze"].held = Official(job.peer)]
  /\ UNCHANGED <<facts, scores, advice, items, open, stage, seen, events>>

(* ... and the flag in another. *)
analyze_flag ==
  /\ exec["competitor_analyze"].held # None
  /\ rows' = [rows EXCEPT ![Head(exec["competitor_analyze"].todo).key].valid = exec["competitor_analyze"].held]
  /\ step("competitor_analyze")
  /\ UNCHANGED <<facts, scores, advice, items, open, stage, seen, events>>

(* Pages until one is empty. *)
analyze_page ==
  /\ Idle("competitor_analyze")
  /\ IF Unanalysed = {} THEN finish("competitor_analyze")
     ELSE /\ exec' = [exec EXCEPT !["competitor_analyze"].todo = Page(Unanalysed)]
          /\ UNCHANGED stage
  /\ UNCHANGED <<facts, out, seen, events>>

-----------------------------------------------------------------------------
(* score. *)

(* Companies with a website observed in this attempt; whether they may be
   contacted is read with them. *)
Scorable ==
  LET seq == ById({c \in Targets : obs[c].status # None}) IN
  [i \in DOMAIN seq |-> [company |-> seq[i], suspended |-> seq[i] \in suspended]]

score_start ==
  /\ start("score", Scorable)
  /\ touched' = {}
  /\ UNCHANGED <<facts, out, raced, events>>

Local(c) ==
  IF Base[c].sigungu = None THEN 0
  ELSE Cardinality({p \in Companies : Base[p].industry = Base[c].industry /\ Base[p].sigungu = Base[c].sigungu})

(* The mean of what was completed: the site, the channels, the searches. *)
Complete(o, orsMode) ==
  LET n    == IF o.channels = {} THEN 1 ELSE Cardinality(o.channels)
      a    == Cardinality({ch \in o.channels : ch.analyzable})
      site == IF o.status = "unavailable" THEN 0 ELSE 1
      ors  == IF orsMode /\ o.ors # {} THEN 1 ELSE 0
      k    == 1 + Cardinality({x \in {"channels", "ors"} :
                                 (x = "channels" /\ o.channels # {}) \/ (x = "ors" /\ orsMode)})
  IN <<(site + ors) * n + a, n * k>>

Peer(k) ==
  [ id |-> k[2], valid |-> rows[k].valid, ors |-> rows[k].metrics.ors, diversity |-> rows[k].metrics.diversity,
    recency |-> rows[k].metrics.recency, activity |-> rows[k].metrics.activity ]

gather(c, isSuspended) ==
  LET o == obs[c]  orsMode == Settings.mode = "ors_enabled" IN
  [ status |-> o.status, suspended |-> isSuspended, industry |-> Base[c].industry, size |-> Base[c].size,
    local |-> Local(c), kinds |-> o.kinds, channels |-> o.channels, ors |-> o.ors,
    orsScored |-> orsMode /\ o.ors # {}, complete |-> Complete(o, orsMode), fresh |-> o.fresh,
    peers |-> {Peer(k) : k \in {m \in DOMAIN rows : m[1] = c /\ Taken(m)}} ]

(* Several reads, one after another; of the result only what later stages read
   is kept ... *)
score_gather ==
  /\ Running("score") /\ exec["score"].todo # <<>> /\ exec["score"].held = None
  /\ \E row \in {Head(exec["score"].todo)} :
     \E f \in {gather(row.company, row.suspended)} :
     \E weaknesses \in {gradeWeaknesses(f, obs[row.company].tech)} :
     \E a \in {axes(f, weaknesses, Settings.mode)} :
       exec' = [exec EXCEPT !["score"].held =
                  [ items |-> a.problem \cup a.propensity, total |-> TotalPoints(a),
                    failures |-> failures(f, weaknesses, a, Settings) ]]
  /\ UNCHANGED <<facts, out, stage, seen, events>>

(* ... and one transaction, which overwrites an earlier score. *)
score_persist ==
  /\ exec["score"].held # None
  /\ scores' = [scores EXCEPT ![Head(exec["score"].todo).company] = exec["score"].held]
  /\ step("score")
  /\ UNCHANGED <<facts, rows, advice, items, open, stage, seen, events>>

score_end ==
  /\ Idle("score")
  /\ finish("score")
  /\ UNCHANGED <<facts, out, seen, events>>

-----------------------------------------------------------------------------
(* recommend and shortlist. *)

GatePassed(c) == scores[c] # None /\ scores[c].failures = {}

Passed == {c \in Companies : GatePassed(c)}

recommend_start ==
  /\ start("recommend", ById(Passed))
  /\ UNCHANGED <<facts, out, seen, events>>

recommend_company ==
  /\ Running("recommend") /\ exec["recommend"].todo # <<>>
  /\ \E c \in {Head(exec["recommend"].todo)} :
     \E weight \in {weigh(scores[c].items)} :
       advice' = [advice EXCEPT ![c] = recommend(weight)]
  /\ step("recommend")
  /\ UNCHANGED <<facts, rows, scores, items, open, stage, seen, events>>

recommend_end ==
  /\ Idle("recommend")
  /\ finish("recommend")
  /\ UNCHANGED <<facts, out, seen, events>>

(* By total, which is not the normalised one, then by id. *)
Ranked ==
  LET live == Passed \ suspended
      better(c, d) == scores[c].total > scores[d].total \/ (scores[c].total = scores[d].total /\ c < d)
      seq == InOrder(live, {p \in live \X live : better(p[1], p[2])})
  IN [i \in DOMAIN seq |-> [company |-> seq[i], industry |-> Base[seq[i]].industry]]

shortlist_start ==
  /\ \E ranked \in {Ranked} : \E list \in {Shortlist(ranked, TargetNumbers)} : start("shortlist", <<list>>)
  /\ UNCHANGED <<facts, out, seen, events>>

List == Head(exec["shortlist"].todo)

(* An item of an earlier attempt is still pending: one per run and company. *)
Collides == \E i \in List : i.company \in open /\ items[i.company] = None

(* One transaction; what an earlier execution listed stays. *)
shortlist_store ==
  /\ Running("shortlist") /\ exec["shortlist"].todo # <<>> /\ ~Collides
  /\ items' = [c \in Companies |-> IF \E i \in List : i.company = c
                                   THEN (CHOOSE i \in List : i.company = c).rank ELSE items[c]]
  /\ step("shortlist")
  /\ UNCHANGED <<facts, rows, scores, advice, open, stage, seen, events>>

shortlist_fails ==
  /\ Running("shortlist") /\ exec["shortlist"].todo # <<>> /\ Collides
  /\ fail("shortlist")
  /\ UNCHANGED <<facts, out, seen, events>>

shortlist_end ==
  /\ Idle("shortlist")
  /\ finish("shortlist")
  /\ UNCHANGED <<facts, out, seen, events>>

-----------------------------------------------------------------------------
(* What goes on beside the pipeline. *)

(* execute_privacy_request sets do_not_contact. *)
suspend(c) ==
  /\ c \notin suspended /\ events < MaxEvents
  /\ suspended' = suspended \cup {c} /\ touched' = touched \cup {c}
  /\ events' = events + 1
  /\ UNCHANGED <<obs, out, stage, exec, raced>>

(* contact_pages rejects the site and deletes its contact pages. *)
demote(c) ==
  /\ Official(c) /\ events < MaxEvents
  /\ obs' = [obs EXCEPT ![c].status = "not_official", ![c].kinds = {}]
  /\ touched' = touched \cup {c}
  /\ events' = events + 1
  /\ UNCHANGED <<suspended, out, stage, exec, raced>>

(* A reviewer decides an item of an earlier attempt. *)
decide_old(c) ==
  /\ c \in open
  /\ open' = open \ {c}
  /\ UNCHANGED <<facts, rows, scores, advice, items, stage, exec, seen, events>>

-----------------------------------------------------------------------------
Init ==
  /\ obs \in {o \in [Companies -> UNION {Observations[c] : c \in Companies}] : \A c \in Companies : o[c] \in Observations[c]}
  /\ suspended = {} /\ open = OpenBefore
  /\ rows = [k \in Companies \X Ranks |-> Nobody]
  /\ scores = [c \in Companies |-> None]
  /\ advice = [c \in Companies |-> None]
  /\ items = [c \in Companies |-> None]
  /\ stage = [s \in StageNames |-> "pending"]
  /\ exec = [s \in StageNames |-> Resting]
  /\ touched = {} /\ raced = {}
  /\ events = 0

ScoreStages ==
  \/ select_start \/ select_company \/ select_fails \/ select_end
  \/ analyze_start \/ analyze_insert \/ analyze_flag \/ analyze_page
  \/ score_start \/ score_gather \/ score_persist \/ score_end

RecommendStage == recommend_start \/ recommend_company \/ recommend_end

ShortlistStage == shortlist_start \/ shortlist_store \/ shortlist_fails \/ shortlist_end

Others ==
  \/ \E r \in Replacements : replace_competitor(r[1], r[2], r[3])
  \/ \E c \in Companies : suspend(c) \/ demote(c) \/ decide_old(c)
  \/ \E s \in StageNames : cut(s)

Next == ScoreStages \/ RecommendStage \/ ShortlistStage \/ Others

(* ScoreStages run on; nobody has to decide, replace or suspend. *)
Fairness == WF_vars(ScoreStages) /\ WF_vars(RecommendStage) /\ WF_vars(ShortlistStage)

Spec == Init /\ [][Next]_vars /\ Fairness

-----------------------------------------------------------------------------
(* Properties. *)

HasOwnMetrics(k) == Analysed(k) /\ rows[k].metrics.of = rows[k].peer /\ rows[k].metrics.official

(* A competitor counts as valid only with the numbers of the company it is, and
   only if that company's site was its own (competitor_analyze and
   replace_competitor, which comments that otherwise "the old competitor's
   metrics are used as if they were the new one's"); but for competitors
   replaced while an analysis already held the old one. *)
UnracedPeersAreMeasured ==
  \A k \in DOMAIN rows \ raced : Taken(k) /\ rows[k].valid => HasOwnMetrics(k)

(* When score is through, a company that passed the gate is official, may be
   contacted and has two measured competitors, whatever was cut off, replaced
   or rejected before; unless its inputs changed after score had read its page
   (scoreStage, which reads whom to contact there). *)
GateIsEarned ==
  stage["score"] = "succeeded" =>
    \A c \in Companies \ touched :
      GatePassed(c) /\ (\A k \in raced : k[1] # c) =>
        /\ Official(c) /\ c \notin suspended
        /\ Cardinality({k \in DOMAIN rows : k[1] = c /\ Taken(k) /\ rows[k].valid /\ HasOwnMetrics(k)}) >= 2

(* However often shortlist is repeated, and whoever is suspended in between,
   the items of companies that may be contacted keep within the cap and the
   industry's quota and have ranks of their own, although an execution never
   removes what an earlier one listed (shortlistStage). *)
ShortlistHolds ==
  LET live == {c \in Companies \ suspended : items[c] # None} IN
  /\ Cardinality(live) <= TargetNumbers.reviewMax
  /\ \A c \in live : Cardinality({d \in live : Base[d].industry = Base[c].industry})
                       <= industryQuota(TargetNumbers.reviewMax, TargetNumbers.share)
  /\ \A c, d \in live : items[c] = items[d] => c = d

(* A company whose competitors no execution can insert, or whose item collides
   with a pending one of an earlier attempt. *)
Stuck ==
  \/ stage["competitor_select"] # "succeeded" /\ \E c \in Targets : Twins(c, Inserted(c, MostSimilar(c)))
  \/ /\ stage["score"] = "succeeded" /\ stage["shortlist"] # "succeeded"
     /\ \E i \in Shortlist(Ranked, TargetNumbers) : i.company \in open /\ items[i.company] = None

(* All five stages end, unless one is stuck: no loop waits for a company that
   has nothing to be analysed or scored by. *)
RankingEnds == <>[]((\A s \in StageNames : stage[s] = "succeeded") \/ Stuck)
=============================================================================
