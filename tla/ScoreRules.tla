----------------------------- MODULE ScoreRules -----------------------------
(***************************************************************************)
(* The rules of scoring, as functions of what was observed of a company:   *)
(* its weaknesses, the three axes, the gate, the services to recommend and *)
(* the shortlist (packages/pipeline/src/facts.ts, weakness.ts, scoring.ts, *)
(* recommend.ts, targets.ts, stages/shortlist.ts).                         *)
(*                                                                         *)
(* The facts of a company are a record                                     *)
(*   status, suspended, industry, size, local     what is known of it      *)
(*   kinds       kinds of its contact pages                                *)
(*   channels    [url, type, analyzable, posts60, posts120, last, mix]     *)
(*   ors         [keyword, kind, provider, denominator, official, related, *)
(*                ors], orsScored whether they count                       *)
(*   peers       [id, valid, ors, recency, diversity, activity]            *)
(*   complete    a fraction <<of, n>>;  fresh: days since the last scan    *)
(* Points are in hundredths; None is a value that is not there.            *)
(***************************************************************************)
EXTENDS Integers, Sequences, FiniteSets, FiniteSetsExt

CONSTANTS
  None,
  Ticket   \* INDUSTRY_TICKET: points of an industry

SumOver(S, value(_)) == MapThenSumSet(value, S)

Max0(n) == IF n > 0 THEN n ELSE 0

-----------------------------------------------------------------------------
(* Facts (facts.ts). *)

analyzableChannels(f) == {c \in f.channels : c.analyzable}

(* A faulty variant: every competitor that has a row counts. *)
everyCompetitor(f) == f.peers

validCompetitors(f) == {p \in f.peers : p.valid}

MIN_VALID_COMPETITORS == 2

competitorGapAvailable(f) == Cardinality(validCompetitors(f)) >= MIN_VALID_COMPETITORS

(* Twice the median of the values that are there, so that it is a number. *)
median(S, value(_)) ==
  LET there   == {x \in S : value(x) # None}
      Upto(v) == Cardinality({x \in there : value(x) <= v})
      Nth(k)  == Min({value(x) : x \in {y \in there : Upto(value(y)) >= k}})
      n       == Cardinality(there)
  IN IF n = 0 THEN None ELSE Nth((n + 1) \div 2) + Nth(n \div 2 + 1)

(* Over the channels that could be analysed; of the others nothing is known. *)
totalPosts(f, window) ==
  LET usable == {c \in analyzableChannels(f) : c[window] # None} IN
  IF usable = {} THEN None ELSE SumOver(usable, LAMBDA c : c[window])

daysSinceLastPost(f) ==
  LET dated == {c \in analyzableChannels(f) : c.last # None} IN
  IF dated = {} THEN None ELSE Min({c.last : c \in dated})

channelTypeCount(f) == Cardinality({c.type : c \in f.channels})

-----------------------------------------------------------------------------
(* Weaknesses (weakness.ts). *)

SEVERITY ==
  [ no_official_channel |-> "strong", dormant_120d |-> "strong", no_nonbrand_retrieval |-> "strong",
    dormant_60d |-> "medium", low_channel_diversity |-> "medium", no_thirdparty_content |-> "medium",
    stale_last_post |-> "medium", ors_gap |-> "clear_gap", channel_activity_gap |-> "clear_gap",
    no_https |-> "weak", noindex |-> "weak" ]

Measured(f) == {o \in f.ors : o.denominator > 0}

ThirdParty(f) == SumOver(Measured(f), LAMBDA o : Max0(o.related - o.official))

(* At least two nonbrand keywords of which no channel returned anything. *)
NoNonbrand(f) ==
  LET rows  == {o \in Measured(f) : o.kind # "brand"}
      words == {o.keyword : o \in rows}
      empty == {w \in words : \A o \in rows : o.keyword = w => o.related = 0}
  IN Cardinality(words) >= 2 /\ Cardinality(empty) >= 2

(* At most 40 % of the peers' median; both are given as twice their value. *)
behind(mine2, theirs2) ==
  mine2 # None /\ theirs2 # None /\ theirs2 > 0 /\ 10 * mine2 <= 4 * theirs2

Twice(n) == IF n = None THEN None ELSE 2 * n

gradeWeaknesses(f, tech) ==
  LET posts60  == totalPosts(f, "posts60")
      posts120 == totalPosts(f, "posts120")
      stale    == daysSinceLastPost(f)
      gap      == competitorGapAvailable(f)
      Fires(k) ==
        CASE k = "no_official_channel"   -> f.channels = {}
          [] k = "dormant_120d"          -> f.channels # {} /\ posts120 = 0
          [] k = "no_nonbrand_retrieval" -> NoNonbrand(f)
          [] k = "dormant_60d"           -> posts120 # 0 /\ posts60 = 0
          [] k = "low_channel_diversity" -> f.channels # {} /\ channelTypeCount(f) <= 2
          [] k = "no_thirdparty_content" -> Measured(f) # {} /\ ThirdParty(f) = 0
          [] k = "stale_last_post"       -> stale # None /\ stale >= 180
          [] k = "ors_gap"               -> /\ gap /\ f.orsScored
                                            /\ behind(median(f.ors, LAMBDA o : o.ors),
                                                      median(validCompetitors(f), LAMBDA p : p.ors))
          [] k = "channel_activity_gap"  -> /\ gap /\ ~f.orsScored
                                            /\ behind(Twice(posts60), median(validCompetitors(f), LAMBDA p : p.activity))
          [] k = "no_https"              -> tech.https = FALSE
          [] k = "noindex"               -> tech.noindex = TRUE
  IN {k \in DOMAIN SEVERITY : Fires(k)}

tally(weaknesses, severity) == Cardinality({k \in weaknesses : SEVERITY[k] = severity})

(* Weak ones, which are about technique, never make a lead. *)
weaknessGatePassed(weaknesses) ==
  \/ tally(weaknesses, "strong") >= 1
  \/ tally(weaknesses, "medium") >= 2
  \/ (tally(weaknesses, "clear_gap") >= 1 /\ tally(weaknesses, "medium") >= 1)

-----------------------------------------------------------------------------
(* Items of the axes (scoring.ts).  One that could not be measured is left out
   of the points and of what can be reached. *)

Item(key, points, max) == [key |-> key, points |-> points, max |-> max, available |-> TRUE]

Unmeasured(key, max) == [key |-> key, points |-> 0, max |-> max, available |-> FALSE]

If(condition, points) == IF condition THEN points ELSE 0

AxisPoints(items) == SumOver({i \in items : i.available}, LAMBDA i : i.points)

AxisMax(items) == SumOver({i \in items : i.available}, LAMBDA i : i.max)

OrsItems(f) ==
  LET rows     == Measured(f)
      nonbrand == {o \in rows : o.kind # "brand"}
      found    == Cardinality({o.provider : o \in {r \in rows : r.related > 0}})
  IN IF rows = {} THEN {Unmeasured("ors_gap", 25)}
     ELSE { Item("ors_no_official", If(\A o \in rows : o.official = 0, 1000), 10),
            Item("ors_no_thirdparty", If(ThirdParty(f) = 0, 800), 8),
            Item("ors_low_diversity", If(found <= 1, 400) + If(found = 2, 200), 4),
            Item("ors_no_nonbrand", If(nonbrand # {} /\ \A o \in nonbrand : o.related = 0, 300), 3) }

(* Without two valid competitors there is no gap, neither large nor small. *)
GapItems(f, orsOn) ==
  LET peers == validCompetitors(f) IN
  IF ~competitorGapAvailable(f) THEN {Unmeasured("competitor_gap", IF orsOn THEN 20 ELSE 12)}
  ELSE (IF orsOn THEN {Item("gap_ors", If(behind(median(f.ors, LAMBDA o : o.ors),
                                                 median(peers, LAMBDA p : p.ors)), 800), 8)} ELSE {})
       \cup { Item("gap_recency", If(behind(Twice(totalPosts(f, "posts60")), median(peers, LAMBDA p : p.recency)), 500), 5),
              Item("gap_diversity", If(behind(2 * channelTypeCount(f), median(peers, LAMBDA p : p.diversity)), 400), 4),
              Item("gap_activity", If(behind(Twice(totalPosts(f, "posts120")), median(peers, LAMBDA p : p.activity)), 300), 3) }

(* No channel at all is an absence; channels of which none could be analysed
   are an observation that failed. *)
ContentItems(f) ==
  LET posts60  == totalPosts(f, "posts60")
      posts120 == totalPosts(f, "posts120")
      stale    == daysSinceLastPost(f)
  IN IF f.channels = {} THEN {Item("no_recent_content", 1500, 15)}
     ELSE IF posts60 = None /\ posts120 = None THEN {Unmeasured("no_recent_content", 15)}
     ELSE { Item("content_60d", If(posts60 = 0, 800), 8),
            Item("content_120d", If(posts120 = 0, 400), 4),
            Item("content_stale", IF stale = None THEN 300
                                  ELSE IF stale >= 180 THEN 300 ELSE If(stale >= 90, 200), 3) }

problemAxis(f, mode) ==
  LET orsOn == mode = "ors_enabled" /\ f.orsScored IN
  (IF orsOn THEN OrsItems(f) ELSE {}) \cup GapItems(f, orsOn) \cup ContentItems(f)

(* Two channels, or three tenths of what is posted about events. *)
marketingActivityOf(f) ==
  LET usable == analyzableChannels(f)
      total  == SumOver(usable, LAMBDA c : c.mix.all)
      events == SumOver(usable, LAMBDA c : c.mix.event)
  IN IF Cardinality(f.channels) >= 2 \/ (total > 0 /\ 10 * events >= 3 * total) THEN "high" ELSE "low"

SizePoints(size) == CASE size = "small" -> 300 [] size = "mid" -> 200 [] size = "large" -> 0 [] OTHER -> 100

Budget(f, weaknesses) ==
  IF marketingActivityOf(f) = "high"
  THEN IF tally(weaknesses, "clear_gap") >= 1 THEN 1000 ELSE 200
  ELSE IF tally(weaknesses, "strong") >= 1 THEN 600 ELSE 300

propensityAxis(f, weaknesses) ==
  { Item("industry_ticket", 100 * Ticket[f.industry], 4),
    Item("local_competition", IF f.local >= 20 THEN 300 ELSE IF f.local >= 8 THEN 200 ELSE 100, 3),
    Item("size_fit", SizePoints(f.size), 3),
    Item("budget_signal", Budget(f, weaknesses), 10),
    Item("contact_exists", If(f.kinds # {}, 300), 3),
    Item("contact_kind", IF f.kinds \cap {"partnership", "contact"} # {} THEN 200 ELSE If(f.kinds # {}, 100), 2) }

(* A fraction of n, rounded to hundredths. *)
Part(fraction, n) == (200 * n * fraction[1] + fraction[2]) \div (2 * fraction[2])

confidenceAxis(f) ==
  LET n == Cardinality(validCompetitors(f)) IN
  { Item("official_status", If(f.status = "confirmed", 500) + If(f.status = "likely", 300), 5),
    Item("analysis_completeness", Part(f.complete, 5), 5),
    Item("competitor_freshness",
         If(n >= 3, 300) + If(n = 2, 200)
           + (IF f.fresh = None THEN 0 ELSE IF f.fresh <= 7 THEN 200 ELSE If(f.fresh <= 30, 100)), 5) }

axes(f, weaknesses, mode) ==
  [problem |-> problemAxis(f, mode), propensity |-> propensityAxis(f, weaknesses), confidence |-> confidenceAxis(f)]

TotalPoints(a) == AxisPoints(a.problem) + AxisPoints(a.propensity) + AxisPoints(a.confidence)

TotalMax(a) == AxisMax(a.problem) + AxisMax(a.propensity) + AxisMax(a.confidence)

(* Out of 100 of what could be measured, in hundredths. *)
normalized(a) ==
  IF TotalMax(a) = 0 THEN 0 ELSE (200 * TotalPoints(a) + TotalMax(a)) \div (2 * TotalMax(a))

(* The gate, with all the reasons it fails for. *)
failures(f, weaknesses, a, settings) ==
  LET Fails(why) ==
        CASE why = "do_not_contact"    -> f.suspended
          [] why = "official_status"   -> f.status \notin {"confirmed", "likely"}
          [] why = "competitor_gap"    -> ~competitorGapAvailable(f)
          [] why = "axis_problem"      -> AxisPoints(a.problem) < settings.problemMin
          [] why = "axis_propensity"   -> AxisPoints(a.propensity) < settings.propensityMin
          [] why = "axis_confidence"   -> AxisPoints(a.confidence) < settings.confidenceMin
          [] why = "total"             -> normalized(a) < settings.totalMin
          [] why = "weakness"          -> ~weaknessGatePassed(weaknesses)
  IN {why \in {"do_not_contact", "official_status", "competitor_gap", "axis_problem",
               "axis_propensity", "axis_confidence", "total", "weakness"} : Fails(why)}

-----------------------------------------------------------------------------
(* What to recommend (recommend.ts): the service whose items are worst, and the
   next two; among equals in the order of SERVICES. *)

SERVICES == <<"search", "media", "content", "homepage">>

ITEM_SERVICE ==
  [ ors_no_official |-> "search", ors_no_nonbrand |-> "search", gap_ors |-> "search",
    gap_recency |-> "media", gap_activity |-> "media", gap_diversity |-> "media",
    no_recent_content |-> "content", content_60d |-> "content", content_120d |-> "content",
    content_stale |-> "content", ors_no_thirdparty |-> "content", ors_low_diversity |-> "content",
    contact_exists |-> "homepage", contact_kind |-> "homepage" ]

(* For contacts few points are the problem, for the others many. *)
Magnitude(item) ==
  IF ~item.available \/ item.key \notin DOMAIN ITEM_SERVICE THEN 0
  ELSE IF item.key \in {"contact_exists", "contact_kind"} THEN 100 * item.max - item.points ELSE item.points

WeightOf(items, service) ==
  SumOver({i \in items : i.key \in DOMAIN ITEM_SERVICE /\ ITEM_SERVICE[i.key] = service}, Magnitude)

weigh(items) ==
  [ search |-> WeightOf(items, "search"), media |-> WeightOf(items, "media"),
    content |-> WeightOf(items, "content"), homepage |-> WeightOf(items, "homepage") ]

Heaviest(weight) ==
  LET heavier(s, t) == LET v == weight[SERVICES[s]]  w == weight[SERVICES[t]] IN v > w \/ (v = w /\ s < t)
      found == {s \in 1 .. 4 : weight[SERVICES[s]] > 0}
  IN [n \in 1 .. Cardinality(found) |->
        SERVICES[CHOOSE s \in found : Cardinality({t \in found : heavier(t, s)}) = n - 1]]

recommend(weight) ==
  LET ranked == Heaviest(weight) IN
  [ primary   |-> IF ranked = <<>> THEN SERVICES[1] ELSE ranked[1],
    secondary |-> SubSeq(ranked, 2, IF Len(ranked) < 3 THEN Len(ranked) ELSE 3) ]

-----------------------------------------------------------------------------
(* The shortlist (targets.ts, shortlist.ts). *)

(* The share is a fraction: the binary number the setting stands for. *)
ValidTargets(t) ==
  t.reviewMax > 0 /\ t.finalMax > 0 /\ t.share[1] > 0 /\ t.share[1] <= t.share[2]

industryQuota(cap, share) == (cap * share[1]) \div share[2]

(* A faulty variant: the quota of an industry is not asked. *)
ShortlistByTotal(ranked, targets) ==
  {[company |-> ranked[i].company, rank |-> i] : i \in {n \in 1 .. Len(ranked) : n <= targets.reviewMax}}

(* From the best down, as long as there is room in all and for the industry.
   `ranked` is a sequence of [company, industry]. *)
Shortlist(ranked, targets) ==
  LET quota == industryQuota(targets.reviewMax, targets.share)
      Take[n \in 0 .. Len(ranked)] ==
        IF n = 0 THEN {}
        ELSE LET taken == Take[n - 1]
                 same  == {i \in taken : ranked[i].industry = ranked[n].industry}
             IN IF Cardinality(taken) >= targets.reviewMax \/ Cardinality(same) >= quota
                THEN taken ELSE taken \cup {n}
      chosen == Take[Len(ranked)]
  IN {[company |-> ranked[i].company, rank |-> Cardinality({j \in chosen : j <= i})] : i \in chosen}

=============================================================================
