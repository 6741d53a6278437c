------------------------------- MODULE Survey -------------------------------
(***************************************************************************)
(* From homepages to what a company is scored by: homepage_detect judges   *)
(* each site, then contact_pages, channel_analyze and search_analyze run   *)
(* side by side on what it left (packages/pipeline/src/stages/homepage.ts, *)
(* contactPages.ts, channel.ts, search.ts).                                *)
(*                                                                         *)
(* homepage_detect works through a page of sites with a pool of consumers. *)
(* When one of them cannot write, Promise.all rejects and the stage fails, *)
(* but the other consumers of the pool go on fetching and writing; when    *)
(* the stage's lease is lost, its whole execution goes on.  Either way the *)
(* consumers `pool[e]` work beside the next execution and the stages after *)
(* it.  Every other stage is one sequence of statements and calls, which a *)
(* crash may cut anywhere.                                                 *)
(***************************************************************************)
EXTENDS SearchRules

CONSTANTS
  Companies,      \* the companies of the attempt that are not excluded
  Company,        \* Company[c]: its row
  Sites,          \* websites of these companies
  Site,           \* Site[s]: company, host, label
  Visits,         \* Visits[s]: what visiting s may find: pages, or None if it cannot
  Feeds,          \* what a channel's feed may hold
  Answers,        \* what a search may return
  Providers,      \* ORS_CHANNELS, a sequence
  Nonbrand,       \* NONBRAND_KEYWORDS
  SharedContent,  \* SHARED_CONTENT_LIMIT
  Concurrency,    \* consumers of a pool
  Cap,            \* settings quota.naver_daily_cap
  Executions,     \* executions of homepage_detect, 1 .. n
  MaxCrashes,     \* bound: executions of a stage that are cut off
  MaxFailed       \* bound: search calls that fail

ASSUME BoundsAssumption ==
  /\ SharedContent \in Nat \ {0} /\ Concurrency \in Nat \ {0} /\ Cap \in Nat
  /\ Nonbrand \in Nat \ {0} /\ MaxCrashes \in Nat /\ MaxFailed \in Nat
  /\ Executions # {} /\ Executions = 1 .. Cardinality(Executions)

ASSUME DataAssumption ==
  /\ IsFiniteSet(Companies) /\ IsFiniteSet(Sites)
  /\ \A s \in Sites : Site[s].company \in Companies
  /\ Providers \in Seq(ToSet(Providers)) /\ Topics \in Seq(ToSet(Topics))

VARIABLES
  seen,      \* seen[s]: the row of website_observations, or None
  contacts,  \* contact_pages
  channels,  \* channels
  activity,  \* channel_observations: [channel, metrics]
  shares,    \* search_aggregates
  hits,      \* search_hits
  ledger,    \* cost_ledger: entry keys of today
  stage,     \* stage[s]: where a stage's job stands
  pool,      \* pool[e]: execution e of homepage_detect
  search,    \* where the execution of search_analyze stands
  cuts,      \* executions cut off so far
  lost,      \* search calls that failed, reservations that were denied
  late       \* sites a consumer has written since contact_pages last began

tables     == <<seen, contacts, channels, activity, shares, hits, ledger>>
progress   == <<stage, pool, search, cuts, lost, late>>
surveyVars == <<tables, progress>>

StageNames == {"homepage_detect", "contact_pages", "channel_analyze", "search_analyze"}

Status(s) == IF seen[s] = None THEN None ELSE seen[s].status

Done(s) == stage[s] = "succeeded"

-----------------------------------------------------------------------------
(* homepage_detect. *)

Off == [state |-> "off", queue |-> <<>>, busy |-> {}, hands |-> 0]

(* Companies with a website of this domain, counted when the page was read. *)
SharedBy(host) == Cardinality({Site[s].company : s \in {t \in Sites : Site[t].host = host}})

Pending == {s \in Sites : seen[s] = None}

(* They are read in the order of their keys. *)
PageOfSites == SetToSortSeq(Pending, <)

(* The next execution begins, with the first page of sites. *)
detect_start(e) ==
  /\ stage["homepage_detect"] = "pending" /\ pool[e].state = "off"
  /\ \A d \in Executions : d < e => pool[d].state # "off"
  /\ stage' = [stage EXCEPT !["homepage_detect"] = "running"]
  /\ pool' = [pool EXCEPT ![e] = [Off EXCEPT !.state = "live"]]
  /\ UNCHANGED <<tables, search, cuts, lost, late>>

(* Only the execution that holds the lease can report success. *)
detect_page(e) ==
  /\ pool[e].state \in {"live", "adrift"} /\ pool[e].queue = <<>> /\ pool[e].busy = {}
  /\ IF Pending = {}
     THEN /\ stage' = [stage EXCEPT !["homepage_detect"] = IF pool[e].state = "live" THEN "succeeded" ELSE @]
          /\ pool' = [pool EXCEPT ![e].state = "over"]
     ELSE /\ pool' = [pool EXCEPT ![e].queue = PageOfSites, ![e].hands = Concurrency]
          /\ UNCHANGED stage
  /\ UNCHANGED <<tables, search, cuts, lost, late>>

(* A page as `inspect` reads it. *)
Judged(s, page) ==
  LET c     == Company[Site[s].company]
      pages == detectContactPages(ToSet(page.links), page.finalHost)
      site  == [finalHost |-> page.finalHost, scheme |-> page.scheme, label |-> Site[s].label]
  IN [ status   |-> judgeOfficial(c, site, page.scan, pages, SharedBy(Site[s].host) - 1),
       formOnly |-> hasContactFormOnly(page.scan, pages),
       hash     |-> page.hash,
       contacts |-> pages,
       channels |-> discoverChannels(page.links) ]

(* robots.txt or the server kept it: an observation too, without a score. *)
Unavailable == [status |-> "unavailable", formOnly |-> FALSE, hash |-> None, contacts |-> {}, channels |-> {}]

(* What a visit of each site may lead to. *)
Findings == [s \in Sites |-> {IF v = None THEN Unavailable ELSE Judged(s, v) : v \in Visits[s]}]

(* What is written down of a finding: the row of website_observations. *)
Observation(f) == [status |-> f.status, formOnly |-> f.formOnly, hash |-> f.hash]

(* A row that stays as it was read, or that contact_pages rejects. *)
RowsOf(f) == {Observation(f), [Observation(f) EXCEPT !.status = "not_official"]}

ASSUME RowAssumption == \A s \in Sites : \A f \in Findings[s] : None \notin RowsOf(f)

(* A consumer takes the next site and visits it; it does not throw.  The
   consumers of a failed stage go on doing so. *)
visit(e) ==
  /\ pool[e].queue # <<>> /\ Cardinality(pool[e].busy) < pool[e].hands
  /\ \E f \in Findings[Head(pool[e].queue)] :
       pool' = [pool EXCEPT ![e].queue = Tail(@),
                            ![e].busy = @ \cup {[site |-> Head(pool[e].queue), found |-> f]}]
  /\ UNCHANGED <<tables, stage, search, cuts, lost, late>>

(* One transaction; a second observation overwrites the first, contact pages
   and channels are only added, and only if the site is official. *)
persist(e, b) ==
  LET f == b.found  c == Site[b.site].company
      SameUrl(p) == \E q \in f.contacts : q.url = p.page.url
  IN
  /\ b \in pool[e].busy
  /\ seen' = [seen EXCEPT ![b.site] = Observation(f)]
  /\ IF Official(f.status)
     THEN /\ contacts' = {p \in contacts : ~(p.site = b.site /\ SameUrl(p))}
                           \cup {[site |-> b.site, page |-> p] : p \in f.contacts}
          /\ channels' = channels \cup {[company |-> c, channel |-> ch] : ch \in f.channels}
     ELSE UNCHANGED <<contacts, channels>>
  /\ pool' = [pool EXCEPT ![e].busy = @ \ {b}]
  /\ late' = IF stage["contact_pages"] = "pending" THEN late ELSE late \cup {b.site}
  /\ UNCHANGED <<activity, shares, hits, ledger, stage, search, cuts, lost>>

(* A write fails.  It ends its consumer and, if the stage is still running,
   the stage; that the worker dies is the case where the other consumers, on
   which nothing depends, take no further step. *)
persist_fails(e, b) ==
  /\ b \in pool[e].busy /\ cuts < MaxCrashes
  /\ pool' = [pool EXCEPT ![e].busy = @ \ {b}, ![e].hands = @ - 1, ![e].state = "failed"]
  /\ stage' = IF pool[e].state = "live" THEN [stage EXCEPT !["homepage_detect"] = "pending"] ELSE stage
  /\ cuts' = cuts + 1
  /\ UNCHANGED <<tables, search, lost, late>>

(* The lease runs out while the handler is at work; the job is given back. *)
detect_lost(e) ==
  /\ pool[e].state = "live" /\ cuts < MaxCrashes
  /\ pool' = [pool EXCEPT ![e].state = "adrift"]
  /\ stage' = [stage EXCEPT !["homepage_detect"] = "pending"]
  /\ cuts' = cuts + 1
  /\ UNCHANGED <<tables, search, lost, late>>

-----------------------------------------------------------------------------
(* contact_pages: three statements. *)

Ready(s) == Done("homepage_detect") /\ stage[s] = "pending"

(* A faulty variant: a site does not count itself. *)
SameBodySpared(s) ==
  {t \in Sites : seen[t] # None /\ seen[t].hash = seen[s].hash /\ seen[t].status # "not_official"} \ {s}

SameBody(s) == {t \in Sites : seen[t] # None /\ seen[t].hash = seen[s].hash /\ seen[t].status # "not_official"}

(* Sites that return one body are parked or hijacked. *)
contact_demote ==
  /\ Ready("contact_pages")
  /\ seen' = [s \in Sites |->
       IF seen[s] # None /\ seen[s].hash # None /\ Cardinality(SameBody(s)) >= SharedContent
       THEN [seen[s] EXCEPT !.status = "not_official"] ELSE seen[s]]
  /\ stage' = [stage EXCEPT !["contact_pages"] = "demoted"]
  /\ late' = {}
  /\ UNCHANGED <<contacts, channels, activity, shares, hits, ledger, pool, search, cuts, lost>>

(* The gate: contact pages of sites that are not official, then those of sites
   without an observation. *)
contact_gate ==
  /\ stage["contact_pages"] = "demoted"
  /\ contacts' = {p \in contacts : seen[p.site] = None \/ Official(seen[p.site].status)}
  /\ stage' = [stage EXCEPT !["contact_pages"] = "gated"]
  /\ UNCHANGED <<seen, channels, activity, shares, hits, ledger, pool, search, cuts, lost, late>>

contact_orphans ==
  /\ stage["contact_pages"] = "gated"
  /\ contacts' = {p \in contacts : seen[p.site] # None}
  /\ stage' = [stage EXCEPT !["contact_pages"] = "succeeded"]
  /\ UNCHANGED <<seen, channels, activity, shares, hits, ledger, pool, search, cuts, lost, late>>

contact_cut ==
  /\ stage["contact_pages"] \in {"demoted", "gated"} /\ cuts < MaxCrashes
  /\ stage' = [stage EXCEPT !["contact_pages"] = "pending"]
  /\ cuts' = cuts + 1
  /\ UNCHANGED <<tables, pool, search, lost, late>>

-----------------------------------------------------------------------------
(* channel_analyze: every channel of the companies, also those an earlier run
   or an earlier observation left. *)

Unanalysed == {ch \in channels : \A a \in activity : a.channel # ch}

FeedMetrics == {computeActivity(f) : f \in Feeds}

(* A channel without a feed is known not to be analysable; a feed that cannot
   be fetched or read likewise; otherwise the feed decides. *)
Metrics(ch) == {Unanalyzable} \cup (IF HasFeed(ch.channel.platform) THEN FeedMetrics ELSE {})

channel_analyze(ch) ==
  /\ Ready("channel_analyze") /\ ch \in Unanalysed
  /\ \E m \in Metrics(ch) :
       activity' = activity \cup {[channel |-> ch, metrics |-> m, active |-> isActive(m)]}
  /\ UNCHANGED <<seen, contacts, channels, shares, hits, ledger, progress>>

channel_end ==
  /\ Ready("channel_analyze") /\ Unanalysed = {}
  /\ stage' = [stage EXCEPT !["channel_analyze"] = "succeeded"]
  /\ UNCHANGED <<tables, pool, search, cuts, lost, late>>

-----------------------------------------------------------------------------
(* search_analyze: company by company, keyword by keyword, channel by channel. *)

Resting == [at |-> "off", company |-> None, ctx |-> None, keywords |-> <<>>, results |-> <<>>,
            asked |-> 0, exhausted |-> FALSE]

OfficialCompanies == {Site[s].company : s \in {t \in Sites : seen[t] # None /\ Official(seen[t].status)}}

Searched(c) == \E a \in shares : a.company = c

Unsearched == {c \in OfficialCompanies : ~Searched(c)}

search_start ==
  /\ Ready("search_analyze") /\ search.at = "off"
  /\ search' = [Resting EXCEPT !.at = "next"]
  /\ UNCHANGED <<tables, stage, pool, cuts, lost, late>>

(* What counts as the company's own, read before its searches. *)
Context(c) ==
  [ name     |-> normalizeCompanyName(Company[c].name),
    domains  |-> {Site[s].host : s \in {t \in Sites : Site[t].company = c /\ seen[t] # None /\ Official(seen[t].status)}},
    channels |-> {ch.channel.url : ch \in {d \in channels : d.company = c}} ]

KeywordsOf == [c \in Companies |-> generateKeywords(Company[c], Nonbrand)]

(* The next company that has no aggregate yet; the stage ends when there is
   none, or when the quota ran out. *)
search_next ==
  /\ search.at = "next"
  /\ IF search.exhausted \/ Unsearched = {}
     THEN /\ stage' = [stage EXCEPT !["search_analyze"] = "succeeded"]
          /\ search' = Resting
     ELSE /\ \E c \in Unsearched :
               /\ \A d \in Unsearched : c <= d
               /\ search' = [search EXCEPT !.at = "call", !.company = c, !.ctx = Context(c),
                                           !.keywords = KeywordsOf[c], !.asked = 0]
          /\ UNCHANGED stage
  /\ UNCHANGED <<tables, pool, cuts, lost, late>>

EntryKey == <<search.company, Head(search.keywords).words, Providers[search.asked + 1]>>

Granted(key) == key \in ledger \/ Cardinality(ledger) + 1 <= Cap

(* Reserve, call; a denied reservation ends the keyword and the stage, a failed
   call only loses its channel. *)
search_call ==
  /\ search.at = "call" /\ search.asked < Len(Providers)
  /\ IF ~Granted(EntryKey)
     THEN /\ search' = [search EXCEPT !.exhausted = TRUE, !.asked = Len(Providers)]
          /\ lost' = [lost EXCEPT !.denied = @ + 1]
          /\ UNCHANGED ledger
     ELSE /\ ledger' = ledger \cup {EntryKey}
          /\ \/ /\ lost.failed < MaxFailed
                /\ search' = [search EXCEPT !.asked = @ + 1]
                /\ lost' = [lost EXCEPT !.failed = @ + 1]
             \/ \E r \in Answers :
                  /\ search' = [search EXCEPT !.asked = @ + 1,
                       !.results = Append(@, [provider |-> Providers[search.asked + 1],
                                              total |-> r.total, hits |-> r.hits])]
                  /\ UNCHANGED lost
  /\ UNCHANGED <<seen, contacts, channels, activity, shares, hits, stage, pool, cuts, late>>

(* A faulty variant: a keyword one of whose channels failed is not stored. *)
search_storeWhole ==
  /\ search.at = "call" /\ search.asked = Len(Providers)
  /\ \E all \in {aggregateAll(search.results, search.ctx)} :
     LET word == Head(search.keywords)
         last == search.exhausted \/ Len(search.keywords) = 1
     IN /\ IF Len(search.results) = Len(Providers)
           THEN shares' = shares \cup {[company |-> search.company, keyword |-> word.words, kind |-> word.kind,
                                        provider |-> a.provider, ors |-> a.ors] : a \in all.aggregates}
           ELSE UNCHANGED shares
        /\ UNCHANGED hits
        /\ search' = [search EXCEPT !.at = IF last THEN "next" ELSE "call",
                        !.keywords = IF last THEN <<>> ELSE Tail(@), !.results = <<>>, !.asked = 0]
  /\ UNCHANGED <<seen, contacts, channels, activity, ledger, stage, pool, cuts, lost, late>>

(* One transaction per keyword: what channels answered, if any. *)
search_store ==
  /\ search.at = "call" /\ search.asked = Len(Providers)
  /\ \E all \in {aggregateAll(search.results, search.ctx)} :
     LET word == Head(search.keywords)
         last == search.exhausted \/ Len(search.keywords) = 1
         Hit(h) == [company |-> search.company, keyword |-> word.words, url |-> canonicalHitUrl(h),
                    official |-> IsOfficial(h, search.ctx)]
         Known(h) == \E k \in hits : k.company = search.company /\ k.keyword = word.words /\ k.url = canonicalHitUrl(h)
     IN /\ shares' = shares \cup {[company |-> search.company, keyword |-> word.words, kind |-> word.kind,
                                   provider |-> a.provider, ors |-> a.ors] : a \in all.aggregates}
        /\ hits' = hits \cup {Hit(all.hits[i]) : i \in {j \in DOMAIN all.hits : ~Known(all.hits[j])}}
        /\ search' = [search EXCEPT !.at = IF last THEN "next" ELSE "call",
                        !.keywords = IF last THEN <<>> ELSE Tail(@), !.results = <<>>, !.asked = 0]
  /\ UNCHANGED <<seen, contacts, channels, activity, ledger, stage, pool, cuts, lost, late>>

(* The process dies.  That the old execution goes on beside the new one, as after
   a lost lease, is left out here. *)
search_cut ==
  /\ search.at # "off" /\ cuts < MaxCrashes
  /\ search' = Resting
  /\ cuts' = cuts + 1
  /\ UNCHANGED <<tables, stage, pool, lost, late>>

-----------------------------------------------------------------------------
SurveyInit ==
  /\ seen = [s \in Sites |-> None]
  /\ contacts = {} /\ channels = {} /\ activity = {} /\ shares = {} /\ hits = {} /\ ledger = {}
  /\ stage = [s \in StageNames |-> "pending"]
  /\ pool = [e \in Executions |-> Off]
  /\ search = Resting
  /\ cuts = 0 /\ lost = [failed |-> 0, denied |-> 0] /\ late = {}

Detect ==
  \/ \E e \in Executions : detect_start(e) \/ detect_page(e) \/ visit(e)
  \/ \E e \in Executions : \E b \in pool[e].busy : persist(e, b)

Contact == contact_demote \/ contact_gate \/ contact_orphans

Analyze == channel_end \/ \E ch \in channels : channel_analyze(ch)

Search == search_start \/ search_next \/ search_call \/ search_store

SurveyNext ==
  \/ Detect \/ Contact \/ Analyze \/ Search
  \/ \E e \in Executions : detect_lost(e) \/ \E b \in pool[e].busy : persist_fails(e, b)
  \/ contact_cut \/ search_cut

SurveySpec == SurveyInit /\ [][SurveyNext]_surveyVars

-----------------------------------------------------------------------------
(* Properties. *)

(* When contact_pages is through, no body is shared by so many sites that are
   not rejected, and no contact page is left of a site that is not official
   (contactPagesStage): however many executions of homepage_detect failed or
   lost their lease before, whatever consumers they left behind wrote until
   then, and however often contact_pages was repeated.  Of the sites that such
   a consumer writes after contact_pages has begun nothing is said: the code
   may lose them, but no other site by them. *)
GateHolds ==
  Done("contact_pages") =>
    /\ \A alike \in SUBSET {s \in Sites \ late : Status(s) # "not_official" /\ seen[s].hash # None} :
         (\A s, t \in alike : seen[s].hash = seen[t].hash) => Cardinality(alike) < SharedContent
    /\ \A p \in contacts : p.site \in Sites \ late => Official(Status(p.site))

(* What is known of a company's search: the aggregates its keywords and
   channels should have and have not. *)
MissingShares(c) ==
  { k \in {w.words : w \in ToSet(KeywordsOf[c])} \X ToSet(Providers) :
      ~\E a \in shares : a.company = c /\ a.keyword = k[1] /\ a.provider = k[2] }

(* A company that counts as searched lacks an aggregate only for a cause: one
   per failed call, and any number where an execution was cut off or the quota
   ran out in the middle of a company, at most one company each time
   (searchStage, which never searches a company with an aggregate again). *)
MissingSharesHaveCauses ==
  stage["search_analyze"] = "succeeded" =>
    \E cut \in SUBSET Companies :
      /\ Cardinality(cut) <= cuts + lost.denied
      /\ Cardinality(UNION {{c} \X MissingShares(c) : c \in {d \in Companies \ cut : Searched(d)}})
           <= lost.failed
=============================================================================
