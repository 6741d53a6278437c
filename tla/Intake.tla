------------------------------- MODULE Intake -------------------------------
(***************************************************************************)
(* The first four stages of a run, from the candidates of a source to the  *)
(* homepages worth visiting: collect, normalize, exclude_basic and         *)
(* homepage_discover (packages/pipeline/src/stages), with the daily quota  *)
(* of search calls (quota.ts).                                             *)
(*                                                                         *)
(* A stage is a loop of statements over pages of rows.  A step is one      *)
(* statement or transaction, or one call of the search API.  Between two   *)
(* steps the worker may die, its lease may run out and another worker      *)
(* begin the stage anew while it goes on, or a statement may fail and the  *)
(* stage be retried; JobQueue has the queue's side of this.                *)
(*                                                                         *)
(* Company ids are in order of creation here (they are random uuids): what *)
(* matters is that every query orders by them.                             *)
(***************************************************************************)
EXTENDS SiteRules

CONSTANTS
  Workers,
  Feeds,         \* what the source may return: sequences of candidates
  Past,          \* companies known from earlier runs, a sequence of rows
  PastSites,     \* and their websites, with what was last observed there
  Limits,        \* settings targets.*
  Batch,         \* rows of a page
  Cap,           \* settings quota.naver_daily_cap
  Adapters,      \* whether a worker has a search adapter: some of TRUE and FALSE
  LocalAnswers,  \* what the local search may return: sequences of hits
  WebAnswers,    \* what the web search may return
  MaxAttempts,   \* jobs.max_attempts
  MaxCrashes,    \* bound: workers that die
  MaxExpiries,   \* bound: leases that run out under a living worker
  MaxDay         \* bound: midnights

ASSUME LimitsAssumption == ValidLimits(Limits)   \* excludeSettingsFrom throws otherwise
ASSUME BoundsAssumption ==
  /\ Batch \in Nat \ {0} /\ MaxAttempts \in Nat \ {0} /\ Cap \in Nat
  /\ MaxCrashes \in Nat /\ MaxExpiries \in Nat /\ MaxDay \in Nat
  /\ IsFiniteSet(Workers) /\ Adapters \in SUBSET BOOLEAN \ {{}}

Stages == <<"collect", "normalize", "exclude_basic", "homepage_discover">>

StageNames == ToSet(Stages)

(* Null is no worker, no stage and no kind of change; a source returns lists. *)
ASSUME NamesAssumption ==
  /\ None \notin Workers /\ None \notin StageNames
  /\ None \notin {"new", "changed", "unchanged"}
  /\ \A f \in Feeds : f \in Seq(ToSet(f))

Columns == { "key", "name", "industry", "phone", "sigungu", "status", "size", "group",
             "fingerprint", "scans", "track", "excluded", "tier" }

(* companies.dedupe_key is unique, scan_count a count. *)
ASSUME PastAssumption ==
  /\ Past \in Seq(ToSet(Past))
  /\ \A c \in DOMAIN Past : DOMAIN Past[c] = Columns /\ Past[c].scans \in Nat
  /\ \A c, d \in DOMAIN Past : Past[c].key = Past[d].key => c = d

VARIABLES
  feed,      \* the candidates the source returns in this run
  raw,       \* raw[i]: the row of raw_candidates for feed[i]
  company,   \* companies, with this attempt's company_observations
  sites,     \* websites
  ledger,    \* cost_ledger: the entries of the search provider
  asked,     \* asked[k]: calls made on entry k, for the properties
  day,
  job,       \* job[s]: the stage's job
  exec,      \* exec[w]: where a worker stands in its stage
  missed,    \* companies the discovery that ended never asked for, and its finds
  faults     \* crashes and expiries so far

tables == <<raw, company, sites>>
quota  == <<ledger, asked, day>>
vars   == <<feed, tables, quota, job, exec, missed, faults>>

-----------------------------------------------------------------------------
(* Tables. *)

Ids == 1 .. Len(company)

Observed(c) == company[c].track # None

(* The company with a key; 0 when there is none. *)
Find(key) ==
  LET known == {c \in Ids : company[c].key = key} IN IF known = {} THEN 0 ELSE CHOOSE c \in known : TRUE

(* A row that has nothing but what the candidate says. *)
NewRow(c) ==
  [ key      |-> buildDedupeKey(c),    name     |-> c.name,  industry |-> c.industry,
    phone    |-> normalizePhone(c.phone), sigungu |-> c.sigungu, status |-> c.status,
    size     |-> c.size,   group |-> buildGroupKey(c), fingerprint |-> contentFingerprint(c),
    scans    |-> 1,        track |-> "new",  excluded |-> None,  tier |-> None ]

(* `on conflict (dedupe_key) do update`: what the candidate says overwrites what
   is stored, what it is silent on stays. *)
Merged(row, c, track) ==
  [ row EXCEPT !.name = c.name, !.status = c.status, !.size = c.size,
               !.phone = IF normalizePhone(c.phone) # None THEN normalizePhone(c.phone) ELSE @,
               !.sigungu = IF c.sigungu # None THEN c.sigungu ELSE @,
               !.group = IF buildGroupKey(c) # None THEN buildGroupKey(c) ELSE @,
               !.fingerprint = contentFingerprint(c),
               !.scans = @ + 1, !.track = track ]

Site(c, url, basis) == [company |-> c, url |-> url, seen |-> "never", basis |-> basis]

(* websites has two unique keys, (company, url) and (company, domain); hosts
   are stored without "www.". *)
SameDomain(s, c, url) == s.company = c /\ s.url.host = url.host

(* Companies with nothing left to judge: no site at all, or only sites whose
   last observation could not reach them. *)
Targets ==
  {c \in Ids : /\ Observed(c) /\ company[c].excluded = None
               /\ \A s \in sites : s.company = c => s.seen = "unavailable"}

(* Where an id stands in `order by id`. *)
Place(S, x) == Cardinality({y \in S : y <= x})

(* A page: up to Batch ids after the first `offset`, with their rows. *)
Page(S, table, offset) ==
  {[id |-> x, row |-> table[x]] : x \in {y \in S : Place(S, y) \in offset + 1 .. offset + Batch}}

-----------------------------------------------------------------------------
(* The quota (QuotaGuard.reserve): one transaction under an advisory lock. *)

UsedOn(d) == Cardinality({e \in ledger : e.day = d})

Booked(key) == \E e \in ledger : e.key = key

(* An entry that is already booked, on whatever day, is granted again. *)
Granted(key) == Booked(key) \/ UsedOn(day) + 1 <= Cap

(* A faulty variant: the entry is written whether or not there is one. *)
BookEachTime(key) == ledger' = ledger \cup {[key |-> key, day |-> day]}

Book(key) ==
  ledger' = IF Booked(key) THEN ledger ELSE ledger \cup {[key |-> key, day |-> day]}

-----------------------------------------------------------------------------
(* Stages and workers. *)

Idle == [stage |-> None, pc |-> "page", page |-> {}, offset |-> 0,
         finds |-> {}, seen |-> {}, adopted |-> None]

At(w, s, pc) == exec[w].stage = s /\ exec[w].pc = pc

Go(w, state) == exec' = [exec EXCEPT ![w] = state]

(* The row of the page that is next. *)
Item(w) == CHOOSE r \in exec[w].page : \A q \in exec[w].page : r.id <= q.id

(* A page is fetched where `offset` stands; a row of it is done with. *)
Fetched(w, page) == [exec[w] EXCEPT !.page = page, !.offset = @ + Cardinality(page)]

Turned(w) == [exec[w] EXCEPT !.pc = "page", !.page = @ \ {Item(w)}, !.adopted = None]

Ready(s) == job[s].state = "pending" /\ \A i \in 1 .. Len(Stages) :
              i > 1 /\ Stages[i] = s => job[Stages[i - 1]].state = "succeeded"

(* acquire_job: from now on only this worker's report counts. *)
start(w, s) ==
  /\ exec[w].stage = None /\ Ready(s)
  /\ job' = [job EXCEPT ![s] = [state |-> "running", by |-> w, tries |-> @.tries + 1]]
  /\ exec' = [exec EXCEPT ![w] = [Idle EXCEPT !.stage = s]]
  /\ UNCHANGED <<feed, tables, quota, missed, faults>>

(* A faulty variant: the last attempt is not made. *)
RetriedOnceLess(j) == [j EXCEPT !.state = IF j.tries + 1 < MaxAttempts THEN "pending" ELSE "dead", !.by = None]

Retried(j) == [j EXCEPT !.state = IF j.tries < MaxAttempts THEN "pending" ELSE "dead", !.by = None]

Owns(w) == job[exec[w].stage].by = w

(* The stage ends well, or with the error of a statement; the report of a
   worker that has lost the job is refused. *)
Finish(w) ==
  /\ job' = IF Owns(w) THEN [job EXCEPT ![exec[w].stage] = [@ EXCEPT !.state = "succeeded", !.by = None]] ELSE job
  /\ exec' = [exec EXCEPT ![w] = Idle]

Fail(w) ==
  /\ job' = IF Owns(w) THEN [job EXCEPT ![exec[w].stage] = Retried(@)] ELSE job
  /\ exec' = [exec EXCEPT ![w] = Idle]

crash(w) ==
  /\ exec[w].stage # None /\ faults.crashes < MaxCrashes
  /\ Fail(w)
  /\ faults' = [faults EXCEPT !.crashes = @ + 1]
  /\ UNCHANGED <<feed, tables, quota, missed>>

(* A living worker's lease runs out, and the reaper gives its job back. *)
expire(s) ==
  /\ job[s].state = "running" /\ faults.expiries < MaxExpiries
  /\ job' = [job EXCEPT ![s] = Retried(@)]
  /\ faults' = [faults EXCEPT !.expiries = @ + 1]
  /\ UNCHANGED <<feed, tables, quota, exec, missed>>

midnight ==
  /\ day < MaxDay /\ day' = day + 1
  /\ UNCHANGED <<feed, tables, ledger, asked, job, exec, missed, faults>>

-----------------------------------------------------------------------------
(* collect: candidates that have the right shape, in batches, each once. *)

Present(i) == \E j \in DOMAIN feed : j < i /\ feed[j].source = feed[i].source /\ feed[j].externalId = feed[i].externalId

flush(w) ==
  LET rows == exec[w].offset + 1 .. exec[w].offset + Batch IN
  /\ At(w, "collect", "page")
  /\ IF exec[w].offset < Len(feed)
     THEN /\ raw' = [i \in DOMAIN raw |->
                       IF i \in rows /\ raw[i] = "absent" /\ feed[i].valid /\ ~Present(i) THEN "pending" ELSE raw[i]]
          /\ Go(w, [exec[w] EXCEPT !.offset = @ + Batch])
          /\ UNCHANGED job
     ELSE Finish(w) /\ UNCHANGED raw
  /\ UNCHANGED <<feed, company, sites, quota, missed, faults>>

-----------------------------------------------------------------------------
(* normalize: a transaction per pending candidate. *)

normalize_page(w) ==
  LET page == Page({i \in DOMAIN raw : raw[i] = "pending"}, feed, 0) IN
  /\ At(w, "normalize", "page") /\ exec[w].page = {}
  /\ IF page = {} THEN Finish(w) ELSE Go(w, [exec[w] EXCEPT !.page = page]) /\ UNCHANGED job
  /\ UNCHANGED <<feed, tables, quota, missed, faults>>

(* Change detection reads the company before it writes it. *)
normalize_look(w) ==
  /\ At(w, "normalize", "page") /\ exec[w].page # {}
  /\ LET c == Item(w).row  id == Find(buildDedupeKey(c)) IN
     Go(w, [exec[w] EXCEPT !.pc = "write",
              !.adopted = IF id = 0 THEN "new"
                          ELSE IF company[id].fingerprint # contentFingerprint(c) THEN "changed" ELSE "unchanged"])
  /\ UNCHANGED <<feed, tables, quota, job, missed, faults>>

(* A faulty variant: the candidate is marked although its site was refused. *)
normalize_writeAlways(w) ==
  /\ At(w, "normalize", "write")
  /\ LET i == Item(w).id
         c == Item(w).row
         found == Find(buildDedupeKey(c))
         id    == IF found = 0 THEN Len(company) + 1 ELSE found
         url   == canonicalizeUrl(c.homepageUrl)
     IN /\ company' = IF found = 0 THEN Append(company, NewRow(c))
                      ELSE [company EXCEPT ![id] = Merged(@, c, exec[w].adopted)]
        /\ sites' = IF url = None \/ (\E s \in sites : s.company = id)
                    THEN sites ELSE sites \cup {Site(id, url, None)}
        /\ raw' = [raw EXCEPT ![i] = "done"]
        /\ Go(w, Turned(w))
        /\ UNCHANGED job
  /\ UNCHANGED <<feed, quota, missed, faults>>

(* Company, observation, site and mark in one transaction.  `on conflict
   (company_id, canonical_url) do nothing` does not cover the unique key on
   (company_id, domain): another URL of a known domain raises, nothing is kept
   and the stage fails.  A payload of the wrong shape, which the stage only marks,
   is not among the rows: flush stores what has passed the same schema. *)
normalize_write(w) ==
  /\ At(w, "normalize", "write")
  /\ LET i == Item(w).id
         c == Item(w).row
         found == Find(buildDedupeKey(c))
         id    == IF found = 0 THEN Len(company) + 1 ELSE found
         url   == canonicalizeUrl(c.homepageUrl)
         clash == url # None /\ \E s \in sites : SameDomain(s, id, url) /\ s.url # url
     IN IF clash THEN Fail(w) /\ UNCHANGED tables
        ELSE /\ company' = IF found = 0 THEN Append(company, NewRow(c))
                           ELSE [company EXCEPT ![id] = Merged(@, c, exec[w].adopted)]
             /\ sites' = IF url = None \/ (\E s \in sites : s.company = id /\ s.url = url)
                         THEN sites ELSE sites \cup {Site(id, url, None)}
             /\ raw' = [raw EXCEPT ![i] = "done"]
             /\ Go(w, Turned(w))
             /\ UNCHANGED job
  /\ UNCHANGED <<feed, quota, missed, faults>>

-----------------------------------------------------------------------------
(* exclude_basic: every observed company, decided on the row of its page. *)

exclude_page(w) ==
  LET page == Page({c \in Ids : Observed(c)}, company, exec[w].offset) IN
  /\ At(w, "exclude_basic", "page") /\ exec[w].page = {}
  /\ IF page = {} THEN Finish(w) ELSE Go(w, Fetched(w, page)) /\ UNCHANGED job
  /\ UNCHANGED <<feed, tables, quota, missed, faults>>

(* A faulty variant: only an exclusion is written, never its end. *)
exclude_rowOnly(w) ==
  /\ At(w, "exclude_basic", "page") /\ exec[w].page # {}
  /\ LET r == Item(w) IN
     company' = [company EXCEPT ![r.id].excluded = IF decideExclusion(r.row, Limits) # None
                                                   THEN decideExclusion(r.row, Limits) ELSE @,
                                ![r.id].tier = classifySize(r.row.size, Limits)]
  /\ Go(w, Turned(w))
  /\ UNCHANGED <<feed, raw, sites, quota, job, missed, faults>>

exclude_row(w) ==
  /\ At(w, "exclude_basic", "page") /\ exec[w].page # {}
  /\ LET r == Item(w) IN
     company' = [company EXCEPT ![r.id] = [@ EXCEPT !.excluded = decideExclusion(r.row, Limits),
                                                    !.tier = classifySize(r.row.size, Limits)]]
  /\ Go(w, Turned(w))
  /\ UNCHANGED <<feed, raw, sites, quota, job, missed, faults>>

-----------------------------------------------------------------------------
(* homepage_discover: companies without a page to judge, by offset over a set
   that shrinks with every find. *)

Unasked(w) == Targets \ exec[w].seen

(* A faulty variant: the offset counts full pages. *)
discover_pageFull(w) ==
  LET page == Page(Targets, company, exec[w].offset) IN
  /\ At(w, "homepage_discover", "page") /\ exec[w].page = {}
  /\ \/ exec[w].offset = 0 /\ FALSE \in Adapters /\ Finish(w) /\ UNCHANGED missed
     \/ /\ exec[w].offset > 0 \/ TRUE \in Adapters
        /\ IF page = {}
           THEN /\ Finish(w)
                /\ missed' = IF Owns(w) THEN [never |-> Unasked(w), finds |-> exec[w].finds] ELSE missed
           ELSE /\ Go(w, [Fetched(w, page) EXCEPT !.offset = exec[w].offset + Batch + 1])
                /\ UNCHANGED <<job, missed>>
  /\ UNCHANGED <<feed, tables, quota, faults>>

(* A worker without a search adapter is through at once, without an error. *)
discover_page(w) ==
  LET page == Page(Targets, company, exec[w].offset) IN
  /\ At(w, "homepage_discover", "page") /\ exec[w].page = {}
  /\ \/ exec[w].offset = 0 /\ FALSE \in Adapters /\ Finish(w) /\ UNCHANGED missed
     \/ /\ exec[w].offset > 0 \/ TRUE \in Adapters
        /\ IF page = {}
           THEN /\ Finish(w)
                /\ missed' = IF Owns(w) THEN [never |-> Unasked(w), finds |-> exec[w].finds] ELSE missed
           ELSE /\ Go(w, Fetched(w, page))
                /\ UNCHANGED <<job, missed>>
  /\ UNCHANGED <<feed, tables, quota, faults>>

EntryKey(kind, w) == <<kind, Item(w).id>>

(* Reserve before the call; a refusal ends the stage, which succeeds. *)
Reserve(w, kind, next) ==
  /\ IF Granted(EntryKey(kind, w))
     THEN Book(EntryKey(kind, w)) /\ Go(w, [exec[w] EXCEPT !.pc = next]) /\ UNCHANGED job
     ELSE Finish(w) /\ UNCHANGED ledger
  /\ UNCHANGED <<feed, tables, asked, day, missed, faults>>

discover_reserve(w) ==
  /\ At(w, "homepage_discover", "page") /\ exec[w].page # {}
  /\ Reserve(w, "local", "local")

discover_reserve_web(w) ==
  /\ At(w, "homepage_discover", "reserve_web")
  /\ Reserve(w, "web", "web")

Called(w, kind) == asked' = [asked EXCEPT ![EntryKey(kind, w)] = @ + 1]

(* The next company: what was asked is remembered for the properties. *)
Asked(w) == [Turned(w) EXCEPT !.seen = @ \cup {Item(w).id}]

Found(w, adopted) == [exec[w] EXCEPT !.pc = "insert", !.adopted = adopted]

(* A failed call is no answer: the company is passed over.  An answer without
   evidence leads to the web search, if text can be evidence at all. *)
local_search(w) ==
  /\ At(w, "homepage_discover", "local") /\ Called(w, "local")
  /\ \/ Go(w, Asked(w))
     \/ \E hits \in LocalAnswers :
          LET c == Item(w).row  adopted == discoverHomepage(c, hits) IN
          IF adopted # None              THEN Go(w, Found(w, adopted))
          ELSE IF canHaveTextEvidence(c) THEN Go(w, [exec[w] EXCEPT !.pc = "reserve_web"])
          ELSE Go(w, Asked(w))
  /\ UNCHANGED <<feed, tables, ledger, day, job, missed, faults>>

web_search(w) ==
  /\ At(w, "homepage_discover", "web") /\ Called(w, "web")
  /\ \/ Go(w, Asked(w))
     \/ \E hits \in WebAnswers :
          LET adopted == discoverHomepageFromWebSearch(Item(w).row, hits) IN
          IF adopted # None THEN Go(w, Found(w, adopted)) ELSE Go(w, Asked(w))
  /\ UNCHANGED <<feed, tables, ledger, day, job, missed, faults>>

(* The URL is stored as the search gave it, not canonicalized; `on conflict
   (company_id, domain) do nothing`. *)
insert_site(w) ==
  /\ At(w, "homepage_discover", "insert")
  /\ LET id  == Item(w).id
         url == exec[w].adopted.url
     IN /\ sites' = IF \E s \in sites : SameDomain(s, id, url) THEN sites
                    ELSE sites \cup {Site(id, url, exec[w].adopted.basis)}
        /\ Go(w, [Asked(w) EXCEPT !.finds = @ \cup {id}])
  /\ UNCHANGED <<feed, raw, company, quota, job, missed, faults>>

-----------------------------------------------------------------------------
MaxIds == Len(Past) + Max({Len(f) : f \in Feeds})

Init ==
  /\ feed \in Feeds
  /\ raw = [i \in DOMAIN feed |-> "absent"]
  /\ company = Past /\ sites = PastSites
  /\ ledger = {} /\ day = 0
  /\ asked = [k \in {"local", "web"} \X (1 .. MaxIds) |-> 0]
  /\ job = [s \in StageNames |-> [state |-> "pending", by |-> None, tries |-> 0]]
  /\ exec = [w \in Workers |-> Idle]
  /\ missed = [never |-> {}, finds |-> {}]
  /\ faults = [crashes |-> 0, expiries |-> 0]

Work(w) ==
  \/ flush(w)
  \/ normalize_page(w) \/ normalize_look(w) \/ normalize_write(w)
  \/ exclude_page(w) \/ exclude_row(w)
  \/ discover_page(w) \/ discover_reserve(w) \/ local_search(w)
  \/ discover_reserve_web(w) \/ web_search(w) \/ insert_site(w)

Next ==
  \/ \E w \in Workers, s \in StageNames : start(w, s)
  \/ \E w \in Workers : Work(w) \/ crash(w)
  \/ \E s \in StageNames : expire(s)
  \/ midnight

(* Handlers run on; a worker that is free polls for jobs. *)
Fairness ==
  /\ \A w \in Workers : WF_vars(Work(w))
  /\ WF_vars(\E w \in Workers, s \in StageNames : start(w, s))

Spec == Init /\ [][Next]_vars /\ Fairness

-----------------------------------------------------------------------------
(* Properties. *)

(* A candidate marked as normalized has left everything it should: its
   company, observed in this attempt, scanned at least once for every such
   candidate and with the fingerprint of one of them, and the site it named;
   whatever workers died or overtook each other (normalizeStage). *)
DoneRowsAreStored ==
  \A i \in DOMAIN feed : raw[i] = "done" =>
    LET key  == buildDedupeKey(feed[i])
        id   == Find(key)
        same == {j \in DOMAIN feed : buildDedupeKey(feed[j]) = key}
        url  == canonicalizeUrl(feed[i].homepageUrl)
    IN /\ id # 0 /\ Observed(id)
       /\ company[id].scans >= Cardinality({j \in same : raw[j] = "done"})
       /\ \E j \in same : company[id].fingerprint = contentFingerprint(feed[j])
       /\ url # None => \E s \in sites : s.company = id /\ s.url = url

(* Once the exclusion is through, and unless a worker without its lease goes on
   normalizing, every company of the attempt is in or out by its present row,
   also one that earlier runs had excluded (excludeStage). *)
ExclusionIsCurrent ==
  job["exclude_basic"].state = "succeeded" /\ faults.expiries = 0 =>
    \A c \in Ids : Observed(c) => company[c].excluded = decideExclusion(company[c], Limits)

(* No day's entries exceed the cap, every call was booked before it was made,
   an entry is paid for once, and it covers no more calls than the stage had
   executions: a retry repeats calls without booking them (QuotaGuard.reserve,
   homepageDiscoverStage).  Only where several leases were lost and exclude_basic
   had to be repeated may an execution ask twice: an old exclusion that takes a
   company in again moves the others to a later page. *)
CallsArePaid ==
  /\ \A d \in 0 .. MaxDay : UsedOn(d) <= Cap
  /\ \A e, f \in ledger : e.key = f.key => e = f
  /\ \A k \in DOMAIN asked : asked[k] > 0 => Booked(k)
  /\ faults.expiries <= 1 \/ job["exclude_basic"].tries <= 1 =>
       \A k \in DOMAIN asked : asked[k] <= job["homepage_discover"].tries

(* Paging by offset over a set that finds shrink passes companies over, but
   never more than it finds (homepageDiscoverStage; one execution). *)
MissedOnlyBehindFinds ==
  faults.expiries = 0 => Cardinality(missed.never) <= Cardinality(missed.finds)

(* A candidate that cannot be normalized: its company has its domain already,
   under another URL. *)
Stuck(i) ==
  LET id == Find(buildDedupeKey(feed[i]))  url == canonicalizeUrl(feed[i].homepageUrl) IN
  /\ raw[i] = "pending" /\ url # None
  /\ \E s \in sites : SameDomain(s, id, url) /\ s.url # url

(* The four stages come to an end in spite of crashes, lost leases, refused
   calls and companies for which nothing is found; the one thing that holds
   them up for good is a candidate that cannot be normalized. *)
IntakeEnds ==
  <>(job["homepage_discover"].state = "succeeded" \/ \E i \in DOMAIN feed : Stuck(i))
=============================================================================
