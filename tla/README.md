# LeadOps: a TLA+ model

LeadOps collects companies from public registries, analyses their web presence,
scores them and lets reviewers approve a bounded number of leads a day. This
directory holds TLA+ modules of the whole way of a company, from the call that
starts a run to the last export of its lead, the TLC instances that check them,
and theorems about them that TLAPS checks for every value of the constants.

## 1. The system

    pg_cron / admin ──startRun──► runs, run_attempts, run_stages, jobs (PostgreSQL)
                                      ▲        ▲            ▲
                 cancel_run, retry_run│        │advance     │acquire / heartbeat / complete
       admin (API) ───────────────────┘        │Attempt     │
                                           worker processes ┘◄── pg_cron: reap_expired_jobs
                                               │ stage handlers: adapters, HTTP client
                                               ▼   (robots gate, rate limiter), quota
      candidates ─► companies ─► sites ─► observations ─► competitors, scores ─► review_items
                                                       │ decide_review_item, revoke_approval,
       reviewers (API) ────────────────────────────────┤ enter_contact_email
                                                       └─► leads, day totals, counters
                                                             │ export_leads, privacy requests
      review console (browser) ──gateway──► routes: lists, details, entries, decisions

| part | state it keeps | operations | what is hard about it |
|---|---|---|---|
| schedule, capacity, partitions (`0012`, `0015`, `pg_cron_schedule.sql`, `startRun`) | runs, partitions, size, the schedule's setting | cron and manual call, decision, maintenance, gate, insertion, cleanup | four transactions in a row, midnight in two time zones, calls that race or are lost |
| job queue (`0004_functions.sql`, `loop.ts`) | `jobs`: status, attempts, fence token, owner, lease | acquire, heartbeat, complete, reap | lease loss under a living worker, late and repeated calls, crashes, budgets |
| orchestration (`orchestrator.ts`, `0011_admin_rpcs.sql`) | runs, attempts, stage rows, jobs | startRun, advanceAttempt, cancel, retry | one read of the counts, then one statement after another; several processes at once |
| collect, normalize, exclude, discover (`stages/`, `quota.ts`) | raw candidates, companies, sites, cost ledger | one loop over pages each | repeated and overlapping executions; pages of a set that changes; a cap by day |
| home pages, contact pages, channels, search (`stages/`) | observations, contact pages, channels, aggregates | a pool of fetches; loops of calls | consumers that outlive their stage; what counts as done after a failure |
| rate limiter (`rateLimiter.ts`) | active slots, waiters, next slot per domain | acquire, release | hand-over of slots, release once |
| robots gate and HTTP client (`robotsGate.ts`, `client.ts`) | cache, fetches in flight | check, get | shared fetches, fail-closed, redirects and retries |
| competitors, scores, recommendations, shortlist (`stages/`, `scoring.ts`, ...) | competitors and their metrics, scores, items | five stages, replace_competitor | inputs that change between a page and its write; boundaries, floors of binary fractions |
| review and approval (`shortlist.ts`, `0004_functions.sql`) | review items, leads, day totals, counters, score validity | shortlist, decide, revoke | row locks in a fixed order, caps over days and runs, midnight, scores invalidated meanwhile |
| contact email (`0004`, `0010`, `0013`, `mx.ts`) | nonces, entry events, emails | issue nonce, enter, verify | nonce used once, a rate by advisory lock, rollback gives the nonce back |
| leads, export, contact basis (`0013_fix_setting_paths.sql`) | export counts, contact basis | set basis, export | gates seen on a snapshot, count re-checked per row |
| privacy (`0011`, `0012`) | requests, do_not_contact, deletions | create, advance, execute | against approvals and exports under way |
| review console (`store.tsx`, `app/today`, `routes/review.ts`) | the list, leads, drawer, selection, locks, notice of one tab | refresh, open, enter an address, approve, reject, reject in bulk | calls that overlap, answers that come late, in any order or not at all |
| API, adapters, core, other pages | none of their own | one RPC per route | access control, parsing, presentation |

What would be wrong if it failed: a result committed by a worker that no longer owns
the job; a job tried for ever or never again; a run reported finished over open or
dead jobs, or never finished; a weekday without a run for no reason; a candidate
lost between two executions of a stage; search calls nobody paid for; a page visited
against a robots.txt; a company ranked by another's numbers; more leads in a day
than the cap; counters that drift from the leads; a lead on an invalidated score;
reviewers that deadlock; an address entered twice, a lead exported once more than
allowed or after its owner objected; a screen that shows what the database does not
hold, or one company's address under another's name. `PROJECT.json` lists every
hazard at its line with the properties that cover it, or says why none does.

## 2. The modules

| module | models | abstracts from |
|---|---|---|
| `Schedule` | pg_cron's call, should_start_scheduled_run, startRun's transactions, partitions, the nightly cleanup | lengths of months; how much a cleanup frees |
| `JobLedger` | what the job table promises: bounded claims, one settlement each | workers, leases, tokens, time |
| `JobQueue` | the queue RPCs, the worker loop, delayed and lost calls, crashes | what a handler does |
| `RunPipeline` | startRun's insertion, enqueueStage, advanceAttempt statement by statement, cancel_run, retry_run | leases and lost calls (JobQueue's) |
| `IntakeRules` | names, keys of duplicates, groups, fingerprints, sizes, exclusion | text: a set of syllables |
| `SiteRules` (extends it) | whose a domain is, which site is official, contact pages, channels, evidence for a home page | HTML: what was extracted is given |
| `SearchRules` (extends it) | keywords, related and official results, ORS, activity of a channel | dates: ages in days |
| `ScoreRules` | weaknesses, three axes, gate, recommendations, quota of the shortlist | labels; points in hundredths |
| `Intake` (extends `SiteRules`) | collect, normalize, exclude_basic, homepage_discover, the quota | fetching |
| `Survey` (extends `SearchRules`) | homepage_detect, contact_pages, channel_analyze, search_analyze | the gate and the limiter (`Crawl`'s) |
| `RateLimiter` | acquire between its awaits, release | setCrawlDelay, which nothing calls |
| `Crawl` (extends `RateLimiter`) | the pool of the home page stage, the robots gate, client.get with redirects and retries | contents of pages and of robots.txt, address rules, lengths of back-offs |
| `Ranking` (extends `ScoreRules`) | competitor_select to shortlist, replace_competitor, suspensions and demotions meanwhile | how similarity is measured beyond its order |
| `Approval` | shortlist's insert, decide_review_item, revoke_approval lock by lock, score writes, retry_run's side of them | email verification, cooldown dates |
| `Leads` | nonces, contact-email requests, the look at the address in an approval, contact basis, exports, privacy requests | counters (`Approval`'s), attempts |
| `Console` | the store of the review console from await to await, its drawer, table, keys and dialog, and the requests as the server carries them out | filters, scores, fixture mode; how server transactions interleave (`Approval`'s, `Leads`') |
| `...Proofs` | the theorems, one module for each of `Schedule`, `JobQueue`, `RunPipeline`, `Intake`, `Ranking`, `Approval`, `Leads`, and `AwaitProofs` for `Crawl` (with `RateLimiter`), `Console` and `Survey` | |
| `MC...` | instances for TLC | |

`JobQueue` and `RunPipeline` both implement `JobLedger` (property
`ImplementsLedger` of each), which is what lets `RunPipeline` keep only the phase
and the number of claims, its fence, of a job: whatever the queue does with leases
and calls, its rows only take `JobLedger` steps. `Intake`, `Survey` and `Ranking`
are what `RunPipeline` calls a handler; what a crash or a failed statement means to
them is one step that cuts an execution off anywhere. A lost lease is another thing,
since the old execution goes on beside the new one: it is modelled in `JobQueue`,
`RunPipeline` (`reap`), `Intake` (`expire`) and, of `Survey`, in homepage_detect
(`detect_lost`). Of contact_pages, channel_analyze and search_analyze in `Survey`, and
of the five stages of `Ranking`, it is not: two executions of one of these never
overlap here.

**State and code.**

* `Schedule`: a moment is half a UTC day, so that in the second half it is
  tomorrow in Korea. `request[q].at` is the statement a call of `/internal/run` or
  `POST /api/runs` comes to next. `causes[d]` exists only for the property: why day
  `d` may have no run.
* `JobQueue`: `job[j]` is the row of `jobs`; `lease` and `wait` are
  `lease_expires_at` and `run_after` as countdowns moved by `tick`, so a lease is
  expired at -1 (`lease_expires_at < now()`). `worker[w].pc` says where `runOne`
  stands. A heartbeat or completion call is an element of `calls`: the database
  may execute it late, after its sender died, or never have its answer heard.
* `RunPipeline`: a process carries `todo`, the statements that `advanceAttempt` has
  computed from its one read of the counts and not sent yet, each with the place
  of its stage in the code's loop; `send` performs the one whose turn it is.
* `Intake`: a row of `raw_candidates`, `companies`, `websites`, `cost_ledger`
  each; `exec[w]` is what the handler on worker `w` holds: the rows of its page that
  are still to do, its offset and what it has read of the row at hand. `missed` and
  `asked` exist only for the properties.
* `Survey`: `pool[e]` is execution `e` of homepage_detect, of which consumers
  (`hands`) may be left after it failed; the other stages are at most one execution
  each, of which `search` holds the keywords and providers still to be asked.
* `RateLimiter`, `Crawl`: a step is the code between two awaits, since JavaScript
  runs one callback at a time; `nextIn[d]` is the time to `#nextAvailableAt`. An
  activity (`Clients`, the consumers of `pool`) is at the gate, in `client.get` for
  a robots.txt or a page, or waits for another's fetch; what happens to all who
  await one promise when it settles is one step (`Settle`). `cache` holds unexpired
  entries only, `inflight[d]` names the activity that fetches, and hosts stand for
  origins, rate limit keys and sites alike.
* `Ranking`: `rows[c, rank]` is a row of `competitors` with its `competitor_metrics`,
  or `Nobody`; `exec[s]` holds the page a stage has read. `touched` and `raced`
  remember whose inputs changed meanwhile, for the properties.
* `Approval`: a session's record says which row locks its transaction holds; taking
  one is a step, and the row is read then (READ COMMITTED); the writes and the
  commit are one step because nothing can see them in between. A transaction that
  raises an exception leaves no trace (`Rollback`).
* `Leads`: `entry[q].at` says between which of its statements a contact-email
  request stands, `export[x].rows` is the snapshot of an export's cursor and `held`
  the leads it has updated and not committed.

* `Console`: every asynchronous function of the store is a call, a record that says
  how far the tab is with it (`at`), how far the server (`server`), which ids are
  left (`left`) and were handled (`ok`). What a function does up to its first await
  is one action, each transaction of the server another, and what it does with the
  answer a third; a call the tab has given up is carried out all the same.
  `doubt`, `certified` and `promoted` exist only for the properties.

**What is deliberately nondeterministic.** How an HTTP hop ends (answer, redirect
to any host, time-out, refusal), what a robots.txt says, what a source, a page, a
feed or a search returns (out of a given set); whether a handler succeeds; how long
anything takes; when a lease runs out; which of equally similar companies is taken;
which partition is locked; how much a cleanup frees; whether `current_date` is the
day before when a transaction began before midnight.

## 3. What is checked

| run | instance | shows |
|---|---|---|
| `schedule` | Saturday to Tuesday over a month's end, 2 calls at a time, 2 tables, 2 runs, 2 events | `RunsHavePartitions`, `EachWeekdayHasItsRun` |
| `queue` | 1 job, 2 workers, 2 attempts, lease 1, 2 crashes or lost answers, fairness | `LatestTokenIsTheOwners`: fencing; `ClaimsEndByReportOrExpiry`; `EveryJobSettles`; the refinement |
| `run` | 3 stages of which one waits for two, 2 workers, 1 company, 2 attempts of the run, one of each job, a handler that throws or a crash, cancellation, retries, fairness | `StageOpensAfterDeps`, `VerdictIsTrue`; `CancelledForGood`, `RetiredScoresStayOut` across attempts; `RunFinishes` |
| `run_rows` | the same stages, 2 collect jobs, 2 workers, no failure | a violation: section 4 |
| `intake` | 3 feeds of 3 candidates (duplicates, two sites, a closed, a malformed one) and a company of an earlier run, 2 workers, a search adapter or none, pages of 1, cap 2, a crash, a lost lease, a midnight, fairness | `DoneRowsAreStored`, `ExclusionIsCurrent`, `CallsArePaid`, `MissedOnlyBehindFinds`, `IntakeEnds` |
| `survey` | 2 companies with a site each, whose pages may be one body; a pool of 2, 2 executions of it, one cut (a failed write, a lost lease or a crash), a failed call, quota 5 | `GateHolds`, `MissingSharesHaveCauses` |
| `crawl` | 3 activities, 2 slots, 2 hosts, 3 rows of one host, interval 1, one retry of robots.txt, one redirect, one faulty hop, one expiry per host, fairness | `SlotsAreCounted`, `StartsAreSpaced`, `RobotsAskedOnce`, `PagesAreAllowed`, `EveryRowObserved` |
| `ranking` | 3 companies of 2 industries to score among 6, 2 competitors each, shortlist of 2, 2 events, one item left open by an earlier attempt, fairness | `UnracedPeersAreMeasured`, `GateIsEarned`, `ShortlistHolds`, `RankingEnds` |
| `approval` | 4 companies of 3 industries, cap 2, quota 1, 2 reviewers, 2 attempts, 2 days | `CountersMatchLeads`, `CapsHold`, `ApprovedHaveLeads`, `LeadsRestOnValidScores`, `ReviewersNeverDeadlock` |
| `leads` | 1 company, 1 reviewer with 2 requests and 2 nonces, 2 exports, 1 privacy request, rate and cap 1, 2 moments | `EntriesSpendNonces`, `EntriesAreRated`, `ExportCapHolds`, `SuspendedNeverLeaves` |
| `console` | 2 companies, the address of one known, the page's first refresh and 2 more calls, 1 nonce | `ScreenNeverAhead`, `UnracedScreenIsCurrent`, `QuietMeansUnlocked` |
| `leads_deletion` | as `leads` | a violation: section 4 |

**Bounds.** `schedule`: two calls are the cron one and one that races with it; the
four days have a weekend, the first Korean weekday after it, a month's end (months of
two days) and a partition that expires (no retention); two events are a lost or a
repeated call and a locked partition, a full database or a switched setting. `queue`:
jobs do not interact except by their order, so one is enough for the properties of a
claim; two workers give an owner and a zombie, two attempts a repeated and a last
one, two crashes one for each. `run`: the graph is the smallest in which one stage
waits for two, the shape of the joins of the registry's thirteen stages. A job has
one attempt, so the handler that throws makes it dead and the `failed` verdict occurs,
and so does a crash, behind which the reaper comes; one of the two happens, before or
after a retry (`MaxFaults`). `JobQueue` has repeated attempts. The second attempt of the run is one retry, after the scoring of the first or during
it. A claim is taken from dead workers only (`LeasesHold`) and a worker polls when
startRun is over (`QuickStart`); the theorems of section 5 ask for neither. `run_rows`
has two collect jobs so that two workers can be in `advanceAttempt` for one stage.
`intake`: a duplicate gives two candidates
that write one company, a page of one row makes every boundary between pages, cap 2
is used up by one company's two searches, three attempts outlast one crash and one
lost lease. `survey`: two sites are the limit of sites that may share a body (given
as 2; the code has 3), two executions are one that fails or loses its lease and the
next, beside which what is left of the first goes on writing; five calls run out within the second company. `crawl`: the
third activity finds both slots taken, so slots are handed over; all three ask for
one host, so two join the fetch of the first and two sleep for the domain's interval
at once; the second host is reached by the redirect, and its robots.txt by the script
redirect of the page found there. `ranking`: a second company of an industry meets
the quota, the third the cap; two events are a replacement and a suspension, a cut or
a demotion, so that one happens between a page and its write and another after it.
`approval`: the third lead of a day meets the cap and the second of an industry the
quota; three score writes are enough to reach either and to score a company again
after a retry. `console`: the first refresh and one more overlap around a decision,
or two decisions (one that is repeated, or one of each kind on the same item, or a
bulk one) follow it; two items are what a drawer that moves and a bulk rejection that
is refused in part need. A selection or dialog no call is left for is not opened
(`CallLeft`). `leads`: at rate, cap and lifetime 1 every second request, export and
moment is one too many. `MaxCrashes`, `MaxFailures`, `MaxExpiries`, `MaxEvents`,
`MaxFaults`, `MaxFailed`, `MaxUpserts`, `MaxDays`, `MaxDay`, `MaxTime`, `MaxRuns`,
`LastMoment`, `MaxCalls` and `MaxNonces` only bound counters. A shortlist stage that
runs again after its success (`Reruns` in `Approval`) is off in its instance, allowed
by its theorems, and part of `Ranking`.

**Deadlock checking** is off in all of them: bounded runs stop, a settled queue and
a finished stage have nothing to do, and a run that never finishes is the subject
of a property.

**Fairness.** `JobQueue`: time passes and pg_cron calls the reaper every minute
(`deploy/pg_cron_schedule.sql:104`); the database executes calls it has received and
a broken connection is noticed; every fetch in a handler has a timeout, so a handler
returns; a supervisor restarts the process. Heartbeats need no fairness.
`RunPipeline`: as long as a live process has something to do, or the reaper a dead
one's claim to take, something of it is done (`Progress`). `Intake`, `Ranking`: a stage that runs goes on,
and a free worker polls for jobs. `Crawl`: timers fire, and every hop ends, if only
by `totalTimeoutMs`; an activity whose promise is settled, or whose slot is free,
goes on. None of it says that an administrator or a reviewer acts, how a hop ends,
that an entry expires, or that the clock outruns anything. `Schedule`, `Survey`,
`Approval`, `Leads` and `Console` state none: what must come there is stated of
states (a weekday that is over has its run).

## 4. Where the code does not do what its text says

Two runs are counterexamples; the quotations are in `PROJECT.json`.

`run_rows`. `orchestrator.ts:160` says that `advanceAttempt` may be called by several
workers at a time. It writes each row of `run_stages` from counts it has read before
(`orchestrator.ts:183`), whatever is in it by now: of two workers, the one that read
when a stage still had a job to go may write last, and leaves `running` under a run
that the other has finished. Nothing writes the row again.

`leads_deletion`. Executing a deletion removes rows of
`emails` that `leads.email_id` still references, so the whole transaction is rolled
back, the block of contact with it, which
`0012_ops_privacy_capacity.sql:177` says must hold even then.

The models show further behaviours that a reader of the code should know. Those that
stop something are written into the properties as the only exceptions they allow
(`Derailed` in `RunPipeline`, `Stuck` in `Intake` and `Ranking`, `late` in `Survey`,
`touched` and `raced` in `Ranking`, `doubt` in `Console`) or excluded by the constants of an instance, as
named here.

*Queue and runs*

* A worker that lost its lease runs its handler to the end: a refused heartbeat is
  only logged (`loop.ts:195`), and only `complete_job` is fenced, not what the
  handler writes.
* A stage whose dependencies all failed is marked `skipped` but never gets a job,
  and the closing test asks for `total > 0` (`orchestrator.ts:236`): the run stays
  `running`. So does a run whose worker dies between `complete_job` and
  `advanceAttempt` on the last job of a stage, or whose last job the reaper made dead,
  and an attempt started from a later stage, whose earlier stages have no jobs.
  `RunFinishes` excepts these (`Derailed`) and nothing else.
* `retry_run` invalidates the rows of `scores` that are there
  (`0011_admin_rpcs.sql:149`), so that no stale score is approved meanwhile. If the
  attempt it retires is still scoring, or still to score, the rows it inserts
  afterwards are valid, and stay so: `score.ts:276` sets no `invalidated_at`.
  `RetiredScoresStayOut` is therefore about attempts whose scoring was over.
* A job that runs when its run is cancelled completes normally, and its worker opens
  the next stages. The run's own status stays (`CancelledForGood`).
* With two industries, a worker that finishes the first collect job before
  `startRun` has inserted the second opens `normalize` early (`QuickStart` and one
  industry exclude it).
* A process that dies between a scheduled run's insertion and its first jobs uses
  up the day: no later call starts another (a cause in `EachWeekdayHasItsRun`). So
  does one that dies between two of the collect jobs, which are inserted one by one;
  in `Schedule` a run has its jobs when the last of them is in. A
  manual run is dated by UTC, a scheduled one by Korea.

*Stages*

* `normalize.ts:157` names `(company_id, canonical_url)` in its on-conflict clause,
  but `websites` has a second unique key, `(company_id, domain)`: a company's second
  URL of one domain aborts the candidate's transaction at every retry, and the
  stage with it.
* `homepageDiscover.ts:146` pages by offset over a set that its own finds shrink, so
  it passes companies over, at most as many as it finds.
* A retried search call is granted by its entry key and not counted again
  (`quota.ts:90`), so calls may exceed the cap by the number of retries.
* `search.ts:76` counts a company as searched once it has one aggregate: what a
  failed call or a cut left out is never made up for. A company all of whose calls
  fail is selected again at once, as long as they fail.
* Without a district the key of a duplicate has the province as the source writes it
  (`pipeline/src/normalize.ts:113`), not its canonical name: one company under two
  spellings of a province is two.
* When one write of a pool fails, the stage fails, but the other consumers go on; so
  does a whole execution that has lost its lease. A site they write after
  contact_pages has begun may keep a status that contact_pages had taken from it, and
  contact pages with it. `GateHolds` leaves such sites out (`late`) and says that no
  other site suffers.
* `competitor_select` handles conflicts on the rank only; the same peer at two ranks
  (after a replacement) is refused at every retry. An analysis that holds a page
  while a competitor on it is replaced stores the old one's numbers as the new one's.
* `score` does not wait for `contact_pages`, which may still demote a site. A failed
  feed counts as a weakness of the channel.
* `shortlist` ranks by total and never removes what an earlier execution listed. A
  pending item of an earlier attempt collides with the new one on the partial unique
  key `(run_id, company_id)`, which its on-conflict clause does not name: the stage
  fails until someone decides the old item.

*Review, leads and privacy*

* The lead's foreign key takes a key-share lock on the run, outside the documented
  lock order; against `retry_run` this is a circular wait that PostgreSQL breaks by
  aborting one transaction. No data is harmed. (`ReviewersNeverDeadlock` is about
  reviewers.)
* `enter_contact_email` and `decide_review_item` do not look at `do_not_contact`;
  only the export does (`SuspendedNeverLeaves`). `advance_privacy_request` may close
  a deletion that was never executed.
* `set_profile_role` counts administrators without a lock: two who demote
  themselves at once leave none. Not modelled.

*Console*

* Refreshes are not numbered or cancelled (`store.tsx:270`). When two are out, the
  list read before an approval may be applied last: the approved item is in the
  queue again and its lead is missing, though every call succeeded, and nothing
  reads it again by itself. `doubt` excepts this from `UnracedScreenIsCurrent`.
* Each refresh that succeeds clears the notice (`store.tsx:284`). Neither the table
  nor the keys wait for `busy`, so the refresh of a decision that was out beside a
  bulk rejection removes the notice of its partial failure (`store.tsx:423`).
* `busy` is one slot: the end of any decision, entry or bulk call unlocks the
  buttons of the others. Only a lock that stays is excluded (`QuietMeansUnlocked`).
* The selection is cleared after a bulk rejection only: an item rejected alone, or
  approved, stays selected and is sent with the next bulk rejection, which reports
  it as not handled.
* When the process dies between the two transactions of contact-email, the nonce is
  spent and the address stored without a verification; the reviewer sees an error
  and enters it again under the nonce of a new detail.
* The drawer shows no form until a detail has come, and j, k and e move it without
  asking for one.

## 5. What is proved

Each theorem is for every value of the constants that satisfies the modules' named
ASSUMEs: shapes of the constants, positive limits, finite sets where cardinalities
are taken. All rest on an inductive invariant `IInv` of their module with three
facts (it holds initially, every step keeps it, it implies the property) and one
lemma per action.

`ScheduleProofs`: `ScheduleTypes`, `PartitionsAreThere`, `EveryWeekdayRuns`. Neither
property is inductive. For the partitions, `CallsFit` says of a call what midnight
leaves of its preparations: a decided call is for Korea's today, or for UTC's if
it was made in the moment before; once maintenance has run, this month's
partition is there, and the next one's unless the call is old. Months may have any
length: a day later it is the same month or the next (`NextMonth`). For the runs,
`DaysInv` follows a day from hand to hand: the night does not end before pg_cron has
called, what it found is decided at once, and from then on the day is carried by a
call, held by a run's last call, by its run with jobs, or by a note of the loss.

`JobQueueProofs`, for any jobs, workers, attempt limit, lease and back-off:
`TypeCorrect`, `Fencing`, `Budget`, `TokensAreOfThePast`: alone the fencing property
is not inductive, since a call that carries the latest token of a job could come
from anyone unless every token was issued before and a worker in the middle of
`runOne` has a job. `AnsweredClaimsAreOver` uses them: were a refused call's token
still the fence, its sender would own the row, and the call not be refused. (No run
checks it; `ClaimsEndByReportOrExpiry` and the refinement say more.)
`ClaimsEnd`: a running claim ends only by its own holder's report or by expiry.
`QueueImplementsLedger`: every step is a `JobLedger` step or leaves the row's phase
and claims alone.

`RunPipelineProofs`, for any stage graph, workers and bounds: `RunTypes`,
`RunImplementsLedger` (no run checks it again), `CancellationHolds` and
`RetirementHolds` rest on an invariant that says only that a waiting job has a
claim left and that nothing exists of an attempt to come; which statements a process
has still to send is left open. For the last of them, scoring that is over stays over,
whatever a late process still sends (`OverForGood`): no job of it comes to exist, none
is given back, and nobody comes to be at one but by a claim (`NobodyComes`); and the
attempt a retry ends has no valid score (`RetryRetires`). Of an attempt whose scoring
still runs when it is retried nothing is claimed: its late rows are valid (section 4). `StagesOpenInOrder` and `VerdictsAreTrue` need to
know them: `Opening` says that a statement about to insert jobs of a stage, and every
stage that has jobs, has its dependencies over, and that a closing update about to be
sent carries a verdict that is true by now. Both outlast their reading of the counts
because a settled job stays settled and a stage that is over has all its jobs. Of
`collect`, which gets a job for each industry, the latter holds only with one
industry or an uninterrupted startRun; the properties say so (`CollectIsWhole`).

`IntakeProofs`, for any feed, history, workers, page size, cap, crashes, lost leases
and midnights; the hypotheses are that names are different, that companies of
earlier runs have the columns of the table and different `dedupe_key`s (its unique
index), and that the limits are those `excludeSettingsFrom` accepts. `TypesHold`
includes who owns a job. `DoneRowsStored` needs that a row is marked in the
transaction that stores it and that no one takes the company away. `FeedIsTakenIn`
lifts that to stages: behind a succeeded stage no row waits, although an execution
that lost its lease may still be at work (`FeedInv`). `ExclusionHolds` follows a
page: what is behind it is judged, what is on it will be, and no company turns up
behind it, since all exist by then. The property is about executions that keep their
lease; the invariant also covers one excluder that went on without it (`Calm`),
because the next theorem meets that one. `CallsArePaid` comes in two parts.
`CallsAreBooked` (caps, one booking for each entry, no call before it) is about
every step. `CallsPaid` bounds the calls of an entry by the executions of the stage:
companies to ask about only become fewer while a discovery runs (`TargetsShrink`),
so a page at an offset never brings one execution back to a company (`AskInv`). The
bound is stated of at most one lost lease or one execution of the exclusion: after
two, an excluder of old may take a company in again behind a discovery, and shift
its pages. `MissedBehindFinds` is the other side, that what an offset passes over
has been taken off the set (`MissInv`). Cardinalities of pages and of what is left
are compared by `FiniteSetTheorems`.

`RankingProofs`, for any companies, ranks, observations, replacements and targets:
`TypesHold`, `PeersAreMeasured`, `GateEarned`, `ShortlistKept`. A row flagged valid
has the metrics of the company it is, unless it was replaced under a running analysis
(`raced`): `AnalyzeInv` says that the rows a page has still to do name the peers it
read and have no metrics, or on the row at hand the metrics the flag will go with.
`GateInv` says the same of `score`: of a company whose inputs have not been changed
(`touched`, `raced`) what it has gathered is what is still there, and if no gate
failed it is official, may be contacted and has two measured competitors.

`ShortlistKept` is about executions that a crash cuts off after their transaction and
that are repeated when others have been suspended: nothing removes the items of the
earlier one. Its invariant, `ListInv`, says that whoever is listed and may be
contacted is among those a shortlist made now would name, and so is whoever is on a
list that was made and not yet stored; cap and quota follow at once. It is inductive
because of `OthersStayBest`: take a candidate away, and the others that found room
find it still. That is not plain with two limits, since a company that the quota had
kept out may come in and use up room in all; but before each of the others one comes
in at most, in the place of the one who left and of his industry. The list itself is
described without its recursion (`Best`: a company is named when there is room above
it and its industry has room above it; `ListIsBest`), which needs that the order of
the ranking is one, hence that totals are numbers: sums of points over the items of
three axes (`PointsAreNumbers`), of which one is a mean of what was completed
(`CompleteIsNumber`).

The hypotheses are that an observation has a status and finitely many channels, that
the null value is no company, status or boolean, that an industry's points are a
natural number, and that the cap and the two terms of the share are
(`NumbersAssumption`): the seed has 100 and 0.6 (`0006_seed.sql:9`), though
`targetSettingsFrom` would accept a cap that is not whole.

`ApprovalProofs`, for any runs, companies, industries, reviewers, caps and
quotas: `ApprovalTypes`, `Counters`, `Caps`, `OneLead`, `NoCircularWait` and
`ValidScores`. The inductive invariant adds what a transaction knows under its
locks (`DecisionStands`, `RevocationStands`): the item it locked is still pending,
the score it locked still valid, the total it read still below the cap, because
every writer needs the same locks; that two transactions hold neither one item
nor one day (`DistinctItems`, `DistinctDays`); and that a company has one pending
item per run (`OneOpenItem`, the partial unique index), without which two
approvals of one company could both pass the check for an existing lead.

`LeadsProofs`, for any companies, reviewers, requests, exports, rates and caps:
`LeadsTypes`, `NoncesAreSpentOnce`, `RateIsKept`, `CapIsKept`,
`SuspensionIsForGood`. The invariant says what a transaction holds before it
commits: a nonce that is live and nobody else's (`NoncesAreHeld`), under the
advisory lock room for one more entry (`RoomIsHeld`), a lead below the cap that one
export has updated (`HeldBelowCap`).

`AwaitProofs` has three parts. Of `Crawl`, for any number of activities, slots,
hosts and rows and any limits: `LimiterIsSafe` of the limiter alone, then
`Slotted`, `Spaced`, `SharedFetch`, `AskedOnce` and `FailClosed` of the pool that
uses it. The limiter's invariant is carried over unchanged, because every step of
the pool is a step of the limiter or leaves it alone (`LimiterPart`). That
robots.txt is asked for once is not inductive: the invariant says where each call
went (`AskedIsAccountedFor`), to the fetch in flight, the entry present, or one
that expired. `StartsAreSpaced` is inductive because it also says that `nextIn`
lies an interval behind every reserved start.

Of `Console`, for any items, addresses, calls and nonces: `ConsoleTyped`,
`QuietIsUnlocked`, `ScreenIsNeverAhead` and `UnracedScreenStaysCurrent`. That no lock
stays needs only its owner: while `busy` or `loading` is set some call is out that
will clear it (`LocksHaveOwners`). That the screen is never ahead of the database
(`NeverAheadInv`) has to be said of everything on its way to the screen, the list,
the leads and the detail in an answer as well as the address a verification is about,
and it stays true of an answer that comes late because what it is measured by only
grows (`Grows`, `BackedStays`). That what was decided has left the queue
(`CurrentInv`) follows a refresh that nothing overlaps (`alone`): what it has read
was read after every decision the reviewer had been told of, and when such a refresh
has come through, the screen says what it read.

Of `Survey`, for any companies, sites, findings, consumers, executions, cuts, failed
calls and quotas: `GateKeepsStrangersOut` and `MissingSharesAreExplained`. `Gate`
goes along contact_pages statement by statement: after homepage_detect every site is
observed, after the demotion no body is that of too many sites, after the gate no
contact page belongs to a site that was rejected. It says so of the sites outside
`late`. Consumers of executions that failed or lost their lease go on through all of
this; once contact_pages has begun, such a consumer puts the site it writes into
`late`, which takes at most that site from those that share a body and adds none to
them (`GateWrite`), so that the others keep what they have (`OwnBody`). That
contact_pages begins only after every site has an observation needs that at most one
execution holds the lease (`PoolsRest`): one that lost it completes nothing. `SharesInv` counts: there is a set
of companies, at most one for each cut and each refusal of the quota, outside which
no more aggregates are missing than calls have failed. Missing are those of companies
that have a row and are not asked about again, and of the company in hand those that
will not come any more (`Gap`); so a gap is only ever made at the company in hand.
The hypotheses are finite sets, sites of companies that exist, and that the null
value is no row (`DataAssumption`, `RowAssumption`).

**Only model-checked.** The five properties that need fairness (`EveryJobSettles`,
`RunFinishes`, `EveryRowObserved`, `IntakeEnds`, `RankingEnds`), which the prover
does not reach. What the rules of names, sites, searches and scores compute is used
as far as the theorems need it; beyond that they are defined, not compared with
anything: a sum or a recursion over data is an induction for which none of the
provers takes the library's theorem (where one was needed, the least counterexample
stands in for it: `SumsExist`, `TakesExist`).

## 6. What is not modelled

* Parsing: HTML, feeds, API responses, robots.txt, addresses, and the limits on a
  body's size. What they extract or allow is an input of the models.
* Source adapters, logging, redaction, configuration: requests and formatting, no
  state over time.
* Access control: policies, grants, sessions and tokens. The routes that do more
  than one RPC (contact-email, `POST /api/runs`, `/internal/run`) are in `Leads` and
  `Schedule`.
* `privacy_access_report` and the reports of the API, which only read; the text of
  labels, reasons and messages.
* The pages of the UI other than the review console, the measuring tool and the
  end-to-end harness.
* `set_profile_role`, one statement after an unlocked count.

Composition ends where a part sees another only through what this directory proves or
checks of it: `Approval` and `Leads` meet in a lead's insertion, `Survey` and `Crawl`
in what a visit returns, the stages and `RunPipeline` in a job that succeeds or is
repeated, `Console` and the reviewers of `Approval` and `Leads` in a request that is
carried out once, later, or not at all. Every safety property that a passing run
checks is also a theorem. What could come next lies outside the modules: the rows a grant
or policy lets a caller see, and the review console's replacement of a competitor.
