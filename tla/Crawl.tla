------------------------------- MODULE Crawl -------------------------------
(***************************************************************************)
(* A stage's pool of fetching activities (pool and inspect in              *)
(* packages/pipeline/src/stages/homepage.ts) on the robots gate            *)
(* (packages/http/src/robotsGate.ts) and the HTTP client (client.ts), which *)
(* sends every request, a robots.txt included, through one RateLimiter.    *)
(*                                                                         *)
(* A client takes a site, asks the gate for its home page, fetches it, and *)
(* may then follow a script redirect to one more page (the shell) of the   *)
(* site it ended at, which the gate is asked for again.  client.get         *)
(* follows HTTP redirects, a slot per hop, and retries from the first hop. *)
(*                                                                         *)
(* Sites are named by their host: origin and rate limit key are one.  Crawl *)
(* delays and back-offs are not timed: a client may take the next step      *)
(* whenever it likes.                                                      *)
(***************************************************************************)
EXTENDS RateLimiter

CONSTANTS
  Batch,          \* the rows of one query: the hosts of their canonical_url
  RuleSets,       \* the page sets that the robots.txt files allow
  Nobody,         \* no fetch in flight
  Unknown,        \* no fresh cache entry
  MaxRetries,     \* HTTP_MAX_RETRIES
  RobotsRetries,  \* maxRetries of the gate's own call
  MaxRedirects,   \* HTTP_MAX_REDIRECTS
  MaxExpiries,    \* bound: how often a cache entry of a host expires
  MaxFaults       \* bound: redirected or failed hops in a behaviour

Pages == {"home", "shell"}

(* What a fetch of robots.txt ends with: rules that allow some of the pages,
   no robots.txt (404, 410 or another 4xx), or nothing to judge by (5xx, a
   network error, a body cut off). *)
Replies == [kind : {"rules"}, allows : RuleSets]
             \cup [kind : {"absent", "failed"}, allows : {{}}]
Failed  == [kind |-> "failed", allows |-> {}]

ASSUME BatchAssumption == Batch \in Seq(Domains)
ASSUME RulesAssumption == RuleSets \subseteq SUBSET Pages
ASSUME NamesAssumption == Nobody \notin Clients /\ Unknown \notin Replies
ASSUME LimitsAssumption ==
  {MaxRetries, RobotsRetries, MaxRedirects, MaxExpiries, MaxFaults} \subseteq Nat

VARIABLES
  fetch,     \* fetch[c]: where client c stands in inspect
  cache,     \* #cache: the unexpired entry of a host
  inflight,  \* #inflight: the client whose fetch of the host's robots.txt runs
  cursor,    \* position of the next row of the batch
  asked,     \* how often robots.txt of a host was asked for (client.get calls)
  expired,   \* how often an entry of a host expired
  faults     \* how many hops were redirected or failed

crawlVars == <<fetch, cache, inflight, cursor, asked, expired, faults>>
vars == <<limiterVars, crawlVars>>

(* idle: no row; check: about to call gate.check for a
   second page; joined: awaits the fetch of
   another client; robots, page: inside client.get, between two hops or in one
   (then slot[c] is not free). *)
FetchState == [ pc      : {"idle", "check", "joined", "robots", "page"},
                page    : Pages,
                site    : Domains,   \* host of the page asked for
                at      : Domains,   \* host of the present hop
                hop     : 0 .. MaxRedirects,
                attempt : Nat ]

Idle == [ pc |-> "idle", page |-> "home",
          site |-> CHOOSE d \in Domains : TRUE, at |-> CHOOSE d \in Domains : TRUE,
          hop |-> 0, attempt |-> 0 ]

TypeOK ==
  /\ LimiterTypeOK
  /\ fetch \in [Clients -> FetchState]
  /\ cache \in [Domains -> Replies \cup {Unknown}]
  /\ inflight \in [Domains -> Clients \cup {Nobody}]
  /\ cursor \in 1 .. (Len(Batch) + 1)
  /\ asked \in [Domains -> Nat]
  /\ expired \in [Domains -> 0 .. MaxExpiries]
  /\ faults \in 0 .. MaxFaults

Init ==
  /\ LimiterInit
  /\ fetch = [c \in Clients |-> Idle]
  /\ cache = [d \in Domains |-> Unknown]
  /\ inflight = [d \in Domains |-> Nobody]
  /\ cursor = 1
  /\ asked = [d \in Domains |-> 0]
  /\ expired = [d \in Domains |-> 0]
  /\ faults = 0

-----------------------------------------------------------------------------
(* decideFromCache. *)
Allowed(reply, page) ==
  \/ reply.kind = "rules" /\ page \in reply.allows
  \/ reply.kind = "absent"

(* client.get of a page or a robots.txt begins, or begins again. *)
Begin(f, pc, attempt) ==
  [f EXCEPT !.pc = pc, !.at = f.site, !.hop = 0, !.attempt = attempt]

(* inspect goes on with the gate's decision: the page is fetched, or what is
   known of the row by then is recorded and the activity free. *)
Decided(f, reply) == IF Allowed(reply, f.page) THEN Begin(f, "page", 0) ELSE Idle

(* #entryFor: the client, which f says will stand at the gate, finds a fresh
   entry, joins a fetch under way, or starts one. *)
EntryFor(c, f) ==
  LET d == f.site IN
  \/ /\ cache[d] # Unknown
     /\ fetch' = [fetch EXCEPT ![c] = Decided(f, cache[d])]
     /\ UNCHANGED <<inflight, asked>>
  \/ /\ cache[d] = Unknown
     /\ inflight[d] # Nobody
     /\ fetch' = [fetch EXCEPT ![c] = [f EXCEPT !.pc = "joined"]]
     /\ UNCHANGED <<inflight, asked>>
  \/ /\ cache[d] = Unknown
     /\ inflight[d] = Nobody
     /\ fetch' = [fetch EXCEPT ![c] = Begin(f, "robots", 0)]
     /\ inflight' = [inflight EXCEPT ![d] = c]
     /\ asked' = [asked EXCEPT ![d] = @ + 1]

(* pool: an activity takes the next row, and is at the gate before its first
   await. *)
take(c) ==
  /\ fetch[c].pc = "idle"
  /\ cursor <= Len(Batch)
  /\ EntryFor(c, [Idle EXCEPT !.site = Batch[cursor]])
  /\ cursor' = cursor + 1
  /\ UNCHANGED <<limiterVars, cache, expired, faults>>

(* inspect, once more at the gate for the page its first page leads to. *)
follow(c) ==
  /\ fetch[c].pc = "check"
  /\ EntryFor(c, fetch[c])
  /\ UNCHANGED <<limiterVars, cache, cursor, expired, faults>>

Told(c, d, reply) ==
  [o \in Clients |->
     IF o = c \/ (fetch[o].pc = "joined" /\ fetch[o].site = d)
       THEN Decided(fetch[o], reply) ELSE fetch[o]]

(* A faulty variant: failures are not cached. *)
SettleUncached(c, reply) ==
  LET d == fetch[c].site IN
  /\ cache' = [cache EXCEPT ![d] = IF reply = Failed THEN Unknown ELSE reply]
  /\ inflight' = [inflight EXCEPT ![d] = Nobody]
  /\ fetch' = Told(c, d, reply)
  /\ UNCHANGED <<cursor, asked, expired>>

(* A faulty variant: one promise for all hosts. *)
SettleForAll(c, reply) ==
  LET d == fetch[c].site IN
  /\ cache' = [cache EXCEPT ![d] = reply]
  /\ inflight' = [inflight EXCEPT ![d] = Nobody]
  /\ fetch' = [o \in Clients |->
       IF o = c \/ fetch[o].pc = "joined" THEN Decided(fetch[o], reply) ELSE fetch[o]]
  /\ UNCHANGED <<cursor, asked, expired>>

(* #entryFor's task ends: the entry, a failure too, is cached, the promise is
   no longer in flight, and all that awaited it learn the decision. *)
Settle(c, reply) ==
  LET d == fetch[c].site IN
  /\ cache' = [cache EXCEPT ![d] = reply]
  /\ inflight' = [inflight EXCEPT ![d] = Nobody]
  /\ fetch' = Told(c, d, reply)
  /\ UNCHANGED <<cursor, asked, expired>>

(* inspect is through with its row, one way or another: persist. *)
Record(c) ==
  /\ fetch' = [fetch EXCEPT ![c] = Idle]
  /\ UNCHANGED <<cache, inflight, cursor, asked, expired>>

(* client.get gives up: fail-closed at the gate, an unavailable page (or the
   home page's verdict, if it was the second) otherwise. *)
Fail(c) ==
  \/ fetch[c].pc = "robots" /\ Settle(c, Failed)
  \/ fetch[c].pc = "page" /\ Record(c)

RetriesOf(c) == IF fetch[c].pc = "robots" THEN RobotsRetries ELSE MaxRetries

Fault == faults < MaxFaults /\ faults' = faults + 1

(* #getOnce: a slot for the next hop. *)
hop(c) ==
  /\ fetch[c].pc \in {"robots", "page"}
  /\ acquire(c, fetch[c].at)
  /\ UNCHANGED crawlVars

(* The answer is a redirect; the slot is given back before the next hop asks
   for one of its own.  The gate is not asked for the new host. *)
redirected(c, d) ==
  /\ fetch[c].hop < MaxRedirects
  /\ Fault
  /\ release(c)
  /\ fetch' = [fetch EXCEPT ![c].hop = @ + 1, ![c].at = d]
  /\ UNCHANGED <<cache, inflight, cursor, asked, expired>>

(* A time-out, a broken connection, a 5xx of a page: again, or given up. *)
fails(c) ==
  /\ Fault
  /\ release(c)
  /\ \/ /\ fetch[c].attempt < RetriesOf(c)
        /\ fetch' = [fetch EXCEPT ![c] = Begin(@, @.pc, @.attempt + 1)]
        /\ UNCHANGED <<cache, inflight, cursor, asked, expired>>
     \/ /\ fetch[c].attempt >= RetriesOf(c)
        /\ Fail(c)

(* #getOnce before it asks for a slot: an address that validateUrl or
   resolveGuarded refuses, which is not retried. *)
blocked(c) ==
  /\ fetch[c].pc \in {"robots", "page"}
  /\ slot[c].at = "free"
  /\ Fault
  /\ Fail(c)
  /\ UNCHANGED limiterVars

(* One redirect too many, a content type not allowed, a status that is not
   retried. *)
rejected(c) == Fault /\ release(c) /\ Fail(c)

(* A robots.txt, or an error status in its place, which allowErrorStatuses
   hands over like an answer. *)
answered_robots(c, reply) ==
  /\ fetch[c].pc = "robots"
  /\ release(c)
  /\ Settle(c, reply)
  /\ UNCHANGED faults

(* The page: judged as it is, or a shell of the same host to look at first. *)
answered_page(c) ==
  /\ fetch[c].pc = "page"
  /\ release(c)
  /\ \/ Record(c)
     \/ /\ fetch[c].page = "home"
        /\ fetch' = [fetch EXCEPT ![c].pc = "check", ![c].page = "shell", ![c].site = fetch[c].at]
        /\ UNCHANGED <<cache, inflight, cursor, asked, expired>>
  /\ UNCHANGED faults

(* The 24 hours of an entry are over. *)
expire(d) ==
  /\ cache[d] # Unknown
  /\ expired[d] < MaxExpiries
  /\ cache' = [cache EXCEPT ![d] = Unknown]
  /\ expired' = [expired EXCEPT ![d] = @ + 1]
  /\ UNCHANGED <<limiterVars, fetch, inflight, cursor, asked, faults>>

Limiter(c) == (reserve(c) \/ awake(c)) /\ UNCHANGED crawlVars
Clock == tick /\ UNCHANGED crawlVars

(* The hop that holds the slot ends in one way or another. *)
Ends(c) ==
  \/ \E d \in Domains : redirected(c, d)
  \/ fails(c)
  \/ rejected(c)
  \/ \E reply \in Replies : answered_robots(c, reply)
  \/ answered_page(c)

Next ==
  \/ \E c \in Clients :
       \/ take(c)
       \/ follow(c)
       \/ hop(c)
       \/ blocked(c)
       \/ Limiter(c)
       \/ Ends(c)
  \/ \E d \in Domains : expire(d)
  \/ Clock

Spec == Init /\ [][Next]_vars

(* Timers fire and every hop ends, if only by its deadline; an activity whose
   promise is settled goes on. *)
Fairness ==
  /\ \A c \in Clients :
       /\ WF_vars(take(c))
       /\ WF_vars(follow(c))
       /\ WF_vars(hop(c))
       /\ WF_vars(Limiter(c))
       /\ WF_vars(Ends(c))
  /\ WF_vars(Clock)

FairSpec == Spec /\ Fairness

-----------------------------------------------------------------------------
(* At most one client fetches the robots.txt of a host, and whoever waits for
   such a fetch waits for one that runs: the entry of #inflight is neither
   lost nor left behind when the fetch ends in an error. *)
JoinedFetchesRun ==
  /\ \A d \in Domains : inflight[d] # Nobody =>
       fetch[inflight[d]].pc = "robots" /\ fetch[inflight[d]].site = d
  /\ \A c \in Clients : fetch[c].pc = "robots" => inflight[fetch[c].site] = c
  /\ \A c \in Clients : fetch[c].pc = "joined" => inflight[fetch[c].site] # Nobody

(* A host's robots.txt is asked for once, and once more for every time its
   entry expired, whatever it answered and however many clients ask at once. *)
RobotsAskedOnce ==
  \A d \in Domains : asked[d] <= 1 + expired[d]

SetsOut(c) == fetch'[c].pc = "page" /\ fetch[c].pc # "page"
Entry(c)   == cache'[fetch'[c].site]

(* Fail-closed: a client sets out for a page only on what the robots.txt of the
   page's own host, or its absence, allows, be it from the cache, from its own
   fetch or from one it joined.  (Hops that a redirect adds are not asked for.) *)
PagesAreAllowed ==
  [][\A c \in Clients : SetsOut(c) =>
       /\ Entry(c) \notin {Unknown, Failed}
       /\ Entry(c).kind = "rules" => fetch'[c].page \in Entry(c).allows]_vars

(* Every row of the batch is observed in the end: no redirect, retry, shared
   fetch or full queue leaves an activity waiting for a slot or a promise. *)
EveryRowObserved ==
  <>[](cursor = Len(Batch) + 1 /\ \A c \in Clients : fetch[c].pc = "idle")
=============================================================================
