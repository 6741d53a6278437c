---------------------------- MODULE RateLimiter ----------------------------
(***************************************************************************)
(* The rate limiter of one process (packages/http/src/rateLimiter.ts): a   *)
(* global number of slots, given out in order of arrival, and an interval  *)
(* between two requests to one domain.                                     *)
(*                                                                         *)
(* JavaScript runs one callback at a time, so a step here is the code      *)
(* between two awaits of acquire, or a release.  The domain interval is    *)
(* reserved after the slot was obtained and before the sleep, and the slot *)
(* is kept while sleeping.  Time is kept as countdowns: nextIn[d] is       *)
(* nextAvailableAt(d) - now where that is positive, and a timer may fire   *)
(* later than asked for, never sooner.                                     *)
(*                                                                         *)
(* setCrawlDelay has no caller outside the tests, so every domain has the  *)
(* default interval.                                                       *)
(***************************************************************************)
EXTENDS Integers, Sequences, FiniteSets

CONSTANTS
  Clients,   \* the asynchronous activities that send requests
  Domains,   \* rate limit keys: host names
  Slots,     \* globalConcurrency
  Interval   \* perDomainIntervalMs, in ticks

ASSUME ClientsAssumption == IsFiniteSet(Clients)
ASSUME DomainsAssumption == Domains # {}
ASSUME SlotsAssumption == Slots \in Nat \ {0}   \* the constructor throws otherwise
ASSUME IntervalAssumption == Interval \in Nat

VARIABLES
  active,    \* #active
  waiters,   \* #waiters
  nextIn,    \* #nextAvailableAt, as a countdown; 0 for a domain not in the map
  slot       \* slot[c]: where c stands in acquire, or that it may send

limiterVars == <<active, waiters, nextIn, slot>>

(* free: outside; queued: in #waiters; granted: has a slot, not yet looked at
   the clock; asleep: waits for the start it reserved; open: acquire returned. *)
SlotState == [ at     : {"free", "queued", "granted", "asleep", "open"},
               domain : Domains,
               sleep  : Nat ]

Free == [at |-> "free", domain |-> CHOOSE d \in Domains : TRUE, sleep |-> 0]

LimiterTypeOK ==
  /\ active \in 0 .. Slots
  /\ waiters \in Seq(Clients)
  /\ nextIn \in [Domains -> Nat]
  /\ slot \in [Clients -> SlotState]

Holders == {c \in Clients : slot[c].at \in {"granted", "asleep", "open"}}
Queued  == {c \in Clients : slot[c].at = "queued"}

LimiterInit ==
  /\ active = 0
  /\ waiters = << >>
  /\ nextIn = [d \in Domains |-> 0]
  /\ slot = [c \in Clients |-> Free]

-----------------------------------------------------------------------------
(* A faulty variant, for checking the check: one slot too many. *)
acquireOneMore(c, d) ==
  /\ slot[c].at = "free"
  /\ active <= Slots
  /\ active' = active + 1
  /\ slot' = [slot EXCEPT ![c] = [at |-> "granted", domain |-> d, sleep |-> 0]]
  /\ UNCHANGED <<waiters, nextIn>>

(* acquire(d), as far as #acquireGlobalSlot: a slot, or a place in the queue. *)
acquire(c, d) ==
  /\ slot[c].at = "free"
  /\ \/ /\ active < Slots
        /\ active' = active + 1
        /\ slot' = [slot EXCEPT ![c] = [at |-> "granted", domain |-> d, sleep |-> 0]]
        /\ UNCHANGED waiters
     \/ /\ active >= Slots
        /\ waiters' = Append(waiters, c)
        /\ slot' = [slot EXCEPT ![c] = [at |-> "queued", domain |-> d, sleep |-> 0]]
        /\ UNCHANGED active
  /\ UNCHANGED nextIn

(* A faulty variant: the interval counts from now, not from the start. *)
NextAfterNow(start) == Interval

(* startAt + interval: what a request that starts `start` from now leaves. *)
NextAfter(start) == start + Interval

(* acquire after #acquireGlobalSlot: the domain's next start is taken, and the
   one after it set, before the sleep, of which there is none if it is now. *)
reserve(c) ==
  LET start == nextIn[slot[c].domain] IN
  /\ slot[c].at = "granted"
  /\ slot' = [slot EXCEPT ![c].at = IF start > 0 THEN "asleep" ELSE "open", ![c].sleep = start]
  /\ nextIn' = [nextIn EXCEPT ![slot[c].domain] = NextAfter(start)]
  /\ UNCHANGED <<active, waiters>>

(* The sleep is over: acquire returns. *)
awake(c) ==
  /\ slot[c].at = "asleep"
  /\ slot[c].sleep = 0
  /\ slot' = [slot EXCEPT ![c].at = "open"]
  /\ UNCHANGED <<active, waiters, nextIn>>

(* A faulty variant: nobody is woken. *)
releaseSilent(c) ==
  /\ slot[c].at = "open"
  /\ active' = active - 1
  /\ slot' = [slot EXCEPT ![c] = Free]
  /\ UNCHANGED <<waiters, nextIn>>

(* #releaseGlobalSlot: the slot goes to the first waiter, if there is one, and
   then #active stays as it is. *)
release(c) ==
  /\ slot[c].at = "open"
  /\ \/ /\ waiters = << >>
        /\ active' = active - 1
        /\ slot' = [slot EXCEPT ![c] = Free]
        /\ UNCHANGED waiters
     \/ /\ waiters # << >>
        /\ waiters' = Tail(waiters)
        /\ slot' = [slot EXCEPT ![c] = Free, ![Head(waiters)].at = "granted"]
        /\ UNCHANGED active
  /\ UNCHANGED nextIn

Less(n) == IF n > 0 THEN n - 1 ELSE 0

(* A tick of the clock; none matters when nobody counts. *)
tick ==
  /\ \/ \E d \in Domains : nextIn[d] > 0
     \/ \E c \in Clients : slot[c].sleep > 0
  /\ nextIn' = [d \in Domains |-> Less(nextIn[d])]
  /\ slot' = [c \in Clients |-> [slot[c] EXCEPT !.sleep = Less(slot[c].sleep)]]
  /\ UNCHANGED <<active, waiters>>

LimiterNext ==
  \/ \E c \in Clients, d \in Domains : acquire(c, d)
  \/ \E c \in Clients : reserve(c) \/ awake(c) \/ release(c)
  \/ tick

LimiterSpec == LimiterInit /\ [][LimiterNext]_limiterVars

-----------------------------------------------------------------------------
(* The counter is the number of activities that hold a slot, the queue is the
   set of those that wait, each in it once, and nobody waits while a slot is
   free.  This is what the hand-over in #releaseGlobalSlot is for: a waiter
   that counted itself again would let more than Slots through. *)
SlotsAreCounted ==
  /\ Cardinality(Holders) = active
  /\ active <= Slots
  /\ Queued = {waiters[i] : i \in 1 .. Len(waiters)}
  /\ \A i, j \in 1 .. Len(waiters) : i # j => waiters[i] # waiters[j]
  /\ waiters # << >> => active = Slots

(* Two requests to one domain that still wait for their start have starts at
   least an interval apart, and the next one that comes will start an interval
   after either (acquire reserves before it sleeps, not after). *)
StartsAreSpaced ==
  \A c \in Clients : slot[c].at = "asleep" /\ slot[c].sleep > 0 =>
    /\ nextIn[slot[c].domain] >= slot[c].sleep + Interval
    /\ \A o \in Clients \ {c} :
         slot[o].at = "asleep" /\ slot[o].domain = slot[c].domain /\ slot[o].sleep > 0
           => \/ slot[o].sleep >= slot[c].sleep + Interval
              \/ slot[c].sleep >= slot[o].sleep + Interval
=============================================================================
