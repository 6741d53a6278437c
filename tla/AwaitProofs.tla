---------------------------- MODULE AwaitProofs ----------------------------
(***************************************************************************)
(* Proofs about the three parts whose steps are what JavaScript does       *)
(* between two awaits: the rate limiter and the pool of fetching           *)
(* activities on top of it, the review console's store, and the stages     *)
(* from home pages to search results.  They hold for every number of       *)
(* activities, hosts, rows and slots, of calls, items and addresses, of    *)
(* companies, sites and executions, and for every limit and quota.         *)
(***************************************************************************)
EXTENDS Crawl, Console, Survey, TLAPS, FiniteSetTheorems, SequenceTheorems

-----------------------------------------------------------------------------
(* The rate limiter by itself. *)

LimiterInv ==
  /\ LimiterTypeOK
  /\ SlotsAreCounted
  /\ StartsAreSpaced

-----------------------------------------------------------------------------
LEMMA FreeIsState == Free \in SlotState
BY DomainsAssumption DEF Free, SlotState

(* The holders are finitely many. *)
LEMMA HoldersFinite == IsFiniteSet(Holders)
<1>1. Holders \in SUBSET Clients  BY DEF Holders
<1>2. QED  BY <1>1, ClientsAssumption, FS_Subset

LEMMA InitLimiterInv == LimiterInit => LimiterInv
<1> SUFFICES ASSUME LimiterInit PROVE LimiterInv  OBVIOUS
<1> USE DEF LimiterInit
<1>1. \A c \in Clients : slot[c] = Free  OBVIOUS
<1>2. LimiterTypeOK
  BY FreeIsState, SlotsAssumption, EmptySeq DEF LimiterTypeOK
<1>3. Holders = {} /\ Queued = {}  BY <1>1 DEF Holders, Queued, Free
<1>4. SlotsAreCounted
  <2>1. waiters = << >> /\ Len(waiters) = 0 /\ 1 .. 0 = {}  BY EmptySeq
  <2>2. Cardinality(Holders) = 0 /\ active = 0 /\ 0 <= Slots
    BY <1>3, FS_EmptySet, SlotsAssumption
  <2>3. {waiters[i] : i \in 1 .. Len(waiters)} = {}  BY <2>1
  <2>4. QED  BY <1>3, <2>1, <2>2, <2>3 DEF SlotsAreCounted
<1>5. StartsAreSpaced  BY <1>1 DEF StartsAreSpaced, Free
<1>6. QED  BY <1>2, <1>4, <1>5 DEF LimiterInv

-----------------------------------------------------------------------------
(* A request either takes a slot that is free or stands last in the queue. *)
LEMMA AcquireStep ==
  ASSUME LimiterInv, NEW c \in Clients, NEW d \in Domains, acquire(c, d)
  PROVE  LimiterInv'
<1> USE DEF LimiterInv, LimiterTypeOK
<1>0. active \in Nat /\ Slots \in Nat /\ slot[c].at = "free"
  BY SlotsAssumption DEF acquire
<1>1. CASE active < Slots /\ active' = active + 1 /\ UNCHANGED waiters
             /\ slot' = [slot EXCEPT ![c] = [at |-> "granted", domain |-> d, sleep |-> 0]]
  <2>1. LimiterTypeOK'
    BY <1>0, <1>1 DEF acquire, SlotState
  <2>2. Holders' = Holders \cup {c} /\ c \notin Holders /\ Queued' = Queued
    BY <1>0, <1>1 DEF Holders, Queued
  <2>3. Cardinality(Holders') = Cardinality(Holders) + 1
    BY <2>2, HoldersFinite, FS_AddElement
  <2>4. waiters = << >>
    BY <1>0, <1>1 DEF SlotsAreCounted
  <2>5. SlotsAreCounted'
    BY <1>0, <1>1, <2>2, <2>3, <2>4 DEF SlotsAreCounted
  <2>6. StartsAreSpaced'
    BY <1>1, <1>0 DEF StartsAreSpaced, acquire
  <2>7. QED  BY <2>1, <2>5, <2>6
<1>2. CASE active >= Slots /\ waiters' = Append(waiters, c) /\ UNCHANGED active
             /\ slot' = [slot EXCEPT ![c] = [at |-> "queued", domain |-> d, sleep |-> 0]]
  <2> DEFINE n == Len(waiters)
  <2>0. n \in Nat /\ n = Len(waiters)  BY LenProperties
  <2>1. /\ waiters' \in Seq(Clients) /\ Len(waiters') = n + 1
        /\ \A i \in 1 .. n : waiters'[i] = waiters[i]
        /\ waiters'[n + 1] = c
    BY <1>2, AppendProperties
  <2>2. LimiterTypeOK'
    BY <1>2, <2>1 DEF acquire, SlotState
  <2>3. Holders' = Holders /\ Queued' = Queued \cup {c} /\ c \notin Queued
    BY <1>0, <1>2 DEF Holders, Queued
  <2> HIDE DEF n
  <2>4. {waiters'[i] : i \in 1 .. (n + 1)} = {waiters[i] : i \in 1 .. n} \cup {c}
    <3>1. \A x : x \in {waiters'[i] : i \in 1 .. (n + 1)}
                  <=> x \in {waiters[i] : i \in 1 .. n} \cup {c}
      BY <2>0, <2>1
    <3>2. QED  BY <3>1
  <2>5. \A i \in 1 .. n : waiters[i] # c
    BY <2>0, <2>3 DEF SlotsAreCounted
  <2>6. \A i, j \in 1 .. (n + 1) : i # j => waiters'[i] # waiters'[j]
    <3>1. \A i, j \in 1 .. n : i # j => waiters[i] # waiters[j]
      BY <2>0 DEF SlotsAreCounted
    <3>2. SUFFICES ASSUME NEW i \in 1 .. (n + 1), NEW j \in 1 .. (n + 1), i # j
                   PROVE  waiters'[i] # waiters'[j]
      OBVIOUS
    <3>3. CASE i \in 1 .. n /\ j \in 1 .. n  BY <3>1, <3>2, <3>3, <2>1
    <3>4. CASE i = n + 1  BY <3>2, <3>4, <2>0, <2>1, <2>5
    <3>5. CASE j = n + 1  BY <3>2, <3>5, <2>0, <2>1, <2>5
    <3>6. QED  BY <3>3, <3>4, <3>5, <2>0
  <2>7. SlotsAreCounted'
    BY <1>0, <1>2, <2>0, <2>1, <2>3, <2>4, <2>6 DEF SlotsAreCounted
  <2>8. StartsAreSpaced'
    BY <1>2, <1>0 DEF StartsAreSpaced, acquire
  <2>9. QED  BY <2>2, <2>7, <2>8
<1>3. QED  BY <1>1, <1>2 DEF acquire

(* A step that leaves everybody on his side of the slots, and the queue. *)
LEMMA SameHolders ==
  ASSUME LimiterInv, UNCHANGED <<active, waiters>>, slot' \in [Clients -> SlotState],
         \A c \in Clients :
           /\ slot'[c].at = "queued" <=> slot[c].at = "queued"
           /\ slot'[c].at \in {"granted", "asleep", "open"}
                <=> slot[c].at \in {"granted", "asleep", "open"}
  PROVE  SlotsAreCounted'
<1>1. Holders' = Holders /\ Queued' = Queued  BY DEF Holders, Queued
<1>2. QED  BY <1>1 DEF LimiterInv, SlotsAreCounted

(* The start a request reserves is an interval after every start that is
   still to come. *)
LEMMA ReserveStep ==
  ASSUME LimiterInv, NEW c \in Clients, reserve(c)
  PROVE  LimiterInv'
<1> USE DEF LimiterInv, LimiterTypeOK
<1>1. PICK d \in Domains : d = slot[c].domain  BY DEF SlotState
<1>2. PICK s \in Nat : s = nextIn[d]  BY <1>1
<1>3. /\ slot[c].at = "granted"
      /\ slot' = [slot EXCEPT ![c].at = IF s > 0 THEN "asleep" ELSE "open", ![c].sleep = s]
      /\ nextIn' = [nextIn EXCEPT ![d] = s + Interval]
      /\ UNCHANGED <<active, waiters>>
  BY <1>1, <1>2 DEF reserve, NextAfter
<1>4. Interval \in Nat  BY IntervalAssumption
<1>5. LimiterTypeOK'
  <2>1. [slot[c] EXCEPT !.at = IF s > 0 THEN "asleep" ELSE "open", !.sleep = s] \in SlotState
    BY DEF SlotState
  <2>2. slot' = [slot EXCEPT ![c] = [slot[c] EXCEPT !.at = IF s > 0 THEN "asleep" ELSE "open", !.sleep = s]]
    BY <1>3
  <2>3. slot' \in [Clients -> SlotState]  BY <2>1, <2>2
  <2>4. nextIn' \in [Domains -> Nat]  BY <1>3, <1>4
  <2>5. QED  BY <1>3, <2>3, <2>4
<1>6. SlotsAreCounted'  BY <1>3, <1>5, SameHolders
<1>7. slot'[c].sleep = s /\ slot'[c].domain = d /\ (slot'[c].at = "asleep" => s > 0)
  BY <1>1, <1>3 DEF SlotState
<1>8. \A o \in Clients \ {c} : slot'[o] = slot[o] /\ slot[o].sleep \in Nat /\ slot[o].domain \in Domains
  BY <1>3 DEF SlotState
<1>9. \A e \in Domains : nextIn[e] \in Nat /\ (e # d => nextIn'[e] = nextIn[e]) /\ nextIn'[d] = s + Interval
  BY <1>3
<1>10. \A o \in Clients \ {c} :
         slot[o].at = "asleep" /\ slot[o].sleep > 0 /\ slot[o].domain = d => s >= slot[o].sleep + Interval
  <2> SUFFICES ASSUME NEW o \in Clients,
                      slot[o].at = "asleep", slot[o].sleep > 0, slot[o].domain = d
               PROVE  s >= slot[o].sleep + Interval
    OBVIOUS
  <2>1. nextIn[slot[o].domain] >= slot[o].sleep + Interval  BY DEF StartsAreSpaced
  <2>2. QED  BY <2>1, <1>2
<1>11. StartsAreSpaced'
  <2> SUFFICES ASSUME NEW a \in Clients, slot'[a].at = "asleep", slot'[a].sleep > 0
               PROVE  /\ nextIn'[slot'[a].domain] >= slot'[a].sleep + Interval
                      /\ \A o \in Clients \ {a} :
                           slot'[o].at = "asleep" /\ slot'[o].domain = slot'[a].domain /\ slot'[o].sleep > 0
                             => \/ slot'[o].sleep >= slot'[a].sleep + Interval
                                \/ slot'[a].sleep >= slot'[o].sleep + Interval
    BY DEF StartsAreSpaced
  <2>1. CASE a = c
    BY <2>1, <1>2, <1>4, <1>7, <1>8, <1>9, <1>10
  <2>2. CASE a # c
    <3>1. slot'[a] = slot[a]  BY <2>2, <1>8
    <3>2. nextIn'[slot'[a].domain] >= slot'[a].sleep + Interval
      BY <2>2, <3>1, <1>2, <1>4, <1>8, <1>9, <1>10 DEF StartsAreSpaced
    <3>3. ASSUME NEW o \in Clients \ {a},
                 slot'[o].at = "asleep", slot'[o].domain = slot'[a].domain, slot'[o].sleep > 0
          PROVE  \/ slot'[o].sleep >= slot'[a].sleep + Interval
                 \/ slot'[a].sleep >= slot'[o].sleep + Interval
      <4>1. CASE o = c  BY <4>1, <3>1, <3>3, <2>2, <1>7, <1>10
      <4>2. CASE o # c
        <5>1. slot'[o] = slot[o]  BY <4>2, <1>8
        <5>2. QED  BY <5>1, <3>1, <3>3 DEF StartsAreSpaced
      <4>3. QED  BY <4>1, <4>2
    <3>4. QED  BY <3>2, <3>3
  <2>3. QED  BY <2>1, <2>2
<1>12. QED  BY <1>5, <1>6, <1>11

LEMMA AwakeStep ==
  ASSUME LimiterInv, NEW c \in Clients, awake(c)
  PROVE  LimiterInv'
<1> USE DEF LimiterInv, LimiterTypeOK
<1>1. LimiterTypeOK'  BY DEF awake, SlotState
<1>2. SlotsAreCounted'  BY <1>1, SameHolders DEF awake
<1>3. StartsAreSpaced'  BY DEF StartsAreSpaced, awake
<1>4. QED  BY <1>1, <1>2, <1>3

(* A slot given back is free again, or the first waiter's: the counter and the
   number of holders move together. *)
LEMMA ReleaseStep ==
  ASSUME LimiterInv, NEW c \in Clients, release(c)
  PROVE  LimiterInv'
<1> USE DEF LimiterInv, LimiterTypeOK
<1>0. slot[c].at = "open" /\ c \in Holders /\ active \in Nat /\ UNCHANGED nextIn
      /\ Free.at = "free"
  BY SlotsAssumption DEF release, Holders, Free
<1>1. CASE waiters = << >> /\ active' = active - 1 /\ slot' = [slot EXCEPT ![c] = Free]
             /\ UNCHANGED waiters
  <2>1. Holders' = Holders \ {c} /\ Queued' = Queued
    BY <1>0, <1>1 DEF Holders, Queued
  <2>2. Cardinality(Holders') = Cardinality(Holders) - 1
    BY <1>0, <2>1, HoldersFinite, FS_RemoveElement
  <2>3. Cardinality(Holders') \in Nat
    BY <2>1, HoldersFinite, FS_RemoveElement, FS_CardinalityType
  <2>4. active' \in 0 .. Slots
    BY <1>0, <1>1, <2>2, <2>3, SlotsAssumption DEF SlotsAreCounted
  <2>5. LimiterTypeOK'  BY <1>0, <1>1, <2>4, FreeIsState
  <2>6. SlotsAreCounted'
    BY <1>0, <1>1, <2>1, <2>2, <2>4, SlotsAssumption DEF SlotsAreCounted
  <2>7. StartsAreSpaced'  BY <1>0, <1>1 DEF StartsAreSpaced
  <2>8. QED  BY <2>5, <2>6, <2>7
<1>2. CASE waiters # << >> /\ waiters' = Tail(waiters) /\ UNCHANGED active
             /\ slot' = [slot EXCEPT ![c] = Free, ![Head(waiters)].at = "granted"]
  <2>0. PICK n \in Nat \ {0} : n = Len(waiters)  BY <1>2, EmptySeq
  <2>1. PICK h \in Clients : h = Head(waiters) /\ h = waiters[1]
    BY <1>2, HeadTailProperties
  <2>2. /\ waiters' \in Seq(Clients) /\ Len(waiters') = n - 1
        /\ \A i \in 1 .. (n - 1) : waiters'[i] = waiters[i + 1]
    BY <1>2, <2>0, HeadTailProperties
  <2>3. slot[h].at = "queued" /\ h # c /\ h \notin Holders
    BY <1>0, <2>0, <2>1 DEF SlotsAreCounted, Queued, Holders
  <2>4. slot' = [slot EXCEPT ![c] = Free, ![h].at = "granted"]  BY <1>2, <2>1
  <2>5. Holders' = (Holders \ {c}) \cup {h} /\ Queued' = Queued \ {h}
    BY <1>0, <2>3, <2>4 DEF Holders, Queued
  <2>6. Cardinality(Holders \ {c}) = Cardinality(Holders) - 1 /\ IsFiniteSet(Holders \ {c})
    BY <1>0, HoldersFinite, FS_RemoveElement
  <2>7. Cardinality(Holders') = Cardinality(Holders) - 1 + 1
    BY <2>3, <2>5, <2>6, FS_AddElement
  <2>8. LimiterTypeOK'
    <3>1. [slot[h] EXCEPT !.at = "granted"] \in SlotState  BY DEF SlotState
    <3>2. slot' = [[slot EXCEPT ![c] = Free] EXCEPT ![h] = [slot[h] EXCEPT !.at = "granted"]]
      BY <2>3, <2>4
    <3>3. slot' \in [Clients -> SlotState]  BY <3>1, <3>2, FreeIsState
    <3>4. QED  BY <1>0, <1>2, <2>2, <3>3
  <2>9. {waiters'[i] : i \in 1 .. (n - 1)} = {waiters[i] : i \in 1 .. n} \ {h}
    <3>1. \A i \in 1 .. n : i # 1 => waiters[i] # h
      BY <2>0, <2>1 DEF SlotsAreCounted
    <3>2. ASSUME NEW x \in {waiters[i] : i \in 1 .. n} \ {h}
          PROVE  x \in {waiters'[i] : i \in 1 .. (n - 1)}
      <4>1. PICK i \in 1 .. n : x = waiters[i]  BY <3>2
      <4>2. i - 1 \in 1 .. (n - 1) /\ waiters'[i - 1] = waiters[(i - 1) + 1] /\ (i - 1) + 1 = i
        BY <2>0, <2>1, <2>2, <3>2, <4>1
      <4>3. QED  BY <4>1, <4>2
    <3>3. ASSUME NEW x \in {waiters'[i] : i \in 1 .. (n - 1)}
          PROVE  x \in {waiters[i] : i \in 1 .. n} \ {h}
      <4>1. PICK i \in 1 .. (n - 1) : x = waiters'[i]  BY <3>3
      <4>2. i + 1 \in 1 .. n /\ i + 1 # 1 /\ x = waiters[i + 1]  BY <2>0, <2>2, <4>1
      <4>3. QED  BY <3>1, <4>2
    <3>4. QED  BY <3>2, <3>3
  <2>10. \A i, j \in 1 .. (n - 1) : i # j => waiters'[i] # waiters'[j]
    BY <2>0, <2>2 DEF SlotsAreCounted
  <2>11. active = Slots  BY <1>2 DEF SlotsAreCounted
  <2>12. SlotsAreCounted'
    <3>1. Cardinality(Holders') = active' /\ active' <= Slots
      <4>1. Cardinality(Holders) = active  BY DEF SlotsAreCounted
      <4>2. QED  BY <4>1, <1>0, <1>2, <2>7, <2>11, SlotsAssumption
    <3>2. Queued = {waiters[i] : i \in 1 .. n}  BY <2>0 DEF SlotsAreCounted
    <3>3. Queued' = {waiters'[i] : i \in 1 .. Len(waiters')}  BY <3>2, <2>2, <2>5, <2>9
    <3>4. \A i, j \in 1 .. Len(waiters') : i # j => waiters'[i] # waiters'[j]  BY <2>2, <2>10
    <3>5. waiters' # << >> => active' = Slots  BY <1>2, <2>11
    <3>6. QED  BY <3>1, <3>3, <3>4, <3>5 DEF SlotsAreCounted
  <2>13. StartsAreSpaced'
    <3>1. \A a \in Clients : slot'[a].at = "asleep" => slot'[a] = slot[a]
      BY <1>0, <2>3, <2>4
    <3>2. QED  BY <1>0, <3>1 DEF StartsAreSpaced
  <2>14. QED  BY <2>8, <2>12, <2>13
<1>3. QED  BY <1>1, <1>2 DEF release

(* Time takes as much from a start as from the next one. *)
LEMMA TickStep ==
  ASSUME LimiterInv, tick
  PROVE  LimiterInv'
<1> USE DEF LimiterInv, LimiterTypeOK
<1>1. \A n \in Nat : Less(n) \in Nat /\ (Less(n) > 0 => Less(n) = n - 1 /\ n > 0) /\ n - 1 <= Less(n)
  BY DEF Less
<1>2. \A c \in Clients : /\ slot[c] \in SlotState
                         /\ slot'[c].at = slot[c].at /\ slot'[c].domain = slot[c].domain
                         /\ slot'[c].sleep = Less(slot[c].sleep)
  BY DEF tick, SlotState
<1>3. \A d \in Domains : nextIn[d] \in Nat /\ nextIn'[d] = Less(nextIn[d])
  BY DEF tick
<1>4. slot' \in [Clients -> SlotState]
  BY <1>1 DEF tick, SlotState
<1>5. LimiterTypeOK'  BY <1>1, <1>4 DEF tick
<1>6. SlotsAreCounted'  BY <1>2, <1>4, SameHolders DEF tick
<1>7. StartsAreSpaced'
  <2>1. \A c \in Clients : slot[c].sleep \in Nat /\ slot[c].domain \in Domains
    BY <1>2 DEF SlotState
  <2>2. Interval \in Nat  BY IntervalAssumption
  <2>c. \A c \in Clients : slot'[c].sleep > 0 => slot[c].sleep > 0 /\ slot'[c].sleep = slot[c].sleep - 1
    <3> SUFFICES ASSUME NEW c \in Clients, slot'[c].sleep > 0
                 PROVE  slot[c].sleep > 0 /\ slot'[c].sleep = slot[c].sleep - 1
      OBVIOUS
    <3>1. slot'[c].sleep = Less(slot[c].sleep) /\ slot[c].sleep \in Nat  BY <1>2, <2>1
    <3>2. QED  BY <3>1, <1>1
  <2>d. \A d \in Domains : nextIn[d] \in Nat /\ nextIn'[d] \in Nat /\ nextIn'[d] >= nextIn[d] - 1
    <3> SUFFICES ASSUME NEW d \in Domains
                 PROVE  nextIn[d] \in Nat /\ nextIn'[d] \in Nat /\ nextIn'[d] >= nextIn[d] - 1
      OBVIOUS
    <3>1. nextIn[d] \in Nat /\ nextIn'[d] = Less(nextIn[d])  BY <1>3
    <3>2. QED  BY <3>1, <1>1
  <2> SUFFICES ASSUME NEW a \in Clients, slot'[a].at = "asleep", slot'[a].sleep > 0
               PROVE  /\ nextIn'[slot'[a].domain] >= slot'[a].sleep + Interval
                      /\ \A o \in Clients \ {a} :
                           slot'[o].at = "asleep" /\ slot'[o].domain = slot'[a].domain /\ slot'[o].sleep > 0
                             => \/ slot'[o].sleep >= slot'[a].sleep + Interval
                                \/ slot'[a].sleep >= slot'[o].sleep + Interval
    BY DEF StartsAreSpaced
  <2>3. PICK d \in Domains : d = slot[a].domain /\ d = slot'[a].domain  BY <1>2, <2>1
  <2>4. slot[a].at = "asleep" /\ slot[a].sleep > 0 /\ slot'[a].sleep = slot[a].sleep - 1
    BY <1>2, <2>c
  <2>5. nextIn[d] >= slot[a].sleep + Interval  BY <2>3, <2>4 DEF StartsAreSpaced
  <2>6. nextIn'[d] >= slot'[a].sleep + Interval
    BY <2>1, <2>2, <2>d, <2>4, <2>5
  <2>7. ASSUME NEW o \in Clients \ {a},
               slot'[o].at = "asleep", slot'[o].domain = slot'[a].domain, slot'[o].sleep > 0
        PROVE  \/ slot'[o].sleep >= slot'[a].sleep + Interval
               \/ slot'[a].sleep >= slot'[o].sleep + Interval
    <3>1. /\ slot[o].at = "asleep" /\ slot[o].sleep > 0 /\ slot'[o].sleep = slot[o].sleep - 1
          /\ slot[o].domain = slot[a].domain
      BY <1>2, <2>c, <2>7
    <3>2. \/ slot[o].sleep >= slot[a].sleep + Interval
          \/ slot[a].sleep >= slot[o].sleep + Interval
      BY <2>4, <3>1 DEF StartsAreSpaced
    <3>3. QED  BY <2>1, <2>2, <2>4, <3>1, <3>2
  <2>8. QED  BY <2>3, <2>6, <2>7
<1>8. QED  BY <1>5, <1>6, <1>7

LEMMA LimiterStep == LimiterInv /\ [LimiterNext]_limiterVars => LimiterInv'
<1> SUFFICES ASSUME LimiterInv, [LimiterNext]_limiterVars PROVE LimiterInv'  OBVIOUS
<1>1. ASSUME NEW c \in Clients, NEW d \in Domains, acquire(c, d) PROVE LimiterInv'
  BY <1>1, AcquireStep
<1>2. ASSUME NEW c \in Clients, reserve(c) \/ awake(c) \/ release(c) PROVE LimiterInv'
  BY <1>2, ReserveStep, AwakeStep, ReleaseStep
<1>3. CASE tick  BY <1>3, TickStep
<1>4. CASE UNCHANGED limiterVars
  BY <1>4 DEF limiterVars, LimiterInv, LimiterTypeOK, SlotsAreCounted, StartsAreSpaced, Holders, Queued
<1>5. CASE LimiterNext
  <2>1. (\E c \in Clients, d \in Domains : acquire(c, d))
        \/ (\E c \in Clients : reserve(c) \/ awake(c) \/ release(c)) \/ tick
    BY <1>5 DEF LimiterNext
  <2>2. QED  BY <1>1, <1>2, <1>3, <2>1
<1>6. QED  BY <1>4, <1>5

(* The limiter by itself, whatever its callers do as long as they give back
   what they got and only that (rateLimiter.ts): it never lets more than its
   slots through, forgets no waiter, and spaces the starts of a domain. *)
THEOREM LimiterIsSafe == LimiterSpec => [](LimiterTypeOK /\ SlotsAreCounted /\ StartsAreSpaced)
<1>1. LimiterInv => LimiterTypeOK /\ SlotsAreCounted /\ StartsAreSpaced  BY DEF LimiterInv
<1>2. QED  BY InitLimiterInv, LimiterStep, <1>1, PTL DEF LimiterSpec

-----------------------------------------------------------------------------
(* The fetching activities. *)

(* What #inflight and #cache say about how often a robots.txt was asked for:
   a fetch under way or an entry present accounts for one more call than the
   entries that expired.  RobotsAskedOnce by itself is not inductive. *)
AskedIsAccountedFor ==
  \A d \in Domains :
    /\ inflight[d] # Nobody => cache[d] = Unknown
    /\ asked[d] <= expired[d] + (IF cache[d] = Unknown /\ inflight[d] = Nobody THEN 0 ELSE 1)

CrawlInv ==
  /\ TypeOK
  /\ LimiterInv
  /\ JoinedFetchesRun
  /\ AskedIsAccountedFor

-----------------------------------------------------------------------------
LEMMA IdleIsState == Idle \in FetchState
BY DomainsAssumption, LimitsAssumption DEF Idle, FetchState, Pages

LEMMA FailedIsReply == Failed \in Replies /\ Failed # Unknown /\ Unknown \notin Replies
BY NamesAssumption DEF Failed, Replies

(* Beginning a get keeps the page and the site it is for. *)
LEMMA BeginState ==
  ASSUME NEW f \in FetchState, NEW pc \in {"robots", "page"}, NEW n \in Nat
  PROVE  /\ Begin(f, pc, n) \in FetchState
         /\ Begin(f, pc, n).pc = pc
         /\ Begin(f, pc, n).page = f.page
         /\ Begin(f, pc, n).site = f.site
<1>1. 0 \in 0 .. MaxRedirects  BY LimitsAssumption
<1>2. QED  BY <1>1 DEF Begin, FetchState

(* After a decision a client is at its page, and then the decision allows it,
   or free; it neither fetches robots.txt nor waits for one. *)
LEMMA DecidedState ==
  ASSUME NEW f \in FetchState, NEW reply \in Replies
  PROVE  /\ Decided(f, reply) \in FetchState
         /\ Decided(f, reply).pc \in {"idle", "page"}
         /\ Decided(f, reply).pc = "page" =>
              /\ Decided(f, reply).page = f.page
              /\ Decided(f, reply).site = f.site
              /\ reply # Failed
              /\ reply.kind = "rules" => f.page \in reply.allows
<1>1. Idle.pc = "idle"  BY DEF Idle
<1>2. CASE Allowed(reply, f.page)
  <2>1. Decided(f, reply) = Begin(f, "page", 0)  BY <1>2 DEF Decided
  <2>2. reply # Failed /\ (reply.kind = "rules" => f.page \in reply.allows)
    BY <1>2 DEF Allowed, Failed
  <2>3. QED  BY <2>1, <2>2, BeginState
<1>3. CASE ~ Allowed(reply, f.page)
  BY <1>1, <1>3, IdleIsState DEF Decided
<1>4. QED  BY <1>2, <1>3

LEMMA InitCrawlInv == Init => CrawlInv
<1> SUFFICES ASSUME Init PROVE CrawlInv  OBVIOUS
<1> USE DEF Init
<1>1. LimiterInv  BY InitLimiterInv
<1>2. Idle.pc = "idle"  BY DEF Idle
<1>3. 1 \in 1 .. (Len(Batch) + 1)
  <2>1. Len(Batch) \in Nat  BY BatchAssumption, LenProperties
  <2>2. QED  BY <2>1
<1>4. TypeOK
  BY <1>1, <1>3, IdleIsState, LimitsAssumption DEF TypeOK, LimiterInv
<1>5. JoinedFetchesRun  BY <1>2 DEF JoinedFetchesRun
<1>6. AskedIsAccountedFor  BY DEF AskedIsAccountedFor
<1>7. QED  BY <1>1, <1>4, <1>5, <1>6 DEF CrawlInv
-----------------------------------------------------------------------------
(* What the invariants of the gate need of a step that leaves its maps alone:
   nobody begins or ends a fetch of robots.txt, or joins one. *)
LEMMA GateAlone ==
  ASSUME CrawlInv, UNCHANGED <<cache, inflight, asked, expired>>,
         fetch' \in [Clients -> FetchState],
         \A o \in Clients :
           /\ fetch'[o].pc \in {"robots", "joined"} \/ fetch[o].pc \in {"robots", "joined"}
                => fetch'[o].pc = fetch[o].pc /\ fetch'[o].site = fetch[o].site
  PROVE  JoinedFetchesRun' /\ AskedIsAccountedFor'
<1>1. JoinedFetchesRun'
  <2>1. \A d \in Domains : inflight[d] # Nobody => inflight[d] \in Clients
    BY DEF CrawlInv, TypeOK
  <2>2. QED  BY <2>1 DEF CrawlInv, JoinedFetchesRun
<1>2. AskedIsAccountedFor'  BY DEF CrawlInv, AskedIsAccountedFor
<1>3. QED  BY <1>1, <1>2

(* Standing at the gate: at the entry, at a fetch under way, or at one's own,
   which is then the host's only one. *)
LEMMA EntryForStep ==
  ASSUME CrawlInv, NEW c \in Clients, NEW f \in FetchState, EntryFor(c, f),
         fetch[c].pc \in {"idle", "check"}, UNCHANGED <<cache, expired>>
  PROVE  /\ fetch' \in [Clients -> FetchState]
         /\ inflight' \in [Domains -> Clients \cup {Nobody}]
         /\ asked' \in [Domains -> Nat]
         /\ JoinedFetchesRun'
         /\ AskedIsAccountedFor'
         /\ \A o \in Clients \ {c} : fetch'[o] = fetch[o]
         /\ fetch'[c].pc = "page" =>
              /\ cache[fetch'[c].site] # Unknown
              /\ cache[fetch'[c].site] # Failed
              /\ cache[fetch'[c].site].kind = "rules"
                   => fetch'[c].page \in cache[fetch'[c].site].allows
<1> USE DEF CrawlInv
<1>1. PICK d \in Domains : d = f.site  BY DEF FetchState
<1>2. fetch \in [Clients -> FetchState] /\ asked \in [Domains -> Nat] /\ expired[d] \in Nat
      /\ inflight \in [Domains -> Clients \cup {Nobody}] /\ cache[d] \in Replies \cup {Unknown}
  BY LimitsAssumption DEF TypeOK
<1>3. CASE /\ cache[d] # Unknown
           /\ fetch' = [fetch EXCEPT ![c] = Decided(f, cache[d])]
           /\ UNCHANGED <<inflight, asked>>
  <2>1. Decided(f, cache[d]) \in FetchState /\ Decided(f, cache[d]).pc \in {"idle", "page"}
    BY <1>2, <1>3, DecidedState
  <2>2. fetch' \in [Clients -> FetchState] /\ fetch'[c] = Decided(f, cache[d])
        /\ \A o \in Clients \ {c} : fetch'[o] = fetch[o]
    BY <1>2, <1>3, <2>1
  <2>3. JoinedFetchesRun' /\ AskedIsAccountedFor'
    BY <1>3, <2>1, <2>2, GateAlone
  <2>4. QED  BY <1>1, <1>2, <1>3, <2>1, <2>2, <2>3, DecidedState
<1>4. CASE /\ cache[d] = Unknown
           /\ inflight[d] # Nobody
           /\ fetch' = [fetch EXCEPT ![c] = [f EXCEPT !.pc = "joined"]]
           /\ UNCHANGED <<inflight, asked>>
  <2>1. [f EXCEPT !.pc = "joined"] \in FetchState  BY DEF FetchState
  <2>2. fetch' \in [Clients -> FetchState] /\ fetch'[c].pc = "joined" /\ fetch'[c].site = d
        /\ \A o \in Clients \ {c} : fetch'[o] = fetch[o]
    BY <1>1, <1>2, <1>4, <2>1 DEF FetchState
  <2>3. \A e \in Domains : inflight[e] # c
    BY NamesAssumption DEF JoinedFetchesRun
  <2>4. JoinedFetchesRun'
    BY <1>2, <1>4, <2>2, <2>3 DEF JoinedFetchesRun
  <2>5. AskedIsAccountedFor'  BY <1>4 DEF AskedIsAccountedFor
  <2>6. QED  BY <1>2, <1>4, <2>2, <2>4, <2>5
<1>5. CASE /\ cache[d] = Unknown
           /\ inflight[d] = Nobody
           /\ fetch' = [fetch EXCEPT ![c] = Begin(f, "robots", 0)]
           /\ inflight' = [inflight EXCEPT ![d] = c]
           /\ asked' = [asked EXCEPT ![d] = @ + 1]
  <2>1. Begin(f, "robots", 0) \in FetchState /\ Begin(f, "robots", 0).pc = "robots"
        /\ Begin(f, "robots", 0).site = d
    BY <1>1, BeginState
  <2>2. fetch' \in [Clients -> FetchState] /\ fetch'[c].pc = "robots" /\ fetch'[c].site = d
        /\ \A o \in Clients \ {c} : fetch'[o] = fetch[o]
    BY <1>2, <1>5, <2>1
  <2>3. inflight' \in [Domains -> Clients \cup {Nobody}] /\ inflight'[d] = c
        /\ \A e \in Domains : e # d => inflight'[e] = inflight[e]
    BY <1>2, <1>5
  <2>4. asked' \in [Domains -> Nat] /\ asked'[d] = asked[d] + 1
        /\ \A e \in Domains : e # d => asked'[e] = asked[e]
    BY <1>2, <1>5
  <2>5. c # Nobody /\ \A e \in Domains : inflight[e] # c
    BY NamesAssumption DEF JoinedFetchesRun
  <2>6. JoinedFetchesRun'
    <3>1. \A e \in Domains : inflight'[e] # Nobody =>
            fetch'[inflight'[e]].pc = "robots" /\ fetch'[inflight'[e]].site = e
      BY <1>2, <2>2, <2>3, <2>5 DEF JoinedFetchesRun
    <3>2. \A o \in Clients : fetch'[o].pc = "robots" => inflight'[fetch'[o].site] = o
      <4> SUFFICES ASSUME NEW o \in Clients, fetch'[o].pc = "robots"
                   PROVE  inflight'[fetch'[o].site] = o
        OBVIOUS
      <4>1. CASE o = c  BY <4>1, <2>2, <2>3
      <4>2. CASE o # c
        <5>1. fetch'[o] = fetch[o] /\ inflight[fetch[o].site] = o /\ o # Nobody /\ fetch[o].site \in Domains
          BY <4>2, <1>2, <2>2, NamesAssumption DEF JoinedFetchesRun, FetchState
        <5>2. QED  BY <5>1, <1>5, <2>3
      <4>3. QED  BY <4>1, <4>2
    <3>3. \A o \in Clients : fetch'[o].pc = "joined" => inflight'[fetch'[o].site] # Nobody
      <4> SUFFICES ASSUME NEW o \in Clients, fetch'[o].pc = "joined"
                   PROVE  inflight'[fetch'[o].site] # Nobody
        OBVIOUS
      <4>1. o # c /\ fetch'[o] = fetch[o]  BY <2>2
      <4>2. inflight[fetch[o].site] # Nobody /\ fetch[o].site \in Domains
        BY <4>1, <1>2 DEF JoinedFetchesRun, FetchState
      <4>3. QED  BY <4>1, <4>2, <1>5, <2>3
    <3>4. QED  BY <3>1, <3>2, <3>3 DEF JoinedFetchesRun
  <2>7. AskedIsAccountedFor'
    <3> SUFFICES ASSUME NEW e \in Domains
                 PROVE  /\ inflight'[e] # Nobody => cache'[e] = Unknown
                        /\ asked'[e] <= expired'[e]
                             + (IF cache'[e] = Unknown /\ inflight'[e] = Nobody THEN 0 ELSE 1)
      BY DEF AskedIsAccountedFor
    <3>1. CASE e = d
      <4>1. asked[d] <= expired[d]  BY <1>2, <1>5 DEF AskedIsAccountedFor
      <4>2. QED  BY <3>1, <4>1, <1>2, <1>5, <2>3, <2>4, <2>5
    <3>2. CASE e # d  BY <3>2, <2>3, <2>4 DEF AskedIsAccountedFor
    <3>3. QED  BY <3>1, <3>2
  <2>8. QED  BY <2>2, <2>3, <2>4, <2>6, <2>7
<1>6. QED  BY <1>1, <1>3, <1>4, <1>5 DEF EntryFor

(* The end of a fetch of robots.txt, a failed one too: everybody who waited for
   it goes on by the entry now cached, and nobody waits for it any longer. *)
LEMMA SettleStep ==
  ASSUME CrawlInv, NEW c \in Clients, NEW reply \in Replies, Settle(c, reply),
         fetch[c].pc = "robots"
  PROVE  /\ fetch' \in [Clients -> FetchState]
         /\ inflight' \in [Domains -> Clients \cup {Nobody}]
         /\ cache' \in [Domains -> Replies \cup {Unknown}]
         /\ JoinedFetchesRun'
         /\ AskedIsAccountedFor'
         /\ \A o \in Clients : fetch'[o].pc = "page" /\ fetch[o].pc # "page" =>
              /\ cache'[fetch'[o].site] = reply
              /\ reply # Failed
              /\ reply.kind = "rules" => fetch'[o].page \in reply.allows
<1> USE DEF CrawlInv
<1>1. PICK d \in Domains : d = fetch[c].site  BY DEF TypeOK, FetchState
<1>2. /\ fetch \in [Clients -> FetchState] /\ asked \in [Domains -> Nat] /\ expired[d] \in Nat
      /\ inflight \in [Domains -> Clients \cup {Nobody}]
      /\ cache \in [Domains -> Replies \cup {Unknown}]
  BY LimitsAssumption DEF TypeOK
<1>3. /\ cache' = [cache EXCEPT ![d] = reply]
      /\ inflight' = [inflight EXCEPT ![d] = Nobody]
      /\ fetch' = [o \in Clients |->
           IF o = c \/ (fetch[o].pc = "joined" /\ fetch[o].site = d)
             THEN Decided(fetch[o], reply) ELSE fetch[o]]
      /\ UNCHANGED <<cursor, asked, expired>>
  BY <1>1 DEF Settle, Told
<1>4. \A o \in Clients : fetch[o] \in FetchState  BY <1>2
<1>5. \A o \in Clients :
        /\ o = c \/ (fetch[o].pc = "joined" /\ fetch[o].site = d) => fetch'[o] = Decided(fetch[o], reply)
        /\ ~ (o = c \/ (fetch[o].pc = "joined" /\ fetch[o].site = d)) => fetch'[o] = fetch[o]
  BY <1>3
<1>6. fetch' \in [Clients -> FetchState]
  BY <1>3, <1>4, DecidedState
<1>7. /\ inflight' \in [Domains -> Clients \cup {Nobody}] /\ inflight'[d] = Nobody
      /\ cache' \in [Domains -> Replies \cup {Unknown}] /\ cache'[d] = reply
      /\ \A e \in Domains : e # d => inflight'[e] = inflight[e] /\ cache'[e] = cache[e]
  BY <1>2, <1>3
<1>8. inflight[d] = c /\ c # Nobody /\ reply # Unknown
  BY <1>1, FailedIsReply, NamesAssumption DEF JoinedFetchesRun
<1>9. \A o \in Clients : fetch'[o].pc \in {"robots", "joined"} =>
        o # c /\ fetch'[o] = fetch[o] /\ ~ (fetch[o].pc = "joined" /\ fetch[o].site = d)
  <2> SUFFICES ASSUME NEW o \in Clients, fetch'[o].pc \in {"robots", "joined"}
               PROVE  o # c /\ fetch'[o] = fetch[o] /\ ~ (fetch[o].pc = "joined" /\ fetch[o].site = d)
    OBVIOUS
  <2>1. fetch'[o] # Decided(fetch[o], reply)  BY <1>4, DecidedState
  <2>2. QED  BY <2>1, <1>5
<1>10. JoinedFetchesRun'
  <2>1. ASSUME NEW e \in Domains, inflight'[e] # Nobody
        PROVE  fetch'[inflight'[e]].pc = "robots" /\ fetch'[inflight'[e]].site = e
    <3>1. e # d /\ inflight'[e] = inflight[e]  BY <2>1, <1>7
    <3>2. PICK o \in Clients : o = inflight[e] /\ fetch[o].pc = "robots" /\ fetch[o].site = e
      BY <1>2, <2>1, <3>1 DEF JoinedFetchesRun
    <3>3. fetch'[o] = fetch[o]  BY <1>1, <1>5, <3>1, <3>2
    <3>4. QED  BY <3>1, <3>2, <3>3
  <2>2. ASSUME NEW o \in Clients, fetch'[o].pc = "robots"
        PROVE  inflight'[fetch'[o].site] = o
    <3>1. o # c /\ fetch'[o] = fetch[o]  BY <2>2, <1>9
    <3>2. inflight[fetch[o].site] = o /\ fetch[o].site \in Domains
      BY <2>2, <3>1, <1>4 DEF JoinedFetchesRun, FetchState
    <3>3. QED  BY <3>1, <3>2, <1>7, <1>8
  <2>3. ASSUME NEW o \in Clients, fetch'[o].pc = "joined"
        PROVE  inflight'[fetch'[o].site] # Nobody
    <3>1. fetch'[o] = fetch[o] /\ fetch[o].site # d  BY <2>3, <1>9
    <3>2. inflight[fetch[o].site] # Nobody /\ fetch[o].site \in Domains
      BY <2>3, <3>1, <1>4 DEF JoinedFetchesRun, FetchState
    <3>3. QED  BY <3>1, <3>2, <1>7
  <2>4. QED  BY <2>1, <2>2, <2>3 DEF JoinedFetchesRun
<1>11. AskedIsAccountedFor'
  <2> SUFFICES ASSUME NEW e \in Domains
               PROVE  /\ inflight'[e] # Nobody => cache'[e] = Unknown
                      /\ asked'[e] <= expired'[e]
                           + (IF cache'[e] = Unknown /\ inflight'[e] = Nobody THEN 0 ELSE 1)
    BY DEF AskedIsAccountedFor
  <2>1. asked' = asked /\ expired' = expired  BY <1>3
  <2>2. CASE e = d
    <3>1. asked[d] <= expired[d] + 1  BY <1>8 DEF AskedIsAccountedFor
    <3>2. QED  BY <3>1, <2>1, <2>2, <1>7, <1>8
  <2>3. CASE e # d  BY <2>1, <2>3, <1>7 DEF AskedIsAccountedFor
  <2>4. QED  BY <2>2, <2>3
<1>12. ASSUME NEW o \in Clients, fetch'[o].pc = "page", fetch[o].pc # "page"
       PROVE  /\ cache'[fetch'[o].site] = reply
              /\ reply # Failed
              /\ reply.kind = "rules" => fetch'[o].page \in reply.allows
  <2>1. fetch'[o] = Decided(fetch[o], reply) /\ fetch[o].site = d
    BY <1>1, <1>5, <1>12
  <2>2. QED  BY <2>1, <1>4, <1>7, <1>12, DecidedState
<1>13. QED  BY <1>6, <1>7, <1>10, <1>11, <1>12
-----------------------------------------------------------------------------
(* The step of PagesAreAllowed. *)
GoodMoves ==
  \A c \in Clients : SetsOut(c) =>
    /\ Entry(c) \notin {Unknown, Failed}
    /\ Entry(c).kind = "rules" => fetch'[c].page \in Entry(c).allows

(* A step of the pool seen from the limiter. *)
LEMMA LimiterPart ==
  ASSUME CrawlInv, [LimiterNext]_limiterVars,
         fetch' \in [Clients -> FetchState],
         cache' \in [Domains -> Replies \cup {Unknown}],
         inflight' \in [Domains -> Clients \cup {Nobody}],
         cursor' \in 1 .. (Len(Batch) + 1),
         asked' \in [Domains -> Nat],
         expired' \in [Domains -> 0 .. MaxExpiries],
         faults' \in 0 .. MaxFaults,
         JoinedFetchesRun', AskedIsAccountedFor'
  PROVE  CrawlInv'
<1>1. LimiterInv'  BY LimiterStep DEF CrawlInv
<1>2. QED  BY <1>1 DEF CrawlInv, TypeOK, LimiterInv

LEMMA TakeStep ==
  ASSUME CrawlInv, NEW c \in Clients, take(c)
  PROVE  CrawlInv' /\ GoodMoves
<1>1. [Idle EXCEPT !.site = Batch[cursor]] \in FetchState
  <2>1. cursor \in 1 .. Len(Batch)
    <3>1. cursor \in 1 .. (Len(Batch) + 1) /\ cursor <= Len(Batch) /\ Len(Batch) \in Nat
      BY BatchAssumption, LenProperties DEF take, CrawlInv, TypeOK
    <3>2. QED  BY <3>1
  <2>2. Batch[cursor] \in Domains  BY <2>1, BatchAssumption, ElementOfSeq
  <2>3. QED  BY <2>2, IdleIsState DEF FetchState
<1>2. PICK f \in FetchState : EntryFor(c, f)  BY <1>1 DEF take
<1>3. /\ fetch[c].pc = "idle" /\ cursor' = cursor + 1 /\ cursor <= Len(Batch)
      /\ UNCHANGED <<cache, expired, faults>> /\ UNCHANGED limiterVars
  BY DEF take
<1>4. /\ fetch' \in [Clients -> FetchState]
      /\ inflight' \in [Domains -> Clients \cup {Nobody}]
      /\ asked' \in [Domains -> Nat]
      /\ JoinedFetchesRun' /\ AskedIsAccountedFor'
      /\ \A o \in Clients \ {c} : fetch'[o] = fetch[o]
      /\ fetch'[c].pc = "page" =>
           /\ cache[fetch'[c].site] # Unknown
           /\ cache[fetch'[c].site] # Failed
           /\ cache[fetch'[c].site].kind = "rules"
                => fetch'[c].page \in cache[fetch'[c].site].allows
  BY <1>2, <1>3, EntryForStep
<1>5. cursor' \in 1 .. (Len(Batch) + 1)
  <2>1. Len(Batch) \in Nat /\ cursor \in 1 .. (Len(Batch) + 1)
    BY BatchAssumption, LenProperties DEF CrawlInv, TypeOK
  <2>2. QED  BY <1>3, <2>1
<1>6. CrawlInv'
  <2>1. TypeOK  BY DEF CrawlInv
  <2>2. QED  BY <1>3, <1>4, <1>5, <2>1, LimiterPart DEF TypeOK
<1>7. GoodMoves  BY <1>3, <1>4 DEF GoodMoves, SetsOut, Entry
<1>8. QED  BY <1>6, <1>7

LEMMA FollowStep ==
  ASSUME CrawlInv, NEW c \in Clients, follow(c)
  PROVE  CrawlInv' /\ GoodMoves
<1>1. fetch[c] \in FetchState /\ TypeOK  BY DEF CrawlInv, TypeOK
<1>3. /\ fetch[c].pc = "check" /\ EntryFor(c, fetch[c])
      /\ UNCHANGED <<cache, cursor, expired, faults>> /\ UNCHANGED limiterVars
  BY DEF follow
<1>4. /\ fetch' \in [Clients -> FetchState]
      /\ inflight' \in [Domains -> Clients \cup {Nobody}]
      /\ asked' \in [Domains -> Nat]
      /\ JoinedFetchesRun' /\ AskedIsAccountedFor'
      /\ \A o \in Clients \ {c} : fetch'[o] = fetch[o]
      /\ fetch'[c].pc = "page" =>
           /\ cache[fetch'[c].site] # Unknown
           /\ cache[fetch'[c].site] # Failed
           /\ cache[fetch'[c].site].kind = "rules"
                => fetch'[c].page \in cache[fetch'[c].site].allows
  BY <1>1, <1>3, EntryForStep
<1>6. CrawlInv'  BY <1>1, <1>3, <1>4, LimiterPart DEF TypeOK
<1>7. GoodMoves  BY <1>3, <1>4 DEF GoodMoves, SetsOut, Entry
<1>8. QED  BY <1>6, <1>7

(* A get that goes on, or a page that ends: a client that neither fetches nor
   awaits a robots.txt before or after, or fetches the same one, is moved. *)
LEMMA MoveStep ==
  ASSUME CrawlInv, NEW c \in Clients, NEW f \in FetchState,
         fetch' = [fetch EXCEPT ![c] = f],
         UNCHANGED <<cache, inflight, cursor, asked, expired>>,
         faults' \in 0 .. MaxFaults,
         [LimiterNext]_limiterVars,
         \/ f.pc = fetch[c].pc /\ f.site = fetch[c].site
         \/ fetch[c].pc = "page" /\ f.pc \in {"idle", "check"}
  PROVE  CrawlInv' /\ GoodMoves
<1>1. TypeOK /\ fetch \in [Clients -> FetchState]  BY DEF CrawlInv, TypeOK
<1>2. fetch' \in [Clients -> FetchState] /\ fetch'[c] = f
      /\ \A o \in Clients \ {c} : fetch'[o] = fetch[o]
  BY <1>1
<1>3. JoinedFetchesRun' /\ AskedIsAccountedFor'
  BY <1>2, GateAlone
<1>4. CrawlInv'  BY <1>1, <1>2, <1>3, LimiterPart DEF TypeOK
<1>5. GoodMoves  BY <1>2 DEF GoodMoves, SetsOut
<1>6. QED  BY <1>4, <1>5

(* client.get ends with an answer for the gate. *)
LEMMA SettleAll ==
  ASSUME CrawlInv, NEW c \in Clients, NEW reply \in Replies, Settle(c, reply),
         fetch[c].pc = "robots", faults' \in 0 .. MaxFaults, [LimiterNext]_limiterVars
  PROVE  CrawlInv' /\ GoodMoves
<1>1. TypeOK /\ UNCHANGED <<cursor, asked, expired>>  BY DEF CrawlInv, Settle
<1>2. CrawlInv'  BY <1>1, SettleStep, LimiterPart DEF TypeOK
<1>3. GoodMoves
  <2> SUFFICES ASSUME NEW o \in Clients, SetsOut(o)
               PROVE  /\ Entry(o) \notin {Unknown, Failed}
                      /\ Entry(o).kind = "rules" => fetch'[o].page \in Entry(o).allows
    BY DEF GoodMoves
  <2>1. /\ Entry(o) = reply /\ reply # Failed
        /\ reply.kind = "rules" => fetch'[o].page \in reply.allows
    BY SettleStep DEF SetsOut, Entry
  <2>2. QED  BY <2>1, FailedIsReply
<1>4. QED  BY <1>2, <1>3

LEMMA RecordStep ==
  ASSUME CrawlInv, NEW c \in Clients, fetch[c].pc = "page", Record(c),
         faults' \in 0 .. MaxFaults, [LimiterNext]_limiterVars
  PROVE  CrawlInv' /\ GoodMoves
<1>1. Idle.pc = "idle"  BY DEF Idle
<1>2. QED  BY <1>1, IdleIsState, MoveStep DEF Record

LEMMA FailStep ==
  ASSUME CrawlInv, NEW c \in Clients, Fail(c),
         faults' \in 0 .. MaxFaults, [LimiterNext]_limiterVars
  PROVE  CrawlInv' /\ GoodMoves
<1>1. CASE fetch[c].pc = "robots" /\ Settle(c, Failed)
  BY <1>1, FailedIsReply, SettleAll
<1>2. CASE fetch[c].pc = "page" /\ Record(c)
  BY <1>2, RecordStep
<1>3. QED  BY <1>1, <1>2 DEF Fail

(* A hop ends: redirected, failed, rejected or answered. *)
LEMMA EndsStep ==
  ASSUME CrawlInv, NEW c \in Clients, Ends(c)
  PROVE  CrawlInv' /\ GoodMoves
<1> USE DEF CrawlInv
<1>1. fetch[c] \in FetchState /\ faults \in 0 .. MaxFaults  BY DEF TypeOK
<1>2. Fault => faults' \in 0 .. MaxFaults  BY <1>1, LimitsAssumption DEF Fault
<1>3. release(c) => [LimiterNext]_limiterVars  BY DEF LimiterNext
<1>4. ASSUME NEW d \in Domains, redirected(c, d)  PROVE CrawlInv' /\ GoodMoves
  <2>1. PICK f : f = [fetch[c] EXCEPT !.hop = @ + 1, !.at = d]  OBVIOUS
  <2>2. f \in FetchState /\ f.pc = fetch[c].pc /\ f.site = fetch[c].site
    <3>1. fetch[c].hop \in 0 .. MaxRedirects /\ fetch[c].hop < MaxRedirects /\ MaxRedirects \in Nat
      BY <1>1, <1>4, LimitsAssumption DEF FetchState, redirected
    <3>2. fetch[c].hop + 1 \in 0 .. MaxRedirects  BY <3>1
    <3>3. QED  BY <1>1, <2>1, <3>2 DEF FetchState
  <2>3. fetch' = [fetch EXCEPT ![c] = f]  BY <1>4, <2>1 DEF redirected
  <2>4. QED  BY <1>2, <1>3, <1>4, <2>2, <2>3, MoveStep DEF redirected
<1>5. CASE fails(c)
  <2>1. CASE /\ fetch' = [fetch EXCEPT ![c] = Begin(@, @.pc, @.attempt + 1)]
             /\ UNCHANGED <<cache, inflight, cursor, asked, expired>>
             /\ fetch[c].attempt < RetriesOf(c)
    <3>1. PICK f : f = Begin(fetch[c], fetch[c].pc, fetch[c].attempt + 1)  OBVIOUS
    <3>2. f \in FetchState /\ f.pc = fetch[c].pc /\ f.site = fetch[c].site
      <4>1. 0 \in 0 .. MaxRedirects  BY LimitsAssumption
      <4>2. fetch[c].attempt + 1 \in Nat /\ fetch[c].site \in Domains  BY <1>1 DEF FetchState
      <4>3. f = [fetch[c] EXCEPT !.pc = fetch[c].pc, !.at = fetch[c].site, !.hop = 0,
                                 !.attempt = fetch[c].attempt + 1]
        BY <3>1 DEF Begin
      <4>4. QED  BY <1>1, <4>1, <4>2, <4>3 DEF FetchState
    <3>3. fetch' = [fetch EXCEPT ![c] = f]  BY <2>1, <3>1
    <3>4. QED  BY <1>2, <1>3, <1>5, <2>1, <3>2, <3>3, MoveStep DEF fails
  <2>2. CASE Fail(c)  BY <1>2, <1>3, <1>5, <2>2, FailStep DEF fails
  <2>3. QED  BY <1>5, <2>1, <2>2 DEF fails
<1>6. CASE rejected(c)  BY <1>2, <1>3, <1>6, FailStep DEF rejected
<1>7. ASSUME NEW reply \in Replies, answered_robots(c, reply)  PROVE CrawlInv' /\ GoodMoves
  BY <1>1, <1>3, <1>7, SettleAll DEF answered_robots
<1>8. CASE answered_page(c)
  <2>1. CASE Record(c)  BY <1>1, <1>3, <1>8, <2>1, RecordStep DEF answered_page
  <2>2. CASE /\ fetch' = [fetch EXCEPT ![c].pc = "check", ![c].page = "shell", ![c].site = fetch[c].at]
             /\ UNCHANGED <<cache, inflight, cursor, asked, expired>>
    <3>1. PICK f : f = [fetch[c] EXCEPT !.pc = "check", !.page = "shell", !.site = fetch[c].at]  OBVIOUS
    <3>2. f \in FetchState /\ f.pc = "check"
      BY <1>1, <3>1 DEF FetchState, Pages
    <3>3. fetch' = [fetch EXCEPT ![c] = f]  BY <2>2, <3>1
    <3>4. QED  BY <1>1, <1>3, <1>8, <2>2, <3>2, <3>3, MoveStep DEF answered_page
  <2>3. QED  BY <1>8, <2>1, <2>2 DEF answered_page
<1>9. QED  BY <1>4, <1>5, <1>6, <1>7, <1>8 DEF Ends

(* A step of the limiter, or none, that the gate and the pool do not see. *)
LEMMA LimiterOnly ==
  ASSUME CrawlInv, UNCHANGED crawlVars, [LimiterNext]_limiterVars
  PROVE  CrawlInv' /\ GoodMoves
<1>1. TypeOK  BY DEF CrawlInv
<1>2. JoinedFetchesRun' /\ AskedIsAccountedFor'
  BY <1>1, GateAlone DEF crawlVars, TypeOK
<1>3. CrawlInv'  BY <1>1, <1>2, LimiterPart DEF crawlVars, TypeOK
<1>4. GoodMoves  BY DEF GoodMoves, SetsOut, crawlVars
<1>5. QED  BY <1>3, <1>4

LEMMA ExpireStep ==
  ASSUME CrawlInv, NEW d \in Domains, expire(d)
  PROVE  CrawlInv' /\ GoodMoves
<1> USE DEF CrawlInv
<1>1. /\ cache[d] # Unknown /\ expired[d] < MaxExpiries
      /\ cache' = [cache EXCEPT ![d] = Unknown]
      /\ expired' = [expired EXCEPT ![d] = @ + 1]
      /\ UNCHANGED <<fetch, inflight, cursor, asked, faults>> /\ UNCHANGED limiterVars
  BY DEF expire
<1>2. expired[d] \in 0 .. MaxExpiries /\ MaxExpiries \in Nat
      /\ expired \in [Domains -> 0 .. MaxExpiries] /\ cache \in [Domains -> Replies \cup {Unknown}]
      /\ asked \in [Domains -> Nat]
  BY LimitsAssumption DEF TypeOK
<1>3. expired' \in [Domains -> 0 .. MaxExpiries] /\ cache' \in [Domains -> Replies \cup {Unknown}]
  BY <1>1, <1>2
<1>4. JoinedFetchesRun'  BY <1>1 DEF JoinedFetchesRun
<1>5. AskedIsAccountedFor'
  <2> SUFFICES ASSUME NEW e \in Domains
               PROVE  /\ inflight'[e] # Nobody => cache'[e] = Unknown
                      /\ asked'[e] <= expired'[e]
                           + (IF cache'[e] = Unknown /\ inflight'[e] = Nobody THEN 0 ELSE 1)
    BY DEF AskedIsAccountedFor
  <2>1. CASE e = d
    <3>1. asked[d] <= expired[d] + 1 /\ inflight[d] = Nobody  BY <1>1 DEF AskedIsAccountedFor
    <3>2. expired'[d] = expired[d] + 1 /\ cache'[d] = Unknown  BY <1>1, <1>2
    <3>3. QED  BY <2>1, <3>1, <3>2, <1>1, <1>2
  <2>2. CASE e # d
    <3>1. expired'[e] = expired[e] /\ cache'[e] = cache[e]  BY <2>2, <1>1, <1>2
    <3>2. QED  BY <3>1, <1>1 DEF AskedIsAccountedFor
  <2>3. QED  BY <2>1, <2>2
<1>6. CrawlInv'  BY <1>1, <1>3, <1>4, <1>5, LimiterPart DEF TypeOK
<1>7. GoodMoves  BY <1>1 DEF GoodMoves, SetsOut
<1>8. QED  BY <1>6, <1>7

LEMMA CrawlStep == CrawlInv /\ [Next]_vars => CrawlInv' /\ GoodMoves
<1> SUFFICES ASSUME CrawlInv, [Next]_vars PROVE CrawlInv' /\ GoodMoves  OBVIOUS
<1>1. ASSUME NEW c \in Clients, hop(c)  PROVE CrawlInv' /\ GoodMoves
  <2>1. fetch[c].at \in Domains  BY DEF CrawlInv, TypeOK, FetchState
  <2>2. [LimiterNext]_limiterVars  BY <1>1, <2>1 DEF hop, LimiterNext
  <2>3. QED  BY <1>1, <2>2, LimiterOnly DEF hop
<1>2. ASSUME NEW c \in Clients, blocked(c)  PROVE CrawlInv' /\ GoodMoves
  <2>1. faults' \in 0 .. MaxFaults
    BY <1>2, LimitsAssumption DEF blocked, Fault, CrawlInv, TypeOK
  <2>2. QED  BY <1>2, <2>1, FailStep DEF blocked
<1>3. ASSUME NEW c \in Clients, Limiter(c)  PROVE CrawlInv' /\ GoodMoves
  BY <1>3, LimiterOnly DEF Limiter, LimiterNext
<1>4. CASE Clock  BY <1>4, LimiterOnly DEF Clock, LimiterNext
<1>5. CASE UNCHANGED vars  BY <1>5, LimiterOnly DEF vars
<1>6. CASE Next
  BY <1>1, <1>2, <1>3, <1>4, <1>6, TakeStep, FollowStep, EndsStep, ExpireStep DEF Next
<1>7. QED  BY <1>5, <1>6

LEMMA CrawlInvariant == Spec => []CrawlInv
BY InitCrawlInv, CrawlStep, PTL DEF Spec

(* Rows, maps and counters keep their types. *)
THEOREM CrawlTypes == Spec => []TypeOK
<1>1. CrawlInv => TypeOK  BY DEF CrawlInv
<1>2. QED  BY CrawlInvariant, <1>1, PTL

(* However the pool, the gate and the client use the limiter, no more requests
   are under way than there are slots, a slot is never lost or given twice, and
   the queue holds those who wait, once each. *)
THEOREM Slotted == Spec => []SlotsAreCounted
<1>1. CrawlInv => SlotsAreCounted  BY DEF CrawlInv, LimiterInv
<1>2. QED  BY CrawlInvariant, <1>1, PTL

(* Starts reserved for one domain are an interval apart. *)
THEOREM Spaced == Spec => []StartsAreSpaced
<1>1. CrawlInv => StartsAreSpaced  BY DEF CrawlInv, LimiterInv
<1>2. QED  BY CrawlInvariant, <1>1, PTL

(* Whoever awaits a shared fetch awaits one that runs, and it is the only one
   of its host. *)
THEOREM SharedFetch == Spec => []JoinedFetchesRun
<1>1. CrawlInv => JoinedFetchesRun  BY DEF CrawlInv
<1>2. QED  BY CrawlInvariant, <1>1, PTL

(* robots.txt is asked for once per host and expiry. *)
THEOREM AskedOnce == Spec => []RobotsAskedOnce
<1>1. CrawlInv => RobotsAskedOnce
  <2> SUFFICES ASSUME CrawlInv, NEW d \in Domains PROVE asked[d] <= 1 + expired[d]
    BY DEF RobotsAskedOnce
  <2>1. asked[d] \in Nat /\ expired[d] \in Nat
    BY LimitsAssumption DEF CrawlInv, TypeOK
  <2>2. asked[d] <= expired[d] \/ asked[d] <= expired[d] + 1
    <3>1. asked[d] <= expired[d] + (IF cache[d] = Unknown /\ inflight[d] = Nobody THEN 0 ELSE 1)
      BY DEF CrawlInv, AskedIsAccountedFor
    <3>2. CASE cache[d] = Unknown /\ inflight[d] = Nobody  BY <2>1, <3>1, <3>2
    <3>3. CASE ~ (cache[d] = Unknown /\ inflight[d] = Nobody)  BY <2>1, <3>1, <3>3
    <3>4. QED  BY <3>2, <3>3
  <2>3. QED  BY <2>1, <2>2
<1>2. QED  BY CrawlInvariant, <1>1, PTL

(* The gate is fail-closed for every page a client sets out for. *)
THEOREM FailClosed == Spec => PagesAreAllowed
<1>1. CrawlInv /\ [Next]_vars => [GoodMoves]_vars  BY CrawlStep
<1>2. QED  BY CrawlInvariant, <1>1, PTL DEF Spec, PagesAreAllowed, GoodMoves

-----------------------------------------------------------------------------
(* The review console. *)

(* What a call carries once its operation is known. *)
CallTyped(r) ==
  /\ r.op = "open" => \E i \in Items : r.to = {i} /\ (r.server = "done" => r.detail \in ReviewItem)
  /\ r.op = "email" => r.row \in Items \X Addresses /\ r.nonce \in Nonces

CallTypes == call \in [Calls -> Call] /\ \A c \in Calls : CallTyped(call[c])

ConsoleTypes == RestTypeOK /\ CallTypes

(* What most actions of the reviewer leave alone. *)
Beyond == <<server, screen, busy, call>>

-----------------------------------------------------------------------------
LEMMA UnusedIsCall == Unused \in Call /\ CallTyped(Unused)
<1>1. Unused \in Call  BY DEF Unused, Call
<1>2. CallTyped(Unused)  BY DEF Unused, CallTyped
<1>3. QED  BY <1>1, <1>2

LEMMA ScreenEmail ==
  ASSUME ConsoleTypes, NEW i \in Items, items[i] # Nothing, MxOk(i)
  PROVE  items[i] \in ReviewItem /\ items[i].email.row \in Items \X Addresses
BY DEF ConsoleTypes, RestTypeOK, CallTypes, MxOk, Lists, ReviewItem

LEMMA OneCall ==
  ASSUME ConsoleTypes, NEW c \in Calls, NEW r \in Call, CallTyped(r),
         call' = [call EXCEPT ![c] = r]
  PROVE  call' \in [Calls -> Call] /\ \A d \in Calls : CallTyped(call'[d])
BY DEF ConsoleTypes, RestTypeOK, CallTypes

LEMMA UnusedWith ==
  ASSUME NEW at \in {"done", "failed"}, NEW verdict \in {"none", "approved", "rejected"},
         NEW ok \in SUBSET Items, NEW told \in BOOLEAN
  PROVE  [Unused EXCEPT !.at = at, !.verdict = verdict, !.ok = ok, !.told = told] \in Call
BY DEF Unused, Call

LEMMA OverTyped ==
  ASSUME NEW r \in Call, CallTyped(r), NEW at \in {"done", "failed"}
  PROVE  Over(r, at) \in Call /\ CallTyped(Over(r, at))
<1>1. CASE r.server = "done"
  <2> DEFINE s == [Unused EXCEPT !.at = at, !.verdict = r.verdict, !.ok = r.ok, !.told = r.told]
  <2>1. r.verdict \in {"none", "approved", "rejected"} /\ r.ok \in SUBSET Items /\ r.told \in BOOLEAN
    BY DEF Call
  <2>2. s \in Call  BY <2>1, UnusedWith
  <2>3. s.op = "none"  BY DEF Unused
  <2>4. Over(r, at) = s  BY <1>1 DEF Over
  <2>5. CallTyped(s)  BY <2>3 DEF CallTyped
  <2>6. QED  BY <2>2, <2>4, <2>5
<1>2. CASE r.server # "done"
  <2> DEFINE s == [r EXCEPT !.at = at]
  <2>1. Over(r, at) = s  BY <1>2 DEF Over
  <2>2. s \in Call  BY DEF Call
  <2>3. s.op = r.op /\ s.row = r.row /\ s.nonce = r.nonce /\ s.server = r.server /\ s.to = r.to
        /\ s.detail = r.detail
    BY DEF Call
  <2>4. CallTyped(s)  BY <2>3 DEF CallTyped
  <2>5. QED  BY <2>1, <2>2, <2>4
<1>3. QED  BY <1>1, <1>2

LEMMA HeardIsCall ==
  ASSUME NEW r \in Call
  PROVE  Heard(r) \in Call
BY DEF Heard, Call

LEMMA HeardTyped ==
  ASSUME NEW r \in Call, CallTyped(r)
  PROVE  Heard(r) \in Call /\ CallTyped(Heard(r))
<1>1. Heard(r) \in Call  BY HeardIsCall
<1>2. /\ Heard(r).op = r.op /\ Heard(r).row = r.row /\ Heard(r).nonce = r.nonce /\ Heard(r).server = r.server
      /\ Heard(r).to = r.to /\ Heard(r).detail = r.detail
  BY DEF Heard, Call
<1>3. QED  BY <1>1, <1>2 DEF CallTyped

LEMMA StartedTyped ==
  ASSUME NEW r \in Call, r.op \notin {"open", "email"}, NEW b \in BOOLEAN
  PROVE  LET s == [r EXCEPT !.at = "reading", !.list = Nothing, !.leads = Nothing, !.alone = b]
         IN  s \in Call /\ CallTyped(s)
<1> DEFINE s == [r EXCEPT !.at = "reading", !.list = Nothing, !.leads = Nothing, !.alone = b]
<1>1. s \in Call  BY DEF Call
<1>2. s.op = r.op  BY DEF Call
<1>3. QED  BY <1>1, <1>2 DEF CallTyped

LEMMA AccompaniedTyped ==
  ASSUME NEW r \in Call, CallTyped(r)
  PROVE  [r EXCEPT !.alone = FALSE] \in Call /\ CallTyped([r EXCEPT !.alone = FALSE])
<1> DEFINE s == [r EXCEPT !.alone = FALSE]
<1>1. s \in Call  BY DEF Call
<1>2. s.op = r.op /\ s.row = r.row /\ s.nonce = r.nonce /\ s.server = r.server /\ s.to = r.to
      /\ s.detail = r.detail
  BY DEF Call
<1>3. QED  BY <1>1, <1>2 DEF CallTyped

LEMMA ReadingTyped ==
  ASSUME ConsoleTypes, NEW c \in Calls, NEW r \in Call, r.op \notin {"open", "email"}, StartReading(c, r)
  PROVE  /\ call' \in [Calls -> Call] /\ \A d \in Calls : CallTyped(call'[d])
         /\ loading' = TRUE
<1>1. \A d \in Calls : call'[d] \in Call /\ CallTyped(call'[d])
  <2> TAKE d \in Calls
  <2>1. CASE d = c
    <3>1. call'[d] = [r EXCEPT !.at = "reading", !.list = Nothing, !.leads = Nothing,
                               !.alone = \A e \in Calls \ {c} : ~Reading(e)]
      BY <2>1 DEF StartReading
    <3>2. (\A e \in Calls \ {c} : ~Reading(e)) \in BOOLEAN  OBVIOUS
    <3>3. QED  BY <3>1, <3>2, StartedTyped
  <2>2. CASE d # c /\ Reading(d)
    <3>1. call'[d] = [call[d] EXCEPT !.alone = FALSE]  BY <2>2 DEF StartReading
    <3>2. QED  BY <3>1, AccompaniedTyped DEF ConsoleTypes, RestTypeOK, CallTypes
  <2>3. CASE d # c /\ ~Reading(d)
    <3>1. call'[d] = call[d]  BY <2>3 DEF StartReading
    <3>2. QED  BY <3>1 DEF ConsoleTypes, RestTypeOK, CallTypes
  <2>4. QED  BY <2>1, <2>2, <2>3
<1>2. call' = [d \in Calls |-> call'[d]] /\ loading' = TRUE  BY DEF StartReading
<1>3. QED  BY <1>1, <1>2

LEMMA ServersItemTyped ==
  ASSUME ConsoleTypes, NEW i \in Items
  PROVE  /\ mapListItem(i) \in ReviewItem
         /\ \A n \in Nonces \cup {0} : mapDetail(i, n) \in ReviewItem
BY DEF ConsoleTypes, RestTypeOK, CallTypes, mapListItem, mapDetail, ReviewItem, Statuses

LEMMA ConsoleTypesInit == ConsoleInit => ConsoleTypes
<1> SUFFICES ASSUME ConsoleInit PROVE ConsoleTypes  OBVIOUS
<1>1. [Unused EXCEPT !.op = "refresh", !.at = "reading"] \in Call
      /\ CallTyped([Unused EXCEPT !.op = "refresh", !.at = "reading"])
  BY DEF Unused, Call, CallTyped
<1>2. call \in [Calls -> Call] /\ \A c \in Calls : CallTyped(call[c])
  BY <1>1, UnusedIsCall DEF ConsoleInit
<1>3. items \in Lists  BY DEF ConsoleInit, Lists
<1>4. QED  BY <1>2, <1>3, ConsoleAssumption DEF ConsoleInit, ConsoleTypes, RestTypeOK, CallTypes, Statuses

-----------------------------------------------------------------------------
(* Types are kept. *)

Pointing ==
  \/ \E i \in Items : move(i) \/ toggleSelect(i)
  \/ \E ids \in SUBSET Items : openReject(ids)
  \/ close_drawer \/ close_dialog \/ dismissNotice

LEMMA PointingBeyond == Pointing => UNCHANGED Beyond
BY DEF Pointing, Beyond, move, toggleSelect, openReject, close_drawer, close_dialog, dismissNotice

LEMMA PointingTypes == ASSUME ConsoleTypes, Pointing PROVE ConsoleTypes'
<1>1. UNCHANGED Beyond  BY PointingBeyond
<1>2. openId' \in Items \cup {Nothing} /\ selected' \subseteq Items /\ dialog' \subseteq Items
      /\ notice' \in {"none", "error", "bulk_partial"}
  BY DEF ConsoleTypes, RestTypeOK, CallTypes, Pointing, pointer, move, toggleSelect, openReject, close_drawer,
         close_dialog, dismissNotice
<1>3. \A d \in Calls : CallTyped(call'[d])  BY <1>1 DEF ConsoleTypes, CallTypes, Beyond, CallTyped
<1>4. RestTypeOK'
  BY <1>1, <1>2 DEF ConsoleTypes, RestTypeOK, CallTypes, Beyond, server, screen
<1>5. QED  BY <1>1, <1>3, <1>4 DEF ConsoleTypes, CallTypes, CallTyped, Beyond

LEMMA OneCallTypes ==
  ASSUME CallTypes, NEW c \in Calls, NEW r, r \in Call /\ CallTyped(r), call' = [call EXCEPT ![c] = r]
  PROVE  CallTypes'
<1>1. call' \in [Calls -> Call]  BY DEF CallTypes
<1>2. \A d \in Calls : CallTyped(call'[d])  BY DEF CallTypes
<1>3. QED  BY <1>1, <1>2 DEF CallTypes, CallTyped

LEMMA ReviewerTypes ==
  ASSUME ConsoleTypes, NEW c \in Calls,
         \/ refresh(c) \/ confirm_reject(c)
         \/ \E i \in Items : openItem(c, i) \/ approve(c, i)
         \/ \E i \in Items, a \in Addresses : submitEmail(c, i, a)
  PROVE  ConsoleTypes'
<1> USE DEF ConsoleTypes
<1>1. CASE refresh(c)
  <2>1. [Unused EXCEPT !.op = "refresh"] \in Call /\ [Unused EXCEPT !.op = "refresh"].op = "refresh"
    BY DEF Unused, Call
  <2>2. call' \in [Calls -> Call] /\ (\A d \in Calls : CallTyped(call'[d])) /\ loading' = TRUE
    BY <1>1, <2>1, ReadingTyped DEF refresh
  <2>3. RestTypeOK'  BY <1>1, <2>2 DEF RestTypeOK, refresh, server, pointer
  <2>4. QED  BY <2>2, <2>3 DEF CallTypes, CallTyped
<1>2. CASE confirm_reject(c)
  <2> DEFINE op == IF Cardinality(dialog) = 1 THEN "decide" ELSE "bulk"
             r == [Unused EXCEPT !.op = op, !.at = "waiting", !.server = "todo", !.to = dialog, !.left = dialog,
                                 !.verdict = "rejected", !.row = Nothing]
  <2>0. op \in {"decide", "bulk"} /\ dialog \in SUBSET Items  BY DEF RestTypeOK
  <2>1. r \in Call /\ r.op = op
    <3> HIDE DEF op
    <3>1. QED  BY <2>0 DEF Unused, Call
  <2>2. call' = [call EXCEPT ![c] = r] /\ busy' = TRUE  BY <1>2 DEF confirm_reject, Decide
  <2>3. CallTyped(r)
    <3> HIDE DEF r, op
    <3>1. QED  BY <2>0, <2>1 DEF CallTyped
  <2>4. CallTypes'
    <3> HIDE DEF r
    <3>1. QED  BY <2>1, <2>2, <2>3, OneCallTypes
  <2>5. RestTypeOK'
    <3> HIDE DEF r
    <3>1. QED  BY <1>2, <2>2 DEF RestTypeOK, confirm_reject, server, screen
  <2>6. QED  BY <2>4, <2>5
<1>3. ASSUME NEW i \in Items, openItem(c, i) PROVE ConsoleTypes'
  <2> DEFINE r == [Unused EXCEPT !.op = "open", !.at = "waiting", !.server = "todo", !.to = {i}]
  <2>1. r \in Call /\ r.op = "open" /\ r.to = {i} /\ r.server = "todo"  BY DEF Unused, Call
  <2>2. CallTyped(r)
    <3> HIDE DEF r
    <3>1. QED  BY <2>1 DEF CallTyped
  <2>3. call' = [call EXCEPT ![c] = r]  BY <1>3 DEF openItem
  <2>4. CallTypes'
    <3> HIDE DEF r
    <3>1. QED  BY <2>1, <2>2, <2>3, OneCallTypes
  <2>5. RestTypeOK'
    <3> HIDE DEF r
    <3>1. QED  BY <1>3 DEF RestTypeOK, openItem, server, screen
  <2>6. QED  BY <2>4, <2>5
<1>4. ASSUME NEW i \in Items, approve(c, i) PROVE ConsoleTypes'
  <2> DEFINE row == items[i].email.row
             r == [Unused EXCEPT !.op = "decide", !.at = "waiting", !.server = "todo", !.to = {i}, !.left = {i},
                                 !.verdict = "approved", !.row = row]
  <2>0. row \in Items \X Addresses
    <3>1. items[i] # Nothing /\ MxOk(i)
      BY <1>4 DEF approve, ApproveInTable, ApproveInDrawer, Visible, DrawerShown
    <3>2. QED  BY <3>1, ScreenEmail
  <2>1. r \in Call /\ r.op = "decide"
    <3> HIDE DEF row
    <3>1. QED  BY <2>0 DEF Unused, Call
  <2>2. call' = [call EXCEPT ![c] = r] /\ busy' = TRUE  BY <1>4 DEF approve, Decide
  <2>3. CallTyped(r)
    <3> HIDE DEF r
    <3>1. QED  BY <2>1 DEF CallTyped
  <2>4. CallTypes'
    <3> HIDE DEF r
    <3>1. QED  BY <2>1, <2>2, <2>3, OneCallTypes
  <2>5. RestTypeOK'
    <3> HIDE DEF r
    <3>1. QED  BY <1>4, <2>2 DEF RestTypeOK, approve, server, screen, pointer
  <2>6. QED  BY <2>4, <2>5
<1>5. ASSUME NEW i \in Items, NEW a \in Addresses, submitEmail(c, i, a) PROVE ConsoleTypes'
  <2> DEFINE n == items[i].nonce
             r == [Unused EXCEPT !.op = "email", !.at = "waiting", !.server = "todo", !.to = {i}, !.row = <<i, a>>,
                                 !.nonce = n]
             f == [Unused EXCEPT !.at = "failed"]
  <2>0. n \in Nonces \cup {0}
    BY <1>5 DEF RestTypeOK, submitEmail, DrawerShown, Lists, ReviewItem
  <2>1. f \in Call /\ f.op = "none"  BY DEF Unused, Call
  <2>2. n # 0 => r \in Call /\ r.op = "email" /\ r.row = <<i, a>> /\ r.nonce \in Nonces
    <3> HIDE DEF n
    <3>1. QED  BY <2>0 DEF Unused, Call
  <2>3. CallTyped(f) /\ (n # 0 => CallTyped(r))
    <3> HIDE DEF r, f, n
    <3>1. QED  BY <2>1, <2>2 DEF CallTyped
  <2>4. busy' \in BOOLEAN /\ notice' \in {"none", "error", "bulk_partial"}
        /\ (call' = [call EXCEPT ![c] = f] \/ (n # 0 /\ call' = [call EXCEPT ![c] = r]))
    BY <1>5 DEF RestTypeOK, submitEmail
  <2>5. CallTypes'
    <3> HIDE DEF r, f, n
    <3>1. QED  BY <2>1, <2>2, <2>3, <2>4, OneCallTypes
  <2>6. RestTypeOK'
    <3> HIDE DEF r, f, n
    <3>1. QED  BY <1>5, <2>4 DEF RestTypeOK, submitEmail, server, screen, pointer
  <2>7. QED  BY <2>5, <2>6
<1>6. QED  BY <1>1, <1>2, <1>3, <1>4, <1>5

LEMMA AnsweredIsCall ==
  ASSUME NEW r \in Call, NEW x \in {"todo", "entered", "done"}
  PROVE  /\ [r EXCEPT !.server = x] \in Call
         /\ \A it \in ReviewItem : [r EXCEPT !.server = x, !.detail = it] \in Call
         /\ \A ok \in SUBSET Items, mxOk \in BOOLEAN : [r EXCEPT !.server = x, !.ok = ok, !.mxOk = mxOk] \in Call
         /\ \A left, ok \in SUBSET Items : [r EXCEPT !.left = left, !.ok = ok, !.server = x] \in Call
<1> DEFINE s == [r EXCEPT !.server = x]
<1>1. s \in Call  BY DEF Call
<1>2. \A it \in ReviewItem : [s EXCEPT !.detail = it] \in Call
  <2> HIDE DEF s
  <2>1. QED  BY <1>1 DEF Call
<1>3. \A ok \in SUBSET Items : [s EXCEPT !.ok = ok] \in Call
  <2> HIDE DEF s
  <2>1. QED  BY <1>1 DEF Call
<1>4. ASSUME NEW t \in Call
      PROVE  /\ \A left \in SUBSET Items : [t EXCEPT !.left = left] \in Call
             /\ \A mxOk \in BOOLEAN : [t EXCEPT !.mxOk = mxOk] \in Call
  BY DEF Call
<1>5. \A it \in ReviewItem : [s EXCEPT !.detail = it] = [r EXCEPT !.server = x, !.detail = it]
  BY DEF Call
<1>6. ASSUME NEW ok \in SUBSET Items, NEW mxOk \in BOOLEAN
      PROVE  [r EXCEPT !.server = x, !.ok = ok, !.mxOk = mxOk] \in Call
  <2>1. [[s EXCEPT !.ok = ok] EXCEPT !.mxOk = mxOk] = [r EXCEPT !.server = x, !.ok = ok, !.mxOk = mxOk]
    BY DEF Call
  <2> HIDE DEF s
  <2>2. QED  BY <2>1, <1>3, <1>4
<1>7. ASSUME NEW left \in SUBSET Items, NEW ok \in SUBSET Items
      PROVE  [r EXCEPT !.left = left, !.ok = ok, !.server = x] \in Call
  <2>1. [[s EXCEPT !.ok = ok] EXCEPT !.left = left] = [r EXCEPT !.left = left, !.ok = ok, !.server = x]
    BY DEF Call
  <2> HIDE DEF s
  <2>2. QED  BY <2>1, <1>3, <1>4
<1>8. QED
  <2> HIDE DEF s
  <2>1. [r EXCEPT !.server = x] \in Call  BY <1>1 DEF s
  <2>2. QED  BY <2>1, <1>2, <1>5, <1>6, <1>7

LEMMA StillTyped ==
  ASSUME NEW r, NEW s, CallTyped(r), s.op = r.op, s.row = r.row, s.nonce = r.nonce, s.to = r.to,
         r.op = "open" => s.server = r.server /\ s.detail = r.detail
  PROVE  CallTyped(s)
BY DEF CallTyped

LEMMA ServerTypes ==
  ASSUME ConsoleTypes, Server
  PROVE  ConsoleTypes'
<1> USE DEF ConsoleTypes
<1>0. \A c \in Calls : call[c] \in Call /\ CallTyped(call[c])  BY DEF CallTypes
<1>1. ASSUME NEW c \in Calls, read_list(c) PROVE ConsoleTypes'
  <2> DEFINE l == [i \in Items |-> IF status[i] = "pending" THEN mapListItem(i) ELSE Nothing]
             r == [call[c] EXCEPT !.list = l]
  <2>1. l \in Lists  BY ServersItemTyped DEF Lists
  <2>2. r \in Call
    <3> HIDE DEF l
    <3>1. QED  BY <2>1, <1>0 DEF Call
  <2>3. CallTyped(r)
    <3> HIDE DEF l
    <3>1. r.op = call[c].op /\ r.row = call[c].row /\ r.nonce = call[c].nonce /\ r.to = call[c].to
          /\ r.server = call[c].server /\ r.detail = call[c].detail
      BY <1>0 DEF Call
    <3>2. QED  BY <3>1, <1>0, StillTyped
  <2>4. call' = [call EXCEPT ![c] = r]  BY <1>1 DEF read_list
  <2> HIDE DEF r
  <2>5. CallTypes'  BY <2>2, <2>3, <2>4, OneCallTypes
  <2>6. RestTypeOK'  BY <1>1 DEF RestTypeOK, read_list, server, screen, pointer
  <2>7. QED  BY <2>5, <2>6
<1>2. ASSUME NEW c \in Calls, read_leads(c) PROVE ConsoleTypes'
  <2> DEFINE l == {i \in Items : status[i] = "approved"}
             r == [call[c] EXCEPT !.leads = l]
  <2>1. l \in SUBSET Items  OBVIOUS
  <2>2. r \in Call
    <3> HIDE DEF l
    <3>1. QED  BY <2>1, <1>0 DEF Call
  <2>3. CallTyped(r)
    <3> HIDE DEF l
    <3>1. r.op = call[c].op /\ r.row = call[c].row /\ r.nonce = call[c].nonce /\ r.to = call[c].to
          /\ r.server = call[c].server /\ r.detail = call[c].detail
      BY <1>0 DEF Call
    <3>2. QED  BY <3>1, <1>0, StillTyped
  <2>4. call' = [call EXCEPT ![c] = r]  BY <1>2 DEF read_leads
  <2> HIDE DEF r
  <2>5. CallTypes'  BY <2>2, <2>3, <2>4, OneCallTypes
  <2>6. RestTypeOK'  BY <1>2 DEF RestTypeOK, read_leads, server, screen, pointer
  <2>7. QED  BY <2>5, <2>6
<1>3. ASSUME NEW c \in Calls, enter_contact_email(c) PROVE ConsoleTypes'
  <2> DEFINE row == call[c].row
             r(x) == [call[c] EXCEPT !.server = x]
  <2>1. row \in Items \X Addresses /\ call[c].op = "email" /\ call[c].nonce \in Nonces
    BY <1>0, <1>3 DEF enter_contact_email, CallTyped
  <2>2. \A x \in {"entered", "done"} : r(x) \in Call /\ CallTyped(r(x))
    <3> TAKE x \in {"entered", "done"}
    <3>1. r(x) \in Call  BY <1>0 DEF Call
    <3>2. r(x).op = call[c].op /\ r(x).row = call[c].row /\ r(x).nonce = call[c].nonce /\ r(x).to = call[c].to
      BY <1>0 DEF Call
    <3>3. QED  BY <3>1, <3>2, <2>1, <1>0, StillTyped
  <2>3. call' = [call EXCEPT ![c] = r("entered")] \/ call' = [call EXCEPT ![c] = r("done")]
    BY <1>3 DEF enter_contact_email
  <2>4. CallTypes'
    <3> HIDE DEF r
    <3>1. QED  BY <2>2, <2>3, OneCallTypes
  <2>5. /\ mail' \in [Items -> [Addresses -> {"none", "unknown", "ok", "failed"}]]
        /\ latest' \in [Items -> Addresses \cup {Nothing}]
        /\ nonce' \in [Nonces -> [item : Items \cup {Nothing}, used : BOOLEAN]]
    <3>1. PICK i \in Items, a \in Addresses : row = <<i, a>>  BY <2>1
    <3>2. CASE UNCHANGED <<nonce, mail, latest>>  BY <3>2 DEF RestTypeOK
    <3>3. CASE /\ nonce' = [nonce EXCEPT ![call[c].nonce].used = TRUE]
               /\ mail' = [mail EXCEPT ![row[1]][row[2]] = IF @ = "none" THEN "unknown" ELSE @]
               /\ latest' = [latest EXCEPT ![row[1]] = row[2]]
      <4>1. row[1] = i /\ row[2] = a  BY <3>1
      <4>2. latest' \in [Items -> Addresses \cup {Nothing}]  BY <3>3, <4>1 DEF RestTypeOK
      <4>3. nonce' \in [Nonces -> [item : Items \cup {Nothing}, used : BOOLEAN]]
        BY <3>3, <2>1 DEF RestTypeOK
      <4>4. mail' = [mail EXCEPT ![i][a] = IF mail[i][a] = "none" THEN "unknown" ELSE mail[i][a]]
        BY <3>3, <4>1
      <4>5. mail[i][a] \in {"none", "unknown", "ok", "failed"}  BY DEF RestTypeOK
      <4>6. (IF mail[i][a] = "none" THEN "unknown" ELSE mail[i][a]) \in {"none", "unknown", "ok", "failed"}
        BY <4>5
      <4>7. mail' \in [Items -> [Addresses -> {"none", "unknown", "ok", "failed"}]]
        BY <4>4, <4>6 DEF RestTypeOK
      <4>8. QED  BY <4>2, <4>3, <4>7
    <3>4. QED  BY <1>3, <3>2, <3>3 DEF enter_contact_email
  <2>6. RestTypeOK'  BY <1>3, <2>5 DEF RestTypeOK, enter_contact_email, screen, pointer
  <2>7. QED  BY <2>4, <2>6
<1>4. ASSUME NEW c \in Calls, NEW mxOk \in BOOLEAN, verify_contact_email(c, mxOk) PROVE ConsoleTypes'
  <2> DEFINE row == call[c].row
             r == [call[c] EXCEPT !.server = "done", !.ok = call[c].to, !.mxOk = mxOk]
  <2>1. row \in Items \X Addresses /\ call[c].op = "email"
    BY <1>0, <1>4 DEF verify_contact_email, CallTyped
  <2>2. r \in Call
    <3>1. call[c].to \in SUBSET Items  BY <1>0 DEF Call
    <3>2. QED  BY <1>0, <3>1, AnsweredIsCall
  <2>3. CallTyped(r)
    <3>1. r.op = call[c].op /\ r.row = call[c].row /\ r.nonce = call[c].nonce /\ r.to = call[c].to
      BY <1>0 DEF Call
    <3>2. QED  BY <3>1, <2>1, <1>0, StillTyped
  <2>4. call' = [call EXCEPT ![c] = r]  BY <1>4 DEF verify_contact_email
  <2> HIDE DEF r
  <2>5. CallTypes'  BY <2>2, <2>3, <2>4, OneCallTypes
  <2>6. /\ mail' \in [Items -> [Addresses -> {"none", "unknown", "ok", "failed"}]]
        /\ certified' \subseteq Items \X Addresses
    BY <1>4, <2>1 DEF RestTypeOK, verify_contact_email
  <2>7. RestTypeOK'  BY <1>4, <2>6 DEF RestTypeOK, verify_contact_email, screen, pointer
  <2>8. QED  BY <2>5, <2>7
<1>5. ASSUME NEW c \in Calls, NEW i \in Items, read_detail(c, i) PROVE ConsoleTypes'
  <2> DEFINE r(it) == [call[c] EXCEPT !.server = "done", !.detail = it]
  <2>1. call[c].op = "open" /\ \E j \in Items : call[c].to = {j}  BY <1>0, <1>5 DEF read_detail, CallTyped
  <2>2. \A it \in ReviewItem : r(it) \in Call /\ CallTyped(r(it))
    <3> TAKE it \in ReviewItem
    <3>1. r(it) \in Call  BY <1>0, AnsweredIsCall
    <3>2. r(it).op = call[c].op /\ r(it).to = call[c].to /\ r(it).detail = it
      BY <1>0 DEF Call
    <3>3. QED  BY <3>1, <3>2, <2>1, <1>0 DEF CallTyped
  <2>3. \E n \in Nonces \cup {0} : call' = [call EXCEPT ![c] = r(mapDetail(i, n))]
    BY <1>5 DEF read_detail
  <2>4. nonce' \in [Nonces -> [item : Items \cup {Nothing}, used : BOOLEAN]]
    <3>1. CASE UNCHANGED nonce  BY <3>1 DEF RestTypeOK
    <3>2. CASE \E n \in Nonces : nonce' = [nonce EXCEPT ![n].item = i]  BY <3>2 DEF RestTypeOK
    <3>3. QED  BY <1>5, <3>1, <3>2 DEF read_detail
  <2>5. CallTypes'
    <3> HIDE DEF r
    <3>1. PICK n \in Nonces \cup {0} : call' = [call EXCEPT ![c] = r(mapDetail(i, n))]  BY <2>3
    <3>2. mapDetail(i, n) \in ReviewItem  BY ServersItemTyped
    <3>3. QED  BY <2>2, <3>1, <3>2, OneCallTypes
  <2>6. RestTypeOK'  BY <1>5, <2>4 DEF RestTypeOK, read_detail, screen, pointer
  <2>7. QED  BY <2>5, <2>6
<1>6. ASSUME NEW c \in Calls, NEW i \in Items, decide_review_item(c, i) PROVE ConsoleTypes'
  <2> DEFINE left == call[c].left \ {i}
             end  == IF call[c].left = {i} THEN "done" ELSE call[c].server
             r(ok) == [call[c] EXCEPT !.left = left, !.ok = ok, !.server = end]
  <2>1. left \in SUBSET Items /\ end \in {"todo", "entered", "done"} /\ call[c].ok \in SUBSET Items
        /\ call[c].verdict \in {"none", "approved", "rejected"} /\ call[c].op \in {"decide", "bulk"}
    BY <1>0, <1>6 DEF Call, decide_review_item
  <2>2. \A ok \in SUBSET Items : r(ok) \in Call /\ CallTyped(r(ok))
    <3> HIDE DEF left, end
    <3> TAKE ok \in SUBSET Items
    <3>1. r(ok) \in Call  BY <1>0, <2>1, AnsweredIsCall
    <3>2. r(ok).op = call[c].op  BY <1>0 DEF Call
    <3>3. QED  BY <3>1, <3>2, <2>1 DEF CallTyped
  <2>3. \E ok \in SUBSET Items : call' = [call EXCEPT ![c] = r(ok)]
    <3>1. CASE call' = [call EXCEPT ![c].left = @ \ {i}, ![c].ok = @ \cup {i},
                                    ![c].server = IF call[c].left = {i} THEN "done" ELSE @]
      <4>1. call' = [call EXCEPT ![c] = r(call[c].ok \cup {i})]  BY <3>1
      <4>2. QED  BY <4>1, <2>1
    <3>2. CASE call' = [call EXCEPT ![c].left = @ \ {i},
                                    ![c].server = IF call[c].left = {i} THEN "done" ELSE @]
      <4>1. r(call[c].ok) = [call[c] EXCEPT !.left = left, !.server = end]  BY <1>0 DEF Call
      <4>2. call' = [call EXCEPT ![c] = r(call[c].ok)]  BY <3>2, <4>1
      <4>3. QED  BY <4>2, <2>1
    <3>3. QED  BY <1>6, <3>1, <3>2 DEF decide_review_item
  <2>4. status' \in [Items -> Statuses] /\ promoted' \subseteq Items
    BY <1>6, <2>1 DEF RestTypeOK, decide_review_item, Acceptable, Statuses
  <2>5. CallTypes'
    <3> HIDE DEF r
    <3>1. QED  BY <2>2, <2>3, OneCallTypes
  <2>6. RestTypeOK'
    <3> HIDE DEF r
    <3>1. QED  BY <1>6, <2>4 DEF RestTypeOK, decide_review_item, screen, pointer
  <2>7. QED  BY <2>5, <2>6
<1>7. ASSUME NEW i \in Items, elsewhere(i) PROVE ConsoleTypes'
  <2>1. status' \in [Items -> Statuses] /\ call' = call  BY <1>7 DEF RestTypeOK, elsewhere, Statuses
  <2>2. CallTypes'  BY <2>1 DEF CallTypes, CallTyped
  <2>3. RestTypeOK'  BY <1>7, <2>1 DEF RestTypeOK, elsewhere, screen, pointer
  <2>4. QED  BY <2>2, <2>3
<1>8. QED  BY <1>1, <1>2, <1>3, <1>4, <1>5, <1>6, <1>7 DEF Server

(* What a screen shows of an item whose details, or whose new address, have come. *)
LEMMA PatchTyped ==
  ASSUME ConsoleTypes, NEW i \in Items, NEW it, items[i] # Nothing => it \in ReviewItem
  PROVE  patchItem(i, it) \in Lists
<1>1. CASE items[i] = Nothing  BY <1>1 DEF patchItem, ConsoleTypes, RestTypeOK
<1>2. CASE items[i] # Nothing  BY <1>2 DEF patchItem, ConsoleTypes, RestTypeOK, Lists
<1>3. QED  BY <1>1, <1>2

LEMMA SettlesTypes ==
  ASSUME ConsoleTypes, NEW c \in Calls, Settles(c)
  PROVE  ConsoleTypes'
<1> USE DEF ConsoleTypes
<1>0. call[c] \in Call /\ CallTyped(call[c])  BY DEF CallTypes
<1>1. CASE detail_arrives(c)
  <2>1. PICK i \in Items : call[c].to = {i} /\ call[c].detail \in ReviewItem
    BY <1>0, <1>1 DEF detail_arrives, CallTyped
  <2>3. items' \in Lists
    <3> DEFINE it == [call[c].detail EXCEPT !.email = IF @ = Nothing THEN items[i].email ELSE @,
                                            !.nonce = IF @ = 0 THEN items[i].nonce ELSE @]
    <3>1. items[i] # Nothing => items[i] \in ReviewItem  BY DEF RestTypeOK, Lists
    <3>2. items[i] # Nothing => it \in ReviewItem  BY <2>1, <3>1 DEF ReviewItem
    <3>3. items' = IF items[i] = Nothing THEN patchItem(i, call[c].detail) ELSE patchItem(i, it)
      BY <1>1, <2>1 DEF detail_arrives
    <3> HIDE DEF it
    <3>4. QED  BY <2>1, <3>2, <3>3, PatchTyped
  <2>4. CallTypes'
    <3>1. Heard(call[c]) \in Call /\ CallTyped(Heard(call[c]))  BY <1>0, HeardTyped
    <3>2. Over(Heard(call[c]), "done") \in Call /\ CallTyped(Over(Heard(call[c]), "done"))
      BY <3>1, OverTyped
    <3>3. call' = [call EXCEPT ![c] = Over(Heard(call[c]), "done")]  BY <1>1 DEF detail_arrives
    <3>4. QED  BY <3>2, <3>3, OneCallTypes
  <2>5. RestTypeOK'  BY <1>1, <2>3 DEF RestTypeOK, detail_arrives, server, pointer
  <2>6. QED  BY <2>4, <2>5
<1>2. CASE email_arrives(c)
  <2> DEFINE i == call[c].row[1]
             it == [items[i] EXCEPT !.email = [row |-> call[c].row, mxOk |-> call[c].mxOk], !.nonce = 0]
  <2>1. call[c].row \in Items \X Addresses /\ i \in Items /\ call[c].mxOk \in BOOLEAN
    BY <1>0, <1>2 DEF email_arrives, CallTyped, Call
  <2>2. items' \in Lists
    <3>1. items[i] # Nothing => items[i] \in ReviewItem  BY <2>1 DEF RestTypeOK, Lists
    <3>2. items[i] # Nothing => it \in ReviewItem
      <4> HIDE DEF i
      <4>1. QED  BY <2>1, <3>1 DEF ReviewItem
    <3>3. items' = IF items[i] = Nothing THEN patchItem(i, Nothing) ELSE patchItem(i, it)
      BY <1>2 DEF email_arrives
    <3> HIDE DEF it, i
    <3>4. QED  BY <2>1, <3>2, <3>3, PatchTyped
  <2>3. CallTypes'
    <3>1. Heard(call[c]) \in Call /\ CallTyped(Heard(call[c]))  BY <1>0, HeardTyped
    <3>2. Over(Heard(call[c]), "done") \in Call /\ CallTyped(Over(Heard(call[c]), "done"))
      BY <3>1, OverTyped
    <3>3. call' = [call EXCEPT ![c] = Over(Heard(call[c]), "done")]  BY <1>2 DEF email_arrives
    <3>4. QED  BY <3>2, <3>3, OneCallTypes
  <2>4. RestTypeOK'  BY <1>2, <2>2 DEF RestTypeOK, email_arrives, server, pointer
  <2>5. QED  BY <2>3, <2>4
<1>3. CASE decided(c)
  <2>1. Heard(call[c]) \in Call /\ Heard(call[c]).op \notin {"open", "email"}
    <3>1. call[c].op \in {"decide", "bulk"}  BY <1>3 DEF decided
    <3>2. Heard(call[c]).op = call[c].op  BY <1>0 DEF Heard, Call
    <3>3. QED  BY <1>0, <3>1, <3>2, HeardTyped
  <2>2. call' \in [Calls -> Call] /\ (\A d \in Calls : CallTyped(call'[d])) /\ loading' = TRUE
    BY <1>3, <2>1, ReadingTyped DEF decided
  <2>3. RestTypeOK'  BY <1>3, <2>2 DEF RestTypeOK, decided, server
  <2>4. QED  BY <2>2, <2>3 DEF CallTypes, CallTyped
<1>4. CASE Rejected(c)
  <2>1. Over(call[c], "failed") \in Call /\ CallTyped(Over(call[c], "failed"))  BY <1>0, OverTyped
  <2>2. call' = [call EXCEPT ![c] = Over(call[c], "failed")]  BY <1>4 DEF Rejected
  <2>3. CallTypes'  BY <2>1, <2>2, OneCallTypes
  <2>4. RestTypeOK'  BY <1>4 DEF RestTypeOK, Rejected, server, screen, pointer
  <2>5. QED  BY <2>3, <2>4
<1>5. CASE loaded(c)
  <2>1. Over(call[c], "done") \in Call /\ CallTyped(Over(call[c], "done"))  BY <1>0, OverTyped
  <2>2. call' = [call EXCEPT ![c] = Over(call[c], "done")]  BY <1>5 DEF loaded
  <2>3. CallTypes'  BY <2>1, <2>2, OneCallTypes
  <2>4. items' \in Lists /\ leads' \subseteq Items /\ doubt' \in BOOLEAN
    <3>1. call[c].alone \in BOOLEAN /\ call[c].list \in Lists \cup {Nothing}
          /\ call[c].leads \in (SUBSET Items) \cup {Nothing}
      BY <1>0 DEF Call
    <3>2. items' = call[c].list /\ call[c].list # Nothing /\ leads' = call[c].leads /\ call[c].leads # Nothing
      BY <1>5 DEF loaded
    <3>3. doubt' = ~call[c].alone  BY <1>5 DEF loaded
    <3>4. doubt' \in BOOLEAN  BY <3>3
    <3>5. items' \in Lists /\ leads' \in SUBSET Items  BY <3>1, <3>2
    <3>6. QED  BY <3>4, <3>5
  <2>5. RestTypeOK'  BY <1>5, <2>4 DEF RestTypeOK, loaded, Released, server, pointer
  <2>6. QED  BY <2>3, <2>5
<1>6. CASE refresh_fails(c)
  <2>1. Over(call[c], "failed") \in Call /\ CallTyped(Over(call[c], "failed"))  BY <1>0, OverTyped
  <2>2. call' = [call EXCEPT ![c] = Over(call[c], "failed")]  BY <1>6 DEF refresh_fails
  <2>3. CallTypes'  BY <2>1, <2>2, OneCallTypes
  <2>4. RestTypeOK'  BY <1>6 DEF RestTypeOK, refresh_fails, Released, server, pointer
  <2>5. QED  BY <2>3, <2>4
<1>7. QED  BY <1>1, <1>2, <1>3, <1>4, <1>5, <1>6 DEF Settles, refused, unreachable

LEMMA ReviewerParts ==
  ASSUME Reviewer
  PROVE  \/ Pointing
         \/ \E c \in Calls :
              \/ refresh(c) \/ confirm_reject(c)
              \/ \E i \in Items : openItem(c, i) \/ approve(c, i)
              \/ \E i \in Items, a \in Addresses : submitEmail(c, i, a)
BY DEF Reviewer, Pointing

LEMMA ConsoleTypesStep == ConsoleTypes /\ [ConsoleNext]_consoleVars => ConsoleTypes'
<1> SUFFICES ASSUME ConsoleTypes, [ConsoleNext]_consoleVars PROVE ConsoleTypes'  OBVIOUS
<1>1. CASE Reviewer  BY <1>1, ReviewerParts, PointingTypes, ReviewerTypes
<1>2. CASE Server  BY <1>2, ServerTypes
<1>3. ASSUME NEW c \in Calls, Settles(c) PROVE ConsoleTypes'  BY <1>3, SettlesTypes
<1>4. CASE UNCHANGED consoleVars
  BY <1>4 DEF consoleVars, ConsoleTypes, RestTypeOK, CallTypes, CallTyped
<1>5. QED  BY <1>1, <1>2, <1>3, <1>4 DEF ConsoleNext

(* Types of the console, its tables and its calls, with what a call carries
   once its operation is known. *)
THEOREM ConsoleTyped == ConsoleSpec => []ConsoleTypes
<1>1. QED  BY ConsoleTypesInit, ConsoleTypesStep, PTL DEF ConsoleSpec

-----------------------------------------------------------------------------
(* What becomes of the calls. *)

(* The fields a call keeps when only its answer, or nothing, changes. *)
SameTab(r, s) ==
  /\ s.op = r.op /\ s.at = r.at /\ s.told = r.told /\ s.verdict = r.verdict /\ s.alone = r.alone
  /\ s.to = r.to /\ s.row = r.row

SameAnswer(r, s) ==
  s.server = r.server /\ s.detail = r.detail /\ s.ok = r.ok /\ s.mxOk = r.mxOk /\ s.list = r.list /\ s.leads = r.leads

LEMMA StartedFields ==
  ASSUME ConsoleTypes, NEW c \in Calls, NEW r \in Call, StartReading(c, r)
  PROVE  /\ call'[c].at = "reading" /\ call'[c].list = Nothing /\ call'[c].leads = Nothing
         /\ call'[c].alone => \A d \in Calls \ {c} : ~Reading(d)
         /\ call'[c].op = r.op /\ call'[c].told = r.told /\ call'[c].verdict = r.verdict
         /\ call'[c].ok = r.ok /\ call'[c].server = r.server /\ call'[c].mxOk = r.mxOk /\ call'[c].row = r.row
         /\ call'[c].to = r.to /\ call'[c].detail = r.detail
         /\ \A d \in Calls \ {c} :
              \/ ~Reading(d) /\ call'[d] = call[d]
              \/ /\ Reading(d) /\ SameAnswer(call[d], call'[d])
                 /\ call'[d].op = call[d].op /\ call'[d].at = call[d].at /\ call'[d].told = call[d].told
                 /\ call'[d].verdict = call[d].verdict /\ call'[d].to = call[d].to /\ call'[d].row = call[d].row
                 /\ ~call'[d].alone
<1> DEFINE b == \A e \in Calls \ {c} : ~Reading(e)
           s == [r EXCEPT !.at = "reading", !.list = Nothing, !.leads = Nothing, !.alone = b]
<1>1. call'[c] = s  BY DEF StartReading
<1>2. /\ s.at = "reading" /\ s.list = Nothing /\ s.leads = Nothing /\ s.alone = b
      /\ s.op = r.op /\ s.told = r.told /\ s.verdict = r.verdict
      /\ s.ok = r.ok /\ s.server = r.server /\ s.mxOk = r.mxOk /\ s.row = r.row
      /\ s.to = r.to /\ s.detail = r.detail
  <2> HIDE DEF b
  <2>1. QED  BY DEF Call
<1>3. ASSUME NEW d \in Calls \ {c}
      PROVE  \/ ~Reading(d) /\ call'[d] = call[d]
             \/ /\ Reading(d) /\ SameAnswer(call[d], call'[d])
                /\ call'[d].op = call[d].op /\ call'[d].at = call[d].at /\ call'[d].told = call[d].told
                /\ call'[d].verdict = call[d].verdict /\ call'[d].to = call[d].to /\ call'[d].row = call[d].row
                /\ ~call'[d].alone
  <2>1. CASE ~Reading(d)  BY <2>1 DEF StartReading
  <2>2. CASE Reading(d)
    <3>1. call'[d] = [call[d] EXCEPT !.alone = FALSE]  BY <2>2 DEF StartReading
    <3>2. call[d] \in Call  BY DEF ConsoleTypes, CallTypes
    <3>3. QED  BY <2>2, <3>1, <3>2 DEF Call, SameAnswer
  <2>3. QED  BY <2>1, <2>2
<1>4. s.alone => \A d \in Calls \ {c} : ~Reading(d)
  <2> HIDE DEF s
  <2>1. QED  BY <1>2
<1> HIDE DEF s
<1>5. QED  BY <1>1, <1>2, <1>3, <1>4

LEMMA OverFields ==
  ASSUME NEW r \in Call, NEW at \in {"done", "failed"}
  PROVE  LET s == Over(r, at) IN
         /\ s.at = at /\ s.verdict = r.verdict /\ s.ok = r.ok /\ s.told = r.told
         /\ s.server = r.server
         /\ \/ s.op = "none" /\ s.list = Nothing /\ s.leads = Nothing /\ s.mxOk = FALSE
            \/ /\ s.op = r.op /\ s.list = r.list /\ s.leads = r.leads /\ s.mxOk = r.mxOk /\ s.row = r.row
               /\ s.detail = r.detail /\ s.to = r.to
<1>1. CASE r.server = "done"
  BY <1>1 DEF Over, Unused
<1>2. CASE r.server # "done"
  BY <1>2 DEF Over, Call
<1>3. QED  BY <1>1, <1>2

LEMMA HeardFields ==
  ASSUME NEW r \in Call
  PROVE  LET s == Heard(r) IN
         /\ s.told /\ s.op = r.op /\ s.at = r.at /\ s.verdict = r.verdict /\ s.to = r.to /\ s.row = r.row
         /\ SameAnswer(r, s)
BY DEF Heard, Call, SameAnswer

LEMMA ServerKeepsTab ==
  ASSUME ConsoleTypes, Server
  PROVE  UNCHANGED <<screen, pointer, notice, busy>> /\ \A d \in Calls : SameTab(call[d], call'[d])
<1>0. call \in [Calls -> Call]  BY DEF ConsoleTypes, CallTypes
<1>1. UNCHANGED <<screen, pointer, notice, busy>>
  BY DEF Server, read_list, read_leads, enter_contact_email, verify_contact_email, read_detail,
         decide_review_item, elsewhere
<1>2. ASSUME NEW c \in Calls, SameTab(call[c], call'[c]), \A d \in Calls \ {c} : call'[d] = call[d]
      PROVE  \A d \in Calls : SameTab(call[d], call'[d])
  BY <1>2 DEF SameTab
<1>4. ASSUME NEW c \in Calls, read_list(c) PROVE \A d \in Calls : SameTab(call[d], call'[d])
  <2>1. PICK x : call' = [call EXCEPT ![c] = [call[c] EXCEPT !.list = x]]
    BY <1>4 DEF read_list
  <2>2. QED  BY <1>0, <1>2, <2>1 DEF SameTab, Call
<1>5. ASSUME NEW c \in Calls, read_leads(c) PROVE \A d \in Calls : SameTab(call[d], call'[d])
  <2>1. PICK x : call' = [call EXCEPT ![c] = [call[c] EXCEPT !.leads = x]]
    BY <1>5 DEF read_leads
  <2>2. QED  BY <1>0, <1>2, <2>1 DEF SameTab, Call
<1>6. ASSUME NEW c \in Calls, enter_contact_email(c) PROVE \A d \in Calls : SameTab(call[d], call'[d])
  <2>1. PICK x : call' = [call EXCEPT ![c] = [call[c] EXCEPT !.server = x]]
    BY <1>6 DEF enter_contact_email
  <2>2. QED  BY <1>0, <1>2, <2>1 DEF SameTab, Call
<1>7. ASSUME NEW c \in Calls, NEW mxOk, verify_contact_email(c, mxOk) PROVE \A d \in Calls : SameTab(call[d], call'[d])
  <2>1. call' = [call EXCEPT ![c] = [call[c] EXCEPT !.server = "done", !.ok = call[c].to, !.mxOk = mxOk]]
    BY <1>7 DEF verify_contact_email
  <2>2. QED  BY <1>0, <1>2, <2>1 DEF SameTab, Call
<1>8. ASSUME NEW c \in Calls, NEW i, read_detail(c, i) PROVE \A d \in Calls : SameTab(call[d], call'[d])
  <2>1. PICK x : call' = [call EXCEPT ![c] = [call[c] EXCEPT !.server = "done", !.detail = x]]
    BY <1>8 DEF read_detail
  <2>2. QED  BY <1>0, <1>2, <2>1 DEF SameTab, Call
<1>9. ASSUME NEW c \in Calls, NEW i, decide_review_item(c, i) PROVE \A d \in Calls : SameTab(call[d], call'[d])
  <2> DEFINE end == IF call[c].left = {i} THEN "done" ELSE call[c].server
  <2>1. CASE call' = [call EXCEPT ![c].left = @ \ {i}, ![c].server = IF call[c].left = {i} THEN "done" ELSE @]
    <3>1. call' = [call EXCEPT ![c] = [call[c] EXCEPT !.left = @ \ {i}, !.server = end]]  BY <2>1
    <3> HIDE DEF end
    <3>2. QED  BY <1>0, <1>2, <3>1 DEF SameTab, Call
  <2>2. CASE call' = [call EXCEPT ![c].left = @ \ {i}, ![c].ok = @ \cup {i},
                                  ![c].server = IF call[c].left = {i} THEN "done" ELSE @]
    <3>1. call' = [call EXCEPT ![c] = [call[c] EXCEPT !.left = @ \ {i}, !.ok = @ \cup {i}, !.server = end]]
      BY <2>2
    <3> HIDE DEF end
    <3>2. QED  BY <1>0, <1>2, <3>1 DEF SameTab, Call
  <2>3. QED  BY <1>9, <2>1, <2>2 DEF decide_review_item
<1>10. ASSUME NEW i, elsewhere(i) PROVE \A d \in Calls : SameTab(call[d], call'[d])
  BY <1>10 DEF elsewhere, SameTab
<1>11. QED  BY <1>1, <1>4, <1>5, <1>6, <1>7, <1>8, <1>9, <1>10 DEF Server

-----------------------------------------------------------------------------
(* busy and loading have an owner. *)

Holds(c) == call[c].at \in {"waiting", "reading"} /\ call[c].op \in {"email", "decide", "bulk"}

LocksHaveOwners ==
  /\ busy => \E c \in Calls : Holds(c)
  /\ loading => \E c \in Calls : Reading(c)

LEMMA OwnersReviewer ==
  ASSUME ConsoleTypes, LocksHaveOwners, Reviewer
  PROVE  LocksHaveOwners'
<1>0. call \in [Calls -> Call]  BY DEF ConsoleTypes, CallTypes
<1>1. CASE Pointing
  BY <1>1, PointingBeyond DEF Beyond, LocksHaveOwners, Holds, Reading, screen
<1>2. ASSUME NEW c \in Calls, refresh(c) PROVE LocksHaveOwners'
  <2>1. call[c].at = "unused"  BY <1>2 DEF refresh, Fresh, Unused
  <2>2. [Unused EXCEPT !.op = "refresh"] \in Call  BY DEF Unused, Call
  <2>3. /\ call'[c].at = "reading"
        /\ \A d \in Calls \ {c} : call'[d].op = call[d].op /\ call'[d].at = call[d].at
    BY <1>2, <2>2, StartedFields DEF refresh
  <2>4. busy' = busy  BY <1>2 DEF refresh
  <2>5. QED  BY <2>1, <2>3, <2>4 DEF LocksHaveOwners, Holds, Reading
<1>3. ASSUME NEW c \in Calls, NEW r, Fresh(c), call' = [call EXCEPT ![c] = r], loading' = loading,
             \/ busy' = TRUE /\ r.at = "waiting" /\ r.op \in {"email", "decide", "bulk"}
             \/ busy' \in BOOLEAN /\ (busy' => busy)
      PROVE  LocksHaveOwners'
  <2>1. call[c].at = "unused"  BY <1>3 DEF Fresh, Unused
  <2>2. call'[c] = r /\ \A d \in Calls \ {c} : call'[d] = call[d]  BY <1>0, <1>3
  <2>3. QED  BY <1>3, <2>1, <2>2 DEF LocksHaveOwners, Holds, Reading
<1>4. ASSUME NEW c \in Calls, confirm_reject(c) PROVE LocksHaveOwners'
  <2> DEFINE op == IF Cardinality(dialog) = 1 THEN "decide" ELSE "bulk"
             r == [Unused EXCEPT !.op = op, !.at = "waiting", !.server = "todo", !.to = dialog, !.left = dialog,
                                 !.verdict = "rejected", !.row = Nothing]
  <2>1. r.at = "waiting" /\ r.op \in {"email", "decide", "bulk"}  BY DEF Unused
  <2>2. Fresh(c) /\ call' = [call EXCEPT ![c] = r] /\ busy' = TRUE /\ loading' = loading
    BY <1>4 DEF confirm_reject, Decide, screen
  <2> HIDE DEF r
  <2>3. QED  BY <1>3, <2>1, <2>2
<1>5. ASSUME NEW c \in Calls, NEW i \in Items, openItem(c, i) PROVE LocksHaveOwners'
  <2>1. busy' = busy /\ loading' = loading /\ Fresh(c) /\ \E r : call' = [call EXCEPT ![c] = r]
    BY <1>5 DEF openItem, screen
  <2>2. busy \in BOOLEAN  BY DEF ConsoleTypes, RestTypeOK
  <2>3. QED  BY <1>3, <2>1, <2>2
<1>6. ASSUME NEW c \in Calls, NEW i \in Items, approve(c, i) PROVE LocksHaveOwners'
  <2> DEFINE r == [Unused EXCEPT !.op = "decide", !.at = "waiting", !.server = "todo", !.to = {i}, !.left = {i},
                                 !.verdict = "approved", !.row = items[i].email.row]
  <2>1. r.at = "waiting" /\ r.op = "decide"  BY DEF Unused
  <2>2. Fresh(c) /\ call' = [call EXCEPT ![c] = r] /\ busy' = TRUE /\ loading' = loading
    BY <1>6 DEF approve, Decide, screen
  <2> HIDE DEF r
  <2>3. QED  BY <1>3, <2>1, <2>2
<1>7. ASSUME NEW c \in Calls, NEW i \in Items, NEW a \in Addresses, submitEmail(c, i, a)
      PROVE  LocksHaveOwners'
  <2> DEFINE r == [Unused EXCEPT !.op = "email", !.at = "waiting", !.server = "todo", !.to = {i}, !.row = <<i, a>>,
                                 !.nonce = items[i].nonce]
  <2>1. r.at = "waiting" /\ r.op = "email"  BY DEF Unused
  <2>2. Fresh(c) /\ loading' = loading  BY <1>7 DEF submitEmail, screen
  <2>3. \/ busy' = FALSE /\ \E q : call' = [call EXCEPT ![c] = q]
        \/ busy' = TRUE /\ call' = [call EXCEPT ![c] = r]
    BY <1>7 DEF submitEmail
  <2> HIDE DEF r
  <2>4. QED  BY <1>3, <2>1, <2>2, <2>3
<1>8. QED  BY <1>1, <1>2, <1>4, <1>5, <1>6, <1>7, ReviewerParts

LEMMA OwnersSettles ==
  ASSUME ConsoleTypes, LocksHaveOwners, NEW c \in Calls, Settles(c)
  PROVE  LocksHaveOwners'
<1>0. call \in [Calls -> Call] /\ call[c] \in Call  BY DEF ConsoleTypes, CallTypes
<1>1. ASSUME NEW r \in Call, NEW at \in {"done", "failed"}, call' = [call EXCEPT ![c] = Over(r, at)],
             busy' => busy /\ ~Holds(c), loading' => loading /\ ~Reading(c)
      PROVE  LocksHaveOwners'
  BY <1>0, <1>1 DEF LocksHaveOwners, Holds, Reading
<1>2. CASE detail_arrives(c)
  <2>1. Heard(call[c]) \in Call /\ ~Holds(c) /\ ~Reading(c) /\ busy' = busy /\ loading' = loading
        /\ call' = [call EXCEPT ![c] = Over(Heard(call[c]), "done")]
    BY <1>0, <1>2, HeardIsCall DEF detail_arrives, Holds, Reading, Waiting
  <2>2. QED  BY <1>1, <2>1
<1>3. CASE email_arrives(c)
  <2>1. Heard(call[c]) \in Call /\ ~Reading(c) /\ ~busy' /\ loading' = loading
        /\ call' = [call EXCEPT ![c] = Over(Heard(call[c]), "done")]
    BY <1>0, <1>3, HeardIsCall DEF email_arrives, Reading, Waiting
  <2>2. QED  BY <1>1, <2>1
<1>4. CASE decided(c)
  <2>1. Heard(call[c]) \in Call /\ Heard(call[c]).op = call[c].op  BY <1>0, HeardIsCall, HeardFields
  <2>2. /\ call'[c].at = "reading" /\ call'[c].op = call[c].op
        /\ \A d \in Calls \ {c} : call'[d].op = call[d].op /\ call'[d].at = call[d].at
    BY <1>4, <2>1, StartedFields DEF decided
  <2>3. busy' = busy /\ call[c].op \in {"decide", "bulk"}  BY <1>4 DEF decided
  <2>4. QED  BY <2>2, <2>3 DEF LocksHaveOwners, Holds, Reading
<1>5. CASE Rejected(c) /\ Waiting(c)
  <2>1. /\ busy' = (busy /\ call[c].op = "open") /\ loading' = loading
        /\ call' = [call EXCEPT ![c] = Over(call[c], "failed")] /\ call[c].at = "waiting"
    BY <1>5 DEF Rejected, screen, Waiting
  <2>2. ~Reading(c) /\ (call[c].op = "open" => ~Holds(c))  BY <2>1 DEF Reading, Holds
  <2>3. QED  BY <1>0, <1>1, <2>1, <2>2
<1>6. CASE loaded(c)
  <2>1. /\ busy' = (busy /\ call[c].op = "refresh") /\ loading' = FALSE
        /\ call' = [call EXCEPT ![c] = Over(call[c], "done")]
    BY <1>6 DEF loaded, Released
  <2>2. call[c].op = "refresh" => ~Holds(c)  BY DEF Holds
  <2>3. QED  BY <1>0, <1>1, <2>1, <2>2
<1>7. CASE refresh_fails(c)
  <2>1. /\ busy' = (busy /\ call[c].op = "refresh") /\ loading' = FALSE
        /\ call' = [call EXCEPT ![c] = Over(call[c], "failed")]
    BY <1>7 DEF refresh_fails, Released
  <2>2. call[c].op = "refresh" => ~Holds(c)  BY DEF Holds
  <2>3. QED  BY <1>0, <1>1, <2>1, <2>2
<1>8. QED  BY <1>2, <1>3, <1>4, <1>5, <1>6, <1>7 DEF Settles, refused, unreachable

LEMMA OwnersStep == ConsoleTypes /\ LocksHaveOwners /\ [ConsoleNext]_consoleVars => LocksHaveOwners'
<1> SUFFICES ASSUME ConsoleTypes, LocksHaveOwners, [ConsoleNext]_consoleVars PROVE LocksHaveOwners'
  OBVIOUS
<1>1. CASE Reviewer  BY <1>1, OwnersReviewer
<1>2. CASE Server
  BY <1>2, ServerKeepsTab DEF SameTab, LocksHaveOwners, Holds, Reading, screen
<1>3. ASSUME NEW c \in Calls, Settles(c) PROVE LocksHaveOwners'  BY <1>3, OwnersSettles
<1>4. CASE UNCHANGED consoleVars  BY <1>4 DEF consoleVars, LocksHaveOwners, Holds, Reading
<1>5. QED  BY <1>1, <1>2, <1>3, <1>4 DEF ConsoleNext

(* The buttons are unlocked and the table is there when no call is out. *)
THEOREM QuietIsUnlocked == ConsoleSpec => []QuietMeansUnlocked
<1>1. ConsoleInit => LocksHaveOwners
  <2> SUFFICES ASSUME ConsoleInit PROVE LocksHaveOwners  OBVIOUS
  <2>1. 1 \in Calls  BY ConsoleAssumption DEF Calls
  <2>2. call[1].at = "reading" /\ ~busy  BY <2>1 DEF ConsoleInit, Unused
  <2>3. QED  BY <2>1, <2>2 DEF LocksHaveOwners, Reading
<1>2. LocksHaveOwners => QuietMeansUnlocked  BY DEF LocksHaveOwners, QuietMeansUnlocked, Holds, Reading
<1>3. QED  BY <1>1, <1>2, ConsoleTyped, OwnersStep, PTL DEF ConsoleSpec

-----------------------------------------------------------------------------
(* What the screen shows is backed by the database: s is status, p promoted,
   k certified and n nonce. *)

Backed(i, it, s, p, k, n) ==
  /\ it.status = "approved" => i \in p
  /\ it.status = "rejected" => s[i] = "rejected"
  /\ it.email # Nothing => it.email.row[1] = i /\ (it.email.mxOk => it.email.row \in k)
  /\ it.nonce # 0 => n[it.nonce].item = i

CallBacked(r, s, p, k, n) ==
  /\ r.list # Nothing => \A i \in Items : r.list[i] # Nothing => Backed(i, r.list[i], s, p, k, n)
  /\ r.leads # Nothing => r.leads \subseteq p
  /\ r.op = "open" /\ r.server = "done" => \A i \in r.to : Backed(i, r.detail, s, p, k, n)
  /\ r.mxOk => r.row \in k

(* A decision and a certificate last, a rejection is final, a nonce keeps its item. *)
Grows(s, p, k, n, s2, p2, k2, n2) ==
  /\ p \subseteq p2 /\ k \subseteq k2
  /\ \A i \in Items : s[i] = "rejected" => s2[i] = "rejected"
  /\ \A m \in Nonces : n[m].item # Nothing => n2[m].item = n[m].item

TablesAgree ==
  /\ \A i \in Items : status[i] = "approved" => i \in promoted
  /\ \A i \in Items, a \in Addresses : mail[i][a] = "ok" => <<i, a>> \in certified

ScreenBacked ==
  /\ leads \subseteq promoted
  /\ \A i \in Items : items[i] # Nothing => Backed(i, items[i], status, promoted, certified, nonce)

CallsBacked == \A c \in Calls : CallBacked(call[c], status, promoted, certified, nonce)

-----------------------------------------------------------------------------
LEMMA BackedStays ==
  ASSUME NEW i \in Items, NEW it \in ReviewItem,
         NEW s, NEW p, NEW k, NEW n, NEW s2, NEW p2, NEW k2, NEW n2,
         Grows(s, p, k, n, s2, p2, k2, n2), Backed(i, it, s, p, k, n)
  PROVE  Backed(i, it, s2, p2, k2, n2)
<1>1. it.nonce # 0 => it.nonce \in Nonces  BY DEF ReviewItem
<1>2. i # Nothing  BY ConsoleAssumption
<1>3. QED  BY <1>1, <1>2 DEF Grows, Backed

LEMMA CallBackedStays ==
  ASSUME NEW r \in Call, CallTyped(r),
         NEW s, NEW p, NEW k, NEW n, NEW s2, NEW p2, NEW k2, NEW n2,
         Grows(s, p, k, n, s2, p2, k2, n2), CallBacked(r, s, p, k, n)
  PROVE  CallBacked(r, s2, p2, k2, n2)
<1>1. ASSUME r.list # Nothing, NEW i \in Items, r.list[i] # Nothing
      PROVE  Backed(i, r.list[i], s2, p2, k2, n2)
  <2>1. r.list \in Lists \cup {Nothing}  BY DEF Call
  <2>2. r.list[i] \in ReviewItem  BY <1>1, <2>1 DEF Lists
  <2>3. Backed(i, r.list[i], s, p, k, n)  BY <1>1 DEF CallBacked
  <2>4. QED  BY <2>2, <2>3, BackedStays
<1>2. ASSUME r.op = "open", r.server = "done", NEW i \in r.to
      PROVE  Backed(i, r.detail, s2, p2, k2, n2)
  <2>1. i \in Items /\ r.detail \in ReviewItem  BY <1>2 DEF CallTyped
  <2>2. Backed(i, r.detail, s, p, k, n)  BY <1>2 DEF CallBacked
  <2>3. QED  BY <2>1, <2>2, BackedStays
<1>3. (r.leads # Nothing => r.leads \subseteq p2) /\ (r.mxOk => r.row \in k2)
  BY DEF CallBacked, Grows
<1>4. QED  BY <1>1, <1>2, <1>3 DEF CallBacked

LEMMA PartBacked ==
  ASSUME NEW r, NEW t, NEW s, NEW p, NEW k, NEW n, CallBacked(r, s, p, k, n),
         t.list = Nothing \/ t.list = r.list,
         t.leads = Nothing \/ t.leads = r.leads,
         \/ t.op # "open" \/ t.server # "done"
         \/ t.op = r.op /\ t.server = r.server /\ t.to = r.to /\ t.detail = r.detail,
         t.mxOk = FALSE \/ (t.mxOk = r.mxOk /\ t.row = r.row)
  PROVE  CallBacked(t, s, p, k, n)
<1>1. t.mxOk => t.row \in k  BY DEF CallBacked
<1>2. t.leads # Nothing => t.leads \subseteq p  BY DEF CallBacked
<1>3. t.list # Nothing => \A i \in Items : t.list[i] # Nothing => Backed(i, t.list[i], s, p, k, n)
  BY DEF CallBacked
<1>4. t.op = "open" /\ t.server = "done" => \A i \in t.to : Backed(i, t.detail, s, p, k, n)
  BY DEF CallBacked
<1>5. QED  BY <1>1, <1>2, <1>3, <1>4 DEF CallBacked

LEMMA BareBacked ==
  ASSUME NEW t, NEW s, NEW p, NEW k, NEW n, t.list = Nothing, t.leads = Nothing,
         t.op # "open" \/ t.server # "done", t.mxOk = FALSE
  PROVE  CallBacked(t, s, p, k, n)
BY DEF CallBacked

(* What the server shows of an item. *)
LEMMA EmailShown ==
  ASSUME ConsoleTypes, TablesAgree, NEW i \in Items, latest[i] # Nothing
  PROVE  LET e == [row |-> <<i, latest[i]>>, mxOk |-> mail[i][latest[i]] = "ok"]
         IN  e.row[1] = i /\ (e.mxOk => e.row \in certified)
<1>1. latest[i] \in Addresses  BY DEF ConsoleTypes, RestTypeOK
<1>2. QED  BY <1>1 DEF TablesAgree

LEMMA ListBacked ==
  ASSUME ConsoleTypes, TablesAgree, NEW i \in Items
  PROVE  Backed(i, mapListItem(i), status, promoted, certified, nonce)
<1>1. mapListItem(i).status = "pending" /\ mapListItem(i).nonce = 0
      /\ mapListItem(i).email = IF latest[i] = Nothing THEN Nothing
                                ELSE [row |-> <<i, latest[i]>>, mxOk |-> mail[i][latest[i]] = "ok"]
  BY DEF mapListItem
<1>2. QED  BY <1>1, EmailShown DEF Backed

LEMMA DetailBacked ==
  ASSUME ConsoleTypes, TablesAgree, NEW i \in Items, NEW m, NEW n, m # 0 => n[m].item = i
  PROVE  Backed(i, mapDetail(i, m), status, promoted, certified, n)
<1>1. mapDetail(i, m).status = status[i] /\ mapDetail(i, m).nonce = m
      /\ mapDetail(i, m).email = IF latest[i] = Nothing THEN Nothing
                                 ELSE [row |-> <<i, latest[i]>>, mxOk |-> mail[i][latest[i]] = "ok"]
  BY DEF mapDetail
<1>2. status[i] = "approved" => i \in promoted  BY DEF TablesAgree
<1>3. QED  BY <1>1, <1>2, EmailShown DEF Backed

NeverAheadInv == TablesAgree /\ ScreenBacked /\ CallsBacked

(* A step of the server that changes the call c only. *)
LEMMA ServerStepBacked ==
  ASSUME ConsoleTypes, NeverAheadInv, UNCHANGED screen, TablesAgree',
         Grows(status, promoted, certified, nonce, status', promoted', certified', nonce'),
         NEW c \in Calls, \A d \in Calls \ {c} : call'[d] = call[d],
         CallBacked(call'[c], status', promoted', certified', nonce')
  PROVE  NeverAheadInv'
<1>1. ScreenBacked'
  <2>1. leads' \subseteq promoted'  BY DEF NeverAheadInv, ScreenBacked, screen, Grows
  <2>2. ASSUME NEW i \in Items, items'[i] # Nothing
        PROVE  Backed(i, items'[i], status', promoted', certified', nonce')
    <3>1. items[i] \in ReviewItem /\ items'[i] = items[i]
      BY <2>2 DEF screen, ConsoleTypes, RestTypeOK, Lists
    <3>2. Backed(i, items[i], status, promoted, certified, nonce)
      BY <2>2, <3>1 DEF NeverAheadInv, ScreenBacked
    <3>3. QED  BY <3>1, <3>2, BackedStays
  <2>3. QED  BY <2>1, <2>2 DEF ScreenBacked
<1>2. CallsBacked'
  <2>1. ASSUME NEW d \in Calls PROVE CallBacked(call'[d], status', promoted', certified', nonce')
    <3>1. CASE d = c  BY <3>1
    <3>2. CASE d # c
      <4>1. call[d] \in Call /\ CallTyped(call[d])  BY DEF ConsoleTypes, CallTypes
      <4>2. CallBacked(call[d], status, promoted, certified, nonce)  BY DEF NeverAheadInv, CallsBacked
      <4>3. CallBacked(call[d], status', promoted', certified', nonce')  BY <4>1, <4>2, CallBackedStays
      <4>4. QED  BY <3>2, <4>3
    <3>3. QED  BY <3>1, <3>2
  <2>2. QED  BY <2>1 DEF CallsBacked
<1>3. QED  BY <1>1, <1>2 DEF NeverAheadInv

LEMMA ServerBacked ==
  ASSUME ConsoleTypes, NeverAheadInv, Server
  PROVE  NeverAheadInv'
<1>0. /\ call \in [Calls -> Call] /\ \A c \in Calls : CallTyped(call[c])
      /\ UNCHANGED screen
      /\ \A d \in Calls : SameTab(call[d], call'[d])
  BY ServerKeepsTab DEF ConsoleTypes, CallTypes
<1>a. \A c \in Calls : call[c] \in Call /\ CallBacked(call[c], status, promoted, certified, nonce)
  BY <1>0 DEF NeverAheadInv, CallsBacked
<1>b. TablesAgree  BY DEF NeverAheadInv
<1>1. ASSUME NEW c \in Calls, read_list(c) PROVE NeverAheadInv'
  <2> DEFINE l == [i \in Items |-> IF status[i] = "pending" THEN mapListItem(i) ELSE Nothing]
  <2>1. UNCHANGED server /\ call' = [call EXCEPT ![c] = [call[c] EXCEPT !.list = l]]  BY <1>1 DEF read_list
  <2>2. /\ call'[c].list = l /\ call'[c].leads = call[c].leads /\ call'[c].op = call[c].op
        /\ call'[c].server = call[c].server /\ call'[c].to = call[c].to /\ call'[c].detail = call[c].detail
        /\ call'[c].mxOk = call[c].mxOk /\ call'[c].row = call[c].row
        /\ \A d \in Calls \ {c} : call'[d] = call[d]
    <3> HIDE DEF l
    <3>1. QED  BY <1>0, <2>1 DEF Call
  <2>3. \A i \in Items : l[i] # Nothing => Backed(i, l[i], status, promoted, certified, nonce)
    BY <1>b, ListBacked
  <2>4. CallBacked(call'[c], status, promoted, certified, nonce)
    <3> HIDE DEF l
    <3>1. CallBacked(call[c], status, promoted, certified, nonce)  BY <1>a
    <3>2. QED  BY <2>2, <2>3, <3>1 DEF CallBacked
  <2>5. TablesAgree' /\ Grows(status, promoted, certified, nonce, status', promoted', certified', nonce')
    BY <1>b, <2>1 DEF TablesAgree, Grows, server
  <2>6. CallBacked(call'[c], status', promoted', certified', nonce')  BY <2>1, <2>4 DEF server
  <2>7. QED  BY <1>0, <2>2, <2>5, <2>6, ServerStepBacked
<1>2. ASSUME NEW c \in Calls, read_leads(c) PROVE NeverAheadInv'
  <2> DEFINE l == {i \in Items : status[i] = "approved"}
  <2>1. UNCHANGED server /\ call' = [call EXCEPT ![c] = [call[c] EXCEPT !.leads = l]]  BY <1>2 DEF read_leads
  <2>2. /\ call'[c].leads = l /\ call'[c].list = call[c].list /\ call'[c].op = call[c].op
        /\ call'[c].server = call[c].server /\ call'[c].to = call[c].to /\ call'[c].detail = call[c].detail
        /\ call'[c].mxOk = call[c].mxOk /\ call'[c].row = call[c].row
        /\ \A d \in Calls \ {c} : call'[d] = call[d]
    <3> HIDE DEF l
    <3>1. QED  BY <1>0, <2>1 DEF Call
  <2>3. l \subseteq promoted  BY <1>b DEF TablesAgree
  <2>4. CallBacked(call'[c], status, promoted, certified, nonce)
    <3> HIDE DEF l
    <3>1. CallBacked(call[c], status, promoted, certified, nonce)  BY <1>a
    <3>2. QED  BY <2>2, <2>3, <3>1 DEF CallBacked
  <2>5. TablesAgree' /\ Grows(status, promoted, certified, nonce, status', promoted', certified', nonce')
    BY <1>b, <2>1 DEF TablesAgree, Grows, server
  <2>6. CallBacked(call'[c], status', promoted', certified', nonce')  BY <2>1, <2>4 DEF server
  <2>7. QED  BY <1>0, <2>2, <2>5, <2>6, ServerStepBacked
<1>3. ASSUME NEW c \in Calls, enter_contact_email(c) PROVE NeverAheadInv'
  <2>1. PICK x : call' = [call EXCEPT ![c] = [call[c] EXCEPT !.server = x]]  BY <1>3 DEF enter_contact_email
  <2>2. /\ call'[c].list = call[c].list /\ call'[c].leads = call[c].leads /\ call'[c].op = call[c].op
        /\ call'[c].mxOk = call[c].mxOk /\ call'[c].row = call[c].row
        /\ \A d \in Calls \ {c} : call'[d] = call[d]
    BY <1>0, <2>1 DEF Call
  <2>3. call[c].op = "email" /\ call[c].row \in Items \X Addresses /\ call[c].nonce \in Nonces
    BY <1>0, <1>3 DEF enter_contact_email, CallTyped
  <2>4. UNCHANGED <<status, certified, promoted>>  BY <1>3 DEF enter_contact_email
  <2>5. \A m \in Nonces : nonce'[m].item = nonce[m].item
    <3>1. nonce' = nonce \/ nonce' = [nonce EXCEPT ![call[c].nonce].used = TRUE]
      BY <1>3 DEF enter_contact_email
    <3>2. nonce \in [Nonces -> [item : Items \cup {Nothing}, used : BOOLEAN]]  BY DEF ConsoleTypes, RestTypeOK
    <3>3. QED  BY <3>1, <3>2
  <2>6. \A i \in Items, a \in Addresses : mail'[i][a] = "ok" => mail[i][a] = "ok"
    <3>1. PICK i \in Items, a \in Addresses : call[c].row = <<i, a>>  BY <2>3
    <3>2. \/ mail' = mail
          \/ mail' = [mail EXCEPT ![i][a] = IF mail[i][a] = "none" THEN "unknown" ELSE mail[i][a]]
      BY <1>3, <3>1 DEF enter_contact_email
    <3>3. mail \in [Items -> [Addresses -> {"none", "unknown", "ok", "failed"}]]
      BY DEF ConsoleTypes, RestTypeOK
    <3>4. QED  BY <3>2, <3>3
  <2>7. TablesAgree'  BY <1>b, <2>4, <2>6 DEF TablesAgree
  <2>8. Grows(status, promoted, certified, nonce, status', promoted', certified', nonce')
    BY <2>4, <2>5 DEF Grows
  <2>9. CallBacked(call'[c], status', promoted', certified', nonce')
    <3>1. CallBacked(call[c], status', promoted', certified', nonce')
      BY <1>0, <1>a, <2>8, CallBackedStays
    <3>2. QED  BY <2>2, <2>3, <3>1, PartBacked
  <2>10. QED  BY <1>0, <2>2, <2>7, <2>8, <2>9, ServerStepBacked
<1>4. ASSUME NEW c \in Calls, NEW mxOk \in BOOLEAN, verify_contact_email(c, mxOk) PROVE NeverAheadInv'
  <2>1. call' = [call EXCEPT ![c] = [call[c] EXCEPT !.server = "done", !.ok = call[c].to, !.mxOk = mxOk]]
    BY <1>4 DEF verify_contact_email
  <2>2. /\ call'[c].list = call[c].list /\ call'[c].leads = call[c].leads /\ call'[c].op = call[c].op
        /\ call'[c].mxOk = mxOk /\ call'[c].row = call[c].row
        /\ \A d \in Calls \ {c} : call'[d] = call[d]
    BY <1>0, <2>1 DEF Call
  <2>3. call[c].op = "email" /\ call[c].row \in Items \X Addresses
    BY <1>0, <1>4 DEF verify_contact_email, CallTyped
  <2>4. /\ UNCHANGED <<status, nonce, promoted>>
        /\ certified' = IF mxOk THEN certified \cup {call[c].row} ELSE certified
    BY <1>4 DEF verify_contact_email
  <2>5. TablesAgree'
    <3>1. PICK i \in Items, a \in Addresses : call[c].row = <<i, a>>  BY <2>3
    <3>2. mail' = [mail EXCEPT ![i][a] = IF mxOk THEN "ok" ELSE "failed"]
      BY <1>4, <3>1 DEF verify_contact_email
    <3>3. mail \in [Items -> [Addresses -> {"none", "unknown", "ok", "failed"}]]
      BY DEF ConsoleTypes, RestTypeOK
    <3>4. ASSUME NEW j \in Items, NEW b \in Addresses, mail'[j][b] = "ok" PROVE <<j, b>> \in certified'
      <4>1. CASE j = i /\ b = a
        <5>1. mxOk  BY <3>2, <3>3, <3>4, <4>1
        <5>2. QED  BY <2>4, <3>1, <4>1, <5>1
      <4>2. CASE ~(j = i /\ b = a)
        <5>1. mail'[j][b] = mail[j][b]  BY <3>2, <3>3, <4>2
        <5>2. QED  BY <1>b, <2>4, <3>4, <5>1 DEF TablesAgree
      <4>3. QED  BY <4>1, <4>2
    <3>5. QED  BY <1>b, <2>4, <3>4 DEF TablesAgree
  <2>6. Grows(status, promoted, certified, nonce, status', promoted', certified', nonce')
    BY <2>4 DEF Grows
  <2>7. CallBacked(call'[c], status', promoted', certified', nonce')
    <3>1. CallBacked(call[c], status', promoted', certified', nonce')
      BY <1>0, <1>a, <2>6, CallBackedStays
    <3>2. mxOk => call[c].row \in certified'  BY <2>4
    <3>3. QED  BY <2>2, <2>3, <3>1, <3>2 DEF CallBacked
  <2>8. QED  BY <1>0, <2>2, <2>5, <2>6, <2>7, ServerStepBacked
<1>5. ASSUME NEW c \in Calls, NEW i \in Items, read_detail(c, i) PROVE NeverAheadInv'
  <2>1. PICK m \in Nonces \cup {0} :
          /\ call' = [call EXCEPT ![c] = [call[c] EXCEPT !.server = "done", !.detail = mapDetail(i, m)]]
          /\ \/ m = 0 /\ nonce' = nonce
             \/ m # 0 /\ nonce[m].item = Nothing /\ nonce' = [nonce EXCEPT ![m].item = i]
    <3>1. CASE status[i] = "pending"
      <4>1. PICK m \in Nonces : /\ nonce[m].item = Nothing /\ nonce' = [nonce EXCEPT ![m].item = i]
                                /\ call' = [call EXCEPT ![c].server = "done", ![c].detail = mapDetail(i, m)]
        BY <1>5, <3>1 DEF read_detail
      <4>2. m # 0  BY ConsoleAssumption DEF Nonces
      <4>3. call' = [call EXCEPT ![c] = [call[c] EXCEPT !.server = "done", !.detail = mapDetail(i, m)]]
        BY <4>1
      <4>4. QED  BY <4>1, <4>2, <4>3
    <3>2. CASE status[i] # "pending"
      <4>1. call' = [call EXCEPT ![c] = [call[c] EXCEPT !.server = "done", !.detail = mapDetail(i, 0)]]
            /\ nonce' = nonce
        BY <1>5, <3>2 DEF read_detail
      <4>2. QED  BY <4>1
    <3>3. QED  BY <3>1, <3>2
  <2>2. /\ call'[c].list = call[c].list /\ call'[c].leads = call[c].leads /\ call'[c].to = call[c].to
        /\ call'[c].mxOk = call[c].mxOk /\ call'[c].row = call[c].row /\ call'[c].detail = mapDetail(i, m)
        /\ \A d \in Calls \ {c} : call'[d] = call[d]
    BY <1>0, <2>1 DEF Call
  <2>3. call[c].to = {i}
    BY <1>0, <1>5 DEF read_detail, CallTyped
  <2>4. UNCHANGED <<status, mail, certified, promoted>>  BY <1>5 DEF read_detail
  <2>5. TablesAgree'  BY <1>b, <2>4 DEF TablesAgree
  <2>6. (\A o \in Nonces : nonce[o].item # Nothing => nonce'[o].item = nonce[o].item)
        /\ (m # 0 => nonce'[m].item = i)
    <3>1. nonce \in [Nonces -> [item : Items \cup {Nothing}, used : BOOLEAN]]  BY DEF ConsoleTypes, RestTypeOK
    <3>2. QED  BY <2>1, <3>1
  <2>7. Grows(status, promoted, certified, nonce, status', promoted', certified', nonce')
    BY <2>4, <2>6 DEF Grows
  <2>8. Backed(i, mapDetail(i, m), status, promoted, certified, nonce')
    BY <1>b, <2>6, DetailBacked
  <2>9. CallBacked(call'[c], status', promoted', certified', nonce')
    <3>1. CallBacked(call[c], status', promoted', certified', nonce')
      BY <1>0, <1>a, <2>7, CallBackedStays
    <3>2. QED  BY <2>2, <2>3, <2>4, <2>8, <3>1 DEF CallBacked
  <2>10. QED  BY <1>0, <2>2, <2>5, <2>7, <2>9, ServerStepBacked
<1>6. ASSUME NEW c \in Calls, NEW i \in Items, decide_review_item(c, i) PROVE NeverAheadInv'
  <2>1. /\ call'[c].list = call[c].list /\ call'[c].leads = call[c].leads /\ call'[c].op = call[c].op
        /\ call'[c].mxOk = call[c].mxOk /\ call'[c].row = call[c].row
        /\ \A d \in Calls \ {c} : call'[d] = call[d]
    <3> DEFINE end == IF call[c].left = {i} THEN "done" ELSE call[c].server
    <3>1. CASE call' = [call EXCEPT ![c].left = @ \ {i}, ![c].server = IF call[c].left = {i} THEN "done" ELSE @]
      <4>1. call' = [call EXCEPT ![c] = [call[c] EXCEPT !.left = @ \ {i}, !.server = end]]  BY <3>1
      <4> HIDE DEF end
      <4>2. QED  BY <1>0, <4>1 DEF Call
    <3>2. CASE call' = [call EXCEPT ![c].left = @ \ {i}, ![c].ok = @ \cup {i},
                                    ![c].server = IF call[c].left = {i} THEN "done" ELSE @]
      <4>1. call' = [call EXCEPT ![c] = [call[c] EXCEPT !.left = @ \ {i}, !.ok = @ \cup {i}, !.server = end]]
        BY <3>2
      <4> HIDE DEF end
      <4>2. QED  BY <1>0, <4>1 DEF Call
    <3>3. QED  BY <1>6, <3>1, <3>2 DEF decide_review_item
  <2>2. call[c].op \in {"decide", "bulk"} /\ UNCHANGED <<mail, certified, nonce>>
    BY <1>6 DEF decide_review_item
  <2>3. \/ status' = status /\ promoted' = promoted
        \/ /\ status[i] = "pending" /\ status' = [status EXCEPT ![i] = call[c].verdict]
           /\ promoted' = IF call[c].verdict = "approved" THEN promoted \cup {i} ELSE promoted
    BY <1>6 DEF decide_review_item, Acceptable
  <2>4. status \in [Items -> Statuses]  BY DEF ConsoleTypes, RestTypeOK
  <2>5. TablesAgree'  BY <1>b, <2>2, <2>3, <2>4 DEF TablesAgree
  <2>6. Grows(status, promoted, certified, nonce, status', promoted', certified', nonce')
    BY <2>2, <2>3, <2>4 DEF Grows
  <2>7. CallBacked(call'[c], status', promoted', certified', nonce')
    <3>1. CallBacked(call[c], status', promoted', certified', nonce')
      BY <1>0, <1>a, <2>6, CallBackedStays
    <3>2. call'[c].op # "open"  BY <2>1, <2>2
    <3>3. QED  BY <2>1, <3>1, <3>2, PartBacked
  <2>8. QED  BY <1>0, <2>1, <2>5, <2>6, <2>7, ServerStepBacked
<1>7. ASSUME NEW i \in Items, elsewhere(i) PROVE NeverAheadInv'
  <2>1. UNCHANGED <<mail, certified, nonce, promoted, call>>  BY <1>7 DEF elsewhere
  <2>2. \/ status[i] = "none" /\ status' = [status EXCEPT ![i] = "pending"]
        \/ status[i] \in {"pending", "approved"} /\ status' = [status EXCEPT ![i] = "rejected"]
    BY <1>7 DEF elsewhere
  <2>3. status \in [Items -> Statuses]  BY DEF ConsoleTypes, RestTypeOK
  <2>4. TablesAgree'  BY <1>b, <2>1, <2>2, <2>3 DEF TablesAgree
  <2>5. Grows(status, promoted, certified, nonce, status', promoted', certified', nonce')
    BY <2>1, <2>2, <2>3 DEF Grows
  <2>6. 1 \in Calls  BY ConsoleAssumption DEF Calls
  <2>7. CallBacked(call'[1], status', promoted', certified', nonce')
    BY <1>0, <1>a, <2>1, <2>5, <2>6, CallBackedStays
  <2>8. QED  BY <1>0, <2>1, <2>4, <2>5, <2>6, <2>7, ServerStepBacked
<1>8. QED  BY <1>1, <1>2, <1>3, <1>4, <1>5, <1>6, <1>7 DEF Server

(* Steps of the tab: the database stays as it is. *)
LEMMA TabStepBacked ==
  ASSUME NeverAheadInv, UNCHANGED server, ScreenBacked',
         \A c \in Calls : CallBacked(call'[c], status, promoted, certified, nonce)
  PROVE  NeverAheadInv'
<1>1. TablesAgree'  BY DEF NeverAheadInv, TablesAgree, server
<1>2. CallsBacked'  BY DEF CallsBacked, server
<1>3. QED  BY <1>1, <1>2 DEF NeverAheadInv

LEMMA StartedBacked ==
  ASSUME ConsoleTypes, NeverAheadInv, NEW c \in Calls, NEW r \in Call, r.op # "open", StartReading(c, r),
         CallBacked(r, status, promoted, certified, nonce)
  PROVE  \A d \in Calls : CallBacked(call'[d], status, promoted, certified, nonce)
<1> TAKE d \in Calls
<1>1. CASE d = c
  <2>1. call'[c].list = Nothing /\ call'[c].leads = Nothing /\ call'[c].op # "open"
        /\ call'[c].mxOk = r.mxOk /\ call'[c].row = r.row
    BY StartedFields
  <2>2. QED  BY <1>1, <2>1, PartBacked
<1>2. CASE d # c
  <2>1. \/ call'[d] = call[d]
        \/ SameAnswer(call[d], call'[d]) /\ call'[d].op = call[d].op /\ call'[d].to = call[d].to
             /\ call'[d].row = call[d].row
    BY <1>2, StartedFields
  <2>2. CallBacked(call[d], status, promoted, certified, nonce)  BY DEF NeverAheadInv, CallsBacked
  <2>3. CASE call'[d] = call[d]  BY <2>2, <2>3
  <2>4. CASE call'[d] # call[d]
    <3>1. QED  BY <2>1, <2>2, <2>4, PartBacked DEF SameAnswer
  <2>5. QED  BY <2>3, <2>4
<1>3. QED  BY <1>1, <1>2

LEMMA UnusedBacked == \A s, p, k, n : CallBacked(Unused, s, p, k, n)
BY DEF Unused, CallBacked

LEMMA ReviewerBacked ==
  ASSUME ConsoleTypes, NeverAheadInv, Reviewer
  PROVE  NeverAheadInv'
<1>0. call \in [Calls -> Call] /\ \A d \in Calls : CallBacked(call[d], status, promoted, certified, nonce)
  BY DEF ConsoleTypes, CallTypes, NeverAheadInv, CallsBacked
<1>a. ASSUME UNCHANGED <<items, leads, server>> PROVE ScreenBacked'
  BY <1>a DEF NeverAheadInv, ScreenBacked, server
<1>1. CASE Pointing
  BY <1>0, <1>1, <1>a, PointingBeyond, TabStepBacked DEF Beyond, screen
<1>2. ASSUME NEW c \in Calls, refresh(c) PROVE NeverAheadInv'
  <2> DEFINE r == [Unused EXCEPT !.op = "refresh"]
  <2>1. r \in Call /\ r.op # "open" /\ r.list = Nothing /\ r.leads = Nothing /\ r.mxOk = FALSE
    BY DEF Unused, Call
  <2>2. StartReading(c, r) /\ UNCHANGED <<items, leads, server>>  BY <1>2 DEF refresh
  <2> HIDE DEF r
  <2>3. CallBacked(r, status, promoted, certified, nonce)  BY <2>1, BareBacked
  <2>4. QED  BY <1>a, <2>1, <2>2, <2>3, StartedBacked, TabStepBacked
<1>3. ASSUME NEW c \in Calls, NEW r, call' = [call EXCEPT ![c] = r], UNCHANGED <<items, leads, server>>,
             r.list = Nothing, r.leads = Nothing, r.mxOk = FALSE, r.op # "open" \/ r.server # "done"
      PROVE  NeverAheadInv'
  <2>1. CallBacked(r, status, promoted, certified, nonce)  BY <1>3, BareBacked
  <2>2. call'[c] = r /\ \A d \in Calls \ {c} : call'[d] = call[d]  BY <1>0, <1>3
  <2>3. \A d \in Calls : CallBacked(call'[d], status, promoted, certified, nonce)
    BY <1>0, <2>1, <2>2
  <2>4. QED  BY <1>3, <1>a, <2>3, TabStepBacked
<1>4. ASSUME NEW c \in Calls, confirm_reject(c) PROVE NeverAheadInv'
  <2> DEFINE op == IF Cardinality(dialog) = 1 THEN "decide" ELSE "bulk"
             r == [Unused EXCEPT !.op = op, !.at = "waiting", !.server = "todo", !.to = dialog, !.left = dialog,
                                 !.verdict = "rejected", !.row = Nothing]
  <2>1. r.list = Nothing /\ r.leads = Nothing /\ r.mxOk = FALSE /\ r.server # "done"  BY DEF Unused
  <2>2. call' = [call EXCEPT ![c] = r] /\ UNCHANGED <<items, leads, server>>
    BY <1>4 DEF confirm_reject, Decide, screen
  <2> HIDE DEF r
  <2>3. QED  BY <1>3, <2>1, <2>2
<1>5. ASSUME NEW c \in Calls, NEW i \in Items, openItem(c, i) PROVE NeverAheadInv'
  <2> DEFINE r == [Unused EXCEPT !.op = "open", !.at = "waiting", !.server = "todo", !.to = {i}]
  <2>1. r.list = Nothing /\ r.leads = Nothing /\ r.mxOk = FALSE /\ r.server # "done"  BY DEF Unused
  <2>2. call' = [call EXCEPT ![c] = r] /\ UNCHANGED <<items, leads, server>>  BY <1>5 DEF openItem, screen
  <2> HIDE DEF r
  <2>3. QED  BY <1>3, <2>1, <2>2
<1>6. ASSUME NEW c \in Calls, NEW i \in Items, approve(c, i) PROVE NeverAheadInv'
  <2> DEFINE r == [Unused EXCEPT !.op = "decide", !.at = "waiting", !.server = "todo", !.to = {i}, !.left = {i},
                                 !.verdict = "approved", !.row = items[i].email.row]
  <2>1. r.list = Nothing /\ r.leads = Nothing /\ r.mxOk = FALSE /\ r.server # "done"  BY DEF Unused
  <2>2. call' = [call EXCEPT ![c] = r] /\ UNCHANGED <<items, leads, server>>
    BY <1>6 DEF approve, Decide, screen
  <2> HIDE DEF r
  <2>3. QED  BY <1>3, <2>1, <2>2
<1>7. ASSUME NEW c \in Calls, NEW i \in Items, NEW a \in Addresses, submitEmail(c, i, a)
      PROVE  NeverAheadInv'
  <2> DEFINE r == [Unused EXCEPT !.op = "email", !.at = "waiting", !.server = "todo", !.to = {i}, !.row = <<i, a>>,
                                 !.nonce = items[i].nonce]
             f == [Unused EXCEPT !.at = "failed"]
  <2>1. r.list = Nothing /\ r.leads = Nothing /\ r.mxOk = FALSE /\ r.server # "done"  BY DEF Unused
  <2>2. f.list = Nothing /\ f.leads = Nothing /\ f.mxOk = FALSE /\ f.op # "open"  BY DEF Unused
  <2>3. call' = [call EXCEPT ![c] = r] \/ call' = [call EXCEPT ![c] = f]  BY <1>7 DEF submitEmail
  <2>4. UNCHANGED <<items, leads, server>>  BY <1>7 DEF submitEmail, screen
  <2> HIDE DEF r, f
  <2>5. QED  BY <1>3, <2>1, <2>2, <2>3, <2>4
<1>8. QED  BY <1>1, <1>2, <1>4, <1>5, <1>6, <1>7, ReviewerParts

LEMMA PatchBacked ==
  ASSUME ConsoleTypes, ScreenBacked, UNCHANGED <<leads, server>>, NEW i \in Items, NEW it,
         items' = patchItem(i, it),
         items[i] # Nothing => Backed(i, it, status, promoted, certified, nonce)
  PROVE  ScreenBacked'
<1>1. items \in [Items -> ReviewItem \cup {Nothing}]  BY DEF ConsoleTypes, RestTypeOK, Lists
<1>2. \A j \in Items : items'[j] = items[j] \/ (j = i /\ items[i] # Nothing /\ items'[j] = it)
  BY <1>1 DEF patchItem
<1>3. \A j \in Items : items'[j] # Nothing => Backed(j, items'[j], status, promoted, certified, nonce)
  BY <1>2 DEF ScreenBacked
<1>4. QED  BY <1>3 DEF ScreenBacked, server

LEMMA SettlesBacked ==
  ASSUME ConsoleTypes, NeverAheadInv, NEW c \in Calls, Settles(c)
  PROVE  NeverAheadInv'
<1>0. /\ call \in [Calls -> Call] /\ call[c] \in Call /\ CallTyped(call[c])
      /\ \A d \in Calls : CallBacked(call[d], status, promoted, certified, nonce)
      /\ ScreenBacked
  BY DEF ConsoleTypes, CallTypes, NeverAheadInv, CallsBacked
<1>a. ASSUME UNCHANGED <<items, leads, server>> PROVE ScreenBacked'
  BY <1>a DEF NeverAheadInv, ScreenBacked, server
<1>b. CallBacked(Heard(call[c]), status, promoted, certified, nonce) /\ Heard(call[c]) \in Call
  <2>1. Heard(call[c]) \in Call  BY <1>0, HeardIsCall
  <2>2. SameAnswer(call[c], Heard(call[c])) /\ Heard(call[c]).op = call[c].op
        /\ Heard(call[c]).to = call[c].to /\ Heard(call[c]).row = call[c].row
    BY <1>0, HeardFields
  <2>3. CallBacked(call[c], status, promoted, certified, nonce)  BY <1>0
  <2>4. QED  BY <2>1, <2>2, <2>3, PartBacked DEF SameAnswer
<1>1. ASSUME NEW r \in Call, CallBacked(r, status, promoted, certified, nonce), NEW at \in {"done", "failed"},
             call' = [call EXCEPT ![c] = Over(r, at)], UNCHANGED server, ScreenBacked'
      PROVE  NeverAheadInv'
  <2> DEFINE t == Over(r, at)
  <2>1. /\ t.server = r.server
        /\ \/ t.op = "none" /\ t.list = Nothing /\ t.leads = Nothing /\ t.mxOk = FALSE
           \/ /\ t.op = r.op /\ t.list = r.list /\ t.leads = r.leads /\ t.mxOk = r.mxOk /\ t.row = r.row
              /\ t.detail = r.detail /\ t.to = r.to
    BY OverFields
  <2>2. call'[c] = t /\ \A d \in Calls \ {c} : call'[d] = call[d]  BY <1>0, <1>1
  <2> HIDE DEF t
  <2>3. CallBacked(t, status, promoted, certified, nonce)  BY <1>1, <2>1, PartBacked
  <2>4. \A d \in Calls : CallBacked(call'[d], status, promoted, certified, nonce)  BY <1>0, <2>2, <2>3
  <2>5. QED  BY <1>1, <2>4, TabStepBacked
<1>2. CASE detail_arrives(c)
  <2>1. PICK i \in Items : call[c].to = {i} /\ call[c].detail \in ReviewItem
    BY <1>0, <1>2 DEF detail_arrives, CallTyped
  <2> DEFINE it == [call[c].detail EXCEPT !.email = IF @ = Nothing THEN items[i].email ELSE @,
                                          !.nonce = IF @ = 0 THEN items[i].nonce ELSE @]
  <2>2. Backed(i, call[c].detail, status, promoted, certified, nonce)
    BY <1>0, <1>2, <2>1 DEF detail_arrives, CallBacked
  <2>3. items[i] # Nothing => Backed(i, items[i], status, promoted, certified, nonce)
    BY <1>0 DEF ScreenBacked
  <2>4. it.status = call[c].detail.status
        /\ it.email = (IF call[c].detail.email = Nothing THEN items[i].email ELSE call[c].detail.email)
        /\ it.nonce = (IF call[c].detail.nonce = 0 THEN items[i].nonce ELSE call[c].detail.nonce)
    BY <2>1 DEF ReviewItem
  <2>5. items[i] # Nothing => Backed(i, it, status, promoted, certified, nonce)
    <3> HIDE DEF it
    <3>1. QED  BY <2>2, <2>3, <2>4 DEF Backed
  <2>6. items' = patchItem(i, call[c].detail) \/ items' = patchItem(i, it)
    BY <1>2, <2>1 DEF detail_arrives
  <2>7. UNCHANGED <<leads, server>> /\ call' = [call EXCEPT ![c] = Over(Heard(call[c]), "done")]
    BY <1>2 DEF detail_arrives
  <2> HIDE DEF it
  <2>8. ScreenBacked'  BY <1>0, <2>2, <2>5, <2>6, <2>7, PatchBacked
  <2>9. QED  BY <1>1, <1>b, <2>7, <2>8
<1>3. CASE email_arrives(c)
  <2> DEFINE i == call[c].row[1]
             it == [items[i] EXCEPT !.email = [row |-> call[c].row, mxOk |-> call[c].mxOk], !.nonce = 0]
  <2>1. call[c].row \in Items \X Addresses /\ i \in Items  BY <1>0, <1>3 DEF email_arrives, CallTyped
  <2>2. items[i] # Nothing => items[i] \in ReviewItem /\ Backed(i, items[i], status, promoted, certified, nonce)
    BY <1>0, <2>1 DEF ScreenBacked, ConsoleTypes, RestTypeOK, Lists
  <2>3. items[i] # Nothing => /\ it.status = items[i].status /\ it.nonce = 0
                              /\ it.email = [row |-> call[c].row, mxOk |-> call[c].mxOk]
    <3> HIDE DEF i
    <3>1. QED  BY <2>2 DEF ReviewItem
  <2>4. call[c].mxOk => call[c].row \in certified  BY <1>0 DEF CallBacked
  <2>5. items[i] # Nothing => Backed(i, it, status, promoted, certified, nonce)
    <3> HIDE DEF it
    <3>1. QED  BY <2>2, <2>3, <2>4 DEF Backed
  <2>6. items' = IF items[i] = Nothing THEN patchItem(i, Nothing) ELSE patchItem(i, it)
    BY <1>3 DEF email_arrives
  <2>7. UNCHANGED <<leads, server>> /\ call' = [call EXCEPT ![c] = Over(Heard(call[c]), "done")]
    BY <1>3 DEF email_arrives
  <2> HIDE DEF it, i
  <2>8. ScreenBacked'  BY <1>0, <2>1, <2>5, <2>6, <2>7, PatchBacked
  <2>9. QED  BY <1>1, <1>b, <2>7, <2>8
<1>4. CASE decided(c)
  <2>1. Heard(call[c]).op # "open"
    <3>1. call[c].op \in {"decide", "bulk"}  BY <1>4 DEF decided
    <3>2. Heard(call[c]).op = call[c].op  BY <1>0, HeardFields
    <3>3. QED  BY <3>1, <3>2
  <2>2. StartReading(c, Heard(call[c])) /\ UNCHANGED <<items, leads, server>>  BY <1>4 DEF decided
  <2>3. QED  BY <1>a, <1>b, <2>1, <2>2, StartedBacked, TabStepBacked
<1>5. CASE Rejected(c)
  <2>1. call' = [call EXCEPT ![c] = Over(call[c], "failed")] /\ UNCHANGED <<items, leads, server>>
    BY <1>5 DEF Rejected, screen
  <2>2. QED  BY <1>0, <1>1, <1>a, <2>1
<1>6. CASE loaded(c)
  <2>1. call' = [call EXCEPT ![c] = Over(call[c], "done")] /\ UNCHANGED server
        /\ items' = call[c].list /\ leads' = call[c].leads /\ call[c].list # Nothing /\ call[c].leads # Nothing
    BY <1>6 DEF loaded
  <2>2. ScreenBacked'  BY <1>0, <2>1 DEF ScreenBacked, CallBacked, server
  <2>3. QED  BY <1>0, <1>1, <2>1, <2>2
<1>7. CASE refresh_fails(c)
  <2>1. call' = [call EXCEPT ![c] = Over(call[c], "failed")] /\ UNCHANGED <<items, leads, server>>
    BY <1>7 DEF refresh_fails
  <2>2. QED  BY <1>0, <1>1, <1>a, <2>1
<1>8. QED  BY <1>2, <1>3, <1>4, <1>5, <1>6, <1>7 DEF Settles, refused, unreachable

LEMMA NeverAheadStep == ConsoleTypes /\ NeverAheadInv /\ [ConsoleNext]_consoleVars => NeverAheadInv'
<1> SUFFICES ASSUME ConsoleTypes, NeverAheadInv, [ConsoleNext]_consoleVars PROVE NeverAheadInv'
  OBVIOUS
<1>1. CASE Reviewer  BY <1>1, ReviewerBacked
<1>2. CASE Server  BY <1>2, ServerBacked
<1>3. ASSUME NEW c \in Calls, Settles(c) PROVE NeverAheadInv'  BY <1>3, SettlesBacked
<1>4. CASE UNCHANGED consoleVars
  BY <1>4 DEF consoleVars, NeverAheadInv, TablesAgree, ScreenBacked, CallsBacked
<1>5. QED  BY <1>1, <1>2, <1>3, <1>4 DEF ConsoleNext

LEMMA NeverAheadInit == ConsoleInit => NeverAheadInv
<1> SUFFICES ASSUME ConsoleInit PROVE NeverAheadInv  OBVIOUS
<1>1. TablesAgree
  <2>1. \A i \in Items : status[i] # "approved"  BY DEF ConsoleInit
  <2>2. \A i \in Items, a \in Addresses : mail[i][a] = "ok" => <<i, a>> \in certified  BY DEF ConsoleInit
  <2>3. QED  BY <2>1, <2>2 DEF TablesAgree
<1>2. ScreenBacked  BY DEF ConsoleInit, ScreenBacked
<1>3. \A c \in Calls : call[c].list = Nothing /\ call[c].leads = Nothing /\ call[c].op # "open"
        /\ call[c].mxOk = FALSE
  BY DEF ConsoleInit, Unused
<1>4. CallsBacked  BY <1>3, BareBacked DEF CallsBacked
<1>5. QED  BY <1>1, <1>2, <1>4 DEF NeverAheadInv

(* What the screen shows as decided, verified or promoted has been that in the
   database, whatever was lost, failed or overtaken on the way. *)
THEOREM ScreenIsNeverAhead == ConsoleSpec => []ScreenNeverAhead
<1>1. NeverAheadInv => ScreenNeverAhead
  BY DEF NeverAheadInv, ScreenBacked, Backed, ScreenNeverAhead, MxOk
<1>2. QED  BY <1>1, NeverAheadInit, NeverAheadStep, ConsoleTyped, PTL DEF ConsoleSpec

-----------------------------------------------------------------------------
(* What this reviewer decided has left the queue. *)

Acked(i, verdict) == \E c \in Calls : call[c].told /\ call[c].verdict = verdict /\ i \in call[c].ok

Decision(i) == Acked(i, "approved") \/ Acked(i, "rejected")

(* What a call counts as handled has been decided that way. *)
OkIsDecided(r, s) ==
  \A i \in r.ok : /\ r.verdict = "rejected" => s[i] = "rejected"
                  /\ r.verdict = "approved" => s[i] \in {"approved", "rejected"}

CallInOrder(r) ==
  /\ OkIsDecided(r, status)
  /\ r.op \in {"open", "email", "refresh"} => r.verdict = "none"
  /\ r.told => r.server = "done"

CallsInOrder == \A c \in Calls : CallInOrder(call[c])

AloneIsAlone == \A c, d \in Calls : Reading(c) /\ call[c].alone /\ Reading(d) => c = d

(* A reading that is not overlapped has been taken after every decision told. *)
AloneIsCurrent ==
  \A c \in Calls, i \in Items : Reading(c) /\ call[c].alone =>
    /\ call[c].list # Nothing /\ Decision(i) => call[c].list[i] = Nothing
    /\ call[c].leads # Nothing /\ Acked(i, "approved") /\ status[i] = "approved" => i \in call[c].leads

SettledIsCurrent ==
  ~doubt /\ (\A c \in Calls : ~Reading(c)) => \A i \in Items :
    /\ Decision(i) => items[i] = Nothing
    /\ Acked(i, "approved") /\ status[i] = "approved" => i \in leads

CurrentInv == CallsInOrder /\ AloneIsAlone /\ AloneIsCurrent /\ SettledIsCurrent

-----------------------------------------------------------------------------
(* A step of the tab that ends, or begins, a call without reading the lists. *)
LEMMA TabStepCurrent ==
  ASSUME ConsoleTypes, CurrentInv, UNCHANGED server, NEW c \in Calls,
         \A d \in Calls \ {c} : call'[d] = call[d],
         call'[c].at # "reading",
         CallInOrder(call'[c]),
         call'[c].told /\ call'[c].verdict # "none" =>
           call[c].told /\ call'[c].verdict = call[c].verdict /\ call'[c].ok = call[c].ok,
         \/ ~Reading(c) /\ doubt' = doubt /\ leads' = leads
              /\ \A i \in Items : items[i] = Nothing => items'[i] = Nothing
         \/ Reading(c) /\ doubt'
         \/ Reading(c) /\ call[c].alone /\ call[c].list # Nothing /\ call[c].leads # Nothing
              /\ items' = call[c].list /\ leads' = call[c].leads
  PROVE  CurrentInv'
<1>1. status' = status  BY DEF server
<1>2. \A i \in Items : /\ Acked(i, "approved")' => Acked(i, "approved")
                       /\ Acked(i, "rejected")' => Acked(i, "rejected")
  BY DEF Acked
<1>3. CallsInOrder'
  <2>1. ASSUME NEW d \in Calls PROVE CallInOrder(call[d])' 
    <3>1. CASE d = c  BY <1>1, <3>1 DEF CallInOrder, OkIsDecided
    <3>2. CASE d # c
      <4>1. CallInOrder(call[d])  BY DEF CurrentInv, CallsInOrder
      <4>2. call'[d] = call[d]  BY <3>2
      <4>3. QED  BY <1>1, <4>1, <4>2 DEF CallInOrder, OkIsDecided
    <3>3. QED  BY <3>1, <3>2
  <2>2. QED  BY <2>1 DEF CallsInOrder
<1>4. \A d \in Calls : Reading(d)' => d # c /\ Reading(d) /\ call'[d] = call[d]  BY DEF Reading
<1>5. AloneIsAlone'  BY <1>4 DEF CurrentInv, AloneIsAlone
<1>6. AloneIsCurrent'
  <2> SUFFICES ASSUME NEW d \in Calls, NEW i \in Items, Reading(d)', call'[d].alone
               PROVE  /\ call'[d].list # Nothing /\ Decision(i)' => call'[d].list[i] = Nothing
                      /\ call'[d].leads # Nothing /\ Acked(i, "approved")' /\ status'[i] = "approved"
                           => i \in call'[d].leads
    BY DEF AloneIsCurrent
  <2>1. Reading(d) /\ call[d].alone /\ call'[d] = call[d]  BY <1>4
  <2>2. Decision(i)' => Decision(i)  BY <1>2 DEF Decision
  <2>3. QED  BY <1>1, <1>2, <2>1, <2>2 DEF CurrentInv, AloneIsCurrent
<1>7. SettledIsCurrent'
  <2> SUFFICES ASSUME ~doubt', \A d \in Calls : ~Reading(d)', NEW i \in Items
               PROVE  /\ Decision(i)' => items'[i] = Nothing
                      /\ Acked(i, "approved")' /\ status'[i] = "approved" => i \in leads'
    BY DEF SettledIsCurrent
  <2>1. Decision(i)' => Decision(i)  BY <1>2 DEF Decision
  <2>2. CASE Reading(c)
    <3>1. call[c].alone /\ call[c].list # Nothing /\ call[c].leads # Nothing
          /\ items' = call[c].list /\ leads' = call[c].leads
      BY <2>2
    <3>2. QED  BY <1>1, <1>2, <2>1, <2>2, <3>1 DEF CurrentInv, AloneIsCurrent
  <2>3. CASE ~Reading(c)
    <3>1. \A d \in Calls : ~Reading(d)  BY <2>3 DEF Reading
    <3>2. QED  BY <1>1, <1>2, <2>1, <2>3, <3>1 DEF CurrentInv, SettledIsCurrent
  <2>4. QED  BY <2>2, <2>3
<1>8. QED  BY <1>3, <1>5, <1>6, <1>7 DEF CurrentInv

(* A reading begins; all that are out together lose their standing. *)
LEMMA StartedCurrent ==
  ASSUME ConsoleTypes, CurrentInv, UNCHANGED server, NEW c \in Calls, NEW r \in Call, StartReading(c, r),
         CallInOrder(r)
  PROVE  CurrentInv'
<1>1. status' = status  BY DEF server
<1>2. /\ call'[c].at = "reading" /\ call'[c].list = Nothing /\ call'[c].leads = Nothing
      /\ call'[c].alone => \A d \in Calls \ {c} : ~Reading(d)
      /\ call'[c].op = r.op /\ call'[c].told = r.told /\ call'[c].verdict = r.verdict
      /\ call'[c].ok = r.ok /\ call'[c].server = r.server
      /\ \A d \in Calls \ {c} :
           \/ ~Reading(d) /\ call'[d] = call[d]
           \/ /\ Reading(d) /\ SameAnswer(call[d], call'[d])
              /\ call'[d].op = call[d].op /\ call'[d].at = call[d].at /\ call'[d].told = call[d].told
              /\ call'[d].verdict = call[d].verdict
              /\ ~call'[d].alone
  BY StartedFields
<1>3. \A d \in Calls : d # c => ~Reading(d)' \/ ~call'[d].alone  BY <1>2 DEF Reading
<1>4. \A d \in Calls \ {c} : Reading(d)' => Reading(d)  BY <1>2 DEF Reading
<1>5. CallsInOrder'
  <2>1. ASSUME NEW d \in Calls PROVE CallInOrder(call[d])'
    <3>1. CASE d = c
      <4>1. call'[d].op = r.op /\ call'[d].told = r.told /\ call'[d].verdict = r.verdict
            /\ call'[d].ok = r.ok /\ call'[d].server = r.server
        BY <1>2, <3>1
      <4>2. QED  BY <1>1, <4>1 DEF CallInOrder, OkIsDecided
    <3>2. CASE d # c
      <4>1. CallInOrder(call[d])  BY DEF CurrentInv, CallsInOrder
      <4>2. call'[d].op = call[d].op /\ call'[d].told = call[d].told /\ call'[d].verdict = call[d].verdict
            /\ call'[d].ok = call[d].ok /\ call'[d].server = call[d].server
        BY <1>2, <3>2 DEF SameAnswer
      <4>3. QED  BY <1>1, <4>1, <4>2 DEF CallInOrder, OkIsDecided
    <3>3. QED  BY <3>1, <3>2
  <2>2. QED  BY <2>1 DEF CallsInOrder
<1>6. AloneIsAlone'  BY <1>2, <1>3, <1>4 DEF AloneIsAlone
<1>7. AloneIsCurrent'  BY <1>2, <1>3 DEF AloneIsCurrent
<1>8. SettledIsCurrent'  BY <1>2 DEF SettledIsCurrent, Reading
<1>9. QED  BY <1>5, <1>6, <1>7, <1>8 DEF CurrentInv

(* A decided item is never pending again, an approval only revoked. *)
StatusGrows ==
  \A i \in Items : status[i] \in {"approved", "rejected"} =>
    \/ status'[i] = status[i]
    \/ status'[i] = "rejected"

LEMMA ServerStepCurrent ==
  ASSUME ConsoleTypes, CurrentInv, UNCHANGED screen, \A d \in Calls : SameTab(call[d], call'[d]), StatusGrows,
         NEW c \in Calls, \A d \in Calls \ {c} : call'[d] = call[d],
         call[c].told => call'[c].server = call[c].server,
         call'[c].ok = call[c].ok \/ (~call[c].told /\ OkIsDecided(call'[c], status')),
         \/ call'[c].list = call[c].list
         \/ \A i \in Items : status[i] # "pending" => call'[c].list[i] = Nothing,
         \/ call'[c].leads = call[c].leads
         \/ call'[c].leads = {i \in Items : status[i] = "approved"}
  PROVE  CurrentInv'
<1>1. \A i \in Items : /\ Acked(i, "approved")' <=> Acked(i, "approved")
                       /\ Acked(i, "rejected")' <=> Acked(i, "rejected")
  BY DEF Acked, SameTab
<1>2. \A i \in Items : Decision(i)' <=> Decision(i)  BY <1>1 DEF Decision
<1>3. \A i \in Items : /\ Decision(i) => status[i] \in {"approved", "rejected"}
                       /\ status'[i] = "approved" /\ Acked(i, "approved") => status[i] = "approved"
  <2>1. \A d \in Calls : OkIsDecided(call[d], status)  BY DEF CurrentInv, CallsInOrder, CallInOrder
  <2>2. \A i \in Items : Decision(i) => status[i] \in {"approved", "rejected"}
    BY <2>1 DEF Decision, Acked, OkIsDecided
  <2>3. \A i \in Items : Acked(i, "approved") => Decision(i)  BY DEF Decision
  <2>4. QED  BY <2>2, <2>3 DEF StatusGrows
<1>4. CallsInOrder'
  <2>1. ASSUME NEW d \in Calls PROVE CallInOrder(call[d])'
    <3>1. CallInOrder(call[d]) /\ SameTab(call[d], call'[d])  BY DEF CurrentInv, CallsInOrder
    <3>2. call[d] \in Call  BY DEF ConsoleTypes, CallTypes
    <3>3. CASE call'[d].ok = call[d].ok
      <4>1. call'[d].told => call'[d].server = "done"  BY <3>1 DEF CallInOrder, SameTab
      <4>2. call[d].ok \subseteq Items  BY <3>2 DEF Call
      <4>3. OkIsDecided(call'[d], status')
        BY <3>1, <3>3, <4>2 DEF CallInOrder, SameTab, OkIsDecided, StatusGrows
      <4>4. QED  BY <3>1, <4>1, <4>3 DEF CallInOrder, SameTab
    <3>4. CASE call'[d].ok # call[d].ok
      <4>1. d = c /\ ~call[c].told /\ OkIsDecided(call'[c], status')  BY <3>4
      <4>2. QED  BY <3>1, <4>1 DEF CallInOrder, SameTab
    <3>5. QED  BY <3>3, <3>4
  <2>2. QED  BY <2>1 DEF CallsInOrder
<1>5. \A d \in Calls : (Reading(d)' <=> Reading(d)) /\ call'[d].alone = call[d].alone  BY DEF Reading, SameTab
<1>6. AloneIsAlone'  BY <1>5 DEF CurrentInv, AloneIsAlone
<1>7. AloneIsCurrent'
  <2> SUFFICES ASSUME NEW d \in Calls, NEW i \in Items, Reading(d)', call'[d].alone
               PROVE  /\ call'[d].list # Nothing /\ Decision(i)' => call'[d].list[i] = Nothing
                      /\ call'[d].leads # Nothing /\ Acked(i, "approved")' /\ status'[i] = "approved"
                           => i \in call'[d].leads
    BY DEF AloneIsCurrent
  <2>1. /\ call[d].list # Nothing /\ Decision(i) => call[d].list[i] = Nothing
        /\ call[d].leads # Nothing /\ Acked(i, "approved") /\ status[i] = "approved" => i \in call[d].leads
    BY <1>5 DEF CurrentInv, AloneIsCurrent
  <2>2. \/ call'[d].list = call[d].list
        \/ \A j \in Items : status[j] # "pending" => call'[d].list[j] = Nothing
    OBVIOUS
  <2>3. \/ call'[d].leads = call[d].leads
        \/ call'[d].leads = {j \in Items : status[j] = "approved"}
    OBVIOUS
  <2>4. call'[d].list # Nothing /\ Decision(i)' => call'[d].list[i] = Nothing
    BY <1>2, <1>3, <2>1, <2>2
  <2>5. call'[d].leads # Nothing /\ Acked(i, "approved")' /\ status'[i] = "approved" => i \in call'[d].leads
    BY <1>1, <1>3, <2>1, <2>3
  <2>6. QED  BY <2>4, <2>5
<1>8. SettledIsCurrent'
  <2>1. UNCHANGED <<items, leads, doubt>>  BY DEF screen
  <2>2. QED  BY <1>1, <1>2, <1>3, <1>5, <2>1 DEF CurrentInv, SettledIsCurrent
<1>9. QED  BY <1>4, <1>6, <1>7, <1>8 DEF CurrentInv

LEMMA ServerCurrent ==
  ASSUME ConsoleTypes, CurrentInv, Server
  PROVE  CurrentInv'
<1>0. /\ call \in [Calls -> Call]
      /\ UNCHANGED screen
      /\ \A d \in Calls : SameTab(call[d], call'[d])
      /\ \A d \in Calls : CallInOrder(call[d])
  BY ServerKeepsTab DEF ConsoleTypes, CallTypes, CurrentInv, CallsInOrder
<1>a. status' = status => StatusGrows  BY DEF StatusGrows
<1>1. ASSUME NEW c \in Calls, read_list(c) PROVE CurrentInv'
  <2> DEFINE l == [i \in Items |-> IF status[i] = "pending" THEN mapListItem(i) ELSE Nothing]
  <2>1. status' = status /\ call' = [call EXCEPT ![c] = [call[c] EXCEPT !.list = l]]
    BY <1>1 DEF read_list, server
  <2>2. \A i \in Items : status[i] # "pending" => l[i] = Nothing  OBVIOUS
  <2> HIDE DEF l
  <2>3. /\ call'[c].list = l /\ call'[c].leads = call[c].leads /\ call'[c].ok = call[c].ok
        /\ call'[c].server = call[c].server
        /\ \A d \in Calls \ {c} : call'[d] = call[d]
    BY <1>0, <2>1 DEF Call
  <2>4. QED  BY <1>0, <1>a, <2>1, <2>2, <2>3, ServerStepCurrent
<1>2. ASSUME NEW c \in Calls, read_leads(c) PROVE CurrentInv'
  <2> DEFINE l == {i \in Items : status[i] = "approved"}
  <2>1. status' = status /\ call' = [call EXCEPT ![c] = [call[c] EXCEPT !.leads = l]]
    BY <1>2 DEF read_leads, server
  <2>2. /\ call'[c].list = call[c].list /\ call'[c].leads = l /\ call'[c].ok = call[c].ok
        /\ call'[c].server = call[c].server
        /\ \A d \in Calls \ {c} : call'[d] = call[d]
    <3> HIDE DEF l
    <3>1. QED  BY <1>0, <2>1 DEF Call
  <2>3. QED  BY <1>0, <1>a, <2>1, <2>2, ServerStepCurrent
<1>3. ASSUME NEW c \in Calls, enter_contact_email(c) PROVE CurrentInv'
  <2>1. PICK x : call' = [call EXCEPT ![c] = [call[c] EXCEPT !.server = x]]  BY <1>3 DEF enter_contact_email
  <2>2. /\ call'[c].list = call[c].list /\ call'[c].leads = call[c].leads /\ call'[c].ok = call[c].ok
        /\ \A d \in Calls \ {c} : call'[d] = call[d]
    BY <1>0, <2>1 DEF Call
  <2>3. status' = status /\ ~call[c].told  BY <1>0, <1>3 DEF enter_contact_email, CallInOrder
  <2>4. QED  BY <1>0, <1>a, <2>2, <2>3, ServerStepCurrent
<1>4. ASSUME NEW c \in Calls, NEW mxOk \in BOOLEAN, verify_contact_email(c, mxOk) PROVE CurrentInv'
  <2>1. call' = [call EXCEPT ![c] = [call[c] EXCEPT !.server = "done", !.ok = call[c].to, !.mxOk = mxOk]]
    BY <1>4 DEF verify_contact_email
  <2>2. /\ call'[c].list = call[c].list /\ call'[c].leads = call[c].leads /\ call'[c].verdict = call[c].verdict
        /\ \A d \in Calls \ {c} : call'[d] = call[d]
    BY <1>0, <2>1 DEF Call
  <2>3. status' = status /\ ~call[c].told /\ call[c].verdict = "none"
    BY <1>0, <1>4 DEF verify_contact_email, CallInOrder
  <2>4. OkIsDecided(call'[c], status')  BY <2>2, <2>3 DEF OkIsDecided
  <2>5. QED  BY <1>0, <1>a, <2>2, <2>3, <2>4, ServerStepCurrent
<1>5. ASSUME NEW c \in Calls, NEW i \in Items, read_detail(c, i) PROVE CurrentInv'
  <2>1. PICK x : call' = [call EXCEPT ![c] = [call[c] EXCEPT !.server = "done", !.detail = x]]
    BY <1>5 DEF read_detail
  <2>2. /\ call'[c].list = call[c].list /\ call'[c].leads = call[c].leads /\ call'[c].ok = call[c].ok
        /\ \A d \in Calls \ {c} : call'[d] = call[d]
    BY <1>0, <2>1 DEF Call
  <2>3. status' = status /\ ~call[c].told  BY <1>0, <1>5 DEF read_detail, CallInOrder
  <2>4. QED  BY <1>0, <1>a, <2>2, <2>3, ServerStepCurrent
<1>6. ASSUME NEW c \in Calls, NEW i \in Items, decide_review_item(c, i) PROVE CurrentInv'
  <2> DEFINE end == IF call[c].left = {i} THEN "done" ELSE call[c].server
  <2>0. status \in [Items -> Statuses] /\ ~call[c].told /\ OkIsDecided(call[c], status) /\ call[c] \in Call
    BY <1>0, <1>6 DEF ConsoleTypes, RestTypeOK, decide_review_item, CallInOrder
  <2>1. CASE /\ status' = status
             /\ call' = [call EXCEPT ![c].left = @ \ {i}, ![c].server = IF call[c].left = {i} THEN "done" ELSE @]
    <3>1. call' = [call EXCEPT ![c] = [call[c] EXCEPT !.left = @ \ {i}, !.server = end]]  BY <2>1
    <3> HIDE DEF end
    <3>2. /\ call'[c].list = call[c].list /\ call'[c].leads = call[c].leads /\ call'[c].ok = call[c].ok
          /\ \A d \in Calls \ {c} : call'[d] = call[d]
      BY <1>0, <3>1 DEF Call
    <3>3. QED  BY <1>0, <1>a, <2>0, <2>1, <3>2, ServerStepCurrent
  <2>2. CASE /\ Acceptable(call[c], i) /\ status' = [status EXCEPT ![i] = call[c].verdict]
             /\ call' = [call EXCEPT ![c].left = @ \ {i}, ![c].ok = @ \cup {i},
                                     ![c].server = IF call[c].left = {i} THEN "done" ELSE @]
    <3>1. call' = [call EXCEPT ![c] = [call[c] EXCEPT !.left = @ \ {i}, !.ok = @ \cup {i}, !.server = end]]
      BY <2>2
    <3> HIDE DEF end
    <3>2. /\ call'[c].list = call[c].list /\ call'[c].leads = call[c].leads /\ call'[c].ok = call[c].ok \cup {i}
          /\ call'[c].verdict = call[c].verdict
          /\ \A d \in Calls \ {c} : call'[d] = call[d]
      BY <1>0, <3>1 DEF Call
    <3>3. status[i] = "pending"  BY <2>2 DEF Acceptable
    <3>4. StatusGrows  BY <2>0, <2>2, <3>3 DEF StatusGrows
    <3>5. OkIsDecided(call'[c], status')
      <4>1. call[c].ok \subseteq Items  BY <2>0 DEF Call
      <4>2. QED  BY <2>0, <2>2, <3>2, <3>3, <4>1 DEF OkIsDecided
    <3>6. QED  BY <1>0, <2>0, <3>2, <3>4, <3>5, ServerStepCurrent
  <2>3. QED  BY <1>6, <2>1, <2>2 DEF decide_review_item
<1>7. ASSUME NEW i \in Items, elsewhere(i) PROVE CurrentInv'
  <2>1. call' = call  BY <1>7 DEF elsewhere
  <2>2. \/ status[i] = "none" /\ status' = [status EXCEPT ![i] = "pending"]
        \/ status[i] \in {"pending", "approved"} /\ status' = [status EXCEPT ![i] = "rejected"]
    BY <1>7 DEF elsewhere
  <2>3. status \in [Items -> Statuses]  BY DEF ConsoleTypes, RestTypeOK
  <2>4. StatusGrows  BY <2>2, <2>3 DEF StatusGrows
  <2>5. 1 \in Calls  BY ConsoleAssumption DEF Calls
  <2>6. QED  BY <1>0, <2>1, <2>4, <2>5, ServerStepCurrent
<1>8. QED  BY <1>1, <1>2, <1>3, <1>4, <1>5, <1>6, <1>7 DEF Server

LEMMA ReviewerCurrent ==
  ASSUME ConsoleTypes, CurrentInv, Reviewer
  PROVE  CurrentInv'
<1>0. call \in [Calls -> Call]  BY DEF ConsoleTypes, CallTypes
<1>1. CASE Pointing
  <2>1. UNCHANGED <<server, items, leads, doubt, call>>  BY <1>1, PointingBeyond DEF Beyond, screen
  <2>2. QED
    BY <2>1 DEF CurrentInv, CallsInOrder, CallInOrder, OkIsDecided, AloneIsAlone, AloneIsCurrent,
                SettledIsCurrent, Acked, Decision, Reading, server
<1>2. ASSUME NEW c \in Calls, refresh(c) PROVE CurrentInv'
  <2> DEFINE r == [Unused EXCEPT !.op = "refresh"]
  <2>1. r \in Call /\ r.verdict = "none" /\ r.ok = {} /\ r.told = FALSE  BY DEF Unused, Call
  <2>2. StartReading(c, r) /\ UNCHANGED server  BY <1>2 DEF refresh
  <2> HIDE DEF r
  <2>3. CallInOrder(r)  BY <2>1 DEF CallInOrder, OkIsDecided
  <2>4. QED  BY <2>1, <2>2, <2>3, StartedCurrent
<1>3. ASSUME NEW c \in Calls, NEW r, Fresh(c), call' = [call EXCEPT ![c] = r],
             UNCHANGED <<items, leads, doubt, server>>,
             r.at # "reading", r.told = FALSE, r.ok = {},
             r.op \in {"open", "email", "refresh"} => r.verdict = "none"
      PROVE  CurrentInv'
  <2>1. call'[c] = r /\ \A d \in Calls \ {c} : call'[d] = call[d]  BY <1>0, <1>3
  <2>2. CallInOrder(call'[c])  BY <1>3, <2>1 DEF CallInOrder, OkIsDecided
  <2>3. ~Reading(c)  BY <1>3 DEF Fresh, Unused, Reading
  <2>4. QED  BY <1>3, <2>1, <2>2, <2>3, TabStepCurrent
<1>4. ASSUME NEW c \in Calls, confirm_reject(c) PROVE CurrentInv'
  <2> DEFINE op == IF Cardinality(dialog) = 1 THEN "decide" ELSE "bulk"
             r == [Unused EXCEPT !.op = op, !.at = "waiting", !.server = "todo", !.to = dialog, !.left = dialog,
                                 !.verdict = "rejected", !.row = Nothing]
  <2>1. r.at = "waiting" /\ r.told = FALSE /\ r.ok = {} /\ r.op \in {"decide", "bulk"}  BY DEF Unused
  <2>2. Fresh(c) /\ call' = [call EXCEPT ![c] = r] /\ UNCHANGED <<items, leads, doubt, server>>
    BY <1>4 DEF confirm_reject, Decide, screen
  <2> HIDE DEF r
  <2>3. QED  BY <1>3, <2>1, <2>2
<1>5. ASSUME NEW c \in Calls, NEW i \in Items, openItem(c, i) PROVE CurrentInv'
  <2> DEFINE r == [Unused EXCEPT !.op = "open", !.at = "waiting", !.server = "todo", !.to = {i}]
  <2>1. r.at = "waiting" /\ r.told = FALSE /\ r.ok = {} /\ r.verdict = "none"  BY DEF Unused
  <2>2. Fresh(c) /\ call' = [call EXCEPT ![c] = r] /\ UNCHANGED <<items, leads, doubt, server>>
    BY <1>5 DEF openItem, screen
  <2> HIDE DEF r
  <2>3. QED  BY <1>3, <2>1, <2>2
<1>6. ASSUME NEW c \in Calls, NEW i \in Items, approve(c, i) PROVE CurrentInv'
  <2> DEFINE r == [Unused EXCEPT !.op = "decide", !.at = "waiting", !.server = "todo", !.to = {i}, !.left = {i},
                                 !.verdict = "approved", !.row = items[i].email.row]
  <2>1. r.at = "waiting" /\ r.told = FALSE /\ r.ok = {} /\ r.op = "decide"  BY DEF Unused
  <2>2. Fresh(c) /\ call' = [call EXCEPT ![c] = r] /\ UNCHANGED <<items, leads, doubt, server>>
    BY <1>6 DEF approve, Decide, screen
  <2> HIDE DEF r
  <2>3. QED  BY <1>3, <2>1, <2>2
<1>7. ASSUME NEW c \in Calls, NEW i \in Items, NEW a \in Addresses, submitEmail(c, i, a)
      PROVE  CurrentInv'
  <2> DEFINE r == [Unused EXCEPT !.op = "email", !.at = "waiting", !.server = "todo", !.to = {i}, !.row = <<i, a>>,
                                 !.nonce = items[i].nonce]
             f == [Unused EXCEPT !.at = "failed"]
  <2>1. r.at = "waiting" /\ r.told = FALSE /\ r.ok = {} /\ r.verdict = "none"  BY DEF Unused
  <2>2. f.at = "failed" /\ f.told = FALSE /\ f.ok = {} /\ f.verdict = "none"  BY DEF Unused
  <2>3. call' = [call EXCEPT ![c] = r] \/ call' = [call EXCEPT ![c] = f]  BY <1>7 DEF submitEmail
  <2>4. Fresh(c) /\ UNCHANGED <<items, leads, doubt, server>>  BY <1>7 DEF submitEmail, screen
  <2> HIDE DEF r, f
  <2>5. QED  BY <1>3, <2>1, <2>2, <2>3, <2>4
<1>8. QED  BY <1>1, <1>2, <1>4, <1>5, <1>6, <1>7, ReviewerParts

LEMMA SettlesCurrent ==
  ASSUME ConsoleTypes, CurrentInv, NEW c \in Calls, Settles(c)
  PROVE  CurrentInv'
<1>0. /\ call \in [Calls -> Call] /\ call[c] \in Call /\ CallInOrder(call[c])
      /\ items \in [Items -> ReviewItem \cup {Nothing}]
  BY DEF ConsoleTypes, CallTypes, RestTypeOK, Lists, CurrentInv, CallsInOrder
<1>a. /\ Heard(call[c]) \in Call /\ Heard(call[c]).op = call[c].op /\ Heard(call[c]).ok = call[c].ok
      /\ Heard(call[c]).verdict = call[c].verdict /\ Heard(call[c]).server = call[c].server
      /\ Heard(call[c]).told
  BY <1>0, HeardIsCall, HeardFields DEF SameAnswer
<1>b. call[c].server = "done" => CallInOrder(Heard(call[c]))
  BY <1>0, <1>a DEF CallInOrder, OkIsDecided
<1>1. ASSUME NEW r \in Call, NEW at \in {"done", "failed"}, call' = [call EXCEPT ![c] = Over(r, at)],
             CallInOrder(r), r.verdict = call[c].verdict, r.ok = call[c].ok,
             r.told => call[c].told \/ r.verdict = "none"
      PROVE  /\ \A d \in Calls \ {c} : call'[d] = call[d]
             /\ call'[c].at # "reading"
             /\ CallInOrder(call'[c])
             /\ call'[c].told /\ call'[c].verdict # "none" =>
                  call[c].told /\ call'[c].verdict = call[c].verdict /\ call'[c].ok = call[c].ok
  <2> DEFINE t == Over(r, at)
  <2>1. t.at = at /\ t.verdict = r.verdict /\ t.ok = r.ok /\ t.told = r.told /\ t.server = r.server
        /\ t.op \in {"none", r.op}
    BY OverFields
  <2>2. call'[c] = t /\ \A d \in Calls \ {c} : call'[d] = call[d]  BY <1>0, <1>1
  <2> HIDE DEF t
  <2>3. CallInOrder(t)  BY <1>1, <2>1 DEF CallInOrder, OkIsDecided
  <2>4. QED  BY <1>1, <2>1, <2>2, <2>3
<1>c. \A i \in Items : \A it : items' = patchItem(i, it) =>
        \A j \in Items : items[j] = Nothing => items'[j] = Nothing
  BY <1>0 DEF patchItem
<1>2. CASE detail_arrives(c)
  <2>1. /\ call' = [call EXCEPT ![c] = Over(Heard(call[c]), "done")]
        /\ UNCHANGED <<server, leads, doubt>> /\ ~Reading(c) /\ call[c].server = "done" /\ call[c].op = "open"
    BY <1>2 DEF detail_arrives, Waiting, Reading
  <2>2. call[c].verdict = "none"  BY <1>0, <2>1 DEF CallInOrder
  <2>3. \E i \in Items : \E it : items' = patchItem(i, it)
    <3>1. \A i \in call[c].to : i \in Items  BY <1>0 DEF Call
    <3>2. QED  BY <1>2, <3>1 DEF detail_arrives
  <2>4. \A j \in Items : items[j] = Nothing => items'[j] = Nothing  BY <1>c, <2>3
  <2>5. QED  BY <1>1, <1>a, <1>b, <2>1, <2>2, <2>4, TabStepCurrent
<1>3. CASE email_arrives(c)
  <2>1. /\ call' = [call EXCEPT ![c] = Over(Heard(call[c]), "done")]
        /\ UNCHANGED <<server, leads, doubt>> /\ ~Reading(c) /\ call[c].server = "done" /\ call[c].op = "email"
    BY <1>3 DEF email_arrives, Waiting, Reading
  <2>2. call[c].verdict = "none"  BY <1>0, <2>1 DEF CallInOrder
  <2>3. \E i \in Items : \E it : items' = patchItem(i, it)
    <3>1. call[c].row \in Items \X Addresses  BY <2>1 DEF ConsoleTypes, CallTypes, CallTyped
    <3>2. call[c].row[1] \in Items  BY <3>1
    <3>3. QED  BY <1>3, <3>2 DEF email_arrives
  <2>4. \A j \in Items : items[j] = Nothing => items'[j] = Nothing  BY <1>c, <2>3
  <2>5. QED  BY <1>1, <1>a, <1>b, <2>1, <2>2, <2>4, TabStepCurrent
<1>4. CASE decided(c)
  <2>1. StartReading(c, Heard(call[c])) /\ UNCHANGED server /\ call[c].server = "done"  BY <1>4 DEF decided
  <2>2. QED  BY <1>a, <1>b, <2>1, StartedCurrent
<1>5. CASE Rejected(c) /\ Waiting(c)
  <2>1. /\ call' = [call EXCEPT ![c] = Over(call[c], "failed")]
        /\ UNCHANGED <<server, items, leads, doubt>> /\ ~Reading(c)
    BY <1>5 DEF Rejected, screen, Waiting, Reading
  <2>2. /\ \A d \in Calls \ {c} : call'[d] = call[d]
        /\ call'[c].at # "reading"
        /\ CallInOrder(call'[c])
        /\ call'[c].told /\ call'[c].verdict # "none" =>
             call[c].told /\ call'[c].verdict = call[c].verdict /\ call'[c].ok = call[c].ok
    BY <1>0, <1>1, <2>1
  <2>3. QED  BY <2>1, <2>2, TabStepCurrent
<1>6. CASE loaded(c)
  <2>1. /\ call' = [call EXCEPT ![c] = Over(call[c], "done")]
        /\ UNCHANGED server /\ Reading(c) /\ call[c].list # Nothing /\ call[c].leads # Nothing
        /\ items' = call[c].list /\ leads' = call[c].leads
    BY <1>6 DEF loaded
  <2>2. /\ \A d \in Calls \ {c} : call'[d] = call[d]
        /\ call'[c].at # "reading"
        /\ CallInOrder(call'[c])
        /\ call'[c].told /\ call'[c].verdict # "none" =>
             call[c].told /\ call'[c].verdict = call[c].verdict /\ call'[c].ok = call[c].ok
    BY <1>0, <1>1, <2>1
  <2>3. doubt' \/ call[c].alone  BY <1>6 DEF loaded
  <2>4. QED  BY <2>1, <2>2, <2>3, TabStepCurrent
<1>7. CASE refresh_fails(c)
  <2>1. /\ call' = [call EXCEPT ![c] = Over(call[c], "failed")]
        /\ UNCHANGED server /\ Reading(c) /\ doubt' = TRUE
    BY <1>7 DEF refresh_fails
  <2>2. /\ \A d \in Calls \ {c} : call'[d] = call[d]
        /\ call'[c].at # "reading"
        /\ CallInOrder(call'[c])
        /\ call'[c].told /\ call'[c].verdict # "none" =>
             call[c].told /\ call'[c].verdict = call[c].verdict /\ call'[c].ok = call[c].ok
    BY <1>0, <1>1, <2>1
  <2>3. QED  BY <2>1, <2>2, TabStepCurrent
<1>8. QED  BY <1>2, <1>3, <1>4, <1>5, <1>6, <1>7 DEF Settles, refused, unreachable

LEMMA CurrentStep == ConsoleTypes /\ CurrentInv /\ [ConsoleNext]_consoleVars => CurrentInv'
<1> SUFFICES ASSUME ConsoleTypes, CurrentInv, [ConsoleNext]_consoleVars PROVE CurrentInv'
  OBVIOUS
<1>1. CASE Reviewer  BY <1>1, ReviewerCurrent
<1>2. CASE Server  BY <1>2, ServerCurrent
<1>3. ASSUME NEW c \in Calls, Settles(c) PROVE CurrentInv'  BY <1>3, SettlesCurrent
<1>4. CASE UNCHANGED consoleVars
  BY <1>4 DEF consoleVars, CurrentInv, CallsInOrder, CallInOrder, OkIsDecided, AloneIsAlone, AloneIsCurrent,
              SettledIsCurrent, Acked, Decision, Reading
<1>5. QED  BY <1>1, <1>2, <1>3, <1>4 DEF ConsoleNext

LEMMA CurrentInit == ConsoleInit => CurrentInv
<1> SUFFICES ASSUME ConsoleInit PROVE CurrentInv  OBVIOUS
<1>1. \A c \in Calls : /\ call[c].ok = {} /\ call[c].verdict = "none" /\ call[c].told = FALSE
                       /\ Reading(c) => c = 1
  BY DEF ConsoleInit, Unused, Reading
<1>2. CallsInOrder  BY <1>1 DEF CallsInOrder, CallInOrder, OkIsDecided
<1>3. AloneIsAlone  BY <1>1 DEF AloneIsAlone
<1>4. \A i : ~Acked(i, "approved") /\ ~Decision(i)  BY <1>1 DEF Acked, Decision
<1>5. QED  BY <1>2, <1>3, <1>4 DEF CurrentInv, AloneIsCurrent, SettledIsCurrent

(* What this reviewer decided has left the queue, and his approvals are among
   the leads, once the refreshes did not overlap and the last came through. *)
THEOREM UnracedScreenStaysCurrent == ConsoleSpec => []UnracedScreenIsCurrent
<1>1. ConsoleTypes /\ CurrentInv => UnracedScreenIsCurrent
  <2> SUFFICES ASSUME ConsoleTypes, CurrentInv, ~doubt, \A c \in Calls : ~Reading(c),
                      NEW i \in Acknowledged("approved") \cup Acknowledged("rejected")
               PROVE  Current(i)
    BY DEF UnracedScreenIsCurrent
  <2>1. /\ i \in Acknowledged("approved") <=> Acked(i, "approved")
        /\ i \in Acknowledged("rejected") <=> Acked(i, "rejected")
    BY DEF Acknowledged, Acked
  <2>2. i \in Items
    <3>1. \A c \in Calls : call[c].ok \subseteq Items  BY DEF ConsoleTypes, CallTypes, Call
    <3>2. QED  BY <2>1, <3>1 DEF Acked
  <2>3. items[i] = Nothing  BY <2>1, <2>2 DEF CurrentInv, SettledIsCurrent, Decision
  <2>4. ~Visible(i)  BY <2>3 DEF Visible
  <2>5. QED  BY <2>1, <2>2, <2>4 DEF CurrentInv, SettledIsCurrent, Current
<1>2. QED  BY <1>1, CurrentInit, CurrentStep, ConsoleTyped, PTL DEF ConsoleSpec

-----------------------------------------------------------------------------
(* Home pages, contact pages and search results. *)

(* A row is nothing, what a visit found, or that with the verdict taken back. *)
Rows == {None} \cup UNION {RowsOf(f) : f \in UNION {Findings[s] : s \in Sites}}

(* What a consumer is about to write was found at the site it visited. *)
PoolsHold ==
  \A e \in Executions : \A b \in pool[e].busy : b.site \in Sites => b.found \in Findings[b.site]

SurveyTypes ==
  /\ seen \in [Sites -> Rows]
  /\ stage \in [StageNames -> {"pending", "running", "demoted", "gated", "succeeded"}]
  /\ DOMAIN pool = Executions
  /\ \A e \in Executions : DOMAIN pool[e] = {"state", "queue", "busy", "hands"}
  /\ \A e \in Executions : pool[e].state \in {"off", "live", "adrift", "over", "failed"}
  /\ PoolsHold

(* One execution at most holds the lease, and only while the stage runs. *)
PoolsRest ==
  /\ \A d, e \in Executions : pool[d].state = "live" /\ pool[e].state = "live" => d = e
  /\ \A e \in Executions : pool[e].state = "live" => stage["homepage_detect"] = "running"

(* The body of this site is not that of so many that are not rejected: but for
   those that were written since contact_pages began. *)
OwnBody(s) ==
  s \notin late /\ seen[s].hash # None /\ seen[s].status # "not_official" =>
    Cardinality(SameBody(s) \ late) < SharedContent

(* What contact_pages has reached after each of its statements. *)
GatePassed ==
  /\ stage["contact_pages"] # "pending" => Done("homepage_detect") /\ \A s \in Sites : OwnBody(s)
  /\ stage["contact_pages"] \in {"gated", "succeeded"} =>
       \A p \in contacts : p.site \in Sites \ late => Official(seen[p.site].status)

Gate ==
  /\ PoolsRest
  /\ Done("homepage_detect") => \A s \in Sites : seen[s] # None
  /\ GatePassed

LEMMA ObservationIsARow ==
  ASSUME NEW s \in Sites, NEW f \in Findings[s]
  PROVE  Observation(f) \in Rows /\ Observation(f) # None
BY RowAssumption DEF Rows, RowsOf

LEMMA RejectedIsARow ==
  ASSUME NEW r \in Rows, r # None, NEW x, x = [r EXCEPT !.status = "not_official"]
  PROVE  x \in Rows /\ x # None /\ x.status = "not_official" /\ x.hash = r.hash
<1>1. PICK s \in Sites : \E f \in Findings[s] : r \in RowsOf(f)
  BY DEF Rows
<1>0. PICK f \in Findings[s] : r \in RowsOf(f)
  BY <1>1
<1>2. x = [Observation(f) EXCEPT !.status = "not_official"]
  BY <1>0 DEF RowsOf, Observation
<1>3. x \in RowsOf(f)
  BY <1>2 DEF RowsOf
<1>4. x \in Rows /\ x # None
  BY <1>3, RowAssumption DEF Rows
<1>5. x.status = "not_official" /\ x.hash = r.hash
  BY <1>0, <1>2 DEF RowsOf, Observation
<1> QED  BY <1>4, <1>5

LEMMA SurveyTypesInit == SurveyInit => SurveyTypes
BY DEF SurveyInit, SurveyTypes, Rows, StageNames, Off, PoolsHold

(* The steps that leave the pools alone and judge no site. *)
LEMMA TypesBesides ==
  ASSUME SurveyTypes, UNCHANGED <<seen, pool>>,
         stage' \in [StageNames -> {"pending", "running", "demoted", "gated", "succeeded"}]
  PROVE  SurveyTypes'
BY DEF SurveyTypes, PoolsHold

(* One execution moves. *)
Moves(e) ==
  /\ DOMAIN pool' = Executions /\ \A d \in Executions \ {e} : pool'[d] = pool[d]
  /\ DOMAIN pool'[e] = {"state", "queue", "busy", "hands"}
  /\ pool'[e].state \in {"off", "live", "adrift", "over", "failed"}
  /\ pool'[e].busy \subseteq pool[e].busy \cup {b \in pool'[e].busy : b.site \in Sites => b.found \in Findings[b.site]}

LEMMA StartMoves ==
  ASSUME SurveyTypes, NEW e \in Executions, detect_start(e)
  PROVE  Moves(e) /\ pool'[e].state = "live"
BY DEF SurveyTypes, detect_start, Moves, Off

LEMMA PageMoves ==
  ASSUME SurveyTypes, NEW e \in Executions, detect_page(e)
  PROVE  /\ Moves(e)
         /\ pool'[e].state = IF Pending = {} THEN "over" ELSE pool[e].state
<1>1. CASE Pending = {}
  <2>1. pool' = [pool EXCEPT ![e].state = "over"]  BY <1>1 DEF detect_page
  <2> QED  BY <1>1, <2>1 DEF SurveyTypes, Moves
<1>2. CASE Pending # {}
  <2>1. pool' = [pool EXCEPT ![e].queue = PageOfSites, ![e].hands = Concurrency]
    BY <1>2 DEF detect_page
  <2> QED  BY <1>2, <2>1 DEF SurveyTypes, Moves
<1> QED  BY <1>1, <1>2

LEMMA LostMoves ==
  ASSUME SurveyTypes, NEW e \in Executions, detect_lost(e)
  PROVE  Moves(e) /\ pool'[e].state = "adrift"
BY DEF SurveyTypes, detect_lost, Moves

LEMMA VisitMoves ==
  ASSUME SurveyTypes, NEW e \in Executions, visit(e)
  PROVE  Moves(e) /\ pool'[e].state = pool[e].state
<1>1. PICK f \in Findings[Head(pool[e].queue)] :
        pool' = [pool EXCEPT ![e].queue = Tail(@), ![e].busy = @ \cup {[site |-> Head(pool[e].queue), found |-> f]}]
  BY DEF visit
<1>2. \A b \in {[site |-> Head(pool[e].queue), found |-> f]} : b.site \in Sites => b.found \in Findings[b.site]
  OBVIOUS
<1> DEFINE new == {[site |-> Head(pool[e].queue), found |-> f]}
<1> HIDE DEF new
<1>3. pool'[e].busy = pool[e].busy \cup new  BY <1>1 DEF SurveyTypes, new
<1>4. pool'[e].state = pool[e].state /\ DOMAIN pool'[e] = {"state", "queue", "busy", "hands"}
  BY <1>1 DEF SurveyTypes
<1>5. DOMAIN pool' = Executions /\ \A d \in Executions \ {e} : pool'[d] = pool[d]
  BY <1>1 DEF SurveyTypes
<1> QED  BY <1>2, <1>3, <1>4, <1>5 DEF Moves, SurveyTypes, new

LEMMA WriteMoves ==
  ASSUME SurveyTypes, NEW e \in Executions, NEW b \in pool[e].busy, persist(e, b) \/ persist_fails(e, b)
  PROVE  /\ Moves(e)
         /\ persist(e, b) => pool'[e].state = pool[e].state
         /\ persist_fails(e, b) => pool'[e].state = "failed"
BY DEF SurveyTypes, persist, persist_fails, Moves

LEMMA PoolTypes ==
  ASSUME SurveyTypes, NEW e \in Executions, Moves(e), seen' \in [Sites -> Rows],
         stage' \in [StageNames -> {"pending", "running", "demoted", "gated", "succeeded"}]
  PROVE  SurveyTypes'
<1>1. PoolsHold'  BY DEF PoolsHold, SurveyTypes, Moves
<1> QED  BY <1>1 DEF SurveyTypes, Moves

LEMMA SurveyTypesStep == SurveyTypes /\ [SurveyNext]_surveyVars => SurveyTypes'
<1> SUFFICES ASSUME SurveyTypes, [SurveyNext]_surveyVars PROVE SurveyTypes'  OBVIOUS
<1>1. CASE UNCHANGED surveyVars
  BY <1>1, TypesBesides DEF surveyVars, tables, progress, SurveyTypes
<1>2. ASSUME NEW e \in Executions, detect_start(e) \/ detect_page(e) \/ visit(e) \/ detect_lost(e) PROVE SurveyTypes'
  <2>1. stage' \in [StageNames -> {"pending", "running", "demoted", "gated", "succeeded"}] /\ seen' \in [Sites -> Rows]
    BY <1>2 DEF detect_start, detect_page, visit, detect_lost, SurveyTypes, tables
  <2> QED  BY <1>2, <2>1, PoolTypes, StartMoves, PageMoves, VisitMoves, LostMoves
<1>3. ASSUME NEW e \in Executions, NEW b \in pool[e].busy, persist(e, b) \/ persist_fails(e, b) PROVE SurveyTypes'
  <2>1. seen' \in [Sites -> Rows]
    BY <1>3, ObservationIsARow DEF persist, persist_fails, SurveyTypes, PoolsHold, tables
  <2>2. stage' \in [StageNames -> {"pending", "running", "demoted", "gated", "succeeded"}]
    BY <1>3 DEF persist, persist_fails, SurveyTypes
  <2> QED  BY <1>3, <2>1, <2>2, WriteMoves, PoolTypes
<1>4. CASE contact_demote
  <2>1. seen' \in [Sites -> Rows]
    BY <1>4, RejectedIsARow DEF contact_demote, SurveyTypes
  <2> QED  BY <1>4, <2>1 DEF contact_demote, SurveyTypes, PoolsHold
<1>5. CASE contact_gate \/ contact_orphans \/ contact_cut
  BY <1>5, TypesBesides DEF contact_gate, contact_orphans, contact_cut, SurveyTypes, tables
<1>6. CASE Analyze
  BY <1>6, TypesBesides DEF Analyze, channel_end, channel_analyze, SurveyTypes, tables, progress
<1>7. CASE Search \/ search_cut
  BY <1>7, TypesBesides DEF Search, search_cut, search_start, search_next, search_call, search_store, SurveyTypes, tables
<1> QED
  BY <1>1, <1>2, <1>3, <1>4, <1>5, <1>6, <1>7 DEF SurveyNext, Detect, Contact

(* What no consumer ever does: take an observation back. *)
LEMMA SeenStays ==
  ASSUME SurveyTypes, NEW e \in Executions, NEW b \in pool[e].busy, persist(e, b), NEW s \in Sites
  PROVE  /\ seen[s] # None => seen'[s] # None
         /\ s # b.site => seen'[s] = seen[s]
<1>1. seen' = [seen EXCEPT ![b.site] = Observation(b.found)]  BY DEF persist
<1>2. s = b.site => Observation(b.found) # None  BY ObservationIsARow DEF SurveyTypes, PoolsHold
<1> QED  BY <1>1, <1>2 DEF SurveyTypes

(* homepage_detect begins, reads a page, or loses its lease or its write: no
   site is written. *)
LEMMA GateDetect ==
  ASSUME SurveyTypes, Gate, NEW e \in Executions,
         \/ detect_start(e) \/ detect_page(e) \/ visit(e) \/ detect_lost(e)
         \/ \E b \in pool[e].busy : persist_fails(e, b)
  PROVE  Gate'
<1>1. UNCHANGED <<seen, contacts, late>> /\ stage'["contact_pages"] = stage["contact_pages"] /\ Moves(e)
  <2>1. UNCHANGED <<seen, contacts, late>>
    BY DEF detect_start, detect_page, visit, detect_lost, persist_fails, tables
  <2>2. \/ UNCHANGED stage
        \/ \E x : stage' = [stage EXCEPT !["homepage_detect"] = x]
    BY DEF detect_start, detect_page, visit, detect_lost, persist_fails
  <2>3. Moves(e)  BY StartMoves, PageMoves, VisitMoves, LostMoves, WriteMoves
  <2> QED  BY <2>1, <2>2, <2>3 DEF SurveyTypes, StageNames
<1>2. \A s \in Sites : OwnBody(s)' = OwnBody(s)  BY <1>1 DEF OwnBody, SameBody
<1>3. CASE /\ pool'[e].state = "live" => pool[e].state = "live"
           /\ UNCHANGED stage
  <2>1. PoolsRest'  BY <1>1, <1>3 DEF Gate, PoolsRest, Moves
  <2> QED  BY <1>1, <1>2, <1>3, <2>1 DEF Gate, GatePassed, Done
<1>4. CASE /\ pool'[e].state # "live"
           /\ pool[e].state = "live"
           /\ \A s \in StageNames \ {"homepage_detect"} : stage'[s] = stage[s]
           /\ Done("homepage_detect")' => Pending = {}
  <2>1. \A d \in Executions : pool'[d].state # "live"  BY <1>1, <1>4 DEF Gate, PoolsRest, Moves
  <2>2. stage["homepage_detect"] = "running" /\ stage["contact_pages"] = "pending"
    BY <1>4 DEF Gate, PoolsRest, GatePassed, Done
  <2>3. Done("homepage_detect")' => \A s \in Sites : seen'[s] # None  BY <1>1, <1>4 DEF Pending
  <2> QED  BY <1>1, <2>1, <2>2, <2>3 DEF Gate, GatePassed, PoolsRest
<1>5. CASE detect_start(e)
  <2>1. \A d \in Executions : pool[d].state # "live"  BY <1>5 DEF detect_start, Gate, PoolsRest
  <2>2. stage'["homepage_detect"] = "running" /\ ~Done("homepage_detect")
    BY <1>5 DEF detect_start, SurveyTypes, StageNames, Done
  <2>3. PoolsRest'  BY <1>1, <2>1, <2>2 DEF PoolsRest, Moves
  <2> QED  BY <1>1, <2>2, <2>3 DEF Gate, GatePassed, Done
<1>6. CASE detect_page(e)
  <2>1. CASE Pending = {}
    <3>1. pool'[e].state = "over"  BY <1>6, <2>1, PageMoves
    <3>2. CASE pool[e].state = "live"
      <4>1. stage' = [stage EXCEPT !["homepage_detect"] = "succeeded"]  BY <1>6, <2>1, <3>2 DEF detect_page
      <4> QED  BY <1>4, <2>1, <3>1, <3>2, <4>1 DEF SurveyTypes, StageNames
    <3>3. CASE pool[e].state # "live"
      <4>1. stage' = stage  BY <1>6, <2>1, <3>3 DEF detect_page, SurveyTypes
      <4> QED  BY <1>3, <3>1, <4>1
    <3> QED  BY <3>2, <3>3
  <2>2. CASE Pending # {}
    <3>1. pool'[e].state = pool[e].state /\ stage' = stage  BY <1>6, <2>2, PageMoves DEF detect_page
    <3> QED  BY <1>3, <3>1
  <2> QED  BY <2>1, <2>2
<1>7. CASE visit(e)  BY <1>3, <1>7, VisitMoves DEF visit
<1>8. CASE detect_lost(e)
  <2>1. pool'[e].state = "adrift" /\ pool[e].state = "live" /\ stage' = [stage EXCEPT !["homepage_detect"] = "pending"]
    BY <1>8, LostMoves DEF detect_lost
  <2> QED  BY <1>4, <2>1 DEF SurveyTypes, StageNames, Done
<1>9. ASSUME NEW b \in pool[e].busy, persist_fails(e, b) PROVE Gate'
  <2>1. pool'[e].state = "failed"  BY <1>9, WriteMoves
  <2>2. CASE pool[e].state = "live"
    <3>1. stage' = [stage EXCEPT !["homepage_detect"] = "pending"]  BY <1>9, <2>2 DEF persist_fails
    <3> QED  BY <1>4, <2>1, <2>2, <3>1 DEF SurveyTypes, StageNames, Done
  <2>3. CASE pool[e].state # "live"
    <3>1. stage' = stage  BY <1>9, <2>3 DEF persist_fails
    <3> QED  BY <1>3, <2>1, <3>1
  <2> QED  BY <2>2, <2>3
<1> QED  BY <1>5, <1>6, <1>7, <1>8, <1>9

(* A consumer writes a site, perhaps one of an execution that is over: the
   other sites are as they were, and lose one that shared their body at most. *)
LEMMA GateWrite ==
  ASSUME SurveyTypes, Gate, NEW e \in Executions, NEW b \in pool[e].busy, persist(e, b)
  PROVE  Gate'
<1>1. Moves(e) /\ pool'[e].state = pool[e].state /\ UNCHANGED stage  BY WriteMoves DEF persist
<1>2. PoolsRest'  BY <1>1 DEF Gate, PoolsRest, Moves
<1>3. Done("homepage_detect")' => \A s \in Sites : seen'[s] # None  BY <1>1, SeenStays DEF Gate, Done
<1>4. CASE stage["contact_pages"] = "pending"  BY <1>1, <1>2, <1>3, <1>4 DEF Gate, GatePassed
<1>5. CASE stage["contact_pages"] # "pending"
  <2>1. late' = late \cup {b.site}  BY <1>5 DEF persist
  <2>2. ASSUME NEW s \in Sites PROVE OwnBody(s)'
    <3>1. SUFFICES ASSUME s \notin late', seen'[s].hash # None, seen'[s].status # "not_official"
                   PROVE  Cardinality(SameBody(s)' \ late') < SharedContent
      BY DEF OwnBody
    <3>2. seen'[s] = seen[s] /\ s \notin late  BY <2>1, <3>1, SeenStays
    <3>3. SameBody(s)' \ late' \subseteq SameBody(s) \ late  BY <2>1, <3>2, SeenStays DEF SameBody
    <3>4. Cardinality(SameBody(s) \ late) < SharedContent  BY <1>5, <3>1, <3>2 DEF Gate, GatePassed, OwnBody
    <3>5. IsFiniteSet(SameBody(s) \ late)  BY DataAssumption, FS_Subset DEF SameBody
    <3>6. /\ Cardinality(SameBody(s) \ late) \in Nat /\ Cardinality(SameBody(s)' \ late') \in Nat
          /\ Cardinality(SameBody(s)' \ late') <= Cardinality(SameBody(s) \ late)
      BY <3>3, <3>5, FS_Subset, FS_CardinalityType
    <3> QED  BY <3>4, <3>6, BoundsAssumption
  <2>3. ASSUME stage["contact_pages"] \in {"gated", "succeeded"}, NEW p \in contacts', p.site \in Sites \ late'
        PROVE  Official(seen'[p.site].status)
    <3>1. p.site # b.site /\ p.site \in Sites \ late  BY <2>1, <2>3
    <3>2. p \in contacts
      <4>1. contacts' \subseteq contacts \cup {[site |-> b.site, page |-> q] : q \in b.found.contacts}
        BY DEF persist
      <4> QED  BY <2>3, <3>1, <4>1
    <3>3. Official(seen[p.site].status)  BY <2>3, <3>1, <3>2 DEF Gate, GatePassed
    <3> QED  BY <3>1, <3>3, SeenStays
  <2> QED  BY <1>1, <1>2, <1>3, <2>2, <2>3 DEF Gate, GatePassed, Done
<1> QED  BY <1>4, <1>5

(* Demoting leaves no body that many sites share. *)
LEMMA GateDemote ==
  ASSUME SurveyTypes, Gate, contact_demote
  PROVE  Gate'
<1>1. \A s \in Sites : seen[s] # None  BY DEF contact_demote, Ready, Gate
<1> DEFINE Common(s) == seen[s].hash # None /\ Cardinality(SameBody(s)) >= SharedContent
<1>2. \A s \in Sites : seen'[s] = IF Common(s) THEN [seen[s] EXCEPT !.status = "not_official"] ELSE seen[s]
  BY <1>1 DEF contact_demote
<1> HIDE DEF Common
<1>a. ASSUME NEW s \in Sites, Common(s)
      PROVE  seen'[s] # None /\ seen'[s].hash = seen[s].hash /\ seen'[s].status = "not_official"
  <2>1. seen[s] \in Rows /\ seen[s] # None /\ seen'[s] = [seen[s] EXCEPT !.status = "not_official"]
    BY <1>1, <1>2, <1>a DEF SurveyTypes
  <2> QED  BY <2>1, RejectedIsARow
<1>3. \A s \in Sites : seen'[s] # None /\ seen'[s].hash = seen[s].hash
  BY <1>1, <1>2, <1>a
<1>4. \A s \in Sites : seen'[s].status # "not_official" => ~Common(s) /\ seen[s].status # "not_official"
  BY <1>2, <1>a
<1>5. ASSUME NEW s \in Sites, seen'[s].hash # None, seen'[s].status # "not_official"
      PROVE  Cardinality(SameBody(s)') < SharedContent
  <2>1. SameBody(s)' \subseteq SameBody(s)  BY <1>1, <1>3, <1>4 DEF SameBody
  <2>2. IsFiniteSet(SameBody(s))  BY DataAssumption, FS_Subset DEF SameBody
  <2>3. /\ Cardinality(SameBody(s)) \in Nat /\ Cardinality(SameBody(s)') \in Nat
        /\ Cardinality(SameBody(s)') <= Cardinality(SameBody(s))
    BY <2>1, <2>2, FS_Subset, FS_CardinalityType
  <2>4. ~(Cardinality(SameBody(s)) >= SharedContent)  BY <1>3, <1>4, <1>5 DEF Common
  <2> QED  BY <2>3, <2>4, BoundsAssumption
<1>6. stage'["contact_pages"] = "demoted" /\ stage'["homepage_detect"] = stage["homepage_detect"]
  BY DEF contact_demote, SurveyTypes, StageNames
<1>7. PoolsRest'  BY <1>6 DEF contact_demote, Gate, PoolsRest
<1>8. Done("homepage_detect")'  BY <1>6 DEF contact_demote, Ready, Done
<1>9. late' = {} /\ \A s \in Sites : SameBody(s)' \ {} = SameBody(s)'  BY DEF contact_demote
<1>10. \A s \in Sites : OwnBody(s)'  BY <1>5, <1>9 DEF OwnBody
<1> QED  BY <1>3, <1>6, <1>7, <1>8, <1>10 DEF Gate, GatePassed, Done

(* The gate's two statements, and their being cut off. *)
LEMMA GateStatements ==
  ASSUME SurveyTypes, Gate, contact_gate \/ contact_orphans \/ contact_cut
  PROVE  Gate'
<1>1. stage'["homepage_detect"] = stage["homepage_detect"] /\ seen' = seen /\ pool' = pool /\ late' = late
  BY DEF contact_gate, contact_orphans, contact_cut, SurveyTypes, StageNames, tables
<1>2. PoolsRest' /\ (Done("homepage_detect")' => \A s \in Sites : seen'[s] # None)
  BY <1>1 DEF Gate, PoolsRest, Done
<1>3. \A s \in Sites : OwnBody(s)' = OwnBody(s)  BY <1>1 DEF OwnBody, SameBody
<1>4. CASE contact_gate
  <2>1. stage["contact_pages"] = "demoted" /\ stage'["contact_pages"] = "gated"
    BY <1>4 DEF contact_gate, SurveyTypes, StageNames
  <2>2. \A s \in Sites : seen[s] # None  BY <2>1 DEF Gate, GatePassed
  <2>3. \A p \in contacts' : p.site \in Sites => Official(seen'[p.site].status)
    BY <1>1, <1>4, <2>2 DEF contact_gate
  <2> QED  BY <1>1, <1>2, <1>3, <2>1, <2>3 DEF Gate, GatePassed, Done
<1>5. CASE contact_orphans
  <2>1. stage["contact_pages"] = "gated" /\ stage'["contact_pages"] = "succeeded"
    BY <1>5 DEF contact_orphans, SurveyTypes, StageNames
  <2>2. contacts' \subseteq contacts  BY <1>5 DEF contact_orphans
  <2> QED  BY <1>1, <1>2, <1>3, <2>1, <2>2 DEF Gate, GatePassed, Done
<1>6. CASE contact_cut
  <2>1. stage'["contact_pages"] = "pending"  BY <1>6 DEF contact_cut, SurveyTypes, StageNames
  <2> QED  BY <1>2, <2>1 DEF Gate, GatePassed, Done
<1> QED  BY <1>4, <1>5, <1>6

(* The stages besides do not touch what the gate is about. *)
LEMMA GateBesides ==
  ASSUME SurveyTypes, Gate, Analyze \/ Search \/ search_cut \/ UNCHANGED surveyVars
  PROVE  Gate'
<1>1. UNCHANGED <<seen, contacts, pool, late>>
  BY DEF Analyze, channel_end, channel_analyze, Search, search_start, search_next, search_call, search_store,
         search_cut, surveyVars, tables, progress
<1>2. stage'["homepage_detect"] = stage["homepage_detect"] /\ stage'["contact_pages"] = stage["contact_pages"]
  BY DEF Analyze, channel_end, channel_analyze, Search, search_start, search_next, search_call, search_store,
         search_cut, surveyVars, progress, SurveyTypes, StageNames
<1>3. PoolsRest' /\ \A s \in Sites : OwnBody(s)' = OwnBody(s)
  BY <1>1, <1>2 DEF PoolsRest, OwnBody, SameBody, Gate
<1> QED  BY <1>1, <1>2, <1>3 DEF Gate, GatePassed, Done

LEMMA GateStep == SurveyTypes /\ Gate /\ [SurveyNext]_surveyVars => Gate'
BY GateDetect, GateWrite, GateDemote, GateStatements, GateBesides DEF SurveyNext, Detect, Contact

LEMMA GateInit == SurveyInit => Gate
BY DEF SurveyInit, Gate, PoolsRest, GatePassed, Done, Off, StageNames

(* What the gate is for, of any set of sites of one body. *)
LEMMA GateIsEnough == SurveyTypes /\ Gate => GateHolds
<1> SUFFICES ASSUME SurveyTypes, Gate, Done("contact_pages") PROVE
      /\ \A alike \in SUBSET {s \in Sites \ late : Status(s) # "not_official" /\ seen[s].hash # None} :
           (\A s, t \in alike : seen[s].hash = seen[t].hash) => Cardinality(alike) < SharedContent
      /\ \A p \in contacts : p.site \in Sites \ late => Official(Status(p.site))
  BY DEF GateHolds
<1>1. \A s \in Sites : seen[s] # None /\ OwnBody(s)  BY DEF Gate, GatePassed, Done
<1>2. \A p \in contacts : p.site \in Sites \ late => Official(Status(p.site))
  BY <1>1 DEF Gate, GatePassed, Done, Status
<1>3. ASSUME NEW alike \in SUBSET {s \in Sites \ late : Status(s) # "not_official" /\ seen[s].hash # None},
             \A s, t \in alike : seen[s].hash = seen[t].hash
      PROVE  Cardinality(alike) < SharedContent
  <2>1. CASE alike = {}  BY <2>1, FS_EmptySet, BoundsAssumption
  <2>2. ASSUME NEW s \in alike PROVE Cardinality(alike) < SharedContent
    <3>1. s \in Sites \ late /\ seen[s].status # "not_official" /\ seen[s].hash # None
      BY <1>1 DEF Status
    <3>2. alike \subseteq SameBody(s) \ late  BY <1>1, <1>3 DEF SameBody, Status
    <3>3. IsFiniteSet(SameBody(s) \ late)  BY DataAssumption, FS_Subset DEF SameBody
    <3>4. Cardinality(SameBody(s) \ late) < SharedContent  BY <1>1, <3>1 DEF OwnBody
    <3>5. /\ Cardinality(alike) <= Cardinality(SameBody(s) \ late)
          /\ Cardinality(alike) \in Nat /\ Cardinality(SameBody(s) \ late) \in Nat
      BY <3>2, <3>3, FS_Subset, FS_CardinalityType
    <3> QED  BY <3>4, <3>5, BoundsAssumption
  <2> QED  BY <2>1, <2>2
<1> QED  BY <1>2, <1>3

(* When contact_pages is through, no body is shared by so many sites that are
   not rejected, and no contact page is left of a site that is not official -
   however many executions of homepage_detect failed or lost their lease, and
   whatever their consumers still do, but for the sites they do it to. *)
THEOREM GateKeepsStrangersOut == SurveySpec => []GateHolds
<1>1. SurveyInit => SurveyTypes /\ Gate  BY SurveyTypesInit, GateInit
<1>2. SurveyTypes /\ Gate /\ [SurveyNext]_surveyVars => (SurveyTypes /\ Gate)'
  BY SurveyTypesStep, GateStep
<1> QED  BY <1>1, <1>2, GateIsEnough, PTL DEF SurveySpec

-----------------------------------------------------------------------------
(* Aggregates and the causes for their lack. *)

Words(c) == {w.words : w \in ToSet(KeywordsOf[c])}

(* Every aggregate a company may have. *)
AllShares == (UNION {Words(c) : c \in Companies}) \X ToSet(Providers)

AnyKeyword == UNION {ToSet(KeywordsOf[c]) : c \in Companies}

Result == {[provider |-> p, total |-> r.total, hits |-> r.hits] : p \in ToSet(Providers), r \in Answers}

SearchTypes ==
  /\ cuts \in Nat /\ lost \in [failed : Nat, denied : Nat]
  /\ DOMAIN stage = StageNames
  /\ DOMAIN search = DOMAIN Resting
  /\ search.at \in {"off", "next", "call"}
  /\ stage["search_analyze"] = "succeeded" => search.at = "off"
  /\ search.results \in Seq(Result)
  /\ search.at = "call" =>
       /\ search.company \in Companies
       /\ search.keywords \in Seq(AnyKeyword) /\ search.keywords # <<>>
       /\ search.asked \in 0 .. Len(Providers)

(* What the search under way may still bring: of its company's keywords those
   behind the one it is at, of that one the channels not yet asked and those
   whose answer is not yet stored. *)
Coming(k) ==
  \/ \E i \in 2 .. Len(search.keywords) : k[1] = search.keywords[i].words
  \/ /\ k[1] = search.keywords[1].words
     /\ \/ \E j \in search.asked + 1 .. Len(Providers) : k[2] = Providers[j]
        \/ \E i \in 1 .. Len(search.results) : k[2] = search.results[i].provider

Searching(c) == search.at = "call" /\ search.company = c

(* An aggregate that is missing and will not come. *)
Gap(c, k) == k \in MissingShares(c) /\ IF Searching(c) THEN ~Coming(k) ELSE Searched(c)

Gaps(cut) == {g \in (Companies \ cut) \X AllShares : Gap(g[1], g[2])}

(* These companies were left in the middle; for the gaps of the others calls
   have failed. *)
Explains(cut) ==
  /\ cut \subseteq Companies
  /\ Cardinality(cut) <= cuts + lost.denied
  /\ Cardinality(Gaps(cut)) <= lost.failed
  /\ search.at = "call" /\ search.exhausted => search.company \in cut

SharesInv == SearchTypes /\ \E cut : Explains(cut)

(* A company has a keyword at least: without region and name, its trade. *)
LEMMA KeywordsExist ==
  ASSUME NEW c \in Companies
  PROVE  KeywordsOf[c] \in Seq(ToSet(KeywordsOf[c])) /\ KeywordsOf[c] # <<>>
<1> DEFINE d == Company[c]
           region == searchRegion(d.sigungu)
           brandWord == Keyword("brand", <<d.name>>, 0)
           coreWord == Keyword("nonbrand_core", <<region, "trade">>, 1)
           LongWord(i) == Keyword("nonbrand_long", <<region, Topics[i]>>, 1 + i)
           brand == IF Cardinality(normalizeCompanyName(d.name)) >= 3 THEN <<brandWord>> ELSE <<>>
           core == <<coreWord>>
           long == [i \in 1 .. Len(Topics) |-> LongWord(i)]
           nonbrand == IF region = None THEN core ELSE core \o long
           n == IF Nonbrand < Len(nonbrand) THEN Nonbrand ELSE Len(nonbrand)
           S == {brandWord, coreWord} \cup {LongWord(i) : i \in 1 .. Len(Topics)}
<1>1. KeywordsOf[c] = brand \o SubSeq(nonbrand, 1, n)
  BY DEF KeywordsOf, generateKeywords
<1> HIDE DEF LongWord, brandWord, coreWord, region, d
<1>2. brand \in Seq(S) /\ core \in Seq(S) /\ Len(core) = 1
  <2>1. brandWord \in S /\ coreWord \in S  OBVIOUS
  <2> HIDE DEF S
  <2> QED  BY <2>1
<1>3. Len(Topics) \in Nat  BY DataAssumption, LenProperties
<1>4. long \in Seq(S)  BY <1>3, IsASeq
<1>5. nonbrand \in Seq(S) /\ Len(nonbrand) \in Nat \ {0}
  <2> HIDE DEF core, long, S
  <2>1. core \o long \in Seq(S) /\ Len(core \o long) = 1 + Len(long)  BY <1>2, <1>4, ConcatProperties
  <2> QED  BY <1>2, <1>4, <2>1, LenProperties
<1> HIDE DEF nonbrand, brand, S
<1>6. n \in 1 .. Len(nonbrand)  BY <1>5, BoundsAssumption
<1> HIDE DEF n
<1>7. SubSeq(nonbrand, 1, n) \in Seq(S) /\ Len(SubSeq(nonbrand, 1, n)) = n
  <2>1. \A i \in 1 .. n : nonbrand[i] \in S  BY <1>5, <1>6, ElementOfSeq
  <2> QED  BY <1>6, <2>1, SubSeqProperties
<1>8. KeywordsOf[c] \in Seq(S) /\ Len(KeywordsOf[c]) >= 1
  BY <1>1, <1>2, <1>6, <1>7, ConcatProperties, LenProperties
<1>9. KeywordsOf[c] \in [1 .. Len(KeywordsOf[c]) -> ToSet(KeywordsOf[c])] /\ Len(KeywordsOf[c]) \in Nat
  BY <1>8, LenProperties DEF ToSet
<1>10. KeywordsOf[c] \in Seq(ToSet(KeywordsOf[c]))  BY <1>9
<1> QED  BY <1>8, <1>10

(* The elements of a sequence are finitely many, and what is read off them. *)
LEMMA RangeIsFinite ==
  ASSUME NEW s, s \in Seq(ToSet(s))
  PROVE  IsFiniteSet(ToSet(s)) /\ IsFiniteSet({w.words : w \in ToSet(s)})
<1>1. IsFiniteSet(1 .. Len(s))  BY LenProperties, FS_Interval
<1>2. s \in Surjection(1 .. Len(s), ToSet(s))  BY LenProperties DEF Surjection, ToSet
<1> DEFINE W == {w.words : w \in ToSet(s)}
           f == [w \in ToSet(s) |-> w.words]
<1>3. IsFiniteSet(ToSet(s))  BY <1>1, <1>2, FS_Surjection
<1>4. f \in Surjection(ToSet(s), W)  BY DEF Surjection
<1> HIDE DEF W, f
<1>5. IsFiniteSet(W)  BY <1>3, <1>4, FS_Surjection
<1> QED  BY <1>3, <1>5 DEF W

LEMMA AllSharesAreFinite == IsFiniteSet(AllShares) /\ IsFiniteSet(Companies \X AllShares)
<1>1. \A c \in Companies : IsFiniteSet(Words(c))  BY KeywordsExist, RangeIsFinite DEF Words
<1> DEFINE U == {Words(c) : c \in Companies}
           f == [c \in Companies |-> Words(c)]
<1>2. f \in Surjection(Companies, U)  BY DEF Surjection
<1>3. \A T \in U : IsFiniteSet(T)  BY <1>1
<1> HIDE DEF f, U
<1>4. IsFiniteSet(U)  BY <1>2, DataAssumption, FS_Surjection
<1>5. IsFiniteSet(UNION U)  BY <1>3, <1>4, FS_UNION
<1>6. IsFiniteSet(ToSet(Providers))  BY DataAssumption, RangeIsFinite
<1>7. IsFiniteSet(AllShares)  BY <1>5, <1>6, FS_Product DEF AllShares, U
<1> QED  BY <1>7, DataAssumption, FS_Product

LEMMA GapsAreFinite == \A cut : IsFiniteSet(Gaps(cut))
BY AllSharesAreFinite, FS_Subset DEF Gaps

LEMMA OneMore ==
  ASSUME NEW S, IsFiniteSet(S), NEW x
  PROVE  /\ IsFiniteSet(S \cup {x}) /\ Cardinality(S) \in Nat /\ Cardinality(S \cup {x}) \in Nat
         /\ Cardinality(S \cup {x}) <= Cardinality(S) + 1
<1>1. IsFiniteSet(S \cup {x}) /\ Cardinality(S \cup {x}) = IF x \in S THEN Cardinality(S) ELSE Cardinality(S) + 1
  BY FS_AddElement
<1>2. Cardinality(S) \in Nat  BY FS_CardinalityType
<1> QED  BY <1>1, <1>2

(* A step that opens no gap. *)
LEMMA NoNewGap ==
  ASSUME SearchTypes, NEW cut, Explains(cut), cuts' \in Nat, cuts' >= cuts, lost' = lost,
         \A c \in Companies \ cut, k \in AllShares : Gap(c, k)' => Gap(c, k),
         search'.at = "call" /\ search'.exhausted => search'.company \in cut
  PROVE  Explains(cut)'
<1>1. Gaps(cut)' \subseteq Gaps(cut)  BY DEF Gaps
<1>2. /\ Cardinality(Gaps(cut)') <= Cardinality(Gaps(cut))
      /\ Cardinality(Gaps(cut)') \in Nat /\ Cardinality(Gaps(cut)) \in Nat
  BY <1>1, GapsAreFinite, FS_Subset, FS_CardinalityType
<1>3. Cardinality(cut) \in Nat  BY DataAssumption, FS_Subset, FS_CardinalityType DEF Explains
<1> QED  BY <1>2, <1>3 DEF Explains, SearchTypes

(* A step that leaves a company in the middle, for which it counts. *)
LEMMA LeftInTheMiddle ==
  ASSUME SearchTypes, NEW cut, Explains(cut), NEW d \in Companies,
         cuts' \in Nat, lost' \in [failed : Nat, denied : Nat], lost'.failed = lost.failed,
         cuts' + lost'.denied = cuts + lost.denied + 1,
         \A c \in Companies \ {d}, k \in AllShares : Gap(c, k)' => Gap(c, k),
         search'.at = "call" => search'.company = d
  PROVE  Explains(cut \cup {d})'
<1>1. Gaps(cut \cup {d})' \subseteq Gaps(cut)  BY DEF Gaps
<1>2. /\ Cardinality(Gaps(cut \cup {d})') <= Cardinality(Gaps(cut))
      /\ Cardinality(Gaps(cut \cup {d})') \in Nat /\ Cardinality(Gaps(cut)) \in Nat
  BY <1>1, GapsAreFinite, FS_Subset, FS_CardinalityType
<1>3. IsFiniteSet(cut)  BY DataAssumption, FS_Subset DEF Explains
<1>4. Cardinality(cut \cup {d}) <= Cardinality(cut) + 1 /\ Cardinality(cut \cup {d}) \in Nat /\ Cardinality(cut) \in Nat
  BY <1>3, OneMore
<1>5. cuts \in Nat /\ lost.denied \in Nat /\ lost'.denied \in Nat /\ lost.failed \in Nat  BY DEF SearchTypes
<1>6. Cardinality(cut \cup {d}) <= cuts' + lost'.denied  BY <1>4, <1>5 DEF Explains
<1>7. Cardinality(Gaps(cut \cup {d})') <= lost'.failed  BY <1>2, <1>5 DEF Explains
<1> QED  BY <1>6, <1>7 DEF Explains

(* A failed call opens one gap. *)
LEMMA OneGapMore ==
  ASSUME SearchTypes, NEW cut, Explains(cut), NEW d, NEW x,
         cuts' = cuts, lost' \in [failed : Nat, denied : Nat],
         lost'.failed = lost.failed + 1, lost'.denied = lost.denied,
         \A c \in Companies, k \in AllShares : Gap(c, k)' => Gap(c, k) \/ (c = d /\ k = x),
         search'.at = "call" /\ search'.exhausted => search'.company \in cut
  PROVE  Explains(cut)'
<1>1. Gaps(cut)' \subseteq Gaps(cut) \cup {<<d, x>>}  BY DEF Gaps
<1>2. IsFiniteSet(Gaps(cut))  BY GapsAreFinite
<1>3. /\ IsFiniteSet(Gaps(cut) \cup {<<d, x>>})
      /\ Cardinality(Gaps(cut) \cup {<<d, x>>}) <= Cardinality(Gaps(cut)) + 1
      /\ Cardinality(Gaps(cut)) \in Nat /\ Cardinality(Gaps(cut) \cup {<<d, x>>}) \in Nat
  BY <1>2, OneMore
<1>4. Cardinality(Gaps(cut)') <= Cardinality(Gaps(cut) \cup {<<d, x>>}) /\ Cardinality(Gaps(cut)') \in Nat
  BY <1>1, <1>3, FS_Subset, FS_CardinalityType
<1>5. lost.failed \in Nat  BY DEF SearchTypes
<1> QED  BY <1>3, <1>4, <1>5 DEF Explains

(* The steps of the other stages. *)
LEMMA SharesBesides ==
  ASSUME SharesInv, UNCHANGED <<shares, search, lost>>, cuts' \in Nat, cuts' >= cuts,
         DOMAIN stage' = StageNames, stage'["search_analyze"] = stage["search_analyze"]
  PROVE  SharesInv'
<1>1. SearchTypes'  BY DEF SharesInv, SearchTypes
<1>2. \A c, k : Gap(c, k)' = Gap(c, k)
  BY DEF Gap, MissingShares, Searching, Searched, Coming
<1>3. PICK cut : Explains(cut)  BY DEF SharesInv
<1>4. Explains(cut)'  BY <1>2, <1>3, NoNewGap DEF SharesInv, Explains
<1> QED  BY <1>1, <1>4 DEF SharesInv

(* The search starts, or ends: no company is at issue. *)
LEMMA SharesBetween ==
  ASSUME SharesInv, search.at # "call", search'.at # "call", UNCHANGED <<shares, lost, cuts>>, SearchTypes'
  PROVE  SharesInv'
<1>1. \A c, k : Gap(c, k)' = Gap(c, k)
  BY DEF Gap, MissingShares, Searching, Searched
<1>2. PICK cut : Explains(cut)  BY DEF SharesInv
<1>3. Explains(cut)'  BY <1>1, <1>2, NoNewGap DEF SharesInv, SearchTypes
<1> QED  BY <1>3 DEF SharesInv

LEMMA SharesStart == ASSUME SharesInv, search_start PROVE SharesInv'
<1>1. SearchTypes' /\ search'.at = "next"
  BY DEF SharesInv, SearchTypes, search_start, Resting, Ready, Done, tables
<1> QED  BY <1>1, SharesBetween DEF search_start, tables

LEMMA SharesNext == ASSUME SharesInv, search_next PROVE SharesInv'
<1>1. CASE search.exhausted \/ Unsearched = {}
  <2>1. search' = Resting /\ stage' = [stage EXCEPT !["search_analyze"] = "succeeded"]
    BY <1>1 DEF search_next
  <2>2. SearchTypes' /\ search'.at = "off"
    <3>1. UNCHANGED <<cuts, lost>>  BY DEF search_next
    <3>2. search'.at = "off" /\ search'.results = <<>> /\ DOMAIN search' = DOMAIN Resting
      BY <2>1 DEF Resting
    <3>3. <<>> \in Seq(Result)  OBVIOUS
    <3>4. DOMAIN stage' = StageNames  BY <2>1 DEF SharesInv, SearchTypes
    <3> QED  BY <3>1, <3>2, <3>3, <3>4 DEF SharesInv, SearchTypes
  <2> QED  BY <2>2, SharesBetween DEF search_next, tables
<1>2. CASE ~(search.exhausted \/ Unsearched = {})
  <2>1. PICK c \in Unsearched :
          /\ search' = [search EXCEPT !.at = "call", !.company = c, !.ctx = Context(c),
                                      !.keywords = KeywordsOf[c], !.asked = 0]
          /\ UNCHANGED stage
    BY <1>2 DEF search_next
  <2>2. /\ search'.at = "call" /\ search'.company = c /\ search'.keywords = KeywordsOf[c]
        /\ search'.asked = 0 /\ search'.results = search.results /\ search'.exhausted = search.exhausted
        /\ DOMAIN search' = DOMAIN Resting
    BY <2>1 DEF SharesInv, SearchTypes, Resting
  <2>3. c \in Companies /\ ~Searched(c)
    BY DataAssumption DEF Unsearched, OfficialCompanies
  <2>4. /\ KeywordsOf[c] \in Seq(ToSet(KeywordsOf[c])) /\ KeywordsOf[c] # <<>>
        /\ KeywordsOf[c] \in Seq(AnyKeyword) /\ Len(KeywordsOf[c]) \in Nat \ {0}
    BY <2>3, KeywordsExist, SeqMonotonic, EmptySeq DEF AnyKeyword
  <2>5. Len(Providers) \in Nat /\ DOMAIN Providers = 1 .. Len(Providers)
    BY DataAssumption, LenProperties
  <2>6. SearchTypes'
    <3>1. stage["search_analyze"] # "succeeded" /\ stage' = stage /\ UNCHANGED <<cuts, lost>>
      BY <2>1 DEF search_next, SharesInv, SearchTypes
    <3>2. 0 \in 0 .. Len(Providers)  BY <2>5
    <3> QED  BY <2>2, <2>3, <2>4, <3>1, <3>2 DEF SharesInv, SearchTypes
  <2>7. ASSUME NEW k \in MissingShares(c) PROVE Coming(k)'
    <3>1. k[1] \in Words(c) /\ k[2] \in ToSet(Providers)  BY DEF MissingShares, Words
    <3>2. PICK i \in 1 .. Len(KeywordsOf[c]) : k[1] = KeywordsOf[c][i].words
      BY <2>4, <3>1, LenProperties DEF Words, ToSet
    <3>3. PICK j \in 1 .. Len(Providers) : k[2] = Providers[j]  BY <2>5, <3>1 DEF ToSet
    <3>4. CASE i = 1  BY <2>2, <2>5, <3>2, <3>3, <3>4 DEF Coming
    <3>5. CASE i # 1  BY <2>2, <2>4, <3>2, <3>5 DEF Coming
    <3> QED  BY <3>4, <3>5
  <2>8. ASSUME NEW d \in Companies, NEW k \in AllShares, Gap(d, k)' PROVE Gap(d, k)
    <3>1. shares' = shares /\ search.at # "call"  BY DEF search_next, tables
    <3>2. k \in MissingShares(d)  BY <2>8, <3>1 DEF Gap, MissingShares
    <3>3. d # c  BY <2>2, <2>7, <2>8, <3>2 DEF Gap, Searching
    <3> QED  BY <2>2, <2>8, <3>1, <3>2, <3>3 DEF Gap, Searching, Searched
  <2>9. PICK cut : Explains(cut)  BY DEF SharesInv
  <2>10. Explains(cut)'
    <3>0. SearchTypes /\ cuts' = cuts /\ lost' = lost  BY DEF SharesInv, search_next
    <3>1. cuts' \in Nat /\ cuts' >= cuts  BY <3>0 DEF SearchTypes
    <3>2. ~(search'.at = "call" /\ search'.exhausted)  BY <1>2, <2>2
    <3> QED  BY <2>8, <2>9, <3>0, <3>1, <3>2, NoNewGap
  <2> QED  BY <2>6, <2>10 DEF SharesInv
<1> QED  BY <1>1, <1>2

(* A call: denied, failed, or answered. *)
LEMMA SharesCall == ASSUME SharesInv, search_call PROVE SharesInv'
<1> DEFINE now == search.asked + 1
           x == <<search.keywords[1].words, Providers[now]>>
<1>2. Len(Providers) \in Nat /\ DOMAIN Providers = 1 .. Len(Providers)  BY DataAssumption, LenProperties
<1>1. /\ search.at = "call" /\ search.company \in Companies /\ now \in 1 .. Len(Providers)
      /\ search.asked \in 0 .. Len(Providers) /\ DOMAIN search = DOMAIN Resting
      /\ search.results \in Seq(Result)
      /\ UNCHANGED <<shares, cuts, stage>>
  <2>1. SearchTypes  BY DEF SharesInv
  <2>2. search.at = "call" /\ search.asked < Len(Providers) /\ UNCHANGED <<shares, cuts, stage>>
    BY DEF search_call
  <2>3. search.company \in Companies /\ search.asked \in 0 .. Len(Providers)  BY <2>1, <2>2 DEF SearchTypes
  <2>4. now \in 1 .. Len(Providers)  BY <1>2, <2>2, <2>3
  <2> QED  BY <2>1, <2>2, <2>3, <2>4 DEF SearchTypes
<1>3. ASSUME NEW c \in Companies \ {search.company}, NEW k, search'.company = search.company, Gap(c, k)'
      PROVE  Gap(c, k)
  BY <1>1, <1>3 DEF Gap, MissingShares, Searching, Searched
<1>4. PICK cut : Explains(cut)  BY DEF SharesInv
<1>5. CASE ~Granted(EntryKey)
  <2>1. /\ search' = [search EXCEPT !.exhausted = TRUE, !.asked = Len(Providers)]
        /\ lost' = [lost EXCEPT !.denied = @ + 1]
    BY <1>5 DEF search_call
  <2>2. SearchTypes' /\ search'.at = "call" /\ search'.company = search.company
    <3>1. /\ search'.at = "call" /\ search'.company = search.company /\ search'.asked = Len(Providers)
          /\ search'.keywords = search.keywords /\ search'.results = search.results /\ DOMAIN search' = DOMAIN search
      BY <1>1, <2>1 DEF Resting
    <3>2. SearchTypes  BY DEF SharesInv
    <3>3. lost' \in [failed : Nat, denied : Nat]  BY <2>1, <3>2 DEF SearchTypes
    <3>4. Len(Providers) \in 0 .. Len(Providers)  BY <1>2
    <3> QED  BY <1>1, <3>1, <3>2, <3>3, <3>4 DEF SearchTypes
  <2>3. lost'.failed = lost.failed /\ lost'.denied = lost.denied + 1 /\ cuts \in Nat /\ lost.denied \in Nat
    BY <2>1 DEF SharesInv, SearchTypes
  <2>4. Explains(cut \cup {search.company})'
    <3>1. cuts' \in Nat /\ lost' \in [failed : Nat, denied : Nat] /\ cuts' + lost'.denied = cuts + lost.denied + 1
      BY <1>1, <2>2, <2>3 DEF SearchTypes
    <3>2. \A c \in Companies \ {search.company}, k \in AllShares : Gap(c, k)' => Gap(c, k)
      BY <1>3, <2>2
    <3> QED  BY <1>1, <1>4, <2>2, <2>3, <3>1, <3>2, LeftInTheMiddle DEF SharesInv
  <2> QED  BY <2>2, <2>4 DEF SharesInv
<1>6. CASE Granted(EntryKey) /\ search' = [search EXCEPT !.asked = @ + 1] /\ lost' = [lost EXCEPT !.failed = @ + 1]
  <2>1. /\ search'.at = "call" /\ search'.company = search.company /\ search'.asked = now
        /\ search'.keywords = search.keywords /\ search'.results = search.results
        /\ search'.exhausted = search.exhausted /\ DOMAIN search' = DOMAIN search
    BY <1>1, <1>6 DEF Resting
  <2>2. lost' \in [failed : Nat, denied : Nat] /\ lost'.failed = lost.failed + 1 /\ lost'.denied = lost.denied
    BY <1>6 DEF SharesInv, SearchTypes
  <2>3. SearchTypes'  BY <1>1, <1>2, <2>1, <2>2 DEF SharesInv, SearchTypes
  <2>4. ASSUME NEW c \in Companies, NEW k \in AllShares, Gap(c, k)', ~Gap(c, k) PROVE c = search.company /\ k = x
    <3>1. c = search.company  BY <1>3, <2>1, <2>4
    <3>2. k \in MissingShares(c)  BY <1>1, <2>4 DEF Gap, MissingShares
    <3>3. ~Coming(k)' /\ Coming(k)  BY <1>1, <2>1, <2>4, <3>1, <3>2 DEF Gap, Searching
    <3>4. k[1] = search.keywords[1].words /\ k[2] = Providers[now]
      BY <1>1, <1>2, <2>1, <3>3 DEF Coming
    <3>5. k = <<k[1], k[2]>>  BY DEF AllShares
    <3> QED  BY <3>1, <3>4, <3>5
  <2>5. Explains(cut)'
    <3> HIDE DEF x, now
    <3>1. search'.at = "call" /\ search'.exhausted => search'.company \in cut  BY <1>1, <1>4, <2>1 DEF Explains
    <3>2. \A c \in Companies, k \in AllShares : Gap(c, k)' => Gap(c, k) \/ (c = search.company /\ k = x)
      BY <2>4
    <3>3. cuts' = cuts /\ SearchTypes  BY <1>1 DEF SharesInv
    <3> QED  BY <1>4, <2>2, <3>1, <3>2, <3>3, OneGapMore
  <2> QED  BY <2>3, <2>5 DEF SharesInv
<1>7. ASSUME NEW r \in Answers, lost' = lost,
             search' = [search EXCEPT !.asked = @ + 1,
                          !.results = Append(@, [provider |-> Providers[search.asked + 1],
                                                 total |-> r.total, hits |-> r.hits])]
      PROVE  SharesInv'
  <2> DEFINE got == [provider |-> Providers[now], total |-> r.total, hits |-> r.hits]
  <2>a. Providers[now] \in ToSet(Providers)  BY <1>1, <1>2 DEF ToSet
  <2>1. got \in Result /\ got.provider = Providers[now]  BY <2>a DEF Result
  <2> HIDE DEF got
  <2>2. /\ search'.at = "call" /\ search'.company = search.company /\ search'.asked = now
        /\ search'.keywords = search.keywords /\ search'.results = Append(search.results, got)
        /\ search'.exhausted = search.exhausted /\ DOMAIN search' = DOMAIN search
    BY <1>1, <1>7 DEF Resting, got
  <2>3. /\ Append(search.results, got) \in Seq(Result)
        /\ Len(search'.results) = Len(search.results) + 1 /\ Len(search.results) \in Nat
        /\ \A i \in 1 .. Len(search.results) : search'.results[i] = search.results[i]
        /\ search'.results[Len(search.results) + 1] = got
    BY <1>1, <2>1, <2>2, AppendProperties, LenProperties
  <2>4. SearchTypes'  BY <1>1, <1>2, <1>7, <2>2, <2>3 DEF SharesInv, SearchTypes
  <2>5. ASSUME NEW k, Coming(k) PROVE Coming(k)'
    <3>1. CASE k[1] = search.keywords[1].words /\ \E j \in search.asked + 1 .. Len(Providers) : k[2] = Providers[j]
      <4>1. PICK j \in search.asked + 1 .. Len(Providers) : k[2] = Providers[j]  BY <3>1
      <4>2. CASE j = now  BY <2>1, <2>2, <2>3, <3>1, <4>1, <4>2 DEF Coming
      <4>3. CASE j # now  BY <1>1, <1>2, <2>2, <3>1, <4>1, <4>3 DEF Coming
      <4> QED  BY <4>2, <4>3
    <3>2. CASE k[1] = search.keywords[1].words /\ \E i \in 1 .. Len(search.results) : k[2] = search.results[i].provider
      BY <2>2, <2>3, <3>2 DEF Coming
    <3> QED  BY <2>2, <2>5, <3>1, <3>2 DEF Coming
  <2>6. ASSUME NEW c \in Companies, NEW k \in AllShares, Gap(c, k)' PROVE Gap(c, k)
    <3>1. CASE c = search.company
      BY <1>1, <2>2, <2>5, <2>6, <3>1 DEF Gap, MissingShares, Searching
    <3> QED  BY <1>3, <2>2, <2>6, <3>1
  <2>7. Explains(cut)'
    <3>1. cuts' \in Nat /\ cuts' >= cuts /\ SearchTypes  BY <1>1 DEF SharesInv, SearchTypes
    <3>2. search'.at = "call" /\ search'.exhausted => search'.company \in cut  BY <1>1, <1>4, <2>2 DEF Explains
    <3> QED  BY <1>4, <1>7, <2>6, <3>1, <3>2, NoNewGap
  <2> QED  BY <2>4, <2>7 DEF SharesInv
<1> QED  BY <1>5, <1>6, <1>7 DEF search_call

(* Storing a keyword fills what its channels answered. *)
LEMMA SharesStore == ASSUME SharesInv, search_store PROVE SharesInv'
<1>1. SearchTypes /\ search.at = "call" /\ search.asked = Len(Providers) /\ UNCHANGED <<cuts, lost, stage>>
  BY DEF SharesInv, search_store
<1>2. /\ search.company \in Companies /\ search.keywords \in Seq(AnyKeyword) /\ search.keywords # <<>>
      /\ DOMAIN search = DOMAIN Resting
  BY <1>1 DEF SearchTypes
<1>3. Len(Providers) \in Nat /\ DOMAIN Providers = 1 .. Len(Providers)  BY DataAssumption, LenProperties
<1> DEFINE word == Head(search.keywords)
           last == search.exhausted \/ Len(search.keywords) = 1
           kept == {[company |-> search.company, keyword |-> word.words, kind |-> word.kind,
                     provider |-> a.provider, ors |-> a.ors] : a \in aggregateAll(search.results, search.ctx).aggregates}
<1>4. /\ shares' = shares \cup kept
      /\ search' = [search EXCEPT !.at = IF last THEN "next" ELSE "call",
                      !.keywords = IF last THEN <<>> ELSE Tail(@), !.results = <<>>, !.asked = 0]
  BY DEF search_store
<1>5. word = search.keywords[1]  BY <1>2
<1>6. \A a \in kept : a.company = search.company /\ a.keyword = search.keywords[1].words
  BY <1>5
<1>7. DOMAIN search.results = 1 .. Len(search.results)  BY <1>1, LenProperties DEF SearchTypes
<1>8. ASSUME NEW i \in 1 .. Len(search.results) PROVE \E a \in kept : a.provider = search.results[i].provider
  <2>1. aggregateChannel(search.results[i], search.ctx) \in aggregateAll(search.results, search.ctx).aggregates
    BY <1>7 DEF aggregateAll
  <2>2. aggregateChannel(search.results[i], search.ctx).provider = search.results[i].provider
    BY DEF aggregateChannel
  <2> DEFINE a == aggregateChannel(search.results[i], search.ctx)
             b == [company |-> search.company, keyword |-> word.words, kind |-> word.kind,
                   provider |-> a.provider, ors |-> a.ors]
  <2>3. b \in kept  BY <2>1
  <2>4. b.provider = search.results[i].provider  BY <2>2
  <2> QED  BY <2>3, <2>4
<1> HIDE DEF kept
<1>9. \A c \in Companies \ {search.company} : MissingShares(c)' = MissingShares(c) /\ Searched(c)' = Searched(c)
  BY <1>4, <1>6 DEF MissingShares, Searched
<1>10. ASSUME NEW c, c = search.company, NEW k \in MissingShares(c)'
       PROVE  /\ k \in MissingShares(c)
              /\ k[1] = search.keywords[1].words =>
                   \A i \in 1 .. Len(search.results) : k[2] # search.results[i].provider
  BY <1>4, <1>6, <1>8, <1>10 DEF MissingShares
<1>11. /\ search'.at = (IF last THEN "next" ELSE "call") /\ search'.company = search.company
       /\ search'.keywords = (IF last THEN <<>> ELSE Tail(search.keywords))
       /\ search'.results = <<>> /\ search'.asked = 0 /\ search'.exhausted = search.exhausted
       /\ DOMAIN search' = DOMAIN Resting
  BY <1>2, <1>4 DEF Resting
<1> HIDE DEF word
<1>12. Len(search.keywords) \in Nat \ {0}  BY <1>2, EmptySeq
<1>13. ~last => /\ search'.keywords \in Seq(AnyKeyword) /\ Len(search'.keywords) = Len(search.keywords) - 1
                /\ search'.keywords # <<>>
                /\ \A i \in 1 .. Len(search'.keywords) : search'.keywords[i] = search.keywords[i + 1]
  <2>1. /\ Tail(search.keywords) \in Seq(AnyKeyword) /\ Len(Tail(search.keywords)) = Len(search.keywords) - 1
        /\ \A i \in 1 .. Len(Tail(search.keywords)) : Tail(search.keywords)[i] = search.keywords[i + 1]
    BY <1>2, HeadTailProperties
  <2>2. ~last => Len(Tail(search.keywords)) # 0  BY <1>12, <2>1
  <2>3. ~last => Tail(search.keywords) # <<>>  BY <2>2
  <2> QED  BY <1>11, <2>1, <2>3
<1>14. SearchTypes'
  <2>1. <<>> \in Seq(Result) /\ 0 \in 0 .. Len(Providers)  BY <1>3
  <2>2. search'.at \in {"next", "call"} /\ (search'.at = "call" => ~last)  BY <1>11
  <2>3. stage["search_analyze"] # "succeeded"  BY <1>1 DEF SearchTypes
  <2> HIDE DEF last
  <2> QED  BY <1>1, <1>2, <1>11, <1>13, <2>1, <2>2, <2>3 DEF SearchTypes
<1>15. PICK cut : Explains(cut)  BY DEF SharesInv
<1>16. ASSUME NEW c \in Companies \ cut, NEW k \in AllShares, Gap(c, k)' PROVE Gap(c, k)
  <2>1. CASE c # search.company  BY <1>9, <1>11, <1>16, <2>1 DEF Gap, Searching
  <2>2. CASE c = search.company
    <3>1. k \in MissingShares(c)' /\ k \in MissingShares(c) /\ Searching(c)
      BY <1>1, <1>10, <1>16, <2>2 DEF Gap, Searching
    <3> SUFFICES ASSUME Coming(k) PROVE FALSE  BY <3>1 DEF Gap
    <3>2. ~(k[1] = search.keywords[1].words /\ \E i \in 1 .. Len(search.results) : k[2] = search.results[i].provider)
      BY <1>10, <2>2, <3>1
    <3>3. PICK i \in 2 .. Len(search.keywords) : k[1] = search.keywords[i].words
      BY <1>1, <1>3, <3>2 DEF Coming
    <3>4. ~last  BY <1>1, <1>15, <2>2, <3>3 DEF Explains
    <3>5. Searching(c)' /\ ~Coming(k)'  BY <1>11, <1>16, <2>2, <3>4 DEF Gap, Searching
    <3>6. i - 1 \in 1 .. Len(search'.keywords) /\ (i - 1) + 1 = i  BY <1>12, <1>13, <3>3, <3>4
    <3>7. search'.keywords[i - 1] = search.keywords[i]  BY <1>13, <3>4, <3>6
    <3>8. PICK j \in 1 .. Len(Providers) : k[2] = Providers[j]
      BY <1>3 DEF AllShares, ToSet
    <3>9. CASE i = 2  BY <1>3, <1>11, <3>3, <3>5, <3>7, <3>8, <3>9 DEF Coming
    <3>10. CASE i # 2
      <4>1. i - 1 \in 2 .. Len(search'.keywords)  BY <3>3, <3>6, <3>10
      <4> QED  BY <3>3, <3>5, <3>7, <4>1 DEF Coming
    <3> QED  BY <3>9, <3>10
  <2> QED  BY <2>1, <2>2
<1>17. Explains(cut)'
  <2>1. cuts' \in Nat /\ cuts' >= cuts  BY <1>1 DEF SearchTypes
  <2>2. search'.at = "call" /\ search'.exhausted => search'.company \in cut  BY <1>11
  <2> QED  BY <1>1, <1>15, <1>16, <2>1, <2>2, NoNewGap
<1> QED  BY <1>14, <1>17 DEF SharesInv

(* The worker dies in the middle of a company, or between two. *)
LEMMA SharesCut == ASSUME SharesInv, search_cut PROVE SharesInv'
<1>1. SearchTypes /\ search.at # "off" /\ search' = Resting /\ cuts' = cuts + 1 /\ UNCHANGED <<shares, stage, lost>>
  BY DEF SharesInv, search_cut, tables
<1>2. search'.at = "off" /\ search'.results = <<>> /\ DOMAIN search' = DOMAIN Resting  BY <1>1 DEF Resting
<1>3. <<>> \in Seq(Result)  OBVIOUS
<1>4. SearchTypes'  BY <1>1, <1>2, <1>3 DEF SearchTypes
<1>5. PICK cut : Explains(cut)  BY DEF SharesInv
<1>6. CASE search.at = "next"
  <2>1. \A c, k : Gap(c, k)' = Gap(c, k)  BY <1>1, <1>2, <1>6 DEF Gap, MissingShares, Searching, Searched
  <2>2. cuts' \in Nat /\ cuts' >= cuts  BY <1>1 DEF SearchTypes
  <2>3. Explains(cut)'  BY <1>1, <1>2, <1>5, <2>1, <2>2, NoNewGap
  <2> QED  BY <1>4, <2>3 DEF SharesInv
<1>7. CASE search.at = "call"
  <2>1. PICK d \in Companies : d = search.company  BY <1>1, <1>7 DEF SearchTypes
  <2>2. \A c \in Companies \ {d}, k \in AllShares : Gap(c, k)' => Gap(c, k)
    BY <1>1, <1>2, <2>1 DEF Gap, MissingShares, Searching, Searched
  <2>3. /\ cuts' \in Nat /\ lost' \in [failed : Nat, denied : Nat] /\ lost'.failed = lost.failed
        /\ cuts' + lost'.denied = cuts + lost.denied + 1
    BY <1>1 DEF SearchTypes
  <2>4. Explains(cut \cup {d})'  BY <1>1, <1>2, <1>5, <2>2, <2>3, LeftInTheMiddle
  <2> QED  BY <1>4, <2>4 DEF SharesInv
<1> QED  BY <1>1, <1>6, <1>7 DEF SearchTypes

LEMMA SharesStep == SharesInv /\ SurveyTypes /\ [SurveyNext]_surveyVars => SharesInv'
<1> SUFFICES ASSUME SharesInv, SurveyTypes, [SurveyNext]_surveyVars PROVE SharesInv'  OBVIOUS
<1>1. CASE Search \/ search_cut
  BY <1>1, SharesStart, SharesNext, SharesCall, SharesStore, SharesCut DEF Search
<1>2. CASE ~(Search \/ search_cut)
  <2>1. UNCHANGED <<shares, search, lost>> /\ (cuts' = cuts \/ cuts' = cuts + 1)
    BY <1>2 DEF SurveyNext, Detect, detect_start, detect_page, visit, detect_lost, persist, persist_fails, Contact,
                contact_demote, contact_gate, contact_orphans, contact_cut, Analyze, channel_end, channel_analyze, surveyVars, tables, progress
  <2>2. DOMAIN stage' = StageNames /\ stage'["search_analyze"] = stage["search_analyze"]
    BY <1>2 DEF SurveyNext, Detect, detect_start, detect_page, visit, detect_lost, persist, persist_fails, Contact,
                contact_demote, contact_gate, contact_orphans, contact_cut, Analyze, channel_end, channel_analyze, surveyVars, progress,
                SurveyTypes, StageNames
  <2>3. cuts' \in Nat /\ cuts' >= cuts  BY <2>1 DEF SharesInv, SearchTypes
  <2> QED  BY <2>1, <2>2, <2>3, SharesBesides
<1> QED  BY <1>1, <1>2

LEMMA SharesInit == SurveyInit => SharesInv
<1> SUFFICES ASSUME SurveyInit PROVE SharesInv  OBVIOUS
<1>1. search.at = "off" /\ search.results = <<>> /\ shares = {} /\ cuts = 0 /\ lost.denied = 0 /\ lost.failed = 0
  BY DEF SurveyInit, Resting
<1>2. SearchTypes
  <2>1. <<>> \in Seq(Result)  OBVIOUS
  <2> QED  BY <1>1, <2>1 DEF SurveyInit, SearchTypes, StageNames
<1>3. Gaps({}) = {}  BY <1>1 DEF Gaps, Gap, Searching, Searched
<1>4. Explains({})  BY <1>1, <1>3, FS_EmptySet DEF Explains
<1> QED  BY <1>2, <1>4 DEF SharesInv

LEMMA SharesAreExplained == SharesInv => MissingSharesHaveCauses
<1> SUFFICES ASSUME SharesInv, stage["search_analyze"] = "succeeded", NEW cut, Explains(cut)
             PROVE  Cardinality(UNION {{c} \X MissingShares(c) : c \in {d \in Companies \ cut : Searched(d)}}) <= lost.failed
  BY DEF MissingSharesHaveCauses, SharesInv, Explains
<1> DEFINE missing == UNION {{c} \X MissingShares(c) : c \in {d \in Companies \ cut : Searched(d)}}
<1>1. search.at = "off"  BY DEF SharesInv, SearchTypes
<1>2. \A c \in Companies : MissingShares(c) \subseteq AllShares  BY DEF MissingShares, AllShares, Words
<1>3. missing \subseteq Gaps(cut)
  <2> SUFFICES ASSUME NEW c \in Companies \ cut, Searched(c), NEW k \in MissingShares(c) PROVE <<c, k>> \in Gaps(cut)
    OBVIOUS
  <2>1. Gap(c, k)  BY <1>1 DEF Gap, Searching
  <2> QED  BY <1>2, <2>1 DEF Gaps
<1> HIDE DEF missing
<1>4. /\ Cardinality(missing) <= Cardinality(Gaps(cut))
      /\ Cardinality(missing) \in Nat /\ Cardinality(Gaps(cut)) \in Nat
  BY <1>3, GapsAreFinite, FS_Subset, FS_CardinalityType
<1>5. lost.failed \in Nat  BY DEF SharesInv, SearchTypes
<1>6. Cardinality(missing) <= lost.failed  BY <1>4, <1>5 DEF Explains
<1> QED  BY <1>6 DEF missing

(* When the search has ended, a company that counts as searched lacks an
   aggregate only for a call that failed, or because it was the company at
   which an execution was cut off or the quota ran out. *)
THEOREM MissingSharesAreExplained == SurveySpec => []MissingSharesHaveCauses
<1>1. SurveyInit => SurveyTypes /\ SharesInv  BY SurveyTypesInit, SharesInit
<1>2. SurveyTypes /\ SharesInv /\ [SurveyNext]_surveyVars => (SurveyTypes /\ SharesInv)'
  BY SurveyTypesStep, SharesStep
<1> QED  BY <1>1, <1>2, SharesAreExplained, PTL DEF SurveySpec

=============================================================================
