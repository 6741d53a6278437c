---------------------------- MODULE IntakeProofs ----------------------------
(***************************************************************************)
(* What holds of the intake for every number of workers, every feed and    *)
(* history, every page size and cap, and every number of crashes, lost     *)
(* leases and midnights.  Nothing is assumed but what Intake assumes.      *)
(*                                                                         *)
(* The invariants build on each other: the types and who owns a job;       *)
(* what collecting and normalizing have settled (FeedInv, StoredInv);      *)
(* that judged companies stay judged (ExcludeInv); hence that the          *)
(* companies to ask about only become fewer while a discovery runs         *)
(* (TargetsShrink); and hence that paging by offset repeats nobody         *)
(* (AskInv) and passes over no more than it finds (MissInv).               *)
(***************************************************************************)
EXTENDS Intake, FiniteSetTheorems, SequenceTheorems, WellFoundedInduction, TLAPS

Collecting(w)  == exec[w].stage = "collect"
Normalizing(w) == exec[w].stage = "normalize"
Excluding(w)   == exec[w].stage = "exclude_basic"
Discovering(w) == exec[w].stage = "homepage_discover"

PageIds(w) == {r.id : r \in exec[w].page}

-----------------------------------------------------------------------------
(* Types. *)

Fields == {"stage", "pc", "page", "offset", "finds", "seen", "adopted"}

Rows ==
  /\ feed \in Seq(ToSet(feed))
  /\ raw \in [DOMAIN feed -> {"absent", "pending", "done"}]
  /\ company \in Seq(ToSet(company))
  /\ \A c \in Ids : DOMAIN company[c] = Columns /\ company[c].scans \in Nat
  /\ \A c, d \in Ids : company[c].key = company[d].key => c = d

Counts ==
  /\ day \in 0 .. MaxDay
  /\ IsFiniteSet(ledger)
  /\ DOMAIN asked = {"local", "web"} \X (1 .. MaxIds)
  /\ \A k \in DOMAIN asked : asked[k] \in Nat
  /\ faults \in [crashes : Nat, expiries : Nat]

Jobs == [state : {"pending", "running", "succeeded", "dead"}, by : Workers \cup {None}, tries : Nat]

PageOK(page) ==
  /\ IsFiniteSet(page)
  /\ \A r \in page : r.id \in Nat
  /\ \A r, q \in page : r.id = q.id => r = q

(* A worker's place in its stage, with the program counters the stage has. *)
ExecutionOK(e) ==
  /\ DOMAIN e = Fields
  /\ e.stage \in StageNames \cup {None}
  /\ e.offset \in Nat
  /\ PageOK(e.page)
  /\ IsFiniteSet(e.seen) /\ IsFiniteSet(e.finds)
  /\ e.stage \in {"collect", "exclude_basic"} => e.pc = "page"
  /\ e.stage = "normalize" => /\ e.pc \in {"page", "write"}
                              /\ e.pc = "write" => e.page # {} /\ e.adopted # None
  /\ e.stage = "homepage_discover" => /\ e.pc \in {"page", "local", "reserve_web", "web", "insert"}
                                      /\ e.pc # "page" => e.page # {}

Executions == DOMAIN exec = Workers /\ \A w \in Workers : ExecutionOK(exec[w])

(* A page of candidates carries them as they are; a page of companies, ids that exist. *)
Pages ==
  \A w \in Workers : \A r \in exec[w].page :
    /\ Normalizing(w) => r.id \in DOMAIN feed /\ r.row = feed[r.id]
    /\ Excluding(w) \/ Discovering(w) => r.id \in Ids

TypeInv == Rows /\ Counts /\ job \in [StageNames -> Jobs] /\ Executions /\ Pages

-----------------------------------------------------------------------------
(* The invariants. *)

Before(s) == CASE s = "normalize" -> "collect" [] s = "exclude_basic" -> "normalize"
               [] s = "homepage_discover" -> "exclude_basic"

(* Whose job is whose: the owner of a running job is at its stage; a stage was
   begun only behind the one before it; unless a lease was lost every execution
   owns its job, and the first attempt of a job has one execution. *)
OwnInv ==
  /\ \A s \in StageNames :
       /\ job[s].state = "running" <=> job[s].by # None
       /\ job[s].by # None => exec[job[s].by].stage = s
       /\ job[s].state \in {"running", "succeeded"} => job[s].tries > 0
       /\ s # "collect" /\ job[s].tries > 0 => job[Before(s)].state = "succeeded"
  /\ \A w \in Workers : exec[w].stage # None =>
       /\ job[exec[w].stage].tries > 0
       /\ faults.expiries = 0 => Owns(w)
       /\ job[exec[w].stage].tries <= 1 => job[exec[w].stage].state # "succeeded"
  /\ \A v, w \in Workers :
       exec[w].stage # None /\ exec[v].stage = exec[w].stage /\ job[exec[w].stage].tries <= 1 => v = w

(* Taken in, or never to be. *)
Settled(i) == raw[i] # "absent" \/ ~feed[i].valid \/ Present(i)

(* What is behind the offset of a collector is settled, and all of it once the
   stage is through; then nothing new can wait, so normalizing has an end. *)
FeedInv ==
  /\ \A w \in Workers : Collecting(w) => \A i \in DOMAIN feed : i <= exec[w].offset => Settled(i)
  /\ job["collect"].state = "succeeded" => \A i \in DOMAIN feed : Settled(i)
  /\ job["normalize"].state = "succeeded" => \A i \in DOMAIN feed : raw[i] # "pending"
  /\ \A w \in Workers : Normalizing(w) =>
       \A r \in exec[w].page : raw[r.id] # "absent"

(* The quota: what CallsArePaid says of the ledger, with the calls that are
   about to be made. *)
PaidInv ==
  /\ \A d \in 0 .. MaxDay : UsedOn(d) <= Cap
  /\ \A e, f \in ledger : e.key = f.key => e = f
  /\ \A k \in DOMAIN asked : asked[k] > 0 => Booked(k)
  /\ \A w \in Workers : Discovering(w) =>
       /\ exec[w].pc = "local" => Booked(EntryKey("local", w))
       /\ exec[w].pc = "web" => Booked(EntryKey("web", w))

Observeds == {c \in Ids : Observed(c)}
Judgement(row) == decideExclusion(row, Limits)
Judged(c) == company[c].excluded = Judgement(company[c])

(* Nobody writes the columns a verdict depends on any more. *)
Quiet == job["normalize"].state = "succeeded" /\ \A w \in Workers : ~Normalizing(w)

(* No lease was lost, or one, by an excluder that goes on without it: it can
   only write verdicts that are the present ones. *)
Calm == faults.expiries = 0 \/ (faults.expiries = 1 /\ \E w \in Workers : Excluding(w) /\ ~Owns(w))

(* The rows an excluder holds would be judged the same if it read them now. *)
Fresh(w) == \A r \in exec[w].page : Judgement(r.row) = Judgement(company[r.id])

(* What is behind its offset it has judged, or holds. *)
JudgedUpto(w) == \A c \in Observeds : Place(Observeds, c) <= exec[w].offset => c \in PageIds(w) \/ Judged(c)

AllJudged == \A c \in Observeds : Judged(c)

ExcludeInv ==
  /\ \A w \in Workers : Excluding(w) => \A r \in exec[w].page : r.id \in Observeds
  /\ Calm =>
      /\ job["exclude_basic"].state = "succeeded" \/ (\E w \in Workers : Excluding(w)) => Quiet
      /\ \A w \in Workers : Excluding(w) => Fresh(w) /\ JudgedUpto(w)
      /\ job["exclude_basic"].state = "succeeded" => AllJudged

(* Where an old exclusion cannot take a company in again behind a discovery. *)
Steady == faults.expiries <= 1 \/ job["exclude_basic"].tries <= 1

(* Whom a worker may still ask about, and with which kind of call. *)
May(w, k) ==
  /\ Discovering(w) /\ k[2] \notin exec[w].seen
  /\ ~(exec[w].page # {} /\ Item(w).id = k[2] /\
       exec[w].pc \in (IF k[1] = "local" THEN {"reserve_web", "web", "insert"} ELSE {"insert"}))

MayAsk(k) == {w \in Workers : May(w, k)}

(* What an execution has asked about or holds has its place up to the offset:
   the next page is of others. *)
Passed(w) ==
  /\ \A x \in exec[w].seen \cup PageIds(w) : x \in Ids /\ Place(Targets, x) <= exec[w].offset
  /\ PageIds(w) \cap exec[w].seen = {}

(* Calls made and calls that may still be made are no more than the attempts. *)
AskInv ==
  Steady => /\ \A w \in Workers : Discovering(w) => Passed(w)
            /\ \A k \in DOMAIN asked : asked[k] + Cardinality(MayAsk(k)) <= job["homepage_discover"].tries

(* The offset counts what was asked about or is in hand; what of it is no
   longer to be asked about was found. *)
Behind(w) ==
  /\ exec[w].seen \cup PageIds(w) \subseteq Targets \cup exec[w].finds
  /\ Cardinality(exec[w].seen \cup PageIds(w)) = exec[w].offset

MissInv ==
  faults.expiries = 0 =>
    /\ Cardinality(missed.never) <= Cardinality(missed.finds)
    /\ \A w \in Workers : Discovering(w) => Behind(w)

-----------------------------------------------------------------------------
(* Places and pages. *)

(* A nonempty finite set of numbers has a least and a greatest element. *)
LEMMA Extremes ==
  ASSUME NEW S \in SUBSET Nat, S # {}, IsFiniteSet(S)
  PROVE  /\ \E m \in S : \A k \in S : m <= k
         /\ \E m \in S : \A k \in S : k <= m
<1>0. \A x \in S : x \in Nat  OBVIOUS
<1>1. IsWellFoundedOn(StrictSubsetOrdering(S), SUBSET S)
  BY FS_StrictSubsetOrderingWellFounded, FS_FiniteSubsetsOfFinite
<1>2. ASSUME NEW Q \in SUBSET SUBSET S, Q # {}
      PROVE  \E R \in Q : \A T \in Q : T \subseteq R => T = R
  <2>1. \E R \in Q : \A T \in Q : ~(<<T, R>> \in StrictSubsetOrdering(S))
    BY <1>1, <1>2, WFMin
  <2>2. QED  BY <2>1 DEF StrictSubsetOrdering
<1>3. \E m \in S : \A k \in S : m <= k
  <2> DEFINE Upto(x) == {y \in S : y <= x}
  <2> DEFINE Q == {Upto(x) : x \in S}
  <2>1. Q \in SUBSET SUBSET S /\ Q # {}  OBVIOUS
  <2>2. PICK R \in Q : \A T \in Q : T \subseteq R => T = R
    <3> HIDE DEF Q
    <3>1. QED  BY <1>2, <2>1
  <2>3. PICK m \in S : R = Upto(m)  OBVIOUS
  <2>4. ASSUME NEW k \in S, k < m PROVE FALSE
    <3>0. k \in Nat /\ m \in Nat /\ ~(m <= k) /\ m <= m /\ \A z \in Nat : z <= k => z <= m  BY <1>0, <2>4
    <3>1. Upto(k) \in Q /\ Upto(k) \subseteq Upto(m) /\ m \in Upto(m) /\ m \notin Upto(k)  BY <1>0, <3>0
    <3>2. QED  BY <2>2, <2>3, <3>1
  <2>5. QED  BY <2>4
<1>4. \E m \in S : \A k \in S : k <= m
  <2> DEFINE From(x) == {y \in S : x <= y}
  <2> DEFINE Q == {From(x) : x \in S}
  <2>1. Q \in SUBSET SUBSET S /\ Q # {}  OBVIOUS
  <2>2. PICK R \in Q : \A T \in Q : T \subseteq R => T = R
    <3> HIDE DEF Q
    <3>1. QED  BY <1>2, <2>1
  <2>3. PICK m \in S : R = From(m)  OBVIOUS
  <2>4. ASSUME NEW k \in S, m < k PROVE FALSE
    <3>0. k \in Nat /\ m \in Nat /\ ~(k <= m) /\ m <= m /\ \A z \in Nat : k <= z => m <= z  BY <1>0, <2>4
    <3>1. From(k) \in Q /\ From(k) \subseteq From(m) /\ m \in From(m) /\ m \notin From(k)  BY <1>0, <3>0
    <3>2. QED  BY <2>2, <2>3, <3>1
  <2>5. QED  BY <2>4
<1>5. QED  BY <1>3, <1>4

(* Places count up along the order, and fall when the set shrinks. *)
LEMMA PlaceFacts ==
  ASSUME NEW S \in SUBSET Nat, IsFiniteSet(S), NEW x \in Nat
  PROVE  /\ Place(S, x) \in Nat
         /\ \A y \in Nat : x <= y => Place(S, x) <= Place(S, y)
         /\ \A y \in S : x < y => Place(S, x) < Place(S, y)
         /\ x \in S => Place(S, x) >= 1
         /\ \A T \in SUBSET S : Place(T, x) <= Place(S, x)
<1> DEFINE Upto(T, z) == {y \in T : y <= z}
<1>0. \A z \in S : z \in Nat  OBVIOUS
<1>1. \A z : IsFiniteSet(Upto(S, z)) /\ Cardinality(Upto(S, z)) \in Nat
  BY FS_Subset, FS_CardinalityType
<1>2. \A z : Place(S, z) = Cardinality(Upto(S, z)) /\ Place(S, z) \in Nat
  BY <1>1 DEF Place
<1>3. ASSUME NEW y \in Nat, x <= y PROVE Upto(S, x) \subseteq Upto(S, y)
  <2>1. \A z \in Nat : z <= x => z <= y  BY <1>3
  <2>2. QED  BY <1>0, <2>1
<1>4. ASSUME NEW y \in Nat, x <= y PROVE Place(S, x) <= Place(S, y)
  <2>1. Cardinality(Upto(S, x)) <= Cardinality(Upto(S, y))
    <3>1. IsFiniteSet(Upto(S, y)) /\ Upto(S, x) \in SUBSET Upto(S, y)  BY <1>1, <1>3, <1>4
    <3>2. QED  BY <3>1, FS_Subset
  <2>2. QED  BY <1>2, <2>1
<1>5. ASSUME NEW y \in S, x < y PROVE Place(S, x) < Place(S, y)
  <2>1. Upto(S, x) \subseteq Upto(S, y) /\ y \in Upto(S, y) /\ y \notin Upto(S, x)
    <3>1. y \in Nat /\ ~(y <= x) /\ y <= y /\ x <= y  BY <1>0, <1>5
    <3>2. QED  BY <1>3, <1>5, <3>1
  <2>2. Cardinality(Upto(S, x)) <= Cardinality(Upto(S, y)) /\ Cardinality(Upto(S, x)) # Cardinality(Upto(S, y))
    <3>1. IsFiniteSet(Upto(S, y)) /\ Upto(S, x) \in SUBSET Upto(S, y) /\ Upto(S, x) # Upto(S, y)
      BY <1>1, <2>1
    <3>2. QED  BY <3>1, FS_Subset
  <2>3. QED  BY <1>1, <1>2, <2>2
<1>6. ASSUME x \in S PROVE Place(S, x) >= 1
  <2>1. x \in Upto(S, x)  BY <1>6
  <2>2. Cardinality(Upto(S, x)) # 0  BY <1>1, <2>1, FS_EmptySet
  <2>3. QED  BY <1>1, <1>2, <2>2
<1>7. ASSUME NEW T \in SUBSET S PROVE Place(T, x) <= Place(S, x)
  <2>1. Upto(T, x) \subseteq Upto(S, x)  OBVIOUS
  <2>2. Cardinality(Upto(T, x)) <= Cardinality(Upto(S, x))
    <3>1. IsFiniteSet(Upto(S, x)) /\ Upto(T, x) \in SUBSET Upto(S, x)  BY <1>1, <2>1
    <3>2. QED  BY <3>1, FS_Subset
  <2>3. QED  BY <2>2 DEF Place
<1>8. QED  BY <1>2, <1>4, <1>5, <1>6, <1>7

(* No more than n elements have a place up to n. *)
LEMMA LowPlaces ==
  ASSUME NEW S \in SUBSET Nat, IsFiniteSet(S), NEW n \in Nat
  PROVE  Cardinality({y \in S : Place(S, y) <= n}) <= n
<1> DEFINE Low == {y \in S : Place(S, y) <= n}
<1>1. IsFiniteSet(Low) /\ Low \in SUBSET Nat  BY FS_Subset
<1>2. CASE Low = {}  BY <1>2, FS_EmptySet
<1>3. CASE Low # {}
  <2>1. PICK m \in Low : \A k \in Low : k <= m  BY <1>1, <1>3, Extremes
  <2>2. Low \subseteq {y \in S : y <= m}  BY <2>1
  <2>3. IsFiniteSet({y \in S : y <= m})  BY FS_Subset
  <2>4. Cardinality(Low) <= Cardinality({y \in S : y <= m})  BY <2>2, <2>3, FS_Subset
  <2>5. Cardinality({y \in S : y <= m}) <= n  BY <2>1 DEF Place
  <2>6. Cardinality(Low) \in Nat /\ Cardinality({y \in S : y <= m}) \in Nat
    BY <1>1, <2>3, FS_CardinalityType
  <2>7. QED  BY <2>4, <2>5, <2>6
<1>4. QED  BY <1>2, <1>3

OnPage(S, offset) == {y \in S : Place(S, y) \in offset + 1 .. offset + Batch}

(* The rows of a page, by their ids. *)
LEMMA PageFacts ==
  ASSUME NEW S \in SUBSET Nat, IsFiniteSet(S), NEW n \in Nat, NEW table
  PROVE  /\ {r.id : r \in Page(S, table, n)} = OnPage(S, n)
         /\ \A r \in Page(S, table, n) : r.id \in S /\ r.row = table[r.id]
         /\ \A r, q \in Page(S, table, n) : r.id = q.id => r = q
         /\ IsFiniteSet(Page(S, table, n))
         /\ Cardinality(Page(S, table, n)) = Cardinality(OnPage(S, n))
         /\ Cardinality(Page(S, table, n)) \in 0 .. Batch
         /\ Page(S, table, n) = {} => \A x \in S : Place(S, x) <= n
         /\ \A x \in OnPage(S, n) : Place(S, x) <= n + Cardinality(Page(S, table, n))
<1> DEFINE P == Page(S, table, n)  I == OnPage(S, n)
           f == [y \in I |-> [id |-> y, row |-> table[y]]]
           g == [y \in I |-> Place(S, y)]
<1>0. Batch \in Nat \ {0}  BY BoundsAssumption
<1>1. P = {[id |-> y, row |-> table[y]] : y \in I}  BY DEF Page, OnPage
<1>2. I \subseteq S /\ IsFiniteSet(I) /\ Cardinality(I) \in Nat  BY FS_Subset, FS_CardinalityType DEF OnPage
<1>3. /\ \A r \in P : r.id \in I /\ r.row = table[r.id] /\ r = [id |-> r.id, row |-> table[r.id]]
      /\ \A y \in I : \E r \in P : r.id = y
  <2>1. ASSUME NEW r \in P PROVE r.id \in I /\ r.row = table[r.id] /\ r = [id |-> r.id, row |-> table[r.id]]
    <3> HIDE DEF I
    <3>1. PICK y \in I : r = [id |-> y, row |-> table[y]]  BY <1>1
    <3>2. QED  BY <3>1
  <2>2. ASSUME NEW y \in I PROVE \E r \in P : r.id = y
    <3> HIDE DEF I
    <3>1. [id |-> y, row |-> table[y]] \in P  BY <1>1
    <3>2. QED  BY <3>1
  <2>3. QED  BY <2>1, <2>2
<1>4. {r.id : r \in P} = I  BY <1>3
<1>5. IsFiniteSet(P) /\ Cardinality(P) = Cardinality(I)
  <2>1. f \in Bijection(I, P)
    BY <1>1, Zenon DEF Bijection, Injection, Surjection, IsInjective
  <2>2. QED  BY <1>2, <2>1, FS_Bijection DEF ExistsBijection
<1>6. Cardinality(I) <= Batch
  <2>1. \A y \in S : Place(S, y) \in Nat  BY PlaceFacts
  <2>2. \A x, y \in S : x # y => Place(S, x) # Place(S, y)
    <3> TAKE x, y \in S
    <3> HAVE x # y
    <3>1. x < y \/ y < x  OBVIOUS
    <3>2. QED  BY <2>1, <3>1, PlaceFacts
  <2>3. g \in Injection(I, n + 1 .. n + Batch)
    BY <1>2, <2>1, <2>2 DEF Injection, IsInjective, OnPage
  <2>4. IsFiniteSet(n + 1 .. n + Batch) /\ Cardinality(n + 1 .. n + Batch) = Batch
    BY <1>0, FS_Interval
  <2>5. QED  BY <2>3, <2>4, FS_Injection
<1>7. ASSUME NEW x \in I PROVE Place(S, x) <= n + Cardinality(P)
  <2> DEFINE Up == {y \in S : y <= x}  Low == {y \in S : Place(S, y) <= n}
  <2>1. \A y \in Up : y \in Low \/ y \in I
    <3> TAKE y \in Up
    <3>1. Place(S, y) \in Nat /\ Place(S, x) \in Nat /\ Place(S, y) <= Place(S, x)
      BY <1>2, <1>7, PlaceFacts
    <3>2. QED  BY <1>0, <1>7, <3>1 DEF OnPage
  <2>2. Up \subseteq Low \cup I  BY <2>1
  <2>3. IsFiniteSet(Low) /\ Cardinality(Low) \in Nat /\ Cardinality(Low) <= n
    BY LowPlaces, FS_Subset, FS_CardinalityType
  <2>4. IsFiniteSet(Low \cup I) /\ Cardinality(Low \cup I) <= n + Cardinality(I)
    <3>1. IsFiniteSet(Low \cap I) /\ Cardinality(Low \cap I) \in Nat
      BY <2>3, FS_Intersection, FS_CardinalityType
    <3>2. IsFiniteSet(Low \cup I) /\ Cardinality(Low \cup I) = Cardinality(Low) + Cardinality(I) - Cardinality(Low \cap I)
      BY <1>2, <2>3, FS_Union
    <3>3. QED
      <4> HIDE DEF Low, I
      <4>1. QED  BY <1>2, <2>3, <3>1, <3>2
  <2>5. Cardinality(Up) <= Cardinality(Low \cup I)
    BY <2>2, <2>4, FS_Subset
  <2>6. Cardinality(Up) \in Nat /\ Cardinality(Low \cup I) \in Nat
    BY <2>4, FS_Subset, FS_CardinalityType
  <2>7. QED  BY <1>2, <1>5, <2>4, <2>5, <2>6 DEF Place
<1>8. ASSUME P = {}, NEW x \in S, Place(S, x) > n PROVE FALSE
  <2> DEFINE High == {y \in S : Place(S, y) > n}
  <2>0. High \in SUBSET Nat /\ High # {} /\ IsFiniteSet(High)  BY <1>8, FS_Subset
  <2>1. PICK m \in High : \A k \in High : m <= k  BY <2>0, Extremes
  <2>2. Place(S, m) \in Nat /\ m \in Nat  BY PlaceFacts
  <2>3. {y \in S : y <= m} \subseteq {y \in S : Place(S, y) <= n} \cup {m}
    <3>1. ASSUME NEW y \in S, y <= m, y # m PROVE Place(S, y) <= n
      <4>1. y \notin High  BY <2>1, <2>2, <3>1
      <4>2. Place(S, y) \in Nat  BY PlaceFacts
      <4>3. QED  BY <4>1, <4>2
    <3>2. QED  BY <3>1
  <2> DEFINE Low == {y \in S : Place(S, y) <= n}
  <2>4. IsFiniteSet(Low) /\ Cardinality(Low) \in Nat /\ Cardinality(Low) <= n
    BY LowPlaces, FS_Subset, FS_CardinalityType
  <2>5. IsFiniteSet(Low \cup {m}) /\ Cardinality(Low \cup {m}) <= n + 1 /\ Cardinality(Low \cup {m}) \in Nat
    <3> HIDE DEF Low
    <3>1. /\ IsFiniteSet(Low \cup {m})
          /\ Cardinality(Low \cup {m}) = IF m \in Low THEN Cardinality(Low) ELSE Cardinality(Low) + 1
      BY <2>4, FS_AddElement
    <3>2. QED  BY <2>4, <3>1
  <2>6. Place(S, m) <= n + 1
    <3>1. {y \in S : y <= m} \in SUBSET (Low \cup {m})  BY <2>3
    <3>2. Cardinality({y \in S : y <= m}) <= Cardinality(Low \cup {m})  BY <2>5, <3>1, FS_Subset
    <3>3. Place(S, m) <= Cardinality(Low \cup {m})  BY <3>2 DEF Place
    <3>4. QED
      <4> HIDE DEF Low
      <4>1. QED  BY <2>2, <2>5, <3>3
  <2>7. m \in I  BY <1>0, <2>1, <2>2, <2>6 DEF OnPage
  <2>8. QED  BY <1>3, <1>8, <2>7
<1>9. \A x \in S : Place(S, x) \in Nat  BY PlaceFacts
<1>10. QED  BY <1>0, <1>2, <1>3, <1>4, <1>5, <1>6, <1>7, <1>8, <1>9

-----------------------------------------------------------------------------
(* The row in hand, and what becomes of an execution. *)

(* A nonempty set of numbers has a least element. *)
LEMMA LeastNatural ==
  ASSUME NEW S \in SUBSET Nat, S # {}
  PROVE  \E m \in S : \A k \in S : m <= k
<1>1. PICK n \in S : TRUE  OBVIOUS
<1> DEFINE Low == {k \in S : k <= n}
<1>2. Low \in SUBSET Nat /\ Low # {} /\ \A k \in Low : k <= n
  <2>1. n <= n  OBVIOUS
  <2>2. QED  BY <2>1
<1>3. IsFiniteSet(Low)  BY <1>2, FS_BoundedSetOfNaturals
<1>4. PICK m \in Low : \A k \in Low : m <= k  BY <1>2, <1>3, Extremes
<1>5. \A k \in S : k \in Nat  OBVIOUS
<1>6. ASSUME NEW k \in S PROVE m <= k
  <2>1. k \in Nat /\ m \in Nat /\ n \in Nat /\ m <= n  BY <1>2, <1>5
  <2>2. CASE k <= n  BY <1>4, <2>2
  <2>3. CASE n < k  BY <2>1, <2>3
  <2>4. QED  BY <2>1, <2>2, <2>3
<1>7. QED  BY <1>6

(* The row in hand is the one of the page with the least id. *)
LEMMA ItemFacts ==
  ASSUME NEW w, PageOK(exec[w].page), exec[w].page # {}
  PROVE  Item(w) \in exec[w].page /\ \A q \in exec[w].page : Item(w).id <= q.id
<1> DEFINE S == {r.id : r \in exec[w].page}
<1>1. S \in SUBSET Nat /\ S # {}  BY DEF PageOK
<1>2. PICK m \in S : \A k \in S : m <= k
  <2> HIDE DEF S
  <2>1. QED  BY <1>1, LeastNatural
<1>3. PICK r \in exec[w].page : r.id = m  OBVIOUS
<1>4. \A q \in exec[w].page : r.id <= q.id  BY <1>2, <1>3
<1>5. QED  BY <1>4 DEF Item

(* What a worker without a stage looks like. *)
LEMMA IdleFacts == ExecutionOK(Idle) /\ Idle.stage = None /\ Idle.page = {} /\ Idle.seen = {} /\ Idle.finds = {}
                     /\ Idle.offset = 0 /\ Idle.pc = "page"
BY NamesAssumption, FS_EmptySet DEF Idle, ExecutionOK, Fields, PageOK, StageNames, Stages, ToSet

(* The four stages. *)
LEMMA StageNamesAre == StageNames = {"collect", "normalize", "exclude_basic", "homepage_discover"}
                         /\ None \notin StageNames
BY NamesAssumption DEF StageNames, Stages, ToSet

(* An execution that has just begun: no page, nothing seen or found. *)
LEMMA StartedFacts ==
  ASSUME NEW s \in StageNames
  PROVE  LET e == [Idle EXCEPT !.stage = s] IN
         /\ ExecutionOK(e) /\ e.stage = s /\ e.page = {} /\ e.seen = {} /\ e.finds = {} /\ e.offset = 0 /\ e.pc = "page"
BY FS_EmptySet, StageNamesAre DEF Idle, ExecutionOK, Fields, PageOK

(* Turned: the row leaves the page, all else stays. *)
LEMMA TurnedFacts ==
  ASSUME NEW w, ExecutionOK(exec[w]), exec[w].page # {}
  PROVE  LET e == Turned(w) IN
         /\ ExecutionOK(e) /\ e.stage = exec[w].stage /\ e.pc = "page" /\ e.page = exec[w].page \ {Item(w)}
         /\ e.offset = exec[w].offset /\ e.seen = exec[w].seen /\ e.finds = exec[w].finds
         /\ {r.id : r \in e.page} = PageIds(w) \ {Item(w).id}
<1> DEFINE e == Turned(w)
<1>1. /\ DOMAIN e = Fields /\ e.stage = exec[w].stage /\ e.pc = "page" /\ e.page = exec[w].page \ {Item(w)}
      /\ e.offset = exec[w].offset /\ e.seen = exec[w].seen /\ e.finds = exec[w].finds
  BY DEF Turned, ExecutionOK, Fields
<1>2. Item(w) \in exec[w].page  BY ItemFacts DEF ExecutionOK
<1>3. PageOK(e.page)  BY <1>1, FS_Subset DEF ExecutionOK, PageOK
<1>4. ExecutionOK(e)  BY <1>1, <1>3 DEF ExecutionOK
<1>5. {r.id : r \in e.page} = PageIds(w) \ {Item(w).id}
  BY <1>1, <1>2 DEF PageIds, ExecutionOK, PageOK
<1>6. QED  BY <1>1, <1>4, <1>5

(* Asked: the row leaves the page for what was seen. *)
LEMMA AskedFacts ==
  ASSUME NEW w, ExecutionOK(exec[w]), exec[w].page # {}
  PROVE  LET e == Asked(w) IN
         /\ ExecutionOK(e) /\ e.stage = exec[w].stage /\ e.pc = "page" /\ e.page = exec[w].page \ {Item(w)}
         /\ e.offset = exec[w].offset /\ e.seen = exec[w].seen \cup {Item(w).id} /\ e.finds = exec[w].finds
         /\ {r.id : r \in e.page} = PageIds(w) \ {Item(w).id}
<1> DEFINE t == Turned(w)  e == Asked(w)
<1>1. /\ ExecutionOK(t) /\ t.stage = exec[w].stage /\ t.pc = "page" /\ t.page = exec[w].page \ {Item(w)}
      /\ t.offset = exec[w].offset /\ t.seen = exec[w].seen /\ t.finds = exec[w].finds
      /\ {r.id : r \in t.page} = PageIds(w) \ {Item(w).id}
  BY TurnedFacts
<1>2. e = [t EXCEPT !.seen = t.seen \cup {Item(w).id}]  BY DEF Asked
<1>3. /\ DOMAIN e = Fields /\ e.stage = t.stage /\ e.pc = t.pc /\ e.page = t.page
      /\ e.offset = t.offset /\ e.seen = t.seen \cup {Item(w).id} /\ e.finds = t.finds
  <2> HIDE DEF t, e
  <2>1. QED  BY <1>1, <1>2 DEF ExecutionOK, Fields
<1>4. IsFiniteSet(e.seen)
  <2> HIDE DEF t, e
  <2>1. IsFiniteSet(t.seen)  BY <1>1 DEF ExecutionOK
  <2>2. e.seen = t.seen \cup {Item(w).id}  BY <1>3
  <2>3. QED  BY <2>1, <2>2, FS_AddElement
<1>5. ExecutionOK(e)
  <2> HIDE DEF t, e
  <2>1. QED  BY <1>1, <1>3, <1>4 DEF ExecutionOK
<1>6. QED
  <2> HIDE DEF t, e
  <2>1. /\ ExecutionOK(e) /\ e.stage = exec[w].stage /\ e.pc = "page" /\ e.page = exec[w].page \ {Item(w)}
        /\ e.offset = exec[w].offset /\ e.seen = exec[w].seen \cup {Item(w).id} /\ e.finds = exec[w].finds
        /\ {r.id : r \in e.page} = PageIds(w) \ {Item(w).id}
    BY <1>1, <1>3, <1>5
  <2>2. QED  BY <2>1 DEF e

(* An insertion: the row leaves the page for what was seen and found. *)
LEMMA FoundFacts ==
  ASSUME NEW w, ExecutionOK(exec[w]), exec[w].page # {}
  PROVE  LET e == [Asked(w) EXCEPT !.finds = @ \cup {Item(w).id}] IN
         /\ ExecutionOK(e) /\ e.stage = exec[w].stage /\ e.pc = "page" /\ e.page = exec[w].page \ {Item(w)}
         /\ e.offset = exec[w].offset /\ e.seen = exec[w].seen \cup {Item(w).id}
         /\ e.finds = exec[w].finds \cup {Item(w).id}
         /\ {r.id : r \in e.page} = PageIds(w) \ {Item(w).id}
<1> DEFINE t == Asked(w)  e == [t EXCEPT !.finds = t.finds \cup {Item(w).id}]
<1>1. /\ ExecutionOK(t) /\ t.stage = exec[w].stage /\ t.pc = "page" /\ t.page = exec[w].page \ {Item(w)}
      /\ t.offset = exec[w].offset /\ t.seen = exec[w].seen \cup {Item(w).id} /\ t.finds = exec[w].finds
      /\ {r.id : r \in t.page} = PageIds(w) \ {Item(w).id}
  BY AskedFacts
<1>2. e = [t EXCEPT !.finds = t.finds \cup {Item(w).id}]  OBVIOUS
<1>3. /\ DOMAIN e = Fields /\ e.stage = t.stage /\ e.pc = t.pc /\ e.page = t.page
      /\ e.offset = t.offset /\ e.finds = t.finds \cup {Item(w).id} /\ e.seen = t.seen
  <2> HIDE DEF t, e
  <2>1. QED  BY <1>1, <1>2 DEF ExecutionOK, Fields
<1>4. IsFiniteSet(e.finds)
  <2> HIDE DEF t, e
  <2>1. IsFiniteSet(t.finds)  BY <1>1 DEF ExecutionOK
  <2>2. e.finds = t.finds \cup {Item(w).id}  BY <1>3
  <2>3. QED  BY <2>1, <2>2, FS_AddElement
<1>5. ExecutionOK(e)
  <2> HIDE DEF t, e
  <2>1. QED  BY <1>1, <1>3, <1>4 DEF ExecutionOK
<1>6. QED
  <2> HIDE DEF t, e
  <2>1. /\ ExecutionOK(e) /\ e.stage = exec[w].stage /\ e.pc = "page" /\ e.page = exec[w].page \ {Item(w)}
        /\ e.offset = exec[w].offset /\ e.seen = exec[w].seen \cup {Item(w).id}
        /\ e.finds = exec[w].finds \cup {Item(w).id}
        /\ {r.id : r \in e.page} = PageIds(w) \ {Item(w).id}
    BY <1>1, <1>3, <1>5
  <2>2. QED  BY <2>1 DEF e, t

(* Fetched: the page is there and the offset grows by its rows. *)
LEMMA FetchedFacts ==
  ASSUME NEW w, ExecutionOK(exec[w]), exec[w].pc = "page", NEW page, PageOK(page)
  PROVE  LET e == Fetched(w, page) IN
         /\ ExecutionOK(e) /\ e.stage = exec[w].stage /\ e.pc = "page" /\ e.page = page
         /\ e.offset = exec[w].offset + Cardinality(page) /\ e.seen = exec[w].seen /\ e.finds = exec[w].finds
<1> DEFINE e == Fetched(w, page)
<1>1. /\ DOMAIN e = Fields /\ e.stage = exec[w].stage /\ e.pc = "page" /\ e.page = page
      /\ e.offset = exec[w].offset + Cardinality(page) /\ e.seen = exec[w].seen /\ e.finds = exec[w].finds
  BY DEF Fetched, ExecutionOK, Fields
<1>2. Cardinality(page) \in Nat  BY FS_CardinalityType DEF PageOK
<1>3. ExecutionOK(e)
  <2> HIDE DEF e
  <2>1. QED  BY <1>1, <1>2 DEF ExecutionOK
<1>4. QED  BY <1>1, <1>3

-----------------------------------------------------------------------------
(* Lists. *)

(* A sequence is one over its own elements. *)
LEMMA ListOfSeq ==
  ASSUME NEW S, NEW s \in Seq(S)
  PROVE  s \in Seq(ToSet(s)) /\ Len(s) \in Nat /\ DOMAIN s = 1 .. Len(s)
<1>1. Len(s) \in Nat /\ s \in [1 .. Len(s) -> S]  OBVIOUS
<1>2. s \in [1 .. Len(s) -> ToSet(s)]  BY <1>1 DEF ToSet
<1>3. QED  BY <1>1, <1>2, SeqDef

(* What Append does to a table. *)
LEMMA Appended ==
  ASSUME NEW s, s \in Seq(ToSet(s)), NEW e
  PROVE  /\ Append(s, e) \in Seq(ToSet(Append(s, e)))
         /\ Len(Append(s, e)) = Len(s) + 1
         /\ \A i \in 1 .. Len(s) : Append(s, e)[i] = s[i]
         /\ Append(s, e)[Len(s) + 1] = e
<1> DEFINE S == ToSet(s) \cup {e}
<1>1. s \in Seq(S)
  <2>1. s \in [1 .. Len(s) -> ToSet(s)] /\ Len(s) \in Nat  OBVIOUS
  <2>2. s \in [1 .. Len(s) -> S]  BY <2>1
  <2>3. QED  BY <2>1, <2>2, SeqDef
<1>2. e \in S  OBVIOUS
<1> HIDE DEF S
<1>3. Append(s, e) \in Seq(S)  BY <1>1, <1>2, AppendProperties
<1>4. Append(s, e) \in Seq(ToSet(Append(s, e)))  BY <1>3, ListOfSeq
<1>5. QED  BY <1>1, <1>2, <1>4, AppendProperties

(* A function over the same indices is a table of the same length. *)
LEMMA SameLength ==
  ASSUME NEW n \in Nat, NEW u, u \in [1 .. n -> ToSet(u)]
  PROVE  u \in Seq(ToSet(u)) /\ Len(u) = n
<1>1. u \in Seq(ToSet(u))  BY SeqDef
<1>2. DOMAIN u = 1 .. Len(u) /\ Len(u) \in Nat /\ DOMAIN u = 1 .. n  BY <1>1, LenProperties
<1>3. Len(u) = n  BY <1>2
<1>4. QED  BY <1>1, <1>3

-----------------------------------------------------------------------------
(* Rows of companies. *)

(* A new row has the columns, one scan and the fingerprint of its candidate. *)
LEMMA NewRowFacts ==
  ASSUME NEW c
  PROVE  LET r == NewRow(c) IN
         /\ DOMAIN r = Columns /\ r.key = buildDedupeKey(c) /\ r.scans = 1 /\ r.track = "new"
         /\ r.fingerprint = contentFingerprint(c)
BY DEF NewRow, Columns

(* A merged row keeps its key and its verdict, and counts the scan. *)
LEMMA MergedFacts ==
  ASSUME NEW row, DOMAIN row = Columns, row.scans \in Nat, NEW c, NEW track
  PROVE  LET r == Merged(row, c, track) IN
         /\ DOMAIN r = Columns /\ r.key = row.key /\ r.scans = row.scans + 1 /\ r.track = track
         /\ r.fingerprint = contentFingerprint(c) /\ r.excluded = row.excluded
BY DEF Merged, Columns

(* A verdict changes two columns. *)
LEMMA RejudgedFacts ==
  ASSUME NEW row, DOMAIN row = Columns, NEW verdict, NEW tier
  PROVE  LET r == [row EXCEPT !.excluded = verdict, !.tier = tier] IN
         /\ DOMAIN r = Columns /\ r.key = row.key /\ r.scans = row.scans /\ r.track = row.track
         /\ r.fingerprint = row.fingerprint /\ r.excluded = verdict
         /\ r.name = row.name /\ r.status = row.status /\ r.industry = row.industry /\ r.size = row.size
BY DEF Columns

(* What Find returns when keys differ. *)
LEMMA FindFacts ==
  ASSUME Rows, NEW key
  PROVE  /\ Find(key) \in Ids \cup {0}
         /\ Find(key) = 0 => \A c \in Ids : company[c].key # key
         /\ Find(key) # 0 => company[Find(key)].key = key
         /\ \A c \in Ids : company[c].key = key => Find(key) = c
<1> DEFINE known == {c \in Ids : company[c].key = key}
<1>1. 0 \notin Ids /\ \A c \in Ids : c # 0  BY DEF Ids, Rows
<1>2. CASE known = {}
  <2>1. Find(key) = 0  BY <1>2 DEF Find
  <2>2. QED  BY <1>2, <2>1
<1>3. CASE known # {}
  <2>1. Find(key) = CHOOSE c \in known : TRUE  BY <1>3 DEF Find
  <2>2. Find(key) \in known  BY <1>3, <2>1
  <2>3. QED  BY <1>1, <2>2 DEF Rows
<1>4. QED  BY <1>2, <1>3

-----------------------------------------------------------------------------
(* Types: what every step keeps. *)

(* The tables keep their types when they are not written. *)
LEMMA RowsStay == Rows /\ UNCHANGED <<feed, raw, company>> => Rows'
BY DEF Rows, Ids

(* And so do the counters. *)
LEMMA CountsStay == Counts /\ UNCHANGED <<day, ledger, asked, faults>> => Counts'
BY DEF Counts

(* The ids of the companies are finitely many numbers. *)
LEMMA IdsFinite ==
  ASSUME TypeInv
  PROVE  Ids \in SUBSET Nat /\ IsFiniteSet(Ids) /\ Ids = 1 .. Len(company) /\ Len(company) \in Nat
<1>1. Ids = 1 .. Len(company) /\ Len(company) \in Nat  BY ListOfSeq DEF TypeInv, Rows, Ids
<1>2. QED  BY <1>1, FS_Interval

(* An execution is replaced by one of the right shape. *)
LEMMA ExecutionStep ==
  ASSUME Executions, NEW w \in Workers, NEW e, ExecutionOK(e), exec' = [exec EXCEPT ![w] = e]
  PROVE  Executions' /\ exec'[w] = e /\ \A v \in Workers \ {w} : exec'[v] = exec[v]
BY DEF Executions

(* Pages keep their rows when the tables keep their ids. *)
LEMMA PagesStep ==
  ASSUME TypeInv, NEW w \in Workers, NEW e, exec' = [exec EXCEPT ![w] = e],
         UNCHANGED feed, Ids \subseteq Ids',
         \/ e.page = {}
         \/ e.stage = exec[w].stage /\ e.page \subseteq exec[w].page
         \/ \A r \in e.page : /\ e.stage = "normalize" => r.id \in DOMAIN feed /\ r.row = feed[r.id]
                              /\ e.stage \in {"exclude_basic", "homepage_discover"} => r.id \in Ids
  PROVE  Pages'
<1>1. exec'[w] = e /\ \A v \in Workers \ {w} : exec'[v] = exec[v]  BY DEF TypeInv, Executions
<1>2. ASSUME NEW v \in Workers, NEW r \in exec'[v].page
      PROVE  /\ exec'[v].stage = "normalize" => r.id \in DOMAIN feed /\ r.row = feed[r.id]
             /\ exec'[v].stage \in {"exclude_basic", "homepage_discover"} => r.id \in Ids
  BY <1>1, <1>2 DEF TypeInv, Pages, Normalizing, Excluding, Discovering
<1>3. QED  BY <1>2 DEF Pages, Normalizing, Excluding, Discovering

(* A job given back waits or is dead, with as many attempts. *)
LEMMA RetriedFacts ==
  ASSUME NEW j \in Jobs
  PROVE  /\ Retried(j) \in Jobs /\ Retried(j).by = None /\ Retried(j).tries = j.tries
         /\ Retried(j).state \in {"pending", "dead"}
BY DEF Retried, Jobs

(* An execution that goes on leaves the jobs alone. *)
GoesOn(w) ==
  /\ exec[w].stage \in StageNames
  /\ exec' = [exec EXCEPT ![w] = exec'[w]] /\ exec'[w].stage = exec[w].stage
  /\ UNCHANGED <<job, faults>>

Reported(w) ==
  \E j \in Jobs :
    /\ j.by = None /\ j.tries = job[exec[w].stage].tries /\ j.state \in {"pending", "succeeded", "dead"}
    /\ job' = IF Owns(w) THEN [job EXCEPT ![exec[w].stage] = j] ELSE job

(* An execution that ends: its job, if it is still its own, is pending again,
   dead or succeeded. *)
Ends(w) ==
  /\ exec[w].stage \in StageNames
  /\ exec' = [exec EXCEPT ![w] = Idle]
  /\ Reported(w)
  /\ faults'.expiries = faults.expiries

(* A finished stage leaves its worker idle and its job, if still its own, succeeded. *)
LEMMA FinishFacts ==
  ASSUME job \in [StageNames -> Jobs], NEW w, exec[w].stage \in StageNames, Finish(w)
  PROVE  /\ Reported(w) /\ job' \in [StageNames -> Jobs]
         /\ \A s \in StageNames : job'[s].state # job[s].state =>
              s = exec[w].stage /\ Owns(w) /\ job'[s].state = "succeeded"
<1> DEFINE s0 == exec[w].stage  j == [job[s0] EXCEPT !.state = "succeeded", !.by = None]
<1>1. j \in Jobs /\ j.by = None /\ j.tries = job[s0].tries /\ j.state = "succeeded"  BY DEF Jobs
<1>2. job' = IF Owns(w) THEN [job EXCEPT ![s0] = j] ELSE job  BY DEF Finish
<1> HIDE DEF j
<1>3. QED  BY <1>1, <1>2 DEF Reported

(* A failed one leaves it retried. *)
LEMMA FailFacts ==
  ASSUME job \in [StageNames -> Jobs], NEW w, exec[w].stage \in StageNames, Fail(w)
  PROVE  /\ Reported(w) /\ job' \in [StageNames -> Jobs]
         /\ \A s \in StageNames : job'[s].state # job[s].state =>
              s = exec[w].stage /\ Owns(w) /\ job'[s].state \in {"pending", "dead"}
<1> DEFINE s0 == exec[w].stage  j == Retried(job[s0])
<1>1. j \in Jobs /\ j.by = None /\ j.tries = job[s0].tries /\ j.state \in {"pending", "dead"}  BY RetriedFacts
<1>2. job' = IF Owns(w) THEN [job EXCEPT ![s0] = j] ELSE job  BY DEF Fail
<1> HIDE DEF j
<1>3. QED  BY <1>1, <1>2 DEF Reported

(* A worker that goes on with a smaller page keeps the types. *)
LEMMA GoFacts ==
  ASSUME TypeInv, NEW w \in Workers, NEW e, ExecutionOK(e), Go(w, e), e.stage = exec[w].stage,
         exec[w].stage \in StageNames, UNCHANGED <<feed, job, faults>>, Ids \subseteq Ids',
         \/ e.page \subseteq exec[w].page
         \/ \A r \in e.page : /\ e.stage = "normalize" => r.id \in DOMAIN feed /\ r.row = feed[r.id]
                              /\ e.stage \in {"exclude_basic", "homepage_discover"} => r.id \in Ids
  PROVE  /\ GoesOn(w) /\ exec'[w] = e /\ \A v \in Workers \ {w} : exec'[v] = exec[v]
         /\ Executions' /\ Pages' /\ job' \in [StageNames -> Jobs]
<1>1. exec' = [exec EXCEPT ![w] = e]  BY DEF Go
<1>2. exec'[w] = e /\ \A v \in Workers \ {w} : exec'[v] = exec[v]  BY <1>1 DEF TypeInv, Executions
<1>3. Executions'  BY <1>1, ExecutionStep DEF TypeInv
<1>4. Pages'  BY <1>1, PagesStep
<1>5. job' \in [StageNames -> Jobs]  BY DEF TypeInv
<1>6. GoesOn(w)  BY <1>1, <1>2 DEF GoesOn
<1>7. QED  BY <1>2, <1>3, <1>4, <1>5, <1>6

(* A worker that ends keeps them too. *)
LEMMA EndFacts ==
  ASSUME TypeInv, NEW w \in Workers, exec[w].stage \in StageNames, Finish(w) \/ Fail(w),
         UNCHANGED feed, Ids \subseteq Ids', faults'.expiries = faults.expiries
  PROVE  /\ Ends(w) /\ exec'[w] = Idle /\ \A v \in Workers \ {w} : exec'[v] = exec[v]
         /\ Executions' /\ Pages' /\ job' \in [StageNames -> Jobs]
<1>1. exec' = [exec EXCEPT ![w] = Idle]  BY DEF Finish, Fail
<1>2. exec'[w] = Idle /\ \A v \in Workers \ {w} : exec'[v] = exec[v]  BY <1>1 DEF TypeInv, Executions
<1>3. Executions'  BY <1>1, ExecutionStep, IdleFacts DEF TypeInv
<1>4. Pages'  BY <1>1, PagesStep, IdleFacts
<1>5. job' \in [StageNames -> Jobs] /\ Reported(w)  BY FinishFacts, FailFacts DEF TypeInv
<1>6. Ends(w)  BY <1>1, <1>5 DEF Ends
<1>7. QED  BY <1>2, <1>3, <1>4, <1>5, <1>6

(* A step of a stage keeps the types, and goes on or ends. *)
TypedStep(w) == TypeInv' /\ (GoesOn(w) \/ Ends(w))

(* Each step of a stage keeps the types, and goes on or ends. *)
LEMMA FlushTyped ==
  ASSUME TypeInv, NEW w \in Workers, flush(w)
  PROVE  TypedStep(w)
<1>1. exec[w].stage = "collect" /\ exec[w].stage \in StageNames  BY StageNamesAre DEF flush, At
<1>2. Counts' /\ Ids' = Ids /\ faults' = faults /\ feed' = feed
  BY CountsStay DEF flush, quota, Ids, TypeInv
<1>3. Rows'
  <2>1. raw' \in [DOMAIN feed -> {"absent", "pending", "done"}]  BY DEF flush, TypeInv, Rows
  <2>2. QED  BY <2>1 DEF flush, TypeInv, Rows, Ids
<1>4. CASE exec[w].offset < Len(feed)
  <2> DEFINE e == [exec[w] EXCEPT !.offset = @ + Batch]
  <2>1. Go(w, e) /\ UNCHANGED job  BY <1>4 DEF flush
  <2>2. /\ ExecutionOK(e) /\ e.stage = exec[w].stage /\ e.page = exec[w].page
    BY BoundsAssumption DEF TypeInv, Executions, ExecutionOK, Fields
  <2> HIDE DEF e
  <2>3. QED  BY <1>1, <1>2, <1>3, <2>1, <2>2, GoFacts DEF TypedStep, TypeInv
<1>5. CASE ~(exec[w].offset < Len(feed))
  <2>1. Finish(w)  BY <1>5 DEF flush
  <2>2. QED  BY <1>1, <1>2, <1>3, <2>1, EndFacts DEF TypedStep, TypeInv
<1>6. QED  BY <1>4, <1>5

(* The same of a page of candidates, *)
LEMMA NormalizePageTyped ==
  ASSUME TypeInv, NEW w \in Workers, normalize_page(w)
  PROVE  TypedStep(w)
<1> DEFINE S == {i \in DOMAIN raw : raw[i] = "pending"}  page == Page(S, feed, 0)
<1>1. exec[w].stage = "normalize" /\ exec[w].stage \in StageNames /\ exec[w].pc = "page" /\ exec[w].page = {}
  BY StageNamesAre DEF normalize_page, At
<1>2. Counts' /\ Ids' = Ids /\ faults' = faults /\ feed' = feed /\ Rows'
  BY CountsStay, RowsStay DEF normalize_page, quota, tables, Ids, TypeInv
<1>3. S \subseteq DOMAIN feed /\ S \in SUBSET Nat /\ IsFiniteSet(S)
  <2>1. DOMAIN raw = DOMAIN feed /\ DOMAIN feed = 1 .. Len(feed) /\ Len(feed) \in Nat
    BY ListOfSeq DEF TypeInv, Rows
  <2>2. S \in SUBSET (1 .. Len(feed))  BY <2>1
  <2>3. IsFiniteSet(1 .. Len(feed)) /\ 1 .. Len(feed) \in SUBSET Nat  BY <2>1, FS_Interval
  <2>4. QED
    <3> HIDE DEF S
    <3>1. QED  BY <2>1, <2>2, <2>3, FS_Subset
<1>4. PageOK(page) /\ \A r \in page : r.id \in DOMAIN feed /\ r.row = feed[r.id]
  <2> HIDE DEF S
  <2>1. QED  BY <1>3, PageFacts DEF PageOK
<1>5. CASE page = {}
  <2>1. Finish(w)  BY <1>5 DEF normalize_page
  <2>2. QED  BY <1>1, <1>2, <2>1, EndFacts DEF TypedStep, TypeInv
<1>6. CASE page # {}
  <2> DEFINE e == [exec[w] EXCEPT !.page = page]
  <2>1. Go(w, e) /\ UNCHANGED job  BY <1>6 DEF normalize_page
  <2> HIDE DEF page
  <2>2. ExecutionOK(exec[w])  BY DEF TypeInv, Executions
  <2>3. DOMAIN e = Fields /\ e.stage = exec[w].stage /\ e.page = page /\ e.pc = "page" /\ e.offset = exec[w].offset
        /\ e.seen = exec[w].seen /\ e.finds = exec[w].finds
    BY <1>1, <2>2 DEF ExecutionOK, Fields
  <2> HIDE DEF e
  <2>4. ExecutionOK(e)  BY <1>4, <2>2, <2>3 DEF ExecutionOK
  <2>5. QED  BY <1>1, <1>2, <1>4, <2>1, <2>3, <2>4, GoFacts DEF TypedStep, TypeInv
<1>7. QED  BY <1>5, <1>6

(* of the look at the company, *)
LEMMA NormalizeLookTyped ==
  ASSUME TypeInv, NEW w \in Workers, normalize_look(w)
  PROVE  TypedStep(w)
<1>1. exec[w].stage = "normalize" /\ exec[w].stage \in StageNames /\ exec[w].page # {}
  BY StageNamesAre DEF normalize_look, At
<1>2. Counts' /\ Ids' = Ids /\ faults' = faults /\ feed' = feed /\ Rows'
  BY CountsStay, RowsStay DEF normalize_look, quota, tables, Ids, TypeInv
<1>3. PICK a \in {"new", "changed", "unchanged"} : Go(w, [exec[w] EXCEPT !.pc = "write", !.adopted = a])
  BY DEF normalize_look
<1> DEFINE e == [exec[w] EXCEPT !.pc = "write", !.adopted = a]
<1>4. ExecutionOK(exec[w])  BY DEF TypeInv, Executions
<1>5. DOMAIN e = Fields /\ e.stage = exec[w].stage /\ e.page = exec[w].page /\ e.pc = "write" /\ e.offset = exec[w].offset
      /\ e.seen = exec[w].seen /\ e.finds = exec[w].finds /\ e.adopted = a
  BY <1>4 DEF ExecutionOK, Fields
<1>6. Go(w, e)  BY <1>3
<1> HIDE DEF e
<1>7. ExecutionOK(e)  BY <1>1, <1>4, <1>5, NamesAssumption DEF ExecutionOK
<1>8. UNCHANGED job  BY DEF normalize_look
<1>9. QED  BY <1>1, <1>2, <1>5, <1>6, <1>7, <1>8, GoFacts DEF TypedStep, TypeInv

(* What the transaction of a candidate does when it commits. *)
Stores(w) ==
  LET i     == Item(w).id
      c     == feed[i]
      found == Find(buildDedupeKey(c))
      id    == IF found = 0 THEN Len(company) + 1 ELSE found
      url   == canonicalizeUrl(c.homepageUrl)
  IN /\ company' = IF found = 0 THEN Append(company, NewRow(c))
                   ELSE [company EXCEPT ![id] = Merged(company[id], c, exec[w].adopted)]
     /\ sites' = IF url = None \/ (\E s \in sites : s.company = id /\ s.url = url)
                 THEN sites ELSE sites \cup {Site(id, url, None)}
     /\ raw' = [raw EXCEPT ![i] = "done"]
     /\ Go(w, Turned(w))
     /\ UNCHANGED job

(* (what the transaction writes, or refuses to write) *)
LEMMA NormalizeWriteDoes ==
  ASSUME TypeInv, NEW w \in Workers, normalize_write(w)
  PROVE  /\ exec[w].stage = "normalize" /\ exec[w].pc = "write" /\ exec[w].page # {} /\ exec[w].adopted # None
         /\ Item(w) \in exec[w].page /\ Item(w).id \in DOMAIN feed /\ Item(w).row = feed[Item(w).id]
         /\ UNCHANGED <<feed, quota, missed, faults>>
         /\ (Fail(w) /\ UNCHANGED <<raw, company, sites>>) \/ Stores(w)
<1>1. exec[w].stage = "normalize" /\ exec[w].pc = "write" /\ ExecutionOK(exec[w])
  BY DEF normalize_write, At, TypeInv, Executions
<1>2. exec[w].page # {} /\ exec[w].adopted # None  BY <1>1 DEF ExecutionOK
<1>3. Item(w) \in exec[w].page  BY <1>1, <1>2, ItemFacts DEF ExecutionOK
<1>4. Item(w).id \in DOMAIN feed /\ Item(w).row = feed[Item(w).id]
  BY <1>1, <1>3 DEF TypeInv, Pages, Normalizing
<1>5. QED  BY <1>1, <1>2, <1>3, <1>4 DEF normalize_write, tables, Stores

(* of the transaction, *)
LEMMA NormalizeWriteTyped ==
  ASSUME TypeInv, NEW w \in Workers, normalize_write(w)
  PROVE  TypedStep(w)
<1> DEFINE i     == Item(w).id
           c     == feed[i]
           found == Find(buildDedupeKey(c))
<1>1. /\ exec[w].stage = "normalize" /\ exec[w].stage \in StageNames /\ exec[w].page # {}
      /\ i \in DOMAIN feed /\ UNCHANGED <<feed, quota, missed, faults>>
  BY NormalizeWriteDoes, StageNamesAre
<1>2. Counts' /\ faults' = faults /\ feed' = feed  BY <1>1, CountsStay DEF quota, TypeInv
<1>3. CASE Fail(w) /\ UNCHANGED <<raw, company, sites>>
  <2>1. Rows' /\ Ids' = Ids  BY <1>1, <1>3, RowsStay DEF TypeInv, Ids
  <2>2. QED  BY <1>1, <1>2, <1>3, <2>1, EndFacts DEF TypedStep, TypeInv
<1>4. CASE /\ company' = IF found = 0 THEN Append(company, NewRow(c))
                        ELSE [company EXCEPT ![found] = Merged(company[found], c, exec[w].adopted)]
           /\ raw' = [raw EXCEPT ![i] = "done"]
           /\ Go(w, Turned(w))
           /\ UNCHANGED job
  <2>1. raw' \in [DOMAIN feed -> {"absent", "pending", "done"}]  BY <1>4 DEF TypeInv, Rows
  <2>2. Ids \subseteq Ids' /\ company' \in Seq(ToSet(company'))
        /\ \A d \in Ids' : DOMAIN company'[d] = Columns /\ company'[d].scans \in Nat
        /\ \A e, f \in Ids' : company'[e].key = company'[f].key => e = f
    <3>1. company \in Seq(ToSet(company)) /\ Len(company) \in Nat /\ Ids = 1 .. Len(company)
      BY ListOfSeq DEF TypeInv, Rows, Ids
    <3>2. \A d \in Ids : DOMAIN company[d] = Columns /\ company[d].scans \in Nat
      BY DEF TypeInv, Rows
    <3>3. \A d, f \in Ids : company[d].key = company[f].key => d = f
      BY DEF TypeInv, Rows
    <3>4. CASE found = 0
      <4>1. company' = Append(company, NewRow(c))  BY <1>4, <3>4
      <4>2. /\ company' \in Seq(ToSet(company')) /\ Len(company') = Len(company) + 1
            /\ \A d \in 1 .. Len(company) : company'[d] = company[d]
            /\ company'[Len(company) + 1] = NewRow(c)
        BY <3>1, <4>1, Appended
      <4>3. Ids' = Ids \cup {Len(company) + 1}  BY <3>1, <4>2 DEF Ids
      <4>4. DOMAIN NewRow(c) = Columns /\ NewRow(c).scans = 1 /\ NewRow(c).key = buildDedupeKey(c)
        BY NewRowFacts
      <4>5. \A d \in Ids : company[d].key # buildDedupeKey(c)  BY <3>4, FindFacts DEF TypeInv
      <4>6. QED  BY <3>1, <3>2, <3>3, <4>2, <4>3, <4>4, <4>5
    <3>5. CASE found # 0
      <4>1. found \in Ids  BY <3>5, FindFacts DEF TypeInv
      <4> DEFINE m == Merged(company[found], c, exec[w].adopted)
      <4>2. company' = [company EXCEPT ![found] = m]  BY <1>4, <3>5
      <4>3. DOMAIN m = Columns /\ m.key = company[found].key /\ m.scans = company[found].scans + 1
        BY <3>2, <4>1, MergedFacts
      <4> HIDE DEF m, found
      <4>4. /\ company' \in Seq(ToSet(company')) /\ Len(company') = Len(company)
            /\ \A d \in 1 .. Len(company) : company'[d] = IF d = found THEN m ELSE company[d]
        <5>1. found \in 1 .. Len(company)  BY <3>1, <4>1
        <5>2. Len(company) \in Nat /\ company \in [1 .. Len(company) -> ToSet(company)]  BY <3>1
        <5>3. /\ company' \in [1 .. Len(company) -> ToSet(company')]
              /\ \A d \in 1 .. Len(company) : company'[d] = IF d = found THEN m ELSE company[d]
          BY <4>2, <5>1, <5>2 DEF ToSet
        <5>4. QED  BY <5>2, <5>3, SameLength
      <4>5. Ids' = Ids  BY <3>1, <4>4 DEF Ids
      <4>6. \A d \in Ids : company'[d].key = company[d].key
        BY <3>1, <4>1, <4>3, <4>4
      <4>7. \A d \in Ids : DOMAIN company'[d] = Columns /\ company'[d].scans \in Nat
        BY <3>1, <3>2, <4>1, <4>3, <4>4
      <4>8. QED  BY <3>3, <4>4, <4>5, <4>6, <4>7
    <3>6. QED  BY <3>4, <3>5
  <2>3. Rows'  BY <1>2, <2>1, <2>2 DEF TypeInv, Rows
  <2>4. ExecutionOK(exec[w])  BY DEF TypeInv, Executions
  <2>5. ExecutionOK(Turned(w)) /\ Turned(w).stage = exec[w].stage /\ Turned(w).page \subseteq exec[w].page
    BY <1>1, <2>4, TurnedFacts
  <2>6. QED  BY <1>1, <1>2, <1>4, <2>2, <2>3, <2>5, GoFacts DEF TypedStep, TypeInv
<1>5. QED  BY <1>3, <1>4, NormalizeWriteDoes DEF Stores

(* of a page of companies to judge, *)
LEMMA ExcludePageTyped ==
  ASSUME TypeInv, NEW w \in Workers, exclude_page(w)
  PROVE  TypedStep(w)
<1> DEFINE S == {c \in Ids : Observed(c)}  page == Page(S, company, exec[w].offset)
<1>1. exec[w].stage = "exclude_basic" /\ exec[w].stage \in StageNames /\ exec[w].pc = "page" /\ exec[w].page = {}
  BY StageNamesAre DEF exclude_page, At
<1>2. Counts' /\ Ids' = Ids /\ faults' = faults /\ feed' = feed /\ Rows'
  BY CountsStay, RowsStay DEF exclude_page, quota, tables, Ids, TypeInv
<1>3. ExecutionOK(exec[w]) /\ exec[w].offset \in Nat  BY DEF TypeInv, Executions, ExecutionOK
<1>4. PageOK(page) /\ \A r \in page : r.id \in Ids
  <2>1. S \subseteq Ids /\ S \in SUBSET Nat /\ IsFiniteSet(S)  BY IdsFinite, FS_Subset
  <2> HIDE DEF S
  <2>2. QED  BY <1>3, <2>1, PageFacts DEF PageOK
<1>5. CASE page = {}
  <2>1. Finish(w)  BY <1>5 DEF exclude_page
  <2>2. QED  BY <1>1, <1>2, <2>1, EndFacts DEF TypedStep, TypeInv
<1>6. CASE page # {}
  <2>1. Go(w, Fetched(w, page)) /\ UNCHANGED job  BY <1>6 DEF exclude_page
  <2> HIDE DEF page
  <2> DEFINE e == Fetched(w, page)
  <2>2. ExecutionOK(e) /\ e.stage = exec[w].stage /\ e.page = page  BY <1>1, <1>3, <1>4, FetchedFacts
  <2> HIDE DEF e
  <2>3. Go(w, e)  BY <2>1 DEF e
  <2>4. QED  BY <1>1, <1>2, <1>4, <2>1, <2>2, <2>3, GoFacts DEF TypedStep, TypeInv
<1>7. QED  BY <1>5, <1>6

(* What writing a verdict does. *)
LEMMA ExcludeRowDoes ==
  ASSUME TypeInv, NEW w \in Workers, exclude_row(w)
  PROVE  /\ exec[w].stage = "exclude_basic" /\ exec[w].page # {} /\ exec[w].pc = "page"
         /\ Item(w) \in exec[w].page /\ Item(w).id \in Ids
         /\ UNCHANGED <<feed, raw, sites, quota, job, missed, faults>>
         /\ Go(w, Turned(w))
         /\ company' \in Seq(ToSet(company')) /\ Ids' = Ids
         /\ \A c \in Ids :
              /\ DOMAIN company'[c] = Columns /\ company'[c].key = company[c].key /\ company'[c].scans = company[c].scans
              /\ company'[c].track = company[c].track /\ company'[c].fingerprint = company[c].fingerprint
              /\ company'[c].name = company[c].name /\ company'[c].status = company[c].status
              /\ company'[c].industry = company[c].industry /\ company'[c].size = company[c].size
              /\ company'[c].excluded = IF c = Item(w).id THEN decideExclusion(Item(w).row, Limits) ELSE company[c].excluded
<1>1. exec[w].stage = "exclude_basic" /\ exec[w].page # {} /\ ExecutionOK(exec[w]) /\ exec[w].pc = "page"
  BY DEF exclude_row, At, TypeInv, Executions
<1>2. Item(w) \in exec[w].page  BY <1>1, ItemFacts DEF ExecutionOK
<1>3. Item(w).id \in Ids  BY <1>1, <1>2 DEF TypeInv, Pages, Excluding
<1> DEFINE i == Item(w).id
           m == [company[i] EXCEPT !.excluded = decideExclusion(Item(w).row, Limits),
                                   !.tier = classifySize(Item(w).row.size, Limits)]
<1>4. company' = [company EXCEPT ![i] = m]  BY DEF exclude_row
<1>5. company \in Seq(ToSet(company)) /\ Len(company) \in Nat /\ Ids = 1 .. Len(company)
      /\ \A c \in Ids : DOMAIN company[c] = Columns
  BY ListOfSeq DEF TypeInv, Rows, Ids
<1>6. /\ DOMAIN m = Columns /\ m.key = company[i].key /\ m.scans = company[i].scans
      /\ m.track = company[i].track /\ m.fingerprint = company[i].fingerprint
      /\ m.name = company[i].name /\ m.status = company[i].status
      /\ m.industry = company[i].industry /\ m.size = company[i].size
      /\ m.excluded = decideExclusion(Item(w).row, Limits)
  BY <1>3, <1>5, RejudgedFacts
<1> HIDE DEF m, i
<1>7. /\ company' \in [1 .. Len(company) -> ToSet(company')]
      /\ \A c \in 1 .. Len(company) : company'[c] = IF c = i THEN m ELSE company[c]
  <2>1. i \in 1 .. Len(company)  BY <1>3, <1>5 DEF i
  <2>2. company \in [1 .. Len(company) -> ToSet(company)]  BY <1>5
  <2>3. QED  BY <1>4, <2>1, <2>2 DEF ToSet
<1>8. company' \in Seq(ToSet(company')) /\ Len(company') = Len(company)  BY <1>5, <1>7, SameLength
<1>9. Ids' = Ids  BY <1>5, <1>8 DEF Ids
<1>10. ASSUME NEW c \in Ids
       PROVE  /\ DOMAIN company'[c] = Columns /\ company'[c].key = company[c].key /\ company'[c].scans = company[c].scans
              /\ company'[c].track = company[c].track /\ company'[c].fingerprint = company[c].fingerprint
              /\ company'[c].name = company[c].name /\ company'[c].status = company[c].status
              /\ company'[c].industry = company[c].industry /\ company'[c].size = company[c].size
              /\ company'[c].excluded = IF c = i THEN decideExclusion(Item(w).row, Limits) ELSE company[c].excluded
  <2>1. CASE c = i  BY <1>5, <1>6, <1>7, <2>1
  <2>2. CASE c # i  BY <1>5, <1>7, <2>2
  <2>3. QED  BY <2>1, <2>2
<1>11. UNCHANGED <<feed, raw, sites, quota, job, missed, faults>> /\ Go(w, Turned(w))  BY DEF exclude_row
<1>12. QED  BY <1>1, <1>2, <1>3, <1>8, <1>9, <1>10, <1>11 DEF i

(* of a verdict, *)
LEMMA ExcludeRowTyped ==
  ASSUME TypeInv, NEW w \in Workers, exclude_row(w)
  PROVE  TypedStep(w)
<1>1. exec[w].stage = "exclude_basic" /\ exec[w].stage \in StageNames /\ exec[w].page # {}
      /\ Go(w, Turned(w)) /\ UNCHANGED <<feed, raw, sites, quota, job, missed, faults>>
  BY ExcludeRowDoes, StageNamesAre
<1>2. Counts'  BY <1>1, CountsStay DEF TypeInv, quota
<1>3. Rows' /\ Ids' = Ids
  <2>1. /\ company' \in Seq(ToSet(company')) /\ Ids' = Ids
        /\ \A c \in Ids : DOMAIN company'[c] = Columns /\ company'[c].key = company[c].key /\ company'[c].scans = company[c].scans
    BY ExcludeRowDoes
  <2>2. \A d, f \in Ids : company'[d].key = company'[f].key => d = f
    BY <2>1 DEF TypeInv, Rows
  <2>3. \A d \in Ids : company'[d].scans \in Nat  BY <2>1 DEF TypeInv, Rows
  <2>4. UNCHANGED <<feed, raw>>  BY <1>1
  <2>5. QED  BY <2>1, <2>2, <2>3, <2>4 DEF TypeInv, Rows
<1>4. ExecutionOK(exec[w])  BY DEF TypeInv, Executions
<1>5. ExecutionOK(Turned(w)) /\ Turned(w).stage = exec[w].stage /\ Turned(w).page \subseteq exec[w].page
  BY <1>1, <1>4, TurnedFacts
<1>6. QED  BY <1>1, <1>2, <1>3, <1>5, GoFacts DEF TypedStep, TypeInv

(* of a page of companies to ask about, *)
LEMMA DiscoverPageTyped ==
  ASSUME TypeInv, NEW w \in Workers, discover_page(w)
  PROVE  TypedStep(w)
<1> DEFINE page == Page(Targets, company, exec[w].offset)
<1>1. exec[w].stage = "homepage_discover" /\ exec[w].stage \in StageNames /\ exec[w].pc = "page" /\ exec[w].page = {}
  BY StageNamesAre DEF discover_page, At
<1>2. Counts' /\ Ids' = Ids /\ faults' = faults /\ feed' = feed /\ Rows'
  BY CountsStay, RowsStay DEF discover_page, quota, tables, Ids, TypeInv
<1>3. ExecutionOK(exec[w]) /\ exec[w].offset \in Nat  BY DEF TypeInv, Executions, ExecutionOK
<1>4. PageOK(page) /\ \A r \in page : r.id \in Ids
  <2>1. Targets \subseteq Ids  BY DEF Targets
  <2>2. Targets \in SUBSET Nat /\ IsFiniteSet(Targets)  BY <2>1, IdsFinite, FS_Subset
  <2>3. QED  BY <1>3, <2>1, <2>2, PageFacts DEF PageOK
<1>5. CASE Finish(w)  BY <1>1, <1>2, <1>5, EndFacts DEF TypedStep, TypeInv
<1>6. CASE Go(w, Fetched(w, page)) /\ UNCHANGED job
  <2>1. Go(w, Fetched(w, page)) /\ UNCHANGED job  BY <1>6
  <2> HIDE DEF page
  <2> DEFINE e == Fetched(w, page)
  <2>2. ExecutionOK(e) /\ e.stage = exec[w].stage /\ e.page = page  BY <1>1, <1>3, <1>4, FetchedFacts
  <2> HIDE DEF e
  <2>3. Go(w, e)  BY <2>1 DEF e
  <2>4. QED  BY <1>1, <1>2, <1>4, <2>1, <2>2, <2>3, GoFacts DEF TypedStep, TypeInv
<1>7. QED  BY <1>5, <1>6 DEF discover_page

(* A discoverer's states besides Turned, Asked and Found. *)
LEMMA ElsewhereFacts ==
  ASSUME NEW w, ExecutionOK(exec[w]), exec[w].stage = "homepage_discover", exec[w].page # {},
         NEW pc \in {"local", "reserve_web", "web"}
  PROVE  LET e == [exec[w] EXCEPT !.pc = pc] IN
         /\ ExecutionOK(e) /\ e.stage = exec[w].stage /\ e.pc = pc /\ e.page = exec[w].page
         /\ e.offset = exec[w].offset /\ e.seen = exec[w].seen /\ e.finds = exec[w].finds
BY DEF ExecutionOK, Fields

(* Found: an answer is adopted, the row stays in hand. *)
LEMMA AdoptedFacts ==
  ASSUME NEW w, ExecutionOK(exec[w]), exec[w].stage = "homepage_discover", exec[w].page # {}, NEW a
  PROVE  LET e == Found(w, a) IN
         /\ ExecutionOK(e) /\ e.stage = exec[w].stage /\ e.pc = "insert" /\ e.page = exec[w].page
         /\ e.offset = exec[w].offset /\ e.seen = exec[w].seen /\ e.finds = exec[w].finds
BY DEF ExecutionOK, Fields, Found

(* Asking for the row in hand. *)
LEMMA ReserveDoes ==
  ASSUME TypeInv, NEW w \in Workers, discover_reserve(w) \/ discover_reserve_web(w)
  PROVE  /\ exec[w].stage = "homepage_discover" /\ exec[w].page # {} /\ exec[w].pc \in {"page", "reserve_web"}
         /\ UNCHANGED <<feed, tables, asked, day, missed, faults>>
         /\ \/ Finish(w) /\ UNCHANGED ledger
            \/ \E kind \in {"local", "web"} :
                 /\ exec[w].pc = (IF kind = "local" THEN "page" ELSE "reserve_web")
                 /\ Granted(EntryKey(kind, w)) /\ Book(EntryKey(kind, w))
                 /\ Go(w, [exec[w] EXCEPT !.pc = kind]) /\ UNCHANGED job
<1>1. ExecutionOK(exec[w])  BY DEF TypeInv, Executions
<1>2. QED  BY <1>1 DEF discover_reserve, discover_reserve_web, Reserve, At, ExecutionOK

(* A reservation keeps the types, *)
LEMMA ReserveTyped ==
  ASSUME TypeInv, NEW w \in Workers, discover_reserve(w) \/ discover_reserve_web(w)
  PROVE  TypedStep(w)
<1>1. /\ exec[w].stage = "homepage_discover" /\ exec[w].stage \in StageNames /\ exec[w].page # {}
      /\ UNCHANGED <<feed, tables, asked, day, missed, faults>>
  BY ReserveDoes, StageNamesAre
<1>2. Ids' = Ids /\ faults' = faults /\ feed' = feed /\ Rows'
  BY <1>1, RowsStay DEF tables, Ids, TypeInv
<1>3. CASE Finish(w) /\ UNCHANGED ledger
  <2>1. Counts'  BY <1>1, <1>3, CountsStay DEF TypeInv
  <2>2. QED  BY <1>1, <1>2, <1>3, <2>1, EndFacts DEF TypedStep, TypeInv
<1>4. ASSUME NEW kind \in {"local", "web"}, Book(EntryKey(kind, w)),
             Go(w, [exec[w] EXCEPT !.pc = kind]), UNCHANGED job
      PROVE  TypedStep(w)
  <2>1. Counts'
    <3>1. IsFiniteSet(ledger')  BY <1>4, FS_AddElement DEF Book, TypeInv, Counts
    <3>2. QED  BY <1>1, <3>1 DEF TypeInv, Counts
  <2> DEFINE e == [exec[w] EXCEPT !.pc = kind]
  <2>2. ExecutionOK(exec[w]) /\ kind \in {"local", "reserve_web", "web"}
    BY DEF TypeInv, Executions
  <2>3. ExecutionOK(e) /\ e.stage = exec[w].stage /\ e.page = exec[w].page
    BY <1>1, <2>2, ElsewhereFacts
  <2>4. Go(w, e)  BY <1>4
  <2> HIDE DEF e
  <2>5. QED  BY <1>1, <1>2, <1>4, <2>1, <2>3, <2>4, GoFacts DEF TypedStep, TypeInv
<1>5. QED  BY <1>3, <1>4, ReserveDoes

(* A call, and what follows it. *)
LEMMA SearchDoes ==
  ASSUME TypeInv, NEW w \in Workers, local_search(w) \/ web_search(w)
  PROVE  /\ exec[w].stage = "homepage_discover" /\ exec[w].page # {} /\ exec[w].pc \in {"local", "web"}
         /\ UNCHANGED <<feed, tables, ledger, day, job, missed, faults>>
         /\ Called(w, exec[w].pc)
         /\ \/ Go(w, Asked(w))
            \/ \E a : Go(w, Found(w, a))
            \/ exec[w].pc = "local" /\ Go(w, [exec[w] EXCEPT !.pc = "reserve_web"])
<1>1. ExecutionOK(exec[w])  BY DEF TypeInv, Executions
<1>2. CASE local_search(w)
  <2>1. /\ exec[w].stage = "homepage_discover" /\ exec[w].pc = "local"
        /\ UNCHANGED <<feed, tables, ledger, day, job, missed, faults>> /\ Called(w, "local")
    BY <1>2 DEF local_search, At
  <2>2. \/ Go(w, Asked(w))
        \/ \E a : Go(w, Found(w, a))
        \/ Go(w, [exec[w] EXCEPT !.pc = "reserve_web"])
    BY <1>2, Zenon DEF local_search
  <2>3. exec[w].page # {}  BY <1>1, <2>1 DEF ExecutionOK
  <2>4. QED  BY <2>1, <2>2, <2>3
<1>3. CASE web_search(w)
  <2>1. /\ exec[w].stage = "homepage_discover" /\ exec[w].pc = "web"
        /\ UNCHANGED <<feed, tables, ledger, day, job, missed, faults>> /\ Called(w, "web")
    BY <1>3 DEF web_search, At
  <2>2. \/ Go(w, Asked(w))
        \/ \E a : Go(w, Found(w, a))
    BY <1>3, Zenon DEF web_search
  <2>3. exec[w].page # {}  BY <1>1, <2>1 DEF ExecutionOK
  <2>4. QED  BY <2>1, <2>2, <2>3
<1>4. QED  BY <1>2, <1>3

(* A call is counted once, on its entry. *)
LEMMA CalledFacts ==
  ASSUME Counts, NEW w, NEW kind, Called(w, kind)
  PROVE  /\ DOMAIN asked' = DOMAIN asked
         /\ \A k \in DOMAIN asked : asked'[k] = IF k = EntryKey(kind, w) THEN asked[k] + 1 ELSE asked[k]
BY DEF Counts, Called

(* a search keeps them, *)
LEMMA SearchTyped ==
  ASSUME TypeInv, NEW w \in Workers, local_search(w) \/ web_search(w)
  PROVE  TypedStep(w)
<1>1. /\ exec[w].stage = "homepage_discover" /\ exec[w].stage \in StageNames /\ exec[w].page # {}
      /\ UNCHANGED <<feed, tables, ledger, day, job, missed, faults>> /\ Called(w, exec[w].pc)
  BY SearchDoes, StageNamesAre
<1>2. Ids' = Ids /\ faults' = faults /\ feed' = feed /\ Rows' /\ job' = job
  BY <1>1, RowsStay DEF tables, Ids, TypeInv
<1>3. Counts'
  <2>1. /\ DOMAIN asked' = DOMAIN asked
        /\ \A k \in DOMAIN asked : asked'[k] = IF k = EntryKey(exec[w].pc, w) THEN asked[k] + 1 ELSE asked[k]
    BY <1>1, CalledFacts DEF TypeInv
  <2>2. \A k \in DOMAIN asked : asked'[k] \in Nat  BY <2>1 DEF TypeInv, Counts
  <2>3. QED  BY <1>1, <2>1, <2>2 DEF TypeInv, Counts
<1>4. ExecutionOK(exec[w])  BY DEF TypeInv, Executions
<1>5. ASSUME NEW e, Go(w, e), ExecutionOK(e), e.stage = exec[w].stage, e.page \subseteq exec[w].page
      PROVE  TypedStep(w)
  BY <1>1, <1>2, <1>3, <1>5, GoFacts DEF TypedStep, TypeInv
<1>6. CASE Go(w, Asked(w))
  <2>1. ExecutionOK(Asked(w)) /\ Asked(w).stage = exec[w].stage /\ Asked(w).page \subseteq exec[w].page
    BY <1>1, <1>4, AskedFacts
  <2>2. QED  BY <1>5, <1>6, <2>1
<1>7. ASSUME NEW a, Go(w, Found(w, a)) PROVE TypedStep(w)
  <2>1. ExecutionOK(Found(w, a)) /\ Found(w, a).stage = exec[w].stage /\ Found(w, a).page \subseteq exec[w].page
    BY <1>1, <1>4, AdoptedFacts
  <2>2. QED  BY <1>5, <1>7, <2>1
<1>8. CASE Go(w, [exec[w] EXCEPT !.pc = "reserve_web"])
  <2> DEFINE e == [exec[w] EXCEPT !.pc = "reserve_web"]
  <2>1. ExecutionOK(e) /\ e.stage = exec[w].stage /\ e.page \subseteq exec[w].page
    BY <1>1, <1>4, ElsewhereFacts
  <2>2. Go(w, e)  BY <1>8
  <2> HIDE DEF e
  <2>3. QED  BY <1>5, <2>1, <2>2
<1>9. QED  BY <1>6, <1>7, <1>8, SearchDoes

(* and so does an insertion. *)
LEMMA InsertTyped ==
  ASSUME TypeInv, NEW w \in Workers, insert_site(w)
  PROVE  TypedStep(w)
<1>1. /\ exec[w].stage = "homepage_discover" /\ exec[w].stage \in StageNames /\ exec[w].pc = "insert"
      /\ UNCHANGED <<feed, raw, company, quota, job, missed, faults>>
  BY StageNamesAre DEF insert_site, At
<1>2. Ids' = Ids /\ faults' = faults /\ feed' = feed /\ Rows' /\ job' = job /\ Counts'
  BY <1>1, RowsStay, CountsStay DEF quota, Ids, TypeInv
<1>3. ExecutionOK(exec[w]) /\ exec[w].page # {}  BY <1>1 DEF TypeInv, Executions, ExecutionOK
<1> DEFINE e == [Asked(w) EXCEPT !.finds = @ \cup {Item(w).id}]
<1>4. ExecutionOK(e) /\ e.stage = exec[w].stage /\ e.page \subseteq exec[w].page  BY <1>3, FoundFacts
<1>5. Go(w, e)  BY DEF insert_site
<1> HIDE DEF e
<1>6. QED  BY <1>1, <1>2, <1>4, <1>5, GoFacts DEF TypedStep, TypeInv

(* Every step of a handler. *)
LEMMA WorkTyped ==
  ASSUME TypeInv, NEW w \in Workers, Work(w)
  PROVE  TypedStep(w)
BY FlushTyped, NormalizePageTyped, NormalizeLookTyped, NormalizeWriteTyped, ExcludePageTyped, ExcludeRowTyped,
   DiscoverPageTyped, ReserveTyped, SearchTyped, InsertTyped DEF Work

-----------------------------------------------------------------------------
(* The steps that are no statement of a stage. *)

(* A worker that was free begins a stage. *)
Begins(w, s) ==
  /\ exec[w].stage = None /\ job[s].state = "pending"
  /\ s # "collect" => job[Before(s)].state = "succeeded"
  /\ job' = [job EXCEPT ![s] = [state |-> "running", by |-> w, tries |-> job[s].tries + 1]]
  /\ exec' = [exec EXCEPT ![w] = [Idle EXCEPT !.stage = s]]
  /\ faults' = faults

(* A running job is taken from its worker, which goes on. *)
Expires(s) ==
  /\ job[s].state = "running" /\ exec' = exec
  /\ faults'.expiries = faults.expiries + 1
  /\ job' = [job EXCEPT ![s] = Retried(job[s])]

(* A stage that begins, a crash, an expiry and midnight keep the types. *)
LEMMA StartTyped ==
  ASSUME TypeInv, NEW w \in Workers, NEW s \in StageNames, start(w, s)
  PROVE  TypeInv' /\ Begins(w, s)
<1>1. UNCHANGED <<feed, raw, company, sites, quota, missed, faults>>  BY DEF start, tables
<1>2. Rows' /\ Counts' /\ Ids' = Ids  BY <1>1, RowsStay, CountsStay DEF TypeInv, quota, Ids
<1> DEFINE j == [state |-> "running", by |-> w, tries |-> job[s].tries + 1]
           e == [Idle EXCEPT !.stage = s]
<1>3. job[s] \in Jobs  BY DEF TypeInv
<1>4. j \in Jobs  BY <1>3 DEF Jobs
<1>5. job' = [job EXCEPT ![s] = j] /\ exec' = [exec EXCEPT ![w] = e]  BY <1>3 DEF start, TypeInv, Jobs
<1>6. ExecutionOK(e) /\ e.page = {}  BY StartedFacts
<1> HIDE DEF j, e
<1>7. job' \in [StageNames -> Jobs]  BY <1>4, <1>5 DEF TypeInv
<1>8. Executions' /\ Pages'  BY <1>1, <1>2, <1>5, <1>6, ExecutionStep, PagesStep DEF TypeInv
<1>9. exec[w].stage = None /\ job[s].state = "pending"  BY DEF start, Ready
<1>10. s # "collect" => job[Before(s)].state = "succeeded"
  <2>1. \A i \in 1 .. 4 : i > 1 /\ Stages[i] = s => job[Stages[i - 1]].state = "succeeded"
    BY DEF start, Ready, Stages
  <2>2. /\ Stages[2] = "normalize" => job[Stages[1]].state = "succeeded" \/ s # "normalize"
        /\ Stages[3] = "exclude_basic" => job[Stages[2]].state = "succeeded" \/ s # "exclude_basic"
        /\ Stages[4] = "homepage_discover" => job[Stages[3]].state = "succeeded" \/ s # "homepage_discover"
    BY <2>1
  <2>3. QED  BY <2>2, StageNamesAre DEF Stages, Before
<1>11. QED  BY <1>1, <1>2, <1>5, <1>7, <1>8, <1>9, <1>10 DEF TypeInv, Begins, j, e

(* A crash ends an execution. *)
LEMMA CrashTyped ==
  ASSUME TypeInv, NEW w \in Workers, crash(w)
  PROVE  TypeInv' /\ Ends(w)
<1>1. UNCHANGED <<feed, raw, company, sites, quota, missed>>  BY DEF crash, tables
<1>2. faults' \in [crashes : Nat, expiries : Nat] /\ faults'.expiries = faults.expiries
  BY DEF crash, TypeInv, Counts
<1>3. Rows' /\ Counts' /\ Ids' = Ids  BY <1>1, <1>2, RowsStay DEF TypeInv, Counts, quota, Ids
<1>4. exec[w].stage \in StageNames /\ Fail(w)  BY DEF crash, TypeInv, Executions, ExecutionOK
<1>5. QED  BY <1>1, <1>2, <1>3, <1>4, EndFacts DEF TypeInv

(* An expiry takes a job from its worker, which goes on. *)
LEMMA ExpireTyped ==
  ASSUME TypeInv, NEW s \in StageNames, expire(s)
  PROVE  TypeInv' /\ Expires(s)
<1>1. UNCHANGED <<feed, raw, company, sites, quota, missed, exec>>  BY DEF expire, tables
<1>2. faults' \in [crashes : Nat, expiries : Nat] /\ faults'.expiries = faults.expiries + 1
  BY DEF expire, TypeInv, Counts
<1>3. Rows' /\ Counts' /\ Ids' = Ids  BY <1>1, <1>2, RowsStay DEF TypeInv, Counts, quota, Ids
<1>4. job[s] \in Jobs  BY DEF TypeInv
<1>5. Retried(job[s]) \in Jobs  BY <1>4, RetriedFacts
<1>6. job' = [job EXCEPT ![s] = Retried(job[s])]  BY DEF expire, TypeInv
<1>7. job' \in [StageNames -> Jobs]  BY <1>5, <1>6 DEF TypeInv
<1>8. Executions' /\ Pages'
  BY <1>1, <1>3 DEF TypeInv, Executions, Pages, Normalizing, Excluding, Discovering
<1>9. job[s].state = "running"  BY DEF expire
<1>10. QED  BY <1>1, <1>2, <1>3, <1>6, <1>7, <1>8, <1>9 DEF TypeInv, Expires

(* Midnight changes the day. *)
LEMMA MidnightTyped ==
  ASSUME TypeInv, midnight
  PROVE  TypeInv' /\ UNCHANGED <<job, exec, faults>>
<1>1. UNCHANGED <<feed, raw, company, sites, ledger, asked, job, exec, missed, faults>>  BY DEF midnight, tables
<1>2. day' \in 0 .. MaxDay  BY BoundsAssumption DEF midnight, TypeInv, Counts
<1>3. Rows' /\ Counts' /\ Ids' = Ids  BY <1>1, <1>2, RowsStay DEF TypeInv, Counts, Ids
<1>4. Executions' /\ Pages'
  BY <1>1, <1>3 DEF TypeInv, Executions, Pages, Normalizing, Excluding, Discovering
<1>5. QED  BY <1>1, <1>3, <1>4 DEF TypeInv

(* A stuttering step. *)
LEMMA StayTyped ==
  ASSUME TypeInv, UNCHANGED vars
  PROVE  TypeInv' /\ UNCHANGED <<job, exec, faults>>
<1>1. UNCHANGED <<feed, raw, company, sites, ledger, asked, day, job, exec, missed, faults>>  BY DEF vars, tables, quota
<1>2. Rows' /\ Counts' /\ Ids' = Ids  BY <1>1, RowsStay, CountsStay DEF TypeInv, Ids
<1>3. Executions' /\ Pages'
  BY <1>1, <1>2 DEF TypeInv, Executions, Pages, Normalizing, Excluding, Discovering
<1>4. QED  BY <1>1, <1>2, <1>3 DEF TypeInv

(* The initial states have the types. *)
LEMMA InitTyped == Init => TypeInv
<1> SUFFICES ASSUME Init PROVE TypeInv  OBVIOUS
<1>1. feed \in Seq(ToSet(feed))  BY NamesAssumption DEF Init
<1>2. Ids = DOMAIN Past
  <2>1. DOMAIN Past = 1 .. Len(Past)  BY PastAssumption, ListOfSeq
  <2>2. QED  BY <2>1 DEF Init, Ids
<1>3. Rows
  <2>1. raw \in [DOMAIN feed -> {"absent", "pending", "done"}]  BY DEF Init
  <2>2. company = Past  BY DEF Init
  <2>3. QED  BY <1>1, <1>2, <2>1, <2>2, PastAssumption DEF Rows
<1>4. Counts  BY BoundsAssumption, FS_EmptySet DEF Init, Counts
<1>5. job \in [StageNames -> Jobs]  BY DEF Init, Jobs
<1>6. Executions /\ Pages
  BY IdleFacts DEF Init, Executions, Pages
<1>7. QED  BY <1>3, <1>4, <1>5, <1>6 DEF TypeInv

(* Who has a job, and how often it was begun. *)
LEMMA OwnBegins ==
  ASSUME TypeInv, OwnInv, NEW w \in Workers, NEW s \in StageNames, Begins(w, s)
  PROVE  OwnInv'
<1>1. /\ \A u \in StageNames \ {s} : job'[u] = job[u]
      /\ job'[s].state = "running" /\ job'[s].by = w /\ job'[s].tries = job[s].tries + 1 /\ job[s].tries \in Nat
  BY DEF Begins, TypeInv, Jobs
<1>2. exec'[w].stage = s /\ \A v \in Workers \ {w} : exec'[v] = exec[v]
  BY StartedFacts DEF Begins, TypeInv, Executions
<1>3. w # None  BY NamesAssumption
<1>4. job[s].by = None /\ faults' = faults /\ (s # "collect" => job[Before(s)].state = "succeeded")
      /\ exec[w].stage = None /\ job[s].state = "pending"
  BY DEF Begins, OwnInv
<1>5. \A u \in StageNames : u # "collect" => Before(u) \in StageNames  BY StageNamesAre DEF Before
<1>6. ASSUME NEW u \in StageNames
      PROVE  /\ job'[u].state = "running" <=> job'[u].by # None
             /\ job'[u].by # None => exec'[job'[u].by].stage = u
             /\ job'[u].state \in {"running", "succeeded"} => job'[u].tries > 0
             /\ u # "collect" /\ job'[u].tries > 0 => job'[Before(u)].state = "succeeded"
  <2>1. /\ job[u].state = "running" <=> job[u].by # None
        /\ job[u].by # None => exec[job[u].by].stage = u
        /\ job[u].state \in {"running", "succeeded"} => job[u].tries > 0
        /\ u # "collect" /\ job[u].tries > 0 => job[Before(u)].state = "succeeded"
    BY DEF OwnInv
  <2>2. job[u].by # None => job[u].by \in Workers \ {w}
    BY <1>4, <2>1, StageNamesAre DEF TypeInv, Jobs
  <2>3. u # "collect" /\ job[Before(u)].state = "succeeded" => job'[Before(u)].state = "succeeded"
    BY <1>1, <1>4, <1>5
  <2>4. QED  BY <1>1, <1>2, <1>3, <1>4, <2>1, <2>2, <2>3
<1>7. ASSUME NEW v \in Workers, exec'[v].stage # None
      PROVE  /\ job'[exec'[v].stage].tries > 0
             /\ faults'.expiries = 0 => job'[exec'[v].stage].by = v
             /\ job'[exec'[v].stage].tries <= 1 => job'[exec'[v].stage].state # "succeeded"
  <2>1. CASE v = w  BY <1>1, <1>2, <2>1
  <2>2. CASE v # w
    <3>1. exec'[v] = exec[v] /\ exec[v].stage \in StageNames
      BY <1>2, <1>7, <2>2 DEF TypeInv, Executions, ExecutionOK
    <3>2. /\ job[exec[v].stage].tries > 0
          /\ faults.expiries = 0 => job[exec[v].stage].by = v
          /\ job[exec[v].stage].tries <= 1 => job[exec[v].stage].state # "succeeded"
      BY <1>7, <3>1 DEF OwnInv, Owns
    <3>3. v # None  BY NamesAssumption
    <3>4. QED  BY <1>1, <1>4, <3>1, <3>2, <3>3
  <2>3. QED  BY <2>1, <2>2
<1>8. ASSUME NEW v \in Workers, NEW u \in Workers, exec'[u].stage # None, exec'[v].stage = exec'[u].stage,
             job'[exec'[u].stage].tries <= 1
      PROVE  u = v
  <2>1. ASSUME NEW x \in Workers \ {w} PROVE exec'[x].stage # s \/ job'[s].tries > 1
    BY <1>1, <1>2, StageNamesAre DEF OwnInv
  <2>2. CASE u = w \/ v = w  BY <1>1, <1>2, <1>8, <2>1, <2>2
  <2>3. CASE u # w /\ v # w
    <3>1. exec'[u] = exec[u] /\ exec'[v] = exec[v] /\ exec[u].stage \in StageNames
      BY <1>2, <1>8, <2>3 DEF TypeInv, Executions, ExecutionOK
    <3>2. job[exec[u].stage].tries <= 1  BY <1>1, <1>8, <3>1 
    <3>3. QED  BY <1>8, <3>1, <3>2 DEF OwnInv
  <2>4. QED  BY <2>2, <2>3
<1>9. QED  BY <1>6, <1>7, <1>8 DEF OwnInv, Owns

(* A step inside a stage leaves the jobs alone. *)
LEMMA OwnGoesOn ==
  ASSUME TypeInv, TypeInv', OwnInv, NEW w \in Workers, GoesOn(w)
  PROVE  OwnInv'
<1>1. \A v \in Workers : exec'[v].stage = exec[v].stage  BY DEF GoesOn, TypeInv, Executions
<1>2. job' = job /\ faults' = faults  BY DEF GoesOn
<1>3. \A s \in StageNames : job[s].by # None => job[s].by \in Workers  BY DEF TypeInv, Jobs
<1>4. \A s \in StageNames : s # "collect" => Before(s) \in StageNames  BY StageNamesAre DEF Before
<1>5. \A s \in StageNames :
       /\ job'[s].state = "running" <=> job'[s].by # None
       /\ job'[s].by # None => exec'[job'[s].by].stage = s
       /\ job'[s].state \in {"running", "succeeded"} => job'[s].tries > 0
       /\ s # "collect" /\ job'[s].tries > 0 => job'[Before(s)].state = "succeeded"
  BY <1>1, <1>2, <1>3 DEF OwnInv
<1>6. \A v \in Workers : exec'[v].stage # None =>
       /\ job'[exec'[v].stage].tries > 0
       /\ faults'.expiries = 0 => job'[exec'[v].stage].by = v
       /\ job'[exec'[v].stage].tries <= 1 => job'[exec'[v].stage].state # "succeeded"
  BY <1>1, <1>2 DEF OwnInv, Owns
<1>7. \A v, u \in Workers :
       exec'[u].stage # None /\ exec'[v].stage = exec'[u].stage /\ job'[exec'[u].stage].tries <= 1 => v = u
  BY <1>1, <1>2 DEF OwnInv
<1>8. QED  BY <1>5, <1>6, <1>7 DEF OwnInv, Owns

(* What the others see of an execution's end. *)
LEMMA EndsFacts ==
  ASSUME TypeInv, OwnInv, NEW w \in Workers, Ends(w)
  PROVE  /\ exec[w].stage \in StageNames /\ exec'[w] = Idle /\ \A v \in Workers \ {w} : exec'[v] = exec[v]
         /\ faults'.expiries = faults.expiries
         /\ \A s \in StageNames :
              /\ job'[s].tries = job[s].tries
              /\ job[s].by = w => /\ s = exec[w].stage /\ job[s].state = "running" /\ job'[s].by = None
                                  /\ job'[s].state \in {"pending", "succeeded", "dead"}
              /\ job[s].by # w => job'[s] = job[s]
<1>1. w # None  BY NamesAssumption
<1>2. exec[w].stage \in StageNames /\ exec'[w] = Idle /\ \A v \in Workers \ {w} : exec'[v] = exec[v]
  BY DEF Ends, TypeInv, Executions
<1>3. \A s \in StageNames : job[s].by = w => s = exec[w].stage /\ job[s].state = "running"
  BY <1>1 DEF OwnInv
<1>4. PICK j \in Jobs :
        /\ j.by = None /\ j.tries = job[exec[w].stage].tries /\ j.state \in {"pending", "succeeded", "dead"}
        /\ job' = IF Owns(w) THEN [job EXCEPT ![exec[w].stage] = j] ELSE job
  BY DEF Ends, Reported
<1>5. CASE Owns(w)
  <2>1. /\ job'[exec[w].stage] = j /\ \A s \in StageNames \ {exec[w].stage} : job'[s] = job[s]
        /\ job[exec[w].stage].by = w
    BY <1>2, <1>4, <1>5 DEF TypeInv, Owns
  <2>2. QED  BY <1>2, <1>3, <1>4, <2>1 DEF Ends
<1>6. CASE ~Owns(w)  BY <1>2, <1>3, <1>4, <1>6 DEF Ends, Owns
<1>7. QED  BY <1>5, <1>6

(* The report of the owner frees the job, any other is refused. *)
LEMMA OwnEnds ==
  ASSUME TypeInv, OwnInv, NEW w \in Workers, Ends(w)
  PROVE  OwnInv'
<1>1. /\ exec[w].stage \in StageNames /\ exec'[w] = Idle /\ \A v \in Workers \ {w} : exec'[v] = exec[v]
      /\ faults'.expiries = faults.expiries
      /\ \A s \in StageNames :
           /\ job'[s].tries = job[s].tries
           /\ job[s].by = w => /\ s = exec[w].stage /\ job[s].state = "running" /\ job'[s].by = None
                               /\ job'[s].state \in {"pending", "succeeded", "dead"}
           /\ job[s].by # w => job'[s] = job[s]
  BY EndsFacts
<1>2. \A s \in StageNames : s # "collect" => Before(s) \in StageNames  BY StageNamesAre DEF Before
<1>3. \A s \in StageNames : job[s].by # None => job[s].by \in Workers  BY DEF TypeInv, Jobs
<1>4. exec'[w].stage = None /\ w # None  BY <1>1, IdleFacts, NamesAssumption
<1>5. ASSUME NEW s \in StageNames
      PROVE  /\ job'[s].state = "running" <=> job'[s].by # None
             /\ job'[s].by # None => exec'[job'[s].by].stage = s
             /\ job'[s].state \in {"running", "succeeded"} => job'[s].tries > 0
             /\ s # "collect" /\ job'[s].tries > 0 => job'[Before(s)].state = "succeeded"
  <2>1. /\ job[s].state = "running" <=> job[s].by # None
        /\ job[s].by # None => exec[job[s].by].stage = s
        /\ job[s].state \in {"running", "succeeded"} => job[s].tries > 0
        /\ s # "collect" /\ job[s].tries > 0 => job[Before(s)].state = "succeeded"
    BY DEF OwnInv
  <2>2. s # "collect" /\ job[Before(s)].state = "succeeded" => job'[Before(s)].state = "succeeded"
    BY <1>1, <1>2
  <2>3. CASE job[s].by = w  BY <1>1, <2>1, <2>2, <2>3
  <2>4. CASE job[s].by # w  BY <1>1, <1>3, <2>1, <2>2, <2>4
  <2>5. QED  BY <2>3, <2>4
<1>6. ASSUME NEW v \in Workers, exec'[v].stage # None
      PROVE  /\ v # w /\ exec'[v] = exec[v] /\ exec[v].stage \in StageNames
             /\ job'[exec'[v].stage].tries > 0
             /\ faults'.expiries = 0 => job'[exec'[v].stage].by = v
             /\ job'[exec'[v].stage].tries <= 1 => job'[exec'[v].stage].state # "succeeded"
  <2>1. v # w /\ exec'[v] = exec[v] /\ exec[v].stage \in StageNames
    BY <1>1, <1>4, <1>6 DEF TypeInv, Executions, ExecutionOK
  <2>2. /\ job[exec[v].stage].tries > 0
        /\ faults.expiries = 0 => job[exec[v].stage].by = v
        /\ job[exec[v].stage].tries <= 1 => job[exec[v].stage].state # "succeeded"
    BY <1>6, <2>1 DEF OwnInv, Owns
  <2>3. job[exec[v].stage].tries <= 1 => exec[w].stage # exec[v].stage
    BY <1>6, <2>1 DEF OwnInv
  <2>4. QED  BY <1>1, <2>1, <2>2, <2>3
<1>7. ASSUME NEW v \in Workers, NEW u \in Workers, exec'[u].stage # None, exec'[v].stage = exec'[u].stage,
             job'[exec'[u].stage].tries <= 1
      PROVE  v = u
  <2>1. exec'[v] = exec[v] /\ exec'[u] = exec[u] /\ exec[u].stage \in StageNames  BY <1>6, <1>7
  <2>2. QED  BY <1>1, <1>7, <2>1 DEF OwnInv
<1>8. QED  BY <1>5, <1>6, <1>7 DEF OwnInv, Owns

(* A lost lease frees the job; from now on the stage may have two executions. *)
LEMMA OwnExpires ==
  ASSUME TypeInv, OwnInv, NEW s \in StageNames, Expires(s)
  PROVE  OwnInv'
<1>1. /\ \A u \in StageNames \ {s} : job'[u] = job[u]
      /\ job'[s].by = None /\ job'[s].tries = job[s].tries /\ job'[s].state \in {"pending", "dead"}
      /\ job[s].state = "running" /\ exec' = exec /\ faults'.expiries # 0
  <2>1. job[s] \in Jobs /\ faults.expiries \in Nat  BY DEF TypeInv, Counts
  <2>2. faults'.expiries # 0  BY <2>1 DEF Expires
  <2>3. QED  BY <2>1, <2>2, RetriedFacts DEF Expires, TypeInv
<1>2. \A u \in StageNames : u # "collect" => Before(u) \in StageNames  BY StageNamesAre DEF Before
<1>3. ASSUME NEW u \in StageNames
      PROVE  /\ job'[u].state = "running" <=> job'[u].by # None
             /\ job'[u].by # None => exec'[job'[u].by].stage = u
             /\ job'[u].state \in {"running", "succeeded"} => job'[u].tries > 0
             /\ u # "collect" /\ job'[u].tries > 0 => job'[Before(u)].state = "succeeded"
  <2>1. u # "collect" /\ job[Before(u)].state = "succeeded" => job'[Before(u)].state = "succeeded"
    BY <1>1, <1>2
  <2>2. QED  BY <1>1, <2>1 DEF OwnInv
<1>4. \A v \in Workers : exec'[v].stage # None =>
       /\ job'[exec'[v].stage].tries > 0
       /\ job'[exec'[v].stage].tries <= 1 => job'[exec'[v].stage].state # "succeeded"
  <2> TAKE v \in Workers
  <2> HAVE exec'[v].stage # None
  <2>1. exec'[v] = exec[v] /\ exec[v].stage \in StageNames  BY <1>1 DEF TypeInv, Executions, ExecutionOK
  <2>2. QED  BY <1>1, <2>1 DEF OwnInv
<1>5. ASSUME NEW v \in Workers, NEW u \in Workers, exec'[u].stage # None, exec'[v].stage = exec'[u].stage,
             job'[exec'[u].stage].tries <= 1
      PROVE  v = u
  <2>1. exec' = exec /\ exec[u].stage \in StageNames  BY <1>1, <1>5 DEF TypeInv, Executions, ExecutionOK
  <2>2. QED  BY <1>1, <1>5, <2>1 DEF OwnInv
<1>6. QED  BY <1>1, <1>3, <1>4, <1>5 DEF OwnInv, Owns

(* Nothing of this changes otherwise. *)
LEMMA OwnStays ==
  ASSUME TypeInv, OwnInv, UNCHANGED <<job, exec, faults>>
  PROVE  OwnInv'
BY DEF OwnInv, Owns

(* At first no job is owned and no stage begun. *)
LEMMA InitOwn == Init => OwnInv
BY IdleFacts, StageNamesAre DEF Init, OwnInv

(* Types and ownership are kept by every step. *)
LEMMA CoreStep ==
  ASSUME TypeInv, OwnInv, [Next]_vars
  PROVE  TypeInv' /\ OwnInv'
<1>1. ASSUME NEW w \in Workers, NEW s \in StageNames, start(w, s) PROVE TypeInv' /\ OwnInv'
  BY <1>1, StartTyped, OwnBegins
<1>2. ASSUME NEW w \in Workers, Work(w) PROVE TypeInv' /\ OwnInv'
  BY <1>2, WorkTyped, OwnGoesOn, OwnEnds DEF TypedStep
<1>3. ASSUME NEW w \in Workers, crash(w) PROVE TypeInv' /\ OwnInv'
  BY <1>3, CrashTyped, OwnEnds
<1>4. ASSUME NEW s \in StageNames, expire(s) PROVE TypeInv' /\ OwnInv'
  BY <1>4, ExpireTyped, OwnExpires
<1>5. CASE midnight  BY <1>5, MidnightTyped, OwnStays
<1>6. CASE UNCHANGED vars  BY <1>6, StayTyped, OwnStays
<1>7. QED  BY <1>1, <1>2, <1>3, <1>4, <1>5, <1>6 DEF Next

(* Every reachable state has the types, whatever the feeds, the companies known
   before, the workers and the bounds are. *)
THEOREM TypesHold == Spec => [](TypeInv /\ OwnInv)
<1>1. Init => TypeInv /\ OwnInv  BY InitTyped, InitOwn
<1>2. TypeInv /\ OwnInv /\ [Next]_vars => (TypeInv /\ OwnInv)'  BY CoreStep
<1>3. QED  BY <1>1, <1>2, PTL DEF Spec

-----------------------------------------------------------------------------
(* Done rows are stored. *)

(* What is known of a company but the verdict on it. *)
SameRow(c) ==
  /\ company'[c].key = company[c].key /\ company'[c].scans = company[c].scans
  /\ company'[c].track = company[c].track /\ company'[c].fingerprint = company[c].fingerprint
  /\ company'[c].name = company[c].name /\ company'[c].status = company[c].status
  /\ company'[c].industry = company[c].industry /\ company'[c].size = company[c].size

(* A step that stores no candidate. *)
Keeps ==
  /\ feed' = feed /\ Ids' = Ids /\ \A c \in Ids : SameRow(c)
  /\ sites \subseteq sites'
  /\ \A i \in DOMAIN feed : /\ raw'[i] = "done" <=> raw[i] = "done"
                            /\ raw[i] # "absent" => raw'[i] # "absent"

(* Steps that write no table store no candidate, *)
LEMMA SameTablesKeep == UNCHANGED <<feed, raw, company, sites>> => Keeps
BY DEF Keeps, SameRow, Ids

(* and of those that write one only the transaction of normalize does. *)
LEMMA WorkKeeps ==
  ASSUME TypeInv, NEW w \in Workers, Work(w)
  PROVE  Keeps \/ (normalize_write(w) /\ Stores(w))
<1>1. CASE flush(w)
  <2>1. UNCHANGED <<feed, company, sites>>  BY <1>1 DEF flush
  <2>2. \A i \in DOMAIN feed : (raw'[i] = "done" <=> raw[i] = "done") /\ (raw[i] # "absent" => raw'[i] # "absent")
    BY <1>1 DEF flush, TypeInv, Rows
  <2>3. QED  BY <2>1, <2>2 DEF Keeps, SameRow, Ids
<1>2. CASE \/ normalize_page(w) \/ normalize_look(w) \/ exclude_page(w) \/ discover_page(w) \/ discover_reserve(w)
           \/ local_search(w) \/ discover_reserve_web(w) \/ web_search(w)
  <2>1. UNCHANGED <<feed, raw, company, sites>>
    BY <1>2 DEF normalize_page, normalize_look, exclude_page, discover_page, discover_reserve, local_search,
                discover_reserve_web, web_search, Reserve, tables
  <2>2. QED  BY <2>1, SameTablesKeep
<1>3. CASE normalize_write(w)
  <2>1. UNCHANGED feed /\ (UNCHANGED <<raw, company, sites>> \/ Stores(w))  BY <1>3, NormalizeWriteDoes
  <2>2. QED  BY <1>3, <2>1, SameTablesKeep
<1>4. CASE exclude_row(w)  BY <1>4, ExcludeRowDoes DEF Keeps, SameRow
<1>5. CASE insert_site(w)
  <2>1. UNCHANGED <<feed, raw, company>> /\ sites \subseteq sites'  BY <1>5 DEF insert_site
  <2>2. QED  BY <2>1 DEF Keeps, SameRow, Ids
<1>6. QED  BY <1>1, <1>2, <1>3, <1>4, <1>5 DEF Work
(* The candidate's company, new or known, and its site. *)
StoredAt(i, id) ==
  LET key == buildDedupeKey(feed[i])  url == canonicalizeUrl(feed[i].homepageUrl) IN
  /\ Ids' = Ids \cup {id} /\ \A d \in Ids \ {id} : company'[d] = company[d]
  /\ company'[id].key = key /\ company'[id].track # None
  /\ company'[id].fingerprint = contentFingerprint(feed[i])
  /\ id \in Ids => /\ company[id].key = key /\ company'[id].scans = company[id].scans + 1
                   /\ company'[id].excluded = company[id].excluded
  /\ id \notin Ids => /\ \A d \in Ids : company[d].key # key
                      /\ company'[id].scans = 1
  /\ sites \subseteq sites'
  /\ \A s \in sites' \ sites : s.company = id /\ s.seen = "never"
  /\ url # None => \E s \in sites' : s.company = id /\ s.url = url

(* What that transaction stores: company, observation, scan, site and mark. *)
LEMMA StoresFacts ==
  ASSUME TypeInv, NEW w \in Workers, normalize_write(w), Stores(w)
  PROVE  /\ exec[w].stage = "normalize" /\ Item(w) \in exec[w].page /\ Item(w).id \in DOMAIN feed
         /\ UNCHANGED <<feed, quota, missed, faults, job>> /\ Go(w, Turned(w))
         /\ \A j \in DOMAIN feed : raw'[j] = IF j = Item(w).id THEN "done" ELSE raw[j]
         /\ \E id : StoredAt(Item(w).id, id)
<1> DEFINE i == Item(w).id  c == feed[i]
           found == Find(buildDedupeKey(c))
           id == IF found = 0 THEN Len(company) + 1 ELSE found
           url == canonicalizeUrl(c.homepageUrl)
<1>1. /\ exec[w].stage = "normalize" /\ exec[w].adopted # None /\ Item(w) \in exec[w].page
      /\ i \in DOMAIN feed /\ UNCHANGED <<feed, quota, missed, faults>>
  BY NormalizeWriteDoes
<1>2. /\ company' = IF found = 0 THEN Append(company, NewRow(c))
                    ELSE [company EXCEPT ![id] = Merged(company[id], c, exec[w].adopted)]
      /\ sites' = IF url = None \/ (\E s \in sites : s.company = id /\ s.url = url)
                  THEN sites ELSE sites \cup {Site(id, url, None)}
      /\ raw' = [raw EXCEPT ![i] = "done"]
      /\ Go(w, Turned(w))
      /\ UNCHANGED job
  BY DEF Stores
<1>3. \A j \in DOMAIN feed : raw'[j] = IF j = i THEN "done" ELSE raw[j]  BY <1>2 DEF TypeInv, Rows
<1>4. company \in Seq(ToSet(company)) /\ Len(company) \in Nat /\ Ids = 1 .. Len(company)
      /\ company' \in Seq(ToSet(company')) /\ Ids' = 1 .. Len(company')
  <2>1. TypeInv'  BY WorkTyped DEF Work, TypedStep
  <2>2. QED  BY <2>1, ListOfSeq DEF TypeInv, Rows, Ids
<1>5. /\ sites \subseteq sites'
      /\ \A s \in sites' \ sites : s.company = id /\ s.seen = "never"
      /\ url # None => \E s \in sites' : s.company = id /\ s.url = url
  <2> HIDE DEF id, url
  <2>1. Site(id, url, None).company = id /\ Site(id, url, None).seen = "never" /\ Site(id, url, None).url = url
    BY DEF Site
  <2>2. QED  BY <1>2, <2>1
<1>6. /\ Ids' = Ids \cup {id} /\ \A d \in Ids \ {id} : company'[d] = company[d]
      /\ company'[id].key = buildDedupeKey(c) /\ company'[id].track # None
      /\ company'[id].fingerprint = contentFingerprint(c)
      /\ id \in Ids => /\ company[id].key = buildDedupeKey(c) /\ company'[id].scans = company[id].scans + 1
                       /\ company'[id].excluded = company[id].excluded
      /\ id \notin Ids => /\ \A d \in Ids : company[d].key # buildDedupeKey(c)
                          /\ company'[id].scans = 1
  <2>1. CASE found = 0
    <3>1. company' = Append(company, NewRow(c)) /\ id = Len(company) + 1  BY <1>2, <2>1
    <3>2. /\ Len(company') = Len(company) + 1
          /\ \A d \in 1 .. Len(company) : company'[d] = company[d]
          /\ company'[Len(company) + 1] = NewRow(c)
      BY <1>4, <3>1, Appended
    <3>3. Ids' = Ids \cup {id} /\ id \notin Ids  BY <1>4, <3>1, <3>2
    <3>4. NewRow(c).key = buildDedupeKey(c) /\ NewRow(c).scans = 1 /\ NewRow(c).track = "new"
          /\ NewRow(c).fingerprint = contentFingerprint(c)
      BY NewRowFacts
    <3>5. \A d \in Ids : company[d].key # buildDedupeKey(c)  BY <2>1, FindFacts DEF TypeInv
    <3>6. None # "new"  BY NamesAssumption
    <3> HIDE DEF c, id, found
    <3>7. QED  BY <1>4, <3>1, <3>2, <3>3, <3>4, <3>5, <3>6
  <2>2. CASE found # 0
    <3>1. found \in Ids /\ company[found].key = buildDedupeKey(c) /\ id = found
      BY <2>2, FindFacts DEF TypeInv
    <3> DEFINE m == Merged(company[found], c, exec[w].adopted)
    <3>2. company' = [company EXCEPT ![found] = m]  BY <1>2, <2>2
    <3>3. DOMAIN company[found] = Columns /\ company[found].scans \in Nat  BY <3>1 DEF TypeInv, Rows
    <3>4. m.key = company[found].key /\ m.scans = company[found].scans + 1 /\ m.track = exec[w].adopted
          /\ m.fingerprint = contentFingerprint(c) /\ m.excluded = company[found].excluded
      BY <3>3, MergedFacts
    <3> HIDE DEF m, found, id, c
    <3>5. DOMAIN company = Ids /\ DOMAIN company' = Ids  BY <1>4, <3>2
    <3>6. /\ company'[found] = m /\ \A d \in Ids \ {found} : company'[d] = company[d]
      BY <3>1, <3>2, <3>5
    <3>7. Ids' = Ids  BY <1>4, <3>5
    <3>8. QED  BY <1>1, <3>1, <3>4, <3>6, <3>7
  <2>3. QED  BY <2>1, <2>2
<1>7. StoredAt(i, id)
  <2> HIDE DEF id
  <2>1. QED  BY <1>5, <1>6 DEF StoredAt
<1>8. QED
  <2> HIDE DEF id
  <2>1. QED  BY <1>1, <1>2, <1>3, <1>7

(* The rows whose company c is. *)
DoneOf(key) == {j \in DOMAIN feed : buildDedupeKey(feed[j]) = key /\ raw[j] = "done"}

StoredAs(i, c) ==
  LET key == buildDedupeKey(feed[i])  url == canonicalizeUrl(feed[i].homepageUrl) IN
  /\ c \in Ids /\ company[c].key = key /\ Observed(c)
  /\ company[c].scans >= Cardinality(DoneOf(key))
  /\ \E j \in DOMAIN feed : buildDedupeKey(feed[j]) = key /\ company[c].fingerprint = contentFingerprint(feed[j])
  /\ url # None => \E s \in sites : s.company = c /\ s.url = url

StoredInv == \A i \in DOMAIN feed : raw[i] = "done" => \E c : StoredAs(i, c)

(* The candidates done with a key are finitely many. *)
LEMMA DoneOfFinite == TypeInv => \A key : IsFiniteSet(DoneOf(key)) /\ Cardinality(DoneOf(key)) \in Nat
<1> SUFFICES ASSUME TypeInv, NEW key PROVE IsFiniteSet(DoneOf(key)) /\ Cardinality(DoneOf(key)) \in Nat  OBVIOUS
<1>1. DOMAIN feed = 1 .. Len(feed) /\ Len(feed) \in Nat  BY ListOfSeq DEF TypeInv, Rows
<1>2. IsFiniteSet(1 .. Len(feed))  BY <1>1, FS_Interval
<1>3. DoneOf(key) \in SUBSET (1 .. Len(feed))  BY <1>1 DEF DoneOf
<1>4. QED  BY <1>2, <1>3, FS_Subset, FS_CardinalityType

(* What is stored stays so. *)
LEMMA StoredKept ==
  ASSUME StoredInv, Keeps
  PROVE  StoredInv'
<1>1. \A key : DoneOf(key)' = DoneOf(key)  BY DEF Keeps, DoneOf
<1>2. ASSUME NEW i \in DOMAIN feed, raw'[i] = "done" PROVE \E c : StoredAs(i, c)'
  <2>1. PICK c : StoredAs(i, c)  BY <1>2 DEF StoredInv, Keeps
  <2>2. StoredAs(i, c)'
    <3>1. SameRow(c) /\ c \in Ids' /\ feed' = feed /\ sites \subseteq sites'  BY <2>1 DEF Keeps, StoredAs
    <3>2. QED  BY <1>1, <2>1, <3>1 DEF StoredAs, Observed, SameRow
  <2>3. QED  BY <2>2
<1>3. QED  BY <1>2 DEF StoredInv, Keeps

(* One more done row: its company has been scanned once more. *)
LEMMA StoredGrows ==
  ASSUME TypeInv, TypeInv', StoredInv, feed' = feed, NEW i \in DOMAIN feed, NEW id, StoredAt(i, id),
         \A j \in DOMAIN feed : raw'[j] = IF j = i THEN "done" ELSE raw[j]
  PROVE  StoredInv'
<1> DEFINE key == buildDedupeKey(feed[i])
<1>1. /\ Ids' = Ids \cup {id} /\ \A d \in Ids \ {id} : company'[d] = company[d]
      /\ company'[id].key = key /\ company'[id].track # None
      /\ company'[id].fingerprint = contentFingerprint(feed[i])
      /\ id \in Ids => /\ company[id].key = key /\ company'[id].scans = company[id].scans + 1
      /\ id \notin Ids => (\A d \in Ids : company[d].key # key) /\ company'[id].scans = 1
      /\ sites \subseteq sites'
  BY DEF StoredAt
<1>2. DoneOf(key)' = DoneOf(key) \cup {i}  BY DEF DoneOf
<1>3. \A k : k # key => DoneOf(k)' = DoneOf(k)  BY DEF DoneOf
<1>4. company'[id].scans >= Cardinality(DoneOf(key)')
  <2>1. IsFiniteSet(DoneOf(key)) /\ Cardinality(DoneOf(key)) \in Nat  BY DoneOfFinite
  <2>2. Cardinality(DoneOf(key)') <= Cardinality(DoneOf(key)) + 1 /\ Cardinality(DoneOf(key)') \in Nat
    <3> DEFINE D == DoneOf(key)
    <3>1. IsFiniteSet(D) /\ Cardinality(D) \in Nat /\ DoneOf(key)' = D \cup {i}  BY <1>2, <2>1
    <3> HIDE DEF D
    <3>2. Cardinality(D \cup {i}) = IF i \in D THEN Cardinality(D) ELSE Cardinality(D) + 1  BY <3>1, FS_AddElement
    <3>3. Cardinality(D \cup {i}) <= Cardinality(D) + 1 /\ Cardinality(D \cup {i}) \in Nat  BY <3>1, <3>2
    <3>4. QED  BY <3>1, <3>3 DEF D
  <2>3. ASSUME DoneOf(key) # {}
        PROVE  id \in Ids /\ company[id].scans >= Cardinality(DoneOf(key))
    <3>1. PICK j \in DOMAIN feed : buildDedupeKey(feed[j]) = key /\ raw[j] = "done"  BY <2>3 DEF DoneOf
    <3>2. PICK c : StoredAs(j, c)  BY <3>1 DEF StoredInv
    <3>3. c \in Ids /\ company[c].key = key /\ company[c].scans >= Cardinality(DoneOf(key))
      BY <3>1, <3>2 DEF StoredAs
    <3>4. id \in Ids  BY <1>1, <3>3
    <3>5. c = id  BY <1>1, <3>3, <3>4 DEF TypeInv, Rows
    <3>6. QED  BY <3>3, <3>4, <3>5
  <2>4. id \in Ids => company[id].scans \in Nat  BY DEF TypeInv, Rows
  <2>5. DoneOf(key) = {} => Cardinality(DoneOf(key)) = 0  BY FS_EmptySet
  <2> HIDE DEF key
  <2>6. CASE id \in Ids
    <3>1. company[id].scans >= Cardinality(DoneOf(key))  BY <2>1, <2>3, <2>4, <2>5, <2>6
    <3>2. QED  BY <1>1, <2>1, <2>2, <2>4, <2>6, <3>1
  <2>7. CASE id \notin Ids
    <3>1. Cardinality(DoneOf(key)) = 0  BY <2>3, <2>5, <2>7
    <3>2. QED  BY <1>1, <2>2, <2>7, <3>1
  <2>8. QED  BY <2>6, <2>7
<1>5. StoredAs(i, id)'
  <2>1. canonicalizeUrl(feed[i].homepageUrl) # None =>
          \E s \in sites' : s.company = id /\ s.url = canonicalizeUrl(feed[i].homepageUrl)
    BY DEF StoredAt
  <2>2. QED  BY <1>1, <1>4, <2>1 DEF StoredAs, Observed
<1>6. ASSUME NEW j \in DOMAIN feed, j # i, raw[j] = "done" PROVE \E c : StoredAs(j, c)'
  <2>1. PICK c : StoredAs(j, c)  BY <1>6 DEF StoredInv
  <2> DEFINE k == buildDedupeKey(feed[j])  url == canonicalizeUrl(feed[j].homepageUrl)
  <2>2. /\ c \in Ids /\ company[c].key = k /\ company[c].track # None
        /\ company[c].scans >= Cardinality(DoneOf(k))
        /\ \E l \in DOMAIN feed : buildDedupeKey(feed[l]) = k /\ company[c].fingerprint = contentFingerprint(feed[l])
        /\ url # None => \E s \in sites : s.company = c /\ s.url = url
    BY <2>1 DEF StoredAs, Observed
  <2>3. CASE c = id
    <3>1. k = key  BY <1>1, <2>2, <2>3
    <3>2. url # None => \E s \in sites' : s.company = c /\ s.url = url  BY <1>1, <2>2
    <3>3. \E l \in DOMAIN feed : buildDedupeKey(feed[l]) = k /\ company'[c].fingerprint = contentFingerprint(feed[l])
      BY <1>1, <2>3, <3>1
    <3>4. StoredAs(j, c)'  BY <1>1, <1>4, <2>3, <3>1, <3>2, <3>3 DEF StoredAs, Observed
    <3>5. QED  BY <3>4
  <2>4. CASE c # id
    <3>1. company'[c] = company[c] /\ c \in Ids'  BY <1>1, <2>2, <2>4
    <3>2. k # key
      <4>1. id \in Ids => company[id].key = key /\ (company[c].key = company[id].key => c = id)
        BY <1>1, <2>2 DEF TypeInv, Rows
      <4>2. QED  BY <1>1, <2>2, <2>4, <4>1
    <3>3. DoneOf(k)' = DoneOf(k)  BY <1>3, <3>2
    <3>4. url # None => \E s \in sites' : s.company = c /\ s.url = url  BY <1>1, <2>2
    <3>5. StoredAs(j, c)'  BY <2>2, <3>1, <3>3, <3>4 DEF StoredAs, Observed
    <3>6. QED  BY <3>5
  <2>5. QED  BY <2>3, <2>4
<1>7. QED  BY <1>5, <1>6 DEF StoredInv

(* The invariant says what the property asks for. *)
LEMMA StoredIsStored == TypeInv /\ StoredInv => DoneRowsAreStored
<1> SUFFICES ASSUME TypeInv, StoredInv, NEW i \in DOMAIN feed, raw[i] = "done"
             PROVE  LET key  == buildDedupeKey(feed[i])
                        id   == Find(key)
                        same == {j \in DOMAIN feed : buildDedupeKey(feed[j]) = key}
                        url  == canonicalizeUrl(feed[i].homepageUrl)
                    IN /\ id # 0 /\ Observed(id)
                       /\ company[id].scans >= Cardinality({j \in same : raw[j] = "done"})
                       /\ \E j \in same : company[id].fingerprint = contentFingerprint(feed[j])
                       /\ url # None => \E s \in sites : s.company = id /\ s.url = url
  BY Zenon DEF DoneRowsAreStored
<1> DEFINE key == buildDedupeKey(feed[i])  same == {j \in DOMAIN feed : buildDedupeKey(feed[j]) = key}
<1>1. PICK c : StoredAs(i, c)  BY DEF StoredInv
<1>2. c \in Ids /\ Find(key) = c /\ c # 0
  <2>1. c \in Ids /\ company[c].key = key  BY <1>1 DEF StoredAs
  <2>2. c # 0  BY <2>1, IdsFinite
  <2>3. QED  BY <2>1, <2>2, FindFacts DEF TypeInv
<1>3. {j \in same : raw[j] = "done"} = DoneOf(key)  BY DEF DoneOf
<1>4. \E j \in same : company[c].fingerprint = contentFingerprint(feed[j])  BY <1>1 DEF StoredAs
<1>5. /\ Find(key) # 0 /\ Observed(Find(key))
      /\ company[Find(key)].scans >= Cardinality({j \in same : raw[j] = "done"})
      /\ \E j \in same : company[Find(key)].fingerprint = contentFingerprint(feed[j])
      /\ canonicalizeUrl(feed[i].homepageUrl) # None =>
           \E s \in sites : s.company = Find(key) /\ s.url = canonicalizeUrl(feed[i].homepageUrl)
  <2> HIDE DEF same
  <2>1. QED  BY <1>1, <1>2, <1>3, <1>4 DEF StoredAs
<1>6. QED  BY <1>5, Zenon

(* Every step keeps it. *)
LEMMA StoredStep ==
  ASSUME TypeInv, OwnInv, StoredInv, [Next]_vars
  PROVE  StoredInv'
<1>0. TypeInv'  BY CoreStep
<1>1. ASSUME NEW w \in Workers, Work(w) PROVE StoredInv'
  <2>1. CASE Keeps  BY <2>1, StoredKept
  <2>2. CASE normalize_write(w) /\ Stores(w)
    <3>1. /\ Item(w).id \in DOMAIN feed /\ feed' = feed
          /\ \A j \in DOMAIN feed : raw'[j] = IF j = Item(w).id THEN "done" ELSE raw[j]
      BY <2>2, StoresFacts
    <3>2. PICK id : StoredAt(Item(w).id, id)  BY <2>2, StoresFacts
    <3>3. QED  BY <1>0, <3>1, <3>2, StoredGrows
  <2>3. QED  BY <1>1, <2>1, <2>2, WorkKeeps
<1>2. ASSUME \/ \E w \in Workers, s \in StageNames : start(w, s)
             \/ \E w \in Workers : crash(w)
             \/ \E s \in StageNames : expire(s)
             \/ midnight \/ UNCHANGED vars
      PROVE  Keeps
  BY <1>2, SameTablesKeep DEF start, crash, expire, midnight, vars, tables
<1>3. QED  BY <1>1, <1>2, StoredKept DEF Next

(* It holds in every reachable state. *)
LEMMA StoredAlways == Spec => []StoredInv
<1>1. Init => StoredInv  BY DEF Init, StoredInv
<1>2. TypeInv /\ OwnInv /\ StoredInv /\ [Next]_vars => StoredInv'  BY StoredStep
<1>3. QED  BY <1>1, <1>2, TypesHold, PTL DEF Spec

(* A candidate marked as normalized has left its company, its observation, its
   scan and its site, whatever the workers, the feeds and the faults are: the
   mark is set in the transaction that writes the rest (normalizeStage). *)
THEOREM DoneRowsStored == Spec => []DoneRowsAreStored
<1>1. TypeInv /\ StoredInv => DoneRowsAreStored  BY StoredIsStored
<1>2. QED  BY <1>1, TypesHold, StoredAlways, PTL

-----------------------------------------------------------------------------
(* Collecting and normalizing. *)

(* A candidate that was taken in, or refused, stays so. *)
LEMMA SettledStays ==
  ASSUME feed' = feed, NEW i \in DOMAIN feed, Settled(i), raw[i] # "absent" => raw'[i] # "absent"
  PROVE  Settled(i)'
BY DEF Settled, Present

(* What flush does besides the types. *)
LEMMA FlushSettles ==
  ASSUME TypeInv, NEW w \in Workers, flush(w), FeedInv
  PROVE  /\ exec[w].stage = "collect" /\ feed' = feed
         /\ \A i \in DOMAIN feed : Settled(i) => Settled(i)' /\ raw'[i] = raw[i]
         /\ \A i \in DOMAIN feed : raw'[i] # raw[i] => raw[i] = "absent" /\ raw'[i] = "pending"
         /\ \/ /\ exec[w].offset >= Len(feed) /\ Finish(w)
            \/ /\ Go(w, [exec[w] EXCEPT !.offset = exec[w].offset + Batch]) /\ job' = job
               /\ \A i \in DOMAIN feed : i <= exec[w].offset + Batch => Settled(i)'
<1>1. exec[w].stage = "collect" /\ feed' = feed /\ exec[w].offset \in Nat
  BY DEF flush, At, TypeInv, Executions, ExecutionOK
<1>2. DOMAIN feed = 1 .. Len(feed) /\ Len(feed) \in Nat /\ DOMAIN raw = DOMAIN feed
  BY ListOfSeq DEF TypeInv, Rows
<1>3. \A i \in DOMAIN feed : /\ Settled(i) => raw'[i] = raw[i]
                             /\ raw'[i] # raw[i] => raw[i] = "absent" /\ raw'[i] = "pending"
  BY <1>2 DEF flush, Settled
<1>4. \A i \in DOMAIN feed : Settled(i) => Settled(i)'  BY <1>1, <1>3, SettledStays
<1>5. CASE exec[w].offset < Len(feed)
  <2>1. Go(w, [exec[w] EXCEPT !.offset = exec[w].offset + Batch]) /\ job' = job  BY <1>5 DEF flush
  <2>2. ASSUME NEW i \in DOMAIN feed, i <= exec[w].offset + Batch PROVE Settled(i)'
    <3>1. CASE i <= exec[w].offset
      <4>1. Settled(i)  BY <1>1, <3>1 DEF FeedInv, Collecting
      <4>2. QED  BY <1>4, <4>1
    <3>2. CASE ~(i <= exec[w].offset)
      <4>1. i \in exec[w].offset + 1 .. exec[w].offset + Batch
        BY <1>1, <1>2, <2>2, <3>2, BoundsAssumption
      <4>2. raw'[i] = IF raw[i] = "absent" /\ feed[i].valid /\ ~Present(i) THEN "pending" ELSE raw[i]
        BY <1>2, <1>5, <4>1 DEF flush
      <4>3. QED  BY <1>1, <4>2 DEF Settled, Present
    <3>3. QED  BY <3>1, <3>2
  <2>3. QED  BY <1>1, <1>3, <1>4, <2>1, <2>2
<1>6. CASE ~(exec[w].offset < Len(feed))
  <2>1. Finish(w) /\ exec[w].offset >= Len(feed)  BY <1>1, <1>2, <1>6 DEF flush
  <2>2. QED  BY <1>1, <1>3, <1>4, <2>1
<1>7. QED  BY <1>5, <1>6
(* A step that brings in no candidate, and ends neither stage too early. *)
FeedGoesOn ==
  /\ feed' = feed
  /\ \A i \in DOMAIN feed : /\ raw[i] # "absent" => raw'[i] # "absent"
                            /\ raw'[i] = "pending" => raw[i] = "pending"
  /\ \A v \in Workers :
       /\ exec'[v].stage = "collect" => (Collecting(v) /\ exec'[v].offset = exec[v].offset) \/ exec'[v].offset = 0
       /\ exec'[v].stage = "normalize" => \/ Normalizing(v) /\ exec'[v].page \subseteq exec[v].page
                                          \/ \A r \in exec'[v].page : raw[r.id] # "absent"
  /\ job'["collect"].state = "succeeded" => job["collect"].state = "succeeded"
  /\ job'["normalize"].state = "succeeded" =>
       job["normalize"].state = "succeeded" \/ \A i \in DOMAIN feed : raw'[i] # "pending"

(* Steps that take in no candidate and fetch none. *)
LEMMA FeedKept ==
  ASSUME TypeInv, TypeInv', FeedInv, FeedGoesOn
  PROVE  FeedInv'
<1>1. \A i \in DOMAIN feed : Settled(i) => Settled(i)'  BY SettledStays DEF FeedGoesOn
<1>2. \A i \in DOMAIN feed : i \in Nat /\ ~(i <= 0)
  <2>1. DOMAIN feed = 1 .. Len(feed) /\ Len(feed) \in Nat  BY ListOfSeq DEF TypeInv, Rows
  <2>2. QED  BY <2>1
<1>3. ASSUME NEW v \in Workers, exec'[v].stage = "collect", NEW i \in DOMAIN feed, i <= exec'[v].offset
      PROVE  Settled(i)'
  BY <1>1, <1>2, <1>3 DEF FeedGoesOn, FeedInv, Collecting
<1>4. ASSUME NEW v \in Workers, exec'[v].stage = "normalize", NEW r \in exec'[v].page
      PROVE  raw'[r.id] # "absent"
  <2>1. raw[r.id] # "absent"  BY <1>4 DEF FeedGoesOn, FeedInv
  <2>2. r.id \in DOMAIN feed  BY <1>4 DEF TypeInv, Pages, Normalizing, FeedGoesOn
  <2>3. QED  BY <2>1, <2>2 DEF FeedGoesOn
<1>5. job'["collect"].state = "succeeded" => \A i \in DOMAIN feed : Settled(i)'
  BY <1>1 DEF FeedGoesOn, FeedInv
<1>6. job'["normalize"].state = "succeeded" => \A i \in DOMAIN feed : raw'[i] # "pending"
  BY DEF FeedGoesOn, FeedInv
<1>7. QED  BY <1>3, <1>4, <1>5, <1>6 DEF FeedInv, Collecting, Normalizing, FeedGoesOn

(* A batch is settled before the offset passes it. *)
LEMMA FeedFlush ==
  ASSUME TypeInv, TypeInv', OwnInv, FeedInv, NEW w \in Workers, flush(w)
  PROVE  FeedInv'
<1>1. /\ exec[w].stage = "collect" /\ feed' = feed
      /\ \A i \in DOMAIN feed : Settled(i) => Settled(i)' /\ raw'[i] = raw[i]
      /\ \A i \in DOMAIN feed : raw'[i] # raw[i] => raw[i] = "absent" /\ raw'[i] = "pending"
      /\ \/ /\ exec[w].offset >= Len(feed) /\ Finish(w)
         \/ /\ Go(w, [exec[w] EXCEPT !.offset = exec[w].offset + Batch]) /\ job' = job
            /\ \A i \in DOMAIN feed : i <= exec[w].offset + Batch => Settled(i)'
  BY FlushSettles
<1>2. DOMAIN feed = 1 .. Len(feed) /\ Len(feed) \in Nat  BY ListOfSeq DEF TypeInv, Rows
<1>3. \A v \in Workers \ {w} : exec'[v] = exec[v]  BY <1>1 DEF Finish, Go, TypeInv, Executions
<1>4. exec'[w].stage = "collect" => \A i \in DOMAIN feed : i <= exec'[w].offset => Settled(i)'
  <2>1. CASE Finish(w)
    <3>1. exec'[w] = Idle  BY <2>1 DEF Finish, TypeInv, Executions
    <3>2. QED  BY <3>1, IdleFacts, StageNamesAre
  <2>2. CASE /\ Go(w, [exec[w] EXCEPT !.offset = exec[w].offset + Batch])
             /\ \A i \in DOMAIN feed : i <= exec[w].offset + Batch => Settled(i)'
    <3>1. exec'[w].offset = exec[w].offset + Batch
      BY <2>2 DEF Go, TypeInv, Executions, ExecutionOK, Fields
    <3>2. QED  BY <2>2, <3>1
  <2>3. QED  BY <1>1, <2>1, <2>2
<1>5. \A v \in Workers : exec'[v].stage = "normalize" => v # w
  <2>1. CASE Finish(w)
    <3>1. exec'[w] = Idle  BY <2>1 DEF Finish, TypeInv, Executions
    <3>2. QED  BY <3>1, IdleFacts, StageNamesAre
  <2>2. CASE Go(w, [exec[w] EXCEPT !.offset = exec[w].offset + Batch])
    <3>1. exec'[w].stage = exec[w].stage  BY <2>2 DEF Go, TypeInv, Executions, ExecutionOK, Fields
    <3>2. QED  BY <1>1, <3>1
  <2>3. QED  BY <1>1, <2>1, <2>2
<1>6. /\ job'["collect"].state = "succeeded" => job["collect"].state = "succeeded" \/ exec[w].offset >= Len(feed)
      /\ job'["normalize"].state = "succeeded" => job["normalize"].state = "succeeded"
  <2>1. CASE Finish(w)
    <3>1. exec[w].stage \in StageNames /\ job \in [StageNames -> Jobs]  BY <1>1, StageNamesAre DEF TypeInv
    <3>2. \A s \in StageNames : job'[s].state # job[s].state => s = exec[w].stage
      BY <2>1, <3>1, FinishFacts
    <3>3. job'["normalize"].state = job["normalize"].state  BY <1>1, <3>2, StageNamesAre
    <3>4. job'["collect"].state = "succeeded" => job["collect"].state = "succeeded" \/ exec[w].offset >= Len(feed)
      <4>1. exec[w].offset >= Len(feed) \/ job' = job  BY <1>1
      <4>2. QED  BY <4>1
    <3>5. QED  BY <3>3, <3>4
  <2>2. CASE job' = job  BY <2>2
  <2>3. QED  BY <1>1, <2>1, <2>2
<1>7. ASSUME NEW v \in Workers, exec'[v].stage = "collect", NEW i \in DOMAIN feed, i <= exec'[v].offset
      PROVE  Settled(i)'
  <2>1. CASE v = w  BY <1>4, <1>7, <2>1
  <2>2. CASE v # w
    <3>1. Settled(i)  BY <1>3, <1>7, <2>2 DEF FeedInv, Collecting
    <3>2. QED  BY <1>1, <3>1
  <2>3. QED  BY <2>1, <2>2
<1>8. job'["collect"].state = "succeeded" => \A i \in DOMAIN feed : Settled(i)'
  <2>1. CASE job["collect"].state = "succeeded"  BY <1>1, <2>1 DEF FeedInv
  <2>2. CASE exec[w].offset >= Len(feed)
    <3>1. exec[w].offset \in Nat  BY DEF TypeInv, Executions, ExecutionOK
    <3>2. \A i \in DOMAIN feed : Settled(i)  BY <1>1, <1>2, <2>2, <3>1 DEF FeedInv, Collecting
    <3>3. QED  BY <1>1, <3>2
  <2>3. QED  BY <1>6, <2>1, <2>2
<1>9. job'["normalize"].state = "succeeded" => \A i \in DOMAIN feed : raw'[i] # "pending"
  <2> HAVE job'["normalize"].state = "succeeded"
  <2>1. job["normalize"].state = "succeeded"  BY <1>6
  <2>2. job["collect"].state = "succeeded"
    BY <2>1, StageNamesAre DEF OwnInv, Before
  <2>3. \A i \in DOMAIN feed : raw[i] # "pending" /\ Settled(i)  BY <2>1, <2>2 DEF FeedInv
  <2>4. QED  BY <1>1, <2>3
<1>10. ASSUME NEW v \in Workers, exec'[v].stage = "normalize", NEW r \in exec'[v].page
       PROVE  raw'[r.id] # "absent"
  <2>1. v # w /\ exec'[v] = exec[v]  BY <1>3, <1>5, <1>10
  <2>2. raw[r.id] # "absent" /\ r.id \in DOMAIN feed
    BY <1>10, <2>1 DEF FeedInv, Normalizing, TypeInv, Pages
  <2>3. QED  BY <1>1, <2>2
<1>11. QED  BY <1>1, <1>7, <1>8, <1>9, <1>10 DEF FeedInv, Collecting, Normalizing

(* Every step keeps FeedInv. *)
LEMMA FeedStep ==
  ASSUME TypeInv, OwnInv, FeedInv, [Next]_vars
  PROVE  FeedInv'
<1>0. TypeInv' /\ OwnInv'  BY CoreStep
<1>1. DOMAIN feed = DOMAIN raw /\ feed' = feed
  <2>1. feed' = feed
    BY DEF Next, Work, start, crash, expire, midnight, flush, normalize_page, normalize_look, normalize_write,
           exclude_page, exclude_row, discover_page, discover_reserve, local_search, discover_reserve_web,
           web_search, insert_site, Reserve, vars
  <2>2. QED  BY <2>1 DEF TypeInv, Rows
<1>2. ASSUME NEW w \in Workers, NEW s \in StageNames, start(w, s) PROVE FeedGoesOn
  <2>1. Begins(w, s) /\ raw' = raw  BY <1>2, StartTyped DEF start, tables
  <2>2. /\ \A v \in Workers \ {w} : exec'[v] = exec[v]
        /\ exec'[w].offset = 0 /\ exec'[w].page = {}
    BY <2>1, StartedFacts DEF Begins, TypeInv, Executions
  <2>3. \A u \in StageNames : job'[u].state = "succeeded" => job[u].state = "succeeded"
    BY <2>1 DEF Begins, TypeInv
  <2>4. \A v \in Workers :
          /\ exec'[v].stage = "collect" => (Collecting(v) /\ exec'[v].offset = exec[v].offset) \/ exec'[v].offset = 0
          /\ exec'[v].stage = "normalize" => \/ Normalizing(v) /\ exec'[v].page \subseteq exec[v].page
                                             \/ \A r \in exec'[v].page : raw[r.id] # "absent"
    <3> TAKE v \in Workers
    <3>1. CASE v = w  BY <2>2, <3>1
    <3>2. CASE v # w  BY <2>2, <3>2 DEF Collecting, Normalizing
    <3>3. QED  BY <3>1, <3>2
  <2>5. QED  BY <1>1, <2>1, <2>3, <2>4, StageNamesAre DEF FeedGoesOn
<1>3. ASSUME NEW s \in StageNames, expire(s) PROVE FeedGoesOn
  <2>1. Expires(s) /\ raw' = raw  BY <1>3, ExpireTyped DEF expire, tables
  <2>2. job[s] \in Jobs  BY DEF TypeInv
  <2>3. \A u \in StageNames : job'[u].state = "succeeded" => job[u].state = "succeeded"
    BY <2>1, <2>2, RetriedFacts DEF Expires, TypeInv
  <2>4. exec' = exec  BY <2>1 DEF Expires
  <2>5. QED  BY <1>1, <2>1, <2>3, <2>4, StageNamesAre DEF FeedGoesOn, Collecting, Normalizing
<1>4. ASSUME midnight \/ UNCHANGED vars PROVE FeedGoesOn
  <2>1. UNCHANGED <<raw, exec, job>>  BY <1>4 DEF midnight, vars, tables
  <2>2. QED  BY <1>1, <2>1 DEF FeedGoesOn, Collecting, Normalizing
<1>5. ASSUME NEW w \in Workers, Ends(w), UNCHANGED raw,
             \/ \A s \in StageNames : job'[s].state = "succeeded" => job[s].state = "succeeded"
             \/ exec[w].stage \notin {"collect", "normalize"}
             \/ exec[w].stage = "normalize" /\ \A i \in DOMAIN feed : raw[i] # "pending"
      PROVE  FeedGoesOn
  <2>1. /\ exec[w].stage \in StageNames /\ exec'[w] = Idle /\ \A v \in Workers \ {w} : exec'[v] = exec[v]
        /\ \A s \in StageNames : /\ job[s].by = w => s = exec[w].stage
                                 /\ job[s].by # w => job'[s] = job[s]
    BY <1>5, EndsFacts
  <2>2. \A v \in Workers : /\ exec'[v].stage = "collect" => Collecting(v) /\ exec'[v].offset = exec[v].offset
                           /\ exec'[v].stage = "normalize" => Normalizing(v) /\ exec'[v].page \subseteq exec[v].page
    BY <2>1, IdleFacts, StageNamesAre DEF Collecting, Normalizing
  <2>3. /\ job'["collect"].state = "succeeded" => job["collect"].state = "succeeded"
        /\ job'["normalize"].state = "succeeded" =>
             job["normalize"].state = "succeeded" \/ \A i \in DOMAIN feed : raw'[i] # "pending"
    BY <1>5, <2>1, StageNamesAre
  <2>4. QED  BY <1>1, <1>5, <2>2, <2>3 DEF FeedGoesOn
<1>6. ASSUME NEW w \in Workers, GoesOn(w),
             \A i \in DOMAIN feed : (raw[i] # "absent" => raw'[i] # "absent") /\ (raw'[i] = "pending" => raw[i] = "pending"),
             \/ exec[w].stage \notin {"collect", "normalize"}
             \/ exec[w].stage = "normalize" /\ (exec'[w].page \subseteq exec[w].page \/ \A r \in exec'[w].page : raw[r.id] # "absent")
      PROVE  FeedGoesOn
  <2>1. /\ \A v \in Workers \ {w} : exec'[v] = exec[v]
        /\ exec'[w].stage = exec[w].stage /\ job' = job
    BY <1>6 DEF GoesOn, TypeInv, Executions
  <2>2. \A v \in Workers : exec'[v].stage = "collect" => Collecting(v) /\ exec'[v].offset = exec[v].offset
    BY <1>6, <2>1 DEF Collecting
  <2>3. \A v \in Workers : exec'[v].stage = "normalize" =>
          \/ Normalizing(v) /\ exec'[v].page \subseteq exec[v].page
          \/ \A r \in exec'[v].page : raw[r.id] # "absent"
    BY <1>6, <2>1 DEF Normalizing
  <2>4. QED  BY <1>1, <1>6, <2>1, <2>2, <2>3 DEF FeedGoesOn
<1>7. ASSUME NEW w \in Workers, crash(w) PROVE FeedGoesOn
  <2>1. Ends(w) /\ raw' = raw /\ Fail(w) /\ exec[w].stage \in StageNames /\ job \in [StageNames -> Jobs]
    BY <1>7, CrashTyped DEF crash, tables, Ends, TypeInv
  <2>2. \A s \in StageNames : job'[s].state = "succeeded" => job[s].state = "succeeded"  BY <2>1, FailFacts
  <2>3. QED  BY <1>5, <2>1, <2>2
<1>8. ASSUME NEW w \in Workers, normalize_page(w) PROVE FeedGoesOn
  <2> DEFINE S == {i \in DOMAIN raw : raw[i] = "pending"}  page == Page(S, feed, 0)
  <2>1. exec[w].stage = "normalize" /\ raw' = raw /\ (GoesOn(w) \/ Ends(w))
    BY <1>8, NormalizePageTyped DEF TypedStep, normalize_page, At, tables
  <2>2. S \in SUBSET Nat /\ IsFiniteSet(S)
    <3>1. DOMAIN raw = 1 .. Len(feed) /\ Len(feed) \in Nat  BY <1>1, ListOfSeq DEF TypeInv, Rows
    <3>2. IsFiniteSet(1 .. Len(feed)) /\ 1 .. Len(feed) \in SUBSET Nat /\ S \in SUBSET (1 .. Len(feed))
      BY <3>1, FS_Interval
    <3> HIDE DEF S
    <3>3. QED  BY <3>2, FS_Subset
  <2>3. /\ \A r \in page : r.id \in S
        /\ page = {} => \A x \in S : Place(S, x) >= 1 /\ Place(S, x) <= 0 /\ Place(S, x) \in Nat
    <3> HIDE DEF S
    <3>1. \A x \in S : Place(S, x) >= 1 /\ Place(S, x) \in Nat  BY <2>2, PlaceFacts
    <3>2. QED  BY <2>2, <3>1, PageFacts
  <2>4. page = {} => \A i \in DOMAIN feed : raw[i] # "pending"
    <3>1. \A n \in Nat : ~(n >= 1 /\ n <= 0)  OBVIOUS
    <3>2. page = {} => S = {}  BY <2>3, <3>1
    <3>3. QED  BY <1>1, <3>2
  <2>5. CASE page = {} /\ Finish(w)
    <3>1. exec'[w] = Idle  BY <2>5 DEF Finish, TypeInv, Executions
    <3>2. Ends(w)  BY <2>1, <3>1, IdleFacts, StageNamesAre DEF GoesOn
    <3>3. QED  BY <1>5, <2>1, <2>4, <2>5, <3>2
  <2>6. CASE Go(w, [exec[w] EXCEPT !.page = page])
    <3>1. exec'[w].page = page /\ exec'[w].stage = exec[w].stage
      BY <2>6 DEF Go, TypeInv, Executions, ExecutionOK, Fields
    <3>2. GoesOn(w)
      <4>1. CASE Ends(w)
        <5>1. exec'[w] = Idle  BY <4>1, EndsFacts
        <5>2. QED  BY <2>1, <3>1, <5>1, IdleFacts, StageNamesAre
      <4>2. QED  BY <2>1, <4>1
    <3>3. \A r \in exec'[w].page : raw[r.id] # "absent"  BY <2>3, <3>1
    <3>4. QED  BY <1>6, <2>1, <3>2, <3>3
  <2>7. QED  BY <1>8, <2>5, <2>6 DEF normalize_page
<1>9. ASSUME NEW w \in Workers, normalize_look(w) PROVE FeedGoesOn
  <2>1. exec[w].stage = "normalize" /\ raw' = raw /\ (GoesOn(w) \/ Ends(w))
    BY <1>9, NormalizeLookTyped DEF TypedStep, normalize_look, At, tables
  <2>2. exec'[w].stage = exec[w].stage /\ exec'[w].page = exec[w].page
    BY <1>9 DEF normalize_look, Go, TypeInv, Executions, ExecutionOK, Fields
  <2>3. ~Ends(w)  BY <2>1, <2>2, EndsFacts, IdleFacts, StageNamesAre
  <2>4. QED  BY <1>6, <2>1, <2>2, <2>3
<1>10. ASSUME NEW w \in Workers, normalize_write(w) PROVE FeedGoesOn
  <2>1. exec[w].stage = "normalize" /\ exec[w].page # {} /\ ExecutionOK(exec[w]) /\ (GoesOn(w) \/ Ends(w))
        /\ exec[w].stage \in StageNames
    BY <1>10, NormalizeWriteTyped, StageNamesAre DEF TypedStep, normalize_write, At, TypeInv, Executions, ExecutionOK
  <2>2. CASE Fail(w) /\ UNCHANGED <<raw, company, sites>>
    <3>1. \A s \in StageNames : job'[s].state = "succeeded" => job[s].state = "succeeded"
      BY <2>1, <2>2, FailFacts DEF TypeInv
    <3>2. exec'[w] = Idle  BY <2>2 DEF Fail, TypeInv, Executions
    <3>3. Ends(w)  BY <2>1, <3>2, IdleFacts, StageNamesAre DEF GoesOn
    <3>4. QED  BY <1>5, <2>2, <3>1, <3>3
  <2>3. CASE Stores(w)
    <3>1. Go(w, Turned(w)) /\ \A j \in DOMAIN feed : raw'[j] = IF j = Item(w).id THEN "done" ELSE raw[j]
      BY <1>10, <2>3, StoresFacts
    <3>2. exec'[w] = Turned(w)  BY <3>1 DEF Go, TypeInv, Executions
    <3>3. exec'[w].stage = exec[w].stage /\ exec'[w].page \subseteq exec[w].page  BY <2>1, <3>2, TurnedFacts
    <3>4. ~Ends(w)  BY <2>1, <3>3, EndsFacts, IdleFacts, StageNamesAre
    <3>5. QED  BY <1>6, <2>1, <3>1, <3>3, <3>4
  <2>4. QED  BY <1>10, <2>2, <2>3, NormalizeWriteDoes
<1>11. ASSUME NEW w \in Workers,
              \/ exclude_page(w) \/ exclude_row(w) \/ discover_page(w) \/ discover_reserve(w) \/ local_search(w)
              \/ discover_reserve_web(w) \/ web_search(w) \/ insert_site(w)
       PROVE  FeedGoesOn
  <2>1. exec[w].stage \in {"exclude_basic", "homepage_discover"} /\ raw' = raw
    BY <1>11 DEF exclude_page, exclude_row, discover_page, discover_reserve, local_search, discover_reserve_web,
                 web_search, insert_site, At, Reserve, tables
  <2>2. GoesOn(w) \/ Ends(w)  BY <1>11, WorkTyped DEF TypedStep, Work
  <2>3. QED  BY <1>5, <1>6, <2>1, <2>2
<1>12. CASE \E w \in Workers : flush(w)  BY <1>0, <1>12, FeedFlush
<1>13. QED
  BY <1>0, <1>2, <1>3, <1>4, <1>7, <1>8, <1>9, <1>10, <1>11, <1>12, FeedKept DEF Next, Work

(* When collect has succeeded every valid candidate is in, once; when normalize
   has, none waits any more; what a normalizer works on is in the table, however
   many collectors and normalizers have lost their leases (collectStage,
   normalizeStage). *)
THEOREM FeedIsTakenIn == Spec => []FeedInv
<1>1. Init => FeedInv
  <2> SUFFICES ASSUME Init PROVE FeedInv  OBVIOUS
  <2>1. \A w \in Workers : exec[w] = Idle  BY DEF Init
  <2>2. \A s \in StageNames : job[s].state = "pending"  BY DEF Init
  <2>3. QED  BY <2>1, <2>2, IdleFacts, StageNamesAre DEF FeedInv, Collecting, Normalizing
<1>2. TypeInv /\ OwnInv /\ FeedInv /\ [Next]_vars => FeedInv'  BY FeedStep
<1>3. QED  BY <1>1, <1>2, TypesHold, PTL DEF Spec

-----------------------------------------------------------------------------
(* The quota. *)

(* One entry more, under the cap. *)
LEMMA BookFacts ==
  ASSUME TypeInv, PaidInv, NEW key, Granted(key), Book(key)
  PROVE  /\ \A d \in 0 .. MaxDay : UsedOn(d)' <= Cap
         /\ \A e, f \in ledger' : e.key = f.key => e = f
         /\ Booked(key)' /\ \A k : Booked(k) => Booked(k)'
<1>1. CASE Booked(key)
  <2>1. ledger' = ledger  BY <1>1 DEF Book
  <2>2. QED  BY <1>1, <2>1 DEF PaidInv, UsedOn, Booked
<1>2. CASE ~Booked(key)
  <2> DEFINE e == [key |-> key, day |-> day]
  <2>1. ledger' = ledger \cup {e} /\ e.key = key /\ e.day = day  BY <1>2 DEF Book
  <2>2. UsedOn(day) + 1 <= Cap /\ day \in 0 .. MaxDay /\ Cap \in Nat
    BY <1>2, BoundsAssumption DEF Granted, TypeInv, Counts
  <2>3. \A d : IsFiniteSet({x \in ledger : x.day = d}) /\ Cardinality({x \in ledger : x.day = d}) \in Nat
    BY FS_Subset, FS_CardinalityType DEF TypeInv, Counts
  <2> HIDE DEF e
  <2>4. ASSUME NEW d \in 0 .. MaxDay PROVE UsedOn(d)' <= Cap
    <3> DEFINE D == {x \in ledger : x.day = d}
    <3>1. UsedOn(d)' = Cardinality({x \in ledger' : x.day = d})  BY DEF UsedOn
    <3>2. CASE d = day
      <4>1. {x \in ledger' : x.day = d} = D \cup {e}  BY <2>1, <3>2
      <4>2. IsFiniteSet(D) /\ Cardinality(D) \in Nat /\ Cardinality(D) + 1 <= Cap
        BY <2>2, <2>3, <3>2 DEF UsedOn
      <4> HIDE DEF D
      <4>3. Cardinality(D \cup {e}) = IF e \in D THEN Cardinality(D) ELSE Cardinality(D) + 1  BY <4>2, FS_AddElement
      <4>4. Cardinality(D \cup {e}) <= Cap  BY <2>2, <4>2, <4>3
      <4>5. QED  BY <3>1, <4>1, <4>4
    <3>3. CASE d # day
      <4>1. {x \in ledger' : x.day = d} = D  BY <2>1, <3>3
      <4>2. Cardinality(D) <= Cap  BY DEF PaidInv, UsedOn
      <4>3. QED  BY <3>1, <4>1, <4>2
    <3>4. QED  BY <3>2, <3>3
  <2>5. \A x, y \in ledger' : x.key = y.key => x = y  BY <1>2, <2>1 DEF PaidInv, Booked
  <2>6. Booked(key)' /\ \A k : Booked(k) => Booked(k)'  BY <2>1 DEF Booked
  <2>7. QED  BY <2>4, <2>5, <2>6
<1>3. QED  BY <1>1, <1>2

(* A step that books nothing and calls nobody. *)
PaidGoesOn ==
  /\ ledger' = ledger /\ asked' = asked
  /\ \A v \in Workers : exec'[v].stage = "homepage_discover" /\ exec'[v].pc \in {"local", "web"} => exec'[v] = exec[v]

(* Such a step keeps PaidInv. *)
LEMMA PaidKept ==
  ASSUME PaidInv, PaidGoesOn
  PROVE  PaidInv'
<1>1. /\ \A d \in 0 .. MaxDay : UsedOn(d)' <= Cap
      /\ \A e, f \in ledger' : e.key = f.key => e = f
      /\ \A k \in DOMAIN asked' : asked'[k] > 0 => Booked(k)'
  BY DEF PaidInv, PaidGoesOn, UsedOn, Booked
<1>2. ASSUME NEW v \in Workers, exec'[v].stage = "homepage_discover", NEW kind \in {"local", "web"}, exec'[v].pc = kind
      PROVE  Booked(EntryKey(kind, v))'
  <2>1. exec'[v] = exec[v] /\ ledger' = ledger  BY <1>2 DEF PaidGoesOn
  <2>2. Booked(EntryKey(kind, v))  BY <1>2, <2>1 DEF PaidInv, Discovering
  <2>3. EntryKey(kind, v)' = EntryKey(kind, v)  BY <2>1 DEF EntryKey, Item
  <2>4. QED  BY <2>1, <2>2, <2>3 DEF Booked
<1>3. QED  BY <1>1, <1>2 DEF PaidInv, Discovering

(* A discoverer's step leaves the others where they are. *)
LEMMA OthersStay ==
  ASSUME TypeInv, NEW w \in Workers, Work(w)
  PROVE  /\ \A v \in Workers \ {w} : exec'[v] = exec[v]
         /\ exec'[w].stage = exec[w].stage \/ exec'[w] = Idle
<1>1. GoesOn(w) \/ Ends(w)  BY WorkTyped DEF TypedStep
<1>2. QED  BY <1>1 DEF GoesOn, Ends, TypeInv, Executions

(* Every step keeps PaidInv. *)
LEMMA PaidStep ==
  ASSUME TypeInv, OwnInv, PaidInv, [Next]_vars
  PROVE  PaidInv'
<1>0. TypeInv'  BY CoreStep
<1>1. ASSUME NEW w \in Workers, NEW s \in StageNames, start(w, s) PROVE PaidGoesOn
  <2>1. Begins(w, s) /\ ledger' = ledger /\ asked' = asked  BY <1>1, StartTyped DEF start, quota
  <2>2. /\ \A v \in Workers \ {w} : exec'[v] = exec[v]
        /\ exec'[w].pc = "page"
    BY <2>1, StartedFacts DEF Begins, TypeInv, Executions
  <2>3. QED  BY <2>1, <2>2 DEF PaidGoesOn
<1>2. ASSUME (\E s \in StageNames : expire(s)) \/ midnight \/ UNCHANGED vars PROVE PaidGoesOn
  BY <1>2 DEF expire, midnight, vars, quota, PaidGoesOn
<1>3. ASSUME NEW w \in Workers, crash(w) PROVE PaidGoesOn
  <2>1. Ends(w) /\ ledger' = ledger /\ asked' = asked  BY <1>3, CrashTyped DEF crash, quota
  <2>2. exec'[w] = Idle /\ \A v \in Workers \ {w} : exec'[v] = exec[v]
    BY <2>1 DEF Ends, TypeInv, Executions
  <2>3. QED  BY <2>1, <2>2, IdleFacts DEF PaidGoesOn
<1>4. ASSUME NEW w \in Workers,
             \/ flush(w) \/ normalize_page(w) \/ normalize_look(w) \/ normalize_write(w)
             \/ exclude_page(w) \/ exclude_row(w)
      PROVE  PaidGoesOn
  <2>1. exec[w].stage \in {"collect", "normalize", "exclude_basic"} /\ ledger' = ledger /\ asked' = asked
    BY <1>4 DEF flush, normalize_page, normalize_look, normalize_write, exclude_page, exclude_row, At, quota
  <2>2. QED  BY <1>4, <2>1, OthersStay, IdleFacts, StageNamesAre DEF Work, PaidGoesOn
<1>5. ASSUME NEW w \in Workers, discover_page(w) \/ insert_site(w) PROVE PaidGoesOn
  <2>1. Work(w) /\ exec[w].stage = "homepage_discover" /\ ledger' = ledger /\ asked' = asked
        /\ ExecutionOK(exec[w]) /\ (insert_site(w) => exec[w].page # {})
    BY <1>5 DEF Work, discover_page, insert_site, At, quota, TypeInv, Executions, ExecutionOK
  <2>2. exec'[w].pc = "page"
    <3>1. CASE discover_page(w)
      <4>1. exec[w].pc = "page" /\ (Finish(w) \/ Go(w, Fetched(w, Page(Targets, company, exec[w].offset))))
        BY <3>1 DEF discover_page, At
      <4>2. QED  BY <2>1, <4>1, IdleFacts DEF Finish, Go, Fetched, TypeInv, Executions, ExecutionOK, Fields
    <3>2. CASE insert_site(w)
      <4> DEFINE e == [Asked(w) EXCEPT !.finds = @ \cup {Item(w).id}]
      <4>1. Go(w, e)  BY <3>2 DEF insert_site
      <4>2. e.pc = "page"  BY <2>1, <3>2, FoundFacts
      <4> HIDE DEF e
      <4>3. QED  BY <4>1, <4>2 DEF Go, TypeInv, Executions
    <3>3. QED  BY <1>5, <3>1, <3>2
  <2>3. QED  BY <2>1, <2>2, OthersStay DEF PaidGoesOn
<1>6. ASSUME NEW w \in Workers, discover_reserve(w) \/ discover_reserve_web(w) PROVE PaidInv'
  <2>1. asked' = asked /\ Work(w)  BY <1>6, ReserveDoes DEF Work
  <2>2. CASE Finish(w) /\ UNCHANGED ledger
    <3>1. exec'[w] = Idle  BY <2>2 DEF Finish, TypeInv, Executions
    <3>2. PaidGoesOn  BY <2>1, <2>2, <3>1, OthersStay, IdleFacts DEF PaidGoesOn
    <3>3. QED  BY <3>2, PaidKept
  <2>3. ASSUME NEW kind \in {"local", "web"}, Granted(EntryKey(kind, w)), Book(EntryKey(kind, w)),
               Go(w, [exec[w] EXCEPT !.pc = kind])
        PROVE  PaidInv'
    <3>1. /\ \A d \in 0 .. MaxDay : UsedOn(d)' <= Cap
          /\ \A e, f \in ledger' : e.key = f.key => e = f
          /\ Booked(EntryKey(kind, w))' /\ \A k : Booked(k) => Booked(k)'
      <4> DEFINE key == EntryKey(kind, w)
      <4>1. Granted(key) /\ Book(key)  BY <2>3
      <4>2. exec'[w].page = exec[w].page
        BY <2>3 DEF Go, TypeInv, Executions, ExecutionOK, Fields
      <4>3. key' = key  BY <4>2 DEF EntryKey, Item
      <4> HIDE DEF key
      <4>4. /\ \A d \in 0 .. MaxDay : UsedOn(d)' <= Cap
            /\ \A e, f \in ledger' : e.key = f.key => e = f
            /\ (\E e \in ledger' : e.key = key) /\ \A k : Booked(k) => Booked(k)'
        BY <4>1, BookFacts DEF Booked
      <4>5. QED  BY <4>3, <4>4 DEF Booked, key
    <3>2. \A k \in DOMAIN asked' : asked'[k] > 0 => Booked(k)'  BY <2>1, <3>1 DEF PaidInv
    <3>3. exec'[w].pc = kind  BY <2>3 DEF Go, TypeInv, Executions, ExecutionOK, Fields
    <3>4. \A v \in Workers \ {w} : exec'[v] = exec[v]  BY <2>1, OthersStay
    <3>5. ASSUME NEW v \in Workers, exec'[v].stage = "homepage_discover", NEW k \in {"local", "web"}, exec'[v].pc = k
          PROVE  Booked(EntryKey(k, v))'
      <4>1. CASE v = w
        <5>1. k = kind  BY <3>3, <3>5, <4>1
        <5>2. QED  BY <3>1, <4>1, <5>1
      <4>2. CASE v # w
        <5>1. exec'[v] = exec[v]  BY <3>4, <4>2
        <5>2. Booked(EntryKey(k, v))  BY <3>5, <5>1 DEF PaidInv, Discovering
        <5>3. EntryKey(k, v)' = EntryKey(k, v)  BY <5>1 DEF EntryKey, Item
        <5>4. Booked(EntryKey(k, v)) => (\E e \in ledger' : e.key = EntryKey(k, v))  BY <3>1 DEF Booked
        <5>5. QED  BY <5>2, <5>3, <5>4 DEF Booked
      <4>3. QED  BY <4>1, <4>2
    <3>6. QED  BY <3>1, <3>2, <3>5 DEF PaidInv, Discovering
  <2>4. QED  BY <1>6, <2>2, <2>3, ReserveDoes
<1>7. ASSUME NEW w \in Workers, local_search(w) \/ web_search(w) PROVE PaidInv'
  <2>1. /\ exec[w].stage = "homepage_discover" /\ exec[w].page # {} /\ exec[w].pc \in {"local", "web"}
        /\ ledger' = ledger /\ Called(w, exec[w].pc) /\ Work(w) /\ ExecutionOK(exec[w])
    BY <1>7, SearchDoes DEF Work, TypeInv, Executions
  <2>2. exec'[w].pc \notin {"local", "web"}
    <3>1. CASE Go(w, Asked(w))
      <4>1. Asked(w).pc = "page"  BY <2>1, AskedFacts
      <4>2. QED  BY <3>1, <4>1 DEF Go, TypeInv, Executions
    <3>2. ASSUME NEW a, Go(w, Found(w, a)) PROVE exec'[w].pc \notin {"local", "web"}
      <4>1. Found(w, a).pc = "insert"  BY <2>1, AdoptedFacts
      <4>2. QED  BY <3>2, <4>1 DEF Go, TypeInv, Executions
    <3>3. CASE Go(w, [exec[w] EXCEPT !.pc = "reserve_web"])
      BY <2>1, <3>3 DEF Go, TypeInv, Executions, ExecutionOK, Fields
    <3>4. QED  BY <1>7, <3>1, <3>2, <3>3, SearchDoes
  <2>3. Booked(EntryKey(exec[w].pc, w))  BY <2>1 DEF PaidInv, Discovering
  <2>4. \A k \in DOMAIN asked : asked'[k] = IF k = EntryKey(exec[w].pc, w) THEN asked[k] + 1 ELSE asked[k]
    BY <2>1, CalledFacts DEF TypeInv
  <2>5. DOMAIN asked' = DOMAIN asked  BY <2>1, CalledFacts DEF TypeInv
  <2>6. \A k \in DOMAIN asked' : asked'[k] > 0 => Booked(k)'
    BY <2>1, <2>3, <2>4, <2>5 DEF PaidInv, Booked
  <2>7. \A d \in 0 .. MaxDay : UsedOn(d)' <= Cap  BY <2>1 DEF PaidInv, UsedOn
  <2>8. ASSUME NEW v \in Workers, exec'[v].stage = "homepage_discover", NEW k \in {"local", "web"}, exec'[v].pc = k
        PROVE  Booked(EntryKey(k, v))'
    <3>1. exec'[v] = exec[v]  BY <2>1, <2>2, <2>8, OthersStay
    <3>2. Booked(EntryKey(k, v))  BY <2>8, <3>1 DEF PaidInv, Discovering
    <3>3. EntryKey(k, v)' = EntryKey(k, v)  BY <3>1 DEF EntryKey, Item
    <3>4. QED  BY <2>1, <3>2, <3>3 DEF Booked
  <2>9. QED  BY <2>1, <2>6, <2>7, <2>8 DEF PaidInv, Discovering
<1>8. QED
  BY <1>1, <1>2, <1>3, <1>4, <1>5, <1>6, <1>7, PaidKept DEF Next, Work

(* No day's entries exceed the cap, an entry is paid for once, and every call
   was booked before it was made, for every number of workers, candidates,
   crashes, lost leases and midnights (QuotaGuard.reserve, homepageDiscoverStage). *)
THEOREM CallsAreBooked == Spec => []PaidInv
<1>1. Init => PaidInv
  <2> SUFFICES ASSUME Init PROVE PaidInv  OBVIOUS
  <2>1. ledger = {} /\ \A k \in DOMAIN asked : asked[k] = 0  BY DEF Init
  <2>2. \A d : UsedOn(d) = 0
    <3>1. \A d : {e \in ledger : e.day = d} = {}  BY <2>1
    <3>2. QED  BY <3>1, FS_EmptySet DEF UsedOn
  <2>3. Cap \in Nat /\ 0 <= Cap  BY BoundsAssumption
  <2>4. \A w \in Workers : ~Discovering(w)  BY IdleFacts, StageNamesAre DEF Init, Discovering
  <2>5. QED  BY <2>1, <2>2, <2>3, <2>4 DEF PaidInv
<1>2. TypeInv /\ OwnInv /\ PaidInv /\ [Next]_vars => PaidInv'  BY PaidStep
<1>3. QED  BY <1>1, <1>2, TypesHold, PTL DEF Spec

-----------------------------------------------------------------------------
(* The kinds of steps. *)

(* A stage begins, goes on or ends, a lease runs out, or neither jobs nor workers change. *)
LEMMA StepKinds ==
  ASSUME TypeInv, OwnInv, [Next]_vars
  PROVE  \/ \E w \in Workers, s \in StageNames : start(w, s) /\ Begins(w, s)
         \/ \E w \in Workers : Work(w) /\ GoesOn(w)
         \/ \E w \in Workers : (Work(w) \/ crash(w)) /\ Ends(w)
         \/ \E s \in StageNames : expire(s) /\ Expires(s)
         \/ (midnight \/ UNCHANGED vars) /\ UNCHANGED <<job, exec, faults>>
<1>1. ASSUME NEW w \in Workers, NEW s \in StageNames, start(w, s) PROVE Begins(w, s)  BY <1>1, StartTyped
<1>2. ASSUME NEW w \in Workers, Work(w) PROVE GoesOn(w) \/ Ends(w)  BY <1>2, WorkTyped DEF TypedStep
<1>3. ASSUME NEW w \in Workers, crash(w) PROVE Ends(w)  BY <1>3, CrashTyped
<1>4. ASSUME NEW s \in StageNames, expire(s) PROVE Expires(s)  BY <1>4, ExpireTyped
<1>5. midnight \/ UNCHANGED vars => UNCHANGED <<job, exec, faults>>  BY MidnightTyped, StayTyped
<1>6. QED  BY <1>1, <1>2, <1>3, <1>4, <1>5 DEF Next

(* What has succeeded stays so; a stage is entered only while its job waits;
   who loses a job without an expiry has ended; the attempts of a job only grow. *)
LEMMA JobSteps ==
  ASSUME TypeInv, OwnInv, [Next]_vars
  PROVE  /\ \A s \in StageNames : job[s].state = "succeeded" => job'[s].state = "succeeded"
         /\ \A v \in Workers : exec'[v].stage \in StageNames =>
              \/ exec'[v].stage = exec[v].stage
              \/ exec[v].stage = None /\ start(v, exec'[v].stage) /\ Begins(v, exec'[v].stage)
         /\ \A v \in Workers : exec'[v].stage \in StageNames /\ exec'[v].stage = exec[v].stage /\ Owns(v) =>
              \/ job'[exec[v].stage].by = v
              \/ job[exec[v].stage].state = "running" /\ faults'.expiries = faults.expiries + 1
         /\ \A s \in StageNames : job'[s].tries >= job[s].tries
         /\ faults'.expiries \in {faults.expiries, faults.expiries + 1}
<1>0. \A s \in StageNames : job[s].tries \in Nat  BY DEF TypeInv, Jobs
<1>1. ASSUME NEW w \in Workers, NEW s \in StageNames, start(w, s), Begins(w, s)
      PROVE  /\ \A u \in StageNames : job[u].state = "succeeded" => job'[u].state = "succeeded"
             /\ \A v \in Workers : exec'[v].stage \in StageNames =>
                  \/ exec'[v].stage = exec[v].stage
                  \/ exec[v].stage = None /\ start(v, exec'[v].stage) /\ Begins(v, exec'[v].stage)
             /\ \A v \in Workers : exec'[v].stage \in StageNames /\ exec'[v].stage = exec[v].stage /\ Owns(v) =>
                  job'[exec[v].stage].by = v
             /\ \A u \in StageNames : job'[u].tries >= job[u].tries
             /\ faults' = faults
  <2>1. /\ job[s].state = "pending" /\ exec[w].stage = None /\ faults' = faults
        /\ job'[s].tries = job[s].tries + 1 /\ \A u \in StageNames \ {s} : job'[u] = job[u]
        /\ exec'[w].stage = s /\ \A v \in Workers \ {w} : exec'[v] = exec[v]
    BY <1>1, StartedFacts DEF Begins, TypeInv, Executions
  <2>2. job[s].by = None  BY <2>1 DEF OwnInv
  <2>3. ASSUME NEW v \in Workers, exec'[v].stage \in StageNames, exec'[v].stage = exec[v].stage, Owns(v)
        PROVE  job'[exec[v].stage].by = v
    BY <2>1, <2>2, <2>3, NamesAssumption DEF Owns
  <2>4. QED  BY <1>0, <1>1, <2>1, <2>3
<1>2. ASSUME NEW w \in Workers, GoesOn(w)
      PROVE  job' = job /\ faults' = faults /\ \A v \in Workers : exec'[v].stage = exec[v].stage
  BY <1>2 DEF GoesOn, TypeInv, Executions
<1>3. ASSUME NEW w \in Workers, Ends(w)
      PROVE  /\ \A u \in StageNames : job[u].state = "succeeded" => job'[u].state = "succeeded"
             /\ \A v \in Workers : exec'[v].stage \in StageNames => exec'[v].stage = exec[v].stage
             /\ \A v \in Workers : exec'[v].stage \in StageNames /\ Owns(v) => job'[exec[v].stage].by = v
             /\ \A u \in StageNames : job'[u].tries >= job[u].tries
             /\ faults'.expiries = faults.expiries
  <2>1. /\ exec'[w] = Idle /\ \A v \in Workers \ {w} : exec'[v] = exec[v]
        /\ faults'.expiries = faults.expiries
        /\ \A s \in StageNames : /\ job'[s].tries = job[s].tries
                                 /\ job[s].by = w => job[s].state = "running"
                                 /\ job[s].by # w => job'[s] = job[s]
    BY <1>3, EndsFacts
  <2>2. \A v \in Workers : exec'[v].stage \in StageNames => v # w /\ exec'[v] = exec[v]
    BY <2>1, IdleFacts, StageNamesAre
  <2>3. QED  BY <1>0, <2>1, <2>2 DEF Owns
<1>4. ASSUME NEW s \in StageNames, Expires(s)
      PROVE  /\ \A u \in StageNames : job[u].state = "succeeded" => job'[u].state = "succeeded"
             /\ exec' = exec
             /\ \A v \in Workers : exec[v].stage \in StageNames /\ Owns(v) =>
                  job'[exec[v].stage].by = v \/ job[exec[v].stage].state = "running"
             /\ \A u \in StageNames : job'[u].tries >= job[u].tries
             /\ faults'.expiries = faults.expiries + 1
  <2>1. job[s] \in Jobs  BY DEF TypeInv
  <2>2. /\ \A u \in StageNames \ {s} : job'[u] = job[u]
        /\ job'[s].tries = job[s].tries /\ job[s].state = "running" /\ exec' = exec
        /\ faults'.expiries = faults.expiries + 1
    BY <1>4, <2>1, RetriedFacts DEF Expires, TypeInv
  <2>3. QED  BY <1>0, <2>2 DEF Owns
<1>5. CASE UNCHANGED <<job, exec, faults>>  BY <1>0, <1>5 DEF Owns
<1>6. QED
  <2>1. CASE \E w \in Workers, s \in StageNames : start(w, s) /\ Begins(w, s)  BY <1>1, <2>1
  <2>2. CASE \E w \in Workers : GoesOn(w)  BY <1>0, <1>2, <2>2 DEF Owns
  <2>3. CASE \E w \in Workers : Ends(w)  BY <1>3, <2>3
  <2>4. CASE \E s \in StageNames : Expires(s)  BY <1>4, <2>4
  <2>5. QED  BY <1>5, <2>1, <2>2, <2>3, <2>4, StepKinds
-----------------------------------------------------------------------------
(* Exclusion. *)

(* Once normalizing is through and no worker is left at it, none comes back to it. *)
LEMMA QuietStays ==
  ASSUME TypeInv, OwnInv, [Next]_vars, Quiet
  PROVE  Quiet'
<1>1. job'["normalize"].state = "succeeded"  BY JobSteps, StageNamesAre DEF Quiet
<1>2. ASSUME NEW v \in Workers, exec'[v].stage = "normalize" PROVE FALSE
  <2>1. CASE exec'[v].stage = exec[v].stage  BY <1>2, <2>1 DEF Quiet, Normalizing
  <2>2. CASE Begins(v, exec'[v].stage)  BY <1>2, <2>2 DEF Begins, Quiet
  <2>3. QED  BY <1>2, <2>1, <2>2, JobSteps, StageNamesAre
<1>3. QED  BY <1>1, <1>2 DEF Quiet, Normalizing

(* The first expiry that matters is the one of an excluder. *)
LEMMA CalmBefore ==
  ASSUME TypeInv, OwnInv, [Next]_vars, Calm'
  PROVE  Calm
<1>1. faults.expiries \in Nat /\ faults'.expiries \in {faults.expiries, faults.expiries + 1}
  BY JobSteps DEF TypeInv, Counts
<1>2. CASE faults.expiries = 0  BY <1>2 DEF Calm
<1>3. CASE faults.expiries # 0
  <2>1. faults.expiries = 1 /\ faults'.expiries = 1  BY <1>1, <1>3 DEF Calm
  <2>2. PICK w \in Workers : exec'[w].stage = "exclude_basic" /\ job'[exec'[w].stage].by # w
    BY <2>1 DEF Calm, Excluding, Owns
  <2>3. CASE exec'[w].stage = exec[w].stage
    <3>1. ~Owns(w)
      <4>1. ~(faults'.expiries = faults.expiries + 1)  BY <2>1
      <4>2. QED  BY <2>2, <2>3, <4>1, JobSteps, StageNamesAre
    <3>2. QED  BY <2>1, <2>2, <2>3, <3>1 DEF Calm, Excluding
  <2>4. CASE Begins(w, exec'[w].stage)
    <3>1. job'["exclude_basic"].by = w  BY <2>2, <2>4, StageNamesAre DEF Begins, TypeInv
    <3>2. QED  BY <2>2, <3>1
  <2>5. QED  BY <2>2, <2>3, <2>4, JobSteps, StageNamesAre
<1>4. QED  BY <1>2, <1>3

(* A verdict depends on four columns of the row. *)
LEMMA SameJudgement ==
  ASSUME NEW r, NEW q, r.name = q.name, r.status = q.status, r.industry = q.industry, r.size = q.size
  PROVE  Judgement(r) = Judgement(q)
BY DEF Judgement, decideExclusion

(* A step that writes no verdict, fetches no page of verdicts and stores no candidate. *)
ExcludeGoesOn ==
  /\ company' = company /\ Ids' = Ids
  /\ \A v \in Workers : exec'[v].stage = "exclude_basic" =>
       \/ exec'[v] = exec[v]
       \/ exec'[v].offset = 0 /\ exec'[v].page = {} /\ (Calm' => Quiet)
  /\ Calm' /\ job'["exclude_basic"].state = "succeeded" => Quiet /\ AllJudged

(* The observed companies are finitely many. *)
LEMMA ObservedsFinite == TypeInv => Observeds \in SUBSET Nat /\ IsFiniteSet(Observeds)
<1> SUFFICES ASSUME TypeInv PROVE Observeds \in SUBSET Nat /\ IsFiniteSet(Observeds)  OBVIOUS
<1>1. Observeds \subseteq Ids  BY DEF Observeds
<1>2. QED  BY <1>1, IdsFinite, FS_Subset

(* Such a step keeps ExcludeInv. *)
LEMMA ExcludeKept ==
  ASSUME TypeInv, OwnInv, ExcludeInv, [Next]_vars, ExcludeGoesOn
  PROVE  ExcludeInv'
<1>1. company' = company /\ Ids' = Ids /\ Observeds' = Observeds
  BY DEF ExcludeGoesOn, Observeds, Observed
<1>2. \A v \in Workers : exec'[v].stage = "exclude_basic" =>
        \/ exec'[v] = exec[v] /\ Excluding(v)
        \/ exec'[v].offset = 0 /\ exec'[v].page = {} /\ (Calm' => Quiet)
  BY DEF ExcludeGoesOn, Excluding
<1>3. ASSUME NEW v \in Workers, Excluding(v)', NEW r \in exec'[v].page PROVE r.id \in Observeds'
  BY <1>1, <1>2, <1>3 DEF ExcludeInv, Excluding
<1>4. ASSUME Calm', NEW v \in Workers, Excluding(v)' PROVE Quiet' /\ Fresh(v)' /\ JudgedUpto(v)'
  <2>1. CASE exec'[v] = exec[v] /\ Excluding(v)
    <3>1. Quiet /\ Fresh(v) /\ JudgedUpto(v)  BY <1>4, <2>1, CalmBefore DEF ExcludeInv
    <3>2. Fresh(v)'  BY <1>1, <2>1, <3>1 DEF Fresh, Judgement
    <3>3. JudgedUpto(v)'  BY <1>1, <2>1, <3>1 DEF JudgedUpto, PageIds, Judged, Judgement
    <3>4. QED  BY <3>1, <3>2, <3>3, QuietStays
  <2>2. CASE exec'[v].offset = 0 /\ exec'[v].page = {} /\ Quiet
    <3>1. \A c \in Observeds : ~(Place(Observeds, c) <= 0)
      <4>1. \A c \in Observeds : Place(Observeds, c) >= 1 /\ Place(Observeds, c) \in Nat
        BY ObservedsFinite, PlaceFacts
      <4>2. QED  BY <4>1
    <3>2. Fresh(v)' /\ JudgedUpto(v)'  BY <1>1, <2>2, <3>1 DEF Fresh, JudgedUpto
    <3>3. QED  BY <2>2, <3>2, QuietStays
  <2>3. QED  BY <1>2, <1>4, <2>1, <2>2 DEF Excluding
<1>5. Calm' /\ job'["exclude_basic"].state = "succeeded" => Quiet' /\ AllJudged'
  <2>1. AllJudged => AllJudged'  BY <1>1 DEF AllJudged, Judged, Judgement
  <2>2. QED  BY <2>1, QuietStays DEF ExcludeGoesOn
<1>6. QED  BY <1>3, <1>4, <1>5 DEF ExcludeInv

(* A page carries the rows as they are, or the stage ends with all judged. *)
LEMMA ExcludePageStep ==
  ASSUME TypeInv, OwnInv, ExcludeInv, [Next]_vars, NEW w \in Workers, exclude_page(w)
  PROVE  ExcludeInv'
<1> DEFINE page == Page(Observeds, company, exec[w].offset)
<1>1. /\ exec[w].stage = "exclude_basic" /\ exec[w].page = {} /\ exec[w].pc = "page"
      /\ UNCHANGED <<feed, raw, company, sites>> /\ ExecutionOK(exec[w])
  BY DEF exclude_page, At, tables, TypeInv, Executions
<1>2. (page = {} /\ Finish(w)) \/ (Go(w, Fetched(w, page)) /\ job' = job)  BY DEF exclude_page, Observeds
<1>3. Observeds \in SUBSET Nat /\ IsFiniteSet(Observeds) /\ exec[w].offset \in Nat
  BY <1>1, ObservedsFinite DEF ExecutionOK
<1>4. \A c \in Observeds : Place(Observeds, c) \in Nat  BY <1>3, PlaceFacts
<1>5. \A v \in Workers \ {w} : exec'[v] = exec[v]  BY OthersStay DEF Work
<1>6. Ids' = Ids /\ Observeds' = Observeds  BY <1>1 DEF Ids, Observeds, Observed
<1>7. CASE page = {} /\ Finish(w)
  <2>1. \A c \in Observeds : Place(Observeds, c) <= exec[w].offset  BY <1>3, <1>7, PageFacts
  <2>2. exec'[w] = Idle  BY <1>7 DEF Finish, TypeInv, Executions
  <2>3. ASSUME Calm' PROVE Quiet /\ AllJudged
    <3>1. Quiet /\ JudgedUpto(w)  BY <1>1, <2>3, CalmBefore DEF ExcludeInv, Excluding
    <3>2. PageIds(w) = {}  BY <1>1 DEF PageIds
    <3>3. QED  BY <2>1, <3>1, <3>2 DEF JudgedUpto, AllJudged
  <2>4. \A v \in Workers : exec'[v].stage = "exclude_basic" => exec'[v] = exec[v]
    BY <1>5, <2>2, IdleFacts, StageNamesAre
  <2>5. ExcludeGoesOn  BY <1>1, <1>6, <2>3, <2>4 DEF ExcludeGoesOn
  <2>6. QED  BY <2>5, ExcludeKept
<1>8. CASE Go(w, Fetched(w, page)) /\ job' = job
  <2>1. /\ {r.id : r \in page} = OnPage(Observeds, exec[w].offset)
        /\ \A r \in page : r.id \in Observeds /\ r.row = company[r.id]
        /\ PageOK(page)
        /\ Cardinality(page) \in 0 .. Batch
    BY <1>3, PageFacts DEF PageOK
  <2>2. Cardinality(page) \in Nat /\ Cardinality(page) <= Batch  BY <2>1, BoundsAssumption
  <2> HIDE DEF page
  <2>3. /\ exec'[w].stage = "exclude_basic" /\ exec'[w].page = page
        /\ exec'[w].offset = exec[w].offset + Cardinality(page)
    BY <1>1, <1>8, <2>1, FetchedFacts DEF Go, TypeInv, Executions
  <2>4. ASSUME NEW v \in Workers, Excluding(v)', NEW r \in exec'[v].page PROVE r.id \in Observeds'
    <3>1. CASE v = w  BY <1>6, <2>1, <2>3, <2>4, <3>1
    <3>2. CASE v # w  BY <1>5, <1>6, <2>4, <3>2 DEF ExcludeInv, Excluding
    <3>3. QED  BY <3>1, <3>2
  <2>5. ASSUME Calm', NEW v \in Workers, Excluding(v)' PROVE Quiet' /\ Fresh(v)' /\ JudgedUpto(v)'
    <3>1. Excluding(v)  BY <1>1, <1>5, <2>5 DEF Excluding
    <3>2. Quiet /\ Fresh(v) /\ JudgedUpto(v)  BY <2>5, <3>1, CalmBefore DEF ExcludeInv
    <3>3. CASE v = w
      <4>1. Fresh(v)'  BY <1>1, <2>1, <2>3, <3>3 DEF Fresh
      <4>2. ASSUME NEW c \in Observeds, Place(Observeds, c) <= exec[w].offset + Cardinality(page)
            PROVE  c \in {r.id : r \in page} \/ Judged(c)
        <5>1. CASE Place(Observeds, c) <= exec[w].offset
          <6>1. PageIds(w) = {}  BY <1>1 DEF PageIds
          <6>2. QED  BY <3>2, <3>3, <5>1, <6>1 DEF JudgedUpto
        <5>2. CASE ~(Place(Observeds, c) <= exec[w].offset)
          <6>1. Place(Observeds, c) \in exec[w].offset + 1 .. exec[w].offset + Batch
            BY <1>3, <1>4, <2>2, <4>2, <5>2, BoundsAssumption
          <6>2. QED  BY <2>1, <6>1 DEF OnPage
        <5>3. QED  BY <5>1, <5>2
      <4>3. JudgedUpto(v)'
        BY <1>1, <1>6, <2>3, <3>3, <4>2 DEF JudgedUpto, PageIds, Judged, Judgement
      <4>4. QED  BY <3>2, <4>1, <4>3, QuietStays
    <3>4. CASE v # w
      <4>1. exec'[v] = exec[v]  BY <1>5, <3>4
      <4>2. Fresh(v)'  BY <1>1, <3>2, <4>1 DEF Fresh, Judgement
      <4>3. JudgedUpto(v)'  BY <1>1, <1>6, <3>2, <4>1 DEF JudgedUpto, PageIds, Judged, Judgement
      <4>4. QED  BY <3>2, <4>2, <4>3, QuietStays
    <3>5. QED  BY <3>3, <3>4
  <2>6. ASSUME Calm', job'["exclude_basic"].state = "succeeded" PROVE Quiet' /\ AllJudged'
    <3>1. Quiet /\ AllJudged  BY <1>8, <2>6, CalmBefore DEF ExcludeInv
    <3>2. QED  BY <1>1, <1>6, <3>1, QuietStays DEF AllJudged, Judged, Judgement
  <2>7. QED  BY <2>4, <2>5, <2>6 DEF ExcludeInv
<1>9. QED  BY <1>2, <1>7, <1>8

(* A verdict is written on a row that has not changed where it matters. *)
LEMMA ExcludeRowStep ==
  ASSUME TypeInv, OwnInv, ExcludeInv, [Next]_vars, NEW w \in Workers, exclude_row(w)
  PROVE  ExcludeInv'
<1> DEFINE i == Item(w).id
<1>1. /\ exec[w].stage = "exclude_basic" /\ exec[w].page # {}
      /\ Item(w) \in exec[w].page /\ i \in Ids
      /\ UNCHANGED job /\ Go(w, Turned(w)) /\ Ids' = Ids
      /\ \A c \in Ids :
           /\ company'[c].track = company[c].track
           /\ company'[c].name = company[c].name /\ company'[c].status = company[c].status
           /\ company'[c].industry = company[c].industry /\ company'[c].size = company[c].size
           /\ company'[c].excluded = IF c = i THEN Judgement(Item(w).row) ELSE company[c].excluded
  BY ExcludeRowDoes DEF Judgement
<1>2. ExecutionOK(exec[w])  BY DEF TypeInv, Executions
<1>3. Observeds' = Observeds /\ Observeds \subseteq Ids  BY <1>1 DEF Observeds, Observed
<1>4. \A c \in Ids : Judgement(company'[c]) = Judgement(company[c])  BY <1>1, SameJudgement
<1>5. /\ exec'[w].stage = "exclude_basic" /\ exec'[w].page \subseteq exec[w].page
      /\ exec'[w].offset = exec[w].offset /\ PageIds(w)' = PageIds(w) \ {i}
  <2>1. exec'[w] = Turned(w)  BY <1>1 DEF Go, TypeInv, Executions
  <2>2. QED  BY <1>1, <1>2, <2>1, TurnedFacts DEF PageIds
<1>6. \A v \in Workers \ {w} : exec'[v] = exec[v]  BY OthersStay DEF Work
<1>7. ASSUME NEW v \in Workers, Excluding(v)', NEW r \in exec'[v].page PROVE r.id \in Observeds' /\ Excluding(v) /\ r \in exec[v].page
  <2>1. Excluding(v) /\ r \in exec[v].page  BY <1>1, <1>5, <1>6, <1>7 DEF Excluding
  <2>2. QED  BY <1>3, <2>1 DEF ExcludeInv
<1>8. ASSUME Calm' PROVE Quiet /\ Quiet' /\ \A c \in Observeds : (Judged(c) \/ c = i) => Judged(c)'
  <2>1. Quiet /\ Fresh(w)  BY <1>1, <1>8, CalmBefore DEF ExcludeInv, Excluding
  <2>2. Judgement(Item(w).row) = Judgement(company[i])  BY <1>1, <2>1 DEF Fresh
  <2>3. ASSUME NEW c \in Observeds, Judged(c) \/ c = i PROVE Judged(c)'
    <3>1. company'[c].excluded = Judgement(company'[c])
      <4>1. c \in Ids  BY <1>3
      <4>2. CASE c = i  BY <1>1, <1>4, <2>2, <4>1, <4>2
      <4>3. CASE c # i  BY <1>1, <1>4, <2>3, <4>1, <4>3 DEF Judged
      <4>4. QED  BY <4>2, <4>3
    <3>2. QED  BY <3>1 DEF Judged, Judgement
  <2>4. QED  BY <2>1, <2>3, QuietStays
<1>9. ASSUME Calm', NEW v \in Workers, Excluding(v)' PROVE Fresh(v)' /\ JudgedUpto(v)'
  <2>1. Excluding(v)  BY <1>1, <1>6, <1>9 DEF Excluding
  <2>2. Fresh(v) /\ JudgedUpto(v)  BY <1>9, <2>1, CalmBefore DEF ExcludeInv
  <2>3. Fresh(v)'
    <3>1. \A r \in exec'[v].page : Judgement(r.row) = Judgement(company'[r.id])
      <4> TAKE r \in exec'[v].page
      <4>1. r \in exec[v].page /\ r.id \in Ids  BY <1>3, <1>7, <1>9
      <4>2. QED  BY <1>4, <2>2, <4>1 DEF Fresh
    <3>2. QED  BY <3>1 DEF Fresh, Judgement
  <2>4. exec'[v].offset = exec[v].offset /\ \A c \in PageIds(v) : c \in PageIds(v)' \/ c = i
    <3>1. CASE v = w  BY <1>5, <3>1
    <3>2. CASE v # w  BY <1>6, <3>2 DEF PageIds
    <3>3. QED  BY <3>1, <3>2
  <2>5. \A c \in Observeds : Place(Observeds, c) <= exec'[v].offset => c \in PageIds(v)' \/ Judged(c)'
    BY <1>8, <1>9, <2>2, <2>4 DEF JudgedUpto
  <2>6. JudgedUpto(v)'  BY <1>3, <2>5 DEF JudgedUpto
  <2>7. QED  BY <2>3, <2>6
<1>10. ASSUME Calm', job'["exclude_basic"].state = "succeeded" PROVE AllJudged'
  <2>1. AllJudged  BY <1>1, <1>10, CalmBefore DEF ExcludeInv
  <2>2. QED  BY <1>3, <1>8, <1>10, <2>1 DEF AllJudged
<1>11. QED  BY <1>7, <1>8, <1>9, <1>10 DEF ExcludeInv

(* Storing a candidate happens only while nobody excludes, or after the calm. *)
LEMMA ExcludeStores ==
  ASSUME TypeInv, OwnInv, ExcludeInv, [Next]_vars, NEW w \in Workers, normalize_write(w), Stores(w)
  PROVE  ExcludeInv'
<1>1. /\ exec[w].stage = "normalize" /\ job' = job /\ Go(w, Turned(w)) /\ exec[w].page # {}
  BY StoresFacts, NormalizeWriteDoes
<1>2. PICK id : StoredAt(Item(w).id, id)  BY StoresFacts
<1>3. Observeds \subseteq Observeds'
  BY <1>2 DEF StoredAt, Observeds, Observed
<1>4. \A v \in Workers \ {w} : exec'[v] = exec[v]  BY OthersStay DEF Work
<1>5. exec'[w].stage = "normalize"
  <2>1. exec'[w] = Turned(w) /\ ExecutionOK(exec[w])  BY <1>1 DEF Go, TypeInv, Executions
  <2>2. QED  BY <1>1, <2>1, TurnedFacts
<1>6. \A v \in Workers : Excluding(v)' => Excluding(v) /\ exec'[v] = exec[v]
  BY <1>4, <1>5 DEF Excluding
<1>7. ASSUME Calm' PROVE job'["exclude_basic"].state # "succeeded" /\ \A v \in Workers : ~Excluding(v)'
  <2>1. ~Quiet  BY <1>1 DEF Quiet, Normalizing
  <2>2. Calm  BY <1>7, CalmBefore
  <2>3. QED  BY <1>1, <1>6, <2>1, <2>2 DEF ExcludeInv
<1>8. QED  BY <1>3, <1>6, <1>7 DEF ExcludeInv

(* Every step keeps ExcludeInv. *)
LEMMA ExcludeStep ==
  ASSUME TypeInv, OwnInv, ExcludeInv, [Next]_vars
  PROVE  ExcludeInv'
<1>1. ASSUME NEW w \in Workers, NEW s \in StageNames, start(w, s) PROVE ExcludeGoesOn
  <2>1. Begins(w, s) /\ company' = company  BY <1>1, StartTyped DEF start, tables
  <2>2. /\ \A v \in Workers \ {w} : exec'[v] = exec[v]
        /\ exec'[w].stage = s /\ exec'[w].offset = 0 /\ exec'[w].page = {}
    BY <2>1, StartedFacts DEF Begins, TypeInv, Executions
  <2>3. ASSUME Calm', s = "exclude_basic" PROVE Quiet
    <3>1. job["normalize"].state = "succeeded"  BY <2>1, <2>3 DEF Begins, Before
    <3>2. CASE faults.expiries = 0
      <4>1. ASSUME NEW v \in Workers, Normalizing(v) PROVE FALSE
        <5>1. job["normalize"].by = v
          BY <3>2, <4>1, StageNamesAre DEF OwnInv, Owns, Normalizing
        <5>2. job["normalize"].state = "running"  BY <5>1, NamesAssumption, StageNamesAre DEF OwnInv
        <5>3. QED  BY <3>1, <5>2
      <4>2. QED  BY <3>1, <4>1 DEF Quiet
    <3>3. CASE faults.expiries # 0
      <4>1. Calm /\ \E v \in Workers : Excluding(v)  BY <2>3, <3>3, CalmBefore DEF Calm
      <4>2. QED  BY <4>1 DEF ExcludeInv
    <3>4. QED  BY <3>2, <3>3
  <2>4. ASSUME Calm', job'["exclude_basic"].state = "succeeded" PROVE Quiet /\ AllJudged
    <3>1. job["exclude_basic"].state = "succeeded"  BY <2>1, <2>4, StageNamesAre DEF Begins, TypeInv
    <3>2. QED  BY <2>4, <3>1, CalmBefore DEF ExcludeInv
  <2>5. \A v \in Workers : exec'[v].stage = "exclude_basic" =>
       \/ exec'[v] = exec[v]
       \/ exec'[v].offset = 0 /\ exec'[v].page = {} /\ (Calm' => Quiet)
    BY <2>2, <2>3
  <2>6. QED  BY <2>1, <2>4, <2>5 DEF ExcludeGoesOn, Ids
<1>2. ASSUME company' = company, \A v \in Workers : exec'[v].stage = "exclude_basic" => exec'[v] = exec[v],
             job'["exclude_basic"].state = "succeeded" => job["exclude_basic"].state = "succeeded"
      PROVE  ExcludeGoesOn
  <2>1. Calm' /\ job'["exclude_basic"].state = "succeeded" => Quiet /\ AllJudged
    BY <1>2, CalmBefore DEF ExcludeInv
  <2>2. QED  BY <1>2, <2>1 DEF ExcludeGoesOn, Ids
<1>3. ASSUME NEW s \in StageNames, expire(s) PROVE ExcludeGoesOn
  <2>1. Expires(s) /\ company' = company /\ job[s] \in Jobs  BY <1>3, ExpireTyped DEF expire, tables, TypeInv
  <2>2. \A u \in StageNames : job'[u].state = "succeeded" => job[u].state = "succeeded"
    BY <2>1, RetriedFacts DEF Expires, TypeInv
  <2>3. exec' = exec  BY <2>1 DEF Expires
  <2>4. QED  BY <1>2, <2>1, <2>2, <2>3, StageNamesAre
<1>4. ASSUME midnight \/ UNCHANGED vars PROVE ExcludeGoesOn
  <2>1. UNCHANGED <<company, exec, job>>  BY <1>4 DEF midnight, vars, tables
  <2>2. QED  BY <1>2, <2>1
<1>5. ASSUME NEW w \in Workers, crash(w) PROVE ExcludeGoesOn
  <2>1. Ends(w) /\ company' = company /\ Fail(w) /\ exec[w].stage \in StageNames /\ job \in [StageNames -> Jobs]
    BY <1>5, CrashTyped DEF crash, tables, Ends, TypeInv
  <2>2. \A s \in StageNames : job'[s].state = "succeeded" => job[s].state = "succeeded"  BY <2>1, FailFacts
  <2>3. exec'[w] = Idle /\ \A v \in Workers \ {w} : exec'[v] = exec[v]  BY <2>1, EndsFacts
  <2>4. \A v \in Workers : exec'[v].stage = "exclude_basic" => exec'[v] = exec[v]
    BY <2>3, IdleFacts, StageNamesAre
  <2>5. QED  BY <1>2, <2>1, <2>2, <2>4, StageNamesAre
<1>6. ASSUME NEW w \in Workers, Work(w), exec[w].stage # "exclude_basic", company' = company PROVE ExcludeGoesOn
  <2>1. \A v \in Workers : exec'[v].stage = "exclude_basic" => exec'[v] = exec[v]
    BY <1>6, OthersStay, IdleFacts, StageNamesAre
  <2>2. job'["exclude_basic"] = job["exclude_basic"]
    <3>1. CASE GoesOn(w)  BY <3>1 DEF GoesOn
    <3>2. CASE Ends(w)  BY <1>6, <3>2, EndsFacts, StageNamesAre
    <3>3. QED  BY <1>6, <3>1, <3>2, WorkTyped DEF TypedStep
  <2>3. QED  BY <1>2, <1>6, <2>1, <2>2
<1>7. ASSUME NEW w \in Workers, flush(w) \/ normalize_page(w) \/ normalize_look(w) PROVE ExcludeGoesOn
  <2>1. Work(w) /\ exec[w].stage # "exclude_basic" /\ company' = company
    BY <1>7 DEF Work, flush, normalize_page, normalize_look, At, tables
  <2>2. QED  BY <1>6, <2>1
<1>8. ASSUME NEW w \in Workers, normalize_write(w) PROVE ExcludeInv'
  <2>1. CASE UNCHANGED <<raw, company, sites>>
    <3>1. Work(w) /\ exec[w].stage # "exclude_basic" /\ company' = company
      BY <1>8, <2>1 DEF Work, normalize_write, At
    <3>2. QED  BY <1>6, <3>1, ExcludeKept
  <2>2. CASE Stores(w)  BY <1>8, <2>2, ExcludeStores
  <2>3. QED  BY <1>8, <2>1, <2>2, NormalizeWriteDoes
<1>9. ASSUME NEW w \in Workers,
             \/ discover_page(w) \/ discover_reserve(w) \/ local_search(w)
             \/ discover_reserve_web(w) \/ web_search(w) \/ insert_site(w)
      PROVE  ExcludeGoesOn
  <2>1. Work(w) /\ exec[w].stage # "exclude_basic" /\ company' = company
    BY <1>9 DEF Work, discover_page, discover_reserve, local_search, discover_reserve_web, web_search, insert_site,
                At, Reserve, tables
  <2>2. QED  BY <1>6, <2>1
<1>10. ASSUME NEW w \in Workers, exclude_page(w) \/ exclude_row(w) PROVE ExcludeInv'
  BY <1>10, ExcludePageStep, ExcludeRowStep
<1>11. QED
  BY <1>1, <1>3, <1>4, <1>5, <1>7, <1>8, <1>9, <1>10, ExcludeKept DEF Next, Work

(* It holds in every reachable state. *)
LEMMA ExcludeAlways == Spec => []ExcludeInv
<1>1. Init => ExcludeInv
  <2> SUFFICES ASSUME Init PROVE ExcludeInv  OBVIOUS
  <2>1. \A w \in Workers : ~Excluding(w)  BY IdleFacts, StageNamesAre DEF Init, Excluding
  <2>2. job["exclude_basic"].state # "succeeded"  BY StageNamesAre DEF Init
  <2>3. QED  BY <2>1, <2>2 DEF ExcludeInv
<1>2. TypeInv /\ OwnInv /\ ExcludeInv /\ [Next]_vars => ExcludeInv'  BY ExcludeStep
<1>3. QED  BY <1>1, <1>2, TypesHold, PTL DEF Spec

(* Once the exclusion is through, and no worker has lost its lease, every company
   of the attempt is in or out by its present row (excludeStage). *)
THEOREM ExclusionHolds == Spec => []ExclusionIsCurrent
<1>1. ExcludeInv => ExclusionIsCurrent
  BY DEF ExcludeInv, Calm, AllJudged, Judged, Judgement, Observeds, ExclusionIsCurrent
<1>2. QED  BY <1>1, ExcludeAlways, PTL

-----------------------------------------------------------------------------
(* Calls and retries. *)

(* Lost leases and repeated exclusions only become more. *)
LEMMA SteadyBefore ==
  ASSUME TypeInv, OwnInv, [Next]_vars, Steady'
  PROVE  Steady
<1>1. faults.expiries \in Nat /\ faults'.expiries \in {faults.expiries, faults.expiries + 1}
      /\ job'["exclude_basic"].tries >= job["exclude_basic"].tries
      /\ job["exclude_basic"].tries \in Nat
  BY JobSteps, StageNamesAre DEF TypeInv, Counts, Jobs
<1>2. TypeInv'  BY CoreStep
<1>3. job'["exclude_basic"].tries \in Nat  BY <1>2, StageNamesAre DEF TypeInv, Jobs
<1>4. QED  BY <1>1, <1>3 DEF Steady

(* The companies to ask about are finitely many. *)
LEMMA TargetsFinite == TypeInv => Targets \in SUBSET Nat /\ Targets \subseteq Ids /\ IsFiniteSet(Targets)
<1> SUFFICES ASSUME TypeInv PROVE Targets \in SUBSET Nat /\ Targets \subseteq Ids /\ IsFiniteSet(Targets)  OBVIOUS
<1>1. Targets \subseteq Ids  BY DEF Targets
<1>2. QED  BY <1>1, IdsFinite, FS_Subset

(* A discovery starts behind the others. *)
LEMMA DiscoveryIsLast ==
  ASSUME TypeInv, OwnInv, NEW w \in Workers, Discovering(w)
  PROVE  /\ job["homepage_discover"].tries > 0
         /\ job["exclude_basic"].state = "succeeded" /\ job["normalize"].state = "succeeded"
         /\ job["collect"].state = "succeeded"
<1>1. job["homepage_discover"].tries > 0  BY StageNamesAre DEF OwnInv, Discovering
<1>2. job["exclude_basic"].state = "succeeded"  BY <1>1, StageNamesAre DEF OwnInv, Before
<1>3. job["exclude_basic"].tries > 0  BY <1>2, StageNamesAre DEF OwnInv
<1>4. job["normalize"].state = "succeeded"  BY <1>3, StageNamesAre DEF OwnInv, Before
<1>5. job["normalize"].tries > 0  BY <1>4, StageNamesAre DEF OwnInv
<1>6. job["collect"].state = "succeeded"  BY <1>5, StageNamesAre DEF OwnInv, Before
<1>7. QED  BY <1>1, <1>2, <1>4, <1>6

(* A new site takes a company out of the set, never in. *)
LEMMA ShrinkBySites ==
  ASSUME company' = company, sites \subseteq sites'
  PROVE  Ids' = Ids /\ Targets' \subseteq Targets
BY DEF Ids, Targets, Observed

(* A candidate stored again brings nothing in. *)
LEMMA ShrinkByStoring ==
  ASSUME TypeInv, StoredInv, feed' = feed, NEW i \in DOMAIN feed, raw[i] = "done", NEW id, StoredAt(i, id)
  PROVE  Ids' = Ids /\ Targets' \subseteq Targets
<1>1. PICK c : StoredAs(i, c)  BY DEF StoredInv
<1>2. c \in Ids /\ company[c].key = buildDedupeKey(feed[i]) /\ Observed(c)  BY <1>1 DEF StoredAs
<1>3. /\ Ids' = Ids \cup {id} /\ \A d \in Ids \ {id} : company'[d] = company[d]
      /\ id \in Ids => company[id].key = buildDedupeKey(feed[i]) /\ company'[id].excluded = company[id].excluded
      /\ id \notin Ids => \A d \in Ids : company[d].key # buildDedupeKey(feed[i])
      /\ sites \subseteq sites'
  BY DEF StoredAt
<1>4. id \in Ids  BY <1>2, <1>3
<1>5. id = c  BY <1>2, <1>3, <1>4 DEF TypeInv, Rows
<1>6. Ids' = Ids  BY <1>3, <1>4
<1>7. ASSUME NEW d \in Ids, Observed(d)', company'[d].excluded = None,
             \A s \in sites' : s.company = d => s.seen = "unavailable"
      PROVE  d \in Targets
  <2>1. Observed(d) /\ company[d].excluded = None
    BY <1>2, <1>3, <1>4, <1>5, <1>7 DEF Observed
  <2>2. \A s \in sites : s.company = d => s.seen = "unavailable"  BY <1>3, <1>7
  <2>3. QED  BY <2>1, <2>2 DEF Targets
<1>8. QED  BY <1>6, <1>7 DEF Targets

(* A verdict written again changes nothing. *)
LEMMA ShrinkByVerdict ==
  ASSUME TypeInv, OwnInv, ExcludeInv, Steady, job["exclude_basic"].state = "succeeded",
         NEW w \in Workers, exclude_row(w)
  PROVE  Ids' = Ids /\ Targets' \subseteq Targets
<1>1. /\ exec[w].stage = "exclude_basic" /\ Item(w) \in exec[w].page /\ Item(w).id \in Ids
      /\ sites' = sites /\ Ids' = Ids
      /\ \A c \in Ids :
           /\ company'[c].track = company[c].track
           /\ company'[c].excluded = IF c = Item(w).id THEN Judgement(Item(w).row) ELSE company[c].excluded
  BY ExcludeRowDoes DEF Judgement
<1>2. ~Owns(w)
  <2>1. job["exclude_basic"].by = None  BY StageNamesAre DEF OwnInv
  <2>2. QED  BY <1>1, <2>1, NamesAssumption DEF Owns
<1>3. Calm
  <2>1. job["exclude_basic"].tries \in Nat /\ faults.expiries \in Nat  BY StageNamesAre DEF TypeInv, Jobs, Counts
  <2>2. faults.expiries # 0  BY <1>1, <1>2, StageNamesAre DEF OwnInv
  <2>3. ~(job["exclude_basic"].tries <= 1)  BY <1>1, StageNamesAre DEF OwnInv
  <2>4. faults.expiries = 1  BY <2>1, <2>2, <2>3 DEF Steady
  <2>5. QED  BY <1>1, <1>2, <2>4 DEF Calm, Excluding
<1>4. AllJudged /\ Fresh(w) /\ Item(w).id \in Observeds  BY <1>1, <1>3 DEF ExcludeInv, Excluding
<1>5. Judgement(Item(w).row) = company[Item(w).id].excluded
  BY <1>1, <1>4 DEF AllJudged, Judged, Fresh
<1>6. \A c \in Ids : company'[c].track = company[c].track /\ company'[c].excluded = company[c].excluded
  BY <1>1, <1>5
<1>7. QED  BY <1>1, <1>6 DEF Targets, Observed

(* While a discovery runs, the companies to ask about only become fewer. *)
LEMMA TargetsShrink ==
  ASSUME TypeInv, OwnInv, FeedInv, StoredInv, ExcludeInv, [Next]_vars, Steady,
         NEW w \in Workers, Discovering(w)
  PROVE  Ids' = Ids /\ Targets' \subseteq Targets
<1>1. job["exclude_basic"].state = "succeeded" /\ job["normalize"].state = "succeeded"  BY DiscoveryIsLast
<1>2. ASSUME NEW v \in Workers, normalize_write(v), Stores(v) PROVE Ids' = Ids /\ Targets' \subseteq Targets
  <2>1. exec[v].stage = "normalize" /\ Item(v) \in exec[v].page /\ Item(v).id \in DOMAIN feed /\ feed' = feed
    BY <1>2, StoresFacts
  <2>2. raw[Item(v).id] = "done"
    BY <1>1, <2>1 DEF FeedInv, Normalizing, TypeInv, Rows
  <2>3. PICK id : StoredAt(Item(v).id, id)  BY <1>2, StoresFacts
  <2>4. QED  BY <2>1, <2>2, <2>3, ShrinkByStoring
<1>3. ASSUME NEW v \in Workers, exclude_row(v) PROVE Ids' = Ids /\ Targets' \subseteq Targets
  BY <1>1, <1>3, ShrinkByVerdict
<1>4. ASSUME NEW v \in Workers, normalize_write(v), ~Stores(v) PROVE company' = company /\ sites \subseteq sites'
  BY <1>4, NormalizeWriteDoes
<1>5. ASSUME NEW v \in Workers, insert_site(v) PROVE company' = company /\ sites \subseteq sites'
  BY <1>5 DEF insert_site
<1>6. ASSUME NEW v \in Workers,
             \/ flush(v) \/ normalize_page(v) \/ normalize_look(v) \/ exclude_page(v) \/ discover_page(v)
             \/ discover_reserve(v) \/ local_search(v) \/ discover_reserve_web(v) \/ web_search(v) \/ crash(v)
      PROVE  company' = company /\ sites \subseteq sites'
  BY <1>6 DEF flush, normalize_page, normalize_look, exclude_page, discover_page, discover_reserve, local_search,
              discover_reserve_web, web_search, crash, Reserve, tables
<1>7. ASSUME \/ \E v \in Workers, s \in StageNames : start(v, s)
             \/ \E s \in StageNames : expire(s)
             \/ midnight \/ UNCHANGED vars
      PROVE  company' = company /\ sites \subseteq sites'
  BY <1>7 DEF start, expire, midnight, vars, tables
<1>8. QED  BY <1>2, <1>3, <1>4, <1>5, <1>6, <1>7, ShrinkBySites DEF Next, Work

(* What a discoverer does next: it fetches a page, is done with a row, or comes
   further with one; a call is counted when it is made. *)
Fetches(w) ==
  LET page == Page(Targets, company, exec[w].offset) IN
  /\ exec[w].page = {} /\ exec[w].pc = "page"
  /\ exec'[w].page = page /\ exec'[w].pc = "page" /\ exec'[w].seen = exec[w].seen /\ exec'[w].finds = exec[w].finds
  /\ exec'[w].offset = exec[w].offset + Cardinality(page)
  /\ UNCHANGED <<company, sites>>

Turns(w) ==
  /\ exec[w].page # {} /\ exec[w].pc \in {"local", "web", "insert"}
  /\ exec'[w].page = exec[w].page \ {Item(w)} /\ PageIds(w)' = PageIds(w) \ {Item(w).id}
  /\ exec'[w].pc = "page" /\ exec'[w].offset = exec[w].offset
  /\ exec'[w].seen = exec[w].seen \cup {Item(w).id}
  /\ \/ exec'[w].finds = exec[w].finds /\ UNCHANGED <<company, sites>>
     \/ /\ exec'[w].finds = exec[w].finds \cup {Item(w).id}
        /\ company' = company /\ \A s \in sites' \ sites : s.company = Item(w).id

Moves(w) ==
  /\ exec[w].page # {} /\ exec'[w].page = exec[w].page
  /\ exec'[w].offset = exec[w].offset /\ exec'[w].seen = exec[w].seen /\ exec'[w].finds = exec[w].finds
  /\ \/ exec[w].pc = "page" /\ exec'[w].pc = "local"
     \/ exec[w].pc = "local" /\ exec'[w].pc = "reserve_web"
     \/ exec[w].pc = "reserve_web" /\ exec'[w].pc = "web"
     \/ exec[w].pc \in {"local", "web"} /\ exec'[w].pc = "insert"
  /\ UNCHANGED <<company, sites>>

Counted(w) == IF exec[w].pc \in {"local", "web"} THEN Called(w, exec[w].pc) ELSE asked' = asked

(* Every step of a discoverer is of one of these kinds, or ends the stage. *)
LEMMA DiscovererKinds ==
  ASSUME TypeInv, NEW w \in Workers, Discovering(w), Work(w)
  PROVE  \/ exec'[w] = Idle /\ UNCHANGED <<company, sites, asked>> /\ exec[w].pc \notin {"local", "web"}
         \/ /\ exec'[w].stage = "homepage_discover" /\ Counted(w)
            /\ Fetches(w) \/ Turns(w) \/ Moves(w)
<1>1. ExecutionOK(exec[w]) /\ exec[w].stage = "homepage_discover"
  BY DEF TypeInv, Executions, Discovering
<1>2. \A e : Go(w, e) => exec'[w] = e  BY DEF Go, TypeInv, Executions
<1>3. Finish(w) => exec'[w] = Idle  BY DEF Finish, TypeInv, Executions
<1>4. CASE discover_page(w)
  <2> DEFINE page == Page(Targets, company, exec[w].offset)
  <2>1. exec[w].pc = "page" /\ exec[w].page = {} /\ UNCHANGED <<company, sites, asked>>
        /\ (Finish(w) \/ Go(w, Fetched(w, page)))
    BY <1>4 DEF discover_page, At, tables, quota
  <2>2. CASE Finish(w)  BY <1>3, <2>1, <2>2
  <2>3. CASE Go(w, Fetched(w, page))
    <3>1. PageOK(page)
      <4>1. exec[w].offset \in Nat  BY <1>1 DEF ExecutionOK
      <4>2. QED  BY <4>1, TargetsFinite, PageFacts DEF PageOK
    <3>2. /\ exec'[w] = Fetched(w, page)  BY <1>2, <2>3
    <3> HIDE DEF page
    <3>3. /\ exec'[w].stage = "homepage_discover" /\ exec'[w].page = page /\ exec'[w].pc = "page"
          /\ exec'[w].seen = exec[w].seen /\ exec'[w].finds = exec[w].finds
          /\ exec'[w].offset = exec[w].offset + Cardinality(page)
      BY <1>1, <2>1, <3>1, <3>2, FetchedFacts
    <3>4. Fetches(w)  BY <2>1, <3>3 DEF Fetches, page
    <3>5. QED  BY <2>1, <3>3, <3>4 DEF Counted
  <2>4. QED  BY <2>1, <2>2, <2>3
<1>5. CASE discover_reserve(w) \/ discover_reserve_web(w)
  <2>1. exec[w].page # {} /\ exec[w].pc \in {"page", "reserve_web"} /\ UNCHANGED <<company, sites, asked>>
    BY <1>5, ReserveDoes DEF tables
  <2>2. CASE Finish(w)  BY <1>3, <2>1, <2>2
  <2>3. ASSUME NEW kind \in {"local", "web"}, exec[w].pc = (IF kind = "local" THEN "page" ELSE "reserve_web"),
               Go(w, [exec[w] EXCEPT !.pc = kind])
        PROVE  exec'[w].stage = "homepage_discover" /\ Moves(w) /\ Counted(w)
    <3>1. /\ exec'[w].stage = "homepage_discover" /\ exec'[w].pc = kind /\ exec'[w].page = exec[w].page
          /\ exec'[w].offset = exec[w].offset /\ exec'[w].seen = exec[w].seen /\ exec'[w].finds = exec[w].finds
      BY <1>1, <1>2, <2>3 DEF ExecutionOK, Fields
    <3>2. QED  BY <2>1, <2>3, <3>1 DEF Moves, Counted
  <2>4. QED  BY <1>5, <2>2, <2>3, ReserveDoes
<1>6. CASE local_search(w) \/ web_search(w)
  <2>1. /\ exec[w].page # {} /\ exec[w].pc \in {"local", "web"} /\ UNCHANGED <<company, sites>>
        /\ Called(w, exec[w].pc)
    BY <1>6, SearchDoes DEF tables
  <2>2. Counted(w)  BY <2>1 DEF Counted
  <2>3. CASE Go(w, Asked(w))
    <3>1. exec'[w] = Asked(w)  BY <1>2, <2>3
    <3>2. /\ exec'[w].stage = "homepage_discover" /\ exec'[w].pc = "page" /\ exec'[w].page = exec[w].page \ {Item(w)}
          /\ exec'[w].offset = exec[w].offset /\ exec'[w].seen = exec[w].seen \cup {Item(w).id}
          /\ exec'[w].finds = exec[w].finds /\ PageIds(w)' = PageIds(w) \ {Item(w).id}
      BY <1>1, <2>1, <3>1, AskedFacts DEF PageIds
    <3>3. QED  BY <2>1, <2>2, <3>2 DEF Turns
  <2>4. ASSUME NEW a, Go(w, Found(w, a))
        PROVE  exec'[w].stage = "homepage_discover" /\ Moves(w) /\ Counted(w)
    <3>1. exec'[w] = Found(w, a)  BY <1>2, <2>4
    <3>2. /\ exec'[w].stage = "homepage_discover" /\ exec'[w].pc = "insert" /\ exec'[w].page = exec[w].page
          /\ exec'[w].offset = exec[w].offset /\ exec'[w].seen = exec[w].seen /\ exec'[w].finds = exec[w].finds
      BY <1>1, <2>1, <3>1, AdoptedFacts
    <3>3. QED  BY <2>1, <2>2, <3>2 DEF Moves
  <2>5. CASE exec[w].pc = "local" /\ Go(w, [exec[w] EXCEPT !.pc = "reserve_web"])
    <3>1. /\ exec'[w].stage = "homepage_discover" /\ exec'[w].pc = "reserve_web" /\ exec'[w].page = exec[w].page
          /\ exec'[w].offset = exec[w].offset /\ exec'[w].seen = exec[w].seen /\ exec'[w].finds = exec[w].finds
      BY <1>1, <1>2, <2>5 DEF ExecutionOK, Fields
    <3>2. QED  BY <2>1, <2>2, <2>5, <3>1 DEF Moves
  <2>6. QED  BY <1>6, <2>3, <2>4, <2>5, SearchDoes
<1>7. CASE insert_site(w)
  <2> DEFINE e == [Asked(w) EXCEPT !.finds = @ \cup {Item(w).id}]
             url == exec[w].adopted.url
             site == Site(Item(w).id, url, exec[w].adopted.basis)
  <2>1. /\ exec[w].pc = "insert" /\ company' = company /\ asked' = asked /\ Go(w, e)
        /\ sites' = sites \/ sites' = sites \cup {site}
    BY <1>7 DEF insert_site, At, quota
  <2>2. site.company = Item(w).id  BY DEF Site
  <2>3. exec[w].page # {}  BY <1>1, <2>1 DEF ExecutionOK
  <2>4. /\ e.stage = exec[w].stage /\ e.pc = "page" /\ e.page = exec[w].page \ {Item(w)}
        /\ e.offset = exec[w].offset /\ e.seen = exec[w].seen \cup {Item(w).id}
        /\ e.finds = exec[w].finds \cup {Item(w).id}
        /\ {r.id : r \in e.page} = PageIds(w) \ {Item(w).id}
    BY <1>1, <2>3, FoundFacts
  <2>5. exec'[w] = e  BY <1>2, <2>1
  <2> HIDE DEF e, site
  <2>6. PageIds(w)' = PageIds(w) \ {Item(w).id}  BY <2>4, <2>5 DEF PageIds
  <2>7. \A s \in sites' \ sites : s.company = Item(w).id  BY <2>1, <2>2
  <2>8. Turns(w)  BY <2>1, <2>3, <2>4, <2>5, <2>6, <2>7 DEF Turns
  <2>9. Counted(w)  BY <2>1 DEF Counted
  <2>10. QED  BY <1>1, <2>4, <2>5, <2>8, <2>9
<1>8. ~(flush(w) \/ normalize_page(w) \/ normalize_look(w) \/ normalize_write(w) \/ exclude_page(w) \/ exclude_row(w))
  BY <1>1 DEF flush, normalize_page, normalize_look, normalize_write, exclude_page, exclude_row, At
<1>9. QED  BY <1>4, <1>5, <1>6, <1>7, <1>8 DEF Work

(* Where a discoverer comes from. *)
LEMMA DiscovererSteps ==
  ASSUME TypeInv, OwnInv, [Next]_vars, NEW v \in Workers, Discovering(v)'
  PROVE  \/ exec'[v] = exec[v] /\ Discovering(v)
         \/ /\ start(v, "homepage_discover") /\ Begins(v, "homepage_discover")
            /\ exec'[v].page = {} /\ exec'[v].seen = {} /\ exec'[v].finds = {} /\ exec'[v].offset = 0
         \/ Discovering(v) /\ Work(v) /\ Counted(v) /\ (Fetches(v) \/ Turns(v) \/ Moves(v))
<1>0. exec'[v].stage = "homepage_discover"  BY DEF Discovering
<1>1. ASSUME NEW w \in Workers, NEW s \in StageNames, start(w, s), Begins(w, s), v = w
      PROVE  /\ start(v, "homepage_discover") /\ Begins(v, "homepage_discover")
             /\ exec'[v].page = {} /\ exec'[v].seen = {} /\ exec'[v].finds = {} /\ exec'[v].offset = 0
  <2>1. exec'[v] = [Idle EXCEPT !.stage = s]  BY <1>1 DEF Begins, TypeInv, Executions
  <2>2. /\ exec'[v].stage = s /\ exec'[v].page = {} /\ exec'[v].seen = {} /\ exec'[v].finds = {}
        /\ exec'[v].offset = 0
    BY <2>1, StartedFacts
  <2>3. QED  BY <1>0, <1>1, <2>2
<1>2. ASSUME NEW w \in Workers, NEW s \in StageNames, Begins(w, s), v # w PROVE exec'[v] = exec[v]
  BY <1>2 DEF Begins, TypeInv, Executions
<1>3. ASSUME NEW w \in Workers, Work(w) \/ crash(w), GoesOn(w) \/ Ends(w), v # w PROVE exec'[v] = exec[v]
  BY <1>3 DEF GoesOn, Ends, TypeInv, Executions
<1>4. ASSUME Ends(v) PROVE FALSE
  <2>1. exec'[v] = Idle  BY <1>4 DEF Ends, TypeInv, Executions
  <2>2. QED  BY <1>0, <2>1, IdleFacts, StageNamesAre
<1>5. ASSUME Work(v), GoesOn(v)
      PROVE  Discovering(v) /\ Work(v) /\ Counted(v) /\ (Fetches(v) \/ Turns(v) \/ Moves(v))
  <2>1. exec'[v].stage = exec[v].stage  BY <1>5 DEF GoesOn, TypeInv, Executions
  <2>2. Discovering(v)  BY <1>0, <2>1 DEF Discovering
  <2>3. exec'[v] # Idle  BY <1>0, IdleFacts, StageNamesAre
  <2>4. QED  BY <1>5, <2>2, <2>3, DiscovererKinds
<1>6. ASSUME NEW s \in StageNames, Expires(s) PROVE exec'[v] = exec[v]  BY <1>6 DEF Expires
<1>7. exec'[v] = exec[v] => Discovering(v)  BY <1>0 DEF Discovering
<1>8. QED  BY <1>1, <1>2, <1>3, <1>4, <1>5, <1>6, <1>7, StepKinds

(* What was passed stays behind the offset. *)
LEMMA PassedKept ==
  ASSUME TypeInv, Ids' = Ids, Targets' \subseteq Targets, NEW v, Passed(v),
         exec'[v].seen \cup PageIds(v)' \subseteq exec[v].seen \cup PageIds(v),
         PageIds(v)' \cap exec'[v].seen = {}, exec'[v].offset = exec[v].offset, exec[v].offset \in Nat
  PROVE  Passed(v)'
<1>1. ASSUME NEW x \in exec'[v].seen \cup PageIds(v)'
      PROVE  x \in Ids' /\ Place(Targets', x) <= exec'[v].offset
  <2>1. x \in exec[v].seen \cup PageIds(v)  BY <1>1
  <2>2. x \in Ids /\ Place(Targets, x) <= exec[v].offset  BY <2>1 DEF Passed
  <2>3. x \in Nat  BY <2>2 DEF Ids
  <2>4. Targets \in SUBSET Nat /\ IsFiniteSet(Targets)  BY TargetsFinite
  <2>5. Targets' \in SUBSET Nat /\ IsFiniteSet(Targets')  BY <2>4, FS_Subset
  <2>6. Place(Targets', x) <= Place(Targets, x) /\ Place(Targets, x) \in Nat  BY <2>3, <2>4, PlaceFacts
  <2>7. Place(Targets', x) \in Nat  BY <2>3, <2>5, PlaceFacts
  <2>8. Place(Targets', x) <= exec[v].offset  BY <2>2, <2>6, <2>7
  <2>9. QED  BY <2>2, <2>8
<1>2. QED  BY <1>1 DEF Passed, Place

(* A page begins behind the offset, and the offset moves behind it. *)
LEMMA PassedFetched ==
  ASSUME TypeInv, TypeInv', NEW v \in Workers, Passed(v), Fetches(v)
  PROVE  Passed(v)' /\ Ids' = Ids /\ Targets' = Targets /\ PageIds(v)' = OnPage(Targets, exec[v].offset)
<1> DEFINE page == Page(Targets, company, exec[v].offset)
<1>1. Ids' = Ids /\ Targets' = Targets  BY DEF Fetches, Ids, Targets, Observed
<1>2. Targets \in SUBSET Nat /\ Targets \subseteq Ids /\ IsFiniteSet(Targets)  BY TargetsFinite
<1>3. exec[v].offset \in Nat  BY DEF TypeInv, Executions, ExecutionOK
<1>4. /\ exec'[v].page = page /\ exec'[v].seen = exec[v].seen
      /\ exec'[v].offset = exec[v].offset + Cardinality(page)
  BY DEF Fetches
<1>5. /\ {r.id : r \in page} = OnPage(Targets, exec[v].offset) /\ Cardinality(page) \in 0 .. Batch
      /\ \A x \in OnPage(Targets, exec[v].offset) : Place(Targets, x) <= exec[v].offset + Cardinality(page)
  BY <1>2, <1>3, PageFacts
<1> HIDE DEF page
<1>6. PageIds(v)' = OnPage(Targets, exec[v].offset)  BY <1>4, <1>5 DEF PageIds
<1>7. Batch \in Nat  BY BoundsAssumption
<1>8. ASSUME NEW x \in exec[v].seen PROVE x \in Ids /\ Place(Targets, x) <= exec[v].offset /\ Place(Targets, x) \in Nat
  <2>1. x \in Ids /\ Place(Targets, x) <= exec[v].offset  BY DEF Passed
  <2>2. x \in Nat  BY <2>1 DEF Ids
  <2>3. QED  BY <1>2, <2>1, <2>2, PlaceFacts
<1>9. ASSUME NEW x \in OnPage(Targets, exec[v].offset)
      PROVE  x \in Ids /\ x \notin exec[v].seen
  <2>1. x \in Targets /\ Place(Targets, x) \in exec[v].offset + 1 .. exec[v].offset + Batch  BY DEF OnPage
  <2>2. QED  BY <1>2, <1>3, <1>7, <1>8, <2>1
<1>10. ASSUME NEW x \in exec'[v].seen \cup PageIds(v)'
       PROVE  x \in Ids' /\ Place(Targets', x) <= exec'[v].offset
  <2>1. CASE x \in exec[v].seen
    <3>1. Place(Targets, x) <= exec[v].offset + Cardinality(page)  BY <1>3, <1>5, <1>7, <1>8, <2>1
    <3>2. QED  BY <1>1, <1>4, <1>8, <2>1, <3>1
  <2>2. CASE x \in OnPage(Targets, exec[v].offset)  BY <1>1, <1>4, <1>5, <1>9, <2>2
  <2>3. QED  BY <1>4, <1>6, <1>10, <2>1, <2>2
<1>11. PageIds(v)' \cap exec'[v].seen = {}  BY <1>4, <1>6, <1>9
<1>12. QED  BY <1>1, <1>6, <1>10, <1>11 DEF Passed, Place

(* Nobody may ask again for what he has passed or is past. *)
LEMMA MayOnlyLose ==
  ASSUME TypeInv, NEW v \in Workers, Discovering(v), Fetches(v) \/ Turns(v) \/ Moves(v), NEW k, May(v, k)'
  PROVE  May(v, k)
<1>1. k[2] \notin exec'[v].seen
      /\ ~(exec'[v].page # {} /\ Item(v)' = Item(v) /\ Item(v).id = k[2] /\
           exec'[v].pc \in (IF k[1] = "local" THEN {"reserve_web", "web", "insert"} ELSE {"insert"}))
  BY DEF May
<1>2. CASE Fetches(v)  BY <1>1, <1>2 DEF Fetches, May
<1>3. CASE Turns(v)  BY <1>1, <1>3 DEF Turns, May
<1>4. CASE Moves(v)
  <2>1. Item(v)' = Item(v)  BY <1>4 DEF Moves, Item
  <2>2. QED  BY <1>1, <1>4, <2>1 DEF Moves, May
<1>5. QED  BY <1>2, <1>3, <1>4

(* The call that was made may not be made again. *)
LEMMA MayNoMore ==
  ASSUME TypeInv, NEW v \in Workers, Discovering(v), Passed(v), exec[v].page # {},
         NEW kind \in {"local", "web"}, exec[v].pc = kind, Turns(v) \/ Moves(v)
  PROVE  May(v, EntryKey(kind, v)) /\ \A k : k = EntryKey(kind, v) => ~May(v, k)'
<1> DEFINE k == EntryKey(kind, v)
<1>1. k[1] = kind /\ k[2] = Item(v).id  BY DEF EntryKey
<1>2. Item(v) \in exec[v].page  BY ItemFacts DEF TypeInv, Executions, ExecutionOK
<1>3. k[2] \notin exec[v].seen  BY <1>1, <1>2 DEF Passed, PageIds
<1> HIDE DEF k
<1>4. May(v, k)  BY <1>1, <1>3 DEF May
<1>5. \A q : q = k => ~May(v, q)'
  <2> TAKE q
  <2> HAVE q = k
  <2>1. CASE Turns(v)  BY <1>1, <2>1 DEF Turns, May
  <2>2. CASE Moves(v)
    <3>1. Item(v)' = Item(v) /\ exec'[v].page # {}  BY <2>2 DEF Moves, Item
    <3>2. exec'[v].pc \in (IF kind = "local" THEN {"reserve_web", "web", "insert"} ELSE {"insert"})
      BY <2>2 DEF Moves
    <3>3. QED  BY <1>1, <3>1, <3>2 DEF May
  <2>3. QED  BY <2>1, <2>2
<1>6. QED  BY <1>4, <1>5 DEF k

(* Those who may still make a call are finitely many. *)
LEMMA AskersFinite == \A k : IsFiniteSet(MayAsk(k)) /\ Cardinality(MayAsk(k)) \in Nat
BY BoundsAssumption, FS_Subset, FS_CardinalityType DEF MayAsk

(* How the count of the calls and of those who may still make one move. *)
LEMMA AskBound ==
  ASSUME NEW a \in Nat, NEW S, NEW T, IsFiniteSet(S), NEW w, NEW n \in Nat, NEW m \in Nat,
         a + Cardinality(S) <= n, n <= m
  PROVE  /\ T \subseteq S => a + Cardinality(T) <= m
         /\ w \in S /\ T \subseteq S \ {w} => a + 1 + Cardinality(T) <= m
         /\ T \subseteq S \cup {w} /\ n < m => a + Cardinality(T) <= m
<1>1. Cardinality(S) \in Nat  BY FS_CardinalityType
<1>2. ASSUME T \subseteq S PROVE a + Cardinality(T) <= m
  <2>1. IsFiniteSet(T) /\ Cardinality(T) <= Cardinality(S)  BY <1>2, FS_Subset
  <2>2. Cardinality(T) \in Nat  BY <2>1, FS_CardinalityType
  <2>3. QED  BY <1>1, <2>1, <2>2
<1>3. ASSUME w \in S, T \subseteq S \ {w} PROVE a + 1 + Cardinality(T) <= m
  <2>1. IsFiniteSet(S \ {w}) /\ Cardinality(S \ {w}) = Cardinality(S) - 1  BY <1>3, FS_RemoveElement
  <2>2. IsFiniteSet(T) /\ Cardinality(T) <= Cardinality(S \ {w})  BY <1>3, <2>1, FS_Subset
  <2>3. Cardinality(T) \in Nat  BY <2>2, FS_CardinalityType
  <2>4. QED  BY <1>1, <2>1, <2>2, <2>3
<1>4. ASSUME T \subseteq S \cup {w}, n < m PROVE a + Cardinality(T) <= m
  <2>1. IsFiniteSet(S \cup {w}) /\ Cardinality(S \cup {w}) \in {Cardinality(S), Cardinality(S) + 1}
    BY FS_AddElement
  <2>2. IsFiniteSet(T) /\ Cardinality(T) <= Cardinality(S \cup {w})  BY <1>4, <2>1, FS_Subset
  <2>3. Cardinality(T) \in Nat  BY <2>2, FS_CardinalityType
  <2>4. QED  BY <1>1, <1>4, <2>1, <2>2, <2>3
<1>5. QED  BY <1>2, <1>3, <1>4

(* Only a search is counted. *)
LEMMA AskedSteps ==
  ASSUME TypeInv, OwnInv, [Next]_vars
  PROVE  \/ asked' = asked
         \/ \E w \in Workers :
              /\ Work(w) /\ Discovering(w) /\ Discovering(w)' /\ exec[w].page # {} /\ exec[w].pc \in {"local", "web"}
              /\ Called(w, exec[w].pc) /\ (Turns(w) \/ Moves(w))
<1>1. ASSUME \/ \E v \in Workers, s \in StageNames : start(v, s)
             \/ \E v \in Workers : crash(v)
             \/ \E s \in StageNames : expire(s)
             \/ midnight \/ UNCHANGED vars
      PROVE  asked' = asked
  BY <1>1 DEF start, crash, expire, midnight, vars, quota
<1>2. ASSUME NEW w \in Workers,
             \/ flush(w) \/ normalize_page(w) \/ normalize_look(w) \/ normalize_write(w)
             \/ exclude_page(w) \/ exclude_row(w)
      PROVE  asked' = asked
  BY <1>2 DEF flush, normalize_page, normalize_look, normalize_write, exclude_page, exclude_row, quota
<1>3. ASSUME NEW w \in Workers,
             \/ discover_page(w) \/ discover_reserve(w) \/ local_search(w)
             \/ discover_reserve_web(w) \/ web_search(w) \/ insert_site(w)
      PROVE  \/ asked' = asked
             \/ /\ Work(w) /\ Discovering(w) /\ Discovering(w)' /\ exec[w].page # {}
                /\ exec[w].pc \in {"local", "web"}
                /\ Called(w, exec[w].pc) /\ (Turns(w) \/ Moves(w))
  <2>1. Work(w)  BY <1>3 DEF Work
  <2>2. Discovering(w)
    BY <1>3 DEF discover_page, discover_reserve, local_search, discover_reserve_web, web_search, insert_site, At,
                Discovering
  <2>3. CASE asked' = asked  BY <2>3
  <2>4. CASE asked' # asked
    <3>1. /\ exec'[w].stage = "homepage_discover" /\ Counted(w)
          /\ Fetches(w) \/ Turns(w) \/ Moves(w)
      BY <2>1, <2>2, <2>4, DiscovererKinds
    <3>2. exec[w].pc \in {"local", "web"} /\ Called(w, exec[w].pc)  BY <2>4, <3>1 DEF Counted
    <3>3. (Turns(w) \/ Moves(w)) /\ exec[w].page # {}
      BY <3>1, <3>2 DEF Fetches, Turns, Moves
    <3>4. QED  BY <2>1, <2>2, <3>1, <3>2, <3>3 DEF Discovering
  <2>5. QED  BY <2>3, <2>4
<1>4. QED  BY <1>1, <1>2, <1>3 DEF Next, Work

(* No execution asks twice, and each may ask once: the calls on an entry and the
   executions that may still make it are never more than the attempts. *)
LEMMA AskStep ==
  ASSUME TypeInv, OwnInv, FeedInv, StoredInv, ExcludeInv, AskInv, [Next]_vars
  PROVE  AskInv'
<1> SUFFICES ASSUME Steady'
             PROVE  /\ \A w \in Workers : Discovering(w)' => Passed(w)'
                    /\ \A k \in DOMAIN asked' : asked'[k] + Cardinality(MayAsk(k)') <= job'["homepage_discover"].tries
  BY DEF AskInv
<1>0. TypeInv' /\ OwnInv'  BY CoreStep
<1>1. Steady  BY SteadyBefore
<1>2. /\ \A w \in Workers : Discovering(w) => Passed(w)
      /\ \A k \in DOMAIN asked : asked[k] + Cardinality(MayAsk(k)) <= job["homepage_discover"].tries
  BY <1>1 DEF AskInv
<1>3. ASSUME NEW v \in Workers, Discovering(v)' PROVE Passed(v)'
  <2>1. CASE exec'[v] = exec[v] /\ Discovering(v)
    <3>1. Ids' = Ids /\ Targets' \subseteq Targets  BY <1>1, <2>1, TargetsShrink
    <3>2. exec'[v].seen = exec[v].seen /\ PageIds(v)' = PageIds(v) /\ exec'[v].offset = exec[v].offset
      BY <2>1 DEF PageIds
    <3>3. Passed(v) /\ PageIds(v) \cap exec[v].seen = {}  BY <1>2, <2>1 DEF Passed
    <3>4. exec[v].offset \in Nat  BY DEF TypeInv, Executions, ExecutionOK
    <3>5. QED  BY <3>1, <3>2, <3>3, <3>4, PassedKept
  <2>2. CASE exec'[v].page = {} /\ exec'[v].seen = {}  BY <2>2 DEF Passed, PageIds
  <2>3. CASE Discovering(v) /\ Fetches(v)  BY <1>0, <1>2, <2>3, PassedFetched
  <2>4. CASE Discovering(v) /\ (Turns(v) \/ Moves(v))
    <3>1. Ids' = Ids /\ Targets' \subseteq Targets  BY <1>1, <2>4, TargetsShrink
    <3>2. Passed(v) /\ PageIds(v) \cap exec[v].seen = {}  BY <1>2, <2>4 DEF Passed
    <3>3. exec[v].offset \in Nat /\ ExecutionOK(exec[v])  BY DEF TypeInv, Executions, ExecutionOK
    <3>4. /\ exec'[v].seen \cup PageIds(v)' \subseteq exec[v].seen \cup PageIds(v)
          /\ PageIds(v)' \cap exec'[v].seen = {} /\ exec'[v].offset = exec[v].offset
      <4>1. CASE Turns(v)
        <5>1. /\ exec'[v].seen = exec[v].seen \cup {Item(v).id} /\ PageIds(v)' = PageIds(v) \ {Item(v).id}
              /\ exec'[v].offset = exec[v].offset
          BY <4>1 DEF Turns
        <5>2. Item(v).id \in PageIds(v)
          BY <3>3, <4>1, ItemFacts DEF Turns, ExecutionOK, PageIds
        <5>3. QED  BY <3>2, <5>1, <5>2
      <4>2. CASE Moves(v)
        <5>1. exec'[v].seen = exec[v].seen /\ PageIds(v)' = PageIds(v) /\ exec'[v].offset = exec[v].offset
          BY <4>2 DEF Moves, PageIds
        <5>2. QED  BY <3>2, <5>1
      <4>3. QED  BY <2>4, <4>1, <4>2
    <3>5. QED  BY <3>1, <3>2, <3>3, <3>4, PassedKept
  <2>5. QED  BY <1>3, <2>1, <2>2, <2>3, <2>4, DiscovererSteps
<1>4. ASSUME NEW k, NEW v \in MayAsk(k)'
      PROVE  v \in MayAsk(k) \/ (start(v, "homepage_discover") /\ Begins(v, "homepage_discover"))
  <2>1. v \in Workers /\ May(v, k)'  BY <1>4 DEF MayAsk
  <2>2. Discovering(v)'  BY <2>1 DEF May
  <2>3. CASE exec'[v] = exec[v] /\ Discovering(v)
    <3>1. May(v, k)  BY <2>1, <2>3 DEF May, Item, Discovering
    <3>2. QED  BY <2>1, <3>1 DEF MayAsk
  <2>4. CASE Discovering(v) /\ (Fetches(v) \/ Turns(v) \/ Moves(v))
    <3>1. May(v, k)  BY <2>1, <2>4, MayOnlyLose
    <3>2. QED  BY <2>1, <3>1 DEF MayAsk
  <2>5. QED  BY <2>1, <2>2, <2>3, <2>4, DiscovererSteps
<1>5. ASSUME NEW k \in DOMAIN asked'
      PROVE  asked'[k] + Cardinality(MayAsk(k)') <= job'["homepage_discover"].tries
  <2> DEFINE n == job["homepage_discover"].tries  m == job'["homepage_discover"].tries
             S == MayAsk(k)  T == MayAsk(k)'
  <2>1. k \in DOMAIN asked /\ asked[k] \in Nat  BY <1>0 DEF TypeInv, Counts
  <2>2. n \in Nat /\ m \in Nat /\ n <= m  BY <1>0, JobSteps, StageNamesAre DEF TypeInv, Jobs
  <2>3. asked[k] + Cardinality(S) <= n  BY <1>2, <2>1
  <2>4. IsFiniteSet(S)  BY AskersFinite
  <2>5. \A v \in T : v \in S \/ (start(v, "homepage_discover") /\ Begins(v, "homepage_discover"))  BY <1>4
  <2>6. CASE \E w \in Workers : Begins(w, "homepage_discover") /\ start(w, "homepage_discover")
    <3>1. PICK w \in Workers : Begins(w, "homepage_discover") /\ start(w, "homepage_discover")  BY <2>6
    <3>2. asked' = asked /\ n < m
      BY <2>2, <3>1, StageNamesAre DEF Begins, start, quota, TypeInv
    <3>3. \A v \in Workers \ {w} : exec'[v] = exec[v] /\ ~Begins(v, "homepage_discover")
      <4>1. \A v \in Workers \ {w} : exec'[v] = exec[v]  BY <3>1 DEF Begins, TypeInv, Executions
      <4>2. job'["homepage_discover"].by = w  BY <3>1, StageNamesAre DEF Begins, TypeInv
      <4>3. \A v \in Workers : Begins(v, "homepage_discover") => job'["homepage_discover"].by = v
        BY StageNamesAre DEF Begins, TypeInv
      <4>4. QED  BY <4>1, <4>2, <4>3
    <3>4. T \subseteq Workers  BY DEF MayAsk
    <3>5. T \subseteq S \cup {w}  BY <2>5, <3>3, <3>4
    <3> HIDE DEF n, m, S, T
    <3>6. asked[k] + Cardinality(T) <= m  BY <2>1, <2>2, <2>3, <2>4, <3>2, <3>5, AskBound
    <3>7. QED  BY <3>2, <3>6 DEF m, T
  <2>7. CASE ~\E w \in Workers : Begins(w, "homepage_discover") /\ start(w, "homepage_discover")
    <3>1. T \subseteq Workers  BY DEF MayAsk
    <3>2. T \subseteq S  BY <2>5, <2>7, <3>1
    <3>3. CASE asked'[k] = asked[k]
      <4> HIDE DEF n, m, S, T
      <4>1. asked[k] + Cardinality(T) <= m  BY <2>1, <2>2, <2>3, <2>4, <3>2, AskBound
      <4>2. QED  BY <3>3, <4>1 DEF m, T
    <3>4. CASE asked'[k] # asked[k]
      <4>1. PICK w \in Workers :
              /\ Work(w) /\ Discovering(w) /\ Discovering(w)' /\ exec[w].page # {} /\ exec[w].pc \in {"local", "web"}
              /\ Called(w, exec[w].pc) /\ (Turns(w) \/ Moves(w))
        BY <3>4, AskedSteps
      <4>2. k = EntryKey(exec[w].pc, w) /\ asked'[k] = asked[k] + 1
        BY <2>1, <3>4, <4>1, CalledFacts DEF TypeInv
      <4>3. May(w, k) /\ ~May(w, k)'  BY <1>2, <4>1, <4>2, MayNoMore
      <4>4. w \in S /\ w \notin T  BY <4>3 DEF MayAsk
      <4> HIDE DEF n, m, S, T
      <4>5. asked[k] + 1 + Cardinality(T) <= m  BY <2>1, <2>2, <2>3, <2>4, <3>2, <4>4, AskBound
      <4>6. QED  BY <4>2, <4>5 DEF m, T
    <3>5. QED  BY <3>3, <3>4
  <2>8. QED  BY <2>6, <2>7
<1>6. QED  BY <1>3, <1>5

(* AskInv in every reachable state; the calls are counted within the attempts. *)
LEMMA AskAlways == Spec => []AskInv
<1>1. Init => AskInv
  <2> SUFFICES ASSUME Init PROVE AskInv  OBVIOUS
  <2>1. \A w \in Workers : ~Discovering(w)  BY IdleFacts, StageNamesAre DEF Init, Discovering
  <2>2. \A k : MayAsk(k) = {}  BY <2>1 DEF MayAsk, May
  <2>3. \A k \in DOMAIN asked : asked[k] = 0  BY DEF Init
  <2>4. job["homepage_discover"].tries = 0  BY StageNamesAre DEF Init
  <2>5. QED  BY <2>1, <2>2, <2>3, <2>4, FS_EmptySet DEF AskInv
<1>2. TypeInv /\ OwnInv /\ FeedInv /\ StoredInv /\ ExcludeInv /\ AskInv /\ [Next]_vars => AskInv'  BY AskStep
<1>3. QED  BY <1>1, <1>2, TypesHold, FeedIsTakenIn, StoredAlways, ExcludeAlways, PTL DEF Spec

(* Calls are booked before they are made, within the cap of the day, each entry
   once; and an execution of the stage makes no call twice, so that an entry
   covers no more calls than there were executions (homepageDiscoverStage). *)
THEOREM CallsPaid == Spec => []CallsArePaid
<1>1. TypeInv /\ AskInv => (Steady => \A k \in DOMAIN asked : asked[k] <= job["homepage_discover"].tries)
  <2> SUFFICES ASSUME TypeInv, AskInv, Steady, NEW k \in DOMAIN asked
               PROVE  asked[k] <= job["homepage_discover"].tries
    OBVIOUS
  <2>1. asked[k] + Cardinality(MayAsk(k)) <= job["homepage_discover"].tries  BY DEF AskInv
  <2>2. asked[k] \in Nat /\ job["homepage_discover"].tries \in Nat /\ Cardinality(MayAsk(k)) \in Nat
    BY AskersFinite, StageNamesAre DEF TypeInv, Counts, Jobs
  <2>3. QED  BY <2>1, <2>2
<1>2. TypeInv /\ PaidInv /\ AskInv => CallsArePaid  BY <1>1 DEF PaidInv, Steady, CallsArePaid
<1>3. QED  BY <1>2, TypesHold, CallsAreBooked, AskAlways, PTL

-----------------------------------------------------------------------------
(* Companies passed over. *)

(* While every lease holds, a discoverer is alone. *)
LEMMA AloneAtWork ==
  ASSUME TypeInv, OwnInv, faults.expiries = 0, NEW w \in Workers, Discovering(w),
         NEW v \in Workers, exec[v].stage # None
  PROVE  v = w
<1>1. exec[v].stage \in StageNames /\ job[exec[v].stage].by = v /\ v # None
  BY NamesAssumption DEF TypeInv, Executions, ExecutionOK, OwnInv, Owns
<1>2. job[exec[v].stage].state = "running"  BY <1>1 DEF OwnInv
<1>3. exec[v].stage = "homepage_discover"  BY <1>1, <1>2, DiscoveryIsLast, StageNamesAre
<1>4. job["homepage_discover"].by = w  BY StageNamesAre DEF OwnInv, Owns, Discovering
<1>5. QED  BY <1>1, <1>3, <1>4

(* Only the steps of a stage write tables. *)
LEMMA OnlyWorkWrites ==
  ASSUME [Next]_vars
  PROVE  \/ UNCHANGED <<company, sites, missed>>
         \/ \E w \in Workers : Work(w)
BY DEF Next, start, crash, expire, midnight, vars, tables

(* Set arithmetic: as many are passed over as were found, at most. *)
LEMMA PassedOver ==
  ASSUME NEW T, NEW S, NEW F, IsFiniteSet(T), IsFiniteSet(S), IsFiniteSet(F),
         S \subseteq T \cup F, Cardinality(T) <= Cardinality(S)
  PROVE  Cardinality(T \ S) <= Cardinality(F)
<1> DEFINE A == T \ S  B == S \ T  C == T \cap S
<1>1. IsFiniteSet(A) /\ IsFiniteSet(B) /\ IsFiniteSet(C)  BY FS_Subset
<1>2. Cardinality(A) \in Nat /\ Cardinality(B) \in Nat /\ Cardinality(C) \in Nat /\ Cardinality(F) \in Nat
  BY <1>1, FS_CardinalityType
<1>3. T = A \cup C /\ S = B \cup C /\ A \cap C = {} /\ B \cap C = {} /\ B \subseteq F  OBVIOUS
<1> HIDE DEF A, B, C
<1>4. Cardinality(A \cup C) = Cardinality(A) + Cardinality(C) - Cardinality(A \cap C)  BY <1>1, FS_Union
<1>5. Cardinality(B \cup C) = Cardinality(B) + Cardinality(C) - Cardinality(B \cap C)  BY <1>1, FS_Union
<1>6. Cardinality(T) = Cardinality(A) + Cardinality(C) /\ Cardinality(S) = Cardinality(B) + Cardinality(C)
  <2>1. Cardinality(A \cap C) = 0 /\ Cardinality(B \cap C) = 0  BY <1>3, FS_EmptySet
  <2>2. Cardinality(A \cup C) = Cardinality(A) + Cardinality(C)  BY <1>2, <1>4, <2>1
  <2>3. Cardinality(B \cup C) = Cardinality(B) + Cardinality(C)  BY <1>2, <1>5, <2>1
  <2>4. QED  BY <1>3, <2>2, <2>3
<1>7. Cardinality(B) <= Cardinality(F)  BY <1>3, FS_Subset
<1>8. Cardinality(A) <= Cardinality(F)  BY <1>2, <1>6, <1>7
<1>9. QED  BY <1>8 DEF A

(* A page adds as many ids as the offset grows. *)
LEMMA BehindFetched ==
  ASSUME TypeInv, TypeInv', NEW v \in Workers, Passed(v), Behind(v), Fetches(v)
  PROVE  Behind(v)'
<1> DEFINE new == OnPage(Targets, exec[v].offset)  page == Page(Targets, company, exec[v].offset)
<1>1. Targets' = Targets /\ PageIds(v)' = new /\ Passed(v)'  BY PassedFetched
<1>2. Targets \in SUBSET Nat /\ IsFiniteSet(Targets)  BY TargetsFinite
<1>3. exec[v].offset \in Nat /\ IsFiniteSet(exec[v].seen)  BY DEF TypeInv, Executions, ExecutionOK
<1>4. Cardinality(page) = Cardinality(new) /\ new \subseteq Targets  BY <1>2, <1>3, PageFacts DEF OnPage
<1>5. /\ exec'[v].seen = exec[v].seen /\ exec'[v].finds = exec[v].finds
      /\ exec'[v].offset = exec[v].offset + Cardinality(page) /\ PageIds(v) = {}
  BY DEF Fetches, PageIds
<1> HIDE DEF new, page
<1>6. exec[v].seen \subseteq Targets \cup exec[v].finds /\ Cardinality(exec[v].seen) = exec[v].offset
  <2>1. exec[v].seen \cup PageIds(v) = exec[v].seen  BY <1>5
  <2>2. QED  BY <2>1 DEF Behind
<1>7. new \cap exec[v].seen = {}  BY <1>1, <1>5 DEF Passed
<1>8. Cardinality(exec[v].seen \cup new) = Cardinality(exec[v].seen) + Cardinality(new)
  <2>1. IsFiniteSet(new)  BY <1>2, <1>4, FS_Subset
  <2>2. Cardinality(exec[v].seen \cup new) =
        Cardinality(exec[v].seen) + Cardinality(new) - Cardinality(exec[v].seen \cap new)
    BY <1>3, <2>1, FS_Union
  <2>3. Cardinality(exec[v].seen \cap new) = 0
    <3>1. exec[v].seen \cap new = {}  BY <1>7
    <3>2. QED  BY <3>1, FS_EmptySet
  <2>4. Cardinality(exec[v].seen) \in Nat /\ Cardinality(new) \in Nat  BY <1>3, <2>1, FS_CardinalityType
  <2>5. QED  BY <2>2, <2>3, <2>4
<1>9. exec'[v].seen \cup PageIds(v)' \subseteq Targets' \cup exec'[v].finds  BY <1>1, <1>4, <1>5, <1>6
<1>10. Cardinality(exec'[v].seen \cup PageIds(v)') = exec'[v].offset  BY <1>1, <1>4, <1>5, <1>6, <1>8
<1>11. QED  BY <1>9, <1>10 DEF Behind

(* A row that is done with stays counted: asked about, or found. *)
LEMMA BehindGoesOn ==
  ASSUME TypeInv, NEW v \in Workers, Behind(v), Turns(v) \/ Moves(v)
  PROVE  Behind(v)'
<1>0. ExecutionOK(exec[v])  BY DEF TypeInv, Executions
<1>1. exec'[v].seen \cup PageIds(v)' = exec[v].seen \cup PageIds(v) /\ exec'[v].offset = exec[v].offset
  <2>1. CASE Turns(v)
    <3>1. /\ exec'[v].seen = exec[v].seen \cup {Item(v).id} /\ PageIds(v)' = PageIds(v) \ {Item(v).id}
          /\ exec'[v].offset = exec[v].offset
      BY <2>1 DEF Turns
    <3>2. Item(v).id \in PageIds(v)  BY <1>0, <2>1, ItemFacts DEF Turns, ExecutionOK, PageIds
    <3>3. QED  BY <3>1, <3>2
  <2>2. CASE Moves(v)  BY <2>2 DEF Moves, PageIds
  <2>3. QED  BY <2>1, <2>2
<1>2. Targets \cup exec[v].finds \subseteq Targets' \cup exec'[v].finds
  <2>1. CASE UNCHANGED <<company, sites>> /\ exec'[v].finds = exec[v].finds
    BY <2>1 DEF Targets, Ids, Observed
  <2>2. CASE /\ exec'[v].finds = exec[v].finds \cup {Item(v).id}
             /\ company' = company /\ \A s \in sites' \ sites : s.company = Item(v).id
    <3>1. ASSUME NEW x \in Targets, x # Item(v).id PROVE x \in Targets'
      <4>1. \A s \in sites' : s.company = x => s.seen = "unavailable"  BY <2>2, <3>1 DEF Targets
      <4>2. QED  BY <2>2, <4>1 DEF Targets, Ids, Observed
    <3>2. QED  BY <2>2, <3>1
  <2>3. QED  BY <2>1, <2>2 DEF Turns, Moves
<1>3. QED
  <2>1. exec'[v].seen \cup PageIds(v)' \subseteq Targets' \cup exec'[v].finds  BY <1>1, <1>2 DEF Behind
  <2>2. Cardinality(exec'[v].seen \cup PageIds(v)') = exec'[v].offset  BY <1>1 DEF Behind
  <2>3. QED  BY <2>1, <2>2 DEF Behind

(* A discovery that ends on an empty page. *)
LEMMA EndsBehind ==
  ASSUME TypeInv, NEW w \in Workers, Discovering(w), Behind(w), discover_page(w), missed' # missed
  PROVE  Cardinality(missed'.never) <= Cardinality(missed'.finds)
<1> DEFINE page == Page(Targets, company, exec[w].offset)  T == Targets  S == exec[w].seen  F == exec[w].finds
<1>1. exec[w].page = {} /\ page = {} /\ missed' = [never |-> T \ S, finds |-> F]
  BY DEF discover_page, Unasked
<1>2. T \in SUBSET Nat /\ IsFiniteSet(T)  BY TargetsFinite
<1>3. exec[w].offset \in Nat /\ IsFiniteSet(S) /\ IsFiniteSet(F)  BY DEF TypeInv, Executions, ExecutionOK
<1>4. \A x \in T : Place(T, x) <= exec[w].offset  BY <1>1, <1>2, <1>3, PageFacts
<1>5. S \subseteq T \cup F /\ Cardinality(S) = exec[w].offset
  <2>1. S \cup PageIds(w) = S  BY <1>1 DEF PageIds
  <2>2. QED  BY <2>1 DEF Behind
<1>6. Cardinality(T) <= exec[w].offset
  <2>1. {y \in T : Place(T, y) <= exec[w].offset} = T  BY <1>4
  <2>2. QED  BY <1>2, <1>3, <2>1, LowPlaces
<1> HIDE DEF page, T, S, F
<1>7. Cardinality(T \ S) <= Cardinality(F)  BY <1>2, <1>3, <1>5, <1>6, PassedOver
<1>8. QED  BY <1>1, <1>7

(* Every step keeps MissInv. *)
LEMMA MissStep ==
  ASSUME TypeInv, OwnInv, FeedInv, StoredInv, ExcludeInv, AskInv, MissInv, [Next]_vars
  PROVE  MissInv'
<1> SUFFICES ASSUME faults'.expiries = 0
             PROVE  /\ Cardinality(missed'.never) <= Cardinality(missed'.finds)
                    /\ \A w \in Workers : Discovering(w)' => Behind(w)'
  BY DEF MissInv
<1>0. TypeInv'  BY CoreStep
<1>1. faults.expiries = 0 /\ Steady
  <2>1. faults.expiries \in Nat /\ faults'.expiries \in {faults.expiries, faults.expiries + 1}
    BY JobSteps DEF TypeInv, Counts
  <2>2. QED  BY <2>1 DEF Steady
<1>2. /\ Cardinality(missed.never) <= Cardinality(missed.finds)
      /\ \A w \in Workers : Discovering(w) => Behind(w) /\ Passed(w)
  BY <1>1 DEF MissInv, AskInv
<1>3. ASSUME missed' # missed PROVE Cardinality(missed'.never) <= Cardinality(missed'.finds)
  <2>1. PICK w \in Workers : discover_page(w)
    BY <1>3 DEF Next, Work, start, crash, expire, midnight, vars, flush, normalize_page, normalize_look,
                normalize_write, exclude_page, exclude_row, discover_reserve, local_search, discover_reserve_web,
                web_search, insert_site, Reserve
  <2>2. Discovering(w)  BY <2>1 DEF discover_page, At, Discovering
  <2>3. QED  BY <1>2, <1>3, <2>1, <2>2, EndsBehind
<1>4. Cardinality(missed'.never) <= Cardinality(missed'.finds)  BY <1>2, <1>3
<1>5. ASSUME NEW v \in Workers, Discovering(v)' PROVE Behind(v)'
  <2>1. CASE Discovering(v) /\ Fetches(v)  BY <1>0, <1>2, <2>1, BehindFetched
  <2>2. CASE Discovering(v) /\ (Turns(v) \/ Moves(v))  BY <1>2, <2>2, BehindGoesOn
  <2>3. CASE exec'[v].page = {} /\ exec'[v].seen = {} /\ exec'[v].offset = 0
    <3>1. exec'[v].seen \cup PageIds(v)' = {}  BY <2>3 DEF PageIds
    <3>2. QED  BY <2>3, <3>1, FS_EmptySet DEF Behind
  <2>4. CASE exec'[v] = exec[v] /\ Discovering(v)
    <3>1. CASE UNCHANGED <<company, sites>>
      <4>1. Targets' = Targets /\ PageIds(v)' = PageIds(v)  BY <2>4, <3>1 DEF Targets, Ids, Observed, PageIds
      <4>2. QED  BY <1>2, <2>4, <4>1 DEF Behind
    <3>2. CASE \E w \in Workers : Work(w)
      <4>1. PICK w \in Workers : Work(w)  BY <3>2
      <4>2. exec[w].stage # None
        <5>1. exec[w].stage \in {"collect", "normalize", "exclude_basic", "homepage_discover"}
          BY <4>1 DEF Work, flush, normalize_page, normalize_look, normalize_write, exclude_page,
              exclude_row, discover_page, discover_reserve, local_search, discover_reserve_web, web_search,
              insert_site, At
        <5>2. QED  BY <5>1, StageNamesAre
      <4>3. w = v  BY <1>1, <2>4, <4>2, AloneAtWork
      <4>4. exec'[v] # Idle  BY <1>5, IdleFacts, StageNamesAre DEF Discovering
      <4>5. Fetches(v) \/ Turns(v) \/ Moves(v)  BY <2>4, <4>1, <4>3, <4>4, DiscovererKinds
      <4>6. QED  BY <2>1, <2>2, <2>4, <4>5
    <3>3. QED  BY <3>1, <3>2, OnlyWorkWrites
  <2>5. QED  BY <1>5, <2>1, <2>2, <2>3, <2>4, DiscovererSteps
<1>6. QED  BY <1>4, <1>5

(* Paging by offset over a set that shrinks with every find passes companies
   over, but while leases hold never more than the execution found
   (homepageDiscoverStage). *)
THEOREM MissedBehindFinds == Spec => []MissedOnlyBehindFinds
<1>1. Init => MissInv
  <2> SUFFICES ASSUME Init PROVE MissInv  OBVIOUS
  <2>1. \A w \in Workers : ~Discovering(w)  BY IdleFacts, StageNamesAre DEF Init, Discovering
  <2>2. missed.never = {} /\ missed.finds = {}  BY DEF Init
  <2>3. QED  BY <2>1, <2>2, FS_EmptySet DEF MissInv
<1>2. TypeInv /\ OwnInv /\ FeedInv /\ StoredInv /\ ExcludeInv /\ AskInv /\ MissInv /\ [Next]_vars => MissInv'
  BY MissStep
<1>3. MissInv => MissedOnlyBehindFinds  BY DEF MissInv, MissedOnlyBehindFinds
<1>4. QED
  BY <1>1, <1>2, <1>3, TypesHold, FeedIsTakenIn, StoredAlways, ExcludeAlways, AskAlways, PTL DEF Spec
=============================================================================
