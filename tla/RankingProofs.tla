--------------------------- MODULE RankingProofs ---------------------------
(***************************************************************************)
(* What holds of the ranking for all companies, observations, settings and *)
(* replacements, and for any number of cuts, suspensions and rejected      *)
(* sites.  Nothing is assumed but what Ranking assumes.                    *)
(*                                                                         *)
(* AnalyzeInv is the contract between an analysis and those who replace    *)
(* competitors while it runs; GateInv adds that the inputs of an untouched *)
(* company stay what score saw; ListInv is what a list and a shortlist     *)
(* that is being made have in common with one made now.  The rules of      *)
(* scoring are used for what the gate refuses (GateAsks), for totals being *)
(* numbers (TotalIsNumber) and for how room is found (ShortlistTakes).     *)
(***************************************************************************)
EXTENDS Ranking, FiniteSetTheorems, SequenceTheorems, TLAPS

Keys == Companies \X Ranks

Todo(s) == exec[s].todo

Held(s) == exec[s].held

Analysis == "competitor_analyze"

-----------------------------------------------------------------------------
(* Types. *)

IsRow(r) ==
  /\ r = [peer |-> r.peer, valid |-> r.valid, metrics |-> r.metrics]
  /\ r.peer \in Companies \cup {None} /\ r.valid \in BOOLEAN
  /\ r.metrics.of \in Companies \cup {None} /\ r.metrics.official \in BOOLEAN

RowsOK == DOMAIN rows = Keys /\ \A k \in Keys : IsRow(rows[k])

(* A stage waits for those it depends on, and holds nothing unless it runs. *)
StagesOK ==
  /\ stage \in [StageNames -> {"pending", "running", "succeeded"}]
  /\ DOMAIN exec = StageNames
  /\ \A s \in StageNames : /\ exec[s] = [todo |-> Todo(s), held |-> Held(s)]
                           /\ stage[s] # "running" => exec[s] = Resting
                           /\ \A d \in dependsOn[s] : stage[s] # "pending" => stage[d] = "succeeded"

FactsOK ==
  /\ DOMAIN obs = Companies /\ \A c \in Companies : "status" \in DOMAIN obs[c]
  /\ DOMAIN scores = Companies
  /\ suspended \subseteq Companies /\ touched \subseteq Companies /\ raced \subseteq Keys

TypeOK == RowsOK /\ StagesOK /\ FactsOK

-----------------------------------------------------------------------------
(* The analysis and what it holds. *)

Jobs == [key : Keys, peer : Companies]

(* What has not been replaced is still the competitor the page named, and has
   no metrics until its turn comes; then it has those that go with the flag. *)
Unreplaced(job, inserted) ==
  /\ rows[job.key].peer = job.peer
  /\ IF inserted THEN /\ rows[job.key].metrics.of = job.peer
                      /\ rows[job.key].metrics.official = Held(Analysis)
     ELSE ~Analysed(job.key)

AnalyzeInv ==
  /\ Todo(Analysis) \in Seq(Jobs)
  /\ \A i, j \in 1 .. Len(Todo(Analysis)) : Todo(Analysis)[i].key = Todo(Analysis)[j].key => i = j
  /\ Held(Analysis) \in BOOLEAN \cup {None}
  /\ Held(Analysis) # None => Todo(Analysis) # <<>>
  /\ \A i \in 1 .. Len(Todo(Analysis)) :
       Todo(Analysis)[i].key \notin raced =>
         Unreplaced(Todo(Analysis)[i], i = 1 /\ Held(Analysis) # None)
  /\ UnracedPeersAreMeasured

-----------------------------------------------------------------------------
(* The gate. *)

Observed == {c \in Targets : obs[c].status # None}

Earned(c) ==
  /\ Official(c) /\ c \notin suspended
  /\ Cardinality({k \in DOMAIN rows : k[1] = c /\ Taken(k) /\ rows[k].valid /\ HasOwnMetrics(k)}) >= 2

Unmoved(c) == c \notin touched /\ \A k \in raced : k[1] # c

Waits(c) == \E i \in 1 .. Len(Todo("score")) : Todo("score")[i].company = c

Entries == [company : Observed, suspended : BOOLEAN]

ScoreTodo ==
  /\ Todo("score") \in Seq(Entries)
  /\ \A i \in 1 .. Len(Todo("score")) :
       Todo("score")[i].company \notin touched =>
         (Todo("score")[i].suspended <=> Todo("score")[i].company \in suspended)
  /\ Held("score") # None =>
       /\ Todo("score") # <<>>
       /\ \A c \in Companies :
            c = Head(Todo("score")).company /\ Held("score").failures = {} /\ Unmoved(c) => Earned(c)

GateInv ==
  /\ \A c \in Companies : scores[c] # None => c \in Observed
  /\ ScoreTodo
  /\ stage["score"] # "pending" =>
       \A c \in Companies : Unmoved(c) /\ GatePassed(c) => Earned(c) \/ Waits(c)

-----------------------------------------------------------------------------
(* Listing a finite set in order. *)

StrictOrder(S, R) ==
  /\ \A x \in S : <<x, x>> \notin R
  /\ \A x, y, z \in S : <<x, y>> \in R /\ <<y, z>> \in R => <<x, z>> \in R
  /\ \A x, y \in S : x # y => <<x, y>> \in R \/ <<y, x>> \in R

Below(S, R, x) == {y \in S : <<y, x>> \in R}

(* How many come before is a number less than how many there are, and tells
   the elements apart. *)
LEMMA PlacesDiffer ==
  ASSUME NEW S, IsFiniteSet(S), NEW R, StrictOrder(S, R)
  PROVE  /\ \A x \in S : Cardinality(Below(S, R, x)) \in 0 .. Cardinality(S) - 1
         /\ \A x, y \in S : Cardinality(Below(S, R, x)) = Cardinality(Below(S, R, y)) => x = y
<1>0. Cardinality(S) \in Nat
  BY FS_CardinalityType
<1>1. ASSUME NEW x \in S
      PROVE  IsFiniteSet(Below(S, R, x)) /\ Cardinality(Below(S, R, x)) \in 0 .. Cardinality(S) - 1
  <2>1. Below(S, R, x) \in SUBSET (S \ {x})
    BY DEF Below, StrictOrder
  <2>2. IsFiniteSet(S \ {x}) /\ Cardinality(S \ {x}) = Cardinality(S) - 1
    BY FS_RemoveElement
  <2>3. IsFiniteSet(Below(S, R, x)) /\ Cardinality(Below(S, R, x)) <= Cardinality(S \ {x})
    BY <2>1, <2>2, FS_Subset
  <2>4. Cardinality(Below(S, R, x)) \in Nat
    BY <2>3, FS_CardinalityType
  <2> QED BY <1>0, <2>2, <2>3, <2>4
<1>2. ASSUME NEW x \in S, NEW y \in S, <<x, y>> \in R
      PROVE  Cardinality(Below(S, R, x)) # Cardinality(Below(S, R, y))
  <2>1. Below(S, R, x) \in SUBSET Below(S, R, y)
    BY <1>2 DEF Below, StrictOrder
  <2>2. x \in Below(S, R, y) /\ x \notin Below(S, R, x)
    BY <1>2 DEF Below, StrictOrder
  <2>3. IsFiniteSet(Below(S, R, y))
    BY <1>1
  <2> QED BY <2>1, <2>2, <2>3, FS_Subset
<1>3. \A x, y \in S : Cardinality(Below(S, R, x)) = Cardinality(Below(S, R, y)) => x = y
  BY <1>2 DEF StrictOrder
<1> QED BY <1>1, <1>3

(* InOrder lists every element of the set, and each of them once. *)
LEMMA InOrderLists ==
  ASSUME NEW S, IsFiniteSet(S), NEW R, StrictOrder(S, R)
  PROVE  /\ InOrder(S, R) \in Seq(S)
         /\ Len(InOrder(S, R)) = Cardinality(S)
         /\ \A i, j \in 1 .. Cardinality(S) : InOrder(S, R)[i] = InOrder(S, R)[j] => i = j
         /\ \A x \in S : \E i \in 1 .. Cardinality(S) : InOrder(S, R)[i] = x
         /\ \A i \in 1 .. Cardinality(S) : Cardinality(Below(S, R, InOrder(S, R)[i])) = i - 1
<1> DEFINE n == Cardinality(S)
           Place == [x \in S |-> Cardinality(Below(S, R, x)) + 1]
<1>0. n \in Nat
  BY FS_CardinalityType
<1>1. \A x \in S : Cardinality(Below(S, R, x)) \in 0 .. n - 1
  BY PlacesDiffer
<1>2. \A x, y \in S : Cardinality(Below(S, R, x)) = Cardinality(Below(S, R, y)) => x = y
  BY PlacesDiffer
<1>3. Place \in Injection(S, 1 .. n)
  <2>1. \A x \in S : Place[x] \in 1 .. n
    BY <1>0, <1>1
  <2>2. \A x, y \in S : Place[x] = Place[y] => x = y
    BY <1>0, <1>1, <1>2
  <2>3. Place \in [S -> 1 .. n]
    BY <2>1
  <2> HIDE DEF Place
  <2> QED BY <2>2, <2>3 DEF Injection, IsInjective
<1>4. Place \in Surjection(S, 1 .. n)
  <2> HIDE DEF Place
  <2>1. IsFiniteSet(1 .. n) /\ Cardinality(1 .. n) = n
    BY <1>0, FS_Interval
  <2> QED BY <1>3, <2>1, FS_Injection
<1>5. \A i \in 1 .. n : \E x \in S : Place[x] = i
  <2> HIDE DEF Place
  <2> QED BY <1>4 DEF Surjection
<1>6. \A i \in 1 .. n : \E x \in S : Cardinality(Below(S, R, x)) = i - 1
  <2> TAKE i \in 1 .. n
  <2>1. PICK x \in S : Place[x] = i
    BY <1>5
  <2>2. Cardinality(Below(S, R, x)) + 1 = i
    BY <2>1
  <2> QED BY <1>0, <1>1, <2>2
<1>7. InOrder(S, R) = [i \in 1 .. n |-> CHOOSE x \in S : Cardinality(Below(S, R, x)) = i - 1]
  BY DEF InOrder, Below
<1>8. \A i \in 1 .. n : InOrder(S, R)[i] \in S /\ Cardinality(Below(S, R, InOrder(S, R)[i])) = i - 1
  BY <1>6, <1>7
<1>9. InOrder(S, R) \in Seq(S) /\ Len(InOrder(S, R)) = n
  <2>1. InOrder(S, R) \in [1 .. n -> S]
    BY <1>7, <1>8
  <2> QED BY <1>0, <2>1
<1>10. \A i, j \in 1 .. n : InOrder(S, R)[i] = InOrder(S, R)[j] => i = j
  BY <1>0, <1>8
<1>11. \A x \in S : \E i \in 1 .. n : InOrder(S, R)[i] = x
  <2> TAKE x \in S
  <2> DEFINE i == Cardinality(Below(S, R, x)) + 1
  <2>1. i \in 1 .. n /\ i - 1 = Cardinality(Below(S, R, x))
    BY <1>0, <1>1
  <2> HIDE DEF i
  <2>2. InOrder(S, R)[i] = x
    BY <1>2, <1>8, <2>1
  <2> QED BY <2>1, <2>2
<1> QED BY <1>8, <1>9, <1>10, <1>11

(* By id. *)
LEMMA ByIdLists ==
  ASSUME NEW S \in SUBSET Companies
  PROVE  /\ ById(S) \in Seq(S)
         /\ \A c \in S : \E i \in 1 .. Len(ById(S)) : ById(S)[i] = c
<1> DEFINE R == {p \in S \X S : p[1] < p[2]}
<1>1. IsFiniteSet(S) /\ S \subseteq Nat
  BY RankingAssumption, FS_Subset
<1>2. StrictOrder(S, R)
  BY <1>1 DEF StrictOrder
<1>3. ById(S) = InOrder(S, R)
  BY DEF ById
<1> HIDE DEF R
<1>4. /\ InOrder(S, R) \in Seq(S) /\ Len(InOrder(S, R)) = Cardinality(S)
      /\ \A x \in S : \E i \in 1 .. Cardinality(S) : InOrder(S, R)[i] = x
  BY <1>1, <1>2, InOrderLists
<1> QED BY <1>3, <1>4

(* The most similar candidates first, the smaller id among equals. *)
LEMMA MostSimilarLists ==
  ASSUME NEW c \in Companies
  PROVE  MostSimilar(c) \in Seq(Companies)
<1> DEFINE S == Candidates(c)
           R == {p \in S \X S : \/ similarity(p[1], c) > similarity(p[2], c)
                                \/ similarity(p[1], c) = similarity(p[2], c) /\ p[1] < p[2]}
<1>1. S \in SUBSET Companies
  BY DEF Candidates
<1>2. IsFiniteSet(S) /\ S \subseteq Nat
  <2> HIDE DEF S
  <2> QED BY <1>1, RankingAssumption, FS_Subset
<1>3. \A p \in S : similarity(p, c) \in Nat
  BY DEF similarity
<1>4. StrictOrder(S, R)
  <2> HIDE DEF S
  <2> QED BY <1>2, <1>3 DEF StrictOrder
<1>5. MostSimilar(c) = InOrder(S, R)
  BY DEF MostSimilar
<1>6. MostSimilar(c) \in Seq(S)
  <2> HIDE DEF S, R
  <2> QED BY <1>2, <1>4, <1>5, InOrderLists
<1> QED BY <1>1, <1>6

(* A page of the analysis names every key once, with its competitor. *)
LEMMA PageLists ==
  ASSUME NEW K \in SUBSET Keys
  PROVE  /\ Page(K) \in Seq([key : K, peer : {rows[k].peer : k \in K}])
         /\ \A i, j \in 1 .. Len(Page(K)) : Page(K)[i].key = Page(K)[j].key => i = j
         /\ \A i \in 1 .. Len(Page(K)) : Page(K)[i].peer = rows[Page(K)[i].key].peer
<1> DEFINE R == {p \in K \X K : p[1][1] < p[2][1] \/ (p[1][1] = p[2][1] /\ p[1][2] < p[2][2])}
           seq == InOrder(K, R)
           n == Cardinality(K)
<1>1. IsFiniteSet(K)
  BY RankingAssumption, FS_Product, FS_Subset DEF Keys
<1>2. \A k \in K : k = <<k[1], k[2]>> /\ k[1] \in Nat /\ k[2] \in Nat
  <2> TAKE k \in K
  <2>1. PICK c \in Companies, r \in Ranks : k = <<c, r>>
    BY DEF Keys
  <2>2. c \in Nat /\ r \in Nat
    BY RankingAssumption
  <2> QED BY <2>1, <2>2
<1>3. StrictOrder(K, R)
  BY <1>2 DEF StrictOrder
<1>4. n \in Nat
  BY <1>1, FS_CardinalityType
<1>5. /\ seq \in Seq(K) /\ Len(seq) = n
      /\ \A i, j \in 1 .. n : seq[i] = seq[j] => i = j
  <2> HIDE DEF R
  <2> QED BY <1>1, <1>3, InOrderLists
<1>6. Page(K) = [i \in DOMAIN seq |-> [key |-> seq[i], peer |-> rows[seq[i]].peer]]
  BY DEF Page
<1> HIDE DEF R, n, seq
<1>7. DOMAIN seq = 1 .. n /\ \A i \in 1 .. n : seq[i] \in K
  BY <1>4, <1>5
<1>8. Page(K) \in [1 .. n -> [key : K, peer : {rows[k].peer : k \in K}]]
  BY <1>6, <1>7
<1>9. Page(K) \in Seq([key : K, peer : {rows[k].peer : k \in K}]) /\ Len(Page(K)) = n
  <2> DEFINE X == [key : K, peer : {rows[k].peer : k \in K}]
  <2>1. Page(K) \in [1 .. n -> X]
    BY <1>8
  <2> HIDE DEF X
  <2>2. Page(K) \in Seq(X) /\ Len(Page(K)) = n
    BY <1>4, <2>1
  <2> QED BY <2>2 DEF X
<1>10. \A i \in 1 .. n : Page(K)[i].key = seq[i] /\ Page(K)[i].peer = rows[seq[i]].peer
  BY <1>6, <1>7
<1> QED BY <1>5, <1>9, <1>10

-----------------------------------------------------------------------------
(* Stages. *)

(* What a step leaves of the execution of a stage, and of the others. *)
Put(s, todo, held) == exec' = [exec EXCEPT ![s] = [todo |-> todo, held |-> held]]

Rest(s) == \A q \in StageNames \ {s} : Todo(q)' = Todo(q) /\ Held(q)' = Held(q)

LEMMA PutLeaves ==
  ASSUME StagesOK, NEW s \in StageNames, NEW todo, NEW held, Put(s, todo, held)
  PROVE  Todo(s)' = todo /\ Held(s)' = held /\ Rest(s)
BY DEF Put, Rest, Todo, Held, StagesOK

(* A record of two fields, and one of them set. *)
LEMMA SetField ==
  ASSUME NEW t, NEW h, NEW e, e = [todo |-> t, held |-> h]
  PROVE  \A x : /\ [e EXCEPT !.held = x] = [todo |-> t, held |-> x]
               /\ [e EXCEPT !.todo = x] = [todo |-> x, held |-> h]
OBVIOUS

(* Every change of an execution is one of these. *)
LEMMA Puts ==
  ASSUME StagesOK, NEW s \in StageNames
  PROVE  /\ \A todo : start(s, todo) => Put(s, todo, None)
         /\ finish(s) \/ fail(s) => Put(s, <<>>, None)
         /\ step(s) => Put(s, Tail(Todo(s)), None)
         /\ \A held : exec' = [exec EXCEPT ![s].held = held] => Put(s, Todo(s), held)
         /\ \A todo : exec' = [exec EXCEPT ![s].todo = todo] => Put(s, todo, Held(s))
<1>0. exec[s] = [todo |-> Todo(s), held |-> Held(s)] /\ DOMAIN exec = StageNames
  BY DEF StagesOK
<1>1. ASSUME NEW todo, start(s, todo)
      PROVE  Put(s, todo, None)
  <2>1. exec[s] = [todo |-> <<>>, held |-> None]
    BY <1>1 DEF start, StagesOK, Resting
  <2>2. exec' = [exec EXCEPT ![s].todo = todo]
    BY <1>1 DEF start
  <2>3. exec' = [exec EXCEPT ![s] = [exec[s] EXCEPT !.todo = todo]]
    BY <2>2
  <2>4. [exec[s] EXCEPT !.todo = todo] = [todo |-> todo, held |-> None]
    BY <2>1
  <2> QED BY <2>3, <2>4 DEF Put
<1>2. finish(s) \/ fail(s) => Put(s, <<>>, None)
  BY DEF finish, fail, Put, Resting
<1>3. step(s) => Put(s, Tail(Todo(s)), None)
  BY <1>0 DEF step, Put, Todo
<1>4. ASSUME NEW held, exec' = [exec EXCEPT ![s].held = held]
      PROVE  Put(s, Todo(s), held)
  <2>1. exec' = [exec EXCEPT ![s] = [exec[s] EXCEPT !.held = held]]
    BY <1>4
  <2>2. [exec[s] EXCEPT !.held = held] = [todo |-> Todo(s), held |-> held]
    BY <1>0, SetField
  <2> QED BY <2>1, <2>2 DEF Put
<1>5. ASSUME NEW todo, exec' = [exec EXCEPT ![s].todo = todo]
      PROVE  Put(s, todo, Held(s))
  <2>1. exec' = [exec EXCEPT ![s] = [exec[s] EXCEPT !.todo = todo]]
    BY <1>5
  <2>2. [exec[s] EXCEPT !.todo = todo] = [todo |-> todo, held |-> Held(s)]
    BY <1>0, SetField
  <2> QED BY <2>1, <2>2 DEF Put
<1> QED BY <1>1, <1>2, <1>3, <1>4, <1>5

(* A stage starts, goes on, ends or is given back; the order of the stages is
   kept. *)
LEMMA StagesKept ==
  ASSUME StagesOK, NEW s \in StageNames,
         \/ \E todo : start(s, todo)
         \/ Running(s) /\ (finish(s) \/ fail(s))
         \/ Running(s) /\ UNCHANGED stage /\ \E todo, held : Put(s, todo, held)
  PROVE  StagesOK'
<1>1. PICK todo, held : Put(s, todo, held)
  BY Puts
<1>2. Todo(s)' = todo /\ Held(s)' = held /\ Rest(s)
  BY <1>1, PutLeaves
<1>3. DOMAIN exec' = StageNames /\ exec'[s] = [todo |-> todo, held |-> held]
  BY <1>1 DEF Put, StagesOK
<1>4. \A q \in StageNames \ {s} : exec'[q] = exec[q]
  BY <1>1 DEF Put, StagesOK
<1>5. \A q \in StageNames : (exec[q] = [todo |-> Todo(q), held |-> Held(q)])'
  BY <1>2, <1>3, <1>4 DEF StagesOK, Rest
<1>6. CASE \E t : start(s, t)
  <2>1. /\ stage[s] = "pending" /\ \A d \in dependsOn[s] : stage[d] = "succeeded"
        /\ stage' = [stage EXCEPT ![s] = "running"]
    BY <1>6 DEF start
  <2> QED BY <1>3, <1>4, <1>5, <2>1 DEF StagesOK, StageNames, dependsOn
<1>7. CASE Running(s) /\ (finish(s) \/ fail(s))
  <2>1. /\ stage[s] = "running"
        /\ stage' = [stage EXCEPT ![s] = "succeeded"] \/ stage' = [stage EXCEPT ![s] = "pending"]
        /\ exec'[s] = Resting
    BY <1>3, <1>7 DEF Running, finish, fail, StagesOK
  <2> QED BY <1>3, <1>4, <1>5, <2>1 DEF StagesOK, StageNames, dependsOn
<1>8. CASE Running(s) /\ UNCHANGED stage
  BY <1>3, <1>4, <1>5, <1>8 DEF StagesOK, Running
<1> QED BY <1>6, <1>7, <1>8

(* Only what runs holds anything. *)
LEMMA HoldersRun ==
  ASSUME StagesOK, NEW s \in StageNames, Todo(s) # <<>> \/ Held(s) # None
  PROVE  Running(s)
BY DEF StagesOK, Running, Resting, Todo, Held

SelectSteps == select_start \/ select_company \/ select_fails \/ select_end

AnalyzeSteps == analyze_start \/ analyze_insert \/ analyze_flag \/ analyze_page

ScoreSteps == score_start \/ score_gather \/ score_persist \/ score_end

(* The steps of each stage, and what happens beside them. *)
LEMMA NextIs ==
  ASSUME Next
  PROVE  \/ SelectSteps \/ AnalyzeSteps \/ ScoreSteps \/ RecommendStage \/ ShortlistStage
         \/ \E r \in Replacements : replace_competitor(r[1], r[2], r[3])
         \/ \E c \in Companies : suspend(c) \/ demote(c) \/ decide_old(c)
         \/ \E s \in StageNames : cut(s)
BY DEF Next, ScoreStages, Others, SelectSteps, AnalyzeSteps, ScoreSteps

(* What a step of a stage is to the stages: it belongs to one. *)
Moves(s) ==
  \/ \E todo : start(s, todo)
  \/ Running(s) /\ (finish(s) \/ fail(s))
  \/ Running(s) /\ UNCHANGED stage /\ \E todo, held : Put(s, todo, held)

LEMMA StepsMove ==
  ASSUME StagesOK
  PROVE  /\ SelectSteps => Moves("competitor_select")
         /\ AnalyzeSteps => Moves(Analysis)
         /\ ScoreSteps => Moves("score")
         /\ RecommendStage => Moves("recommend")
         /\ ShortlistStage => Moves("shortlist")
         /\ \A s \in StageNames : cut(s) => Moves(s)
<1> USE DEF Moves, Idle
<1>0. /\ "competitor_select" \in StageNames /\ Analysis \in StageNames /\ "score" \in StageNames
      /\ "recommend" \in StageNames /\ "shortlist" \in StageNames
  BY DEF StageNames, Analysis
<1>1. SelectSteps => Moves("competitor_select")
  BY <1>0, Puts DEF SelectSteps, select_start, select_company, select_fails, select_end
<1>2. AnalyzeSteps => Moves(Analysis)
  <2>1. analyze_start => Moves(Analysis)
    BY DEF analyze_start, Analysis
  <2>2. analyze_insert => Moves(Analysis)
    BY <1>0, Puts DEF analyze_insert, Analysis
  <2>3. analyze_flag => Moves(Analysis)
    BY <1>0, Puts, HoldersRun DEF analyze_flag, Analysis, Held
  <2>4. analyze_page => Moves(Analysis)
    BY <1>0, Puts DEF analyze_page, Analysis
  <2> QED BY <2>1, <2>2, <2>3, <2>4 DEF AnalyzeSteps
<1>3. ScoreSteps => Moves("score")
  <2>1. score_start \/ score_end => Moves("score")
    BY DEF score_start, score_end
  <2>2. score_gather => Moves("score")
    <3>1. score_gather => Running("score") /\ UNCHANGED stage /\ \E held : exec' = [exec EXCEPT !["score"].held = held]
      BY DEF score_gather
    <3> QED BY <1>0, <3>1, Puts
  <2>3. score_persist => Moves("score")
    BY <1>0, Puts, HoldersRun DEF score_persist, Held
  <2> QED BY <2>1, <2>2, <2>3 DEF ScoreSteps
<1>4. RecommendStage => Moves("recommend")
  BY <1>0, Puts DEF RecommendStage, recommend_start, recommend_company, recommend_end
<1>5. ShortlistStage => Moves("shortlist")
  BY <1>0, Puts DEF ShortlistStage, shortlist_start, shortlist_store, shortlist_fails, shortlist_end
<1>6. \A s \in StageNames : cut(s) => Moves(s)
  BY DEF cut
<1> QED BY <1>1, <1>2, <1>3, <1>4, <1>5, <1>6

(* The order of the stages is kept by every step. *)
LEMMA StagesNext ==
  ASSUME StagesOK, Next \/ UNCHANGED vars
  PROVE  StagesOK'
<1>1. ASSUME NEW s \in StageNames, Moves(s)
      PROVE  StagesOK'
  BY <1>1, StagesKept DEF Moves
<1>2. UNCHANGED <<stage, exec>> => StagesOK'
  BY DEF StagesOK, Todo, Held
<1>3. CASE UNCHANGED vars
  BY <1>2, <1>3 DEF vars
<1>4. CASE SelectSteps \/ AnalyzeSteps \/ ScoreSteps \/ RecommendStage \/ ShortlistStage
  BY <1>1, <1>4, StepsMove DEF StageNames, Analysis
<1>5. CASE \E r \in Replacements : replace_competitor(r[1], r[2], r[3])
  BY <1>2, <1>5 DEF replace_competitor
<1>6. CASE \E c \in Companies : suspend(c) \/ demote(c) \/ decide_old(c)
  BY <1>2, <1>6 DEF suspend, demote, decide_old
<1>7. CASE \E s \in StageNames : cut(s)
  BY <1>1, <1>7, StepsMove
<1> QED BY <1>3, <1>4, <1>5, <1>6, <1>7, NextIs

(* A step that changes nothing the analysis or the gate looks at. *)
Quiet ==
  /\ UNCHANGED <<facts, rows, scores, seen>>
  /\ \A s \in {Analysis, "score"} : Todo(s)' = Todo(s) /\ Held(s)' = Held(s) /\ stage'[s] = stage[s]

(* The steps that do, each of which is looked at below. *)
Loud ==
  \/ select_company \/ AnalyzeSteps \/ ScoreSteps
  \/ \E r \in Replacements : replace_competitor(r[1], r[2], r[3])
  \/ \E c \in Companies : suspend(c) \/ demote(c)
  \/ cut(Analysis) \/ cut("score")

LEMMA QuietOrLoud ==
  ASSUME StagesOK, Next \/ UNCHANGED vars
  PROVE  Quiet \/ Loud
<1> DEFINE Kept == UNCHANGED <<facts, rows, scores, seen>>
<1>1. ASSUME NEW s \in StageNames \ {Analysis, "score"}, Moves(s), Kept
      PROVE  Quiet
  <2>1. PICK todo, held : Put(s, todo, held)
    BY <1>1, Puts DEF Moves
  <2>2. Rest(s)
    BY <2>1, PutLeaves
  <2>3. Analysis \in StageNames \ {s} /\ "score" \in StageNames \ {s}
    BY <1>1 DEF StageNames, Analysis
  <2>4. stage'[Analysis] = stage[Analysis] /\ stage'["score"] = stage["score"]
    BY <1>1, <2>3 DEF Moves, start, finish, fail, StagesOK
  <2> QED BY <1>1, <2>2, <2>3, <2>4 DEF Quiet, Rest
<1>2. Kept /\ UNCHANGED <<stage, exec>> => Quiet
  BY DEF Quiet, Todo, Held
<1>3. CASE SelectSteps
  <2>1. Kept \/ select_company
    BY <1>3 DEF SelectSteps, select_start, select_fails, select_end, out
  <2> QED BY <1>1, <1>3, <2>1, StepsMove DEF Loud, StageNames, Analysis
<1>4. CASE AnalyzeSteps \/ ScoreSteps
  BY <1>4 DEF Loud
<1>5. CASE RecommendStage
  <2>1. Kept
    BY <1>5 DEF RecommendStage, recommend_start, recommend_company, recommend_end, out
  <2> QED BY <1>1, <1>5, <2>1, StepsMove DEF StageNames, Analysis
<1>6. CASE ShortlistStage
  <2>1. Kept
    BY <1>6 DEF ShortlistStage, shortlist_start, shortlist_store, shortlist_fails, shortlist_end, out
  <2> QED BY <1>1, <1>6, <2>1, StepsMove DEF StageNames, Analysis
<1>7. CASE \E r \in Replacements : replace_competitor(r[1], r[2], r[3])
  BY <1>7 DEF Loud
<1>8. CASE \E c \in Companies : suspend(c) \/ demote(c) \/ decide_old(c)
  BY <1>2, <1>8 DEF Loud, decide_old
<1>9. ASSUME NEW s \in StageNames, cut(s)
      PROVE  Quiet \/ Loud
  <2>1. Kept
    BY <1>9 DEF cut, out
  <2> QED BY <1>1, <1>9, <2>1, StepsMove DEF Loud
<1>10. CASE UNCHANGED vars
  BY <1>2, <1>10 DEF vars, out
<1> QED BY <1>3, <1>4, <1>5, <1>6, <1>7, <1>8, <1>9, <1>10, NextIs

(* A replacement names a company, a rank of it and another company. *)
LEMMA ReplacementsAre ==
  ASSUME NEW r \in Replacements
  PROVE  r[1] \in Companies /\ r[2] \in Ranks /\ r[3] \in Companies /\ <<r[1], r[2]>> \in Keys
<1>1. r \in Companies \X Ranks \X Companies
  BY RankingAssumption
<1>2. r[1] \in Companies /\ r[2] \in Ranks /\ r[3] \in Companies
  BY <1>1
<1> QED BY <1>2 DEF Keys

(* The facts of a company keep their shape. *)
LEMMA FactsNext ==
  ASSUME StagesOK, FactsOK, Next \/ UNCHANGED vars
  PROVE  FactsOK'
<1>1. UNCHANGED <<facts, seen>> /\ DOMAIN scores' = DOMAIN scores => FactsOK'
  BY DEF FactsOK, facts, seen
<1>2. CASE Quiet
  BY <1>1, <1>2 DEF Quiet
<1>3. CASE select_company \/ AnalyzeSteps \/ cut(Analysis) \/ cut("score")
  BY <1>1, <1>3 DEF select_company, AnalyzeSteps, analyze_start, analyze_insert, analyze_flag, analyze_page, cut, out
<1>4. CASE ScoreSteps
  <2>1. UNCHANGED <<facts, raced>> /\ (touched' = touched \/ touched' = {}) /\ DOMAIN scores' = DOMAIN scores
    BY <1>4 DEF ScoreSteps, score_start, score_gather, score_persist, score_end, out, seen, facts
  <2> QED BY <2>1 DEF FactsOK, facts
<1>5. CASE \E r \in Replacements : replace_competitor(r[1], r[2], r[3])
  <2>1. PICK r \in Replacements : replace_competitor(r[1], r[2], r[3])
    BY <1>5
  <2>2. /\ UNCHANGED <<facts, scores>> /\ touched' = touched \cup {r[1]}
        /\ raced' \subseteq raced \cup {<<r[1], r[2]>>}
    BY <2>1 DEF replace_competitor
  <2> QED BY <2>2, ReplacementsAre DEF FactsOK, facts
<1>6. CASE \E c \in Companies : suspend(c)
  BY <1>6 DEF suspend, FactsOK, out
<1>7. CASE \E c \in Companies : demote(c)
  <2>1. PICK c \in Companies : demote(c)
    BY <1>7
  <2>2. /\ obs' = [obs EXCEPT ![c].status = "not_official", ![c].kinds = {}]
        /\ touched' = touched \cup {c} /\ UNCHANGED <<suspended, scores, raced>>
    BY <2>1 DEF demote, out
  <2>3. DOMAIN obs' = Companies /\ \A d \in Companies : "status" \in DOMAIN obs'[d]
    BY <2>2 DEF FactsOK
  <2> QED BY <2>2, <2>3 DEF FactsOK
<1> QED BY <1>2, <1>3, <1>4, <1>5, <1>6, <1>7, QuietOrLoud DEF Loud

-----------------------------------------------------------------------------
(* Competitors. *)

(* A competitor just chosen has neither the flag nor metrics. *)
LEMMA ChosenIsBare ==
  ASSUME NEW p \in Companies
  PROVE  /\ IsRow(Chosen(p)) /\ Chosen(p).peer = p /\ Chosen(p).peer # None
         /\ Chosen(p).valid = FALSE /\ Chosen(p).metrics.of = None
BY NullAssumption DEF Chosen, NoMetrics, IsRow

(* A step that only chooses competitors, at ranks that are free, replaced
   under an analysis, or not in its page. *)
Chooses ==
  /\ DOMAIN rows' = Keys /\ raced \subseteq raced'
  /\ Todo(Analysis)' = Todo(Analysis) /\ Held(Analysis)' = Held(Analysis)
  /\ \A k \in Keys : \/ rows'[k] = rows[k]
                     \/ /\ \E p \in Companies : rows'[k] = Chosen(p)
                        /\ \/ ~Taken(k) \/ k \in raced'
                           \/ \A i \in 1 .. Len(Todo(Analysis)) : Todo(Analysis)[i].key # k

LEMMA SelectChooses ==
  ASSUME RowsOK, StagesOK, select_company
  PROVE  Chooses
<1>1. PICK c \in {Head(exec["competitor_select"].todo)} : rows' = Inserted(c, MostSimilar(c))
  BY DEF select_company
<1> DEFINE peers == MostSimilar(c)
<1>2. rows' = [k \in Keys |->
                 IF k[1] = c /\ ~Taken(k) /\ k[2] \in 1 .. PEERS_PER_COMPANY /\ k[2] <= Len(peers)
                 THEN Chosen(peers[k[2]]) ELSE rows[k]]
  BY <1>1 DEF Inserted, RowsOK
<1>3. ASSUME NEW k \in Keys, rows'[k] # rows[k]
      PROVE  ~Taken(k) /\ \E p \in Companies : rows'[k] = Chosen(p)
  <2>1. /\ k[1] = c /\ ~Taken(k) /\ k[2] \in 1 .. PEERS_PER_COMPANY /\ k[2] <= Len(peers)
        /\ rows'[k] = Chosen(peers[k[2]])
    BY <1>2, <1>3
  <2>2. c \in Companies
    BY <2>1 DEF Keys
  <2>3. peers \in Seq(Companies)
    BY <2>2, MostSimilarLists
  <2>4. k[2] \in 1 .. Len(peers)
    BY <2>1, <2>3, RankingAssumption
  <2>5. peers[k[2]] \in Companies
    BY <2>3, <2>4
  <2> QED BY <2>1, <2>5
<1>4. Todo(Analysis)' = Todo(Analysis) /\ Held(Analysis)' = Held(Analysis) /\ UNCHANGED raced
  <2>1. Put("competitor_select", Tail(Todo("competitor_select")), None)
    BY Puts DEF select_company, StageNames
  <2>2. Rest("competitor_select")
    BY <2>1, PutLeaves DEF StageNames
  <2> QED BY <2>2 DEF Rest, StageNames, Analysis, select_company, seen
<1>5. DOMAIN rows' = Keys
  BY <1>2
<1> QED BY <1>3, <1>4, <1>5 DEF Chooses

LEMMA ReplaceChooses ==
  ASSUME RowsOK, AnalyzeInv, NEW r \in Replacements, replace_competitor(r[1], r[2], r[3])
  PROVE  Chooses
<1> DEFINE k == <<r[1], r[2]>>
<1>0. k \in Keys /\ r[3] \in Companies
  BY ReplacementsAre
<1>1. /\ rows' = [rows EXCEPT ![k] = Chosen(r[3])]
      /\ raced' = IF \E i \in DOMAIN Todo(Analysis) : Todo(Analysis)[i].key = k THEN raced \cup {k} ELSE raced
      /\ UNCHANGED exec
  BY DEF replace_competitor, Todo, Analysis
<1> HIDE DEF k
<1>2. DOMAIN Todo(Analysis) = 1 .. Len(Todo(Analysis))
  BY DEF AnalyzeInv
<1>3. k \in raced' \/ \A i \in 1 .. Len(Todo(Analysis)) : Todo(Analysis)[i].key # k
  BY <1>1, <1>2
<1>4. Todo(Analysis)' = Todo(Analysis) /\ Held(Analysis)' = Held(Analysis)
  BY <1>1 DEF Todo, Held
<1> QED BY <1>0, <1>1, <1>3, <1>4 DEF Chooses, RowsOK

(* The metrics of one row, and its flag. *)
LEMMA SetRow ==
  ASSUME RowsOK, NEW k \in Keys
  PROVE  /\ \A m : rows' = [rows EXCEPT ![k].metrics = m] =>
              /\ DOMAIN rows' = Keys /\ \A q \in Keys \ {k} : rows'[q] = rows[q]
              /\ rows'[k] = [peer |-> rows[k].peer, valid |-> rows[k].valid, metrics |-> m]
         /\ \A v : rows' = [rows EXCEPT ![k].valid = v] =>
              /\ DOMAIN rows' = Keys /\ \A q \in Keys \ {k} : rows'[q] = rows[q]
              /\ rows'[k] = [peer |-> rows[k].peer, valid |-> v, metrics |-> rows[k].metrics]
<1>1. rows[k] = [peer |-> rows[k].peer, valid |-> rows[k].valid, metrics |-> rows[k].metrics]
  BY DEF RowsOK, IsRow
<1>2. ASSUME NEW m
      PROVE  [rows[k] EXCEPT !.metrics = m] = [peer |-> rows[k].peer, valid |-> rows[k].valid, metrics |-> m]
  BY <1>1
<1>3. ASSUME NEW v
      PROVE  [rows[k] EXCEPT !.valid = v] = [peer |-> rows[k].peer, valid |-> v, metrics |-> rows[k].metrics]
  BY <1>1
<1>4. ASSUME NEW m, rows' = [rows EXCEPT ![k].metrics = m]
      PROVE  /\ DOMAIN rows' = Keys /\ \A q \in Keys \ {k} : rows'[q] = rows[q]
             /\ rows'[k] = [peer |-> rows[k].peer, valid |-> rows[k].valid, metrics |-> m]
  <2>1. rows' = [rows EXCEPT ![k] = [rows[k] EXCEPT !.metrics = m]]
    BY <1>4
  <2> QED BY <1>2, <2>1 DEF RowsOK
<1>5. ASSUME NEW v, rows' = [rows EXCEPT ![k].valid = v]
      PROVE  /\ DOMAIN rows' = Keys /\ \A q \in Keys \ {k} : rows'[q] = rows[q]
             /\ rows'[k] = [peer |-> rows[k].peer, valid |-> v, metrics |-> rows[k].metrics]
  <2>1. rows' = [rows EXCEPT ![k] = [rows[k] EXCEPT !.valid = v]]
    BY <1>5
  <2> QED BY <1>3, <2>1 DEF RowsOK
<1> QED BY <1>4, <1>5

(* The item in hand is the first one of the page. *)
LEMMA InHand ==
  ASSUME AnalyzeInv, Todo(Analysis) # <<>>
  PROVE  /\ Head(Todo(Analysis)) \in Jobs /\ Head(Todo(Analysis)) = Todo(Analysis)[1]
         /\ Len(Todo(Analysis)) \in Nat /\ 1 \in 1 .. Len(Todo(Analysis))
         /\ Head(Todo(Analysis)).key \in Keys /\ Head(Todo(Analysis)).peer \in Companies
<1>1. Todo(Analysis) \in Seq(Jobs)
  BY DEF AnalyzeInv
<1>2. /\ Head(Todo(Analysis)) \in Jobs /\ Head(Todo(Analysis)) = Todo(Analysis)[1]
      /\ Len(Todo(Analysis)) \in Nat /\ 1 \in 1 .. Len(Todo(Analysis))
  BY <1>1
<1> QED BY <1>2 DEF Jobs

(* An insert stores what is known of the company the page named, and keeps in
   hand whether its site is official. *)
LEMMA InsertIs ==
  ASSUME StagesOK, RowsOK, AnalyzeInv, analyze_insert
  PROVE  LET job == Head(Todo(Analysis)) IN
         /\ Todo(Analysis) # <<>> /\ Held(Analysis) = None
         /\ Todo(Analysis)' = Todo(Analysis) /\ Held(Analysis)' = Official(job.peer)
         /\ DOMAIN rows' = Keys /\ \A q \in Keys \ {job.key} : rows'[q] = rows[q]
         /\ \E m : /\ m.of = job.peer /\ m.official = Official(job.peer)
                   /\ rows'[job.key] = [peer |-> rows[job.key].peer, valid |-> rows[job.key].valid, metrics |-> m]
         /\ UNCHANGED raced
<1> DEFINE job == Head(Todo(Analysis))
<1>1. /\ Todo(Analysis) # <<>> /\ Held(Analysis) = None
      /\ \E m \in {IF Official(job.peer) THEN MetricsOf(job.peer) ELSE NoMetrics(job.peer)} :
           rows' = [rows EXCEPT ![job.key].metrics = m]
      /\ exec' = [exec EXCEPT ![Analysis].held = Official(job.peer)]
      /\ UNCHANGED raced
  BY DEF analyze_insert, Todo, Held, Analysis, seen
<1>2. job.key \in Keys
  BY <1>1, InHand
<1>3. PICK m : /\ m = (IF Official(job.peer) THEN MetricsOf(job.peer) ELSE NoMetrics(job.peer))
               /\ rows' = [rows EXCEPT ![job.key].metrics = m]
  BY <1>1
<1>4. m.of = job.peer /\ m.official = Official(job.peer)
  <2>1. MetricsOf(job.peer).of = job.peer /\ MetricsOf(job.peer).official = TRUE
    BY DEF MetricsOf
  <2>2. NoMetrics(job.peer).of = job.peer /\ NoMetrics(job.peer).official = FALSE
    BY DEF NoMetrics
  <2>3. Official(job.peer) \in BOOLEAN
    BY DEF Official
  <2> QED BY <1>3, <2>1, <2>2, <2>3
<1> HIDE DEF job
<1>5. /\ DOMAIN rows' = Keys /\ \A q \in Keys \ {job.key} : rows'[q] = rows[q]
      /\ rows'[job.key] = [peer |-> rows[job.key].peer, valid |-> rows[job.key].valid, metrics |-> m]
  BY <1>2, <1>3, SetRow
<1>6. Put(Analysis, Todo(Analysis), Official(job.peer))
  BY <1>1, Puts DEF StageNames, Analysis
<1>7. Todo(Analysis)' = Todo(Analysis) /\ Held(Analysis)' = Official(job.peer)
  BY <1>6, PutLeaves DEF StageNames, Analysis
<1>8. Todo(Analysis) # <<>> /\ Held(Analysis) = None /\ UNCHANGED raced
  BY <1>1
<1> QED BY <1>4, <1>5, <1>7, <1>8 DEF job

(* The flag follows, and the item is done with. *)
LEMMA FlagIs ==
  ASSUME StagesOK, RowsOK, AnalyzeInv, analyze_flag
  PROVE  LET job == Head(Todo(Analysis)) IN
         /\ Todo(Analysis) # <<>> /\ Held(Analysis) \in BOOLEAN
         /\ Todo(Analysis)' = Tail(Todo(Analysis)) /\ Held(Analysis)' = None
         /\ DOMAIN rows' = Keys /\ \A q \in Keys \ {job.key} : rows'[q] = rows[q]
         /\ rows'[job.key] = [peer |-> rows[job.key].peer, valid |-> Held(Analysis), metrics |-> rows[job.key].metrics]
         /\ UNCHANGED raced
<1> DEFINE job == Head(Todo(Analysis))
<1>1. /\ Held(Analysis) # None /\ step(Analysis) /\ UNCHANGED raced
      /\ rows' = [rows EXCEPT ![job.key].valid = Held(Analysis)]
  BY DEF analyze_flag, Todo, Held, Analysis, seen
<1>2. Todo(Analysis) # <<>> /\ Held(Analysis) \in BOOLEAN
  BY <1>1 DEF AnalyzeInv
<1>3. job.key \in Keys
  BY <1>2, InHand
<1> HIDE DEF job
<1>4. /\ DOMAIN rows' = Keys /\ \A q \in Keys \ {job.key} : rows'[q] = rows[q]
      /\ rows'[job.key] = [peer |-> rows[job.key].peer, valid |-> Held(Analysis), metrics |-> rows[job.key].metrics]
  BY <1>1, <1>3, SetRow
<1>5. Put(Analysis, Tail(Todo(Analysis)), None)
  BY <1>1, Puts DEF StageNames, Analysis
<1>6. Todo(Analysis)' = Tail(Todo(Analysis)) /\ Held(Analysis)' = None
  BY <1>5, PutLeaves DEF StageNames, Analysis
<1> QED BY <1>1, <1>2, <1>4, <1>6 DEF job

(* The other steps of the analysis change no row: it takes a page, or none. *)
PageOrNone(todo) == todo = <<>> \/ todo = Page(Unanalysed)

LEMMA TurnIs ==
  ASSUME StagesOK, AnalyzeInv, analyze_start \/ analyze_page \/ cut(Analysis)
  PROVE  /\ PageOrNone(Todo(Analysis)') /\ Held(Analysis)' = None
         /\ UNCHANGED <<rows, raced>>
<1>0. Analysis \in StageNames
  BY DEF StageNames, Analysis
<1>1. UNCHANGED <<rows, raced>>
  BY DEF analyze_start, analyze_page, cut, out, seen
<1>2. CASE analyze_start
  <2>1. Put(Analysis, Page(Unanalysed), None)
    BY <1>0, <1>2, Puts DEF analyze_start, Analysis
  <2> QED BY <1>0, <1>1, <2>1, PutLeaves DEF PageOrNone
<1>3. CASE analyze_page
  <2>1. Todo(Analysis) = <<>>
    BY <1>3 DEF analyze_page, Idle, Todo, Analysis
  <2>2. Held(Analysis) = None
    BY <2>1 DEF AnalyzeInv
  <2>3. finish(Analysis) \/ exec' = [exec EXCEPT ![Analysis].todo = Page(Unanalysed)]
    BY <1>3 DEF analyze_page, Analysis
  <2>4. Put(Analysis, <<>>, None) \/ Put(Analysis, Page(Unanalysed), None)
    BY <1>0, <2>2, <2>3, Puts
  <2> QED BY <1>0, <1>1, <2>4, PutLeaves DEF PageOrNone
<1>4. CASE cut(Analysis)
  <2>1. Put(Analysis, <<>>, None)
    BY <1>0, <1>4, Puts DEF cut
  <2> QED BY <1>0, <1>1, <2>1, PutLeaves DEF PageOrNone
<1> QED BY <1>2, <1>3, <1>4

(* Every row keeps its shape. *)
LEMMA RowsNext ==
  ASSUME TypeOK, AnalyzeInv, Next \/ UNCHANGED vars
  PROVE  RowsOK'
<1> USE DEF TypeOK
<1>1. rows' = rows => RowsOK'
  BY DEF RowsOK
<1>2. Chooses => RowsOK'
  BY ChosenIsBare DEF Chooses, RowsOK
<1>3. analyze_insert => RowsOK'
  <2> SUFFICES ASSUME analyze_insert PROVE RowsOK'
    OBVIOUS
  <2> DEFINE job == Head(Todo(Analysis))
  <2>1. PICK m : /\ m.of = job.peer /\ m.official = Official(job.peer)
                 /\ rows'[job.key] = [peer |-> rows[job.key].peer, valid |-> rows[job.key].valid, metrics |-> m]
    BY InsertIs
  <2>2. /\ Todo(Analysis) # <<>> /\ DOMAIN rows' = Keys
        /\ \A q \in Keys \ {job.key} : rows'[q] = rows[q]
    BY InsertIs
  <2>3. job.key \in Keys /\ job.peer \in Companies
    BY <2>2, InHand
  <2>4. Official(job.peer) \in BOOLEAN
    BY DEF Official
  <2> HIDE DEF job
  <2>5. IsRow(rows'[job.key])
    BY <2>1, <2>3, <2>4 DEF IsRow, RowsOK
  <2> QED BY <2>2, <2>5 DEF RowsOK
<1>4. analyze_flag => RowsOK'
  <2> SUFFICES ASSUME analyze_flag PROVE RowsOK'
    OBVIOUS
  <2> DEFINE job == Head(Todo(Analysis))
  <2>1. /\ Todo(Analysis) # <<>> /\ Held(Analysis) \in BOOLEAN /\ DOMAIN rows' = Keys
        /\ \A q \in Keys \ {job.key} : rows'[q] = rows[q]
        /\ rows'[job.key] = [peer |-> rows[job.key].peer, valid |-> Held(Analysis), metrics |-> rows[job.key].metrics]
    BY FlagIs
  <2>2. job.key \in Keys
    BY <2>1, InHand
  <2> HIDE DEF job
  <2>3. IsRow(rows'[job.key])
    BY <2>1, <2>2 DEF IsRow, RowsOK
  <2> QED BY <2>1, <2>3 DEF RowsOK
<1>5. CASE Quiet
  BY <1>1, <1>5 DEF Quiet
<1>6. CASE select_company
  BY <1>2, <1>6, SelectChooses
<1>7. CASE AnalyzeSteps \/ cut(Analysis)
  BY <1>1, <1>3, <1>4, <1>7, TurnIs DEF AnalyzeSteps
<1>8. CASE ScoreSteps \/ cut("score") \/ \E c \in Companies : suspend(c) \/ demote(c)
  BY <1>1, <1>8 DEF ScoreSteps, score_start, score_gather, score_persist, score_end, cut, suspend, demote, out
<1>9. CASE \E r \in Replacements : replace_competitor(r[1], r[2], r[3])
  BY <1>2, <1>9, ReplaceChooses
<1> QED BY <1>5, <1>6, <1>7, <1>8, <1>9, QuietOrLoud DEF Loud

(* Choosing competitors leaves the analysis what it knows. *)
LEMMA AnalyzeChooses ==
  ASSUME RowsOK, AnalyzeInv, Chooses
  PROVE  AnalyzeInv'
<1> DEFINE todo == Todo(Analysis)
<1>1. todo \in Seq(Jobs) /\ \A i \in 1 .. Len(todo) : todo[i] \in Jobs
  BY DEF AnalyzeInv
<1>2. todo' = todo /\ Held(Analysis)' = Held(Analysis) /\ raced \subseteq raced'
  BY DEF Chooses
<1>3. ASSUME NEW i \in 1 .. Len(todo), todo[i].key \notin raced'
      PROVE  Unreplaced(todo[i], i = 1 /\ Held(Analysis) # None)'
  <2> DEFINE k == todo[i].key
  <2>1. k \in Keys /\ todo[i].peer \in Companies
    BY <1>1 DEF Jobs
  <2>2. Unreplaced(todo[i], i = 1 /\ Held(Analysis) # None)
    BY <1>2, <1>3 DEF AnalyzeInv
  <2>3. Taken(k)
    BY <2>1, <2>2, NullAssumption DEF Unreplaced, Taken
  <2>4. rows'[k] = rows[k]
    BY <1>3, <2>1, <2>3 DEF Chooses
  <2> QED BY <1>2, <2>2, <2>4 DEF Unreplaced, Analysed
<1>4. UnracedPeersAreMeasured'
  <2> SUFFICES ASSUME NEW k \in Keys \ raced', Taken(k)', rows'[k].valid
               PROVE  HasOwnMetrics(k)'
    BY DEF UnracedPeersAreMeasured, Chooses
  <2>1. rows'[k] = rows[k]
    BY ChosenIsBare DEF Chooses
  <2>2. HasOwnMetrics(k)
    BY <1>2, <2>1 DEF AnalyzeInv, UnracedPeersAreMeasured, RowsOK, Taken
  <2> QED BY <2>1, <2>2 DEF HasOwnMetrics, Analysed
<1>5. \A i \in 1 .. Len(todo) : todo[i].key \notin raced' =>
        Unreplaced(todo[i], i = 1 /\ Held(Analysis) # None)'
  BY <1>3
<1> QED BY <1>2, <1>4, <1>5 DEF AnalyzeInv

(* A page names what is there and has no metrics. *)
LEMMA AnalyzeTurns ==
  ASSUME TypeOK, AnalyzeInv, analyze_start \/ analyze_page \/ cut(Analysis)
  PROVE  AnalyzeInv'
<1> USE DEF TypeOK
<1>1. PageOrNone(Todo(Analysis)') /\ Held(Analysis)' = None /\ UNCHANGED <<rows, raced>>
  BY TurnIs
<1>2. UnracedPeersAreMeasured'
  <2>1. UnracedPeersAreMeasured
    BY DEF AnalyzeInv
  <2> QED BY <1>1, <2>1 DEF UnracedPeersAreMeasured, Taken, HasOwnMetrics, Analysed
<1>3. CASE Todo(Analysis)' = <<>>
  <2>1. Todo(Analysis)' \in Seq(Jobs) /\ Len(Todo(Analysis)') = 0
    BY <1>3
  <2> QED BY <1>1, <1>2, <2>1 DEF AnalyzeInv
<1>4. CASE Todo(Analysis)' = Page(Unanalysed)
  <2> DEFINE page == Page(Unanalysed)
  <2>1. Unanalysed \in SUBSET Keys
    BY DEF Unanalysed, RowsOK
  <2> DEFINE P == [key : Unanalysed, peer : {rows[k].peer : k \in Unanalysed}]
  <2>2. /\ page \in Seq(P)
        /\ \A i, j \in 1 .. Len(page) : page[i].key = page[j].key => i = j
        /\ \A i \in 1 .. Len(page) : page[i].peer = rows[page[i].key].peer
    BY <2>1, PageLists
  <2>3. P \subseteq Jobs /\ \A x \in P : x.key \in Unanalysed
    <3>1. \A k \in Unanalysed : k \in Keys /\ rows[k].peer \in Companies
      BY DEF Unanalysed, Taken, RowsOK, IsRow
    <3> QED BY <3>1 DEF Jobs
  <2> HIDE DEF page, P
  <2>4. page \in Seq(Jobs)
    BY <2>2, <2>3
  <2>5. \A i \in 1 .. Len(page) : page[i].key \in Unanalysed
    BY <2>2, <2>3
  <2>6. Todo(Analysis)' = page
    BY <1>4 DEF page
  <2>7. \A i \in 1 .. Len(Todo(Analysis)') :
          Todo(Analysis)'[i].key \notin raced' =>
            Unreplaced(Todo(Analysis)[i], i = 1 /\ Held(Analysis) # None)'
    BY <1>1, <2>2, <2>5, <2>6 DEF Unreplaced, Unanalysed, Analysed
  <2> QED BY <1>1, <1>2, <2>2, <2>4, <2>6, <2>7 DEF AnalyzeInv
<1> QED BY <1>1, <1>3, <1>4 DEF PageOrNone

(* The metrics are stored while the flag is still down. *)
LEMMA AnalyzeInserts ==
  ASSUME TypeOK, AnalyzeInv, analyze_insert
  PROVE  AnalyzeInv'
<1> USE DEF TypeOK
<1> DEFINE todo == Todo(Analysis)
           job == Head(todo)
<1>1. PICK m : /\ m.of = job.peer /\ m.official = Official(job.peer)
               /\ rows'[job.key] = [peer |-> rows[job.key].peer, valid |-> rows[job.key].valid, metrics |-> m]
  BY InsertIs
<1>2. /\ todo # <<>> /\ Held(Analysis) = None
      /\ todo' = todo /\ Held(Analysis)' = Official(job.peer)
      /\ DOMAIN rows' = Keys /\ \A q \in Keys \ {job.key} : rows'[q] = rows[q]
      /\ UNCHANGED raced
  BY InsertIs
<1>3. /\ job = todo[1] /\ 1 \in 1 .. Len(todo) /\ job.key \in Keys /\ job.peer \in Companies
  BY <1>2, InHand
<1>4. Official(job.peer) \in BOOLEAN /\ Official(job.peer) # None
  <2>1. Official(job.peer) \in BOOLEAN
    BY DEF Official
  <2> QED BY <2>1, NullAssumption
<1>5. /\ todo \in Seq(Jobs) /\ \A i \in 1 .. Len(todo) : todo[i].key \in Keys
      /\ \A i, j \in 1 .. Len(todo) : todo[i].key = todo[j].key => i = j
      /\ UnracedPeersAreMeasured
      /\ \A i \in 1 .. Len(todo) : todo[i].key \notin raced => Unreplaced(todo[i], FALSE)
  <2>1. /\ todo \in Seq(Jobs)
        /\ \A i, j \in 1 .. Len(todo) : todo[i].key = todo[j].key => i = j
        /\ UnracedPeersAreMeasured
        /\ \A i \in 1 .. Len(todo) : todo[i].key \notin raced => Unreplaced(todo[i], i = 1 /\ Held(Analysis) # None)
    BY DEF AnalyzeInv
  <2> HIDE DEF todo
  <2>2. \A i \in 1 .. Len(todo) : todo[i] \in Jobs
    BY <2>1
  <2> QED BY <1>2, <2>1, <2>2 DEF Jobs
<1> HIDE DEF job, todo
<1>6. \A i \in 1 .. Len(todo) : todo[i].key \notin raced =>
        /\ rows'[todo[i].key].peer = todo[i].peer
        /\ i = 1 => /\ rows'[todo[i].key].metrics.of = todo[i].peer
                    /\ rows'[todo[i].key].metrics.official = Official(job.peer)
        /\ i # 1 => rows'[todo[i].key].metrics.of = None
  <2> SUFFICES ASSUME NEW i \in 1 .. Len(todo), todo[i].key \notin raced
               PROVE  /\ rows'[todo[i].key].peer = todo[i].peer
                      /\ i = 1 => /\ rows'[todo[i].key].metrics.of = todo[i].peer
                                  /\ rows'[todo[i].key].metrics.official = Official(job.peer)
                      /\ i # 1 => rows'[todo[i].key].metrics.of = None
    OBVIOUS
  <2>1. Unreplaced(todo[i], FALSE)
    BY <1>5
  <2>3. CASE i = 1
    <3>1. todo[i] = job
      BY <1>3, <2>3
    <3>2. rows'[job.key].peer = job.peer /\ rows'[job.key].metrics = m
      BY <1>1, <2>1, <3>1 DEF Unreplaced
    <3> QED BY <1>1, <2>3, <3>1, <3>2
  <2>4. CASE i # 1
    <3>1. todo[i].key # job.key
      BY <1>3, <1>5, <2>4
    <3>2. rows'[todo[i].key] = rows[todo[i].key]
      BY <1>2, <1>5, <3>1
    <3> QED BY <2>1, <2>4, <3>2 DEF Unreplaced, Analysed
  <2> QED BY <2>3, <2>4
<1>7. UnracedPeersAreMeasured'
  <2> SUFFICES ASSUME NEW k \in Keys \ raced, Taken(k)', rows'[k].valid
               PROVE  HasOwnMetrics(k)'
    BY <1>2 DEF UnracedPeersAreMeasured
  <2>1. k # job.key
    <3> SUFFICES ASSUME k = job.key PROVE FALSE
      OBVIOUS
    <3>1. ~Analysed(k)
      BY <1>3, <1>5 DEF Unreplaced
    <3>2. Taken(k) /\ rows[k].valid
      BY <1>1 DEF Taken
    <3> QED BY <1>5, <3>1, <3>2 DEF UnracedPeersAreMeasured, RowsOK, HasOwnMetrics
  <2>2. rows'[k] = rows[k]
    BY <1>2, <2>1
  <2>3. HasOwnMetrics(k)
    BY <1>5, <2>2 DEF UnracedPeersAreMeasured, RowsOK, Taken
  <2> QED BY <2>2, <2>3 DEF HasOwnMetrics, Analysed
<1>8. Todo(Analysis)' = todo /\ Held(Analysis)' = Official(job.peer) /\ UNCHANGED raced
  BY <1>2 DEF todo
<1>9. \A i \in 1 .. Len(Todo(Analysis)') : Todo(Analysis)'[i].key \notin raced' =>
        Unreplaced(Todo(Analysis)[i], i = 1 /\ Held(Analysis) # None)'
  BY <1>4, <1>6, <1>8 DEF Unreplaced, Analysed
<1>10. todo # <<>>
  BY <1>2
<1> QED BY <1>4, <1>5, <1>7, <1>8, <1>9, <1>10 DEF AnalyzeInv

(* The flag goes with the metrics, unless the competitor was replaced. *)
LEMMA AnalyzeFlags ==
  ASSUME TypeOK, AnalyzeInv, analyze_flag
  PROVE  AnalyzeInv'
<1> USE DEF TypeOK
<1> DEFINE todo == Todo(Analysis)
           job == Head(todo)
           rest == Tail(todo)
<1>1. /\ todo # <<>> /\ Held(Analysis) \in BOOLEAN /\ UNCHANGED raced
      /\ Todo(Analysis)' = rest /\ Held(Analysis)' = None
      /\ DOMAIN rows' = Keys /\ \A q \in Keys \ {job.key} : rows'[q] = rows[q]
      /\ rows'[job.key] = [peer |-> rows[job.key].peer, valid |-> Held(Analysis), metrics |-> rows[job.key].metrics]
  BY FlagIs
<1>2. /\ job = todo[1] /\ 1 \in 1 .. Len(todo) /\ job.key \in Keys /\ job.peer \in Companies
  BY <1>1, InHand
<1>3. \A b \in BOOLEAN : b # None
  BY NullAssumption
<1>4. /\ todo \in Seq(Jobs)
      /\ \A i, j \in 1 .. Len(todo) : todo[i].key = todo[j].key => i = j
      /\ UnracedPeersAreMeasured
      /\ \A i \in 1 .. Len(todo) : todo[i].key \notin raced => Unreplaced(todo[i], i = 1)
  BY <1>1, <1>3 DEF AnalyzeInv
<1>5. \A i \in 1 .. Len(todo) : todo[i].key \in Keys
  <2>1. \A i \in 1 .. Len(todo) : todo[i] \in Jobs
    BY <1>4
  <2> HIDE DEF todo
  <2> QED BY <2>1 DEF Jobs
<1>6. /\ rest \in Seq(Jobs) /\ Len(rest) = Len(todo) - 1
      /\ \A i \in 1 .. Len(rest) : rest[i] = todo[i + 1] /\ i + 1 \in 1 .. Len(todo) /\ i + 1 # 1
  BY <1>1, <1>4
<1> HIDE DEF rest, job, todo
<1>7. \A i, j \in 1 .. Len(rest) : rest[i].key = rest[j].key => i = j
  BY <1>4, <1>6
<1>8. \A i \in 1 .. Len(rest) : rest[i].key \notin raced =>
        rows'[rest[i].key].peer = rest[i].peer /\ rows'[rest[i].key].metrics.of = None
  <2> SUFFICES ASSUME NEW i \in 1 .. Len(rest), rest[i].key \notin raced
               PROVE  rows'[rest[i].key].peer = rest[i].peer /\ rows'[rest[i].key].metrics.of = None
    OBVIOUS
  <2>1. Unreplaced(rest[i], FALSE)
    BY <1>4, <1>6
  <2>2. rest[i].key # job.key /\ rest[i].key \in Keys
    BY <1>2, <1>4, <1>5, <1>6
  <2>3. rows'[rest[i].key] = rows[rest[i].key]
    BY <1>1, <2>2
  <2> QED BY <2>1, <2>3 DEF Unreplaced, Analysed
<1>9. UnracedPeersAreMeasured'
  <2> SUFFICES ASSUME NEW k \in Keys \ raced, Taken(k)', rows'[k].valid
               PROVE  HasOwnMetrics(k)'
    BY <1>1 DEF UnracedPeersAreMeasured
  <2>1. CASE k = job.key
    <3>1. rows[k].peer = job.peer /\ rows[k].metrics.of = job.peer /\ rows[k].metrics.official = Held(Analysis)
      BY <1>2, <1>4, <2>1 DEF Unreplaced
    <3>2. rows'[k].peer = job.peer /\ rows'[k].metrics.of = job.peer /\ rows'[k].metrics.official
      BY <1>1, <2>1, <3>1
    <3>3. job.peer # None
      BY <1>2, NullAssumption
    <3> QED BY <3>2, <3>3 DEF HasOwnMetrics, Analysed
  <2>2. CASE k # job.key
    <3>1. rows'[k] = rows[k]
      BY <1>1, <2>2
    <3>2. HasOwnMetrics(k)
      BY <1>4, <3>1 DEF UnracedPeersAreMeasured, RowsOK, Taken
    <3> QED BY <3>1, <3>2 DEF HasOwnMetrics, Analysed
  <2> QED BY <2>1, <2>2
<1>10. \A i \in 1 .. Len(Todo(Analysis)') : Todo(Analysis)'[i].key \notin raced' =>
         Unreplaced(Todo(Analysis)[i], i = 1 /\ Held(Analysis) # None)'
  BY <1>1, <1>8 DEF Unreplaced, Analysed
<1> QED BY <1>1, <1>6, <1>7, <1>9, <1>10 DEF AnalyzeInv

LEMMA AnalyzeNext ==
  ASSUME TypeOK, AnalyzeInv, Next \/ UNCHANGED vars
  PROVE  AnalyzeInv'
<1> USE DEF TypeOK
<1>1. UNCHANGED <<rows, raced>> /\ Todo(Analysis)' = Todo(Analysis) /\ Held(Analysis)' = Held(Analysis) => Chooses
  BY DEF Chooses, RowsOK
<1>2. Chooses => AnalyzeInv'
  BY AnalyzeChooses
<1>3. CASE Quiet
  BY <1>1, <1>2, <1>3 DEF Quiet, seen
<1>4. CASE select_company
  BY <1>2, <1>4, SelectChooses
<1>5. CASE AnalyzeSteps \/ cut(Analysis)
  BY <1>5, AnalyzeTurns, AnalyzeInserts, AnalyzeFlags DEF AnalyzeSteps
<1>6. CASE ScoreSteps \/ cut("score")
  <2>1. UNCHANGED <<rows, raced>>
    BY <1>6 DEF ScoreSteps, score_start, score_gather, score_persist, score_end, cut, out, seen
  <2>2. PICK todo, held : Put("score", todo, held)
    BY <1>6, StepsMove, Puts DEF Moves, StageNames
  <2>3. Todo(Analysis)' = Todo(Analysis) /\ Held(Analysis)' = Held(Analysis)
    BY <2>2, PutLeaves DEF Rest, StageNames, Analysis
  <2> QED BY <1>1, <1>2, <2>1, <2>3
<1>7. CASE \E c \in Companies : suspend(c) \/ demote(c)
  BY <1>1, <1>2, <1>7 DEF suspend, demote, out, Todo, Held
<1>8. CASE \E r \in Replacements : replace_competitor(r[1], r[2], r[3])
  BY <1>2, <1>8, ReplaceChooses
<1> QED BY <1>3, <1>4, <1>5, <1>6, <1>7, <1>8, QuietOrLoud DEF Loud

-----------------------------------------------------------------------------
(* The gate. *)

(* Who passes the gate may be contacted, is official and has two competitors
   that count. *)
LEMMA GateAsks ==
  ASSUME NEW f, NEW weaknesses, NEW a, NEW settings, f.suspended \in BOOLEAN,
         failures(f, weaknesses, a, settings) = {}
  PROVE  /\ ~f.suspended /\ f.status \in {"confirmed", "likely"}
         /\ Cardinality({p \in f.peers : p.valid}) >= 2
<1>1. ~f.suspended
  <2> SUFFICES ASSUME f.suspended PROVE "do_not_contact" \in failures(f, weaknesses, a, settings)
    OBVIOUS
  <2> QED BY DEF failures
<1>2. f.status \in {"confirmed", "likely"}
  <2> SUFFICES ASSUME f.status \notin {"confirmed", "likely"}
               PROVE  "official_status" \in failures(f, weaknesses, a, settings)
    OBVIOUS
  <2> QED BY DEF failures
<1>3. competitorGapAvailable(f)
  <2> SUFFICES ASSUME ~competitorGapAvailable(f)
               PROVE  "competitor_gap" \in failures(f, weaknesses, a, settings)
    OBVIOUS
  <2> QED BY DEF failures
<1>4. Cardinality({p \in f.peers : p.valid}) >= 2
  BY <1>3 DEF competitorGapAvailable, validCompetitors, MIN_VALID_COMPETITORS
<1> QED BY <1>1, <1>2, <1>4

(* The competitors of a company that count, and have their own numbers. *)
Counting(c) == {k \in DOMAIN rows : k[1] = c /\ Taken(k) /\ rows[k].valid /\ HasOwnMetrics(k)}

(* As many as the gate counted are there. *)
LEMMA PeersAreRows ==
  ASSUME RowsOK, AnalyzeInv, NEW c \in Companies, \A k \in raced : k[1] # c
  PROVE  LET peers == {Peer(k) : k \in {m \in DOMAIN rows : m[1] = c /\ Taken(m)}} IN
         Cardinality({p \in peers : p.valid}) >= 2 => Cardinality(Counting(c)) >= 2
<1> DEFINE Of == {m \in DOMAIN rows : m[1] = c /\ Taken(m)}
           Counted == {p \in {Peer(k) : k \in Of} : p.valid}
           f == [k \in Counting(c) |-> Peer(k)]
<1>1. IsFiniteSet(Keys)
  BY RankingAssumption, FS_Product DEF Keys
<1>2. IsFiniteSet(Counting(c))
  BY <1>1, FS_Subset DEF Counting, RowsOK
<1>3. \A k \in Of : Peer(k).valid = rows[k].valid
  BY DEF Peer
<1>4. \A k \in Of : rows[k].valid => k \in Counting(c)
  BY DEF Counting, AnalyzeInv, UnracedPeersAreMeasured
<1>5. \A p \in Counted : \E k \in Counting(c) : p = Peer(k)
  BY <1>3, <1>4
<1>6. \A k \in Counting(c) : Peer(k) \in Counted
  BY <1>3 DEF Counting
<1>7. f \in Surjection(Counting(c), Counted)
  <2>1. f \in [Counting(c) -> Counted]
    BY <1>6
  <2>2. \A p \in Counted : \E k \in Counting(c) : f[k] = p
    BY <1>5
  <2> HIDE DEF f, Counted
  <2> QED BY <2>1, <2>2 DEF Surjection
<1>8. IsFiniteSet(Counted) /\ Cardinality(Counted) <= Cardinality(Counting(c))
  <2> HIDE DEF f, Counted
  <2> QED BY <1>2, <1>7, FS_Surjection
<1>9. Cardinality(Counted) \in Nat /\ Cardinality(Counting(c)) \in Nat
  BY <1>2, <1>8, FS_CardinalityType
<1> HIDE DEF Counted
<1>10. Cardinality(Counted) >= 2 => Cardinality(Counting(c)) >= 2
  BY <1>8, <1>9
<1> QED BY <1>10 DEF Counted

(* What a company has earned stays while its inputs stay. *)
LEMMA EarnedStays ==
  ASSUME RowsOK, NEW c \in Companies, Earned(c), DOMAIN rows' = Keys,
         \A k \in Keys : k[1] = c => rows'[k] = rows[k],
         obs'[c].status = obs[c].status, c \in suspended' => c \in suspended
  PROVE  Earned(c)'
<1>1. Counting(c)' = Counting(c)
  BY DEF Counting, RowsOK, Taken, HasOwnMetrics, Analysed
<1>2. Cardinality(Counting(c)) >= 2
  BY DEF Earned, Counting
<1>3. Cardinality(Counting(c)') >= 2
  BY <1>1, <1>2
<1>4. Official(c)' /\ c \notin suspended'
  BY DEF Earned, Official
<1> QED BY <1>3, <1>4 DEF Earned, Counting

(* While score does not run nor is through, it holds nothing. *)
LEMMA GatePending ==
  ASSUME StagesOK', stage'["score"] = "pending",
         \A c \in Companies : scores'[c] # None => c \in Observed'
  PROVE  GateInv'
<1>1. Todo("score")' = <<>> /\ Held("score")' = None
  BY DEF StagesOK, StageNames, Resting, Todo, Held
<1>2. ScoreTodo'
  <2>0. \A S : <<>> \in Seq(S)
    OBVIOUS
  <2>1. Todo("score")' \in Seq(Entries') /\ Len(Todo("score")') = 0
    BY <1>1, <2>0
  <2> QED BY <1>1, <2>1 DEF ScoreTodo
<1> QED BY <1>2 DEF GateInv

(* Nothing that the gate looks at has changed but the inputs of one company,
   which is touched thereby. *)
Disturbs(c) ==
  /\ touched' = touched \cup {c} /\ raced \subseteq raced' /\ scores' = scores
  /\ Todo("score")' = Todo("score") /\ Held("score")' = Held("score") /\ stage'["score"] = stage["score"]
  /\ DOMAIN rows' = Keys /\ \A k \in Keys : k[1] # c => rows'[k] = rows[k]
  /\ \A d \in Companies : d # c => obs'[d].status = obs[d].status /\ (d \in suspended' <=> d \in suspended)
  /\ \A d \in Companies : obs'[d].status # None <=> obs[d].status # None

LEMMA GateDisturbed ==
  ASSUME TypeOK, GateInv, NEW c \in Companies, Disturbs(c)
  PROVE  GateInv'
<1> USE DEF TypeOK
<1> DEFINE todo == Todo("score")
<1>1. Observed' = Observed /\ Entries' = Entries /\ Observed \subseteq Companies
  BY RankingAssumption DEF Observed, Disturbs, Entries
<1>2. \A d \in Companies : Unmoved(d)' => d # c /\ Unmoved(d)
  BY DEF Unmoved, Disturbs
<1>3. \A d \in Companies : Unmoved(d)' /\ Earned(d) => Earned(d)'
  <2> SUFFICES ASSUME NEW d \in Companies, Unmoved(d)', Earned(d)
               PROVE  Earned(d)'
    OBVIOUS
  <2>1. d # c
    BY <1>2
  <2>2. DOMAIN rows' = Keys /\ \A k \in Keys : k[1] = d => rows'[k] = rows[k]
    BY <2>1 DEF Disturbs
  <2>3. obs'[d].status = obs[d].status /\ (d \in suspended' => d \in suspended)
    BY <2>1 DEF Disturbs
  <2> QED BY <2>2, <2>3, EarnedStays
<1>4. ScoreTodo /\ todo \in Seq(Entries)
  BY DEF GateInv, ScoreTodo
<1>5. \A i \in 1 .. Len(todo) : todo[i].company \in Companies
  <2>1. \A i \in 1 .. Len(todo) : todo[i] \in Entries
    BY <1>4
  <2> HIDE DEF todo
  <2> QED BY <1>1, <2>1 DEF Entries
<1>6. ScoreTodo'
  <2>1. Todo("score")' = todo /\ Held("score")' = Held("score")
    BY DEF Disturbs
  <2>2. \A i \in 1 .. Len(todo) : todo[i].company \notin touched' =>
          (todo[i].suspended <=> todo[i].company \in suspended')
    BY <1>4, <1>5 DEF ScoreTodo, Disturbs
  <2>3. Held("score") # None =>
          /\ todo # <<>>
          /\ \A d \in Companies :
               d = Head(todo).company /\ Held("score").failures = {} /\ Unmoved(d)' => Earned(d)'
    BY <1>2, <1>3, <1>4 DEF ScoreTodo
  <2> QED BY <1>1, <1>4, <2>1, <2>2, <2>3 DEF ScoreTodo
<1>7. stage'["score"] # "pending" =>
        \A d \in Companies : Unmoved(d)' /\ GatePassed(d)' => Earned(d)' \/ Waits(d)'
  <2> SUFFICES ASSUME stage'["score"] # "pending", NEW d \in Companies, Unmoved(d)', GatePassed(d)'
               PROVE  Earned(d)' \/ Waits(d)'
    OBVIOUS
  <2>1. GatePassed(d) /\ Unmoved(d)
    BY <1>2 DEF GatePassed, Disturbs
  <2>2. Earned(d) \/ Waits(d)
    BY <2>1 DEF GateInv, Disturbs
  <2>3. Waits(d) => Waits(d)'
    BY DEF Waits, Disturbs
  <2> QED BY <1>3, <2>2, <2>3
<1>8. \A d \in Companies : scores'[d] # None => d \in Observed'
  BY <1>1 DEF GateInv, Disturbs
<1> QED BY <1>6, <1>7, <1>8 DEF GateInv

(* The first of those that wait. *)
LEMMA Foremost ==
  ASSUME ScoreTodo, Todo("score") # <<>>
  PROVE  /\ Head(Todo("score")) = Todo("score")[1] /\ 1 \in 1 .. Len(Todo("score"))
         /\ Head(Todo("score")).company \in Observed /\ Head(Todo("score")).company \in Companies
         /\ Head(Todo("score")).suspended \in BOOLEAN
<1>1. Todo("score") \in Seq(Entries)
  BY DEF ScoreTodo
<1>2. /\ Head(Todo("score")) \in Entries /\ Head(Todo("score")) = Todo("score")[1]
      /\ 1 \in 1 .. Len(Todo("score"))
  BY <1>1
<1> QED BY <1>2, RankingAssumption DEF Entries, Observed

(* Score reads its page: everyone who was observed waits. *)
LEMMA GateStarts ==
  ASSUME TypeOK, GateInv, score_start
  PROVE  GateInv'
<1> USE DEF TypeOK
<1> DEFINE S == {c \in Targets : obs[c].status # None}
           seq == ById(S)
<1>1. Put("score", Scorable, None)
  BY Puts DEF score_start, StageNames
<1>2. Todo("score")' = Scorable /\ Held("score")' = None
  BY <1>1, PutLeaves DEF StageNames
<1>3. UNCHANGED <<obs, suspended, rows, scores, raced>> /\ touched' = {}
  BY DEF score_start, facts, out
<1>4. S = Observed /\ S \in SUBSET Companies
  BY RankingAssumption DEF Observed
<1>5. seq \in Seq(S) /\ \A c \in S : \E i \in 1 .. Len(seq) : seq[i] = c
  <2> HIDE DEF S
  <2> QED BY <1>4, ByIdLists
<1>6. Scorable = [i \in DOMAIN seq |-> [company |-> seq[i], suspended |-> seq[i] \in suspended]]
  BY DEF Scorable
<1> HIDE DEF S, seq
<1>7. DOMAIN seq = 1 .. Len(seq) /\ Len(seq) \in Nat /\ \A i \in 1 .. Len(seq) : seq[i] \in S
  BY <1>5
<1>8. \A i \in 1 .. Len(seq) : Scorable[i] = [company |-> seq[i], suspended |-> seq[i] \in suspended]
  BY <1>6, <1>7
<1>9. \A i \in 1 .. Len(seq) : /\ Scorable[i] \in Entries /\ Scorable[i].company = seq[i]
                               /\ (Scorable[i].suspended <=> Scorable[i].company \in suspended)
  <2> TAKE i \in 1 .. Len(seq)
  <2>1. Scorable[i] = [company |-> seq[i], suspended |-> seq[i] \in suspended]
    BY <1>8
  <2>2. seq[i] \in Observed /\ (seq[i] \in suspended) \in BOOLEAN
    BY <1>4, <1>7
  <2>3. [company |-> seq[i], suspended |-> seq[i] \in suspended] \in Entries
    BY <2>2 DEF Entries
  <2>4. Scorable[i].company = seq[i] /\ Scorable[i].suspended = (seq[i] \in suspended)
    BY <2>1
  <2>5. Scorable[i] \in Entries
    BY <2>1, <2>3
  <2> QED BY <2>4, <2>5
<1>10. Scorable \in Seq(Entries) /\ Len(Scorable) = Len(seq)
  <2>1. Scorable \in [1 .. Len(seq) -> Entries]
    BY <1>6, <1>7, <1>9
  <2> QED BY <1>7, <2>1
<1>11. Observed' = Observed /\ Entries' = Entries
  BY <1>3 DEF Observed, Entries
<1>12. ScoreTodo'
  BY <1>2, <1>3, <1>9, <1>10, <1>11 DEF ScoreTodo
<1>13. \A c \in Companies : GatePassed(c)' => Waits(c)'
  <2> SUFFICES ASSUME NEW c \in Companies, GatePassed(c)' PROVE Waits(c)'
    OBVIOUS
  <2>1. c \in S
    BY <1>3, <1>4 DEF GatePassed, GateInv
  <2>2. PICK i \in 1 .. Len(seq) : seq[i] = c
    BY <1>5, <2>1
  <2> QED BY <1>2, <1>9, <1>10, <2>2 DEF Waits
<1> QED BY <1>3, <1>11, <1>12, <1>13 DEF GateInv

(* What score gathers of a company nothing happens to is so. *)
LEMMA GateGathers ==
  ASSUME TypeOK, AnalyzeInv, GateInv, score_gather
  PROVE  GateInv'
<1> USE DEF TypeOK
<1> DEFINE todo == Todo("score")
           row  == Head(todo)
<1>1. /\ Running("score") /\ todo # <<>> /\ Held("score") = None
      /\ \E f \in {gather(row.company, row.suspended)} : \E weaknesses, a : \E held :
            /\ held.failures = failures(f, weaknesses, a, Settings)
            /\ exec' = [exec EXCEPT !["score"].held = held]
      /\ UNCHANGED <<facts, out, stage, seen>>
  BY DEF score_gather, Todo, Held
<1>2. PICK weaknesses, a, held :
         /\ held.failures = failures(gather(row.company, row.suspended), weaknesses, a, Settings)
         /\ exec' = [exec EXCEPT !["score"].held = held]
  BY <1>1
<1>3. Put("score", todo, held)
  BY <1>2, Puts DEF StageNames
<1>4. Todo("score")' = todo /\ Held("score")' = held
  BY <1>3, PutLeaves DEF StageNames
<1>5. ScoreTodo /\ row = todo[1] /\ 1 \in 1 .. Len(todo) /\ row.company \in Companies /\ row.suspended \in BOOLEAN
  BY <1>1, Foremost DEF GateInv
<1>6. ASSUME held.failures = {}, Unmoved(row.company)
      PROVE  Earned(row.company)
  <2> DEFINE c == row.company
             f == gather(c, row.suspended)
  <2>1. f.suspended = row.suspended /\ f.status = obs[c].status
        /\ f.peers = {Peer(k) : k \in {m \in DOMAIN rows : m[1] = c /\ Taken(m)}}
    BY DEF gather
  <2>2. failures(f, weaknesses, a, Settings) = {} /\ f.suspended \in BOOLEAN
    BY <1>2, <1>5, <1>6, <2>1
  <2> HIDE DEF f
  <2>3. /\ ~f.suspended /\ f.status \in {"confirmed", "likely"}
        /\ Cardinality({p \in f.peers : p.valid}) >= 2
    BY <2>2, GateAsks
  <2>4. c \notin touched /\ \A k \in raced : k[1] # c
    BY <1>6 DEF Unmoved
  <2>5. c \notin suspended
    BY <1>5, <2>1, <2>3, <2>4 DEF ScoreTodo
  <2>6. Official(c)
    BY <2>1, <2>3 DEF Official
  <2>7. Cardinality(Counting(c)) >= 2
    BY <1>5, <2>1, <2>3, <2>4, PeersAreRows
  <2> QED BY <2>5, <2>6, <2>7 DEF Earned, Counting
<1>7. UNCHANGED <<obs, suspended, rows, scores, touched, raced, stage>>
  BY <1>1 DEF facts, out, seen
<1> HIDE DEF row, todo
<1>8. /\ Observed' = Observed /\ Entries' = Entries
      /\ \A c \in Companies : /\ Unmoved(c)' <=> Unmoved(c)
                              /\ Earned(c)' <=> Earned(c)
                              /\ GatePassed(c)' <=> GatePassed(c)
  BY <1>7 DEF Observed, Entries, Unmoved, Earned, Official, Taken, HasOwnMetrics, Analysed, GatePassed
<1>9. ScoreTodo'
  <2>1. \A c \in Companies : c = Head(todo).company /\ held.failures = {} /\ Unmoved(c) => Earned(c)
    <3> SUFFICES ASSUME NEW c \in Companies, c = row.company, held.failures = {}, Unmoved(c)
                 PROVE  Earned(c)
      BY DEF row
    <3> QED BY <1>6
  <2>2. todo # <<>>
    BY <1>1
  <2> QED BY <1>4, <1>5, <1>7, <1>8, <2>1, <2>2 DEF ScoreTodo, todo
<1>10. \A c \in Companies : Waits(c)' <=> Waits(c)
  BY <1>4 DEF Waits, todo
<1> QED BY <1>7, <1>8, <1>9, <1>10 DEF GateInv

(* A stored score was earned; who waits behind still waits. *)
LEMMA GatePersists ==
  ASSUME TypeOK, GateInv, score_persist
  PROVE  GateInv'
<1> USE DEF TypeOK
<1> DEFINE todo == Todo("score")
           c0   == Head(todo).company
           rest == Tail(todo)
<1>1. /\ Held("score") # None /\ step("score")
      /\ scores' = [scores EXCEPT ![c0] = Held("score")]
      /\ UNCHANGED <<obs, suspended, rows, touched, raced, stage>>
  BY DEF score_persist, Todo, Held, facts, seen
<1>2. ScoreTodo /\ todo # <<>> /\ todo \in Seq(Entries)
  BY <1>1 DEF GateInv, ScoreTodo
<1>3. Put("score", rest, None)
  BY <1>1, Puts DEF StageNames
<1>4. Todo("score")' = rest /\ Held("score")' = None
  BY <1>3, PutLeaves DEF StageNames
<1>5. Head(todo) = todo[1] /\ 1 \in 1 .. Len(todo) /\ c0 \in Observed /\ c0 \in Companies
  BY <1>2, Foremost
<1>6. \A c \in Companies : c = c0 /\ Held("score").failures = {} /\ Unmoved(c) => Earned(c)
  BY <1>1, <1>2 DEF ScoreTodo
<1>7. /\ rest \in Seq(Entries) /\ Len(rest) = Len(todo) - 1 /\ Len(todo) \in Nat
      /\ \A i \in 1 .. Len(rest) : rest[i] = todo[i + 1] /\ i + 1 \in 1 .. Len(todo)
      /\ \A i \in 1 .. Len(todo) : i # 1 => rest[i - 1] = todo[i] /\ i - 1 \in 1 .. Len(rest)
  BY <1>2
<1>8. \A i \in 1 .. Len(todo) : todo[i].company \notin touched => (todo[i].suspended <=> todo[i].company \in suspended)
  BY <1>2 DEF ScoreTodo
<1>9. \A c \in Companies : Waits(c) => c = c0 \/ \E i \in 1 .. Len(rest) : rest[i].company = c
  <2> SUFFICES ASSUME NEW c \in Companies, Waits(c), c # c0
               PROVE  \E i \in 1 .. Len(rest) : rest[i].company = c
    OBVIOUS
  <2>1. PICK i \in 1 .. Len(todo) : todo[i].company = c
    BY DEF Waits
  <2>2. i # 1
    BY <1>5, <2>1
  <2> HIDE DEF rest, todo
  <2> QED BY <1>7, <2>1, <2>2
<1> HIDE DEF rest, c0, todo
<1>10. /\ Observed' = Observed /\ Entries' = Entries
       /\ \A c \in Companies : /\ Unmoved(c)' <=> Unmoved(c)
                               /\ Earned(c)' <=> Earned(c)
  BY <1>1 DEF Observed, Entries, Unmoved, Earned, Official, Taken, HasOwnMetrics, Analysed
<1>11. /\ scores'[c0] = Held("score")
       /\ \A c \in Companies \ {c0} : scores'[c] = scores[c] /\ (GatePassed(c)' <=> GatePassed(c))
  BY <1>1, <1>5 DEF GatePassed, FactsOK
<1>12. ScoreTodo'
  BY <1>1, <1>4, <1>7, <1>8, <1>10 DEF ScoreTodo
<1>13. stage'["score"] # "pending" =>
         \A c \in Companies : Unmoved(c)' /\ GatePassed(c)' => Earned(c)' \/ Waits(c)'
  <2> SUFFICES ASSUME stage'["score"] # "pending", NEW c \in Companies, Unmoved(c)', GatePassed(c)'
               PROVE  Earned(c)' \/ Waits(c)'
    OBVIOUS
  <2>1. CASE c = c0
    <3>1. Held("score").failures = {}
      BY <1>11, <2>1 DEF GatePassed
    <3> QED BY <1>6, <1>10, <2>1, <3>1
  <2>2. CASE c # c0
    <3>1. GatePassed(c) /\ Unmoved(c)
      BY <1>10, <1>11, <2>2
    <3>2. Earned(c) \/ Waits(c)
      BY <1>1, <3>1 DEF GateInv
    <3>3. Waits(c) => Waits(c)'
      BY <1>4, <1>9, <2>2 DEF Waits
    <3> QED BY <1>10, <3>2, <3>3
  <2> QED BY <2>1, <2>2
<1>14. \A c \in Companies : scores'[c] # None => c \in Observed'
  BY <1>5, <1>10, <1>11 DEF GateInv
<1> QED BY <1>12, <1>13, <1>14 DEF GateInv

(* When nobody waits any more, score is through. *)
LEMMA GateEnds ==
  ASSUME TypeOK, GateInv, score_end
  PROVE  GateInv'
<1> USE DEF TypeOK
<1>1. /\ Todo("score") = <<>> /\ finish("score")
      /\ UNCHANGED <<obs, suspended, rows, scores, touched, raced>>
      /\ stage["score"] = "running"
  BY DEF score_end, Idle, Running, Todo, facts, out, seen
<1>2. Put("score", <<>>, None)
  BY <1>1, Puts DEF StageNames
<1>3. Todo("score")' = <<>> /\ Held("score")' = None
  BY <1>2, PutLeaves DEF StageNames
<1>4. /\ Observed' = Observed /\ Entries' = Entries
      /\ \A c \in Companies : /\ Unmoved(c)' <=> Unmoved(c)
                              /\ Earned(c)' <=> Earned(c)
                              /\ GatePassed(c)' <=> GatePassed(c)
  BY <1>1 DEF Observed, Entries, Unmoved, Earned, Official, Taken, HasOwnMetrics, Analysed, GatePassed
<1>5. \A c \in Companies : ~Waits(c)
  BY <1>1 DEF Waits
<1>6. ScoreTodo'
  BY <1>1, <1>3, <1>4 DEF GateInv, ScoreTodo
<1>7. \A c \in Companies : Unmoved(c)' /\ GatePassed(c)' => Earned(c)' \/ Waits(c)'
  BY <1>1, <1>4, <1>5 DEF GateInv
<1> QED BY <1>1, <1>4, <1>6, <1>7 DEF GateInv

LEMMA GateNext ==
  ASSUME TypeOK, AnalyzeInv, GateInv, StagesOK', RowsOK', Next \/ UNCHANGED vars
  PROVE  GateInv'
<1> USE DEF TypeOK
<1>1. CASE Quiet
  <2>1. /\ UNCHANGED <<obs, suspended, rows, scores, touched, raced>>
        /\ Todo("score")' = Todo("score") /\ Held("score")' = Held("score") /\ stage'["score"] = stage["score"]
    BY <1>1 DEF Quiet, facts, seen
  <2>2. /\ Observed' = Observed /\ Entries' = Entries
        /\ \A c \in Companies : /\ Unmoved(c)' <=> Unmoved(c)
                                /\ Earned(c)' <=> Earned(c)
                                /\ GatePassed(c)' <=> GatePassed(c)
    BY <2>1 DEF Observed, Entries, Unmoved, Earned, Official, Taken, HasOwnMetrics, Analysed, GatePassed
  <2>3. \A c \in Companies : Waits(c)' <=> Waits(c)
    BY <2>1 DEF Waits
  <2>4. ScoreTodo'
    BY <2>1, <2>2 DEF GateInv, ScoreTodo
  <2> QED BY <2>1, <2>2, <2>3, <2>4 DEF GateInv
<1>2. ASSUME UNCHANGED <<obs, scores>>, stage'["score"] = "pending"
      PROVE  GateInv'
  <2>1. \A c \in Companies : scores'[c] # None => c \in Observed'
    BY <1>2 DEF GateInv, Observed
  <2> QED BY <1>2, <2>1, GatePending
<1>3. CASE select_company \/ AnalyzeSteps \/ cut(Analysis)
  <2>1. UNCHANGED <<obs, scores>>
    BY <1>3 DEF select_company, AnalyzeSteps, analyze_start, analyze_insert, analyze_flag, analyze_page, cut, facts, out
  <2>2. PICK s \in {"competitor_select", Analysis} : Moves(s)
    BY <1>3, StepsMove DEF SelectSteps, StageNames, Analysis
  <2>3. stage[s] # "succeeded" /\ s \in StageNames
    BY <2>2, Puts DEF Moves, start, Running, StageNames, Analysis
  <2>4. stage["score"] = "pending"
    <3>1. stage["score"] # "pending" => stage[Analysis] = "succeeded"
      BY DEF StagesOK, StageNames, dependsOn, Analysis
    <3>2. stage[Analysis] # "pending" => stage["competitor_select"] = "succeeded"
      BY DEF StagesOK, StageNames, dependsOn, Analysis
    <3> QED BY <2>2, <2>3, <3>1, <3>2
  <2>5. stage'["score"] = stage["score"]
    BY <2>2 DEF Moves, start, finish, fail, StagesOK, StageNames, Analysis
  <2> QED BY <1>2, <2>1, <2>4, <2>5
<1>4. CASE ScoreSteps
  BY <1>4, GateStarts, GateGathers, GatePersists, GateEnds DEF ScoreSteps
<1>5. CASE cut("score")
  <2>1. UNCHANGED <<obs, scores>> /\ stage'["score"] = "pending"
    BY <1>5 DEF cut, fail, facts, out, StagesOK, StageNames
  <2> QED BY <1>2, <2>1
<1>6. CASE \E r \in Replacements : replace_competitor(r[1], r[2], r[3])
  <2>1. PICK r \in Replacements : replace_competitor(r[1], r[2], r[3])
    BY <1>6
  <2>2. /\ rows' = [rows EXCEPT ![<<r[1], r[2]>>] = Chosen(r[3])]
        /\ touched' = touched \cup {r[1]} /\ raced \subseteq raced'
        /\ UNCHANGED <<obs, suspended, scores, stage, exec>>
    BY <2>1 DEF replace_competitor, facts
  <2>3. \A k \in Keys : k[1] # r[1] => rows'[k] = rows[k]
    BY <2>2 DEF RowsOK
  <2>4. DOMAIN rows' = Keys
    BY DEF RowsOK
  <2>5. Disturbs(r[1])
    BY <2>2, <2>3, <2>4 DEF Disturbs, Todo, Held
  <2> QED BY <2>5, GateDisturbed, ReplacementsAre
<1>7. CASE \E c \in Companies : suspend(c)
  <2>1. PICK c \in Companies : suspend(c)
    BY <1>7
  <2>2. Disturbs(c)
    BY <2>1 DEF suspend, out, Disturbs, Todo, Held, RowsOK
  <2> QED BY <2>2, GateDisturbed
<1>8. CASE \E c \in Companies : demote(c)
  <2>1. PICK c \in Companies : demote(c)
    BY <1>8
  <2>2. /\ Official(c) /\ touched' = touched \cup {c}
        /\ obs' = [obs EXCEPT ![c].status = "not_official", ![c].kinds = {}]
        /\ UNCHANGED <<suspended, rows, scores, stage, exec, raced>>
    BY <2>1 DEF demote, out
  <2>3. obs'[c].status = "not_official" /\ \A d \in Companies \ {c} : obs'[d] = obs[d]
    BY <2>2 DEF FactsOK
  <2>4. obs[c].status # None /\ "not_official" # None
    BY <2>2, NullAssumption DEF Official
  <2>5. Disturbs(c)
    BY <2>2, <2>3, <2>4 DEF Disturbs, Todo, Held, RowsOK
  <2> QED BY <2>5, GateDisturbed
<1> QED BY <1>1, <1>3, <1>4, <1>5, <1>6, <1>7, <1>8, QuietOrLoud DEF Loud

-----------------------------------------------------------------------------
(* Numbers. *)

(* The least of some. *)
LEMMA Least ==
  ASSUME NEW S \in SUBSET Nat, S # {}
  PROVE  \E m \in S : \A n \in S : m <= n
<1> DEFINE R == {p \in Nat \X Nat : p[1] < p[2]}
<1>1. IsWellFoundedOn(R, Nat)  BY NatLessThanWellFounded DEF OpToRel
<1> HIDE DEF R
<1>2. PICK m \in S : \A n \in S : <<n, m>> \notin R  BY <1>1, WFMin
<1>3. ASSUME NEW n \in S PROVE m <= n
  <2>1. <<n, m>> \in Nat \X Nat /\ <<n, m>>[1] = n /\ <<n, m>>[2] = m  OBVIOUS
  <2>2. ~(n < m)  BY <1>2, <2>1 DEF R
  <2>3. QED  BY <2>1, <2>2
<1>4. QED  BY <1>3

-----------------------------------------------------------------------------
(* Points are numbers. *)

Pick(s) == CHOOSE x \in s : TRUE

(* What the sums of points are for the subsets of S with so many elements at
   most. *)
Upto(S, n) == {s \in SUBSET S : Cardinality(s) <= n}

Sums(t, S, n) ==
  /\ t \in [Upto(S, n) -> Int]
  /\ \A s \in Upto(S, n) : t[s] = IF s = {} THEN 0 ELSE Pick(s).points + t[s \ {Pick(s)}]

(* Without one of its elements, a subset has one less. *)
LEMMA OneLess ==
  ASSUME NEW S, IsFiniteSet(S), NEW n \in Nat, NEW s \in Upto(S, n), s # {}
  PROVE  Pick(s) \in s /\ n # 0 /\ s \ {Pick(s)} \in Upto(S, n - 1)
<1>1. s \in SUBSET S /\ Cardinality(s) <= n  BY DEF Upto
<1>2. IsFiniteSet(s)  BY <1>1, FS_Subset
<1>3. Pick(s) \in s  BY DEF Pick
<1>4. Cardinality(s \ {Pick(s)}) = Cardinality(s) - 1 /\ IsFiniteSet(s \ {Pick(s)})
  BY <1>2, <1>3, FS_RemoveElement
<1>5. Cardinality(s) \in Nat /\ Cardinality(s \ {Pick(s)}) \in Nat  BY <1>2, <1>4, FS_CardinalityType
<1>6. QED  BY <1>1, <1>3, <1>4, <1>5 DEF Upto

LEMMA SumsExist ==
  ASSUME NEW S, IsFiniteSet(S), \A i \in S : i.points \in Int
  PROVE  \A n \in Nat : \E t : Sums(t, S, n)
<1> DEFINE bad == {n \in Nat : ~\E t : Sums(t, S, n)}
<1> SUFFICES ASSUME bad # {} PROVE FALSE  OBVIOUS
<1>1. PICK m \in bad : \A n \in bad : m <= n
  <2>1. bad \in SUBSET Nat  OBVIOUS
  <2> HIDE DEF bad
  <2>2. QED  BY <2>1, Least
<1>2. CASE m = 0
  <2> DEFINE t == [s \in Upto(S, 0) |-> 0]
  <2>1. \A s \in Upto(S, 0) : s = {}  BY OneLess
  <2>2. Sums(t, S, 0)  BY <2>1 DEF Sums
  <2>3. QED  BY <1>2, <2>2
<1>3. CASE m # 0
  <2>1. m \in Nat /\ m - 1 \in Nat /\ m - 1 \notin bad  BY <1>1, <1>3
  <2>2. PICK t : Sums(t, S, m - 1)  BY <2>1
  <2> DEFINE u == [s \in Upto(S, m) |-> IF s = {} THEN 0 ELSE Pick(s).points + t[s \ {Pick(s)}]]
  <2>3. ASSUME NEW s \in Upto(S, m), s # {}
        PROVE  /\ s \ {Pick(s)} \in Upto(S, m - 1) /\ Pick(s) \in S
               /\ s \ {Pick(s)} \in Upto(S, m)
    <3>1. Pick(s) \in s /\ s \ {Pick(s)} \in Upto(S, m - 1)  BY <2>1, <2>3, OneLess
    <3>2. s \subseteq S  BY DEF Upto
    <3>3. IsFiniteSet(s \ {Pick(s)})  BY <3>2, FS_Subset
    <3>4. Cardinality(s \ {Pick(s)}) \in Nat  BY <3>3, FS_CardinalityType
    <3>5. s \ {Pick(s)} \in Upto(S, m)  BY <3>1, <3>4, <2>1 DEF Upto
    <3>6. QED  BY <3>1, <3>2, <3>5
  <2>4. \A s \in Upto(S, m - 1) : u[s] = t[s]
    <3>1. TAKE s \in Upto(S, m - 1)
    <3>2. s \in Upto(S, m)
      <4>1. s \in SUBSET S  BY DEF Upto
      <4>2. Cardinality(s) \in Nat  BY <4>1, FS_Subset, FS_CardinalityType
      <4>3. QED  BY <2>1, <4>1, <4>2 DEF Upto
    <3>3. QED  BY <2>2, <3>2 DEF Sums
  <2>5. u \in [Upto(S, m) -> Int]
    <3>1. \A s \in Upto(S, m) : s # {} => t[s \ {Pick(s)}] \in Int /\ Pick(s).points \in Int
      BY <2>2, <2>3 DEF Sums
    <3>2. \A s \in Upto(S, m) : u[s] = IF s = {} THEN 0 ELSE Pick(s).points + t[s \ {Pick(s)}]
      OBVIOUS
    <3>3. DOMAIN u = Upto(S, m) /\ u = [s \in DOMAIN u |-> u[s]]  OBVIOUS
    <3> HIDE DEF u
    <3>4. ASSUME NEW s \in Upto(S, m) PROVE u[s] \in Int
      <4>1. CASE s = {}
        <5>1. (IF s = {} THEN 0 ELSE Pick(s).points + t[s \ {Pick(s)}]) = 0  BY <4>1
        <5>2. u[s] = 0  BY <3>2, <5>1
        <5>3. QED  BY <5>2
      <4>2. CASE s # {}
        <5>1. u[s] = Pick(s).points + t[s \ {Pick(s)}]  BY <3>2, <4>2
        <5>2. t[s \ {Pick(s)}] \in Int /\ Pick(s).points \in Int  BY <3>1, <4>2
        <5>3. QED  BY <5>1, <5>2
      <4>3. QED  BY <4>1, <4>2
    <3>5. QED  BY <3>3, <3>4
  <2>6. \A s \in Upto(S, m) : u[s] = IF s = {} THEN 0 ELSE Pick(s).points + u[s \ {Pick(s)}]
    BY <2>3, <2>4
  <2>7. Sums(u, S, m)  BY <2>5, <2>6 DEF Sums
  <2>8. QED  BY <2>7, <1>1
<1>4. QED  BY <1>2, <1>3

LEMMA PointsAreNumbers ==
  ASSUME NEW axis, IsFiniteSet(axis), \A i \in axis : i.points \in Int
  PROVE  AxisPoints(axis) \in Int
<1> DEFINE S == {i \in axis : i.available}
           T(t) == t = [s \in SUBSET S |-> IF s = {} THEN 0 ELSE Pick(s).points + t[s \ {Pick(s)}]]
<1>1. AxisPoints(axis) = (CHOOSE t : T(t))[S]
  BY DEF AxisPoints, SumOver, MapThenSumSet, MapThenFoldSet, Pick
<1>2. IsFiniteSet(S) /\ \A i \in S : i.points \in Int  BY FS_Subset
<1> HIDE DEF S
<1>3. Cardinality(S) \in Nat /\ Upto(S, Cardinality(S)) = SUBSET S
  <2>1. Cardinality(S) \in Nat  BY <1>2, FS_CardinalityType
  <2>2. \A s \in SUBSET S : Cardinality(s) <= Cardinality(S)  BY <1>2, FS_Subset
  <2>3. QED  BY <2>1, <2>2 DEF Upto
<1>4. PICK t : Sums(t, S, Cardinality(S))  BY <1>2, <1>3, SumsExist
<1>5. T(t)  BY <1>3, <1>4 DEF Sums
<1>6. T(CHOOSE u : T(u))  BY <1>5
<1> DEFINE u == CHOOSE v : T(v)
<1>7. u = [s \in SUBSET S |-> IF s = {} THEN 0 ELSE Pick(s).points + u[s \ {Pick(s)}]]  BY <1>6
<1>8. u[S] \in Int
  <2> SUFFICES ASSUME u[S] \notin Int PROVE FALSE  OBVIOUS
  <2> HIDE DEF u
  <2> DEFINE bad == {n \in Nat : \E s \in SUBSET S : Cardinality(s) = n /\ u[s] \notin Int}
  <2>1. bad \in SUBSET Nat /\ Cardinality(S) \in bad  BY <1>3
  <2>2. PICK m \in bad : \A n \in bad : m <= n
    <3> HIDE DEF bad
    <3>1. QED  BY <2>1, Least
  <2>3. PICK s \in SUBSET S : Cardinality(s) = m /\ u[s] \notin Int  BY <2>2
  <2>4. s # {}  BY <1>7, <2>3
  <2>5. m \in Nat /\ s \in Upto(S, m)  BY <2>2, <2>3 DEF Upto
  <2>6. Pick(s) \in s /\ m # 0 /\ s \ {Pick(s)} \in Upto(S, m - 1)  BY <1>2, <2>4, <2>5, OneLess
  <2>7. s \ {Pick(s)} \in SUBSET S /\ Cardinality(s \ {Pick(s)}) \in Nat /\ Cardinality(s \ {Pick(s)}) <= m - 1
    BY <1>2, <2>6, FS_Subset, FS_CardinalityType DEF Upto
  <2>8. Cardinality(s \ {Pick(s)}) \notin bad
    <3>1. \A n \in Nat : n <= m - 1 => ~(m <= n)  BY <2>5
    <3>2. QED  BY <2>2, <2>7, <3>1
  <2>9. u[s \ {Pick(s)}] \in Int  BY <2>7, <2>8
  <2>10. Pick(s).points \in Int  BY <1>2, <2>3, <2>6
  <2>11. u[s] = Pick(s).points + u[s \ {Pick(s)}]  BY <1>7, <2>3, <2>4
  <2>12. QED  BY <2>3, <2>9, <2>10, <2>11
<1>9. QED  BY <1>1, <1>8

(* An axis is a finite set of items with a number of points. *)
IsAxis(axis) == IsFiniteSet(axis) /\ \A i \in axis : i.points \in Int

(* Up to four items make an axis, and so do two axes. *)
LEMMA FewItems ==
  ASSUME NEW a, NEW b, NEW c, NEW d, a.points \in Int, b.points \in Int, c.points \in Int, d.points \in Int
  PROVE  IsAxis({a, b, c, d})
<1>1. \A x : IsFiniteSet({x})  BY FS_Singleton
<1>2. IsFiniteSet({a} \cup {b} \cup {c} \cup {d})
  <2>1. IsFiniteSet({a} \cup {b})  BY <1>1, FS_Union
  <2>2. IsFiniteSet({a} \cup {b} \cup {c})  BY <1>1, <2>1, FS_Union
  <2>3. QED  BY <1>1, <2>2, FS_Union
<1>3. {a, b, c, d} = {a} \cup {b} \cup {c} \cup {d}  OBVIOUS
<1>4. QED  BY <1>2, <1>3 DEF IsAxis

LEMMA TogetherItems ==
  ASSUME NEW S, NEW T, IsAxis(S), IsAxis(T)
  PROVE  IsAxis(S \cup T)
<1>1. IsFiniteSet(S \cup T)  BY FS_Union DEF IsAxis
<1>2. QED  BY <1>1 DEF IsAxis

LEMMA NoItems == IsAxis({})
BY FS_EmptySet DEF IsAxis

LEMMA OneItem ==
  ASSUME NEW a, a.points \in Int
  PROVE  IsAxis({a})
<1>1. {a} = {a, a, a, a}  OBVIOUS
<1>2. QED  BY <1>1, FewItems

LEMMA ThreeItems ==
  ASSUME NEW a, NEW b, NEW c, a.points \in Int, b.points \in Int, c.points \in Int
  PROVE  IsAxis({a, b, c})
<1>1. {a, b, c} = {a, b, c, c}  OBVIOUS
<1>2. QED  BY <1>1, FewItems

LEMMA ItemPoints ==
  /\ \A key, max, points : Item(key, points, max).points = points
  /\ \A key, max : Unmeasured(key, max).points = 0
BY DEF Item, Unmeasured

LEMMA OrsIsAxis == ASSUME NEW f PROVE IsAxis(OrsItems(f))
<1>1. CASE Measured(f) = {}
  <2>1. OrsItems(f) = {Unmeasured("ors_gap", 25)}  BY <1>1 DEF OrsItems
  <2>2. QED  BY <2>1, ItemPoints, OneItem
<1>2. CASE Measured(f) # {}
  <2> DEFINE nonbrand == {o \in Measured(f) : o.kind # "brand"}
             found == Cardinality({o.provider : o \in {r \in Measured(f) : r.related > 0}})
             a == Item("ors_no_official", If(\A o \in Measured(f) : o.official = 0, 1000), 10)
             b == Item("ors_no_thirdparty", If(ThirdParty(f) = 0, 800), 8)
             c == Item("ors_low_diversity", If(found <= 1, 400) + If(found = 2, 200), 4)
             d == Item("ors_no_nonbrand", If(nonbrand # {} /\ \A o \in nonbrand : o.related = 0, 300), 3)
  <2>1. OrsItems(f) = {a, b, c, d}  BY <1>2 DEF OrsItems
  <2>2. a.points \in Int /\ b.points \in Int /\ c.points \in Int /\ d.points \in Int
    BY ItemPoints DEF If
  <2> HIDE DEF a, b, c, d
  <2>3. QED  BY <2>1, <2>2, FewItems
<1>3. QED  BY <1>1, <1>2

LEMMA GapIsAxis == ASSUME NEW f, NEW on PROVE IsAxis(GapItems(f, on))
<1>1. CASE ~competitorGapAvailable(f)
  <2> DEFINE a == Unmeasured("competitor_gap", IF on THEN 20 ELSE 12)
  <2>1. GapItems(f, on) = {a}  BY <1>1 DEF GapItems
  <2>2. a.points \in Int  BY ItemPoints
  <2> HIDE DEF a
  <2>3. QED  BY <2>1, <2>2, OneItem
<1>2. CASE competitorGapAvailable(f)
  <2> DEFINE peers == validCompetitors(f)
             a == Item("gap_ors", If(behind(median(f.ors, LAMBDA o : o.ors), median(peers, LAMBDA p : p.ors)), 800), 8)
             b == Item("gap_recency", If(behind(Twice(totalPosts(f, "posts60")), median(peers, LAMBDA p : p.recency)), 500), 5)
             c == Item("gap_diversity", If(behind(2 * channelTypeCount(f), median(peers, LAMBDA p : p.diversity)), 400), 4)
             d == Item("gap_activity", If(behind(Twice(totalPosts(f, "posts120")), median(peers, LAMBDA p : p.activity)), 300), 3)
  <2>1. GapItems(f, on) = (IF on THEN {a} ELSE {}) \cup {b, c, d}  BY <1>2 DEF GapItems
  <2>2. a.points \in Int /\ b.points \in Int /\ c.points \in Int /\ d.points \in Int
    BY ItemPoints DEF If
  <2> HIDE DEF a, b, c, d
  <2>3. IsAxis({a}) /\ IsAxis({b, c, d})  BY <2>2, OneItem, ThreeItems
  <2>4. CASE on
    <3>1. GapItems(f, on) = {a} \cup {b, c, d}  BY <2>1, <2>4
    <3>2. QED  BY <2>3, <3>1, TogetherItems
  <2>5. CASE ~on
    <3>1. GapItems(f, on) = {b, c, d}  BY <2>1, <2>5
    <3>2. QED  BY <2>3, <3>1
  <2>6. QED  BY <2>4, <2>5
<1>3. QED  BY <1>1, <1>2

LEMMA ContentIsAxis == ASSUME NEW f PROVE IsAxis(ContentItems(f))
<1> DEFINE posts60  == totalPosts(f, "posts60")
           posts120 == totalPosts(f, "posts120")
           stale    == daysSinceLastPost(f)
           a == Item("no_recent_content", 1500, 15)
           b == Unmeasured("no_recent_content", 15)
           c == Item("content_60d", If(posts60 = 0, 800), 8)
           d == Item("content_120d", If(posts120 = 0, 400), 4)
           e == Item("content_stale", IF stale = None THEN 300
                                      ELSE IF stale >= 180 THEN 300 ELSE If(stale >= 90, 200), 3)
<1>1. ContentItems(f) = IF f.channels = {} THEN {a} ELSE IF posts60 = None /\ posts120 = None THEN {b} ELSE {c, d, e}
  BY DEF ContentItems
<1>2. a.points \in Int /\ b.points \in Int /\ c.points \in Int /\ d.points \in Int /\ e.points \in Int
  BY ItemPoints DEF If
<1> HIDE DEF a, b, c, d, e
<1>3. IsAxis({a}) /\ IsAxis({b}) /\ IsAxis({c, d, e})  BY <1>2, OneItem, ThreeItems
<1> HIDE DEF posts60, posts120
<1>4. ContentItems(f) = {a} \/ ContentItems(f) = {b} \/ ContentItems(f) = {c, d, e}  BY <1>1, Zenon
<1>5. QED  BY <1>3, <1>4

LEMMA ProblemIsAxis == ASSUME NEW f, NEW mode PROVE IsAxis(problemAxis(f, mode))
<1> DEFINE on == mode = "ors_enabled" /\ f.orsScored
<1>1. problemAxis(f, mode) = (IF on THEN OrsItems(f) ELSE {}) \cup GapItems(f, on) \cup ContentItems(f)
  BY DEF problemAxis
<1>2. IsAxis(IF on THEN OrsItems(f) ELSE {})
  <2>1. CASE on  BY <2>1, OrsIsAxis
  <2>2. CASE ~on  BY <2>2, NoItems
  <2>3. QED  BY <2>1, <2>2
<1> HIDE DEF on
<1>3. IsAxis((IF on THEN OrsItems(f) ELSE {}) \cup GapItems(f, on))  BY <1>2, GapIsAxis, TogetherItems
<1>4. QED  BY <1>1, <1>3, ContentIsAxis, TogetherItems

LEMMA PropensityIsAxis ==
  ASSUME NEW f, NEW weaknesses, Ticket[f.industry] \in Int
  PROVE  IsAxis(propensityAxis(f, weaknesses))
<1> DEFINE a == Item("industry_ticket", 100 * Ticket[f.industry], 4)
           b == Item("local_competition", IF f.local >= 20 THEN 300 ELSE IF f.local >= 8 THEN 200 ELSE 100, 3)
           c == Item("size_fit", SizePoints(f.size), 3)
           d == Item("budget_signal", Budget(f, weaknesses), 10)
           e == Item("contact_exists", If(f.kinds # {}, 300), 3)
           g == Item("contact_kind", IF f.kinds \cap {"partnership", "contact"} # {} THEN 200 ELSE If(f.kinds # {}, 100), 2)
<1>1. propensityAxis(f, weaknesses) = {a, b, c, d, e, g}  BY DEF propensityAxis
<1>2. SizePoints(f.size) \in Int /\ Budget(f, weaknesses) \in Int  BY DEF SizePoints, Budget
<1>3. /\ a.points \in Int /\ b.points \in Int /\ c.points \in Int /\ d.points \in Int
      /\ e.points \in Int /\ g.points \in Int
  BY <1>2, ItemPoints DEF If
<1> HIDE DEF a, b, c, d, e, g
<1>4. IsAxis({a, b, c}) /\ IsAxis({d, e, g})  BY <1>3, ThreeItems
<1>5. {a, b, c, d, e, g} = {a, b, c} \cup {d, e, g}  OBVIOUS
<1>6. QED  BY <1>1, <1>4, <1>5, TogetherItems

LEMMA ConfidenceIsAxis ==
  ASSUME NEW f, Part(f.complete, 5) \in Int
  PROVE  IsAxis(confidenceAxis(f))
<1> DEFINE n == Cardinality(validCompetitors(f))
           a == Item("official_status", If(f.status = "confirmed", 500) + If(f.status = "likely", 300), 5)
           b == Item("analysis_completeness", Part(f.complete, 5), 5)
           c == Item("competitor_freshness",
                     If(n >= 3, 300) + If(n = 2, 200)
                       + (IF f.fresh = None THEN 0 ELSE IF f.fresh <= 7 THEN 200 ELSE If(f.fresh <= 30, 100)), 5)
<1>1. confidenceAxis(f) = {a, b, c}  BY DEF confidenceAxis
<1>2. a.points \in Int /\ b.points \in Int /\ c.points \in Int  BY ItemPoints DEF If
<1> HIDE DEF a, b, c
<1>3. QED  BY <1>1, <1>2, ThreeItems

LEMMA TotalIsNumber ==
  ASSUME NEW f, NEW weaknesses, NEW mode, Ticket[f.industry] \in Int, Part(f.complete, 5) \in Int
  PROVE  TotalPoints(axes(f, weaknesses, mode)) \in Int
<1> DEFINE a == axes(f, weaknesses, mode)
<1>1. IsAxis(a.problem) /\ IsAxis(a.propensity) /\ IsAxis(a.confidence)
  BY ProblemIsAxis, PropensityIsAxis, ConfidenceIsAxis DEF axes
<1> HIDE DEF a
<1>2. AxisPoints(a.problem) \in Int /\ AxisPoints(a.propensity) \in Int /\ AxisPoints(a.confidence) \in Int
  BY <1>1, PointsAreNumbers DEF IsAxis
<1>3. TotalPoints(a) \in Int  BY <1>2 DEF TotalPoints
<1>4. QED  BY <1>3 DEF a

LEMMA CompleteIsNumber ==
  ASSUME NEW o, NEW on \in BOOLEAN, IsFiniteSet(o.channels)
  PROVE  Part(Complete(o, on), 5) \in Int
<1> DEFINE n    == IF o.channels = {} THEN 1 ELSE Cardinality(o.channels)
           a    == Cardinality({ch \in o.channels : ch.analyzable})
           site == IF o.status = "unavailable" THEN 0 ELSE 1
           ors  == IF on /\ o.ors # {} THEN 1 ELSE 0
           more == {x \in {"channels", "ors"} : (x = "channels" /\ o.channels # {}) \/ (x = "ors" /\ on)}
           p    == (site + ors) * n + a
           q    == n * (1 + Cardinality(more))
<1>1. Complete(o, on) = <<p, q>>  BY DEF Complete
<1>2. n \in Nat /\ n >= 1
  <2>1. CASE o.channels = {}  BY <2>1
  <2>2. CASE o.channels # {}
    <3>1. Cardinality(o.channels) \in Nat /\ Cardinality(o.channels) # 0  BY <2>2, FS_CardinalityType, FS_EmptySet
    <3>2. QED  BY <2>2, <3>1
  <2>3. QED  BY <2>1, <2>2
<1>3. a \in Nat
  <2>1. IsFiniteSet({ch \in o.channels : ch.analyzable})  BY FS_Subset
  <2>2. QED  BY <2>1, FS_CardinalityType
<1>4. Cardinality(more) \in Nat
  <2>1. IsFiniteSet({"channels", "ors"})
    <3>1. IsFiniteSet({"channels"}) /\ IsFiniteSet({"ors"})  BY FS_Singleton
    <3>2. IsFiniteSet({"channels"} \cup {"ors"})  BY <3>1, FS_Union
    <3>3. {"channels"} \cup {"ors"} = {"channels", "ors"}  OBVIOUS
    <3>4. QED  BY <3>2, <3>3
  <2>2. IsFiniteSet(more)  BY <2>1, FS_Subset
  <2>3. QED  BY <2>2, FS_CardinalityType
<1>5. site \in Nat /\ ors \in Nat  OBVIOUS
<1> HIDE DEF n, a, site, ors, more
<1>6. p \in Nat  BY <1>2, <1>3, <1>5
<1>7. q \in Nat /\ q >= 1
  <2> DEFINE k == Cardinality(more)
  <2>1. k \in Nat  BY <1>4
  <2> HIDE DEF k
  <2>2. n * (1 + k) \in Nat /\ n * (1 + k) >= 1  BY <2>1, <1>2
  <2>3. QED  BY <2>2 DEF k
<1> HIDE DEF p, q
<1>8. Part(<<p, q>>, 5) = (200 * 5 * p + q) \div (2 * q)  BY DEF Part
<1>9. 200 * 5 * p + q \in Int /\ 2 * q \in Nat /\ 2 * q > 0  BY <1>6, <1>7
<1>10. \A i \in Int : \A j \in Nat : j > 0 => i \div j \in Int  OBVIOUS
<1>11. QED  BY <1>1, <1>8, <1>9, <1>10

-----------------------------------------------------------------------------
(* The best of some candidates. *)

(* How much room there is in all and for one industry. *)
Room == TargetNumbers.reviewMax

Quota == industryQuota(TargetNumbers.reviewMax, TargetNumbers.share)

Alike(c) == {d \in Companies : Base[d].industry = Base[c].industry}

(* G are those of P that find room when they are admitted in the order R. *)
Best(G, P, R) ==
  /\ G \subseteq P
  /\ \A c \in P : c \in G <=> /\ Cardinality(Below(G, R, c)) < Room
                              /\ Cardinality(Below(G, R, c) \cap Alike(c)) < Quota

LEMMA FewerBelow ==
  ASSUME NEW S, IsFiniteSet(S), NEW R, StrictOrder(S, R), NEW x \in S, NEW y \in S, <<x, y>> \in R
  PROVE  Cardinality(Below(S, R, x)) < Cardinality(Below(S, R, y))
<1>1. Below(S, R, x) \in SUBSET Below(S, R, y)  BY DEF Below, StrictOrder
<1>2. x \in Below(S, R, y) /\ x \notin Below(S, R, x)  BY DEF Below, StrictOrder
<1>3. IsFiniteSet(Below(S, R, x)) /\ IsFiniteSet(Below(S, R, y))  BY FS_Subset DEF Below
<1>4. Cardinality(Below(S, R, x)) \in Nat /\ Cardinality(Below(S, R, y)) \in Nat  BY <1>3, FS_CardinalityType
<1>5. QED  BY <1>1, <1>2, <1>3, <1>4, FS_Subset

(* Of some elements of an ordered set, one is the first. *)
LEMMA FirstOf ==
  ASSUME NEW S, IsFiniteSet(S), NEW R, StrictOrder(S, R), NEW T \in SUBSET S, T # {}
  PROVE  \E x \in T : \A y \in T : y # x => <<x, y>> \in R
<1> DEFINE heights == {Cardinality(Below(S, R, x)) : x \in T}
<1>1. \A x \in S : Cardinality(Below(S, R, x)) \in Nat  BY FS_Subset, FS_CardinalityType DEF Below
<1>2. heights \in SUBSET Nat /\ heights # {}  BY <1>1
<1>3. PICK m \in heights : \A n \in heights : m <= n
  <2> HIDE DEF heights
  <2>1. QED  BY <1>2, Least
<1>4. PICK x \in T : Cardinality(Below(S, R, x)) = m  BY <1>3
<1>5. ASSUME NEW y \in T, y # x PROVE <<x, y>> \in R
  <2>1. m <= Cardinality(Below(S, R, y))  BY <1>3
  <2>2. ~(Cardinality(Below(S, R, y)) < Cardinality(Below(S, R, x)))  BY <1>1, <1>4, <2>1
  <2>3. <<y, x>> \notin R  BY <2>2, FewerBelow
  <2>4. QED  BY <1>5, <2>3 DEF StrictOrder
<1>6. QED  BY <1>5

(* The reverse of an order is one, so one is the last as well. *)
LEMMA LastOf ==
  ASSUME NEW S, IsFiniteSet(S), NEW R, StrictOrder(S, R), NEW T \in SUBSET S, T # {}
  PROVE  \E x \in T : \A y \in T : y # x => <<y, x>> \in R
<1> DEFINE Q == {p \in S \X S : <<p[2], p[1]>> \in R}
<1>1. \A x, y \in S : <<x, y>> \in Q <=> <<y, x>> \in R  OBVIOUS
<1> HIDE DEF Q
<1>2. StrictOrder(S, Q)
  <2>1. \A x \in S : <<x, x>> \notin Q  BY <1>1 DEF StrictOrder
  <2>2. \A x, y, z \in S : <<x, y>> \in Q /\ <<y, z>> \in Q => <<x, z>> \in Q  BY <1>1 DEF StrictOrder
  <2>3. \A x, y \in S : x # y => <<x, y>> \in Q \/ <<y, x>> \in Q  BY <1>1 DEF StrictOrder
  <2>4. QED  BY <2>1, <2>2, <2>3 DEF StrictOrder
<1>3. PICK x \in T : \A y \in T : y # x => <<x, y>> \in Q  BY <1>2, FirstOf
<1>4. QED  BY <1>1, <1>3

(* A set of which each element has less than n before it has n at most. *)
LEMMA FewerThanRoom ==
  ASSUME NEW S, IsFiniteSet(S), NEW R, StrictOrder(S, R), NEW T \in SUBSET S, NEW n \in Nat,
         \A x \in T : Cardinality(Below(T, R, x)) < n
  PROVE  Cardinality(T) <= n
<1>1. CASE T = {}  BY <1>1, FS_EmptySet
<1>2. CASE T # {}
  <2>1. PICK x \in T : \A y \in T : y # x => <<y, x>> \in R  BY <1>2, LastOf
  <2>2. Below(T, R, x) = T \ {x}  BY <2>1 DEF Below, StrictOrder
  <2>3. IsFiniteSet(T)  BY FS_Subset
  <2>4. Cardinality(T \ {x}) = Cardinality(T) - 1  BY <2>3, FS_RemoveElement
  <2>5. Cardinality(T) \in Nat  BY <2>3, FS_CardinalityType
  <2>6. QED  BY <2>2, <2>4, <2>5
<1>3. QED  BY <1>1, <1>2

(* One element in place of another does not make a set larger. *)
LEMMA OneForOne ==
  ASSUME NEW A, IsFiniteSet(A), NEW z, NEW w, NEW B, B \subseteq (A \ {z}) \cup {w}, z \in A \/ B \subseteq A
  PROVE  Cardinality(B) <= Cardinality(A)
<1>1. CASE B \subseteq A  BY <1>1, FS_Subset
<1>2. CASE z \in A
  <2>1. IsFiniteSet(A \ {z}) /\ Cardinality(A \ {z}) = Cardinality(A) - 1  BY <1>2, FS_RemoveElement
  <2>2. IsFiniteSet((A \ {z}) \cup {w}) /\ Cardinality((A \ {z}) \cup {w}) <= Cardinality(A \ {z}) + 1
    <3>1. /\ IsFiniteSet((A \ {z}) \cup {w})
          /\ Cardinality((A \ {z}) \cup {w}) = IF w \in A \ {z} THEN Cardinality(A \ {z}) ELSE Cardinality(A \ {z}) + 1
      BY <2>1, FS_AddElement
    <3>2. Cardinality(A \ {z}) \in Nat  BY <2>1, FS_CardinalityType
    <3>3. QED  BY <3>1, <3>2
  <2>3. IsFiniteSet(B) /\ Cardinality(B) <= Cardinality((A \ {z}) \cup {w})  BY <2>2, FS_Subset
  <2>4. Cardinality(A) \in Nat /\ Cardinality(B) \in Nat /\ Cardinality((A \ {z}) \cup {w}) \in Nat
    BY <2>2, <2>3, FS_CardinalityType
  <2>5. QED  BY <2>1, <2>2, <2>3, <2>4
<1>3. QED  BY <1>1, <1>2

(* Without one of the candidates, the others that found room find it still:
   before each of them one comes in his place at most, and is of his industry. *)
LEMMA OthersStayBest ==
  ASSUME NEW P \in SUBSET Companies, IsFiniteSet(P), NEW R, StrictOrder(P, R), NEW z,
         NEW G, NEW H, Best(G, P, R), Best(H, P \ {z}, R), Room \in Nat, Quota \in Nat
  PROVE  G \ {z} \subseteq H
<1> SUFFICES ASSUME ~(G \ {z} \subseteq H) PROVE FALSE  OBVIOUS
<1> DEFINE T == {c \in G \ {z} : c \notin H}
<1>0. G \subseteq P /\ H \subseteq P \ {z} /\ IsFiniteSet(G) /\ IsFiniteSet(H)
  BY FS_Subset DEF Best
<1>1. PICK x \in T : \A y \in T : y # x => <<x, y>> \in R
  <2>1. T \in SUBSET P /\ T # {}  BY <1>0
  <2> HIDE DEF T
  <2>2. QED  BY <2>1, FirstOf
<1>2. x \in G /\ x \in P \ {z} /\ x \notin H  BY <1>0, <1>1
<1>3. ASSUME NEW y \in G, y # z, <<y, x>> \in R PROVE y \in H
  <2>1. y \in P /\ x \in P  BY <1>0, <1>2
  <2>2. <<x, x>> \notin R /\ (<<x, y>> \in R => <<x, x>> \in R)  BY <1>3, <2>1 DEF StrictOrder
  <2>3. QED  BY <1>1, <1>3, <2>2
<1> DEFINE GX == Below(G, R, x)
           HX == Below(H, R, x)
<1>4. IsFiniteSet(GX) /\ IsFiniteSet(HX) /\ GX \subseteq G /\ HX \subseteq H  BY <1>0, FS_Subset DEF Below
<1>5. Cardinality(GX) < Room /\ Cardinality(GX \cap Alike(x)) < Quota  BY <1>2 DEF Best
<1>6. ~(Cardinality(HX) < Room /\ Cardinality(HX \cap Alike(x)) < Quota)  BY <1>2 DEF Best
<1>7. \A S : S \subseteq G \/ S \subseteq H => IsFiniteSet(S) /\ Cardinality(S) \in Nat
  BY <1>0, FS_Subset, FS_CardinalityType
(* Who is before one that is before x. *)
<1>8. ASSUME NEW w \in HX \ GX
      PROVE  /\ w \in P \ {z} /\ w \in H /\ w \notin G /\ Below(G, R, w) \subseteq GX
             /\ Below(G, R, w) \ {z} \subseteq Below(H, R, w)
             /\ Cardinality(Below(G, R, w) \cap Alike(w)) >= Quota
             /\ Cardinality(Below(H, R, w) \cap Alike(w)) < Quota
             /\ z \in Below(G, R, w) \cap Alike(w)
  <2>1. w \in P \ {z} /\ w \in H /\ w \notin G /\ <<w, x>> \in R  BY <1>0 DEF Below
  <2>2. ASSUME NEW y \in Below(G, R, w) PROVE y \in GX /\ (y # z => y \in Below(H, R, w))
    <3>1. y \in G /\ <<y, w>> \in R  BY DEF Below
    <3>2. <<y, x>> \in R  BY <1>0, <1>2, <2>1, <3>1 DEF StrictOrder
    <3>3. QED  BY <1>3, <3>1, <3>2 DEF Below
  <2>3. Below(G, R, w) \subseteq GX /\ Below(G, R, w) \ {z} \subseteq Below(H, R, w)  BY <2>2
  <2>4. Cardinality(Below(G, R, w)) <= Cardinality(GX)  BY <1>4, <2>3, FS_Subset
  <2>5. Below(G, R, w) \subseteq G /\ Below(H, R, w) \subseteq H  BY DEF Below
  <2>6. Cardinality(Below(G, R, w)) < Room
    <3>1. Cardinality(Below(G, R, w)) \in Nat /\ Cardinality(GX) \in Nat  BY <1>4, <1>7, <2>5
    <3>2. QED  BY <1>5, <2>4, <3>1
  <2> DEFINE B == Below(G, R, w) \cap Alike(w)
             A == Below(H, R, w) \cap Alike(w)
  <2>7. Cardinality(A) < Quota /\ ~(Cardinality(B) < Quota)  BY <2>1, <2>6 DEF Best
  <2>8. Cardinality(A) \in Nat /\ Cardinality(B) \in Nat /\ IsFiniteSet(A)
    <3>1. A \subseteq H /\ B \subseteq G  BY <2>5
    <3> HIDE DEF A, B
    <3>2. QED  BY <1>7, <3>1
  <2>9. z \in B
    <3> SUFFICES ASSUME z \notin B PROVE FALSE  OBVIOUS
    <3>1. B \subseteq A  BY <2>3
    <3> HIDE DEF A, B
    <3>2. Cardinality(B) <= Cardinality(A)  BY <2>8, <3>1, FS_Subset
    <3>3. QED  BY <2>7, <2>8, <3>2
  <2>10. Cardinality(B) >= Quota
    <3> HIDE DEF A, B
    <3>1. QED  BY <2>7, <2>8
  <2>11. QED  BY <2>1, <2>3, <2>7, <2>9, <2>10
(* Of two of them, the first had taken the place of the second. *)
<1>9. ASSUME NEW v \in HX \ GX, NEW w \in HX \ GX, <<v, w>> \in R PROVE FALSE
  <2> DEFINE B == Below(G, R, w) \cap Alike(w)
             A == Below(H, R, w) \cap Alike(w)
  <2>1. /\ v \in H /\ v \notin G /\ z \in Alike(v)  BY <1>8
  <2>2. /\ Below(G, R, w) \ {z} \subseteq Below(H, R, w)
        /\ Cardinality(B) >= Quota /\ Cardinality(A) < Quota /\ z \in Alike(w)  BY <1>8
  <2>3. v \in Alike(w)
    <3>1. v \in Companies /\ w \in Companies  BY <1>0, <1>4
    <3>2. QED  BY <2>1, <2>2, <3>1 DEF Alike
  <2>4. v \in A  BY <1>9, <2>1, <2>3 DEF Below
  <2>5. v \notin Below(G, R, w)  BY <2>1 DEF Below
  <2>6. B \subseteq (A \ {v}) \cup {z}  BY <2>2, <2>5
  <2>7. IsFiniteSet(A) /\ Cardinality(A) \in Nat /\ Cardinality(B) \in Nat
    <3>1. A \subseteq H /\ B \subseteq G  BY DEF Below
    <3> HIDE DEF A, B
    <3>2. QED  BY <1>7, <3>1
  <2> HIDE DEF A, B
  <2>8. Cardinality(B) <= Cardinality(A)  BY <2>4, <2>6, <2>7, OneForOne
  <2>9. QED  BY <2>2, <2>7, <2>8
<1>10. \A v, w \in HX \ GX : v = w
  <2>1. TAKE v, w \in HX \ GX
  <2>2. v \in P /\ w \in P  BY <1>8
  <2>3. <<v, w>> \notin R /\ <<w, v>> \notin R  BY <1>9
  <2>4. QED  BY <2>2, <2>3 DEF StrictOrder
<1>11. PICK w : HX \ GX \subseteq {w} /\ (HX \subseteq GX \/ w \in HX \ GX)  BY <1>10
<1>12. z \notin HX  BY <1>0, <1>4
<1>13. ASSUME NEW S, S = P \/ S = Alike(x)
       PROVE  Cardinality(HX \cap S) <= Cardinality(GX \cap S)
  <2> DEFINE A == GX \cap S
             B == HX \cap S
  <2>1. B \subseteq (A \ {z}) \cup {w}  BY <1>11, <1>12
  <2>2. z \in A \/ B \subseteq A
    <3> SUFFICES ASSUME w \in HX \ GX, w \in S PROVE z \in A  BY <1>11
    <3>1. z \in GX /\ z \in Alike(w) /\ w \in P  BY <1>8
    <3>2. z \in P  BY <1>0, <1>4, <3>1
    <3>3. w \in Alike(x) => z \in Alike(x)  BY <3>1 DEF Alike
    <3>4. QED  BY <1>13, <3>1, <3>2, <3>3
  <2>3. IsFiniteSet(A)  BY <1>4, FS_Subset
  <2> HIDE DEF A, B
  <2>4. Cardinality(B) <= Cardinality(A)  BY <2>1, <2>2, <2>3, OneForOne
  <2>5. QED  BY <2>4 DEF A, B
<1>14. HX \cap P = HX /\ GX \cap P = GX  BY <1>0, <1>4
<1>15. Cardinality(HX) <= Cardinality(GX) /\ Cardinality(HX \cap Alike(x)) <= Cardinality(GX \cap Alike(x))
  BY <1>13, <1>14
<1>16. /\ Cardinality(HX) \in Nat /\ Cardinality(GX) \in Nat
       /\ Cardinality(HX \cap Alike(x)) \in Nat /\ Cardinality(GX \cap Alike(x)) \in Nat
  <2>1. /\ HX \subseteq H /\ GX \subseteq G /\ HX \cap Alike(x) \subseteq H /\ GX \cap Alike(x) \subseteq G
    BY <1>4
  <2> HIDE DEF HX, GX
  <2>2. QED  BY <1>7, <2>1
<1> HIDE DEF HX, GX
<1>17. QED  BY <1>5, <1>6, <1>15, <1>16

(* The best keep within the room and the quota. *)
LEMMA BestFit ==
  ASSUME NEW P \in SUBSET Companies, IsFiniteSet(P), NEW R, StrictOrder(P, R),
         NEW G, Best(G, P, R), Room \in Nat, Quota \in Nat
  PROVE  /\ Cardinality(G) <= Room
         /\ \A c \in P : Cardinality(G \cap Alike(c)) <= Quota
<1>1. G \in SUBSET P /\ IsFiniteSet(G)  BY FS_Subset DEF Best
<1>2. \A x \in G : Cardinality(Below(G, R, x)) < Room  BY <1>1 DEF Best
<1>3. Cardinality(G) <= Room  BY <1>1, <1>2, FewerThanRoom
<1>4. ASSUME NEW c \in P PROVE Cardinality(G \cap Alike(c)) <= Quota
  <2> DEFINE T == G \cap Alike(c)
  <2>1. ASSUME NEW x \in T PROVE Cardinality(Below(T, R, x)) < Quota
    <3>1. x \in G /\ x \in Alike(c)  OBVIOUS
    <3>2. Cardinality(Below(G, R, x) \cap Alike(x)) < Quota  BY <1>1, <3>1 DEF Best
    <3>3. Alike(x) = Alike(c)  BY <3>1 DEF Alike
    <3>4. Below(T, R, x) = Below(G, R, x) \cap Alike(x)  BY <3>3 DEF Below
    <3>5. QED  BY <3>2, <3>4
  <2>2. T \in SUBSET P  BY <1>1
  <2> HIDE DEF T
  <2>3. Cardinality(T) <= Quota  BY <2>1, <2>2, FewerThanRoom
  <2>4. QED  BY <2>3 DEF T
<1>5. QED  BY <1>3, <1>4

-----------------------------------------------------------------------------
(* The recursion of the shortlist. *)

(* Whether the n-th finds no room, when so many are taken. *)
Full(ranked, taken, n) ==
  \/ Cardinality(taken) >= Room
  \/ Cardinality({i \in taken : ranked[i].industry = ranked[n].industry}) >= Quota

(* T[n] are those of the first n that are taken. *)
Takes(T, ranked, N) ==
  /\ T \in [0 .. N -> SUBSET (1 .. N)]
  /\ T[0] = {}
  /\ \A n \in 1 .. N : T[n] = IF Full(ranked, T[n - 1], n) THEN T[n - 1] ELSE T[n - 1] \cup {n}

LEMMA TakesExist ==
  ASSUME NEW ranked
  PROVE  \A N \in Nat : \E T : Takes(T, ranked, N)
<1> DEFINE bad == {N \in Nat : ~\E T : Takes(T, ranked, N)}
<1> SUFFICES ASSUME bad # {} PROVE FALSE  OBVIOUS
<1>1. PICK m \in bad : \A n \in bad : m <= n
  <2>1. bad \in SUBSET Nat  OBVIOUS
  <2> HIDE DEF bad
  <2>2. QED  BY <2>1, Least
<1>2. CASE m = 0
  <2>1. Takes([n \in 0 .. 0 |-> {}], ranked, 0)  BY DEF Takes
  <2>2. QED  BY <1>1, <1>2, <2>1
<1>3. CASE m # 0
  <2>1. m \in Nat /\ m - 1 \in Nat /\ m - 1 \notin bad  BY <1>1, <1>3
  <2>2. PICK T : Takes(T, ranked, m - 1)  BY <2>1
  <2> DEFINE U == [n \in 0 .. m |-> IF n < m THEN T[n]
                                    ELSE IF Full(ranked, T[m - 1], m) THEN T[m - 1] ELSE T[m - 1] \cup {m}]
  <2>3. \A n \in 0 .. m - 1 : U[n] = T[n] /\ T[n] \in SUBSET (1 .. m)
    <3>1. TAKE n \in 0 .. m - 1
    <3>2. n \in 0 .. m /\ n < m  BY <2>1
    <3>3. T[n] \in SUBSET (1 .. m - 1)  BY <2>2 DEF Takes
    <3>4. QED  BY <2>1, <3>2, <3>3
  <2>4. U[m] = IF Full(ranked, T[m - 1], m) THEN T[m - 1] ELSE T[m - 1] \cup {m}  BY <2>1
  <2>5. U = [n \in 0 .. m |-> U[n]]  OBVIOUS
  <2> HIDE DEF U
  <2>6. U \in [0 .. m -> SUBSET (1 .. m)]
    <3>1. \A n \in 0 .. m : U[n] \in SUBSET (1 .. m)
      <4>1. TAKE n \in 0 .. m
      <4>2. CASE n < m
        <5>1. n \in 0 .. m - 1  BY <2>1, <4>2
        <5>2. QED  BY <2>3, <5>1
      <4>3. CASE n = m
        <5>1. T[m - 1] \in SUBSET (1 .. m)  BY <2>1, <2>3
        <5>2. m \in 1 .. m  BY <1>3, <2>1
        <5>3. QED  BY <2>4, <4>3, <5>1, <5>2
      <4>4. QED  BY <2>1, <4>2, <4>3
    <3>2. QED  BY <2>5, <3>1
  <2>7. U[0] = {}  BY <1>3, <2>1, <2>2, <2>3 DEF Takes
  <2>8. \A n \in 1 .. m : U[n] = IF Full(ranked, U[n - 1], n) THEN U[n - 1] ELSE U[n - 1] \cup {n}
    <3>1. TAKE n \in 1 .. m
    <3>2. n - 1 \in 0 .. m - 1 /\ U[n - 1] = T[n - 1]  BY <2>1, <2>3
    <3>3. CASE n = m  BY <2>4, <3>2, <3>3
    <3>4. CASE n # m
      <4>1. n \in 1 .. m - 1 /\ n \in 0 .. m - 1  BY <2>1, <3>4
      <4>2. QED  BY <2>2, <2>3, <3>2, <4>1 DEF Takes
    <3>5. QED  BY <3>3, <3>4
  <2>9. Takes(U, ranked, m)  BY <2>6, <2>7, <2>8 DEF Takes
  <2>10. QED  BY <1>1, <2>9
<1>4. QED  BY <1>2, <1>3

(* The first n of those taken are what was taken of the first n. *)
LEMMA TakenSoFar ==
  ASSUME NEW ranked, NEW N \in Nat, NEW T, Takes(T, ranked, N)
  PROVE  \A n \in 0 .. N : \A i : i \in T[n] <=> i \in T[N] /\ i <= n
<1> DEFINE bad == {d \in 0 .. N : T[N - d] # {i \in T[N] : i <= N - d}}
<1>1. \A n \in 0 .. N : T[n] \in SUBSET (1 .. N)  BY DEF Takes
<1>2. bad = {}
  <2> SUFFICES ASSUME bad # {} PROVE FALSE  OBVIOUS
  <2>1. PICK d \in bad : \A e \in bad : d <= e
    <3>1. bad \in SUBSET Nat  OBVIOUS
    <3> HIDE DEF bad
    <3>2. QED  BY <3>1, Least
  <2>2. d # 0
    <3>1. T[N] \in SUBSET (1 .. N)  BY <1>1
    <3>2. T[N] = {i \in T[N] : i <= N}  BY <3>1
    <3>3. N - 0 = N  OBVIOUS
    <3>4. QED  BY <2>1, <3>2, <3>3
  <2>3. d \in 1 .. N /\ d - 1 \in 0 .. N /\ d - 1 \notin bad  BY <2>1, <2>2
  <2> DEFINE n == N - d
  <2>4. n \in 0 .. N - 1 /\ n + 1 \in 1 .. N /\ N - (d - 1) = n + 1 /\ (n + 1) - 1 = n  BY <2>3
  <2>5. T[n + 1] = {i \in T[N] : i <= n + 1}
    <3>1. T[N - (d - 1)] = {i \in T[N] : i <= N - (d - 1)}  BY <2>3
    <3> HIDE DEF n
    <3>2. QED  BY <2>4, <3>1
  <2> HIDE DEF n
  <2>6. T[n + 1] = T[n] \/ T[n + 1] = T[n] \cup {n + 1}
    <3>1. T[n + 1] = IF Full(ranked, T[(n + 1) - 1], n + 1) THEN T[(n + 1) - 1] ELSE T[(n + 1) - 1] \cup {n + 1}
      BY <2>4 DEF Takes
    <3>2. QED  BY <2>4, <3>1
  <2>7. \A i \in T[n] : i \in 1 .. n
    <3> DEFINE high == {k \in 0 .. N : \E i \in T[k] : i > k}
    <3> SUFFICES ASSUME high # {} PROVE FALSE
      <4>1. n \in 0 .. N  BY <2>4
      <4>2. T[n] \in SUBSET (1 .. N)  BY <1>1, <4>1
      <4>3. n \notin high => \A i \in T[n] : i \in 1 .. n  BY <4>1, <4>2
      <4>4. QED  BY <4>3
    <3>1. PICK k \in high : \A j \in high : k <= j
      <4>1. high \in SUBSET Nat  OBVIOUS
      <4> HIDE DEF high
      <4>2. QED  BY <4>1, Least
    <3>2. k # 0  BY <3>1 DEF Takes
    <3>3. k \in 1 .. N /\ k - 1 \in 0 .. N /\ k - 1 \notin high  BY <3>1, <3>2
    <3>4. \A i \in T[k - 1] : i \in 1 .. N /\ i <= k - 1
      <4>1. T[k - 1] \in SUBSET (1 .. N)  BY <1>1, <3>3
      <4>2. QED  BY <3>3, <4>1
    <3>5. T[k] = T[k - 1] \/ T[k] = T[k - 1] \cup {k}  BY <3>3 DEF Takes
    <3>6. \A i \in T[k] : i <= k  BY <3>3, <3>4, <3>5
    <3>7. PICK i \in T[k] : i > k  BY <3>1
    <3>8. i \in 1 .. N  BY <1>1, <3>3, <3>7
    <3>9. QED  BY <3>3, <3>6, <3>7, <3>8
  <2>8. T[n] = {i \in T[N] : i <= n}
    <3>1. \A i \in T[N] : i \in 1 .. N  BY <1>1
    <3>2. ASSUME NEW i \in T[n] PROVE i \in T[N] /\ i <= n  BY <2>4, <2>5, <2>6, <2>7
    <3>3. ASSUME NEW i \in T[N], i <= n PROVE i \in T[n]
      <4>1. i \in 1 .. N /\ i <= n + 1 /\ i # n + 1  BY <2>4, <3>1, <3>3
      <4>2. i \in T[n + 1]  BY <2>5, <4>1
      <4>3. QED  BY <2>6, <4>1, <4>2
    <3>4. QED  BY <3>2, <3>3
  <2>9. QED  BY <2>1, <2>8 DEF n
<1>3. ASSUME NEW n \in 0 .. N PROVE T[n] = {i \in T[N] : i <= n}
  <2>1. N - n \in 0 .. N /\ N - (N - n) = n  OBVIOUS
  <2>2. N - n \notin bad  BY <1>2
  <2>3. T[N - (N - n)] = {i \in T[N] : i <= N - (N - n)}  BY <2>1, <2>2
  <2>4. QED  BY <2>1, <2>3
<1>4. QED  BY <1>3

LEMMA ShortlistTakes ==
  ASSUME NEW ranked, Len(ranked) \in Nat, Room \in Nat, Quota \in Nat
  PROVE  \E chosen \in SUBSET (1 .. Len(ranked)) :
           /\ Shortlist(ranked, TargetNumbers) =
                {[company |-> ranked[i].company, rank |-> Cardinality({j \in chosen : j <= i})] : i \in chosen}
           /\ \A n \in 1 .. Len(ranked) : n \in chosen <=> ~Full(ranked, {i \in chosen : i <= n - 1}, n)
<1> DEFINE N == Len(ranked)
           F(T) == T = [n \in 0 .. N |->
                          IF n = 0 THEN {}
                          ELSE LET taken == T[n - 1]
                                   same  == {i \in taken : ranked[i].industry = ranked[n].industry}
                               IN IF Cardinality(taken) >= TargetNumbers.reviewMax \/ Cardinality(same) >= Quota
                                  THEN taken ELSE taken \cup {n}]
           Take == CHOOSE T : F(T)
           chosen == Take[N]
<1>1. Shortlist(ranked, TargetNumbers) =
        {[company |-> ranked[i].company, rank |-> Cardinality({j \in chosen : j <= i})] : i \in chosen}
  BY DEF Shortlist, Quota
<1>2. PICK T : Takes(T, ranked, N)  BY TakesExist
<1>3. \A n \in 0 .. N : T[n] = IF n = 0 THEN {}
                              ELSE IF Full(ranked, T[n - 1], n) THEN T[n - 1] ELSE T[n - 1] \cup {n}
  <2>1. \A n \in 0 .. N : n # 0 => n \in 1 .. N  OBVIOUS
  <2> HIDE DEF N
  <2>2. QED  BY <1>2, <2>1 DEF Takes
<1>4. T = [n \in 0 .. N |-> T[n]]  BY <1>2 DEF Takes
<1>5. F(T)
  <2> HIDE DEF N
  <2>1. QED  BY <1>3, <1>4 DEF Full, Room
<1>6. F(Take)  BY <1>5
<1> HIDE DEF Take
<1>7. Takes(Take, ranked, N)
  <2>1. Take = [n \in 0 .. N |-> Take[n]] /\ Take[0] = {}  BY <1>6
  <2>2. \A n \in 1 .. N : Take[n] = IF Full(ranked, Take[n - 1], n) THEN Take[n - 1] ELSE Take[n - 1] \cup {n}
    <3>1. \A n \in 1 .. N : n \in 0 .. N /\ n # 0  OBVIOUS
    <3> HIDE DEF N
    <3>2. QED  BY <1>6, <3>1 DEF Full, Room
  <2> HIDE DEF F
  <2> DEFINE bad == {n \in 0 .. N : Take[n] \notin SUBSET (1 .. N)}
  <2>3. bad = {}
    <3> SUFFICES ASSUME bad # {} PROVE FALSE  OBVIOUS
    <3>1. PICK m \in bad : \A n \in bad : m <= n
      <4>1. bad \in SUBSET Nat  OBVIOUS
      <4> HIDE DEF bad
      <4>2. QED  BY <4>1, Least
    <3>2. m # 0  BY <2>1, <3>1
    <3>3. m \in 1 .. N /\ m - 1 \in 0 .. N /\ m - 1 \notin bad  BY <3>1, <3>2
    <3>4. Take[m - 1] \in SUBSET (1 .. N)  BY <3>3
    <3>5. Take[m] \in SUBSET (1 .. N)  BY <2>2, <3>3, <3>4
    <3>6. QED  BY <3>1, <3>5
  <2>4. \A n \in 0 .. N : Take[n] \in SUBSET (1 .. N)  BY <2>3
  <2>5. Take \in [0 .. N -> SUBSET (1 .. N)]  BY <2>1, <2>4
  <2>6. QED  BY <2>1, <2>2, <2>5 DEF Takes
<1> HIDE DEF F
<1>8. N \in Nat /\ N \in 0 .. N /\ chosen \in SUBSET (1 .. N)
  <2>1. N \in Nat /\ N \in 0 .. N  OBVIOUS
  <2> HIDE DEF N
  <2>2. QED  BY <1>7, <2>1 DEF Takes
<1>9. \A n \in 0 .. N : Take[n] = {i \in chosen : i <= n}
  <2>1. N \in Nat  BY <1>8
  <2>2. \A n \in 0 .. N : \A i : i \in Take[n] <=> i \in Take[N] /\ i <= n
    <3> HIDE DEF N
    <3>1. QED  BY <1>7, <2>1, TakenSoFar
  <2> HIDE DEF N
  <2>3. QED  BY <2>2
<1>10. ASSUME NEW n \in 1 .. N PROVE n \in chosen <=> ~Full(ranked, {i \in chosen : i <= n - 1}, n)
  <2>1. n \in 0 .. N /\ n - 1 \in 0 .. N  OBVIOUS
  <2>2. Take[n - 1] = {i \in chosen : i <= n - 1} /\ n \notin Take[n - 1]
    <3>1. Take[n - 1] = {i \in chosen : i <= n - 1}  BY <1>9, <2>1
    <3>2. n \notin {i \in chosen : i <= n - 1}  OBVIOUS
    <3>3. QED  BY <3>1, <3>2
  <2>3. n \in Take[n] <=> n \in chosen
    <3>1. Take[n] = {i \in chosen : i <= n}  BY <1>9, <2>1
    <3> HIDE DEF chosen
    <3>2. QED  BY <3>1
  <2>4. Take[n] = IF Full(ranked, Take[n - 1], n) THEN Take[n - 1] ELSE Take[n - 1] \cup {n}  BY <1>7 DEF Takes
  <2> HIDE DEF chosen
  <2>5. QED  BY <2>2, <2>3, <2>4
<1>11. QED
  <2> HIDE DEF chosen
  <2>1. QED  BY <1>1, <1>8, <1>10

-----------------------------------------------------------------------------
(* What comes earlier in the list is what comes before in the order. *)
LEMMA InOrderSorts ==
  ASSUME NEW S, IsFiniteSet(S), NEW R, StrictOrder(S, R),
         NEW i \in 1 .. Cardinality(S), NEW j \in 1 .. Cardinality(S)
  PROVE  <<InOrder(S, R)[i], InOrder(S, R)[j]>> \in R <=> i < j
<1> DEFINE x == InOrder(S, R)[i]
           y == InOrder(S, R)[j]
<1>0. Cardinality(S) \in Nat  BY FS_CardinalityType
<1>1. /\ x \in S /\ y \in S /\ (x = y => i = j)
      /\ Cardinality(Below(S, R, x)) = i - 1 /\ Cardinality(Below(S, R, y)) = j - 1
  <2>1. InOrder(S, R) \in Seq(S) /\ Len(InOrder(S, R)) = Cardinality(S)  BY InOrderLists
  <2>2. x \in S /\ y \in S  BY <1>0, <2>1
  <2>3. QED  BY <2>2, InOrderLists
<1> HIDE DEF x, y
<1>2. <<x, y>> \in R => i < j
  <2>1. <<x, y>> \in R => i - 1 < j - 1  BY <1>1, FewerBelow
  <2>2. QED  BY <1>0, <2>1
<1>3. <<y, x>> \in R => j < i
  <2>1. <<y, x>> \in R => j - 1 < i - 1  BY <1>1, FewerBelow
  <2>2. QED  BY <1>0, <2>1
<1>4. i < j => <<x, y>> \in R
  <2>1. x = y => ~(i < j)  BY <1>0, <1>1
  <2>2. <<y, x>> \in R => ~(i < j)  BY <1>0, <1>3
  <2>3. QED  BY <1>1, <2>1, <2>2 DEF StrictOrder
<1>5. QED  BY <1>2, <1>4 DEF x, y

(* What is listed once each is as much as the places it is at. *)
LEMMA PlacesCount ==
  ASSUME NEW seq, NEW A, IsFiniteSet(A), \A i, j \in A : seq[i] = seq[j] => i = j
  PROVE  Cardinality({seq[i] : i \in A}) = Cardinality(A)
<1> DEFINE B == {seq[i] : i \in A}
           f == [i \in A |-> seq[i]]
<1>1. f \in Bijection(A, B)
  <2>1. f \in [A -> B] /\ \A i \in A : f[i] = seq[i]  OBVIOUS
  <2>2. \A i, j \in A : f[i] = f[j] => i = j  BY <2>1
  <2>3. \A b \in B : \E i \in A : f[i] = b  BY <2>1
  <2> HIDE DEF f, B
  <2>4. QED  BY <2>1, <2>2, <2>3 DEF Bijection, Injection, Surjection, IsInjective
<1> HIDE DEF f, B
<1>2. ExistsBijection(A, B)  BY <1>1 DEF ExistsBijection
<1>3. Cardinality(B) = Cardinality(A)  BY <1>2, FS_Bijection
<1>4. QED  BY <1>3 DEF B

(* The companies that passed, by total and then by id. *)
Better(P, sc) ==
  {p \in P \X P :
     sc[p[1]].total > sc[p[2]].total \/ (sc[p[1]].total = sc[p[2]].total /\ p[1] < p[2])}

RankedOf(P, sc) ==
  LET seq == InOrder(P, Better(P, sc)) IN
  [i \in DOMAIN seq |-> [company |-> seq[i], industry |-> Base[seq[i]].industry]]

ListOf(P, sc) == Shortlist(RankedOf(P, sc), TargetNumbers)

Listed(L) == {i.company : i \in L}

(* A list names a company and gives a rank once. *)
Distinct(L) == \A i, j \in L : i.company = j.company \/ i.rank = j.rank => i = j

LEMMA BetterOrders ==
  ASSUME NEW P \in SUBSET Companies, NEW sc, \A c \in P : sc[c].total \in Int
  PROVE  StrictOrder(P, Better(P, sc))
<1>1. \A c, d \in P : <<c, d>> \in Better(P, sc) <=> sc[c].total > sc[d].total \/ (sc[c].total = sc[d].total /\ c < d)
  BY DEF Better
<1>2. P \subseteq Nat  BY RankingAssumption
<1>3. QED  BY <1>1, <1>2 DEF StrictOrder

(* The shortlist is the best choice of those it is made from. *)
LEMMA ListIsBest ==
  ASSUME NEW P \in SUBSET Companies, IsFiniteSet(P), NEW sc, \A c \in P : sc[c].total \in Int,
         Room \in Nat, Quota \in Nat
  PROVE  Best(Listed(ListOf(P, sc)), P, Better(P, sc)) /\ Distinct(ListOf(P, sc))
<1> DEFINE R == Better(P, sc)
           seq == InOrder(P, R)
           n == Cardinality(P)
           ranked == RankedOf(P, sc)
<1>1. StrictOrder(P, R)  BY BetterOrders
<1> HIDE DEF R
<1>2. /\ n \in Nat /\ seq \in Seq(P) /\ Len(seq) = n
      /\ \A i, j \in 1 .. n : seq[i] = seq[j] => i = j
      /\ \A c \in P : \E i \in 1 .. n : seq[i] = c
  BY <1>1, InOrderLists, FS_CardinalityType
<1>3. \A i, j \in 1 .. n : <<seq[i], seq[j]>> \in R <=> i < j  BY <1>1, InOrderSorts
<1>4. /\ DOMAIN ranked = DOMAIN seq
      /\ \A i \in DOMAIN seq : ranked[i] = [company |-> seq[i], industry |-> Base[seq[i]].industry]
      /\ \E D : ranked \in [1 .. n -> D]
  <2>1. ranked = [i \in DOMAIN seq |-> [company |-> seq[i], industry |-> Base[seq[i]].industry]]
    BY DEF RankedOf, R
  <2> HIDE DEF seq, ranked, n
  <2>2. DOMAIN seq = 1 .. n  BY <1>2
  <2>3. ranked \in [1 .. n -> {ranked[i] : i \in 1 .. n}]  BY <2>1, <2>2
  <2>4. QED  BY <2>1, <2>3
<1> HIDE DEF seq, ranked
<1>5. /\ Len(ranked) = n /\ DOMAIN seq = 1 .. n
      /\ \A i \in 1 .. n : seq[i] \in P /\ ranked[i].company = seq[i] /\ ranked[i].industry = Base[seq[i]].industry
  <2> HIDE DEF n
  <2>1. DOMAIN seq = 1 .. n /\ \A i \in 1 .. n : seq[i] \in P  BY <1>2
  <2>2. Len(ranked) = n
    <3>1. PICK D : ranked \in [1 .. n -> D]  BY <1>4
    <3>2. QED  BY <1>2, <3>1
  <2>3. QED  BY <1>4, <2>1, <2>2
<1>6. PICK chosen \in SUBSET (1 .. n) :
        /\ ListOf(P, sc) = {[company |-> ranked[i].company, rank |-> Cardinality({j \in chosen : j <= i})] : i \in chosen}
        /\ \A k \in 1 .. n : k \in chosen <=> ~Full(ranked, {i \in chosen : i <= k - 1}, k)
  <2>1. ListOf(P, sc) = Shortlist(ranked, TargetNumbers)  BY DEF ListOf, ranked
  <2>2. Len(ranked) \in Nat  BY <1>2, <1>5
  <2> HIDE DEF n
  <2>3. QED  BY <1>5, <2>1, <2>2, ShortlistTakes
<1>0. n \in Nat  BY FS_CardinalityType
<1> HIDE DEF n
<1> DEFINE G == Listed(ListOf(P, sc))
           rank(i) == Cardinality({j \in chosen : j <= i})
           entry(i) == [company |-> ranked[i].company, rank |-> rank(i)]
<1>a. ListOf(P, sc) = {entry(i) : i \in chosen}  BY <1>6
<1> HIDE DEF rank
<1>b. \A i \in chosen : entry(i).company = seq[i] /\ entry(i).rank = rank(i)  BY <1>5, <1>6
<1> HIDE DEF entry
<1>7. G = {seq[i] : i \in chosen}
  <2>1. G = {entry(i).company : i \in chosen}  BY <1>a DEF Listed
  <2>2. QED  BY <2>1, <1>b
<1>8. IsFiniteSet(1 .. n) /\ IsFiniteSet(chosen)
  <2>1. IsFiniteSet(1 .. n)  BY <1>0, FS_Interval
  <2>2. QED  BY <1>6, <2>1, FS_Subset
<1> HIDE DEF G
<1>9. ASSUME NEW k \in 1 .. n
      PROVE  seq[k] \in G <=> /\ Cardinality(Below(G, R, seq[k])) < Room
                              /\ Cardinality(Below(G, R, seq[k]) \cap Alike(seq[k])) < Quota
  <2> DEFINE earlier == {i \in chosen : i <= k - 1}
             same == {i \in earlier : ranked[i].industry = ranked[k].industry}
  <2>1. seq[k] \in G <=> k \in chosen  BY <1>2, <1>6, <1>7
  <2>2. Below(G, R, seq[k]) = {seq[i] : i \in earlier}
    <3>1. \A i \in chosen : i \in 1 .. n /\ (i <= k - 1 <=> i < k)  BY <1>2, <1>6
    <3>2. \A i \in chosen : <<seq[i], seq[k]>> \in R <=> i <= k - 1  BY <1>3, <3>1
    <3>3. QED  BY <1>7, <3>2 DEF Below
  <2>3. Below(G, R, seq[k]) \cap Alike(seq[k]) = {seq[i] : i \in same}
    <3>1. \A i \in earlier : i \in 1 .. n  BY <1>6
    <3>2. \A i \in earlier : seq[i] \in Alike(seq[k]) <=> i \in same
      BY <1>5, <3>1 DEF Alike
    <3> HIDE DEF earlier
    <3>3. \A i \in same : i \in earlier  OBVIOUS
    <3> HIDE DEF same
    <3>4. QED  BY <2>2, <3>2, <3>3
  <2>4. earlier \in SUBSET chosen /\ same \in SUBSET chosen  OBVIOUS
  <2>5. /\ IsFiniteSet(earlier) /\ IsFiniteSet(same)
        /\ \A i, j \in earlier : seq[i] = seq[j] => i = j
        /\ \A i, j \in same : seq[i] = seq[j] => i = j
    <3> HIDE DEF earlier, same
    <3>1. QED  BY <1>2, <1>6, <1>8, <2>4, FS_Subset
  <2>6. k \in chosen <=> ~(Cardinality(earlier) >= Room \/ Cardinality(same) >= Quota)  BY <1>6 DEF Full
  <2> HIDE DEF earlier, same
  <2>7. /\ Cardinality(Below(G, R, seq[k])) = Cardinality(earlier)
        /\ Cardinality(Below(G, R, seq[k]) \cap Alike(seq[k])) = Cardinality(same)
    BY <2>2, <2>3, <2>5, PlacesCount
  <2>8. Cardinality(earlier) \in Nat /\ Cardinality(same) \in Nat  BY <2>5, FS_CardinalityType
  <2>9. QED  BY <2>1, <2>6, <2>7, <2>8
<1>10. Best(G, P, R)
  <2>1. G \subseteq P  BY <1>5, <1>6, <1>7
  <2>2. ASSUME NEW c \in P
        PROVE  c \in G <=> /\ Cardinality(Below(G, R, c)) < Room
                           /\ Cardinality(Below(G, R, c) \cap Alike(c)) < Quota
    <3>1. PICK k \in 1 .. n : seq[k] = c  BY <1>2
    <3>2. QED  BY <1>9, <3>1
  <2>3. QED  BY <2>1, <2>2 DEF Best
<1>11. Distinct(ListOf(P, sc))
  <2>1. ASSUME NEW i \in chosen, NEW j \in chosen, i < j PROVE rank(i) # rank(j)
    <3> DEFINE A == {k \in chosen : k <= i}
               B == {k \in chosen : k <= j}
    <3>0. \A k \in chosen : k \in Int
      <4>1. \A k \in 1 .. n : k \in Int  BY <1>0
      <4>2. chosen \subseteq 1 .. n  BY <1>6
      <4>3. QED  BY <4>1, <4>2
    <3>a. i \in Int /\ j \in Int  BY <3>0
    <3>b. (\A k \in chosen : k <= i => k <= j) /\ j <= j /\ ~(j <= i)  BY <2>1, <3>0, <3>a
    <3>1. A \in SUBSET B /\ j \in B /\ j \notin A  BY <3>b
    <3>2. IsFiniteSet(B)  BY <1>8, FS_Subset
    <3> HIDE DEF A, B
    <3>3. Cardinality(A) # Cardinality(B)  BY <3>1, <3>2, FS_Subset
    <3>4. QED  BY <3>3 DEF A, B, rank
  <2>2. \A i, j \in chosen : rank(i) = rank(j) => i = j
    <3>1. \A i, j \in chosen : i = j \/ i < j \/ j < i  BY <1>6
    <3>2. QED  BY <2>1, <3>1
  <2>3. \A i, j \in chosen : seq[i] = seq[j] => i = j  BY <1>2, <1>6
  <2>4. ASSUME NEW i \in chosen, NEW j \in chosen,
               entry(i).company = entry(j).company \/ entry(i).rank = entry(j).rank
        PROVE  i = j
    <3>1. entry(i).company = seq[i] /\ entry(j).company = seq[j]  BY <1>b
    <3>2. entry(i).rank = rank(i) /\ entry(j).rank = rank(j)  BY <1>b
    <3>3. CASE entry(i).company = entry(j).company  BY <2>3, <3>1, <3>3
    <3>4. CASE entry(i).rank = entry(j).rank  BY <2>2, <3>2, <3>4
    <3>5. QED  BY <2>4, <3>3, <3>4
  <2>5. QED  BY <1>a, <2>4 DEF Distinct
<1>12. QED  BY <1>10, <1>11 DEF G, R

-----------------------------------------------------------------------------
(* The shortlist while companies are suspended. *)

LEMMA RoomAndQuota == Room \in Nat /\ Quota \in Nat
<1> DEFINE a == TargetNumbers.share[1]
           b == TargetNumbers.share[2]
           r == TargetNumbers.reviewMax
<1>1. a \in Nat /\ b \in Nat /\ r \in Nat  BY NumbersAssumption
<1>2. a > 0 /\ a <= b  BY RankingAssumption DEF ValidTargets
<1> HIDE DEF a, b, r
<1>3. r * a \in Nat /\ b > 0 /\ b \in Nat  BY <1>1, <1>2
<1>4. \A i, j \in Nat : j > 0 => i \div j \in Nat  OBVIOUS
<1>5. (r * a) \div b \in Nat  BY <1>3, <1>4
<1>6. QED  BY <1>1, <1>5 DEF Room, Quota, industryQuota, a, b, r

(* The companies a shortlist of P would name. *)
BestOf(P, sc) == Listed(ListOf(P, sc))

(* Among fewer candidates the order is the same. *)
LEMMA SameOrder ==
  ASSUME NEW P, NEW Q \in SUBSET P, NEW sc, NEW H, Best(H, Q, Better(Q, sc))
  PROVE  Best(H, Q, Better(P, sc))
<1>1. H \subseteq Q  BY DEF Best
<1>2. ASSUME NEW c \in Q
      PROVE  Below(H, Better(Q, sc), c) = Below(H, Better(P, sc), c)
  <2>1. ASSUME NEW d \in H
        PROVE  <<d, c>> \in Better(Q, sc) <=> <<d, c>> \in Better(P, sc)
    <3>1. d \in Q /\ d \in P /\ c \in P  BY <1>1
    <3>2. QED  BY <3>1 DEF Better
  <2>2. QED  BY <2>1 DEF Below
<1>3. QED  BY <1>2 DEF Best

LEMMA WithoutOne ==
  ASSUME NEW P \in SUBSET Companies, NEW sc, \A c \in P : sc[c].total \in Int, NEW z
  PROVE  BestOf(P, sc) \ {z} \subseteq BestOf(P \ {z}, sc)
<1> DEFINE Q == P \ {z}
<1>1. Q \in SUBSET P /\ Q \in SUBSET Companies /\ \A c \in Q : sc[c].total \in Int  OBVIOUS
<1>2. IsFiniteSet(P) /\ IsFiniteSet(Q)  BY RankingAssumption, FS_Subset
<1>3. Best(BestOf(P, sc), P, Better(P, sc))  BY <1>2, ListIsBest, RoomAndQuota DEF BestOf
<1>4. Best(BestOf(Q, sc), Q, Better(P, sc))
  <2> HIDE DEF Q
  <2>1. Best(BestOf(Q, sc), Q, Better(Q, sc))  BY <1>1, <1>2, ListIsBest, RoomAndQuota DEF BestOf
  <2>2. QED  BY <1>1, <2>1, SameOrder
<1>5. StrictOrder(P, Better(P, sc))  BY BetterOrders
<1>6. QED  BY <1>2, <1>3, <1>4, <1>5, RoomAndQuota, OthersStayBest

LEMMA BestOfFits ==
  ASSUME NEW P \in SUBSET Companies, NEW sc, \A c \in P : sc[c].total \in Int
  PROVE  /\ BestOf(P, sc) \in SUBSET P
         /\ Cardinality(BestOf(P, sc)) <= Room
         /\ \A c \in P : Cardinality(BestOf(P, sc) \cap Alike(c)) <= Quota
<1>1. IsFiniteSet(P)  BY RankingAssumption, FS_Subset
<1>2. Best(BestOf(P, sc), P, Better(P, sc))  BY <1>1, ListIsBest, RoomAndQuota DEF BestOf
<1>3. StrictOrder(P, Better(P, sc))  BY BetterOrders
<1>4. QED  BY <1>1, <1>2, <1>3, RoomAndQuota, BestFit DEF Best

(* Totals are numbers: of what is observed, of what score holds and of what it
   has stored. *)
TotalsOK ==
  /\ \A c \in Companies : "channels" \in DOMAIN obs[c] /\ IsFiniteSet(obs[c].channels)
  /\ Held("score") # None => Held("score").total \in Int
  /\ \A c \in Companies : scores[c] # None => scores[c].total \in Int

Passing == Passed \ suspended

Live == {c \in Companies \ suspended : items[c] # None}

(* What an execution of shortlist holds names all that are listed and may be
   contacted, and of those that may be contacted none but the best. *)
Handed(L) ==
  /\ Distinct(L)
  /\ Live \subseteq Listed(L)
  /\ Listed(L) \ suspended \subseteq BestOf(Passing, scores)

(* Who is listed and may be contacted is among those a shortlist made now would
   name, however many were suspended since it was made. *)
ListInv ==
  /\ stage["score"] # "succeeded" => \A c \in Companies : items[c] = None
  /\ Live \subseteq BestOf(Passing, scores)
  /\ \A c, d \in Live : items[c] = items[d] => c = d
  /\ Todo("shortlist") # <<>> => Todo("shortlist") = <<List>> /\ Handed(List)

LEMMA PassingTotals ==
  ASSUME TotalsOK
  PROVE  Passing \in SUBSET Companies /\ \A c \in Passing : scores[c].total \in Int
BY DEF TotalsOK, Passing, Passed, GatePassed

(* A score that is through stays so. *)
LEMMA ThroughStays ==
  ASSUME StagesOK, NEW s \in StageNames, Moves(s), stage["score"] = "succeeded"
  PROVE  stage'["score"] = "succeeded"
BY DEF Moves, start, finish, fail, Running, StagesOK, StageNames

(* A step beside it leaves what shortlist holds. *)
LEMMA HeldStays ==
  ASSUME StagesOK, NEW s \in StageNames \ {"shortlist"}, Moves(s)
  PROVE  Todo("shortlist")' = Todo("shortlist")
<1>1. PICK todo, held : Put(s, todo, held)  BY Puts DEF Moves
<1>2. Rest(s)  BY <1>1, PutLeaves
<1>3. "shortlist" \in StageNames \ {s}  BY DEF StageNames
<1>4. QED  BY <1>2, <1>3 DEF Rest

(* What is not listed anew, nor scored, nor suspended. *)
LEMMA ListKept ==
  ASSUME ListInv, UNCHANGED <<suspended, scores, items>>,
         stage["score"] = "succeeded" => stage'["score"] = "succeeded",
         Todo("shortlist")' = Todo("shortlist") \/ Todo("shortlist")' = <<>>
  PROVE  ListInv'
<1>1. Live' = Live /\ Passing' = Passing  BY DEF Live, Passing, Passed, GatePassed
<1>2. BestOf(Passing, scores)' = BestOf(Passing, scores)
  BY <1>1 DEF BestOf, Listed, ListOf, RankedOf, Better
<1>3. ASSUME Todo("shortlist")' # <<>>
      PROVE  (Todo("shortlist") = <<List>> /\ Handed(List))'
  <2>1. Todo("shortlist")' = Todo("shortlist") /\ List' = List  BY <1>3 DEF Todo, List
  <2>2. Todo("shortlist") = <<List>> /\ Handed(List)  BY <1>3, <2>1 DEF ListInv
  <2>3. Handed(List)'  BY <1>1, <1>2, <2>1, <2>2 DEF Handed, Distinct, Listed
  <2>4. QED  BY <2>1, <2>2, <2>3
<1>4. QED  BY <1>1, <1>2, <1>3 DEF ListInv

LEMMA RankedIs == Shortlist(Ranked, TargetNumbers) = ListOf(Passing, scores)
BY DEF Ranked, ListOf, RankedOf, Better, Passing

LEMMA ListStarts ==
  ASSUME StagesOK, TotalsOK, ListInv, shortlist_start
  PROVE  ListInv'
<1> DEFINE L == ListOf(Passing, scores)
<1>1. start("shortlist", <<L>>) /\ UNCHANGED <<facts, out>>
  BY RankedIs DEF shortlist_start
<1>2. Todo("shortlist")' = <<L>>
  <2>1. "shortlist" \in StageNames  BY DEF StageNames
  <2>2. Put("shortlist", <<L>>, None)  BY <1>1, <2>1, Puts
  <2>3. QED  BY <2>1, <2>2, PutLeaves
<1>3. UNCHANGED <<suspended, scores, items>> /\ (stage["score"] = "succeeded" => stage'["score"] = "succeeded")
  BY <1>1 DEF facts, out, start, StagesOK, StageNames
<1>4. Distinct(L)
  BY PassingTotals, RankingAssumption, FS_Subset, ListIsBest, RoomAndQuota
<1>5. Listed(L) = BestOf(Passing, scores)  BY DEF BestOf
<1> HIDE DEF L
<1>6. List' = L  BY <1>2 DEF List, Todo
<1>7. Live' = Live /\ Passing' = Passing  BY <1>3 DEF Live, Passing, Passed, GatePassed
<1>8. BestOf(Passing, scores)' = BestOf(Passing, scores)
  BY <1>3, <1>7 DEF BestOf, Listed, ListOf, RankedOf, Better
<1>9. Handed(List)'
  <2>1. Live \subseteq Listed(L)  BY <1>5 DEF ListInv
  <2>2. Distinct(List)'  BY <1>4, <1>6 DEF Distinct
  <2>3. Listed(List)' = Listed(L)  BY <1>6 DEF Listed
  <2>4. QED  BY <1>3, <1>5, <1>7, <1>8, <2>1, <2>2, <2>3 DEF Handed
<1>10. QED  BY <1>2, <1>3, <1>6, <1>7, <1>8, <1>9 DEF ListInv

(* Who is listed was listed before or is on the list, and that names them all. *)
LEMMA ListStores ==
  ASSUME StagesOK, ListInv, shortlist_store
  PROVE  ListInv'
<1> DEFINE L == List
           chosen(c) == CHOOSE i \in L : i.company = c
<1>1. /\ Running("shortlist") /\ Todo("shortlist") # <<>> /\ step("shortlist")
      /\ UNCHANGED <<suspended, scores, stage>>
      /\ items' = [c \in Companies |-> IF \E i \in L : i.company = c THEN chosen(c).rank ELSE items[c]]
  BY DEF shortlist_store, facts, Todo
<1>2. Todo("shortlist") = <<L>> /\ Handed(L)  BY <1>1 DEF ListInv
<1>3. Todo("shortlist")' = <<>>
  <2>1. "shortlist" \in StageNames  BY DEF StageNames
  <2>2. Put("shortlist", Tail(Todo("shortlist")), None)  BY <1>1, <2>1, Puts
  <2>3. Todo("shortlist")' = Tail(Todo("shortlist"))  BY <2>1, <2>2, PutLeaves
  <2> HIDE DEF L
  <2>4. Tail(<<L>>) = <<>>  OBVIOUS
  <2>5. QED  BY <1>2, <2>3, <2>4
<1>4. stage["score"] = "succeeded"
  BY <1>1 DEF StagesOK, StageNames, Running, dependsOn
<1> HIDE DEF L
<1>5. ASSUME NEW c \in Live'
      PROVE  c \in Listed(L) /\ c \notin suspended
  <2>1. c \in Companies /\ c \notin suspended /\ items'[c] # None  BY <1>1 DEF Live
  <2>2. CASE \E i \in L : i.company = c  BY <2>1, <2>2 DEF Listed
  <2>3. CASE ~\E i \in L : i.company = c
    <3>1. items'[c] = items[c]  BY <1>1, <2>1, <2>3
    <3>2. c \in Live  BY <2>1, <3>1 DEF Live
    <3>3. QED  BY <1>2, <2>1, <3>2 DEF Handed
  <2>4. QED  BY <2>2, <2>3
<1>6. ASSUME NEW c \in Live'
      PROVE  \E i \in L : i.company = c /\ items'[c] = i.rank
  <2>1. \E i \in L : i.company = c  BY <1>5 DEF Listed
  <2>2. chosen(c) \in L /\ chosen(c).company = c  BY <2>1
  <2>3. items'[c] = chosen(c).rank  BY <1>1, <2>1 DEF Live
  <2>4. QED  BY <2>2, <2>3
<1>7. ASSUME NEW c \in Live', NEW d \in Live', items'[c] = items'[d]
      PROVE  c = d
  <2>1. PICK i \in L : i.company = c /\ items'[c] = i.rank  BY <1>6
  <2>2. PICK j \in L : j.company = d /\ items'[d] = j.rank  BY <1>6
  <2>3. i = j  BY <1>2, <1>7, <2>1, <2>2 DEF Handed, Distinct
  <2>4. QED  BY <2>1, <2>2, <2>3
<1>8. BestOf(Passing, scores)' = BestOf(Passing, scores)
  BY <1>1 DEF Passing, Passed, GatePassed, BestOf, Listed, ListOf, RankedOf, Better
<1>9. Live' \subseteq BestOf(Passing, scores)  BY <1>2, <1>5 DEF Handed
<1>10. QED  BY <1>1, <1>3, <1>4, <1>7, <1>8, <1>9 DEF ListInv

(* Who is suspended leaves the list; the others stay among the best. *)
LEMMA ListSuspends ==
  ASSUME StagesOK, TotalsOK, ListInv, NEW z \in Companies, suspend(z)
  PROVE  ListInv'
<1>1. suspended' = suspended \cup {z} /\ UNCHANGED <<scores, items, stage, exec>>
  BY DEF suspend, out
<1>2. Passing' = Passing \ {z} /\ Live' = Live \ {z}
  BY <1>1 DEF Passing, Passed, GatePassed, Live
<1>3. BestOf(Passing, scores) \ {z} \subseteq BestOf(Passing \ {z}, scores)
  BY PassingTotals, WithoutOne
<1>4. BestOf(Passing, scores)' = BestOf(Passing \ {z}, scores)
  BY <1>1, <1>2 DEF BestOf, Listed, ListOf, RankedOf, Better
<1>5. ASSUME Todo("shortlist")' # <<>>
      PROVE  (Todo("shortlist") = <<List>> /\ Handed(List))'
  <2>1. Todo("shortlist")' = Todo("shortlist") /\ List' = List  BY <1>1 DEF Todo, List
  <2>2. Todo("shortlist") = <<List>> /\ Handed(List)  BY <1>5, <2>1 DEF ListInv
  <2>3. Live' \subseteq Listed(List)  BY <1>2, <2>2 DEF Handed
  <2>4. Listed(List) \ suspended' \subseteq BestOf(Passing \ {z}, scores)
    BY <1>1, <1>3, <2>2 DEF Handed
  <2>5. Handed(List)'  BY <1>4, <2>1, <2>2, <2>3, <2>4 DEF Handed, Distinct, Listed
  <2>6. QED  BY <2>1, <2>2, <2>5
<1>6. Live' \subseteq BestOf(Passing \ {z}, scores)  BY <1>2, <1>3 DEF ListInv
<1>7. \A c, d \in Live' : items'[c] = items'[d] => c = d  BY <1>1, <1>2 DEF ListInv
<1>8. QED  BY <1>1, <1>4, <1>5, <1>6, <1>7 DEF ListInv

(* While companies are scored nobody is listed. *)
LEMMA ListScores ==
  ASSUME StagesOK, ListInv, score_persist
  PROVE  ListInv'
<1>0. "score" \in StageNames /\ "shortlist" \in StageNames  BY DEF StageNames
<1>1. Running("score") /\ UNCHANGED <<suspended, items, stage>> /\ Put("score", Tail(Todo("score")), None)
  BY <1>0, HoldersRun, Puts DEF score_persist, Held, facts
<1>2. stage["shortlist"] = "pending"  BY <1>1 DEF StagesOK, StageNames, Running, dependsOn
<1>3. Todo("shortlist") = <<>>  BY <1>0, <1>2 DEF StagesOK, Resting, Todo
<1>4. Todo("shortlist")' = <<>>
  <2>1. Rest("score")  BY <1>0, <1>1, PutLeaves
  <2>2. QED  BY <1>3, <2>1 DEF Rest, StageNames
<1>5. \A c \in Companies : items[c] = None  BY <1>1 DEF ListInv, Running
<1>6. Live' = {}  BY <1>1, <1>5 DEF Live
<1>7. QED  BY <1>1, <1>4, <1>5, <1>6 DEF ListInv

LEMMA ListNext ==
  ASSUME StagesOK, TotalsOK, ListInv, Next \/ UNCHANGED vars
  PROVE  ListInv'
<1> DEFINE Kept == UNCHANGED <<suspended, scores, items>>
<1>1. ASSUME NEW s \in StageNames, Moves(s), Kept,
             s # "shortlist" \/ Todo("shortlist")' = <<>>
      PROVE  ListInv'
  <2>1. Todo("shortlist")' = Todo("shortlist") \/ Todo("shortlist")' = <<>>  BY <1>1, HeldStays
  <2>2. QED  BY <1>1, <2>1, ListKept, ThroughStays
<1>2. Kept /\ UNCHANGED <<stage, exec>> => ListInv'  BY ListKept DEF Todo
<1>3. CASE SelectSteps
  <2>1. Kept  BY <1>3 DEF SelectSteps, select_start, select_company, select_fails, select_end, out, facts
  <2>2. QED  BY <1>1, <1>3, <2>1, StepsMove DEF StageNames
<1>4. CASE AnalyzeSteps
  <2>1. Kept  BY <1>4 DEF AnalyzeSteps, analyze_start, analyze_insert, analyze_flag, analyze_page, out, facts
  <2>2. QED  BY <1>1, <1>4, <2>1, StepsMove DEF StageNames, Analysis
<1>5. CASE ScoreSteps
  <2>1. CASE score_persist  BY <2>1, ListScores
  <2>2. CASE score_start \/ score_gather \/ score_end
    <3>1. Kept  BY <2>2 DEF score_start, score_gather, score_end, out, facts
    <3>2. QED  BY <1>1, <1>5, <3>1, StepsMove DEF StageNames
  <2>3. QED  BY <1>5, <2>1, <2>2 DEF ScoreSteps
<1>6. CASE RecommendStage
  <2>1. Kept  BY <1>6 DEF RecommendStage, recommend_start, recommend_company, recommend_end, out, facts
  <2>2. QED  BY <1>1, <1>6, <2>1, StepsMove DEF StageNames
<1>7. CASE ShortlistStage
  <2>1. CASE shortlist_fails \/ shortlist_end
    <3>1. Kept /\ (finish("shortlist") \/ fail("shortlist"))  BY <2>1 DEF shortlist_fails, shortlist_end, out, facts
    <3>2. Todo("shortlist")' = <<>>  BY <3>1, Puts, PutLeaves DEF StageNames
    <3>3. QED  BY <1>1, <1>7, <3>1, <3>2, StepsMove DEF StageNames
  <2>2. QED  BY <1>7, <2>1, ListStarts, ListStores DEF ShortlistStage
<1>8. CASE \E r \in Replacements : replace_competitor(r[1], r[2], r[3])
  BY <1>2, <1>8 DEF replace_competitor, facts
<1>9. CASE \E c \in Companies : suspend(c) \/ demote(c) \/ decide_old(c)
  <2>1. PICK c \in Companies : suspend(c) \/ demote(c) \/ decide_old(c)  BY <1>9
  <2>2. CASE suspend(c)  BY <2>2, ListSuspends
  <2>3. CASE demote(c) \/ decide_old(c)  BY <1>2, <2>3 DEF demote, decide_old, facts, out
  <2>4. QED  BY <2>1, <2>2, <2>3
<1>10. ASSUME NEW s \in StageNames, cut(s)
       PROVE  ListInv'
  <2>1. Kept /\ fail(s)  BY <1>10 DEF cut, out, facts
  <2>2. Todo(s)' = <<>>  BY <2>1, Puts, PutLeaves
  <2>3. QED  BY <1>1, <1>10, <2>1, <2>2, StepsMove
<1>11. CASE UNCHANGED vars  BY <1>2, <1>11 DEF vars, out, facts
<1>12. QED  BY <1>3, <1>4, <1>5, <1>6, <1>7, <1>8, <1>9, <1>10, <1>11, NextIs

LEMMA GatherIsNumber ==
  ASSUME TypeOK, TotalsOK, GateInv, score_gather
  PROVE  Held("score")' # None => Held("score")'.total \in Int
<1> DEFINE todo == Todo("score")
           row  == Head(todo)
           mode == Settings.mode
<1>1. /\ Running("score") /\ todo # <<>>
      /\ \E f \in {gather(row.company, row.suspended)} : \E weaknesses : \E held :
            /\ held.total = TotalPoints(axes(f, weaknesses, mode))
            /\ exec' = [exec EXCEPT !["score"].held = held]
  BY DEF score_gather, Todo
<1>2. PICK weaknesses, held :
         /\ held.total = TotalPoints(axes(gather(row.company, row.suspended), weaknesses, mode))
         /\ exec' = [exec EXCEPT !["score"].held = held]
  BY <1>1
<1>3. Held("score")' = held
  <2>1. Put("score", todo, held)  BY <1>2, Puts DEF StageNames, TypeOK
  <2>2. QED  BY <2>1, PutLeaves DEF StageNames, TypeOK
<1>4. row.company \in Companies  BY <1>1, Foremost DEF GateInv, TypeOK
<1> DEFINE c == row.company
           f == gather(c, row.suspended)
           on == mode = "ors_enabled"
<1>5. f.industry = Base[c].industry /\ f.complete = Complete(obs[c], on)  BY DEF gather
<1>6. Ticket[f.industry] \in Int
  <2> HIDE DEF f, c
  <2>1. QED  BY <1>4, <1>5, NumbersAssumption DEF c
<1>7. Part(f.complete, 5) \in Int
  <2>1. IsFiniteSet(obs[c].channels)  BY <1>4 DEF TotalsOK
  <2>2. on \in BOOLEAN  OBVIOUS
  <2> HIDE DEF f, c, on
  <2>3. Part(Complete(obs[c], on), 5) \in Int  BY <2>1, <2>2, CompleteIsNumber
  <2>4. QED  BY <1>5, <2>3
<1> HIDE DEF f
<1>8. TotalPoints(axes(f, weaknesses, mode)) \in Int  BY <1>6, <1>7, TotalIsNumber
<1>9. QED  BY <1>2, <1>3, <1>8 DEF f

LEMMA TotalsNext ==
  ASSUME TypeOK, TotalsOK, GateInv, Next \/ UNCHANGED vars
  PROVE  TotalsOK'
<1> DEFINE Score == Held("score")' = Held("score") \/ Held("score")' = None
<1>0. "score" \in StageNames /\ Analysis \in StageNames /\ Analysis # "score" /\ StagesOK
  BY DEF StageNames, Analysis, TypeOK
<1>1. UNCHANGED <<obs, scores>> /\ Score => TotalsOK'  BY DEF TotalsOK
<1>2. ASSUME NEW s \in StageNames \ {"score"}, Moves(s)
      PROVE  Held("score")' = Held("score")
  <2>1. PICK todo, held : Put(s, todo, held)  BY <1>0, <1>2, Puts DEF Moves
  <2>2. Rest(s)  BY <1>0, <2>1, PutLeaves
  <2>3. QED  BY <1>0, <2>2 DEF Rest
<1>3. UNCHANGED exec => Score  BY DEF Held
<1>4. CASE Quiet
  BY <1>1, <1>4 DEF Quiet, facts
<1>5. CASE select_company
  <2>1. Moves("competitor_select")  BY <1>0, <1>5, StepsMove DEF SelectSteps
  <2>2. "competitor_select" \in StageNames \ {"score"}  BY DEF StageNames
  <2>3. UNCHANGED <<obs, scores>>  BY <1>5 DEF select_company, facts
  <2>4. QED  BY <1>1, <1>2, <2>1, <2>2, <2>3
<1>6. CASE AnalyzeSteps
  <2>1. UNCHANGED <<obs, scores>>
    BY <1>6 DEF AnalyzeSteps, analyze_start, analyze_insert, analyze_flag, analyze_page, facts, out
  <2>2. QED  BY <1>0, <1>1, <1>2, <1>6, <2>1, StepsMove
<1>7. CASE score_start \/ score_end
  <2>1. UNCHANGED <<obs, scores>>  BY <1>7 DEF score_start, score_end, facts, out
  <2>2. \/ \E todo : start("score", todo)
        \/ finish("score")
    BY <1>7 DEF score_start, score_end
  <2>3. Held("score")' = None  BY <1>0, <2>2, Puts, PutLeaves
  <2>4. QED  BY <1>1, <2>1, <2>3
<1>8. CASE score_gather
  <2>1. UNCHANGED <<obs, scores>>  BY <1>8 DEF score_gather, facts, out
  <2>2. QED  BY <1>8, <2>1, GatherIsNumber DEF TotalsOK
<1>9. CASE score_persist
  <2>1. /\ Held("score") # None /\ step("score") /\ UNCHANGED obs
        /\ scores' = [scores EXCEPT ![Head(exec["score"].todo).company] = Held("score")]
    BY <1>9 DEF score_persist, facts, Held
  <2>2. Held("score")' = None  BY <1>0, <2>1, Puts, PutLeaves
  <2>3. Held("score").total \in Int  BY <2>1 DEF TotalsOK
  <2>4. \A c \in Companies : scores'[c] = scores[c] \/ scores'[c] = Held("score")
    BY <2>1 DEF TypeOK, FactsOK
  <2>5. QED  BY <2>1, <2>2, <2>3, <2>4 DEF TotalsOK
<1>10. CASE \E r \in Replacements : replace_competitor(r[1], r[2], r[3])
  BY <1>1, <1>3, <1>10 DEF replace_competitor, facts
<1>11. CASE \E c \in Companies : suspend(c)
  BY <1>1, <1>3, <1>11 DEF suspend, out
<1>12. CASE \E c \in Companies : demote(c)
  <2>1. PICK z \in Companies : demote(z)  BY <1>12
  <2>2. /\ obs' = [obs EXCEPT ![z].status = "not_official", ![z].kinds = {}]
        /\ UNCHANGED <<scores, exec>>
    BY <2>1 DEF demote, out
  <2>3. ASSUME NEW c \in Companies
        PROVE  "channels" \in DOMAIN obs'[c] /\ obs'[c].channels = obs[c].channels
    <3>1. DOMAIN obs = Companies /\ "channels" \in DOMAIN obs[c]  BY DEF TypeOK, FactsOK, TotalsOK
    <3>2. QED  BY <2>2, <3>1
  <2>4. Held("score")' = Held("score")  BY <2>2 DEF Held
  <2>5. QED  BY <2>2, <2>3, <2>4 DEF TotalsOK
<1>13. ASSUME NEW s \in StageNames, cut(s)
       PROVE  TotalsOK'
  <2>1. UNCHANGED <<obs, scores>> /\ fail(s)  BY <1>13 DEF cut, facts, out
  <2>2. Moves(s)  BY <1>0, <1>13, StepsMove
  <2>3. CASE s = "score"
    <3>1. Held("score")' = None  BY <1>0, <2>1, <2>3, Puts, PutLeaves
    <3>2. QED  BY <1>1, <2>1, <3>1
  <2>4. CASE s # "score"  BY <1>1, <1>2, <2>1, <2>2, <2>4
  <2>5. QED  BY <2>3, <2>4
<1>14. QED
  BY <1>0, <1>4, <1>5, <1>6, <1>7, <1>8, <1>9, <1>10, <1>11, <1>12, <1>13, QuietOrLoud
  DEF Loud, ScoreSteps

(* Of whoever is listed and may be contacted there are no more than of the
   best, in all and of an industry. *)
LEMMA ListHolds == TypeOK /\ TotalsOK /\ ListInv => ShortlistHolds
<1> SUFFICES ASSUME TypeOK, TotalsOK, ListInv PROVE ShortlistHolds  OBVIOUS
<1> DEFINE B == BestOf(Passing, scores)
<1>1. /\ B \in SUBSET Passing /\ Cardinality(B) <= Room
      /\ \A c \in Passing : Cardinality(B \cap Alike(c)) <= Quota
      /\ Passing \in SUBSET Companies
  BY PassingTotals, BestOfFits
<1>2. Live \subseteq B  BY DEF ListInv
<1> HIDE DEF B
<1>3. IsFiniteSet(B) /\ IsFiniteSet(Live)
  <2>1. IsFiniteSet(Companies) /\ B \subseteq Companies  BY <1>1, RankingAssumption
  <2>2. IsFiniteSet(B)  BY <2>1, FS_Subset
  <2>3. QED  BY <1>2, <2>2, FS_Subset
<1>4. Cardinality(Live) <= Room
  <2>1. Cardinality(Live) <= Cardinality(B)  BY <1>2, <1>3, FS_Subset
  <2>2. Cardinality(Live) \in Nat /\ Cardinality(B) \in Nat  BY <1>3, FS_CardinalityType
  <2>3. QED  BY <1>1, <2>1, <2>2, RoomAndQuota
<1>5. ASSUME NEW c \in Live
      PROVE  Cardinality({d \in Live : Base[d].industry = Base[c].industry}) <= Quota
  <2> DEFINE D == {d \in Live : Base[d].industry = Base[c].industry}
             A == B \cap Alike(c)
  <2>1. D \subseteq A  BY <1>2 DEF Alike, Live
  <2>2. A \subseteq B /\ c \in Passing  BY <1>1, <1>2
  <2> HIDE DEF D, A
  <2>3. IsFiniteSet(A) /\ IsFiniteSet(D) /\ Cardinality(D) <= Cardinality(A)
    <3>1. IsFiniteSet(A)  BY <1>3, <2>2, FS_Subset
    <3>2. QED  BY <2>1, <3>1, FS_Subset
  <2>4. Cardinality(D) \in Nat /\ Cardinality(A) \in Nat  BY <2>3, FS_CardinalityType
  <2>5. Cardinality(A) <= Quota  BY <1>1, <2>2 DEF A
  <2>6. Cardinality(D) <= Quota  BY <2>3, <2>4, <2>5, RoomAndQuota
  <2>7. QED  BY <2>6 DEF D
<1>6. \A c, d \in Live : items[c] = items[d] => c = d  BY DEF ListInv
<1>7. QED  BY <1>4, <1>5, <1>6 DEF ShortlistHolds, Live, Room, Quota

LEMMA ListBegins == Init => TotalsOK /\ ListInv
<1> SUFFICES ASSUME Init PROVE TotalsOK /\ ListInv  OBVIOUS
<1>1. Todo("shortlist") = <<>> /\ Held("score") = None
  BY DEF Init, Todo, Held, StageNames, Resting
<1>2. TotalsOK
  <2>1. \A c \in Companies : obs[c] \in Observations[c]  BY DEF Init
  <2>2. QED  BY <1>1, <2>1, NumbersAssumption DEF Init, TotalsOK
<1>3. Live = {}  BY DEF Init, Live
<1>4. QED  BY <1>1, <1>2, <1>3 DEF Init, ListInv

-----------------------------------------------------------------------------
(* Theorems. *)

RankInv == TypeOK /\ AnalyzeInv /\ GateInv

LEMMA RankStarts == Init => RankInv
<1> SUFFICES ASSUME Init PROVE RankInv
  OBVIOUS
<1>0. \A S : <<>> \in Seq(S)
  OBVIOUS
<1>1. RowsOK
  BY DEF Init, RowsOK, IsRow, Keys, Nobody, Chosen, NoMetrics
<1>2. /\ StagesOK
      /\ \A s \in StageNames : Todo(s) = <<>> /\ Held(s) = None /\ stage[s] = "pending"
  BY DEF Init, StagesOK, Todo, Held, Resting
<1>3. FactsOK
  <2>1. \A c \in Companies : obs[c] \in Observations[c]
    BY DEF Init
  <2> QED BY <2>1, NullAssumption DEF Init, FactsOK
<1>4. AnalyzeInv
  <2>1. Todo(Analysis) = <<>> /\ Held(Analysis) = None
    BY <1>2 DEF StageNames, Analysis
  <2>2. UnracedPeersAreMeasured
    BY DEF Init, UnracedPeersAreMeasured, Nobody, Chosen
  <2> QED BY <1>0, <2>1, <2>2 DEF AnalyzeInv
<1>5. GateInv
  <2>1. Todo("score") = <<>> /\ Held("score") = None /\ stage["score"] = "pending"
    BY <1>2 DEF StageNames
  <2>2. Todo("score") \in Seq(Entries) /\ Len(Todo("score")) = 0
    BY <1>0, <2>1
  <2>3. ScoreTodo
    BY <2>1, <2>2 DEF ScoreTodo
  <2> QED BY <2>1, <2>3 DEF GateInv, Init
<1> QED BY <1>1, <1>2, <1>3, <1>4, <1>5 DEF RankInv, TypeOK

LEMMA RankKept == RankInv /\ [Next]_vars => RankInv'
<1> SUFFICES ASSUME RankInv, Next \/ UNCHANGED vars PROVE RankInv'
  OBVIOUS
<1>1. StagesOK' /\ FactsOK' /\ RowsOK'
  BY StagesNext, FactsNext, RowsNext DEF RankInv, TypeOK
<1> QED BY <1>1, AnalyzeNext, GateNext DEF RankInv, TypeOK

(* Every variable keeps its shape, and a stage holds something only while it
   runs. *)
THEOREM TypesHold == Spec => []TypeOK
<1>1. RankInv => TypeOK
  BY DEF RankInv
<1> QED BY <1>1, RankStarts, RankKept, PTL DEF Spec

(* A competitor that counts as valid has the metrics of the company it is, and
   that company's site was its own: competitor_analyze stores by the peer its
   page named, and replace_competitor takes the flag down. *)
THEOREM PeersAreMeasured == Spec => []UnracedPeersAreMeasured
<1>1. RankInv => UnracedPeersAreMeasured
  BY DEF RankInv, AnalyzeInv
<1> QED BY <1>1, RankStarts, RankKept, PTL DEF Spec

(* Whom the gate lets pass may be contacted, is official and has two measured
   competitors, for whatever was cut off, replaced or rejected before. *)
THEOREM GateEarned == Spec => []GateIsEarned
<1>1. RankInv => GateIsEarned
  <2> SUFFICES ASSUME RankInv, stage["score"] = "succeeded", NEW c \in Companies \ touched,
                      GatePassed(c), \A k \in raced : k[1] # c
               PROVE  Earned(c)
    BY DEF GateIsEarned, Earned
  <2>1. Todo("score") = <<>>
    BY DEF RankInv, TypeOK, StagesOK, StageNames, Resting, Todo
  <2>2. ~Waits(c)
    BY <2>1 DEF Waits
  <2>3. Unmoved(c)
    BY DEF Unmoved
  <2> QED BY <2>2, <2>3 DEF RankInv, GateInv
<1> QED BY <1>1, RankStarts, RankKept, PTL DEF Spec

(* However often shortlist is repeated and whoever is suspended in between, the
   companies that are listed and may be contacted keep within the cap and the
   quota of their industry and have ranks of their own, although no execution
   removes what an earlier one listed: those who are left are among the ones a
   shortlist of the others would name (shortlistStage). *)
THEOREM ShortlistKept == Spec => []ShortlistHolds
<1> DEFINE Inv == RankInv /\ TotalsOK /\ ListInv
<1>1. Init => Inv  BY RankStarts, ListBegins
<1>2. Inv /\ [Next]_vars => Inv'
  <2> SUFFICES ASSUME Inv, Next \/ UNCHANGED vars PROVE Inv'  OBVIOUS
  <2>1. RankInv'  BY RankKept
  <2>2. TotalsOK' /\ ListInv'  BY TotalsNext, ListNext DEF RankInv, TypeOK
  <2>3. QED  BY <2>1, <2>2
<1>3. Inv => ShortlistHolds  BY ListHolds DEF RankInv
<1> HIDE DEF Inv
<1>4. QED  BY <1>1, <1>2, <1>3, PTL DEF Spec

=============================================================================
