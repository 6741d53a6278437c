---------------------------- MODULE RunPipeline ----------------------------
(***************************************************************************)
(* A run: startRun, the workers that carry its jobs, advanceAttempt that   *)
(* opens the next stages and closes the run (packages/pipeline/src/        *)
(* orchestrator.ts, apps/worker/src/loop.ts), and the admin RPCs           *)
(* cancel_run and retry_run (packages/db/migrations/0011_admin_rpcs.sql).  *)
(*                                                                         *)
(* The RPCs are transactions and so single actions.  startRun's enqueue    *)
(* and advanceAttempt are not: they read the job counts once and then send *)
(* one statement after the other.  A process therefore carries `todo`, the *)
(* set of statements it has still to send, computed when it read the       *)
(* counts and sent in the order of `Turn`, and every other process may act *)
(* between two of them.                                                    *)
(*                                                                         *)
(* Of the job queue this module keeps what JobLedger promises (JobQueue    *)
(* implements it) and the fence: a completion counts only for the latest   *)
(* claim.  Leases, back-off and lost calls are JobQueue's.                 *)
(***************************************************************************)
EXTENDS Naturals, Sequences, FiniteSets

CONSTANTS
  Order,        \* stageOrder(): the stages, dependencies first
  DependsOn,    \* DependsOn[s]: handler.dependsOn
  Industries,   \* collect has one job per industry
  Companies,    \* companies a score stage may score
  Workers,
  Starter,      \* the process that calls startRun
  MaxAttempts,  \* jobs.max_attempts
  MaxRuns,      \* bound: attempts of the run (1 + retries)
  MaxFailures,  \* bound: handlers that throw
  MaxCrashes,   \* bound: processes that die or lose the database mid-way
  MaxFaults,    \* bound: both together
  LeasesHold,   \* TRUE: a claim is taken away only from a dead worker
  QuickStart,   \* TRUE: startRun ends before a worker polls (as in `run`)
  AdminActs     \* which of "cancel", "retry" the admin may do

Stages == {Order[i] : i \in DOMAIN Order}

ASSUME StagesAssumption ==
  /\ \A s \in Stages : DependsOn[s] \subseteq Stages
  /\ {"collect", "score"} \subseteq Stages /\ DependsOn["collect"] = {}
  /\ Starter \notin Workers
  /\ Order \in Seq(Stages) /\ IsFiniteSet(Stages) /\ IsFiniteSet(Industries)
ASSUME BoundsAssumption ==
  /\ MaxAttempts \in Nat \ {0} /\ MaxRuns \in Nat \ {0}
  /\ MaxFailures \in Nat /\ MaxCrashes \in Nat /\ MaxFaults \in Nat
  /\ LeasesHold \in BOOLEAN /\ QuickStart \in BOOLEAN /\ AdminActs \subseteq {"cancel", "retry"}

VARIABLES
  run,        \* runs.status; "none" before startRun
  attempts,   \* how many run_attempts rows there are
  from,       \* from[a]: the stage attempt a was started from
  row,        \* row[a][s]: the run_stages row
  job,        \* job[j]: phase and number of claims of <<attempt, stage, key>>
  score,      \* score[a][c]: the scores row of company c in attempt a
  counts,     \* runs.counts: which attempt each funnel number was taken from
  proc,       \* proc[p]: where process p stands
  missed,     \* whether an advance that a settled job called for did not happen
  failures, crashes

vars == <<run, attempts, from, row, job, score, counts, proc, missed, failures, crashes>>

Attempts == 1 .. MaxRuns
Keys(s) == IF s = "collect" THEN Industries ELSE {"all"}
Jobs == UNION { {a} \X {s} \X Keys(s) : a \in Attempts, s \in Stages }
Processes == Workers \cup {Starter}

Terminal == {"succeeded", "partial", "failed", "skipped"}
Finished == {"succeeded", "partial", "failed"}

Settled(j) == job[j].phase \in {"succeeded", "dead"}
Exists(j)  == job[j].phase # "absent"

JobsOf(a, s) == {a} \X {s} \X Keys(s)
Total(a, s)  == Cardinality({ j \in JobsOf(a, s) : Exists(j) })
Done(a, s)   == Cardinality({ j \in JobsOf(a, s) : job[j].phase = "succeeded" })
Failed(a, s) == Cardinality({ j \in JobsOf(a, s) : job[j].phase = "dead" })

(* Of run and row only what was read in an earlier step could be said. *)
TypeOK ==
  /\ attempts \in 0 .. MaxRuns
  /\ from \in [Attempts -> Stages]
  /\ job \in [Jobs -> [ phase  : {"absent", "queued", "running", "succeeded", "dead"},
                        claims : 0 .. MaxAttempts ]]
  /\ score \in [Attempts -> [Companies -> {"none", "valid", "invalid"}]]
  /\ counts \in [{"raw_candidates", "analyzed"} -> 0 .. MaxRuns]
  /\ DOMAIN proc = Processes
  /\ \A p \in Processes :
       /\ proc[p].pc \in {"idle", "handler", "commit", "advance", "send"}
       /\ proc[p].pc \in {"handler", "commit"} => proc[p].job \in Jobs
       /\ proc[p].pc \in {"advance", "send"} => proc[p].attempt \in 1 .. attempts
  /\ missed \in BOOLEAN
  /\ failures \in 0 .. MaxFailures
  /\ crashes \in 0 .. MaxCrashes

-----------------------------------------------------------------------------
(* isTerminal and deriveStageStatus, on job counts. *)
deriveStageStatus(total, done, failed) ==
  IF total = 0 THEN "pending"
  ELSE IF done + failed < total THEN "running"
  ELSE IF failed = 0 THEN "succeeded"
  ELSE IF 10 * done >= 8 * total THEN "partial" ELSE "failed"

Status(a, s) == deriveStageStatus(Total(a, s), Done(a, s), Failed(a, s))

(* The run's verdict once every stage is terminal. *)
Verdict(a) ==
  IF \E s \in Stages : Status(a, s) = "failed" THEN "failed"
  ELSE IF \E s \in Stages : Status(a, s) = "partial" THEN "partial"
  ELSE "succeeded"

(* What enqueueStage sends: one insert per job, then the run_stages update.
   advanceAttempt passes no industries, so its collect has no job. *)
EnqueueStatements(s, keys) ==
  {[op |-> "insert", stage |-> s, key |-> k] : k \in keys} \cup {[op |-> "mark", stage |-> s]}

(* What advanceAttempt does about stage s in its first loop: the row, and once
   the stage is over the funnel number. *)
RowStatements(a, s) ==
  IF Total(a, s) = 0 THEN {}
  ELSE {[op |-> "row", stage |-> s, total |-> Total(a, s),
         done |-> Done(a, s), failed |-> Failed(a, s)]}
       \cup (IF s \in {"collect", "score"} /\ Status(a, s) \in Terminal
             THEN {[op |-> "counts", stage |-> s]} ELSE {})

(* A faulty variant of OpenStatements: one terminal dependency is enough. *)
OpenStatementsAnyDep(a, s) ==
  IF \/ Total(a, s) > 0
     \/ DependsOn[s] # {} /\ \A d \in DependsOn[s] : Status(a, d) \notin Terminal
  THEN {}
  ELSE EnqueueStatements(s, IF s = "collect" THEN {} ELSE Keys(s))

(* A faulty variant of OpenStatements: a failed dependency is not terminal. *)
OpenStatementsUnfailed(a, s) ==
  IF Total(a, s) > 0 \/ \E d \in DependsOn[s] : Status(a, d) \notin {"succeeded", "partial"}
  THEN {}
  ELSE EnqueueStatements(s, IF s = "collect" THEN {} ELSE Keys(s))

(* ... and in its second: stages without jobs whose dependencies are all
   terminal are opened, or marked skipped if all of those failed.  A stage
   marked skipped has no jobs, so here it counts as pending for ever. *)
OpenStatements(a, s) ==
  IF Total(a, s) > 0 \/ \E d \in DependsOn[s] : Status(a, d) \notin Terminal
  THEN {}
  ELSE IF DependsOn[s] # {} /\ \A d \in DependsOn[s] : Status(a, d) = "failed"
  THEN {[op |-> "skip", stage |-> s]}
  ELSE EnqueueStatements(s, IF s = "collect" THEN {} ELSE Keys(s))

(* A faulty variant of CloseStatements: stages that have no job yet do not count. *)
CloseStatementsOpened(a) ==
  IF \A s \in Stages : Total(a, s) > 0 => Status(a, s) \in Terminal
  THEN {[op |-> "close", verdict |-> Verdict(a)]} ELSE {}

CloseStatements(a) ==
  IF \A s \in Stages : Status(a, s) \in Terminal
  THEN {[op |-> "close", verdict |-> Verdict(a)]} ELSE {}

(* All statements of one advanceAttempt, fixed by the counts it has read. *)
AdvanceStatements(a) ==
  (UNION {RowStatements(a, s) : s \in Stages})
  \cup (UNION {OpenStatements(a, s) : s \in Stages})
  \cup CloseStatements(a)

(* Their order: two loops over the stages, then the closing update. *)
Place == [s \in Stages |-> CHOOSE i \in DOMAIN Order : Order[i] = s]

Turn(st) ==
  CASE st.op = "row"                -> 2 * Place[st.stage]
    [] st.op = "counts"             -> 2 * Place[st.stage] + 1
    [] st.op \in {"insert", "skip"} -> 2 * (Len(Order) + Place[st.stage])
    [] st.op = "mark"               -> 2 * (Len(Order) + Place[st.stage]) + 1
    [] OTHER                        -> 4 * Len(Order) + 2

-----------------------------------------------------------------------------
Rest == [pc |-> "idle"]
Sending(a, statements, inserted) ==
  [pc |-> "send", attempt |-> a, todo |-> statements, inserted |-> inserted]

Init ==
  /\ run = "none"
  /\ attempts = 0
  /\ from = [a \in Attempts |-> "collect"]
  /\ row = [a \in Attempts |-> [s \in Stages |->
              [status |-> "pending", total |-> 0, done |-> 0, failed |-> 0]]]
  /\ job = [j \in Jobs |-> [phase |-> "absent", claims |-> 0]]
  /\ score = [a \in Attempts |-> [c \in Companies |-> "none"]]
  /\ counts = [k \in {"raw_candidates", "analyzed"} |-> 0]
  /\ proc = [p \in Processes |-> Rest]
  /\ missed = FALSE
  /\ failures = 0
  /\ crashes = 0

(* startRun's transaction: run, first attempt, pending stage rows.  The
   collect jobs are inserted afterwards. *)
startRun ==
  /\ run = "none" /\ attempts = 0
  /\ run' = "running"
  /\ attempts' = 1
  /\ proc' = [proc EXCEPT ![Starter] =
                Sending(1, EnqueueStatements("collect", Keys("collect")), 0)]
  /\ UNCHANGED <<from, row, job, score, counts, missed, failures, crashes>>

(* The run's status after the closing update. *)
Closed(verdict) == IF run = "cancelled" THEN run ELSE verdict

(* The key of a stage's number in runs.counts. *)
Funnel(s) == IF s = "collect" THEN "raw_candidates" ELSE "analyzed"

(* One statement of enqueueStage or advanceAttempt. *)
UpdateRow(a, s, new) == row' = [row EXCEPT ![a][s] = new]

Perform(a, st, inserted) ==
  CASE st.op = "row" ->
         /\ UpdateRow(a, st.stage,
              [ status |-> deriveStageStatus(st.total, st.done, st.failed),
                total |-> st.total, done |-> st.done, failed |-> st.failed ])
         /\ UNCHANGED <<run, job, counts>>
    [] st.op = "counts" ->
         /\ LET k == Funnel(st.stage)
            IN  counts' = IF counts[k] = 0 THEN [counts EXCEPT ![k] = a] ELSE counts
         /\ UNCHANGED <<run, row, job>>
    [] st.op = "skip" ->
         /\ UpdateRow(a, st.stage, [row[a][st.stage] EXCEPT !.status = "skipped"])
         /\ UNCHANGED <<run, job, counts>>
    [] st.op = "insert" ->
         /\ job' = IF Exists(<<a, st.stage, st.key>>) THEN job
                   ELSE [job EXCEPT ![<<a, st.stage, st.key>>].phase = "queued"]
         /\ UNCHANGED <<run, row, counts>>
    [] st.op = "mark" ->
         /\ UpdateRow(a, st.stage, [row[a][st.stage] EXCEPT !.status = "running",
                                                            !.total = @ + inserted])
         /\ UNCHANGED <<run, job, counts>>
    [] OTHER ->    \* close
         /\ run' = Closed(st.verdict)
         /\ UNCHANGED <<row, job, counts>>

(* The statement whose turn it is.  enqueueStage counts the rows its inserts
   returned; the count restarts with each stage. *)
send(p) ==
  /\ proc[p].pc = "send"
  /\ \E st \in proc[p].todo :
       LET a    == proc[p].attempt
           rest == proc[p].todo \ {st}
           new  == IF st.op # "insert" THEN 0
                   ELSE proc[p].inserted + (IF Exists(<<a, st.stage, st.key>>) THEN 0 ELSE 1)
       IN  /\ \A t \in rest : Turn(st) <= Turn(t)
           /\ Perform(a, st, proc[p].inserted)
           /\ proc' = [proc EXCEPT ![p] = IF rest = {} THEN Rest ELSE Sending(a, rest, new)]
  /\ UNCHANGED <<attempts, from, score, missed, failures, crashes>>

-----------------------------------------------------------------------------
(* runOne, with the RPCs as JobLedger steps. *)
acquire(w) ==
  /\ proc[w].pc = "idle"
  /\ QuickStart => proc[Starter].pc = "idle"
  /\ \E j \in Jobs :
       /\ job[j].phase = "queued"
       /\ job' = [job EXCEPT ![j] = [phase |-> "running", claims |-> @.claims + 1]]
       /\ proc' = [proc EXCEPT ![w] = [pc |-> "handler", job |-> j, claim |-> job[j].claims + 1]]
  /\ UNCHANGED <<run, attempts, from, row, score, counts, missed, failures, crashes>>

(* The score stage's upsert keeps the invalidated_at of a row there is; a row
   it inserts is valid. *)
Rescored(old) == IF old = "none" THEN "valid" ELSE old

(* The score stage writes company by company, each in a transaction. *)
persist(w, c) ==
  /\ proc[w].pc = "handler" /\ proc[w].job[2] = "score"
  /\ score' = [score EXCEPT ![proc[w].job[1]][c] = Rescored(@)]
  /\ UNCHANGED <<run, attempts, from, row, job, counts, proc, missed, failures, crashes>>

(* The handler ends; also one that throws has written what it has written. *)
execute(w) ==
  /\ proc[w].pc = "handler"
  /\ \E ok \in BOOLEAN :
       /\ ok \/ (failures < MaxFailures /\ failures + crashes < MaxFaults)
       /\ failures' = IF ok THEN failures ELSE failures + 1
       /\ proc' = [proc EXCEPT ![w] = [pc |-> "commit", job |-> @.job,
                                       claim |-> @.claim, ok |-> ok]]
  /\ UNCHANGED <<run, attempts, from, row, job, score, counts, missed, crashes>>

Released(j) == [job[j] EXCEPT !.phase = IF job[j].claims >= MaxAttempts THEN "dead" ELSE "queued"]

(* complete_job, fenced; whatever its answer, `finally` advances. *)
complete(w) ==
  /\ proc[w].pc = "commit"
  /\ LET j == proc[w].job
         current == job[j].phase = "running" /\ job[j].claims = proc[w].claim
     IN  /\ job' = IF ~current THEN job
                   ELSE [job EXCEPT ![j] = IF proc[w].ok THEN [@ EXCEPT !.phase = "succeeded"]
                                                         ELSE Released(j)]
         /\ proc' = [proc EXCEPT ![w] = [pc |-> "advance", attempt |-> j[1]]]
  /\ UNCHANGED <<run, attempts, from, row, score, counts, missed, failures, crashes>>

(* advanceAttempt's one read of the counts. *)
advanceAttempt(w) ==
  /\ proc[w].pc = "advance"
  /\ LET statements == AdvanceStatements(proc[w].attempt)
     IN  proc' = [proc EXCEPT ![w] = IF statements = {} THEN Rest
                                     ELSE Sending(proc[w].attempt, statements, 0)]
  /\ UNCHANGED <<run, attempts, from, row, job, score, counts, missed, failures, crashes>>

(* The process dies (and is restarted), or a statement fails: the rest of
   what it was doing does not happen. *)
crash(p) ==
  /\ crashes < MaxCrashes /\ failures + crashes < MaxFaults
  /\ proc[p].pc # "idle"
  /\ crashes' = crashes + 1
  /\ proc' = [proc EXCEPT ![p] = Rest]
  /\ missed' = (missed \/ proc[p].pc \in {"advance", "send"})
  /\ UNCHANGED <<run, attempts, from, row, job, score, counts, failures>>

Holder(j) == { w \in Workers : /\ proc[w].pc \in {"handler", "commit"}
                               /\ proc[w].job = j /\ proc[w].claim = job[j].claims }

(* The reaper takes a claim whose lease ran out.  Nothing advances the run. *)
reap(j) ==
  /\ job[j].phase = "running"
  /\ LeasesHold => Holder(j) = {}
  /\ job' = [job EXCEPT ![j] = Released(j)]
  /\ missed' = (missed \/ Released(j).phase = "dead")
  /\ UNCHANGED <<run, attempts, from, row, score, counts, proc, failures, crashes>>

-----------------------------------------------------------------------------
cancel_run ==
  /\ "cancel" \in AdminActs
  /\ run = "running"
  /\ run' = "cancelled"
  /\ job' = [j \in Jobs |-> IF job[j].phase = "queued"
                            THEN [job[j] EXCEPT !.phase = "dead"] ELSE job[j]]
  /\ UNCHANGED <<attempts, from, row, score, counts, proc, missed, failures, crashes>>

(* A faulty variant of retry_run: it accepts a cancelled run, like any other. *)
retry_runCancelled(s) ==
  /\ "retry" \in AdminActs
  /\ run # "none"
  /\ attempts < MaxRuns
  /\ attempts' = attempts + 1
  /\ from' = [from EXCEPT ![attempts + 1] = s]
  /\ job' = [j \in Jobs |-> IF j[1] = attempts + 1 /\ j[2] = s
                            THEN [phase |-> "queued", claims |-> 0] ELSE job[j]]
  /\ run' = "running"
  /\ UNCHANGED <<row, score, counts, proc, missed, failures, crashes>>

(* A faulty variant of Invalidated: the new attempt's id is taken. *)
InvalidatedNew(prev) ==
  [score EXCEPT ![prev + 1] = [c \in Companies |-> IF @[c] = "valid" THEN "invalid" ELSE @[c]]]

(* The rows there are; what the attempt inserts later is not among them. *)
Invalidated(prev) ==
  [score EXCEPT ![prev] = [c \in Companies |-> IF @[c] = "valid" THEN "invalid" ELSE @[c]]]

(* A new attempt from stage s: the previous attempt's scores are invalidated,
   the jobs of s are inserted (for collect: copied), the run runs again. *)
retry_run(s) ==
  /\ "retry" \in AdminActs
  /\ run \notin {"none", "cancelled"}
  /\ attempts < MaxRuns
  /\ LET prev == attempts
         a == attempts + 1
         keys == IF s = "collect" THEN { k \in Keys(s) : Exists(<<prev, s, k>>) } ELSE Keys(s)
     IN  /\ keys # {}
         /\ attempts' = a
         /\ from' = [from EXCEPT ![a] = s]
         /\ score' = Invalidated(prev)
         /\ job' = [j \in Jobs |-> IF j[1] = a /\ j[2] = s /\ j[3] \in keys
                                   THEN [phase |-> "queued", claims |-> 0] ELSE job[j]]
         /\ UpdateRow(a, s, [row[a][s] EXCEPT !.status = "running", !.total = Cardinality(keys)])
  /\ run' = "running"
  /\ UNCHANGED <<counts, proc, missed, failures, crashes>>

-----------------------------------------------------------------------------
WorkerStep(w) == acquire(w) \/ execute(w) \/ complete(w) \/ advanceAttempt(w)

Score == \E w \in Workers, c \in Companies : persist(w, c)

Next ==
  \/ startRun
  \/ \E p \in Processes : send(p) \/ crash(p)
  \/ \E w \in Workers : WorkerStep(w)
  \/ Score
  \/ \E j \in Jobs : reap(j)
  \/ cancel_run
  \/ \E s \in Stages : retry_run(s)

Spec == Init /\ [][Next]_vars

(* Fairness: as long as a live process has something to do or a dead one's
   claim is left to the reaper (pg_cron, every minute), something of it is done. *)
Progress ==
  \/ startRun
  \/ \E p \in Processes : send(p)
  \/ \E w \in Workers : WorkerStep(w)
  \/ \E j \in Jobs : reap(j) /\ Holder(j) = {}

FairSpec == Spec /\ WF_vars(Progress)

-----------------------------------------------------------------------------
(* Every collect job of an attempt is inserted before one of them can be over:
   there is only one, or startRun is not interrupted, a worker waits for its
   end and no retry copies the jobs meanwhile. *)
CollectIsWhole ==
  \/ \E i \in Industries : Industries = {i}
  \/ QuickStart /\ MaxCrashes = 0 /\ "retry" \notin AdminActs

(* A stage has jobs only when every stage it depends on has run to its end
   (orchestrator.ts:9), or the attempt was started from it. *)
StageOpensAfterDeps ==
  \A a \in 1 .. attempts : \A s \in Stages : (Total(a, s) > 0 /\ s # from[a]) =>
    \A d \in DependsOn[s] :
      /\ Total(a, d) > 0
      /\ d # "collect" \/ CollectIsWhole => \A k \in Keys(d) : Settled(<<a, d, k>>)

(* A finished run is one of whose attempts every job of every stage is
   settled, and its status says what became of them: never "succeeded" over
   a dead job (orchestrator.ts:25). *)
VerdictIsTrue ==
  run \in Finished /\ CollectIsWhole =>
    \E a \in 1 .. attempts :
      /\ \A j \in Jobs : j[1] = a => Settled(j)
      /\ run = Verdict(a)

(* A cancelled run stays cancelled, whatever its workers still write. *)
CancelledForGood == [][run = "cancelled" => run' = "cancelled"]_vars

(* Jobs of a run never return from succeeded or dead and are never claimed
   more often than allowed - not by two processes that open one stage. *)
Ledger == INSTANCE JobLedger WITH
            phase  <- [j \in Jobs |-> job[j].phase],
            claims <- [j \in Jobs |-> job[j].claims]
ImplementsLedger == Ledger!Spec

(* When nothing is being done any more, a finished run shows every stage of a
   completed attempt as terminal, however many workers have called
   advanceAttempt at the same time (orchestrator.ts:160 says that they may). *)
FinishedRunShowsFinishedStages ==
  (run \in Finished /\ \A p \in Processes : proc[p].pc = "idle") =>
    \E a \in 1 .. attempts : \A s \in Stages : row[a][s].status \in Terminal

(* What keeps a run from being closed for good: an advance that a settled job
   called for did not happen, since its process died on the way or the reaper
   had settled the job; a stage was skipped; a retry began at a later stage. *)
Derailed ==
  \/ missed
  \/ \E a \in Attempts : from[a] # "collect"
  \/ \E a \in Attempts, s \in Stages : row[a][s].status = "skipped"

(* The run ends (orchestrator.ts:235), although handlers fail, workers die in
   them and an administrator retries it from the start, unless one of these
   three things has happened. *)
RunFinishes ==
  (run = "running") ~> (run \in Finished \cup {"cancelled"} \/ Derailed)

(* Scoring in attempt a is over: its jobs are settled, and nobody is at it
   without a claim. *)
ScoringOver(a) ==
  /\ \A j \in JobsOf(a, "score") : Settled(j)
  /\ \A w \in Workers : proc[w].pc = "handler" => proc[w].job \notin JobsOf(a, "score")

(* An attempt that is not the latest has no valid score. *)
Retired(a) == a < attempts => \A c \in Companies : score[a][c] # "valid"

(* A run that is retried after the scoring of its last attempt leaves that
   attempt without a valid score, and nothing brings one back: no late advance
   opens the stage again, no late report gives its job back, no later write
   revives a row (0011_admin_rpcs.sql:147).  Of an attempt that is retried
   before its scoring is over this is not so. *)
RetiredScoresStayOut ==
  [][\A a \in Attempts :
       a <= attempts /\ ScoringOver(a) /\ Retired(a) => ScoringOver(a)' /\ Retired(a)']_vars
=============================================================================
