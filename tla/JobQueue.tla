------------------------------ MODULE JobQueue ------------------------------
(***************************************************************************)
(* The job queue (packages/db/migrations/0004_functions.sql, acquire_job   *)
(* .. reap_expired_jobs) together with the worker loop that drives it      *)
(* (apps/worker/src/loop.ts).                                              *)
(*                                                                         *)
(* The database executes an RPC in one transaction, but a worker is one    *)
(* process of several, its connection can break, and its heartbeat timer   *)
(* runs beside the stage handler on the connection pool.  So heartbeat and *)
(* completion calls are messages: sent by the worker, executed by the      *)
(* database later (or after the worker died), answered or not.             *)
(*                                                                         *)
(* Time is kept as countdowns: lease[j] is lease_expires_at - now and      *)
(* wait[j] is run_after - now, in ticks.  A lease is expired when it is    *)
(* below 0 (the reaper's test is lease_expires_at < now()).                *)
(***************************************************************************)
EXTENDS Integers, FiniteSets

CONSTANTS
  Jobs,             \* job ids; acquire_job takes the lowest ready one
  Workers,          \* worker ids; a restarted process may reuse its id
  NoWorker,         \* locked_by is null
  MaxAttempts,      \* jobs.max_attempts
  Lease,            \* lease length in ticks
  BackoffUnit,      \* 2 seconds, in ticks
  BackoffCap,       \* 5 minutes, in ticks
  Jitter,           \* random() * 5 seconds, in ticks
  MaxCrashes        \* bound: process crashes in a behaviour

ASSUME JobsAssumption == Jobs \subseteq Nat \ {0}
ASSUME WorkersAssumption == NoWorker \notin Workers
ASSUME BudgetAssumption == MaxAttempts \in Nat \ {0}
ASSUME TimeAssumption ==
  /\ Lease \in Nat \ {0}
  /\ BackoffUnit \in Nat
  /\ BackoffCap \in Nat
  /\ Jitter \in Nat
  /\ MaxCrashes \in Nat

VARIABLES
  job,      \* job[j]: the columns of the jobs row
  worker,   \* worker[w]: where runOne of process w stands
  calls,    \* heartbeat and completion calls the database has yet to execute
  crashes   \* how many processes have crashed so far

vars == <<job, worker, calls, crashes>>

NoJob == 0
Expired == -1

JobRow == [ status   : {"absent", "queued", "running", "succeeded", "dead"},
            attempts : 0 .. MaxAttempts,
            fence    : Nat,
            lockedBy : Workers \cup {NoWorker},
            lease    : Expired .. Lease,
            wait     : 0 .. (BackoffCap + Jitter) ]

(* idle: between two runOne calls; handler: in #execute; commit: about to
   call complete_job; await: the call is under way; advance: in `finally`;
   down: no process. *)
WorkerState == [ pc    : {"idle", "handler", "commit", "await", "advance", "down"},
                 job   : Jobs \cup {NoJob},
                 token : Nat,
                 ok    : BOOLEAN ]

Call == [ kind   : {"heartbeat", "success", "failure"},
          job    : Jobs,
          token  : Nat,
          worker : Workers ]

TypeOK ==
  /\ job \in [Jobs -> JobRow]
  /\ worker \in [Workers -> WorkerState]
  /\ calls \subseteq Call
  /\ crashes \in 0 .. MaxCrashes

-----------------------------------------------------------------------------
Absent == [ status |-> "absent", attempts |-> 0, fence |-> 0,
            lockedBy |-> NoWorker, lease |-> 0, wait |-> 0 ]

Resting(pc) == [ pc |-> pc, job |-> NoJob, token |-> 0, ok |-> FALSE ]

Idle == Resting("idle")
Down == Resting("down")

Init ==
  /\ job = [j \in Jobs |-> Absent]
  /\ worker = [w \in Workers |-> Idle]
  /\ calls = {}
  /\ crashes = 0

(* least(2^attempts * 2 seconds, 5 minutes) + random() * 5 seconds *)
Delays(attempts) ==
  { d \in 0 .. (BackoffCap + Jitter) :
      \E r \in 0 .. Jitter :
        d = r + (IF (2 ^ attempts) * BackoffUnit < BackoffCap
                 THEN (2 ^ attempts) * BackoffUnit ELSE BackoffCap) }

Ready == { j \in Jobs : job[j].status = "queued" /\ job[j].wait = 0 }

(* The row acquire_job leaves behind. *)
Claimed(j, w) ==
  [ status |-> "running", attempts |-> job[j].attempts + 1,
    fence |-> job[j].fence + 1, lockedBy |-> w, lease |-> Lease, wait |-> 0 ]

(* A faulty variant: the fence starts over. *)
ReleasedWithNewFence(j, delay) ==
  [ status   |-> IF job[j].attempts >= MaxAttempts THEN "dead" ELSE "queued",
    attempts |-> job[j].attempts, fence |-> 0,
    lockedBy |-> NoWorker, lease |-> 0, wait |-> delay ]

(* The row after a claim was given up: by a reported failure or the reaper. *)
Released(j, delay) ==
  [ status   |-> IF job[j].attempts >= MaxAttempts THEN "dead" ELSE "queued",
    attempts |-> job[j].attempts,
    fence    |-> job[j].fence,
    lockedBy |-> NoWorker,
    lease    |-> 0,
    wait     |-> IF job[j].attempts >= MaxAttempts THEN job[j].wait ELSE delay ]

(* The row after a reported success. *)
Succeeded(j) ==
  [ status |-> "succeeded", attempts |-> job[j].attempts, fence |-> job[j].fence,
    lockedBy |-> NoWorker, lease |-> 0, wait |-> job[j].wait ]

(* Faulty variants of Current: the token is not compared; an expired lease that
   nobody has taken yet is refused as well. *)
CurrentByOwner(c) == job[c.job].status = "running" /\ job[c.job].lockedBy = c.worker

(* The guard heartbeat_job and complete_job share. *)
Current(c) ==
  /\ job[c.job].status = "running"
  /\ job[c.job].fence = c.token
  /\ job[c.job].lockedBy = c.worker

-----------------------------------------------------------------------------
(* A faulty variant of enqueue: on conflict do update set status = 'queued'. *)
enqueueAgain(j) ==
  /\ job[j].status # "running"
  /\ job' = [job EXCEPT ![j].status = "queued"]
  /\ UNCHANGED <<worker, calls, crashes>>

(* Callers of the queue: the orchestrator inserts a job once (unique key,
   on conflict do nothing); cancel_run kills the jobs still waiting. *)
enqueue(j) ==
  /\ job[j].status = "absent"
  /\ job' = [job EXCEPT ![j] = [Absent EXCEPT !.status = "queued"]]
  /\ UNCHANGED <<worker, calls, crashes>>

cancel_queued ==
  /\ \E j \in Jobs : job[j].status = "queued"
  /\ job' = [j \in Jobs |-> IF job[j].status = "queued"
                            THEN [job[j] EXCEPT !.status = "dead"]
                            ELSE job[j]]
  /\ UNCHANGED <<worker, calls, crashes>>

(* acquire_job, answered: the worker starts the handler and its heartbeat
   timer.  Two calls never take the same row (for update skip locked). *)
acquire_job(w) ==
  /\ worker[w].pc = "idle"
  /\ \E j \in Ready :
       /\ \A i \in Ready : j <= i
       /\ job' = [job EXCEPT ![j] = Claimed(j, w)]
       /\ worker' = [worker EXCEPT ![w] =
                       [ pc |-> "handler", job |-> j, token |-> job[j].fence + 1,
                         ok |-> FALSE ]]
  /\ UNCHANGED <<calls, crashes>>

(* acquire_job took effect but its answer was lost: runOne rejects, and the
   process ends holding a job it does not know of. *)
acquire_unanswered(w) ==
  /\ crashes < MaxCrashes
  /\ worker[w].pc = "idle"
  /\ \E j \in Ready :
       /\ \A i \in Ready : j <= i
       /\ job' = [job EXCEPT ![j] = Claimed(j, w)]
  /\ worker' = [worker EXCEPT ![w] = Down]
  /\ crashes' = crashes + 1
  /\ UNCHANGED calls

(* The stage handler returned or threw.  Nothing stops it earlier: a
   heartbeat that answers false only logs. *)
execute(w) ==
  /\ worker[w].pc = "handler"
  /\ \E ok \in BOOLEAN :
       worker' = [worker EXCEPT ![w].pc = "commit", ![w].ok = ok]
  /\ UNCHANGED <<job, calls, crashes>>

(* #complete sends its call. *)
send_complete(w) ==
  /\ worker[w].pc = "commit"
  /\ calls' = calls \cup {[ kind   |-> IF worker[w].ok THEN "success" ELSE "failure",
                            job    |-> worker[w].job,
                            token  |-> worker[w].token,
                            worker |-> w ]}
  /\ worker' = [worker EXCEPT ![w].pc = "await"]
  /\ UNCHANGED <<job, crashes>>

(* setInterval fires until clearInterval in `finally`. *)
send_heartbeat(w) ==
  /\ worker[w].pc \in {"handler", "commit", "await"}
  /\ calls' = calls \cup {[ kind |-> "heartbeat", job |-> worker[w].job,
                            token |-> worker[w].token, worker |-> w ]}
  /\ UNCHANGED <<job, worker, crashes>>

(* The process that sent c is still in the runOne that sent it. *)
Awaited(c) ==
  /\ worker[c.worker].pc \in {"handler", "commit", "await"}
  /\ worker[c.worker].job = c.job
  /\ worker[c.worker].token = c.token

(* A refused heartbeat is only logged: the handler runs on to its end. *)
heartbeat_job(c) ==
  /\ c \in calls
  /\ c.kind = "heartbeat"
  /\ job' = IF Current(c) THEN [job EXCEPT ![c.job].lease = Lease] ELSE job
  /\ calls' = calls \ {c}
  /\ UNCHANGED <<worker, crashes>>

(* complete_job: the answer (applied or refused) ends the wait of the worker
   that sent this very call, unless the connection drops it. *)
complete_job(c) ==
  /\ c \in calls
  /\ c.kind \in {"success", "failure"}
  /\ \/ /\ Current(c)
        /\ \E d \in Delays(job[c.job].attempts) :
             job' = [job EXCEPT ![c.job] =
                       IF c.kind = "success" THEN Succeeded(c.job) ELSE Released(c.job, d)]
     \/ ~Current(c) /\ UNCHANGED job
  /\ calls' = calls \ {c}
  /\ \/ /\ Awaited(c)
        /\ worker[c.worker].pc = "await"
        /\ worker[c.worker].ok = (c.kind = "success")
        /\ worker' = [worker EXCEPT ![c.worker].pc = "advance"]
     \/ UNCHANGED worker
  /\ UNCHANGED crashes

(* The completion call failed on the worker's side, executed or not.  After
   complete(true) the catch block tries complete(false); a failure of that
   one leaves runOne and ends the process. *)
complete_throws(w) ==
  /\ worker[w].pc = "await"
  /\ worker' = [worker EXCEPT ![w] =
                  IF worker[w].ok THEN [@ EXCEPT !.pc = "commit", !.ok = FALSE]
                                  ELSE Down]
  /\ UNCHANGED <<job, calls, crashes>>

(* `finally`: the timer is cleared and advanceAttempt runs (RunPipeline). *)
finish(w) ==
  /\ worker[w].pc = "advance"
  /\ worker' = [worker EXCEPT ![w] = Idle]
  /\ UNCHANGED <<job, calls, crashes>>

crash(w) ==
  /\ crashes < MaxCrashes
  /\ worker[w].pc # "down"
  /\ worker' = [worker EXCEPT ![w] = Down]
  /\ crashes' = crashes + 1
  /\ UNCHANGED <<job, calls>>

restart(w) ==
  /\ worker[w].pc = "down"
  /\ worker' = [worker EXCEPT ![w] = Idle]
  /\ UNCHANGED <<job, calls, crashes>>

(* A faulty variant: only jobs with an attempt left. *)
OverdueWithBudget == { j \in Jobs : /\ job[j].status = "running"
                                    /\ job[j].lease = Expired
                                    /\ job[j].attempts < MaxAttempts }

Overdue == { j \in Jobs : job[j].status = "running" /\ job[j].lease = Expired }

reap_expired_jobs ==
  /\ Overdue # {}
  /\ \E delay \in [Overdue -> 0 .. (BackoffCap + Jitter)] :
       /\ \A j \in Overdue : delay[j] \in Delays(job[j].attempts)
       /\ job' = [j \in Jobs |-> IF j \in Overdue THEN Released(j, delay[j]) ELSE job[j]]
  /\ UNCHANGED <<worker, calls, crashes>>

Countdown(n, floor) == IF n > floor THEN n - 1 ELSE n

tick ==
  /\ \E j \in Jobs : \/ job[j].status = "running" /\ job[j].lease > Expired
                     \/ job[j].status = "queued" /\ job[j].wait > 0
  /\ job' = [j \in Jobs |->
       CASE job[j].status = "running" -> [job[j] EXCEPT !.lease = Countdown(@, Expired)]
         [] job[j].status = "queued"  -> [job[j] EXCEPT !.wait = Countdown(@, 0)]
         [] OTHER -> job[j]]
  /\ UNCHANGED <<worker, calls, crashes>>

-----------------------------------------------------------------------------
WorkerStep(w) ==
  \/ acquire_job(w) \/ acquire_unanswered(w)
  \/ execute(w) \/ send_heartbeat(w) \/ send_complete(w)
  \/ complete_throws(w) \/ finish(w) \/ crash(w) \/ restart(w)

DatabaseStep ==
  \/ \E c \in calls : heartbeat_job(c) \/ complete_job(c)
  \/ reap_expired_jobs

Next ==
  \/ \E j \in Jobs : enqueue(j)
  \/ cancel_queued
  \/ \E w \in Workers : WorkerStep(w)
  \/ DatabaseStep
  \/ tick

Spec == Init /\ [][Next]_vars

(* Fairness: time passes and pg_cron runs the reaper every minute; the
   database executes what it was sent and a broken connection is noticed;
   a handler returns (every fetch it makes has a timeout) and a live process
   goes on; a supervisor restarts a dead one.  Heartbeats need none. *)
Fairness ==
  /\ WF_vars(tick)
  /\ WF_vars(reap_expired_jobs)
  /\ \A w \in Workers :
       /\ WF_vars(\E c \in calls : c.worker = w /\ heartbeat_job(c))
       /\ WF_vars(\E c \in calls : c.worker = w /\ complete_job(c))
       /\ WF_vars(acquire_job(w))
       /\ WF_vars(execute(w) \/ send_complete(w) \/ finish(w) \/ restart(w))
       /\ WF_vars(/\ complete_throws(w)
                  /\ ~\E c \in calls : c.kind # "heartbeat" /\ c.worker = w)

FairSpec == Spec /\ Fairness

-----------------------------------------------------------------------------
(* The fence: a running row names the process its latest token was given to,
   so a worker or a call that carries that token belongs to that process. *)
LatestTokenIsTheOwners ==
  \A j \in Jobs : job[j].status = "running" =>
    /\ \A w \in Workers : (worker[w].job = j /\ worker[w].token = job[j].fence)
                            => w = job[j].lockedBy
    /\ \A c \in calls : (c.job = j /\ c.token = job[j].fence)
                            => c.worker = job[j].lockedBy

(* No token from the future: whatever a process or a delayed call carries was
   issued by acquire_job before, so a later claim always outdates it. *)
TokensWereIssued ==
  /\ \A w \in Workers : worker[w].job # NoJob => worker[w].token <= job[worker[w].job].fence
  /\ \A c \in calls : c.token <= job[c.job].fence

(* A waiting job always has an attempt left: neither a reported failure nor
   the reaper requeues a job whose attempts are used up, crashes included. *)
WaitingHasBudget ==
  \A j \in Jobs :
    /\ job[j].status = "queued" => job[j].attempts < MaxAttempts
    /\ job[j].status \in {"running", "succeeded"} => job[j].attempts \in 1 .. MaxAttempts

(* Only the executed report of the current claim, or an expired lease, ends
   a running claim; and only a reported success makes a job succeeded. *)
EndedByReportOrExpiry ==
  \A j \in Jobs : (job[j].status = "running" /\ job'[j].status # "running") =>
    \/ /\ job[j].lease = Expired
       /\ job'[j].status \in {"queued", "dead"}
    \/ \E c \in calls \ calls' :
         /\ c.job = j /\ c.token = job[j].fence /\ c.worker = job[j].lockedBy
         /\ (c.kind = "success") = (job'[j].status = "succeeded")

ClaimsEndByReportOrExpiry == [][EndedByReportOrExpiry]_vars

(* A worker that goes on after a completion (its call was answered) leaves
   no claim of its own behind: the row is settled, or someone else's. *)
AnsweredMeansSettled ==
  \A w \in Workers : worker[w].pc = "advance" =>
    LET row == job[worker[w].job]
    IN  row.status = "running" => row.fence > worker[w].token

(* Every job that was queued ends up succeeded or dead, whoever crashed on
   it and whichever calls were lost. *)
EveryJobSettles ==
  \A j \in Jobs : job[j].status \in {"queued", "running"}
                     ~> job[j].status \in {"succeeded", "dead"}

Ledger == INSTANCE JobLedger WITH
            phase  <- [j \in Jobs |-> job[j].status],
            claims <- [j \in Jobs |-> job[j].attempts]

(* The rows follow JobLedger: bounded claims, one settlement each, for good. *)
ImplementsLedger == Ledger!Spec
=============================================================================
