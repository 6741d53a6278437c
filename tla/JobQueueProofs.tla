--------------------------- MODULE JobQueueProofs ---------------------------
(***************************************************************************)
(* Proofs about the job queue, for every number of jobs and workers and    *)
(* every choice of lease, back-off and crash bound.                        *)
(***************************************************************************)
EXTENDS JobQueue, TLAPS

(* A process inside runOne knows the job and the token it was given. *)
BusyHasClaim ==
  \A w \in Workers : worker[w].pc \in {"handler", "commit", "await", "advance"}
                       => worker[w].job \in Jobs

(* A row not inserted yet has the columns' defaults. *)
AbsentIsFresh == \A j \in Jobs : job[j].status = "absent" => job[j] = Absent

(* The inductive invariant.  That tokens of the past are below the fence is
   what makes the next claim outdate them; that a waiting job has an attempt
   left is what keeps attempts within its type. *)
IInv ==
  /\ TypeOK
  /\ BusyHasClaim
  /\ AbsentIsFresh
  /\ WaitingHasBudget
  /\ TokensWereIssued
  /\ LatestTokenIsTheOwners

-----------------------------------------------------------------------------
(* A back-off delay is a number of ticks the row can hold. *)
LEMMA DelaysType ==
  ASSUME NEW a, NEW d \in Delays(a)
  PROVE  d \in 0 .. (BackoffCap + Jitter)
BY DEF Delays

(* Giving a claim up yields a well-typed row that keeps attempts and fence,
   is not running, and waits only if it has an attempt left. *)
LEMMA ReleasedRow ==
  ASSUME TypeOK, NEW j \in Jobs, NEW d \in 0 .. (BackoffCap + Jitter)
  PROVE  /\ Released(j, d) \in JobRow
         /\ Released(j, d).attempts = job[j].attempts
         /\ Released(j, d).fence = job[j].fence
         /\ Released(j, d).status \in {"queued", "dead"}
         /\ Released(j, d).status = "queued" => job[j].attempts < MaxAttempts
<1>1. job[j] \in JobRow  BY DEF TypeOK
<1>2. MaxAttempts \in Nat /\ Lease \in Nat \ {0}  BY BudgetAssumption, TimeAssumption
<1>3. QED  BY <1>1, <1>2 DEF Released, JobRow, Expired

(* A claim yields a well-typed running row one token and one attempt on. *)
LEMMA ClaimedRow ==
  ASSUME TypeOK, WaitingHasBudget, NEW j \in Ready, NEW w \in Workers
  PROVE  /\ j \in Jobs
         /\ Claimed(j, w) \in JobRow
         /\ Claimed(j, w).status = "running"
         /\ Claimed(j, w).lockedBy = w
         /\ Claimed(j, w).attempts = job[j].attempts + 1
         /\ Claimed(j, w).fence = job[j].fence + 1
         /\ job[j].fence \in Nat
         /\ job[j].attempts \in Nat
         /\ job[j].attempts < MaxAttempts
<1>1. j \in Jobs /\ job[j].status = "queued"  BY DEF Ready
<1>2. job[j] \in JobRow  BY <1>1 DEF TypeOK
<1>3. MaxAttempts \in Nat /\ Lease \in Nat \ {0} /\ BackoffCap \in Nat /\ Jitter \in Nat
  BY BudgetAssumption, TimeAssumption
<1>4. job[j].attempts < MaxAttempts  BY <1>1 DEF WaitingHasBudget
<1>5. QED  BY <1>1, <1>2, <1>3, <1>4 DEF Claimed, JobRow, Expired

LEMMA InitIInv == Init => IInv
<1> SUFFICES ASSUME Init PROVE IInv  OBVIOUS
<1> USE DEF Init
<1>1. Absent \in JobRow /\ Idle \in WorkerState
  BY BudgetAssumption, TimeAssumption DEF Absent, JobRow, Idle, Resting, WorkerState, NoJob, Expired
<1>2. TypeOK  BY <1>1, TimeAssumption DEF TypeOK
<1>3. BusyHasClaim  BY DEF BusyHasClaim, Idle, Resting
<1>4. AbsentIsFresh  BY DEF AbsentIsFresh
<1>5. WaitingHasBudget  BY DEF WaitingHasBudget, Absent
<1>6. TokensWereIssued  BY DEF TokensWereIssued, Idle, Resting
<1>7. LatestTokenIsTheOwners  BY DEF LatestTokenIsTheOwners, Absent
<1>8. QED  BY <1>2, <1>3, <1>4, <1>5, <1>6, <1>7 DEF IInv
-----------------------------------------------------------------------------
(* A step that touches only the rows, keeps every fence and never makes a row
   running (nor changes the owner of one that stays so) needs a look at the
   rows alone. *)
LEMMA RowStep ==
  ASSUME IInv,
         job' \in [Jobs -> JobRow],
         UNCHANGED <<worker, calls>>,
         crashes' = crashes,
         \A j \in Jobs :
           /\ job'[j].fence = job[j].fence
           /\ job'[j].status = "running" =>
                /\ job[j].status = "running"
                /\ job'[j].lockedBy = job[j].lockedBy
                /\ job'[j].attempts = job[j].attempts
           /\ job'[j].status = "absent" => job'[j] = job[j]
           /\ job'[j].status = "queued" => job'[j].attempts < MaxAttempts
           /\ job'[j].status = "succeeded" => job[j].status = "succeeded" /\ job'[j].attempts = job[j].attempts
  PROVE  IInv'
<1> USE DEF IInv
<1>1. TypeOK'  BY DEF TypeOK
<1>2. BusyHasClaim'  BY DEF BusyHasClaim
<1>3. AbsentIsFresh'  BY DEF AbsentIsFresh
<1>4. WaitingHasBudget'  BY DEF WaitingHasBudget
<1>5. TokensWereIssued'
  BY <1>1 DEF TokensWereIssued, TypeOK, WorkerState, Call
<1>6. LatestTokenIsTheOwners'  BY DEF LatestTokenIsTheOwners
<1>7. QED  BY <1>1, <1>2, <1>3, <1>4, <1>5, <1>6

LEMMA EnqueueStep ==
  ASSUME IInv, NEW j \in Jobs, enqueue(j)  PROVE  IInv'
<1> DEFINE new == [Absent EXCEPT !.status = "queued"]
<1>1. new \in JobRow /\ new.status = "queued" /\ new.attempts = 0 /\ new.fence = 0
  BY BudgetAssumption, TimeAssumption DEF Absent, JobRow, Expired
<1>2. job' = [job EXCEPT ![j] = new] /\ job \in [Jobs -> JobRow]
  BY DEF enqueue, IInv, TypeOK
<1>3. job[j].fence = 0  BY DEF enqueue, IInv, AbsentIsFresh, Absent
<1> HIDE DEF new
<1>4. job' \in [Jobs -> JobRow]  BY <1>1, <1>2
<1>5. \A i \in Jobs : job'[i] = IF i = j THEN new ELSE job[i]  BY <1>2
<1>6. \A i \in Jobs :
        /\ job'[i].fence = job[i].fence
        /\ job'[i].status = "running" => job[i].status = "running" /\ job'[i] = job[i]
        /\ job'[i].status = "absent" => job'[i] = job[i]
        /\ job'[i].status = "queued" => job'[i].attempts < MaxAttempts
        /\ job'[i].status = "succeeded" => job'[i] = job[i]
  BY <1>1, <1>3, <1>5, BudgetAssumption DEF IInv, WaitingHasBudget
<1>7. UNCHANGED <<worker, calls>> /\ crashes' = crashes  BY DEF enqueue
<1>8. QED  BY <1>4, <1>6, <1>7, RowStep

LEMMA CancelStep ==
  ASSUME IInv, cancel_queued  PROVE  IInv'
<1>1. job' = [i \in Jobs |-> IF job[i].status = "queued"
                             THEN [job[i] EXCEPT !.status = "dead"] ELSE job[i]]
  BY DEF cancel_queued
<1>2. \A i \in Jobs : job[i] \in JobRow  BY DEF IInv, TypeOK
<1>3. \A i \in Jobs : [job[i] EXCEPT !.status = "dead"] \in JobRow  BY <1>2 DEF JobRow
<1>4. job' \in [Jobs -> JobRow]  BY <1>1, <1>2, <1>3
<1>5. \A i \in Jobs :
        /\ job'[i].fence = job[i].fence
        /\ job'[i].status = "dead" \/ job'[i] = job[i]
        /\ job'[i].status # "queued"
  BY <1>1, <1>2 DEF JobRow
<1>6. UNCHANGED <<worker, calls>> /\ crashes' = crashes  BY DEF cancel_queued
<1>7. QED  BY <1>4, <1>5, <1>6, RowStep

LEMMA ReapStep ==
  ASSUME IInv, reap_expired_jobs  PROVE  IInv'
<1>1. PICK delay \in [Overdue -> 0 .. (BackoffCap + Jitter)] :
        job' = [j \in Jobs |-> IF j \in Overdue THEN Released(j, delay[j]) ELSE job[j]]
  BY DEF reap_expired_jobs
<1>2. TypeOK  BY DEF IInv
<1>3. \A j \in Overdue : j \in Jobs  BY DEF Overdue
<1>4. \A j \in Overdue :
        /\ Released(j, delay[j]) \in JobRow
        /\ Released(j, delay[j]).fence = job[j].fence
        /\ Released(j, delay[j]).attempts = job[j].attempts
        /\ Released(j, delay[j]).status \in {"queued", "dead"}
        /\ Released(j, delay[j]).status = "queued" => job[j].attempts < MaxAttempts
  BY <1>2, <1>3, ReleasedRow
<1>5. job' \in [Jobs -> JobRow]  BY <1>1, <1>2, <1>4 DEF TypeOK
<1>6. \A j \in Jobs :
        /\ job'[j].fence = job[j].fence
        /\ job'[j] = job[j] \/ job'[j].status \in {"queued", "dead"}
        /\ job'[j].status = "queued" => job'[j].attempts < MaxAttempts
  BY <1>1, <1>4 DEF IInv, WaitingHasBudget
<1>7. UNCHANGED <<worker, calls>> /\ crashes' = crashes  BY DEF reap_expired_jobs
<1>8. QED  BY <1>5, <1>6, <1>7, RowStep

LEMMA TickStep ==
  ASSUME IInv, tick  PROVE  IInv'
<1>1. job' = [j \in Jobs |->
         CASE job[j].status = "running" -> [job[j] EXCEPT !.lease = Countdown(@, Expired)]
           [] job[j].status = "queued"  -> [job[j] EXCEPT !.wait = Countdown(@, 0)]
           [] OTHER -> job[j]]
  BY DEF tick
<1>2. \A j \in Jobs : job[j] \in JobRow  BY DEF IInv, TypeOK
<1>3. ASSUME NEW j \in Jobs
      PROVE  /\ job'[j] \in JobRow
             /\ job'[j].status = job[j].status
             /\ job'[j].fence = job[j].fence
             /\ job'[j].attempts = job[j].attempts
             /\ job'[j].lockedBy = job[j].lockedBy
             /\ job[j].status = "absent" => job'[j] = job[j]
  <2>1. CASE job[j].status = "running"
    <3>1. job'[j] = [job[j] EXCEPT !.lease = Countdown(job[j].lease, Expired)]
      BY <1>1, <1>2, <2>1 DEF JobRow
    <3>2. Countdown(job[j].lease, Expired) \in Expired .. Lease
      BY <1>2, TimeAssumption DEF JobRow, Countdown, Expired
    <3>3. QED  BY <1>2, <2>1, <3>1, <3>2 DEF JobRow
  <2>2. CASE job[j].status = "queued"
    <3>1. job'[j] = [job[j] EXCEPT !.wait = Countdown(job[j].wait, 0)]
      BY <1>1, <1>2, <2>2 DEF JobRow
    <3>2. Countdown(job[j].wait, 0) \in 0 .. (BackoffCap + Jitter)
      BY <1>2, TimeAssumption DEF JobRow, Countdown
    <3>3. QED  BY <1>2, <2>2, <3>1, <3>2 DEF JobRow
  <2>3. CASE job[j].status \notin {"running", "queued"}
    <3>1. job'[j] = job[j]  BY <1>1, <2>3
    <3>2. QED  BY <1>2, <3>1
  <2>4. QED  BY <2>1, <2>2, <2>3
<1>4. job' \in [Jobs -> JobRow]
  <2>1. job' = [j \in Jobs |-> job'[j]]  BY <1>1
  <2>2. QED  BY <1>3, <2>1
<1>5. UNCHANGED <<worker, calls>> /\ crashes' = crashes  BY DEF tick
<1>6. QED  BY <1>3, <1>4, <1>5, RowStep DEF IInv, WaitingHasBudget

-----------------------------------------------------------------------------
(* A step of a process that leaves the rows alone, sends nothing new and
   lets each process keep its claim or drop it. *)
LEMMA ProcessStep ==
  ASSUME IInv,
         UNCHANGED job,
         worker' \in [Workers -> WorkerState],
         calls' \subseteq calls,
         crashes' \in 0 .. MaxCrashes,
         \A w \in Workers :
           \/ worker'[w].job = NoJob /\ worker'[w].pc \in {"idle", "down"}
           \/ /\ worker'[w].job = worker[w].job
              /\ worker'[w].token = worker[w].token
              /\ worker[w].job \in Jobs \/ worker'[w].pc = worker[w].pc
  PROVE  IInv'
<1> USE DEF IInv
<1>1. TypeOK'  BY DEF TypeOK
<1>2. NoJob \notin Jobs  BY JobsAssumption DEF NoJob
<1>3. BusyHasClaim'  BY DEF BusyHasClaim
<1>4. AbsentIsFresh' /\ WaitingHasBudget'  BY DEF AbsentIsFresh, WaitingHasBudget
<1>5. TokensWereIssued'  BY DEF TokensWereIssued
<1>6. LatestTokenIsTheOwners'
  <2> SUFFICES ASSUME NEW j \in Jobs, job[j].status = "running"
               PROVE  /\ \A w \in Workers :
                           (worker'[w].job = j /\ worker'[w].token = job[j].fence)
                              => w = job[j].lockedBy
                      /\ \A c \in calls' : (c.job = j /\ c.token = job[j].fence)
                                             => c.worker = job[j].lockedBy
    BY DEF LatestTokenIsTheOwners
  <2>1. \A w \in Workers : (worker[w].job = j /\ worker[w].token = job[j].fence)
                             => w = job[j].lockedBy
    BY DEF LatestTokenIsTheOwners
  <2>2. \A c \in calls : (c.job = j /\ c.token = job[j].fence) => c.worker = job[j].lockedBy
    BY DEF LatestTokenIsTheOwners
  <2> HIDE DEF IInv
  <2> QED  BY <1>2, <2>1, <2>2
<1>7. QED  BY <1>1, <1>3, <1>4, <1>5, <1>6

LEMMA ExecuteStep ==
  ASSUME IInv, NEW w \in Workers, execute(w)  PROVE  IInv'
<1>1. PICK ok \in BOOLEAN : worker' = [worker EXCEPT ![w].pc = "commit", ![w].ok = ok]
  BY DEF execute
<1>2. worker \in [Workers -> WorkerState]  BY DEF IInv, TypeOK
<1>a. worker' = [worker EXCEPT ![w] = [worker[w] EXCEPT !.pc = "commit", !.ok = ok]]
  BY <1>1
<1>b. [worker[w] EXCEPT !.pc = "commit", !.ok = ok] \in WorkerState
  BY <1>2 DEF WorkerState
<1>3. worker' \in [Workers -> WorkerState]  BY <1>2, <1>a, <1>b
<1>4. \A v \in Workers : /\ worker'[v].job = worker[v].job
                         /\ worker'[v].token = worker[v].token
                         /\ v # w => worker'[v].pc = worker[v].pc
  BY <1>1, <1>2 DEF WorkerState
<1>5. worker[w].job \in Jobs  BY DEF execute, IInv, BusyHasClaim
<1>6. UNCHANGED <<job, calls, crashes>>  BY DEF execute
<1>7. QED  BY <1>3, <1>4, <1>5, <1>6, ProcessStep DEF IInv, TypeOK

LEMMA CompleteThrowsStep ==
  ASSUME IInv, NEW w \in Workers, complete_throws(w)  PROVE  IInv'
<1>1. worker \in [Workers -> WorkerState]  BY DEF IInv, TypeOK
<1>2. Down \in WorkerState /\ Down.job = NoJob /\ Down.pc = "down"
  BY DEF Down, Resting, WorkerState, NoJob
<1>3. [worker[w] EXCEPT !.pc = "commit", !.ok = FALSE] \in WorkerState
  BY <1>1 DEF WorkerState
<1>4. PICK n \in WorkerState :
        /\ worker' = [worker EXCEPT ![w] = n]
        /\ \/ n = Down
           \/ n.job = worker[w].job /\ n.token = worker[w].token
  BY <1>1, <1>2, <1>3 DEF complete_throws, WorkerState
<1>5. worker' \in [Workers -> WorkerState]  BY <1>1, <1>4
<1>6. worker[w].job \in Jobs  BY DEF complete_throws, IInv, BusyHasClaim
<1>7. \A v \in Workers : worker'[v] = IF v = w THEN n ELSE worker[v]  BY <1>1, <1>4
<1>8. UNCHANGED <<job, calls, crashes>>  BY DEF complete_throws
<1>9. QED  BY <1>2, <1>4, <1>5, <1>6, <1>7, <1>8, ProcessStep DEF IInv, TypeOK

LEMMA FinishStep ==
  ASSUME IInv, NEW w \in Workers, finish(w) \/ restart(w) \/ crash(w)  PROVE  IInv'
<1>1. worker \in [Workers -> WorkerState]  BY DEF IInv, TypeOK
<1>2. /\ Down \in WorkerState /\ Down.job = NoJob /\ Down.pc = "down"
      /\ Idle \in WorkerState /\ Idle.job = NoJob /\ Idle.pc = "idle"
  BY DEF Down, Idle, Resting, WorkerState, NoJob
<1>3. PICK n \in {Idle, Down} : worker' = [worker EXCEPT ![w] = n]
  BY DEF finish, restart, crash
<1>4. worker' \in [Workers -> WorkerState]  BY <1>1, <1>2, <1>3
<1>5. \A v \in Workers : worker'[v] = IF v = w THEN n ELSE worker[v]  BY <1>1, <1>3
<1>6. UNCHANGED <<job, calls>>  BY DEF finish, restart, crash
<1>7. crashes' \in 0 .. MaxCrashes
  BY TimeAssumption DEF finish, restart, crash, IInv, TypeOK
<1>8. QED  BY <1>2, <1>3, <1>4, <1>5, <1>6, <1>7, ProcessStep

-----------------------------------------------------------------------------
(* A call carries the claim of the process that sends it. *)
LEMMA SendStep ==
  ASSUME IInv, NEW w \in Workers, send_heartbeat(w) \/ send_complete(w)  PROVE  IInv'
<1> USE DEF IInv
<1>1. worker \in [Workers -> WorkerState] /\ worker[w].job \in Jobs
  BY DEF send_heartbeat, send_complete, TypeOK, BusyHasClaim
<1>2. PICK kind \in {"heartbeat", "success", "failure"} :
        calls' = calls \cup {[kind |-> kind, job |-> worker[w].job,
                              token |-> worker[w].token, worker |-> w]}
  BY DEF send_heartbeat, send_complete
<1> DEFINE sent == [kind |-> kind, job |-> worker[w].job, token |-> worker[w].token, worker |-> w]
<1>3. sent \in Call  BY <1>1 DEF Call, WorkerState
<1>4. UNCHANGED <<job, crashes>>  BY DEF send_heartbeat, send_complete
<1>5. worker' \in [Workers -> WorkerState]
  BY <1>1 DEF send_heartbeat, send_complete, WorkerState
<1>6. \A v \in Workers : /\ worker'[v].job = worker[v].job
                         /\ worker'[v].token = worker[v].token
                         /\ worker'[v].pc # worker[v].pc => worker[v].job \in Jobs
  BY <1>1 DEF send_heartbeat, send_complete, WorkerState
<1>7. TypeOK'  BY <1>2, <1>3, <1>4, <1>5 DEF TypeOK
<1>8. BusyHasClaim'
  <2>1. BusyHasClaim  OBVIOUS
  <2>2. QED  BY <1>6, <2>1 DEF BusyHasClaim
<1>9. AbsentIsFresh' /\ WaitingHasBudget'  BY <1>4 DEF AbsentIsFresh, WaitingHasBudget
<1>10. worker[w].job # NoJob  BY <1>1, JobsAssumption DEF NoJob
<1>11. TokensWereIssued'
  BY <1>1, <1>2, <1>4, <1>6, <1>10 DEF TokensWereIssued
<1>12. LatestTokenIsTheOwners'
  BY <1>1, <1>2, <1>4, <1>6 DEF LatestTokenIsTheOwners
<1>13. QED  BY <1>7, <1>8, <1>9, <1>11, <1>12

(* Claiming: the new fence is above every token there is. *)
LEMMA AcquireStep ==
  ASSUME IInv, NEW w \in Workers, acquire_job(w) \/ acquire_unanswered(w)  PROVE  IInv'
<1> USE DEF IInv
<1>1. PICK j \in Ready :
        /\ job' = [job EXCEPT ![j] = Claimed(j, w)]
        /\ \/ worker' = [worker EXCEPT ![w] =
                [pc |-> "handler", job |-> j, token |-> job[j].fence + 1,
                 ok |-> FALSE]]
           \/ worker' = [worker EXCEPT ![w] = Down]
  BY DEF acquire_job, acquire_unanswered
<1>2. /\ j \in Jobs
      /\ Claimed(j, w) \in JobRow
      /\ Claimed(j, w).status = "running"
      /\ Claimed(j, w).lockedBy = w
      /\ Claimed(j, w).attempts = job[j].attempts + 1
      /\ Claimed(j, w).fence = job[j].fence + 1
      /\ job[j].fence \in Nat
      /\ job[j].attempts \in Nat
      /\ job[j].attempts < MaxAttempts
  BY ClaimedRow
<1>3. job \in [Jobs -> JobRow] /\ worker \in [Workers -> WorkerState]  BY DEF TypeOK
<1>4. \A i \in Jobs : job'[i] = IF i = j THEN Claimed(j, w) ELSE job[i]  BY <1>1, <1>3
<1> DEFINE busy == [pc |-> "handler", job |-> j, token |-> job[j].fence + 1,
                    ok |-> FALSE]
<1>5. PICK n \in {busy, Down} : worker' = [worker EXCEPT ![w] = n]  BY <1>1
<1>6. \A v \in Workers : worker'[v] = IF v = w THEN n ELSE worker[v]  BY <1>3, <1>5
<1>7. busy \in WorkerState /\ Down \in WorkerState  BY <1>2 DEF WorkerState, Down, Resting, NoJob
<1>8. UNCHANGED calls  BY DEF acquire_job, acquire_unanswered
<1>9. crashes' \in 0 .. MaxCrashes
  BY TimeAssumption DEF acquire_job, acquire_unanswered, TypeOK
<1>10. TypeOK'
  <2>1. job' \in [Jobs -> JobRow]  BY <1>1, <1>2, <1>3
  <2>2. worker' \in [Workers -> WorkerState]  BY <1>3, <1>5, <1>7
  <2>3. QED  BY <2>1, <2>2, <1>8, <1>9 DEF TypeOK
<1>11. BusyHasClaim'  BY <1>2, <1>6 DEF BusyHasClaim, Down, Resting
<1>12. AbsentIsFresh'  BY <1>2, <1>4 DEF AbsentIsFresh
<1>13. WaitingHasBudget'  BY <1>2, <1>4, BudgetAssumption DEF WaitingHasBudget
<1>14. TokensWereIssued'
  <2>1. \A v \in Workers : worker'[v].job # NoJob =>
          worker'[v].token <= job'[worker'[v].job].fence
    <3>1. SUFFICES ASSUME NEW v \in Workers, worker'[v].job # NoJob
                   PROVE  worker'[v].token <= job'[worker'[v].job].fence
      OBVIOUS
    <3>2. CASE v = w  BY <1>2, <1>4, <1>6, <3>1, <3>2 DEF Down, Resting
    <3>3. CASE v # w
      <4>1. worker'[v] = worker[v] /\ worker[v] \in WorkerState  BY <1>3, <1>6, <3>3
      <4>2. worker[v].job \in Jobs /\ worker[v].token <= job[worker[v].job].fence
        BY <3>1, <4>1 DEF TokensWereIssued, WorkerState
      <4>3. QED  BY <1>2, <1>4, <4>1, <4>2 DEF WorkerState
    <3>4. QED  BY <3>2, <3>3
  <2>2. \A c \in calls : c.token <= job'[c.job].fence
    BY <1>2, <1>4 DEF TokensWereIssued, TypeOK, Call
  <2>3. QED  BY <1>8, <2>1, <2>2 DEF TokensWereIssued
<1>15. LatestTokenIsTheOwners'
  <2>1. SUFFICES ASSUME NEW i \in Jobs, job'[i].status = "running"
        PROVE  /\ \A v \in Workers : (worker'[v].job = i /\ worker'[v].token = job'[i].fence)
                                         => v = job'[i].lockedBy
               /\ \A c \in calls' : (c.job = i /\ c.token = job'[i].fence)
                                         => c.worker = job'[i].lockedBy
    BY DEF LatestTokenIsTheOwners
  <2>2. NoJob \notin Jobs  BY JobsAssumption DEF NoJob
  <2>3. CASE i = j
    <3>1. \A v \in Workers : v # w /\ worker[v].job = j => worker[v].token < job'[j].fence
      BY <1>2, <1>3, <1>4, <2>2 DEF TokensWereIssued, WorkerState
    <3>2. \A c \in calls : c.job = j => c.token < job'[j].fence
      BY <1>2, <1>4 DEF TokensWereIssued, TypeOK, Call
    <3>3. job'[j].fence \in Nat  BY <1>2, <1>4
    <3>4. \A v \in Workers : v # w => worker'[v] = worker[v] /\ worker[v].token \in Nat
      BY <1>3, <1>6 DEF WorkerState
    <3>5. \A c \in calls : c.token \in Nat  BY DEF TypeOK, Call
    <3>6. QED  BY <1>2, <1>4, <1>8, <2>3, <3>1, <3>2, <3>3, <3>4, <3>5
  <2>4. CASE i # j
    <3>1. job'[i] = job[i]  BY <1>4, <2>4
    <3>2. \A v \in Workers : worker'[v].job = i => worker'[v] = worker[v]
      BY <1>6, <2>2, <2>4 DEF Down, Resting
    <3>3. QED  BY <1>8, <2>1, <3>1, <3>2 DEF LatestTokenIsTheOwners
  <2>5. QED  BY <2>3, <2>4
<1>16. QED  BY <1>10, <1>11, <1>12, <1>13, <1>14, <1>15

-----------------------------------------------------------------------------
(* Executing a call changes its sender's bookkeeping, never its claim. *)
LEMMA CallStep ==
  ASSUME IInv, NEW c \in calls, heartbeat_job(c) \/ complete_job(c)
  PROVE  IInv'
<1> USE DEF IInv
<1>1. c \in Call /\ job \in [Jobs -> JobRow] /\ worker \in [Workers -> WorkerState]
  BY DEF TypeOK
<1>2. c.job \in Jobs /\ c.worker \in Workers  BY <1>1 DEF Call
<1>3. PICK row \in JobRow :
        /\ job' = [job EXCEPT ![c.job] = row]
        /\ row.fence = job[c.job].fence
        /\ row.attempts = job[c.job].attempts
        /\ \/ row.status = job[c.job].status /\ row.lockedBy = job[c.job].lockedBy
              /\ (row.status = "absent" => row = job[c.job])
           \/ /\ job[c.job].status = "running"
              /\ row.status \in {"succeeded", "queued", "dead"}
              /\ row.status = "queued" => row.attempts < MaxAttempts
  <2>1. CASE job' = job
    <3>1. job' = [job EXCEPT ![c.job] = job[c.job]]  BY <1>1, <1>2, <2>1
    <3>2. QED  BY <1>1, <1>2, <3>1
  <2>2. CASE heartbeat_job(c) /\ Current(c)
    <3> DEFINE row == [job[c.job] EXCEPT !.lease = Lease]
    <3>1. job' = [job EXCEPT ![c.job] = row] /\ job[c.job].status = "running"
      BY <1>1, <1>2, <2>2 DEF heartbeat_job, Current
    <3>2. Lease \in Expired .. Lease  BY TimeAssumption DEF Expired
    <3>3. row \in JobRow /\ row.fence = job[c.job].fence /\ row.attempts = job[c.job].attempts
          /\ row.status = job[c.job].status /\ row.lockedBy = job[c.job].lockedBy
      BY <1>1, <1>2, <3>2 DEF JobRow
    <3>4. QED  BY <3>1, <3>3
  <2>3. CASE complete_job(c) /\ Current(c)
    <3>1. PICK d \in Delays(job[c.job].attempts) :
            job' = [job EXCEPT ![c.job] =
                      IF c.kind = "success" THEN Succeeded(c.job) ELSE Released(c.job, d)]
      BY <2>3 DEF complete_job
    <3>2. job[c.job].status = "running"  BY <2>3 DEF Current
    <3>3. CASE c.kind = "success"
      <4>1. 0 \in Expired .. Lease  BY TimeAssumption DEF Expired
      <4>2. job[c.job] \in JobRow  BY <1>1, <1>2
      <4>3. Succeeded(c.job) \in JobRow  BY <4>1, <4>2 DEF Succeeded, JobRow
      <4>4. QED  BY <3>1, <3>2, <3>3, <4>3 DEF Succeeded
    <3>4. CASE c.kind # "success"
      <4> DEFINE row == Released(c.job, d)
      <4>1. job' = [job EXCEPT ![c.job] = row]  BY <3>1, <3>4
      <4>2. d \in 0 .. (BackoffCap + Jitter)  BY DelaysType
      <4>3. /\ row \in JobRow
            /\ row.attempts = job[c.job].attempts
            /\ row.fence = job[c.job].fence
            /\ row.status \in {"queued", "dead"}
            /\ row.status = "queued" => job[c.job].attempts < MaxAttempts
        BY <1>2, <4>2, ReleasedRow
      <4> HIDE DEF row
      <4>4. QED  BY <3>2, <4>1, <4>3
    <3>5. QED  BY <3>3, <3>4
  <2>4. QED  BY <2>1, <2>2, <2>3 DEF heartbeat_job, complete_job
<1>4. \A j \in Jobs : job'[j] = IF j = c.job THEN row ELSE job[j]  BY <1>1, <1>3
<1>5. \A j \in Jobs :
        /\ job'[j].fence = job[j].fence
        /\ job'[j].attempts = job[j].attempts
  BY <1>3, <1>4
<1>6. /\ calls' \subseteq calls
      /\ crashes' = crashes
      /\ \/ worker' = worker
         \/ /\ worker' = [worker EXCEPT ![c.worker].pc = "advance"]
            /\ worker[c.worker].pc = "await"
  BY DEF heartbeat_job, complete_job
<1>7. PICK n \in WorkerState :
        /\ worker' = [worker EXCEPT ![c.worker] = n]
        /\ n.job = worker[c.worker].job
        /\ n.token = worker[c.worker].token
        /\ n.pc = worker[c.worker].pc \/ worker[c.worker].pc = "await"
  <2> DEFINE old == worker[c.worker]
  <2>1. old \in WorkerState  BY <1>1, <1>2
  <2>2. CASE worker' = worker
    <3>1. worker' = [worker EXCEPT ![c.worker] = old]  BY <1>1, <1>2, <2>2
    <3>2. QED  BY <2>1, <3>1
  <2>4. CASE worker' = [worker EXCEPT ![c.worker].pc = "advance"] /\ old.pc = "await"
    <3>1. worker' = [worker EXCEPT ![c.worker] = [old EXCEPT !.pc = "advance"]]  BY <2>4
    <3>2. [old EXCEPT !.pc = "advance"] \in WorkerState  BY <2>1 DEF WorkerState
    <3>3. /\ [old EXCEPT !.pc = "advance"].job = old.job
          /\ [old EXCEPT !.pc = "advance"].token = old.token
      BY <2>1 DEF WorkerState
    <3>4. QED  BY <2>4, <3>1, <3>2, <3>3
  <2>5. QED  BY <1>6, <2>2, <2>4
<1>8. /\ worker' \in [Workers -> WorkerState]
       /\ \A w \in Workers :
            /\ worker'[w].job = worker[w].job
            /\ worker'[w].token = worker[w].token
            /\ worker'[w].pc = worker[w].pc \/ worker[w].pc = "await"
  BY <1>1, <1>2, <1>7
<1>9. TypeOK'
  <2>1. job' \in [Jobs -> JobRow]  BY <1>1, <1>3
  <2>2. QED  BY <1>6, <1>8, <2>1 DEF TypeOK
<1>10. BusyHasClaim'  BY <1>8 DEF BusyHasClaim
<1>11. AbsentIsFresh'  BY <1>3, <1>4 DEF AbsentIsFresh
<1>12. WaitingHasBudget'  BY <1>3, <1>4 DEF WaitingHasBudget
<1>13. TokensWereIssued'
  <2>1. \A w \in Workers : worker[w].job \in Jobs \cup {NoJob}  BY <1>1 DEF WorkerState
  <2>2. \A b \in calls : b.job \in Jobs  BY DEF TypeOK, Call
  <2>3. ASSUME NEW w \in Workers, worker'[w].job # NoJob
        PROVE  worker'[w].token <= job'[worker'[w].job].fence
    <3>1. worker[w].job \in Jobs /\ worker[w].job # NoJob  BY <1>8, <2>1, <2>3
    <3>2. worker[w].token <= job[worker[w].job].fence  BY <3>1 DEF TokensWereIssued
    <3>3. QED  BY <1>5, <1>8, <3>1, <3>2
  <2>4. \A b \in calls' : b.token <= job'[b.job].fence
    BY <1>5, <1>6, <2>2 DEF TokensWereIssued
  <2>5. QED  BY <2>3, <2>4 DEF TokensWereIssued
<1>14. LatestTokenIsTheOwners'
  BY <1>3, <1>4, <1>6, <1>8 DEF LatestTokenIsTheOwners
<1>15. QED  BY <1>9, <1>10, <1>11, <1>12, <1>13, <1>14

LEMMA StepIInv == IInv /\ [Next]_vars => IInv'
<1> SUFFICES ASSUME IInv, [Next]_vars  PROVE  IInv'  OBVIOUS
<1>1. CASE \E j \in Jobs : enqueue(j)  BY <1>1, EnqueueStep
<1>2. CASE cancel_queued  BY <1>2, CancelStep
<1>3. ASSUME NEW w \in Workers, WorkerStep(w)  PROVE  IInv'
  BY <1>3, AcquireStep, ExecuteStep, SendStep, CompleteThrowsStep, FinishStep DEF WorkerStep
<1>4. CASE DatabaseStep  BY <1>4, CallStep, ReapStep DEF DatabaseStep
<1>5. CASE tick  BY <1>5, TickStep
<1>6. CASE UNCHANGED vars
  BY <1>6 DEF vars, IInv, TypeOK, BusyHasClaim, AbsentIsFresh, WaitingHasBudget,
              TokensWereIssued, LatestTokenIsTheOwners
<1>7. QED  BY <1>1, <1>2, <1>3, <1>4, <1>5, <1>6 DEF Next

(* IInv holds throughout, for all values of the constants. *)
THEOREM QueueInvariant == Spec => []IInv
BY InitIInv, StepIInv, PTL DEF Spec

(* The rows, the workers and the calls stay within their types; in particular
   no job is ever attempted more than MaxAttempts times. *)
THEOREM TypeCorrect == Spec => []TypeOK
<1>1. IInv => TypeOK  BY DEF IInv
<1>2. QED  BY <1>1, QueueInvariant, PTL

(* Fencing: whoever carries the latest token of a running job - a process or
   a delayed call - is the process acquire_job gave it to. *)
THEOREM Fencing == Spec => []LatestTokenIsTheOwners
<1>1. IInv => LatestTokenIsTheOwners  BY DEF IInv
<1>2. QED  BY <1>1, QueueInvariant, PTL

(* A waiting job has an attempt left, however its claims ended. *)
THEOREM Budget == Spec => []WaitingHasBudget
<1>1. IInv => WaitingHasBudget  BY DEF IInv
<1>2. QED  BY <1>1, QueueInvariant, PTL

-----------------------------------------------------------------------------
(* Only the executed report of the current claim, or an expired lease, ends a
   running claim: no late call of an earlier claim ever does. *)
THEOREM ClaimsEnd == Spec => ClaimsEndByReportOrExpiry
<1> DEFINE Ends(j) == job[j].status = "running" /\ job'[j].status # "running"
           Justified(j) ==
             \/ job[j].lease = Expired /\ job'[j].status \in {"queued", "dead"}
             \/ \E c \in calls \ calls' :
                  /\ c.job = j /\ c.token = job[j].fence /\ c.worker = job[j].lockedBy
                  /\ (c.kind = "success") = (job'[j].status = "succeeded")
<1>1. ASSUME IInv, Next, NEW j \in Jobs, Ends(j)  PROVE  Justified(j)
  <2>1. job \in [Jobs -> JobRow] /\ job[j].status = "running" /\ job'[j].status # "running"
    BY <1>1 DEF IInv, TypeOK
  <2> HIDE DEF Ends
  <2>2. ASSUME NEW i \in Jobs, enqueue(i)  PROVE  FALSE  BY <2>1, <2>2 DEF enqueue
  <2>3. CASE cancel_queued  BY <2>1, <2>3 DEF cancel_queued
  <2>4. ASSUME NEW w \in Workers, WorkerStep(w)  PROVE  FALSE
    <3>1. CASE acquire_job(w) \/ acquire_unanswered(w)
      BY <2>1, <3>1 DEF acquire_job, acquire_unanswered, Claimed
    <3>2. CASE ~(acquire_job(w) \/ acquire_unanswered(w))
      BY <2>1, <2>4, <3>2 DEF WorkerStep, execute, send_heartbeat, send_complete,
                              complete_throws, finish, crash, restart
    <3>3. QED  BY <3>1, <3>2
  <2>5. ASSUME NEW c \in calls, heartbeat_job(c)  PROVE  FALSE
    <3>1. job' = job \/ job' = [job EXCEPT ![c.job].lease = Lease]
      BY <2>5 DEF heartbeat_job
    <3>2. job'[j].status = job[j].status  BY <2>1, <3>1 DEF JobRow
    <3>3. QED  BY <2>1, <3>2
  <2>6. ASSUME NEW c \in calls, complete_job(c)  PROVE  Justified(j)
    <3>1. c \in Call  BY <1>1 DEF IInv, TypeOK
    <3>2. Current(c) /\ c.job = j /\ calls' = calls \ {c}
      BY <2>1, <2>6 DEF complete_job
    <3>3. PICK d \in Delays(job[j].attempts) :
            job'[j] = IF c.kind = "success" THEN Succeeded(j) ELSE Released(j, d)
      BY <2>1, <2>6, <3>2 DEF complete_job
    <3>4. (c.kind = "success") = (job'[j].status = "succeeded")
      BY <3>3 DEF Succeeded, Released
    <3>5. c \in calls \ calls'  BY <3>2
    <3>6. QED  BY <3>2, <3>4, <3>5 DEF Current
  <2>7. CASE reap_expired_jobs
    <3>1. PICK delay \in [Overdue -> 0 .. (BackoffCap + Jitter)] :
            job'[j] = IF j \in Overdue THEN Released(j, delay[j]) ELSE job[j]
      BY <2>7 DEF reap_expired_jobs
    <3>2. j \in Overdue  BY <2>1, <3>1
    <3>3. QED  BY <3>1, <3>2 DEF Overdue, Released
  <2>8. CASE tick
    <3>1. job'[j] = [job[j] EXCEPT !.lease = Countdown(job[j].lease, Expired)]
      BY <2>1, <2>8 DEF tick, JobRow
    <3>2. QED  BY <2>1, <3>1 DEF JobRow
  <2>9. QED  BY <1>1, <2>2, <2>3, <2>4, <2>5, <2>6, <2>7, <2>8 DEF Next, DatabaseStep
<1>2. IInv /\ [Next]_vars => [EndedByReportOrExpiry]_vars
  BY <1>1 DEF EndedByReportOrExpiry
<1>3. QED  BY <1>2, QueueInvariant, PTL DEF Spec, ClaimsEndByReportOrExpiry

-----------------------------------------------------------------------------
(* An applied completion leaves its row not running, a refused one no trace. *)
LEMMA SettledByReport ==
  ASSUME IInv, NEW c \in calls, complete_job(c)
  PROVE  IF Current(c) THEN /\ job'[c.job].status # "running"
                            /\ \A j \in Jobs : j # c.job => job'[j] = job[j]
                       ELSE job' = job
<1>1. job \in [Jobs -> JobRow] /\ c \in Call  BY DEF IInv, TypeOK
<1>2. CASE Current(c)
  <2>1. PICK d \in Delays(job[c.job].attempts) :
          job' = [job EXCEPT ![c.job] =
                    IF c.kind = "success" THEN Succeeded(c.job) ELSE Released(c.job, d)]
    BY <1>2 DEF complete_job
  <2>2. c.job \in Jobs  BY <1>1 DEF Call
  <2>3. job'[c.job] = IF c.kind = "success" THEN Succeeded(c.job) ELSE Released(c.job, d)
    BY <1>1, <2>1, <2>2
  <2>4. job'[c.job].status # "running"  BY <2>3 DEF Succeeded, Released
  <2>5. QED  BY <1>1, <1>2, <2>1, <2>4
<1>3. CASE ~Current(c)  BY <1>3 DEF complete_job
<1>4. QED  BY <1>2, <1>3

(* A running row keeps its fence, or was claimed in this very step. *)
LEMMA RunningRows ==
  ASSUME IInv, Next, NEW j \in Jobs, job'[j].status = "running"
  PROVE  \/ job[j].status = "running" /\ job'[j].fence = job[j].fence
         \/ job'[j].fence = job[j].fence + 1
<1>1. job \in [Jobs -> JobRow]  BY DEF IInv, TypeOK
<1>2. ASSUME NEW i \in Jobs, enqueue(i)  PROVE job'[j] = job[j]
  <2>1. j # i  BY <1>1, <1>2 DEF enqueue, Absent
  <2>2. QED  BY <1>1, <1>2, <2>1 DEF enqueue
<1>3. CASE cancel_queued  BY <1>1, <1>3 DEF cancel_queued
<1>4. ASSUME NEW w \in Workers, WorkerStep(w)  PROVE job'[j] = job[j] \/ job'[j].fence = job[j].fence + 1
  <2>1. CASE acquire_job(w) \/ acquire_unanswered(w)
    BY <1>1, <2>1 DEF acquire_job, acquire_unanswered, Claimed
  <2>2. CASE ~(acquire_job(w) \/ acquire_unanswered(w))
    BY <1>4, <2>2 DEF WorkerStep, execute, send_heartbeat, send_complete, complete_throws, finish, crash, restart
  <2>3. QED  BY <2>1, <2>2
<1>5. ASSUME NEW c \in calls, heartbeat_job(c)
      PROVE  job[j].status = "running" /\ job'[j].fence = job[j].fence
  <2>1. job' = job \/ job' = [job EXCEPT ![c.job].lease = Lease]  BY <1>5 DEF heartbeat_job
  <2>2. QED  BY <1>1, <2>1 DEF JobRow
<1>6. ASSUME NEW c \in calls, complete_job(c)  PROVE job'[j] = job[j]
  BY <1>1, <1>6, SettledByReport
<1>7. CASE reap_expired_jobs  BY <1>1, <1>7 DEF reap_expired_jobs, Released
<1>8. CASE tick
  <2>1. job[j].status = "running"  BY <1>1, <1>8 DEF tick, JobRow
  <2>2. job'[j] = [job[j] EXCEPT !.lease = Countdown(job[j].lease, Expired)]  BY <1>8, <2>1 DEF tick, JobRow
  <2>3. QED  BY <1>1, <2>1, <2>2 DEF JobRow
<1>9. QED  BY <1>2, <1>3, <1>4, <1>5, <1>6, <1>7, <1>8 DEF Next, DatabaseStep

(* Who goes on has been answered before, or just now about its own claim. *)
LEMMA Answered ==
  ASSUME IInv, Next, NEW w \in Workers, worker'[w].pc = "advance"
  PROVE  \/ worker[w].pc = "advance" /\ worker'[w].job = worker[w].job /\ worker'[w].token = worker[w].token
         \/ \E c \in calls :
              /\ complete_job(c) /\ c.worker = w /\ c.job = worker[w].job /\ c.token = worker[w].token
              /\ worker'[w].job = c.job /\ worker'[w].token = c.token
<1>1. worker \in [Workers -> WorkerState] /\ calls \subseteq Call  BY DEF IInv, TypeOK
<1>2. CASE UNCHANGED worker  BY <1>2
<1>3. ASSUME NEW v \in Workers, WorkerStep(v)
      PROVE  worker[w].pc = "advance" /\ worker'[w].job = worker[w].job /\ worker'[w].token = worker[w].token
  <2>1. CASE w # v
    <3>1. worker'[w] = worker[w]
      BY <1>1, <1>3, <2>1 DEF WorkerStep, acquire_job, acquire_unanswered, execute, send_heartbeat,
                              send_complete, complete_throws, finish, crash, restart
    <3>2. QED  BY <3>1
  <2>2. CASE w = v
    <3>1. CASE send_heartbeat(v)  BY <3>1 DEF send_heartbeat
    <3>2. CASE acquire_job(v) \/ acquire_unanswered(v) \/ finish(v) \/ crash(v) \/ restart(v)
      BY <1>1, <2>2, <3>2 DEF acquire_job, acquire_unanswered, finish, crash, restart, Down, Idle, Resting
    <3>3. CASE execute(v) \/ send_complete(v)
      BY <1>1, <2>2, <3>3 DEF execute, send_complete, WorkerState
    <3>4. CASE complete_throws(v)
      <4>1. worker'[w] = IF worker[w].ok THEN [worker[w] EXCEPT !.pc = "commit", !.ok = FALSE] ELSE Down
        BY <1>1, <2>2, <3>4 DEF complete_throws
      <4>2. CASE worker[w].ok  BY <1>1, <4>1, <4>2 DEF WorkerState
      <4>3. CASE ~worker[w].ok  BY <4>1, <4>3 DEF Down, Resting
      <4>4. QED  BY <4>2, <4>3
    <3>5. QED  BY <1>3, <2>2, <3>1, <3>2, <3>3, <3>4 DEF WorkerStep
  <2>3. QED  BY <2>1, <2>2
<1>4. ASSUME NEW c \in calls, complete_job(c), worker' # worker
      PROVE  \/ worker'[w] = worker[w]
             \/ /\ c.worker = w /\ c.job = worker[w].job /\ c.token = worker[w].token
                /\ worker'[w].job = c.job /\ worker'[w].token = c.token
  <2>1. Awaited(c) /\ worker' = [worker EXCEPT ![c.worker].pc = "advance"]  BY <1>4 DEF complete_job
  <2>2. CASE c.worker # w  BY <1>1, <2>1, <2>2
  <2>3. CASE c.worker = w  BY <1>1, <2>1, <2>3 DEF Awaited, WorkerState
  <2>4. QED  BY <2>2, <2>3
<1>5. worker' = worker \/ (\E v \in Workers : WorkerStep(v)) \/ \E c \in calls : complete_job(c)
  BY DEF Next, DatabaseStep, enqueue, cancel_queued, heartbeat_job, reap_expired_jobs, tick
<1>6. QED  BY <1>2, <1>3, <1>4, <1>5

(* A process whose completion was answered has no claim left: the row is
   settled, or its fence has moved on.  Were a refused call's token still the
   fence, its sender would be the owner, and the call not refused. *)
THEOREM AnsweredClaimsAreOver == Spec => []AnsweredMeansSettled
<1>1. Init => AnsweredMeansSettled  BY DEF Init, AnsweredMeansSettled, Idle, Resting
<1>2. ASSUME IInv, AnsweredMeansSettled, Next  PROVE AnsweredMeansSettled'
  <2> SUFFICES ASSUME NEW w \in Workers, worker'[w].pc = "advance", job'[worker'[w].job].status = "running"
               PROVE  job'[worker'[w].job].fence > worker'[w].token
    BY DEF AnsweredMeansSettled
  <2>1. worker \in [Workers -> WorkerState] /\ job \in [Jobs -> JobRow] /\ calls \subseteq Call
    BY <1>2 DEF IInv, TypeOK
  <2>2. CASE worker[w].pc = "advance" /\ worker'[w].job = worker[w].job /\ worker'[w].token = worker[w].token
    <3>1. PICK j \in Jobs : j = worker[w].job  BY <1>2, <2>2 DEF IInv, BusyHasClaim
    <3>2. PICK t \in Nat : t = worker[w].token  BY <2>1 DEF WorkerState
    <3>3. \/ job[j].status = "running" /\ job'[j].fence = job[j].fence
          \/ job'[j].fence = job[j].fence + 1
      BY <1>2, <2>2, <3>1, RunningRows
    <3>4. t <= job[j].fence
      <4>1. j # NoJob  BY <3>1, JobsAssumption DEF NoJob
      <4>2. QED  BY <1>2, <3>1, <3>2, <4>1 DEF IInv, TokensWereIssued
    <3>5. job[j].status = "running" => job[j].fence > t  BY <1>2, <2>2, <3>1, <3>2 DEF AnsweredMeansSettled
    <3>6. job[j].fence \in Nat  BY <2>1 DEF JobRow
    <3>7. job'[j].fence > t  BY <3>2, <3>3, <3>4, <3>5, <3>6
    <3>8. QED  BY <2>2, <3>1, <3>2, <3>7
  <2>3. CASE \E c \in calls :
               /\ complete_job(c) /\ c.worker = w /\ c.job = worker[w].job /\ c.token = worker[w].token
               /\ worker'[w].job = c.job /\ worker'[w].token = c.token
    <3>1. PICK c \in calls : /\ complete_job(c) /\ c.worker = w
                             /\ worker'[w].job = c.job /\ worker'[w].token = c.token
      BY <2>3
    <3>2. c \in Call  BY <2>1
    <3>3. PICK j \in Jobs : j = c.job  BY <3>2 DEF Call
    <3>4. ~Current(c) /\ job' = job  BY <1>2, <3>1, SettledByReport
    <3>5. job[j].status = "running" /\ (job[j].fence # c.token \/ job[j].lockedBy # c.worker)
      BY <3>1, <3>3, <3>4 DEF Current
    <3>6. job[j].fence # c.token  BY <1>2, <3>3, <3>5 DEF IInv, LatestTokenIsTheOwners
    <3>7. c.token <= job[j].fence  BY <1>2, <3>3 DEF IInv, TokensWereIssued
    <3>8. c.token \in Nat /\ job[j].fence \in Nat  BY <2>1, <3>2 DEF Call, JobRow
    <3>9. job[j].fence > c.token  BY <3>6, <3>7, <3>8
    <3>10. QED  BY <3>1, <3>3, <3>4, <3>9
  <2>4. QED  BY <1>2, <2>2, <2>3, Answered
<1>3. IInv /\ AnsweredMeansSettled /\ [Next]_vars => AnsweredMeansSettled'
  <2>1. CASE UNCHANGED vars  BY <2>1 DEF vars, AnsweredMeansSettled
  <2>2. QED  BY <1>2, <2>1
<1>4. QED  BY <1>1, <1>3, QueueInvariant, PTL DEF Spec

(* No token of the future: whatever carries one was given it by acquire_job. *)
THEOREM TokensAreOfThePast == Spec => []TokensWereIssued
<1>1. IInv => TokensWereIssued  BY DEF IInv
<1>2. QED  BY <1>1, QueueInvariant, PTL

-----------------------------------------------------------------------------
(* The refinement: every step of the queue is a step of JobLedger or leaves
   what the ledger sees unchanged. *)
phaseOf  == [j \in Jobs |-> job[j].status]
claimsOf == [j \in Jobs |-> job[j].attempts]

LEMMA LedgerUnchanged ==
  ASSUME \A j \in Jobs : job'[j].status = job[j].status /\ job'[j].attempts = job[j].attempts
  PROVE  UNCHANGED Ledger!vars
BY DEF Ledger!vars

LEMMA LedgerRelease ==
  ASSUME TypeOK, NEW S \in SUBSET Jobs,
         \A j \in S : job[j].status = "running",
         \A j \in Jobs :
           \/ j \notin S /\ job'[j] = job[j]
           \/ /\ j \in S
              /\ job'[j].status = (IF job[j].attempts < MaxAttempts THEN "queued" ELSE "dead")
              /\ job'[j].attempts = job[j].attempts
  PROVE  Ledger!Release
<1>1. [j \in Jobs |-> job'[j].status] =
        [j \in Jobs |-> IF j \notin S THEN job[j].status
                        ELSE IF job[j].attempts < MaxAttempts THEN "queued" ELSE "dead"]
  OBVIOUS
<1>2. [j \in Jobs |-> job'[j].attempts] = [j \in Jobs |-> job[j].attempts]  OBVIOUS
<1>3. QED  BY <1>1, <1>2 DEF Ledger!Release

LEMMA ReleasedStatus ==
  ASSUME TypeOK, NEW j \in Jobs, NEW d
  PROVE  /\ Released(j, d).status = IF job[j].attempts < MaxAttempts THEN "queued" ELSE "dead"
         /\ Released(j, d).attempts = job[j].attempts
<1>1. job[j].attempts \in 0 .. MaxAttempts  BY DEF TypeOK, JobRow
<1>2. QED  BY <1>1, BudgetAssumption DEF Released

LEMMA LedgerStep ==
  ASSUME IInv, Next
  PROVE  Ledger!Next \/ UNCHANGED Ledger!vars
<1> USE DEF IInv
<1>1. job \in [Jobs -> JobRow]  BY DEF TypeOK
<1>2. ASSUME NEW j \in Jobs, enqueue(j)  PROVE  Ledger!Submit
  <2> DEFINE new == [Absent EXCEPT !.status = "queued"]
  <2>1. new.status = "queued" /\ new.attempts = 0  BY DEF Absent
  <2>2. job' = [job EXCEPT ![j] = new] /\ job[j].status = "absent"  BY <1>2 DEF enqueue
  <2>3. job[j].attempts = 0  BY <2>2 DEF AbsentIsFresh, Absent
  <2> HIDE DEF new
  <2>4. \A i \in Jobs : /\ job'[i].status = IF i \in {j} THEN "queued" ELSE job[i].status
                        /\ job'[i].attempts = job[i].attempts
    BY <1>1, <2>1, <2>2, <2>3
  <2>5. {j} \in SUBSET Jobs /\ \A i \in {j} : phaseOf[i] = "absent"
    BY <1>2, <2>2 DEF phaseOf
  <2>6. QED  BY <2>4, <2>5 DEF Ledger!Submit, Ledger!Move, phaseOf
<1>3. CASE cancel_queued
  <2> DEFINE S == {j \in Jobs : job[j].status = "queued"}
  <2>1. \A i \in Jobs : /\ job'[i].status = IF i \in S THEN "dead" ELSE job[i].status
                        /\ job'[i].attempts = job[i].attempts
    BY <1>1, <1>3 DEF cancel_queued, JobRow
  <2>2. S \in SUBSET Jobs /\ \A i \in S : phaseOf[i] = "queued"  BY DEF phaseOf
  <2>3. Ledger!Withdraw  BY <2>1, <2>2 DEF Ledger!Withdraw, Ledger!Move, phaseOf
  <2>4. QED  BY <2>3 DEF Ledger!Next
<1>4. ASSUME NEW w \in Workers, acquire_job(w) \/ acquire_unanswered(w)
      PROVE  Ledger!Claim
  <2>1. PICK j \in Ready : job' = [job EXCEPT ![j] = Claimed(j, w)]
    BY <1>4 DEF acquire_job, acquire_unanswered
  <2>2. /\ j \in Jobs
        /\ Claimed(j, w).status = "running"
        /\ Claimed(j, w).attempts = job[j].attempts + 1
        /\ job[j].attempts < MaxAttempts
    BY ClaimedRow
  <2>3. job[j].status = "queued"  BY DEF Ready
  <2>4. \A i \in Jobs : job'[i] = IF i = j THEN Claimed(j, w) ELSE job[i]
    BY <1>1, <2>1
  <2>5. [i \in Jobs |-> job'[i].status] =
          [i \in Jobs |-> IF i \in {j} THEN "running" ELSE phaseOf[i]]
    BY <2>2, <2>4 DEF phaseOf
  <2>6. [i \in Jobs |-> job'[i].attempts] = [claimsOf EXCEPT ![j] = claimsOf[j] + 1]
    BY <2>2, <2>4 DEF claimsOf
  <2>7. claimsOf[j] < MaxAttempts /\ \A i \in {j} : phaseOf[i] = "queued"
    BY <2>2, <2>3 DEF claimsOf, phaseOf
  <2>8. QED  BY <2>2, <2>5, <2>6, <2>7 DEF Ledger!Claim, Ledger!Move, phaseOf, claimsOf
<1>5. ASSUME NEW w \in Workers, WorkerStep(w), ~(acquire_job(w) \/ acquire_unanswered(w))
      PROVE  UNCHANGED Ledger!vars
  <2>1. UNCHANGED job
    BY <1>5 DEF WorkerStep, execute, send_heartbeat, send_complete, complete_throws,
                finish, crash, restart
  <2>2. QED  BY <2>1, LedgerUnchanged
<1>6. ASSUME NEW c \in calls, heartbeat_job(c)  PROVE  UNCHANGED Ledger!vars
  <2>1. c.job \in Jobs  BY DEF TypeOK, Call
  <2>2. job' = job \/ job' = [job EXCEPT ![c.job] = [job[c.job] EXCEPT !.lease = Lease]]
    BY <1>6 DEF heartbeat_job
  <2>3. \A j \in Jobs : job'[j].status = job[j].status /\ job'[j].attempts = job[j].attempts
    BY <1>1, <2>1, <2>2 DEF JobRow
  <2>4. QED  BY <2>3, LedgerUnchanged
<1>7. ASSUME NEW c \in calls, complete_job(c)  PROVE  Ledger!Next \/ UNCHANGED Ledger!vars
  <2>1. c.job \in Jobs  BY DEF TypeOK, Call
  <2>2. CASE UNCHANGED job  BY <2>2, LedgerUnchanged
  <2>3. CASE Current(c)
    <3>1. PICK d \in Delays(job[c.job].attempts) :
            job' = [job EXCEPT ![c.job] =
                      IF c.kind = "success" THEN Succeeded(c.job) ELSE Released(c.job, d)]
      BY <1>7, <2>3 DEF complete_job
    <3>2. job[c.job].status = "running"  BY <2>3 DEF Current
    <3>3. CASE c.kind = "success"
      <4>1. \A i \in Jobs : job'[i] = IF i = c.job THEN Succeeded(i) ELSE job[i]
        BY <1>1, <2>1, <3>1, <3>3
      <4>2. \A i \in Jobs :
              /\ job'[i].status = IF i \in {c.job} THEN "succeeded" ELSE job[i].status
              /\ job'[i].attempts = job[i].attempts
        <5>1. /\ Succeeded(c.job).status = "succeeded"
              /\ Succeeded(c.job).attempts = job[c.job].attempts
          BY DEF Succeeded
        <5>2. QED  BY <4>1, <5>1
      <4>3. /\ [i \in Jobs |-> job'[i].status] =
                 [i \in Jobs |-> IF i \in {c.job} THEN "succeeded" ELSE phaseOf[i]]
            /\ [i \in Jobs |-> job'[i].attempts] = claimsOf
        BY <4>2 DEF phaseOf, claimsOf
      <4>4. \A i \in {c.job} : phaseOf[i] = "running"  BY <2>1, <3>2 DEF phaseOf
      <4>5. Ledger!Succeed
        BY <2>1, <4>3, <4>4 DEF Ledger!Succeed, Ledger!Move, phaseOf, claimsOf
      <4>6. QED  BY <4>5 DEF Ledger!Next
    <3>4. CASE c.kind # "success"
      <4>1. \A i \in Jobs : job'[i] = IF i = c.job THEN Released(i, d) ELSE job[i]
        BY <1>1, <2>1, <3>1, <3>4
      <4>2. {c.job} \in SUBSET Jobs /\ \A i \in {c.job} : job[i].status = "running"
        BY <2>1, <3>2
      <4>3. \A i \in Jobs :
              \/ i \notin {c.job} /\ job'[i] = job[i]
              \/ /\ i \in {c.job}
                 /\ job'[i].status = (IF job[i].attempts < MaxAttempts THEN "queued" ELSE "dead")
                 /\ job'[i].attempts = job[i].attempts
        BY <4>1, ReleasedStatus
      <4>4. Ledger!Release  BY <4>2, <4>3, LedgerRelease
      <4>5. QED  BY <4>4 DEF Ledger!Next
    <3>5. QED  BY <3>3, <3>4
  <2>4. QED  BY <1>7, <2>2, <2>3 DEF complete_job
<1>8. CASE reap_expired_jobs
  <2>1. PICK delay \in [Overdue -> 0 .. (BackoffCap + Jitter)] :
          job' = [j \in Jobs |-> IF j \in Overdue THEN Released(j, delay[j]) ELSE job[j]]
    BY <1>8 DEF reap_expired_jobs
  <2>2. Overdue \in SUBSET Jobs /\ \A j \in Overdue : job[j].status = "running"
    BY DEF Overdue
  <2>3. \A j \in Jobs :
          \/ j \notin Overdue /\ job'[j] = job[j]
          \/ /\ j \in Overdue
             /\ job'[j].status = (IF job[j].attempts < MaxAttempts THEN "queued" ELSE "dead")
             /\ job'[j].attempts = job[j].attempts
    BY <2>1, ReleasedStatus
  <2>4. Ledger!Release  BY <2>2, <2>3, LedgerRelease
  <2>5. QED  BY <2>4 DEF Ledger!Next
<1>9. CASE tick
  <2>1. \A j \in Jobs : job'[j].status = job[j].status /\ job'[j].attempts = job[j].attempts
    BY <1>1, <1>9 DEF tick, JobRow
  <2>2. QED  BY <2>1, LedgerUnchanged
<1>10. QED
  BY <1>2, <1>3, <1>4, <1>5, <1>6, <1>7, <1>8, <1>9 DEF Next, DatabaseStep, Ledger!Next

(* The job table, with its workers, leases and lost calls, keeps the promise
   JobLedger states: bounded claims, one settlement per claim, no way back
   from succeeded or dead. *)
THEOREM QueueImplementsLedger == Spec => ImplementsLedger
<1>1. Init => Ledger!Init  BY DEF Init, Ledger!Init, Absent
<1>2. IInv /\ [Next]_vars => [Ledger!Next]_(Ledger!vars)
  <2>1. ASSUME IInv, UNCHANGED vars  PROVE  UNCHANGED Ledger!vars
    BY <2>1, LedgerUnchanged DEF vars
  <2>2. QED  BY <2>1, LedgerStep
<1>3. QED  BY <1>1, <1>2, QueueInvariant, PTL DEF Spec, ImplementsLedger, Ledger!Spec
=============================================================================
