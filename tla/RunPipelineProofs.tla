------------------------- MODULE RunPipelineProofs -------------------------
(***************************************************************************)
(* Proofs about runs, for any stages, industries, workers and bounds.      *)
(*                                                                         *)
(* The first invariant leaves open what a process has still to send: a     *)
(* statement may concern any stage, so long as it is of the process's own  *)
(* attempt.  Opening says what the counts behind a statement still imply   *)
(* when it is sent.                                                        *)
(***************************************************************************)
EXTENDS RunPipeline, FiniteSetTheorems, TLAPS

Row == [ phase  : {"absent", "queued", "running", "succeeded", "dead"},
         claims : 0 .. MaxAttempts ]

(* A waiting job has a claim left, and only an existing one was ever claimed. *)
ClaimsLeft ==
  \A j \in Jobs : /\ job[j].phase = "absent" => job[j].claims = 0
                  /\ job[j].phase = "queued" => job[j].claims < MaxAttempts

(* Nothing exists, and nothing is done, of an attempt still to come. *)
NothingAhead ==
  /\ \A j \in Jobs : j[1] > attempts => job[j].phase = "absent"
  /\ \A w \in Workers : proc[w].pc \in {"handler", "commit"} => proc[w].job[1] <= attempts

IInv == TypeOK /\ ClaimsLeft /\ NothingAhead

-----------------------------------------------------------------------------
(* A job's coordinates. *)
LEMMA JobParts == \A j \in Jobs : j[1] \in 1 .. MaxRuns /\ j[1] \in Nat
BY BoundsAssumption DEF Jobs, Attempts

(* Workers and the starter are processes, and different ones. *)
LEMMA ProcessesAreTwoKinds == Workers \subseteq Processes /\ Starter \in Processes /\ Starter \notin Workers
BY StagesAssumption DEF Processes

(* Rest and what a process sends are of its place. *)
LEMMA Places ==
  /\ Rest.pc = "idle"
  /\ \A a, t, i : Sending(a, t, i).pc = "send" /\ Sending(a, t, i).attempt = a
BY DEF Rest, Sending

(* Before startRun nothing exists. *)
LEMMA InitIInv == Init => IInv
<1> SUFFICES ASSUME Init PROVE IInv  OBVIOUS
<1>1. job \in [Jobs -> Row]  BY BoundsAssumption DEF Init, Row
<1>2. TypeOK
  <2>1. attempts \in 0 .. MaxRuns /\ failures \in 0 .. MaxFailures /\ crashes \in 0 .. MaxCrashes
    BY BoundsAssumption DEF Init
  <2>2. from \in [Attempts -> Stages]  BY StagesAssumption DEF Init
  <2>3. score \in [Attempts -> [Companies -> {"none", "valid", "invalid"}]]  BY DEF Init
  <2>4. counts \in [{"raw_candidates", "analyzed"} -> 0 .. MaxRuns]  BY BoundsAssumption DEF Init
  <2>5. DOMAIN proc = Processes /\ \A p \in Processes : proc[p].pc = "idle"  BY Places DEF Init
  <2>6. missed \in BOOLEAN  BY DEF Init
  <2>7. QED  BY <1>1, <2>1, <2>2, <2>3, <2>4, <2>5, <2>6 DEF TypeOK, Row
<1>3. ClaimsLeft  BY BoundsAssumption DEF Init, ClaimsLeft
<1>4. NothingAhead
  <2>1. \A p \in Processes : proc[p].pc = "idle"  BY Places DEF Init
  <2>2. QED  BY <2>1, ProcessesAreTwoKinds DEF Init, NothingAhead
<1>5. QED  BY <1>2, <1>3, <1>4 DEF IInv

-----------------------------------------------------------------------------
(* What a step does to the jobs: nothing, or to some of them one of five
   things, the five steps of JobLedger. *)
Inserts(S) == /\ \A j \in S : job[j].phase = "absent" /\ j[1] <= attempts'
              /\ \A j \in S : job'[j] = [phase |-> "queued", claims |-> job[j].claims]
Claims(S)  == \E i \in Jobs : /\ S = {i} /\ job[i].phase = "queued"
                              /\ job'[i] = [phase |-> "running", claims |-> job[i].claims + 1]
Settles(S) == \E i \in Jobs : /\ S = {i} /\ job[i].phase = "running"
                              /\ job'[i] = [job[i] EXCEPT !.phase = "succeeded"]
Releases(S) == /\ \A j \in S : job[j].phase = "running"
               /\ \A j \in S : job'[j] = Released(j)
Withdraws(S) == /\ \A j \in S : job[j].phase = "queued"
                /\ \A j \in S : job'[j] = [job[j] EXCEPT !.phase = "dead"]

JobsMove ==
  /\ job' = [j \in Jobs |-> job'[j]]
  /\ attempts <= attempts'
  /\ \E S \in SUBSET Jobs :
       /\ \A j \in Jobs \ S : job'[j] = job[j]
       /\ Inserts(S) \/ Claims(S) \/ Settles(S) \/ Releases(S) \/ Withdraws(S)

(* A step that leaves the jobs alone is one of them. *)
LEMMA JobsStay ==
  ASSUME TypeOK, UNCHANGED job, attempts <= attempts'
  PROVE  JobsMove
<1>1. job' = [j \in Jobs |-> job'[j]]  BY DEF TypeOK
<1>2. Inserts({})  BY DEF Inserts
<1>3. QED  BY <1>1, <1>2 DEF JobsMove

(* However the jobs move, they keep their types and their claims left. *)
LEMMA JobsKeep ==
  ASSUME TypeOK, ClaimsLeft, \A j \in Jobs : j[1] > attempts => job[j].phase = "absent",
         attempts' \in Nat, JobsMove
  PROVE  /\ job' \in [Jobs -> Row] /\ ClaimsLeft'
         /\ \A j \in Jobs : j[1] > attempts' => job'[j].phase = "absent"
<1>1. PICK S \in SUBSET Jobs :
        /\ \A j \in Jobs \ S : job'[j] = job[j]
        /\ Inserts(S) \/ Claims(S) \/ Settles(S) \/ Releases(S) \/ Withdraws(S)
  BY DEF JobsMove
<1>2. attempts \in Nat /\ attempts <= attempts' /\ MaxAttempts \in Nat \ {0}
  BY BoundsAssumption DEF TypeOK, JobsMove
<1>3. ASSUME NEW j \in Jobs
      PROVE  /\ job'[j] \in Row
             /\ job'[j].phase = "absent" => job'[j].claims = 0
             /\ job'[j].phase = "queued" => job'[j].claims < MaxAttempts
             /\ j[1] > attempts' => job'[j].phase = "absent"
  <2>1. job[j] \in Row  BY DEF TypeOK, Row
  <2>2. /\ job[j].phase = "absent" => job[j].claims = 0
        /\ job[j].phase = "queued" => job[j].claims < MaxAttempts
        /\ j[1] > attempts => job[j].phase = "absent"
    BY DEF ClaimsLeft
  <2>3. j[1] \in Nat  BY JobParts
  <2>4. CASE j \notin S  BY <1>1, <1>2, <2>1, <2>2, <2>3, <2>4
  <2>5. CASE j \in S /\ Inserts(S)
    <3>1. job'[j] = [phase |-> "queued", claims |-> job[j].claims] /\ job[j].phase = "absent" /\ j[1] <= attempts'
      BY <2>5 DEF Inserts
    <3>2. job[j].claims = 0 /\ 0 \in 0 .. MaxAttempts /\ 0 < MaxAttempts  BY <1>2, <2>2, <3>1
    <3>3. job'[j] \in Row /\ job'[j].phase = "queued" /\ job'[j].claims < MaxAttempts  BY <3>1, <3>2 DEF Row
    <3>4. QED  BY <2>3, <3>1, <3>3
  <2>6. CASE j \in S /\ Claims(S)  BY <1>2, <2>1, <2>2, <2>3, <2>6 DEF Claims, Row
  <2>7. CASE j \in S /\ Settles(S)  BY <1>2, <2>1, <2>2, <2>3, <2>7 DEF Settles, Row
  <2>8. CASE j \in S /\ Releases(S)
    <3>1. job'[j] = [job[j] EXCEPT !.phase = IF job[j].claims >= MaxAttempts THEN "dead" ELSE "queued"]
      BY <2>8 DEF Releases, Released
    <3>2. job[j].phase = "running" /\ job[j].claims \in 0 .. MaxAttempts  BY <2>1, <2>8 DEF Releases, Row
    <3>3. /\ job'[j] \in Row
          /\ job'[j].phase = IF job[j].claims >= MaxAttempts THEN "dead" ELSE "queued"
          /\ job'[j].claims = job[j].claims
      BY <2>1, <3>1 DEF Row
    <3>4. ~(j[1] > attempts')  BY <1>2, <2>2, <2>3, <3>2
    <3>5. CASE job[j].claims >= MaxAttempts  BY <3>3, <3>4, <3>5
    <3>6. CASE job[j].claims < MaxAttempts  BY <1>2, <3>2, <3>3, <3>4, <3>6
    <3>7. QED  BY <1>2, <3>2, <3>5, <3>6
  <2>9. CASE j \in S /\ Withdraws(S)
    <3>1. job'[j] = [job[j] EXCEPT !.phase = "dead"] /\ job[j].phase = "queued"  BY <2>9 DEF Withdraws
    <3>2. job'[j] \in Row /\ job'[j].phase = "dead"  BY <2>1, <3>1 DEF Row
    <3>3. QED  BY <1>2, <2>2, <2>3, <3>1, <3>2
  <2>10. QED  BY <1>1, <2>4, <2>5, <2>6, <2>7, <2>8, <2>9
<1>4. job' \in [Jobs -> Row]  BY <1>3 DEF JobsMove
<1>5. QED  BY <1>3, <1>4 DEF ClaimsLeft

-----------------------------------------------------------------------------
(* One statement, whatever it is. *)
LEMMA PerformMoves ==
  ASSUME IInv, NEW a \in 1 .. attempts, NEW st, NEW n, Perform(a, st, n), UNCHANGED attempts
  PROVE  /\ JobsMove
         /\ counts' \in [{"raw_candidates", "analyzed"} -> 0 .. MaxRuns]
         /\ run = "cancelled" => run' = "cancelled"
<1>0. /\ TypeOK /\ attempts \in Nat /\ a \in 0 .. MaxRuns
      /\ counts \in [{"raw_candidates", "analyzed"} -> 0 .. MaxRuns]
  BY BoundsAssumption DEF IInv, TypeOK
<1>1. CASE st.op \in {"row", "skip", "mark"}
  <2>1. UNCHANGED <<run, job, counts>>  BY <1>1 DEF Perform
  <2>2. QED  BY <1>0, <2>1, JobsStay
<1>2. CASE st.op = "counts"
  <2>1. UNCHANGED <<run, job>>  BY <1>2 DEF Perform
  <2>2. PICK k : counts' = IF counts[k] = 0 THEN [counts EXCEPT ![k] = a] ELSE counts  BY <1>2 DEF Perform
  <2>3. counts' \in [{"raw_candidates", "analyzed"} -> 0 .. MaxRuns]  BY <1>0, <2>2
  <2>4. QED  BY <1>0, <2>1, <2>3, JobsStay
<1>3. CASE st.op = "insert"
  <2>1. UNCHANGED <<run, counts>>  BY <1>3 DEF Perform
  <2> DEFINE i == <<a, st.stage, st.key>>
  <2>2. job' = IF Exists(i) THEN job ELSE [job EXCEPT ![i].phase = "queued"]  BY <1>3 DEF Perform
  <2>3. CASE job' = job  BY <1>0, <2>1, <2>3, JobsStay
  <2>4. CASE ~Exists(i) /\ job' = [job EXCEPT ![i].phase = "queued"]
    <3>0. job \in [Jobs -> Row]  BY <1>0 DEF TypeOK, Row
    <3>1. CASE i \notin Jobs
      <4>1. job' = job  BY <2>4, <3>0, <3>1
      <4>2. QED  BY <2>3, <4>1
    <3>2. CASE i \in Jobs
      <4>1. job[i].phase = "absent" /\ i[1] = a  BY <2>4 DEF Exists
      <4>2. job'[i] = [phase |-> "queued", claims |-> job[i].claims]
        <5>1. job[i] \in Row  BY <3>0, <3>2
        <5>2. job'[i] = [job[i] EXCEPT !.phase = "queued"]  BY <2>4, <3>0, <3>2
        <5>3. QED  BY <5>1, <5>2 DEF Row
      <4>3. \A j \in Jobs \ {i} : job'[j] = job[j]  BY <2>4, <3>0
      <4>4. job' = [j \in Jobs |-> job'[j]]  BY <2>4, <3>0
      <4>5. i[1] <= attempts'  BY <1>0, <4>1
      <4> HIDE DEF i
      <4>6. Inserts({i})  BY <4>1, <4>2, <4>5 DEF Inserts
      <4>7. JobsMove  BY <1>0, <3>2, <4>3, <4>4, <4>6 DEF JobsMove
      <4>8. QED  BY <1>0, <2>1, <4>7
    <3>3. QED  BY <3>1, <3>2
  <2>5. QED  BY <2>2, <2>3, <2>4
<1>4. CASE st.op \notin {"row", "skip", "mark", "counts", "insert"}
  <2>1. run' = Closed(st.verdict) /\ UNCHANGED <<row, job, counts>>  BY <1>4 DEF Perform
  <2>2. QED  BY <1>0, <2>1, JobsStay DEF Closed
<1>5. QED  BY <1>1, <1>2, <1>3, <1>4

(* A process that goes to rest, or on with an attempt there is, and jobs that
   move as they may: the rest of the state keeps its type. *)
LEMMA ProcessMoves ==
  ASSUME IInv, NEW p \in Processes, NEW x, proc' = [proc EXCEPT ![p] = x],
         JobsMove, attempts' \in 0 .. MaxRuns,
         x.pc \in {"idle", "handler", "commit", "advance", "send"},
         x.pc \in {"handler", "commit"} => p \in Workers /\ x.job \in Jobs /\ x.job[1] <= attempts',
         x.pc \in {"advance", "send"} => x.attempt \in 1 .. attempts',
         from' \in [Attempts -> Stages],
         score' \in [Attempts -> [Companies -> {"none", "valid", "invalid"}]],
         counts' \in [{"raw_candidates", "analyzed"} -> 0 .. MaxRuns],
         missed' \in BOOLEAN, failures' \in 0 .. MaxFailures, crashes' \in 0 .. MaxCrashes
  PROVE  IInv'
<1>1. /\ DOMAIN proc' = Processes /\ proc'[p] = x
      /\ \A r \in Processes \ {p} : proc'[r] = proc[r]
  BY DEF IInv, TypeOK
<1>2. attempts \in Nat /\ attempts' \in Nat /\ attempts <= attempts'
  BY BoundsAssumption DEF JobsMove, IInv, TypeOK
<1>3. /\ job' \in [Jobs -> Row] /\ ClaimsLeft'
      /\ \A j \in Jobs : j[1] > attempts' => job'[j].phase = "absent"
  BY <1>2, JobsKeep DEF IInv, NothingAhead
<1>4. TypeOK'
  <2>1. \A r \in Processes :
          /\ proc'[r].pc \in {"idle", "handler", "commit", "advance", "send"}
          /\ proc'[r].pc \in {"handler", "commit"} => proc'[r].job \in Jobs
          /\ proc'[r].pc \in {"advance", "send"} => proc'[r].attempt \in 1 .. attempts'
    <3> SUFFICES ASSUME NEW r \in Processes
                 PROVE /\ proc'[r].pc \in {"idle", "handler", "commit", "advance", "send"}
                       /\ proc'[r].pc \in {"handler", "commit"} => proc'[r].job \in Jobs
                       /\ proc'[r].pc \in {"advance", "send"} => proc'[r].attempt \in 1 .. attempts'
      OBVIOUS
    <3>1. CASE r = p  BY <1>1, <3>1
    <3>2. CASE r # p
      <4>1. /\ proc[r].pc \in {"idle", "handler", "commit", "advance", "send"}
            /\ proc[r].pc \in {"handler", "commit"} => proc[r].job \in Jobs
            /\ proc[r].pc \in {"advance", "send"} => proc[r].attempt \in 1 .. attempts
        BY DEF IInv, TypeOK
      <4>2. QED  BY <1>1, <1>2, <3>2, <4>1
    <3>3. QED  BY <3>1, <3>2
  <2>2. QED  BY <1>1, <1>3, <2>1 DEF TypeOK, Row
<1>5. NothingAhead'
  <2>1. ASSUME NEW w \in Workers, proc'[w].pc \in {"handler", "commit"}
        PROVE  proc'[w].job[1] <= attempts'
    <3>1. w \in Processes  BY ProcessesAreTwoKinds
    <3>2. CASE w = p  BY <1>1, <2>1, <3>2
    <3>3. CASE w # p
      <4>1. proc[w].job \in Jobs /\ proc[w].job[1] <= attempts
        BY <1>1, <2>1, <3>1, <3>3 DEF IInv, NothingAhead, TypeOK
      <4>2. QED  BY <1>1, <1>2, <3>1, <3>3, <4>1, JobParts
    <3>4. QED  BY <3>2, <3>3
  <2>2. QED  BY <1>3, <2>1 DEF NothingAhead
<1>6. QED  BY <1>3, <1>4, <1>5 DEF IInv

(* The same of a step of the database alone. *)
LEMMA ProcessesStay ==
  ASSUME IInv, UNCHANGED proc, JobsMove, attempts' \in 0 .. MaxRuns,
         from' \in [Attempts -> Stages],
         score' \in [Attempts -> [Companies -> {"none", "valid", "invalid"}]],
         UNCHANGED <<counts, failures, crashes>>, missed' \in BOOLEAN
  PROVE  IInv'
<1>1. attempts \in Nat /\ attempts' \in Nat /\ attempts <= attempts'
  BY BoundsAssumption DEF JobsMove, IInv, TypeOK
<1>2. /\ job' \in [Jobs -> Row] /\ ClaimsLeft'
      /\ \A j \in Jobs : j[1] > attempts' => job'[j].phase = "absent"
  BY <1>1, JobsKeep DEF IInv, NothingAhead
<1>3. TypeOK'
  <2>1. \A r \in Processes :
          /\ proc[r].pc \in {"idle", "handler", "commit", "advance", "send"}
          /\ proc[r].pc \in {"handler", "commit"} => proc[r].job \in Jobs
          /\ proc[r].pc \in {"advance", "send"} => proc[r].attempt \in 1 .. attempts
    BY DEF IInv, TypeOK
  <2>2. \A r \in Processes : proc[r].pc \in {"advance", "send"} => proc[r].attempt \in 1 .. attempts'
    BY <1>1, <2>1
  <2>3. QED  BY <1>2, <2>1, <2>2 DEF IInv, TypeOK, Row
<1>4. NothingAhead'
  <2>1. ASSUME NEW w \in Workers, proc[w].pc \in {"handler", "commit"}
        PROVE  proc[w].job[1] <= attempts'
    <3>1. w \in Processes  BY ProcessesAreTwoKinds
    <3>2. proc[w].job \in Jobs /\ proc[w].job[1] <= attempts
      BY <2>1, <3>1 DEF IInv, NothingAhead, TypeOK
    <3>3. QED  BY <1>1, <3>2, JobParts
  <2>2. QED  BY <1>2, <2>1 DEF NothingAhead
<1>5. QED  BY <1>2, <1>3, <1>4 DEF IInv

-----------------------------------------------------------------------------
(* The actions: each moves jobs as it may and keeps the invariant. *)
Safe == IInv' /\ JobsMove

(* startRun opens the first attempt. *)
LEMMA StepStart ==
  ASSUME IInv, startRun
  PROVE  Safe
<1> DEFINE x == Sending(1, EnqueueStatements("collect", Keys("collect")), 0)
<1>1. x.pc = "send" /\ x.attempt = 1  BY Places
<1>2. proc' = [proc EXCEPT ![Starter] = x] /\ attempts' = 1  BY DEF startRun
<1> HIDE DEF x
<1>3. UNCHANGED <<from, job, score, counts, missed, failures, crashes>>  BY DEF startRun
<1>4. 1 \in 0 .. MaxRuns  BY BoundsAssumption
<1>5. attempts <= attempts'  BY <1>2 DEF startRun
<1>6. JobsMove  BY <1>3, <1>5, JobsStay DEF IInv
<1>7. 1 \in 1 .. attempts' /\ attempts' \in 0 .. MaxRuns  BY <1>2, <1>4
<1>8. /\ from' \in [Attempts -> Stages] /\ score' \in [Attempts -> [Companies -> {"none", "valid", "invalid"}]]
      /\ counts' \in [{"raw_candidates", "analyzed"} -> 0 .. MaxRuns]
      /\ missed' \in BOOLEAN /\ failures' \in 0 .. MaxFailures /\ crashes' \in 0 .. MaxCrashes
  BY <1>3 DEF IInv, TypeOK
<1>9. QED  BY <1>1, <1>2, <1>6, <1>7, <1>8, ProcessesAreTwoKinds, ProcessMoves DEF Safe

(* A process sends one of its statements, the one whose turn it is, and keeps
   the others. *)
LEMMA Sends ==
  ASSUME NEW p, send(p)
  PROVE  /\ proc[p].pc = "send"
         /\ UNCHANGED <<attempts, from, score, missed, failures, crashes>>
         /\ \E st \in proc[p].todo : \E n :
              /\ \A t \in proc[p].todo \ {st} : Turn(st) <= Turn(t)
              /\ Perform(proc[p].attempt, st, proc[p].inserted)
              /\ proc' = [proc EXCEPT ![p] = IF proc[p].todo \ {st} = {} THEN Rest
                                             ELSE Sending(proc[p].attempt, proc[p].todo \ {st}, n)]
<1> DEFINE new(st) == IF st.op # "insert" THEN 0
                      ELSE proc[p].inserted + (IF Exists(<<proc[p].attempt, st.stage, st.key>>) THEN 0 ELSE 1)
<1>1. \E st \in proc[p].todo :
        /\ \A t \in proc[p].todo \ {st} : Turn(st) <= Turn(t)
        /\ Perform(proc[p].attempt, st, proc[p].inserted)
        /\ proc' = [proc EXCEPT ![p] = IF proc[p].todo \ {st} = {} THEN Rest
                                       ELSE Sending(proc[p].attempt, proc[p].todo \ {st}, new(st))]
  BY DEF send
<1> HIDE DEF new
<1>2. QED  BY <1>1 DEF send

(* A statement of a process inserts at most one job, of its own attempt. *)
LEMMA StepSend ==
  ASSUME IInv, NEW p \in Processes, send(p)
  PROVE  Safe
<1>1. proc[p].attempt \in 1 .. attempts  BY DEF send, IInv, TypeOK
<1>2. PICK st \in proc[p].todo : \E n :
        /\ \A t \in proc[p].todo \ {st} : Turn(st) <= Turn(t)
        /\ Perform(proc[p].attempt, st, proc[p].inserted)
        /\ proc' = [proc EXCEPT ![p] = IF proc[p].todo \ {st} = {} THEN Rest
                                       ELSE Sending(proc[p].attempt, proc[p].todo \ {st}, n)]
  BY Sends
<1>3. PICK n :
        /\ Perform(proc[p].attempt, st, proc[p].inserted)
        /\ proc' = [proc EXCEPT ![p] = IF proc[p].todo \ {st} = {} THEN Rest
                                       ELSE Sending(proc[p].attempt, proc[p].todo \ {st}, n)]
  BY <1>2
<1> DEFINE x == IF proc[p].todo \ {st} = {} THEN Rest ELSE Sending(proc[p].attempt, proc[p].todo \ {st}, n)
<1>4. proc' = [proc EXCEPT ![p] = x] /\ x.pc \in {"idle", "send"} /\ (x.pc = "send" => x.attempt = proc[p].attempt)
  BY <1>3, Places
<1>5. UNCHANGED <<attempts, from, score, missed, failures, crashes>>  BY Sends
<1> HIDE DEF x
<1>6. JobsMove /\ counts' \in [{"raw_candidates", "analyzed"} -> 0 .. MaxRuns]
  BY <1>1, <1>3, <1>5, PerformMoves
<1>7. QED  BY <1>1, <1>4, <1>5, <1>6, ProcessMoves DEF Safe, IInv, TypeOK

(* Who dies leaves the jobs as they are. *)
LEMMA StepCrash ==
  ASSUME IInv, NEW p \in Processes, crash(p)
  PROVE  Safe
<1>1. proc' = [proc EXCEPT ![p] = Rest] /\ UNCHANGED <<run, attempts, from, row, job, score, counts, failures>>
  BY DEF crash
<1>2. crashes' \in 0 .. MaxCrashes /\ missed' \in BOOLEAN  BY BoundsAssumption DEF crash, IInv, TypeOK
<1>3. attempts <= attempts'  BY <1>1 DEF IInv, TypeOK
<1>4. JobsMove  BY <1>1, <1>3, JobsStay DEF IInv
<1>5. QED  BY <1>1, <1>2, <1>4, Places, ProcessMoves DEF Safe, IInv, TypeOK

(* A claim takes a waiting job, which has a claim left. *)
LEMMA StepAcquire ==
  ASSUME IInv, NEW w \in Workers, acquire(w)
  PROVE  Safe
<1>1. PICK j \in Jobs :
        /\ job[j].phase = "queued"
        /\ job' = [job EXCEPT ![j] = [phase |-> "running", claims |-> job[j].claims + 1]]
        /\ proc' = [proc EXCEPT ![w] = [pc |-> "handler", job |-> j, claim |-> job[j].claims + 1]]
  BY DEF acquire
<1>2. UNCHANGED <<run, attempts, from, row, score, counts, missed, failures, crashes>>  BY DEF acquire
<1>3. attempts <= attempts' /\ job \in [Jobs -> Row]  BY <1>2 DEF IInv, TypeOK, Row
<1>4. JobsMove
  <2>1. /\ job'[j] = [phase |-> "running", claims |-> job[j].claims + 1]
        /\ \A i \in Jobs \ {j} : job'[i] = job[i]
        /\ job' = [i \in Jobs |-> job'[i]]
    BY <1>1, <1>3
  <2>2. Claims({j})  BY <1>1, <2>1 DEF Claims
  <2>3. QED  BY <1>3, <2>1, <2>2 DEF JobsMove
<1>5. j[1] <= attempts  BY <1>1, JobParts DEF IInv, NothingAhead, TypeOK
<1> DEFINE x == [pc |-> "handler", job |-> j, claim |-> job[j].claims + 1]
<1>6. x.pc = "handler" /\ x.job = j /\ proc' = [proc EXCEPT ![w] = x]  BY <1>1
<1> HIDE DEF x
<1>7. QED  BY <1>2, <1>4, <1>5, <1>6, ProcessesAreTwoKinds, ProcessMoves DEF Safe, IInv, TypeOK

(* A handler moves no job. *)
LEMMA StepExecute ==
  ASSUME IInv, NEW w \in Workers, execute(w)
  PROVE  Safe
<1>1. UNCHANGED <<run, attempts, from, row, job, score, counts, missed, crashes>> /\ proc[w].pc = "handler"
  BY DEF execute
<1>2. PICK x : /\ proc' = [proc EXCEPT ![w] = x]
               /\ x.pc = "commit" /\ x.job = proc[w].job
  BY DEF execute
<1>3. attempts <= attempts'  BY <1>1 DEF IInv, TypeOK
<1>4. JobsMove  BY <1>1, <1>3, JobsStay DEF IInv
<1>5. w \in Processes  BY ProcessesAreTwoKinds
<1>6. proc[w].job \in Jobs /\ proc[w].job[1] <= attempts  BY <1>1, <1>5 DEF IInv, TypeOK, NothingAhead
<1>7. failures' \in 0 .. MaxFailures  BY BoundsAssumption DEF execute, IInv, TypeOK
<1>8. QED  BY <1>1, <1>2, <1>4, <1>5, <1>6, <1>7, ProcessMoves DEF Safe, IInv, TypeOK

(* A score is written by a worker at the score job of its attempt; nothing
   else changes. *)
LEMMA Writes ==
  ASSUME Score
  PROVE  /\ UNCHANGED <<run, attempts, from, row, job, counts, proc, missed, failures, crashes>>
         /\ \E w \in Workers, c \in Companies :
              /\ proc[w].pc = "handler" /\ proc[w].job[2] = "score"
              /\ score' = [score EXCEPT ![proc[w].job[1]][c] = Rescored(@)]
BY DEF Score, persist

(* The scores a worker writes keep their type. *)
LEMMA StepScore ==
  ASSUME IInv, Score
  PROVE  Safe
<1>1. UNCHANGED <<run, attempts, from, row, job, counts, proc, missed, failures, crashes>>  BY Writes
<1>2. attempts <= attempts'  BY <1>1 DEF IInv, TypeOK
<1>3. JobsMove  BY <1>1, <1>2, JobsStay DEF IInv
<1>4. score' \in [Attempts -> [Companies -> {"none", "valid", "invalid"}]]
  <2>1. PICK w \in Workers, c \in Companies : score' = [score EXCEPT ![proc[w].job[1]][c] = Rescored(@)]  BY Writes
  <2> DEFINE a == proc[w].job[1]
  <2>2. score \in [Attempts -> [Companies -> {"none", "valid", "invalid"}]]  BY DEF IInv, TypeOK
  <2>3. \A v \in {"none", "valid", "invalid"} : Rescored(v) \in {"none", "valid", "invalid"}  BY DEF Rescored
  <2>4. score' = [score EXCEPT ![a] = [score[a] EXCEPT ![c] = Rescored(score[a][c])]]  BY <2>1
  <2> HIDE DEF a
  <2>5. CASE a \in Attempts
    <3>1. score[a] \in [Companies -> {"none", "valid", "invalid"}] /\ score[a][c] \in {"none", "valid", "invalid"}
      BY <2>2, <2>5
    <3>2. [score[a] EXCEPT ![c] = Rescored(score[a][c])] \in [Companies -> {"none", "valid", "invalid"}]
      BY <2>3, <3>1
    <3>3. QED  BY <2>2, <2>4, <3>2
  <2>6. CASE a \notin Attempts  BY <2>2, <2>4, <2>6
  <2>7. QED  BY <2>5, <2>6
<1>5. QED  BY <1>1, <1>3, <1>4, ProcessesStay DEF Safe, IInv, TypeOK

(* Only the latest claim settles or releases its job. *)
LEMMA StepComplete ==
  ASSUME IInv, NEW w \in Workers, complete(w)
  PROVE  Safe
<1>1. UNCHANGED <<run, attempts, from, row, score, counts, missed, failures, crashes>> /\ proc[w].pc = "commit"
  BY DEF complete
<1>2. w \in Processes  BY ProcessesAreTwoKinds
<1>3. PICK j \in Jobs : j = proc[w].job /\ j[1] <= attempts
  BY <1>1, <1>2 DEF IInv, TypeOK, NothingAhead
<1>4. attempts <= attempts' /\ job \in [Jobs -> Row] /\ attempts \in Nat
  BY <1>1, BoundsAssumption DEF IInv, TypeOK, Row
<1>5. JobsMove
  <2>1. CASE job' = job  BY <1>4, <2>1, JobsStay DEF IInv
  <2>2. CASE /\ job[j].phase = "running"
             /\ job' = [job EXCEPT ![j] = [job[j] EXCEPT !.phase = "succeeded"]]
    <3>1. /\ job'[j] = [job[j] EXCEPT !.phase = "succeeded"]
          /\ \A i \in Jobs \ {j} : job'[i] = job[i]
          /\ job' = [i \in Jobs |-> job'[i]]
      BY <1>4, <2>2
    <3>2. Settles({j})  BY <2>2, <3>1 DEF Settles
    <3>3. QED  BY <1>4, <3>1, <3>2 DEF JobsMove
  <2>3. CASE job[j].phase = "running" /\ job' = [job EXCEPT ![j] = Released(j)]
    <3>1. /\ job'[j] = Released(j)
          /\ \A i \in Jobs \ {j} : job'[i] = job[i]
          /\ job' = [i \in Jobs |-> job'[i]]
      BY <1>4, <2>3
    <3>2. Releases({j})  BY <2>3, <3>1 DEF Releases
    <3>3. QED  BY <1>4, <3>1, <3>2 DEF JobsMove
  <2>4. QED  BY <1>3, <2>1, <2>2, <2>3 DEF complete
<1> DEFINE x == [pc |-> "advance", attempt |-> j[1]]
<1>6. x.pc = "advance" /\ x.attempt = j[1] /\ proc' = [proc EXCEPT ![w] = x]  BY <1>3 DEF complete
<1> HIDE DEF x
<1>7. j[1] \in 1 .. attempts'  BY <1>1, <1>3, <1>4, JobParts
<1>8. QED  BY <1>1, <1>2, <1>5, <1>6, <1>7, ProcessMoves DEF Safe, IInv, TypeOK

(* Reading the counts moves no job. *)
LEMMA StepAdvance ==
  ASSUME IInv, NEW w \in Workers, advanceAttempt(w)
  PROVE  Safe
<1>1. UNCHANGED <<run, attempts, from, row, job, score, counts, missed, failures, crashes>> /\ proc[w].pc = "advance"
  BY DEF advanceAttempt
<1>2. w \in Processes  BY ProcessesAreTwoKinds
<1>3. proc[w].attempt \in 1 .. attempts  BY <1>1, <1>2 DEF IInv, TypeOK
<1>4. PICK x : /\ proc' = [proc EXCEPT ![w] = x]
               /\ x = Rest \/ \E t, i : x = Sending(proc[w].attempt, t, i)
  BY DEF advanceAttempt
<1>5. attempts <= attempts'  BY <1>1 DEF IInv, TypeOK
<1>6. JobsMove  BY <1>1, <1>5, JobsStay DEF IInv
<1>7. x.pc \in {"idle", "send"} /\ (x.pc = "send" => x.attempt = proc[w].attempt)  BY <1>4, Places
<1>8. QED  BY <1>1, <1>2, <1>3, <1>4, <1>6, <1>7, ProcessMoves DEF Safe, IInv, TypeOK

(* The reaper releases a running job. *)
LEMMA StepReap ==
  ASSUME IInv, NEW j \in Jobs, reap(j)
  PROVE  Safe
<1>1. /\ UNCHANGED <<run, attempts, from, row, score, counts, proc, failures, crashes>>
      /\ job[j].phase = "running" /\ job' = [job EXCEPT ![j] = Released(j)]
  BY DEF reap
<1>2. attempts <= attempts' /\ job \in [Jobs -> Row]  BY <1>1 DEF IInv, TypeOK, Row
<1>3. /\ job'[j] = Released(j)
      /\ \A i \in Jobs \ {j} : job'[i] = job[i]
      /\ job' = [i \in Jobs |-> job'[i]]
  BY <1>1, <1>2
<1>4. Releases({j})  BY <1>1, <1>3 DEF Releases
<1>5. JobsMove  BY <1>2, <1>3, <1>4 DEF JobsMove
<1>6. missed' \in BOOLEAN  BY DEF reap, IInv, TypeOK
<1>7. QED  BY <1>1, <1>5, <1>6, ProcessesStay DEF Safe, IInv, TypeOK

(* A cancellation withdraws the waiting jobs. *)
LEMMA StepCancel ==
  ASSUME IInv, cancel_run
  PROVE  Safe
<1>1. /\ UNCHANGED <<attempts, from, row, score, counts, proc, missed, failures, crashes>>
      /\ job' = [j \in Jobs |-> IF job[j].phase = "queued" THEN [job[j] EXCEPT !.phase = "dead"] ELSE job[j]]
  BY DEF cancel_run
<1>2. attempts <= attempts'  BY <1>1 DEF IInv, TypeOK
<1> DEFINE S == {j \in Jobs : job[j].phase = "queued"}
<1>3. /\ \A j \in S : job'[j] = [job[j] EXCEPT !.phase = "dead"] /\ job[j].phase = "queued"
      /\ \A j \in Jobs \ S : job'[j] = job[j]
      /\ job' = [j \in Jobs |-> job'[j]] /\ S \in SUBSET Jobs
  BY <1>1
<1> HIDE DEF S
<1>4. Withdraws(S)  BY <1>3 DEF Withdraws
<1>5. JobsMove  BY <1>2, <1>3, <1>4 DEF JobsMove
<1>6. QED  BY <1>1, <1>5, ProcessesStay DEF Safe, IInv, TypeOK

(* A retry inserts jobs of a new attempt, where nothing was. *)
LEMMA StepRetry ==
  ASSUME IInv, NEW s \in Stages, retry_run(s)
  PROVE  Safe
<1> DEFINE a == attempts + 1
<1>1. PICK keys :
        job' = [j \in Jobs |-> IF j[1] = a /\ j[2] = s /\ j[3] \in keys
                               THEN [phase |-> "queued", claims |-> 0] ELSE job[j]]
  BY DEF retry_run
<1>2. UNCHANGED <<counts, proc, missed, failures, crashes>> /\ attempts' = a /\ attempts < MaxRuns  BY DEF retry_run
<1>3. attempts \in Nat /\ MaxRuns \in Nat  BY BoundsAssumption DEF IInv, TypeOK
<1>4. a \in 0 .. MaxRuns /\ a \in Attempts /\ attempts <= attempts'  BY <1>2, <1>3 DEF Attempts
<1>5. from' \in [Attempts -> Stages]  BY <1>4 DEF retry_run, IInv, TypeOK
<1>6. score' \in [Attempts -> [Companies -> {"none", "valid", "invalid"}]]
  BY DEF retry_run, Invalidated, IInv, TypeOK
<1> DEFINE S == {j \in Jobs : j[1] = a /\ j[2] = s /\ j[3] \in keys}
<1>7. /\ \A j \in S : job'[j] = [phase |-> "queued", claims |-> 0] /\ j[1] = a /\ j \in Jobs
      /\ \A j \in Jobs \ S : job'[j] = job[j]
      /\ job' = [j \in Jobs |-> job'[j]] /\ S \in SUBSET Jobs
  BY <1>1
<1> HIDE DEF S
<1>8. Inserts(S)
  <2>1. \A j \in S : job[j].phase = "absent" /\ job[j].claims = 0
    BY <1>3, <1>7 DEF IInv, NothingAhead, ClaimsLeft
  <2>2. \A j \in S : j[1] <= attempts'  BY <1>2, <1>3, <1>7
  <2>3. QED  BY <1>7, <2>1, <2>2 DEF Inserts
<1>9. JobsMove  BY <1>4, <1>7, <1>8 DEF JobsMove
<1>10. QED  BY <1>2, <1>4, <1>5, <1>6, <1>9, ProcessesStay DEF Safe, IInv, TypeOK

(* Every step keeps the invariant and moves jobs as it may. *)
LEMMA Step ==
  ASSUME IInv, Next
  PROVE  Safe
<1>1. CASE startRun  BY <1>1, StepStart
<1>2. CASE \E p \in Processes : send(p) \/ crash(p)  BY <1>2, StepSend, StepCrash
<1>3. CASE \E w \in Workers : WorkerStep(w)
  BY <1>3, StepAcquire, StepExecute, StepComplete, StepAdvance DEF WorkerStep
<1>4. CASE \E j \in Jobs : reap(j)  BY <1>4, StepReap
<1>5. CASE cancel_run  BY <1>5, StepCancel
<1>6. CASE \E s \in Stages : retry_run(s)  BY <1>6, StepRetry
<1>7. CASE Score  BY <1>7, StepScore
<1>8. QED  BY <1>1, <1>2, <1>3, <1>4, <1>5, <1>6, <1>7 DEF Next

(* Nothing changes in a stuttering step. *)
LEMMA Stutter ==
  ASSUME IInv, UNCHANGED vars
  PROVE  IInv'
BY DEF vars, IInv, TypeOK, ClaimsLeft, NothingAhead

(* The inductive invariant of runs. *)
LEMMA Invariant == Spec => []IInv
<1>1. IInv /\ [Next]_vars => IInv'  BY Step, Stutter DEF Safe
<1>2. QED  BY <1>1, InitIInv, PTL DEF Spec

-----------------------------------------------------------------------------
(* Theorems. *)

(* Attempts, jobs, scores and processes keep their types in every behaviour. *)
THEOREM RunTypes == Spec => []TypeOK
<1>1. IInv => TypeOK  BY DEF IInv
<1>2. QED  BY <1>1, Invariant, PTL

(* What the jobs do in a step is a step of JobLedger. *)
LEMMA LedgerStep ==
  ASSUME IInv, JobsMove
  PROVE  Ledger!Next \/ UNCHANGED Ledger!vars
<1> DEFINE phaseOf  == [j \in Jobs |-> job[j].phase]
           claimsOf == [j \in Jobs |-> job[j].claims]
<1>1. PICK S \in SUBSET Jobs :
        /\ \A j \in Jobs \ S : job'[j] = job[j]
        /\ Inserts(S) \/ Claims(S) \/ Settles(S) \/ Releases(S) \/ Withdraws(S)
  BY DEF JobsMove
<1>2. \A j \in Jobs : job[j] \in Row  BY DEF IInv, TypeOK, Row
<1>3. CASE Inserts(S)
  <2>1. \A j \in Jobs : /\ job'[j].phase = IF j \in S THEN "queued" ELSE job[j].phase
                        /\ job'[j].claims = job[j].claims
    <3>1. ASSUME NEW j \in S  PROVE job'[j].phase = "queued" /\ job'[j].claims = job[j].claims
      <4>1. job'[j] = [phase |-> "queued", claims |-> job[j].claims]  BY <1>3 DEF Inserts
      <4>2. QED  BY <4>1
    <3>2. QED  BY <1>1, <3>1
  <2>2. \A j \in S : phaseOf[j] = "absent"  BY <1>3 DEF Inserts
  <2>3. Ledger!Submit  BY <2>1, <2>2 DEF Ledger!Submit, Ledger!Move
  <2>4. QED  BY <2>3 DEF Ledger!Next
<1>4. CASE Claims(S)
  <2>1. PICK i \in Jobs : /\ S = {i} /\ job[i].phase = "queued"
                          /\ job'[i] = [phase |-> "running", claims |-> job[i].claims + 1]
    BY <1>4 DEF Claims
  <2>2. \A j \in Jobs : /\ job'[j].phase = IF j \in {i} THEN "running" ELSE job[j].phase
                        /\ job'[j].claims = IF j = i THEN job[i].claims + 1 ELSE job[j].claims
    BY <1>1, <2>1
  <2>3. claimsOf[i] < MaxAttempts  BY <2>1 DEF IInv, ClaimsLeft
  <2>4. \A j \in {i} : phaseOf[j] = "queued"  BY <2>1
  <2>5. claimsOf' = [claimsOf EXCEPT ![i] = @ + 1]  BY <2>2
  <2>6. phaseOf' = [j \in Jobs |-> IF j \in {i} THEN "running" ELSE phaseOf[j]]  BY <2>2
  <2>7. Ledger!Claim  BY <2>3, <2>4, <2>5, <2>6 DEF Ledger!Claim, Ledger!Move
  <2>8. QED  BY <2>7 DEF Ledger!Next
<1>5. CASE Settles(S)
  <2>1. PICK i \in Jobs : /\ S = {i} /\ job[i].phase = "running"
                          /\ job'[i] = [job[i] EXCEPT !.phase = "succeeded"]
    BY <1>5 DEF Settles
  <2>2. job'[i].phase = "succeeded" /\ job'[i].claims = job[i].claims  BY <1>2, <2>1 DEF Row
  <2>3. \A j \in Jobs : /\ job'[j].phase = IF j \in {i} THEN "succeeded" ELSE job[j].phase
                        /\ job'[j].claims = job[j].claims
    BY <1>1, <2>1, <2>2
  <2>4. \A j \in {i} : phaseOf[j] = "running"  BY <2>1
  <2>5. Ledger!Succeed  BY <2>3, <2>4 DEF Ledger!Succeed, Ledger!Move
  <2>6. QED  BY <2>5 DEF Ledger!Next
<1>6. CASE Releases(S)
  <2>1. \A j \in S : /\ Released(j).phase = IF job[j].claims < MaxAttempts THEN "queued" ELSE "dead"
                     /\ Released(j).claims = job[j].claims
    BY <1>2, BoundsAssumption DEF Released, Row
  <2>2. \A j \in Jobs :
          /\ job'[j].phase = IF j \notin S THEN job[j].phase
                             ELSE IF job[j].claims < MaxAttempts THEN "queued" ELSE "dead"
          /\ job'[j].claims = job[j].claims
    BY <1>1, <1>6, <2>1 DEF Releases
  <2>3. \A j \in S : phaseOf[j] = "running"  BY <1>6 DEF Releases
  <2>4. phaseOf' = [j \in Jobs |-> IF j \notin S THEN phaseOf[j]
                                   ELSE IF claimsOf[j] < MaxAttempts THEN "queued" ELSE "dead"]
    BY <2>2
  <2>5. claimsOf' = claimsOf  BY <2>2
  <2>6. Ledger!Release  BY <2>3, <2>4, <2>5 DEF Ledger!Release
  <2>7. QED  BY <2>6 DEF Ledger!Next
<1>7. CASE Withdraws(S)
  <2>1. ASSUME NEW j \in S  PROVE job'[j].phase = "dead" /\ job'[j].claims = job[j].claims
    <3>1. job'[j] = [job[j] EXCEPT !.phase = "dead"]  BY <1>7 DEF Withdraws
    <3>2. job[j] \in Row  BY <1>2
    <3>3. QED  BY <3>1, <3>2 DEF Row
  <2>2. \A j \in Jobs : /\ job'[j].phase = IF j \in S THEN "dead" ELSE job[j].phase
                        /\ job'[j].claims = job[j].claims
    BY <1>1, <2>1
  <2>3. \A j \in S : phaseOf[j] = "queued"  BY <1>7 DEF Withdraws
  <2>4. Ledger!Withdraw  BY <2>2, <2>3 DEF Ledger!Withdraw, Ledger!Move
  <2>5. QED  BY <2>4 DEF Ledger!Next
<1>8. QED  BY <1>1, <1>3, <1>4, <1>5, <1>6, <1>7

(* A run's jobs, inserted by several processes, claimed, settled, cancelled and
   retried, keep the promise of JobLedger for any stages, workers and bounds:
   none returns from succeeded or dead, none is claimed too often. *)
THEOREM RunImplementsLedger == Spec => ImplementsLedger
<1>1. Init => Ledger!Init  BY DEF Init, Ledger!Init
<1>2. IInv /\ [Next]_vars => [Ledger!Next]_(Ledger!vars)
  <2>1. ASSUME IInv, UNCHANGED vars  PROVE  UNCHANGED Ledger!vars
    BY <2>1 DEF vars, Ledger!vars
  <2>2. ASSUME IInv, Next  PROVE  Ledger!Next \/ UNCHANGED Ledger!vars
    BY <2>2, Step, LedgerStep DEF Safe
  <2>3. QED  BY <2>1, <2>2
<1>3. QED  BY <1>1, <1>2, Invariant, PTL DEF Spec, ImplementsLedger, Ledger!Spec

(* A cancelled run stays cancelled, whatever the processes that were at work
   still send: the closing update keeps the status, retry_run refuses it. *)
THEOREM CancellationHolds == Spec => CancelledForGood
<1>1. IInv /\ [Next]_vars => [run = "cancelled" => run' = "cancelled"]_vars
  <2> SUFFICES ASSUME IInv, Next, run = "cancelled" PROVE run' = "cancelled"  OBVIOUS
  <2>1. CASE \E p \in Processes : send(p)
    <3>1. PICK p \in Processes : send(p)  BY <2>1
    <3>2. proc[p].attempt \in 1 .. attempts  BY <3>1 DEF send, IInv, TypeOK
    <3>3. PICK st, n : Perform(proc[p].attempt, st, n)  BY <3>1, Sends
    <3>4. UNCHANGED attempts  BY <3>1 DEF send
    <3>5. QED  BY <3>2, <3>3, <3>4, PerformMoves
  <2>2. CASE \E p \in Processes : crash(p)  BY <2>2 DEF crash
  <2>3. CASE \E w \in Workers : WorkerStep(w)
    BY <2>3 DEF WorkerStep, acquire, execute, complete, advanceAttempt
  <2>4. CASE \E j \in Jobs : reap(j)  BY <2>4 DEF reap
  <2>5. ~startRun /\ ~cancel_run /\ \A s \in Stages : ~retry_run(s)
    BY DEF startRun, cancel_run, retry_run
  <2>6. QED  BY <2>1, <2>2, <2>3, <2>4, <2>5, Writes DEF Next
<1>2. QED  BY <1>1, Invariant, PTL DEF Spec, CancelledForGood

-----------------------------------------------------------------------------
(* What the counts of a stage say, and what of it lasts. *)
SomeJob(a, s) == \E j \in JobsOf(a, s) : Exists(j)

(* Every stage that s depends on has run to its end. *)
DepsOver(a, s) ==
  \A d \in DependsOn[s] :
    /\ SomeJob(a, d)
    /\ d # "collect" \/ CollectIsWhole => \A k \in Keys(d) : Settled(<<a, d, k>>)

AllOver(a) == \A j \in Jobs : j[1] = a => Settled(j)

(* A job is known by its attempt, its stage and its key. *)
LEMMA JobsAre ==
  ASSUME NEW a \in Attempts, NEW s \in Stages
  PROVE  /\ \A k \in Keys(s) : <<a, s, k>> \in JobsOf(a, s)
         /\ \A j \in JobsOf(a, s) : j \in Jobs /\ j[3] \in Keys(s) /\ j = <<a, s, j[3]>>
         /\ \A j \in JobsOf(a, s) : j[1] = a /\ j[2] = s
         /\ \A j \in Jobs : j[1] = a /\ j[2] = s => j \in JobsOf(a, s)
<1>1. \A j \in JobsOf(a, s) : j[1] = a /\ j[2] = s /\ j[3] \in Keys(s) /\ j = <<a, s, j[3]>>  BY DEF JobsOf
<1>2. \A k \in Keys(s) : <<a, s, k>> \in JobsOf(a, s)  BY DEF JobsOf
<1>3. JobsOf(a, s) \subseteq Jobs
  <2> DEFINE families == { {b} \X {t} \X Keys(t) : b \in Attempts, t \in Stages }
  <2>1. {a} \X {s} \X Keys(s) \in families  OBVIOUS
  <2>2. Jobs = UNION families  BY DEF Jobs
  <2> HIDE DEF families
  <2>3. QED  BY <2>1, <2>2 DEF JobsOf
<1>4. ASSUME NEW j \in Jobs, j[1] = a, j[2] = s
      PROVE  j \in JobsOf(a, s)
  <2>1. PICK b \in Attempts, t \in Stages : j \in {b} \X {t} \X Keys(t)  BY DEF Jobs
  <2>2. QED  BY <1>4, <2>1 DEF JobsOf
<1>5. QED  BY <1>1, <1>2, <1>3, <1>4

(* A stage has finitely many jobs. *)
LEMMA JobsAreFinite ==
  ASSUME NEW a \in Attempts, NEW s \in Stages
  PROVE  IsFiniteSet(JobsOf(a, s))
<1>1. IsFiniteSet(Keys(s))  BY StagesAssumption, FS_Singleton DEF Keys
<1> DEFINE f == [j \in JobsOf(a, s) |-> j[3]]
<1>2. f \in Injection(JobsOf(a, s), Keys(s))  BY JobsAre DEF Injection, IsInjective
<1>3. QED  BY <1>1, <1>2, FS_Injection

(* A stage is over when it has jobs and all of them are counted. *)
LEMMA OverWhenCounted ==
  ASSUME NEW total \in Nat, NEW done \in Nat, NEW failed \in Nat,
         deriveStageStatus(total, done, failed) \in Terminal
  PROVE  total # 0 /\ ~(done + failed < total)
<1>1. total = 0 => deriveStageStatus(total, done, failed) = "pending"  BY DEF deriveStageStatus
<1>2. total # 0 /\ done + failed < total => deriveStageStatus(total, done, failed) = "running"
  BY DEF deriveStageStatus
<1>3. QED  BY <1>1, <1>2 DEF Terminal

(* A stage with a positive total has a job; a terminal one besides has none
   that is not settled. *)
LEMMA Counting ==
  ASSUME NEW a \in Attempts, NEW s \in Stages
  PROVE  /\ Total(a, s) \in Nat /\ (Total(a, s) > 0 <=> SomeJob(a, s))
         /\ Status(a, s) \in Terminal =>
              SomeJob(a, s) /\ \A j \in JobsOf(a, s) : Exists(j) => Settled(j)
<1> DEFINE all  == {j \in JobsOf(a, s) : Exists(j)}
           good == {j \in JobsOf(a, s) : job[j].phase = "succeeded"}
           bad  == {j \in JobsOf(a, s) : job[j].phase = "dead"}
<1>1. IsFiniteSet(JobsOf(a, s))  BY JobsAreFinite
<1>2. good \subseteq all /\ bad \subseteq all /\ good \cap bad = {}  BY DEF Exists
<1>3. IsFiniteSet(all) /\ IsFiniteSet(good) /\ IsFiniteSet(bad)
  <2>1. all \in SUBSET JobsOf(a, s) /\ good \in SUBSET JobsOf(a, s) /\ bad \in SUBSET JobsOf(a, s)  OBVIOUS
  <2> HIDE DEF all, good, bad
  <2>2. QED  BY <1>1, <2>1, FS_Subset
<1>4. Total(a, s) = Cardinality(all) /\ Done(a, s) = Cardinality(good) /\ Failed(a, s) = Cardinality(bad)
  BY DEF Total, Done, Failed
<1>5. SomeJob(a, s) <=> all # {}  BY DEF SomeJob
<1>6. (all \subseteq good \cup bad) => \A j \in JobsOf(a, s) : Exists(j) => Settled(j)  BY DEF Settled
<1> HIDE DEF all, good, bad
<1>7. Cardinality(all) \in Nat /\ (Cardinality(all) = 0 <=> all = {})  BY <1>3, FS_CardinalityType, FS_EmptySet
<1>8. Cardinality(good) \in Nat /\ Cardinality(bad) \in Nat  BY <1>3, FS_CardinalityType
<1>9. IsFiniteSet(good \cup bad) /\ Cardinality(good \cup bad) = Cardinality(good) + Cardinality(bad)
  <2>1. Cardinality(good \cap bad) = 0  BY <1>2, FS_EmptySet
  <2>2. /\ IsFiniteSet(good \cup bad)
        /\ Cardinality(good \cup bad) = Cardinality(good) + Cardinality(bad) - Cardinality(good \cap bad)
    BY <1>3, FS_Union
  <2>3. QED  BY <1>8, <2>1, <2>2
<1>10. Status(a, s) \in Terminal => Cardinality(all) # 0 /\ ~(Cardinality(good) + Cardinality(bad) < Cardinality(all))
  BY <1>4, <1>7, <1>8, OverWhenCounted DEF Status
<1>11. ~(Cardinality(good) + Cardinality(bad) < Cardinality(all)) => all = good \cup bad
  <2>1. good \cup bad \in SUBSET all  BY <1>2
  <2>2. Cardinality(good \cup bad) <= Cardinality(all)  BY <1>3, <2>1, FS_Subset
  <2>3. Cardinality(good \cup bad) = Cardinality(all) => all = good \cup bad  BY <1>3, <2>1, FS_Subset
  <2>4. QED  BY <1>7, <1>8, <1>9, <2>2, <2>3
<1>12. QED  BY <1>4, <1>5, <1>6, <1>7, <1>10, <1>11

(* A job stays once it exists, and stays as it is once it is settled. *)
LEMMA Lasting ==
  ASSUME TypeOK, JobsMove, NEW j \in Jobs
  PROVE  /\ Exists(j) => Exists(j)'
         /\ Settled(j) => job'[j] = job[j] /\ Settled(j)'
<1>0. DOMAIN job[j] = {"phase", "claims"} /\ job[j] = [k \in {"phase", "claims"} |-> job[j][k]]  BY DEF TypeOK
<1>1. PICK S \in SUBSET Jobs :
        /\ \A i \in Jobs \ S : job'[i] = job[i]
        /\ Inserts(S) \/ Claims(S) \/ Settles(S) \/ Releases(S) \/ Withdraws(S)
  BY DEF JobsMove
<1>2. CASE j \notin S  BY <1>1, <1>2 DEF Exists, Settled
<1>3. CASE j \in S
  <2>1. CASE Inserts(S)  BY <1>3, <2>1 DEF Inserts, Exists, Settled
  <2>2. CASE Claims(S)
    <3>1. job[j].phase = "queued" /\ job'[j] = [phase |-> "running", claims |-> job[j].claims + 1]
      BY <1>3, <2>2 DEF Claims
    <3>2. QED  BY <3>1 DEF Exists, Settled
  <2>3. CASE Settles(S)
    <3>1. job[j].phase = "running" /\ job'[j] = [job[j] EXCEPT !.phase = "succeeded"]
      BY <1>3, <2>3 DEF Settles
    <3>2. QED  BY <1>0, <3>1 DEF Exists, Settled
  <2>4. CASE Releases(S)
    <3>1. job[j].phase = "running" /\ job'[j] = Released(j)  BY <1>3, <2>4 DEF Releases
    <3>2. job'[j].phase \in {"dead", "queued"}  BY <1>0, <3>1 DEF Released
    <3>3. QED  BY <3>1, <3>2 DEF Exists, Settled
  <2>5. CASE Withdraws(S)
    <3>1. job[j].phase = "queued" /\ job'[j] = [job[j] EXCEPT !.phase = "dead"]  BY <1>3, <2>5 DEF Withdraws
    <3>2. job'[j].phase = "dead"  BY <1>0, <3>1
    <3>3. QED  BY <3>1, <3>2 DEF Exists, Settled
  <2>6. QED  BY <1>1, <2>1, <2>2, <2>3, <2>4, <2>5
<1>4. QED  BY <1>2, <1>3

(* So what is over stays over, and the verdict on it stays the same. *)
LEMMA OverLasts ==
  ASSUME TypeOK, JobsMove, NEW a \in Attempts
  PROVE  /\ \A s \in Stages : DepsOver(a, s) => DepsOver(a, s)'
         /\ AllOver(a) => AllOver(a)' /\ Verdict(a)' = Verdict(a)
<1>1. ASSUME NEW s \in Stages, DepsOver(a, s)  PROVE DepsOver(a, s)'
  <2>1. ASSUME NEW d \in DependsOn[s]
        PROVE  /\ SomeJob(a, d)'
               /\ d # "collect" \/ CollectIsWhole => \A k \in Keys(d) : Settled(<<a, d, k>>)'
    <3>1. d \in Stages  BY StagesAssumption
    <3>2. /\ SomeJob(a, d)
          /\ d # "collect" \/ CollectIsWhole => \A k \in Keys(d) : Settled(<<a, d, k>>)
      BY <1>1 DEF DepsOver
    <3>3. PICK j \in JobsOf(a, d) : Exists(j)  BY <3>2 DEF SomeJob
    <3>4. Exists(j)'  BY <3>1, <3>3, JobsAre, Lasting
    <3>5. SomeJob(a, d)'  BY <3>4 DEF SomeJob, JobsOf
    <3>6. ASSUME NEW k \in Keys(d), Settled(<<a, d, k>>)  PROVE Settled(<<a, d, k>>)'
      <4>1. <<a, d, k>> \in Jobs  BY <3>1, JobsAre
      <4>2. QED  BY <3>6, <4>1, Lasting
    <3>7. QED  BY <3>2, <3>5, <3>6
  <2>2. QED  BY <2>1 DEF DepsOver, CollectIsWhole
<1>2. ASSUME AllOver(a)  PROVE AllOver(a)' /\ Verdict(a)' = Verdict(a)
  <2>1. AllOver(a)'  BY <1>2, Lasting DEF AllOver
  <2>2. ASSUME NEW s \in Stages  PROVE Status(a, s)' = Status(a, s)
    <3>1. \A j \in JobsOf(a, s) : job'[j] = job[j]  BY <1>2, JobsAre, Lasting DEF AllOver
    <3>2. Total(a, s)' = Total(a, s)
      <4>1. {j \in JobsOf(a, s) : Exists(j)}' = {j \in JobsOf(a, s) : Exists(j)}  BY <3>1 DEF Exists, JobsOf
      <4>2. QED  BY <4>1 DEF Total
    <3>3. Done(a, s)' = Done(a, s)
      <4>1. {j \in JobsOf(a, s) : job[j].phase = "succeeded"}' = {j \in JobsOf(a, s) : job[j].phase = "succeeded"}
        BY <3>1 DEF JobsOf
      <4>2. QED  BY <4>1 DEF Done
    <3>4. Failed(a, s)' = Failed(a, s)
      <4>1. {j \in JobsOf(a, s) : job[j].phase = "dead"}' = {j \in JobsOf(a, s) : job[j].phase = "dead"}
        BY <3>1 DEF JobsOf
      <4>2. QED  BY <4>1 DEF Failed
    <3>5. QED  BY <3>2, <3>3, <3>4 DEF Status
  <2>3. Verdict(a)' = Verdict(a)  BY <2>2 DEF Verdict
  <2>4. QED  BY <2>1, <2>3
<1>3. QED  BY <1>1, <1>2

-----------------------------------------------------------------------------
(* What processes send. *)

(* Statements of any other kind close the run. *)
Closes(st) == st.op \notin {"row", "counts", "insert", "skip", "mark"}

(* The three parts of an advanceAttempt. *)
LEMMA AdvanceParts ==
  ASSUME NEW a, NEW st
  PROVE  st \in AdvanceStatements(a) <=>
           \/ \E s \in Stages : st \in RowStatements(a, s)
           \/ \E s \in Stages : st \in OpenStatements(a, s)
           \/ st \in CloseStatements(a)
<1>1. st \in AdvanceStatements(a) <=>
        \/ st \in UNION {RowStatements(a, s) : s \in Stages}
        \/ st \in UNION {OpenStatements(a, s) : s \in Stages}
        \/ st \in CloseStatements(a)
  BY Zenon DEF AdvanceStatements
<1>2. st \in UNION {RowStatements(a, s) : s \in Stages} <=> \E s \in Stages : st \in RowStatements(a, s)
  BY Zenon
<1>3. st \in UNION {OpenStatements(a, s) : s \in Stages} <=> \E s \in Stages : st \in OpenStatements(a, s)
  BY Zenon
<1>4. QED  BY <1>1, <1>2, <1>3, Zenon

(* advanceAttempt inserts only jobs of stages whose dependencies are terminal,
   never of collect, and closes the run, with its verdict, only when all are. *)
LEMMA Advances ==
  ASSUME NEW a, NEW st \in AdvanceStatements(a)
  PROVE  /\ st.op = "insert" => /\ st.stage \in Stages /\ st.stage # "collect" /\ st.key = "all"
                                /\ \A d \in DependsOn[st.stage] : Status(a, d) \in Terminal
         /\ Closes(st) => /\ \A s \in Stages : Status(a, s) \in Terminal
                          /\ st.verdict = Verdict(a)
<1>1. CASE \E s \in Stages : st \in RowStatements(a, s)  BY <1>1 DEF RowStatements, Closes
<1>2. CASE \E s \in Stages : st \in OpenStatements(a, s)
  <2>1. PICK s \in Stages : st \in OpenStatements(a, s)  BY <1>2
  <2>2. \A d \in DependsOn[s] : Status(a, d) \in Terminal  BY <2>1 DEF OpenStatements
  <2>3. st.op \in {"insert", "mark", "skip"} /\ st.stage = s
    BY <2>1 DEF OpenStatements, EnqueueStatements
  <2>4. st.op = "insert" => s # "collect" /\ st.key = "all"
    BY <2>1 DEF OpenStatements, EnqueueStatements, Keys
  <2>5. QED  BY <2>2, <2>3, <2>4 DEF Closes
<1>3. CASE st \in CloseStatements(a)  BY <1>3 DEF CloseStatements
<1>4. QED  BY <1>1, <1>2, <1>3, AdvanceParts

(* A process that has statements to send had them before, or has just started
   the run, or has just read the counts. *)
LEMMA Senders ==
  ASSUME IInv, Next, NEW p \in Processes, proc'[p].pc = "send"
  PROVE  \/ /\ proc[p].pc = "send" /\ proc'[p].attempt = proc[p].attempt
            /\ proc'[p].todo \subseteq proc[p].todo
         \/ /\ p = Starter /\ proc'[p].attempt = 1 /\ startRun
            /\ proc'[p].todo = EnqueueStatements("collect", Keys("collect"))
         \/ /\ p \in Workers /\ advanceAttempt(p)
            /\ proc'[p].attempt = proc[p].attempt
            /\ proc'[p].todo = AdvanceStatements(proc[p].attempt)
<1>1. DOMAIN proc = Processes  BY DEF IInv, TypeOK
<1>2. /\ \A a, t, i : Sending(a, t, i).pc = "send" /\ Sending(a, t, i).attempt = a /\ Sending(a, t, i).todo = t
      /\ Rest.pc = "idle"
  BY DEF Sending, Rest
<1>3. CASE startRun
  <2>1. proc' = [proc EXCEPT ![Starter] = Sending(1, EnqueueStatements("collect", Keys("collect")), 0)]
    BY <1>3 DEF startRun
  <2>2. QED  BY <1>1, <1>2, <1>3, <2>1
<1>4. CASE \E q \in Processes : send(q)
  <2>1. PICK q \in Processes : send(q)  BY <1>4
  <2>2. PICK st \in proc[q].todo : \E n :
          /\ \A t \in proc[q].todo \ {st} : Turn(st) <= Turn(t)
          /\ Perform(proc[q].attempt, st, proc[q].inserted)
          /\ proc' = [proc EXCEPT ![q] = IF proc[q].todo \ {st} = {} THEN Rest
                                         ELSE Sending(proc[q].attempt, proc[q].todo \ {st}, n)]
    BY <2>1, Sends
  <2>3. proc[q].pc = "send"  BY <2>1, Sends
  <2>4. QED  BY <1>1, <1>2, <2>2, <2>3
<1>5. CASE \E q \in Processes : crash(q)
  <2>1. PICK q \in Processes : proc' = [proc EXCEPT ![q] = Rest]  BY <1>5 DEF crash
  <2>2. QED  BY <1>1, <1>2, <2>1
<1>6. CASE \E w \in Workers : acquire(w) \/ execute(w) \/ complete(w)
  <2>1. PICK w \in Workers : proc'[w].pc # "send" /\ \A q \in Processes \ {w} : proc'[q] = proc[q]
    <3>1. ASSUME NEW w \in Workers, acquire(w) \/ execute(w) \/ complete(w)
          PROVE  proc'[w].pc # "send" /\ \A q \in Processes \ {w} : proc'[q] = proc[q]
      <4>1. w \in DOMAIN proc  BY <1>1, ProcessesAreTwoKinds
      <4>2. CASE acquire(w)  BY <4>1, <4>2, <1>1 DEF acquire
      <4>3. CASE execute(w)  BY <4>1, <4>3, <1>1 DEF execute
      <4>4. CASE complete(w)  BY <4>1, <4>4, <1>1 DEF complete
      <4>5. QED  BY <3>1, <4>2, <4>3, <4>4
    <3>2. QED  BY <1>6, <3>1
  <2>2. QED  BY <1>1, <2>1, ProcessesAreTwoKinds
<1>7. CASE \E w \in Workers : advanceAttempt(w)
  <2>1. PICK w \in Workers : advanceAttempt(w)  BY <1>7
  <2>2. proc' = [proc EXCEPT ![w] = IF AdvanceStatements(proc[w].attempt) = {} THEN Rest
                                    ELSE Sending(proc[w].attempt, AdvanceStatements(proc[w].attempt), 0)]
    BY <2>1 DEF advanceAttempt
  <2>3. QED  BY <1>1, <1>2, <2>1, <2>2, ProcessesAreTwoKinds
<1>8. CASE UNCHANGED proc  BY <1>8
<1>9. QED
  <2>1. (\E j \in Jobs : reap(j)) \/ cancel_run \/ (\E s \in Stages : retry_run(s)) => UNCHANGED proc
    BY DEF reap, cancel_run, retry_run
  <2>2. QED  BY <1>3, <1>4, <1>5, <1>6, <1>7, <1>8, <2>1, Writes DEF Next, WorkerStep

-----------------------------------------------------------------------------
(* The invariant behind the opening of stages and the closing of the run. *)

(* Only stages whose dependencies are over are about to get jobs ... *)
OnlyOpen ==
  \A p \in Processes : proc[p].pc = "send" =>
    \A st \in proc[p].todo : st.op = "insert" =>
      st.stage \in Stages /\ DepsOver(proc[p].attempt, st.stage)

(* ... and only those have any, besides the stage the attempt was started from. *)
OpenedWell ==
  \A j \in Jobs : Exists(j) /\ j[2] # from[j[1]] => DepsOver(j[1], j[2])

(* A closing update still to be sent carries a verdict that is true by now, *)
OnlyTrueVerdicts ==
  CollectIsWhole =>
    \A p \in Processes : proc[p].pc = "send" =>
      \A st \in proc[p].todo : Closes(st) =>
        AllOver(proc[p].attempt) /\ st.verdict = Verdict(proc[p].attempt)

(* ... and so does one that has been sent. *)
ClosedWell ==
  run \in Finished /\ CollectIsWhole => \E a \in 1 .. attempts : AllOver(a) /\ run = Verdict(a)

(* An uninterrupted startRun: workers find every collect job, or wait. *)
Uninterrupted == QuickStart /\ MaxCrashes = 0 /\ "retry" \notin AdminActs

CollectOf(i) == [op |-> "insert", stage |-> "collect", key |-> i]

StartedWhole ==
  Uninterrupted =>
    /\ attempts <= 1
    /\ \A w \in Workers : proc[w].pc # "idle" => attempts = 1 /\ proc[Starter].pc = "idle"
    /\ \A i \in Industries : attempts = 1 =>
         \/ Exists(<<1, "collect", i>>)
         \/ proc[Starter].pc = "send" /\ CollectOf(i) \in proc[Starter].todo

Opening == OnlyOpen /\ OpenedWell /\ OnlyTrueVerdicts /\ ClosedWell /\ StartedWhole

LEMMA InitOpening == Init => Opening
<1> SUFFICES ASSUME Init PROVE Opening  OBVIOUS
<1>1. \A p \in Processes : proc[p].pc = "idle"  BY Places DEF Init
<1>2. OnlyOpen /\ OnlyTrueVerdicts  BY <1>1 DEF OnlyOpen, OnlyTrueVerdicts
<1>3. OpenedWell  BY DEF Init, OpenedWell, Exists
<1>4. ClosedWell  BY DEF Init, ClosedWell, Finished
<1>5. StartedWhole  BY <1>1, ProcessesAreTwoKinds DEF Init, StartedWhole
<1>6. QED  BY <1>2, <1>3, <1>4, <1>5 DEF Opening

(* A worker that reads the counts of a stage as terminal finds every job the
   stage has or will have settled. *)
LEMMA StageIsOver ==
  ASSUME IInv, StartedWhole, NEW w \in Workers, proc[w].pc = "advance",
         NEW a, a = proc[w].attempt, NEW d \in Stages, Status(a, d) \in Terminal
  PROVE  /\ SomeJob(a, d)
         /\ d # "collect" \/ CollectIsWhole => \A k \in Keys(d) : Settled(<<a, d, k>>)
<1>1. a \in 1 .. attempts /\ attempts \in 0 .. MaxRuns
  BY ProcessesAreTwoKinds DEF IInv, TypeOK
<1>2. a \in Attempts  BY <1>1, BoundsAssumption DEF Attempts
<1>3. SomeJob(a, d) /\ \A j \in JobsOf(a, d) : Exists(j) => Settled(j)  BY <1>2, Counting
<1>4. PICK i \in JobsOf(a, d) : Exists(i)  BY <1>3 DEF SomeJob
<1>5. i[3] \in Keys(d) /\ i = <<a, d, i[3]>>  BY <1>2, JobsAre
<1>6. ASSUME d # "collect" \/ CollectIsWhole, NEW k \in Keys(d)  PROVE Settled(<<a, d, k>>)
  <2>1. <<a, d, k>> \in JobsOf(a, d)  BY <1>2, JobsAre
  <2>2. CASE k = i[3]  BY <1>3, <1>4, <1>5, <2>1, <2>2
  <2>3. CASE k # i[3]
    <3>1. d = "collect" /\ Keys(d) = Industries  BY <1>5, <2>3 DEF Keys
    <3>2. Uninterrupted  BY <1>5, <1>6, <2>3, <3>1 DEF CollectIsWhole, Uninterrupted
    <3>3. attempts = 1 /\ proc[Starter].pc = "idle"  BY <3>2 DEF StartedWhole
    <3>4. a = 1  BY <1>1, <3>3
    <3>5. Exists(<<1, "collect", k>>)  BY <3>1, <3>2, <3>3 DEF StartedWhole
    <3>6. QED  BY <1>3, <2>1, <3>1, <3>4, <3>5
  <2>4. QED  BY <2>2, <2>3
<1>7. QED  BY <1>3, <1>6

(* The attempt of a process that sends or advances. *)
LEMMA AtWork ==
  ASSUME IInv, NEW p \in Processes, proc[p].pc \in {"advance", "send"}
  PROVE  proc[p].attempt \in Attempts /\ proc[p].attempt \in 1 .. attempts
<1>1. proc[p].attempt \in 1 .. attempts /\ attempts \in 0 .. MaxRuns  BY DEF IInv, TypeOK
<1>2. QED  BY <1>1, BoundsAssumption DEF Attempts

(* What is about to be inserted. *)
LEMMA KeepOnlyOpen ==
  ASSUME IInv, Opening, Next
  PROVE  OnlyOpen'
<1>0. IInv' /\ JobsMove /\ TypeOK  BY Step DEF Safe, IInv
<1> SUFFICES ASSUME NEW p \in Processes, proc'[p].pc = "send",
                    NEW st, st \in proc'[p].todo, st.op = "insert"
             PROVE  st.stage \in Stages /\ DepsOver(proc[p].attempt, st.stage)'
  BY DEF OnlyOpen, Processes
<1>1. CASE /\ proc[p].pc = "send" /\ proc'[p].attempt = proc[p].attempt
           /\ proc'[p].todo \subseteq proc[p].todo
  <2>1. PICK a \in Attempts : a = proc[p].attempt  BY <1>1, AtWork
  <2>2. st.stage \in Stages /\ DepsOver(a, st.stage)  BY <1>1, <2>1 DEF Opening, OnlyOpen
  <2>3. DepsOver(a, st.stage)'  BY <1>0, <2>2, OverLasts
  <2>4. QED  BY <1>1, <2>1, <2>2, <2>3
<1>2. CASE proc'[p].todo = EnqueueStatements("collect", Keys("collect"))
  <2>1. st.stage = "collect"  BY <1>2 DEF EnqueueStatements
  <2>2. "collect" \in Stages /\ DependsOn["collect"] = {}  BY StagesAssumption
  <2>3. QED  BY <2>1, <2>2 DEF DepsOver
<1>3. CASE /\ p \in Workers /\ advanceAttempt(p) /\ proc'[p].attempt = proc[p].attempt
           /\ proc'[p].todo = AdvanceStatements(proc[p].attempt)
  <2>1. proc[p].pc = "advance"  BY <1>3 DEF advanceAttempt
  <2>2. PICK a \in Attempts : a = proc[p].attempt  BY <2>1, AtWork
  <2>3. st.stage \in Stages /\ \A d \in DependsOn[st.stage] : Status(a, d) \in Terminal
    BY <1>3, <2>2, Advances
  <2>4. \A d \in DependsOn[st.stage] : d \in Stages  BY <2>3, StagesAssumption
  <2>5. DepsOver(a, st.stage)  BY <1>3, <2>1, <2>2, <2>3, <2>4, StageIsOver DEF Opening, DepsOver
  <2>6. DepsOver(a, st.stage)'  BY <1>0, <2>3, <2>5, OverLasts
  <2>7. QED  BY <1>3, <2>2, <2>3, <2>6
<1>4. QED  BY <1>1, <1>2, <1>3, Senders

(* The verdicts about to be written. *)
LEMMA KeepVerdicts ==
  ASSUME IInv, Opening, Next
  PROVE  OnlyTrueVerdicts'
<1>0. IInv' /\ JobsMove /\ TypeOK  BY Step DEF Safe, IInv
<1> SUFFICES ASSUME CollectIsWhole, NEW p \in Processes, proc'[p].pc = "send",
                    NEW st, st \in proc'[p].todo, Closes(st)
             PROVE  AllOver(proc[p].attempt)' /\ st.verdict = Verdict(proc[p].attempt)'
  BY DEF OnlyTrueVerdicts, CollectIsWhole, Processes, Closes
<1>1. CASE /\ proc[p].pc = "send" /\ proc'[p].attempt = proc[p].attempt
           /\ proc'[p].todo \subseteq proc[p].todo
  <2>1. PICK a \in Attempts : a = proc[p].attempt  BY <1>1, AtWork
  <2>2. AllOver(a) /\ st.verdict = Verdict(a)  BY <1>1, <2>1 DEF Opening, OnlyTrueVerdicts
  <2>3. AllOver(a)' /\ Verdict(a)' = Verdict(a)  BY <1>0, <2>2, OverLasts
  <2>4. QED  BY <1>1, <2>1, <2>2, <2>3
<1>2. CASE proc'[p].todo = EnqueueStatements("collect", Keys("collect"))
  BY <1>2 DEF EnqueueStatements, Closes
<1>3. CASE /\ p \in Workers /\ advanceAttempt(p) /\ proc'[p].attempt = proc[p].attempt
           /\ proc'[p].todo = AdvanceStatements(proc[p].attempt)
  <2>1. proc[p].pc = "advance"  BY <1>3 DEF advanceAttempt
  <2>2. PICK a \in Attempts : a = proc[p].attempt  BY <2>1, AtWork
  <2>3. (\A s \in Stages : Status(a, s) \in Terminal) /\ st.verdict = Verdict(a)
    BY <1>3, <2>2, Advances
  <2>4. AllOver(a)
    <3>1. ASSUME NEW j \in Jobs, j[1] = a  PROVE Settled(j)
      <4>1. PICK b \in Attempts, s \in Stages : j \in {b} \X {s} \X Keys(s)  BY DEF Jobs
      <4>2. j[3] \in Keys(s) /\ j = <<a, s, j[3]>>  BY <3>1, <4>1
      <4>3. Settled(<<a, s, j[3]>>)  BY <1>3, <2>1, <2>2, <2>3, <4>2, StageIsOver DEF Opening
      <4>4. QED  BY <4>2, <4>3
    <3>2. QED  BY <3>1 DEF AllOver
  <2>5. AllOver(a)' /\ Verdict(a)' = Verdict(a)  BY <1>0, <2>4, OverLasts
  <2>6. QED  BY <1>3, <2>2, <2>3, <2>5
<1>4. QED  BY <1>1, <1>2, <1>3, Senders

(* A job comes to exist by a statement about its stage, or by a retry that
   starts its attempt from there. *)
LEMMA Appears ==
  ASSUME IInv, Next, NEW j \in Jobs, ~Exists(j), Exists(j)'
  PROVE  \/ j[1] = attempts + 1 /\ j[2] = from'[j[1]]
         \/ \E p \in Processes : proc[p].pc = "send" /\ proc[p].attempt = j[1] /\
              \E st \in proc[p].todo : st.op = "insert" /\ st.stage = j[2] /\ st.key = j[3]
<1>0. job \in [Jobs -> Row] /\ job[j].phase = "absent" /\ job'[j].phase # "absent"
  BY DEF IInv, TypeOK, Row, Exists
<1>1. job' # job  BY <1>0
<1>2. CASE \E p \in Processes : send(p)
  <2>1. PICK p \in Processes : send(p)  BY <1>2
  <2>2. proc[p].pc = "send"  BY <2>1, Sends
  <2>3. PICK st \in proc[p].todo : \E n :
          /\ \A t \in proc[p].todo \ {st} : Turn(st) <= Turn(t)
          /\ Perform(proc[p].attempt, st, proc[p].inserted)
          /\ proc' = [proc EXCEPT ![p] = IF proc[p].todo \ {st} = {} THEN Rest
                                         ELSE Sending(proc[p].attempt, proc[p].todo \ {st}, n)]
    BY <2>1, Sends
  <2>4. Perform(proc[p].attempt, st, proc[p].inserted)  BY <2>3
  <2>5. st.op = "insert"  BY <1>1, <2>4 DEF Perform
  <2> DEFINE i == <<proc[p].attempt, st.stage, st.key>>
  <2>6. job' = IF Exists(i) THEN job ELSE [job EXCEPT ![i].phase = "queued"]  BY <2>4, <2>5 DEF Perform
  <2>7. job' = [job EXCEPT ![i].phase = "queued"]  BY <1>1, <2>6
  <2>8. j = i
    <3> HIDE DEF i
    <3>1. QED  BY <1>0, <2>7
  <2>9. j[1] = proc[p].attempt /\ j[2] = st.stage /\ j[3] = st.key  BY <2>8
  <2>10. QED  BY <2>2, <2>5, <2>9
<1>3. CASE \E s \in Stages : retry_run(s)
  <2>1. PICK s \in Stages : retry_run(s)  BY <1>3
  <2>2. PICK keys :
          job' = [i \in Jobs |-> IF i[1] = attempts + 1 /\ i[2] = s /\ i[3] \in keys
                                 THEN [phase |-> "queued", claims |-> 0] ELSE job[i]]
    BY <2>1 DEF retry_run
  <2>3. j[1] = attempts + 1 /\ j[2] = s  BY <1>0, <2>2
  <2>4. from' = [from EXCEPT ![attempts + 1] = s]  BY <2>1 DEF retry_run
  <2>5. j[1] \in Attempts /\ DOMAIN from = Attempts  BY JobParts DEF IInv, TypeOK, Attempts
  <2>6. QED  BY <2>3, <2>4, <2>5
<1>4. CASE \E w \in Workers : acquire(w)
  <2>1. PICK i \in Jobs : /\ job[i].phase = "queued"
                          /\ job' = [job EXCEPT ![i] = [phase |-> "running", claims |-> job[i].claims + 1]]
    BY <1>4 DEF acquire
  <2>2. QED  BY <1>0, <2>1
<1>5. CASE \E w \in Workers : complete(w)
  <2>1. PICK i \in Jobs : job[i].phase = "running" /\ \E r : job' = [job EXCEPT ![i] = r]
    <3>1. PICK w \in Workers : complete(w)  BY <1>5
    <3>2. /\ job[proc[w].job].phase = "running"
          /\ \E r : job' = [job EXCEPT ![proc[w].job] = r]
      BY <1>1, <3>1 DEF complete
    <3>3. proc[w].job \in Jobs  BY <3>1, ProcessesAreTwoKinds DEF complete, IInv, TypeOK
    <3>4. QED  BY <3>2, <3>3
  <2>2. QED  BY <1>0, <2>1
<1>6. CASE \E i \in Jobs : reap(i)  BY <1>0, <1>6 DEF reap
<1>7. ~cancel_run  BY <1>0 DEF cancel_run
<1>8. startRun \/ (\E p \in Processes : crash(p)) \/ (\E w \in Workers : execute(w) \/ advanceAttempt(w))
        => UNCHANGED job
  BY DEF startRun, crash, execute, advanceAttempt
<1>9. QED  BY <1>1, <1>2, <1>3, <1>4, <1>5, <1>6, <1>7, <1>8, Writes DEF Next, WorkerStep

(* Where an attempt was started from stays as it is. *)
LEMMA FromStays ==
  ASSUME IInv, Next, NEW a \in 1 .. attempts
  PROVE  from'[a] = from[a]
<1>1. CASE \E s \in Stages : retry_run(s)
  <2>1. PICK s \in Stages : from' = [from EXCEPT ![attempts + 1] = s]  BY <1>1 DEF retry_run
  <2>2. attempts \in Nat  BY BoundsAssumption DEF IInv, TypeOK
  <2>3. QED  BY <2>1, <2>2 DEF IInv, TypeOK
<1>2. CASE UNCHANGED from  BY <1>2
<1>3. (\E p \in Processes : send(p)) => UNCHANGED from  BY Sends
<1>4. QED  BY <1>1, <1>2, <1>3, Writes DEF Next, WorkerStep, startRun, crash, acquire, execute, complete,
                                  advanceAttempt, reap, cancel_run

(* A run comes to its end by a closing update. *)
LEMMA Ends ==
  ASSUME IInv, Next, run' \in Finished, run' # run
  PROVE  \E p \in Processes : send(p) /\ proc[p].pc = "send" /\ UNCHANGED <<row, job>> /\
           \E st \in proc[p].todo : /\ Closes(st) /\ run' = st.verdict
                                    /\ \A t \in proc[p].todo \ {st} : Turn(st) <= Turn(t)
<1>1. CASE \E p \in Processes : send(p)
  <2>1. PICK p \in Processes : send(p)  BY <1>1
  <2>2. proc[p].pc = "send"  BY <2>1, Sends
  <2>3. PICK st \in proc[p].todo : \E n :
          /\ \A t \in proc[p].todo \ {st} : Turn(st) <= Turn(t)
          /\ Perform(proc[p].attempt, st, proc[p].inserted)
          /\ proc' = [proc EXCEPT ![p] = IF proc[p].todo \ {st} = {} THEN Rest
                                         ELSE Sending(proc[p].attempt, proc[p].todo \ {st}, n)]
    BY <2>1, Sends
  <2>4. Perform(proc[p].attempt, st, proc[p].inserted)  BY <2>3
  <2>5. Closes(st)  BY <2>4 DEF Perform, Closes
  <2>6. run' = Closed(st.verdict) /\ UNCHANGED <<row, job>>  BY <2>4, <2>5 DEF Perform, Closes
  <2>7. run' = st.verdict  BY <2>6 DEF Closed
  <2>8. QED  BY <2>1, <2>2, <2>3, <2>5, <2>6, <2>7
<1>2. (startRun \/ \E s \in Stages : retry_run(s)) => run' = "running"  BY DEF startRun, retry_run
<1>3. cancel_run => run' = "cancelled"  BY DEF cancel_run
<1>4. QED  BY <1>1, <1>2, <1>3, Writes DEF Next, WorkerStep, crash, acquire, execute, complete,
                                  advanceAttempt, reap, Finished

(* Jobs that exist. *)
LEMMA KeepOpened ==
  ASSUME IInv, Opening, Next
  PROVE  OpenedWell'
<1>0. IInv' /\ JobsMove /\ TypeOK  BY Step DEF Safe, IInv
<1> SUFFICES ASSUME NEW j \in Jobs, Exists(j)', j[2] # from'[j[1]]
             PROVE  DepsOver(j[1], j[2])'
  BY DEF OpenedWell, Jobs, Attempts, Keys
<1>1. PICK a \in Attempts, s \in Stages : j \in {a} \X {s} \X Keys(s)  BY DEF Jobs
<1>2. j[1] = a /\ j[2] = s  BY <1>1
<1>3. DepsOver(a, s)
  <2>1. CASE Exists(j)
    <3>1. a \in 1 .. attempts
      BY <1>2, <2>1, BoundsAssumption DEF IInv, TypeOK, NothingAhead, Exists, Attempts
    <3>2. j[2] # from[j[1]]  BY <1>2, <3>1, FromStays
    <3>3. QED  BY <1>2, <2>1, <3>2 DEF Opening, OpenedWell
  <2>2. CASE ~Exists(j)
    <3>1. PICK p \in Processes : proc[p].pc = "send" /\ proc[p].attempt = j[1] /\
            \E st \in proc[p].todo : st.op = "insert" /\ st.stage = j[2]
      BY <2>2, Appears
    <3>2. QED  BY <1>2, <3>1 DEF Opening, OnlyOpen
  <2>3. QED  BY <2>1, <2>2
<1>4. DepsOver(a, s)'  BY <1>0, <1>3, OverLasts
<1>5. QED  BY <1>2, <1>4

(* The run's status. *)
LEMMA KeepClosed ==
  ASSUME IInv, Opening, Next
  PROVE  ClosedWell'
<1>0. /\ IInv' /\ JobsMove /\ TypeOK
      /\ attempts \in Nat /\ attempts' \in Nat /\ attempts <= attempts' /\ attempts <= MaxRuns
  BY Step, BoundsAssumption DEF Safe, IInv, TypeOK, JobsMove
<1> SUFFICES ASSUME run' \in Finished, CollectIsWhole
             PROVE  \E a \in 1 .. attempts' : AllOver(a)' /\ run' = Verdict(a)'
  BY DEF ClosedWell, CollectIsWhole
<1>1. PICK a \in 1 .. attempts : AllOver(a) /\ run' = Verdict(a)
  <2>1. CASE run' = run  BY <2>1 DEF Opening, ClosedWell
  <2>2. CASE run' # run
    <3>1. PICK p \in Processes : proc[p].pc = "send" /\
            \E st \in proc[p].todo : Closes(st) /\ run' = st.verdict
      BY <2>2, Ends
    <3>2. proc[p].attempt \in 1 .. attempts  BY <3>1, AtWork
    <3>3. QED  BY <3>1, <3>2 DEF Opening, OnlyTrueVerdicts
  <2>3. QED  BY <2>1, <2>2
<1>2. a \in Attempts /\ a \in 1 .. attempts'  BY <1>0, BoundsAssumption DEF Attempts
<1>3. AllOver(a)' /\ Verdict(a)' = Verdict(a)  BY <1>0, <1>1, <1>2, OverLasts
<1>4. QED  BY <1>1, <1>2, <1>3

(* The starter's own steps are startRun and what it sends. *)
LEMMA StarterMoves ==
  ASSUME IInv, Next, proc'[Starter] # proc[Starter]
  PROVE  startRun \/ send(Starter) \/ crash(Starter)
<1>1. DOMAIN proc = Processes /\ Starter \in Processes /\ Starter \notin Workers
  BY ProcessesAreTwoKinds DEF IInv, TypeOK
<1>2. ASSUME NEW w \in Workers, WorkerStep(w)  PROVE proc'[Starter] = proc[Starter]
  <2>1. \E x : proc' = [proc EXCEPT ![w] = x]
    BY <1>2 DEF WorkerStep, acquire, execute, complete, advanceAttempt
  <2>2. QED  BY <1>1, <2>1
<1>3. ASSUME NEW p \in Processes, p # Starter, send(p) \/ crash(p)  PROVE proc'[Starter] = proc[Starter]
  <2>1. \E x : proc' = [proc EXCEPT ![p] = x]  BY <1>3, Sends DEF crash
  <2>2. QED  BY <1>1, <1>3, <2>1
<1>4. QED  BY <1>2, <1>3, Writes DEF Next, reap, cancel_run, retry_run

(* An idle worker begins with a claim. *)
LEMMA Wakes ==
  ASSUME IInv, Next, NEW w \in Workers, proc[w].pc = "idle", proc'[w].pc # "idle"
  PROVE  acquire(w)
<1>1. w \in Processes /\ w # Starter /\ DOMAIN proc = Processes
  BY ProcessesAreTwoKinds DEF IInv, TypeOK
<1>2. ASSUME NEW v \in Workers, WorkerStep(v)  PROVE v = w
  <2>1. \E x : proc' = [proc EXCEPT ![v] = x]
    BY <1>2 DEF WorkerStep, acquire, execute, complete, advanceAttempt
  <2>2. QED  BY <1>1, <2>1
<1>3. ASSUME NEW q \in Processes, send(q) \/ crash(q)  PROVE FALSE
  <2>1. proc[q].pc # "idle" /\ \E x : proc' = [proc EXCEPT ![q] = x]  BY <1>3, Sends DEF crash
  <2>2. q # w  BY <2>1
  <2>3. QED  BY <1>1, <2>1, <2>2
<1>4. ~startRun
  <2>1. startRun => \E x : proc' = [proc EXCEPT ![Starter] = x]  BY DEF startRun
  <2>2. QED  BY <1>1, <2>1
<1>5. proc' # proc  OBVIOUS
<1>6. \E v \in Workers : WorkerStep(v)  BY <1>3, <1>4, <1>5, Writes DEF Next, reap, cancel_run, retry_run
<1>7. WorkerStep(w)  BY <1>2, <1>6
<1>8. QED  BY <1>7 DEF WorkerStep, execute, complete, advanceAttempt

(* An uninterrupted startRun. *)
LEMMA KeepStarted ==
  ASSUME IInv, Opening, Next
  PROVE  StartedWhole'
<1>0. /\ IInv' /\ JobsMove /\ TypeOK /\ DOMAIN proc = Processes
      /\ attempts \in Nat /\ attempts' \in Nat
  BY Step, BoundsAssumption DEF Safe, IInv, TypeOK
<1> SUFFICES ASSUME Uninterrupted
             PROVE  /\ attempts' <= 1
                    /\ \A w \in Workers : proc'[w].pc # "idle" => attempts' = 1 /\ proc'[Starter].pc = "idle"
                    /\ \A i \in Industries : attempts' = 1 =>
                         \/ Exists(<<1, "collect", i>>)'
                         \/ proc'[Starter].pc = "send" /\ CollectOf(i) \in proc'[Starter].todo
  BY DEF StartedWhole, Uninterrupted, CollectOf
<1>1. /\ attempts <= 1
      /\ \A w \in Workers : proc[w].pc # "idle" => attempts = 1 /\ proc[Starter].pc = "idle"
      /\ \A i \in Industries : attempts = 1 =>
           \/ Exists(<<1, "collect", i>>)
           \/ proc[Starter].pc = "send" /\ CollectOf(i) \in proc[Starter].todo
  BY DEF Opening, StartedWhole
<1>2. (\A p : ~crash(p)) /\ \A s \in Stages : ~retry_run(s)
  <2>1. MaxCrashes = 0 /\ "retry" \notin AdminActs /\ crashes = 0  BY DEF Uninterrupted, IInv, TypeOK
  <2>2. \A p : ~crash(p)  BY <2>1 DEF crash
  <2>3. \A s \in Stages : ~retry_run(s)  BY <2>1 DEF retry_run
  <2>4. QED  BY <2>2, <2>3
<1>3. \A i \in Industries : <<1, "collect", i>> \in Jobs
  <2>1. 1 \in Attempts /\ "collect" \in Stages /\ Keys("collect") = Industries
    BY StagesAssumption, BoundsAssumption DEF Attempts, Keys
  <2>2. QED  BY <2>1, JobsAre
<1>4. \A i \in Industries : Exists(<<1, "collect", i>>) => Exists(<<1, "collect", i>>)'
  BY <1>0, <1>3, Lasting
<1>5. /\ \A a, t, n : /\ Sending(a, t, n).pc = "send" /\ Sending(a, t, n).attempt = a
                      /\ Sending(a, t, n).todo = t
      /\ Rest.pc = "idle"
  BY DEF Sending, Rest
<1>6. CASE startRun
  <2>1. /\ attempts = 0 /\ attempts' = 1
        /\ proc' = [proc EXCEPT ![Starter] = Sending(1, EnqueueStatements("collect", Keys("collect")), 0)]
    BY <1>6 DEF startRun
  <2>2. \A w \in Workers : proc'[w].pc = "idle"  BY <1>1, <2>1, ProcessesAreTwoKinds
  <2>3. proc'[Starter].pc = "send" /\ proc'[Starter].todo = EnqueueStatements("collect", Keys("collect"))
    BY <1>0, <1>5, <2>1, ProcessesAreTwoKinds
  <2>4. \A i \in Industries : CollectOf(i) \in EnqueueStatements("collect", Keys("collect"))
    BY DEF EnqueueStatements, Keys, CollectOf
  <2>5. QED  BY <2>1, <2>2, <2>3, <2>4
<1>7. CASE ~startRun
  <2>1. attempts' = attempts
    <3>1. (\E p \in Processes : send(p)) => UNCHANGED attempts  BY Sends
    <3>2. QED  BY <1>2, <1>7, <3>1, Writes DEF Next, WorkerStep, acquire, execute, complete, advanceAttempt, reap, cancel_run
  <2>2. CASE proc'[Starter] = proc[Starter]
    <3>1. ASSUME NEW w \in Workers, proc'[w].pc # "idle", proc[w].pc = "idle"
          PROVE  attempts = 1 /\ proc[Starter].pc = "idle"
      <4>1. acquire(w)  BY <3>1, Wakes
      <4>2. proc[Starter].pc = "idle"  BY <4>1 DEF acquire, Uninterrupted
      <4>3. PICK j \in Jobs : job[j].phase = "queued"  BY <4>1 DEF acquire
      <4>4. j[1] <= attempts /\ j[1] \in 1 .. MaxRuns  BY <1>0, <4>3, JobParts DEF IInv, NothingAhead
      <4>5. QED  BY <1>0, <1>1, <4>2, <4>4, BoundsAssumption
    <3>2. QED  BY <1>1, <1>4, <2>1, <2>2, <3>1
  <2>3. CASE proc'[Starter] # proc[Starter]
    <3>1. send(Starter)  BY <1>2, <1>7, <2>3, StarterMoves
    <3>2. proc[Starter].pc = "send"  BY <3>1, Sends
    <3>3. PICK st \in proc[Starter].todo : \E n :
            /\ \A t \in proc[Starter].todo \ {st} : Turn(st) <= Turn(t)
            /\ Perform(proc[Starter].attempt, st, proc[Starter].inserted)
            /\ proc' = [proc EXCEPT ![Starter] =
                          IF proc[Starter].todo \ {st} = {} THEN Rest
                          ELSE Sending(proc[Starter].attempt, proc[Starter].todo \ {st}, n)]
      BY <3>1, Sends
    <3>4. \A w \in Workers : proc'[w] = proc[w] /\ proc[w].pc = "idle"
      BY <1>1, <3>2, <3>3, ProcessesAreTwoKinds
    <3>5. ASSUME NEW i \in Industries, attempts = 1
          PROVE  \/ Exists(<<1, "collect", i>>)'
                 \/ proc'[Starter].pc = "send" /\ CollectOf(i) \in proc'[Starter].todo
      <4>1. CASE Exists(<<1, "collect", i>>)  BY <1>4, <4>1
      <4>2. CASE CollectOf(i) \in proc[Starter].todo /\ st = CollectOf(i) /\ ~Exists(<<1, "collect", i>>)
        <5>1. proc[Starter].attempt = 1  BY <3>2, <3>5, AtWork, ProcessesAreTwoKinds
        <5>2. st.op = "insert" /\ st.stage = "collect" /\ st.key = i  BY <4>2 DEF CollectOf
        <5>3. job' = [job EXCEPT ![<<1, "collect", i>>].phase = "queued"]
          BY <3>3, <4>2, <5>1, <5>2 DEF Perform
        <5>4. job[<<1, "collect", i>>] \in Row  BY <1>0, <1>3 DEF TypeOK, Row
        <5>5. job'[<<1, "collect", i>>].phase = "queued"  BY <1>0, <1>3, <5>3, <5>4 DEF TypeOK, Row
        <5>6. QED  BY <5>5 DEF Exists
      <4>3. CASE CollectOf(i) \in proc[Starter].todo /\ st # CollectOf(i)
        <5>1. CollectOf(i) \in proc[Starter].todo \ {st}  BY <4>3
        <5>2. QED  BY <1>0, <1>5, <3>3, <5>1, ProcessesAreTwoKinds
      <4>4. QED  BY <1>1, <3>5, <4>1, <4>2, <4>3
    <3>6. QED  BY <1>1, <2>1, <3>4, <3>5
  <2>4. QED  BY <2>2, <2>3
<1>8. QED  BY <1>6, <1>7

(* Nothing changes in a stuttering step. *)
LEMMA StutterOpening ==
  ASSUME Opening, UNCHANGED vars
  PROVE  Opening'
<1>1. UNCHANGED <<run, attempts, from, job, proc>>  BY DEF vars
<1>2. \A a, s : DepsOver(a, s)' = DepsOver(a, s)
  BY <1>1 DEF DepsOver, SomeJob, JobsOf, Exists, Settled, CollectIsWhole
<1>3. \A a : AllOver(a)' = AllOver(a)  BY <1>1 DEF AllOver, Settled
<1>4. \A a : Verdict(a)' = Verdict(a)
  BY <1>1 DEF Verdict, Status, Total, Done, Failed, JobsOf, Exists
<1>5. OnlyOpen'  BY <1>1, <1>2 DEF Opening, OnlyOpen
<1>6. OpenedWell'  BY <1>1, <1>2 DEF Opening, OpenedWell, Exists
<1>7. OnlyTrueVerdicts'  BY <1>1, <1>3, <1>4 DEF Opening, OnlyTrueVerdicts, CollectIsWhole
<1>8. ClosedWell'  BY <1>1, <1>3, <1>4 DEF Opening, ClosedWell, CollectIsWhole
<1>9. StartedWhole'  BY <1>1 DEF Opening, StartedWhole, Exists, Uninterrupted
<1>10. QED  BY <1>5, <1>6, <1>7, <1>8, <1>9 DEF Opening

LEMMA OpeningInvariant == Spec => [](IInv /\ Opening)
<1>1. IInv /\ Opening /\ [Next]_vars => (IInv /\ Opening)'
  <2>1. ASSUME IInv, Opening, Next  PROVE IInv' /\ Opening'
    BY <2>1, Step, KeepOnlyOpen, KeepOpened, KeepVerdicts, KeepClosed, KeepStarted DEF Safe, Opening
  <2>2. QED  BY <2>1, Stutter, StutterOpening
<1>2. QED  BY <1>1, InitIInv, InitOpening, PTL DEF Spec

(* A stage has jobs only when every stage it depends on has run to its end, or
   the attempt was started from it: for any stages and any dependencies, however
   the reads of the counts, the inserts, crashes and retries interleave. *)
THEOREM StagesOpenInOrder == Spec => []StageOpensAfterDeps
<1>1. IInv /\ Opening => StageOpensAfterDeps
  <2> SUFFICES ASSUME IInv, Opening, NEW a \in 1 .. attempts, NEW s \in Stages,
                      Total(a, s) > 0, s # from[a], NEW d \in DependsOn[s]
               PROVE  /\ Total(a, d) > 0
                      /\ d # "collect" \/ CollectIsWhole => \A k \in Keys(d) : Settled(<<a, d, k>>)
    BY DEF StageOpensAfterDeps
  <2>1. a \in Attempts  BY BoundsAssumption DEF IInv, TypeOK, Attempts
  <2>2. d \in Stages  BY StagesAssumption
  <2>3. PICK j \in JobsOf(a, s) : Exists(j)  BY <2>1, Counting DEF SomeJob
  <2>4. DepsOver(a, s)
    <3>1. j \in Jobs /\ j[1] = a /\ j[2] = s  BY <2>1, <2>3, JobsAre
    <3>2. QED  BY <2>3, <3>1 DEF Opening, OpenedWell
  <2>5. QED  BY <2>1, <2>2, <2>4, Counting DEF DepsOver
<1>2. QED  BY <1>1, OpeningInvariant, PTL

(* A finished run has an attempt whose every job is settled, and its status is
   the verdict on those: no process that read the counts earlier, and closes
   the run later, writes one that is not true. *)
THEOREM VerdictsAreTrue == Spec => []VerdictIsTrue
<1>1. Opening => VerdictIsTrue  BY DEF Opening, ClosedWell, AllOver, VerdictIsTrue
<1>2. QED  BY <1>1, OpeningInvariant, PTL

-----------------------------------------------------------------------------
(* Scores of attempts that were retried. *)

(* Nobody comes to be at a job that is settled but by claiming it. *)
LEMMA NobodyComes ==
  ASSUME IInv, Next, NEW w \in Workers, proc'[w].pc = "handler", NEW j \in Jobs,
         proc'[w].job = j, Settled(j)
  PROVE  proc[w].pc = "handler" /\ proc[w].job = j
<1>1. DOMAIN proc = Processes /\ w \in Processes /\ w # Starter
  BY ProcessesAreTwoKinds DEF IInv, TypeOK
<1>2. /\ \A a, t, i : Sending(a, t, i).pc = "send"
      /\ Rest.pc = "idle"
  BY DEF Sending, Rest
<1>3. ~acquire(w)
  <2> SUFFICES ASSUME acquire(w) PROVE FALSE  OBVIOUS
  <2>1. PICK i \in Jobs : /\ job[i].phase = "queued"
                          /\ proc' = [proc EXCEPT ![w] = [pc |-> "handler", job |-> i, claim |-> job[i].claims + 1]]
    BY DEF acquire
  <2>2. proc'[w].job = i  BY <1>1, <2>1
  <2>3. QED  BY <2>1, <2>2 DEF Settled
<1>4. ASSUME NEW v \in Workers, WorkerStep(v)  PROVE proc'[w] = proc[w]
  <2>1. PICK x : proc' = [proc EXCEPT ![v] = x]
    BY <1>4 DEF WorkerStep, acquire, execute, complete, advanceAttempt
  <2>2. CASE v # w  BY <1>1, <2>1, <2>2
  <2>3. CASE v = w
    <3>1. ~execute(w)
      <4>1. execute(w) => proc'[w].pc = "commit"  BY <1>1 DEF execute
      <4>2. QED  BY <4>1
    <3>2. ~complete(w)
      <4>1. complete(w) => proc'[w].pc = "advance"  BY <1>1 DEF complete
      <4>2. QED  BY <4>1
    <3>3. ~advanceAttempt(w)
      <4>1. advanceAttempt(w) => proc'[w].pc \in {"idle", "send"}  BY <1>1, <1>2 DEF advanceAttempt
      <4>2. QED  BY <4>1
    <3>4. QED  BY <1>3, <1>4, <2>3, <3>1, <3>2, <3>3 DEF WorkerStep
  <2>4. QED  BY <2>2, <2>3
<1>5. ASSUME NEW q \in Processes, send(q) \/ crash(q)  PROVE proc'[w] = proc[w]
  <2>1. CASE send(q)
    <3>1. PICK st \in proc[q].todo : \E n :
            /\ \A t \in proc[q].todo \ {st} : Turn(st) <= Turn(t)
            /\ Perform(proc[q].attempt, st, proc[q].inserted)
            /\ proc' = [proc EXCEPT ![q] = IF proc[q].todo \ {st} = {} THEN Rest
                                           ELSE Sending(proc[q].attempt, proc[q].todo \ {st}, n)]
      BY <2>1, Sends
    <3>2. QED  BY <1>1, <1>2, <3>1
  <2>2. CASE crash(q)  BY <1>1, <1>2, <2>2 DEF crash
  <2>3. QED  BY <1>5, <2>1, <2>2
<1>6. startRun => proc'[w] = proc[w]  BY <1>1 DEF startRun
<1>7. proc'[w] = proc[w]
  BY <1>4, <1>5, <1>6, Writes DEF Next, reap, cancel_run, retry_run
<1>8. QED  BY <1>7

(* Once the scoring of an attempt is over it stays over: no job of it comes to
   exist that was not there, none is given back, nobody claims one. *)
LEMMA OverForGood ==
  ASSUME IInv, Next, NEW a \in Attempts, a <= attempts, ScoringOver(a)
  PROVE  ScoringOver(a)'
<1>1. TypeOK /\ JobsMove  BY Step DEF Safe, IInv
<1>2. \A j \in JobsOf(a, "score") : j \in Jobs /\ Settled(j) /\ Settled(j)'
  BY <1>1, StagesAssumption, JobsAre, Lasting DEF ScoringOver
<1>3. ASSUME NEW w \in Workers, proc'[w].pc = "handler", proc'[w].job \in JobsOf(a, "score")  PROVE FALSE
  <2>1. proc[w].pc = "handler" /\ proc[w].job = proc'[w].job  BY <1>2, <1>3, NobodyComes
  <2>2. QED  BY <1>3, <2>1 DEF ScoringOver
<1>4. QED  BY <1>2, <1>3 DEF ScoringOver, JobsOf

(* The attempt that a retry ends has no valid score after it. *)
LEMMA RetryRetires ==
  ASSUME IInv, NEW s \in Stages, retry_run(s), NEW a \in Attempts, a <= attempts, Retired(a)
  PROVE  Retired(a)'
<1>1. score' = Invalidated(attempts) /\ attempts' = attempts + 1  BY DEF retry_run
<1>2. attempts \in Nat /\ a \in Nat  BY BoundsAssumption DEF IInv, TypeOK, Attempts
<1>3. score \in [Attempts -> [Companies -> {"none", "valid", "invalid"}]]  BY DEF IInv, TypeOK
<1>4. CASE a = attempts
  <2>1. score'[a] = [c \in Companies |-> IF score[a][c] = "valid" THEN "invalid" ELSE score[a][c]]
    BY <1>1, <1>3, <1>4 DEF Invalidated
  <2>2. QED  BY <2>1 DEF Retired
<1>5. CASE a # attempts
  <2>1. score'[a] = score[a]  BY <1>1, <1>3, <1>5 DEF Invalidated
  <2>2. QED  BY <1>2, <1>5, <2>1 DEF Retired
<1>6. QED  BY <1>4, <1>5

(* For any number of attempts, workers and companies: when scoring was over
   before the retry, no step of a process that is late, or of a retry, leaves
   or makes a score of the retired attempt valid. *)
THEOREM RetirementHolds == Spec => RetiredScoresStayOut
<1>1. ASSUME IInv, Next, NEW a \in Attempts, a <= attempts, ScoringOver(a), Retired(a)
      PROVE  Retired(a)'
  <2>0. score \in [Attempts -> [Companies -> {"none", "valid", "invalid"}]]  BY <1>1 DEF IInv, TypeOK
  <2>1. CASE \E s \in Stages : retry_run(s)
    <3>1. PICK s \in Stages : retry_run(s)  BY <2>1
    <3>2. QED  BY <1>1, <3>1, RetryRetires
  <2>2. CASE Score
    <3>1. PICK w \in Workers, c \in Companies :
            /\ proc[w].pc = "handler" /\ proc[w].job[2] = "score"
            /\ score' = [score EXCEPT ![proc[w].job[1]][c] = Rescored(@)]
      BY <2>2, Writes
    <3>2. proc[w].job \in Jobs  BY <1>1, <3>1, ProcessesAreTwoKinds DEF IInv, TypeOK
    <3>3. proc[w].job[1] # a
      <4>1. proc[w].job[2] = "score" /\ proc[w].job[1] = a => proc[w].job \in JobsOf(a, "score")
        BY <3>2, StagesAssumption, JobsAre
      <4>2. QED  BY <1>1, <3>1, <4>1 DEF ScoringOver
    <3>4. score'[a] = score[a]
      <4> DEFINE b == proc[w].job[1]
      <4>1. score' = [score EXCEPT ![b] = [score[b] EXCEPT ![c] = Rescored(score[b][c])]]  BY <3>1
      <4>2. b # a  BY <3>3
      <4> HIDE DEF b
      <4>3. QED  BY <2>0, <4>1, <4>2
    <3>5. UNCHANGED attempts  BY <2>2, Writes
    <3>6. QED  BY <1>1, <3>4, <3>5 DEF Retired
  <2>3. CASE startRun
    <3>1. FALSE  BY <1>1, <2>3, BoundsAssumption DEF startRun, Attempts
    <3>2. QED  BY <3>1
  <2>4. CASE UNCHANGED <<score, attempts>>  BY <1>1, <2>4 DEF Retired
  <2>5. (\E p \in Processes : send(p)) => UNCHANGED <<score, attempts>>  BY Sends
  <2>6. QED  BY <1>1, <2>1, <2>2, <2>3, <2>4, <2>5
             DEF Next, WorkerStep, crash, acquire, execute, complete, advanceAttempt, reap, cancel_run
<1>2. ASSUME IInv, Next, NEW a \in Attempts, a <= attempts, ScoringOver(a)
      PROVE  ScoringOver(a)'
  BY <1>2, OverForGood
<1>3. IInv /\ [Next]_vars =>
        [\A a \in Attempts : a <= attempts /\ ScoringOver(a) /\ Retired(a) => ScoringOver(a)' /\ Retired(a)']_vars
  BY <1>1, <1>2
<1>4. QED  BY <1>3, Invariant, PTL DEF Spec, RetiredScoresStayOut
=============================================================================
