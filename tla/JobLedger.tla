----------------------------- MODULE JobLedger -----------------------------
(***************************************************************************)
(* What the job table promises its callers, with workers, leases, tokens   *)
(* and time left out: a job is claimed at most MaxAttempts times, only     *)
(* from the waiting state; each claim is settled at most once; a settled   *)
(* job stays settled.  JobQueue (the RPCs and the worker loop) and         *)
(* RunPipeline (the orchestrator) are both shown to implement it.          *)
(***************************************************************************)
EXTENDS Naturals

CONSTANTS Jobs,        \* the jobs there can be
          MaxAttempts  \* jobs.max_attempts

VARIABLES phase,   \* phase[j]: what the row of j says
          claims   \* claims[j]: how often j has been handed to a worker

vars == <<phase, claims>>

Phase == {"absent", "queued", "running", "succeeded", "dead"}

Init ==
  /\ phase = [j \in Jobs |-> "absent"]
  /\ claims = [j \in Jobs |-> 0]

(* Steps act on sets of jobs: the reaper and a cancellation settle several
   rows in one statement. *)
Move(S, from, to) ==
  /\ \A j \in S : phase[j] = from
  /\ phase' = [j \in Jobs |-> IF j \in S THEN to ELSE phase[j]]

Submit == \E S \in SUBSET Jobs :
  /\ Move(S, "absent", "queued")
  /\ UNCHANGED claims

Claim == \E j \in Jobs :
  /\ claims[j] < MaxAttempts
  /\ Move({j}, "queued", "running")
  /\ claims' = [claims EXCEPT ![j] = @ + 1]

Succeed == \E j \in Jobs :
  /\ Move({j}, "running", "succeeded")
  /\ UNCHANGED claims

(* A failed or expired claim: back to the queue while attempts are left,
   dead once they are used up. *)
Release == \E S \in SUBSET Jobs :
  /\ \A j \in S : phase[j] = "running"
  /\ phase' = [j \in Jobs |->
                 IF j \notin S THEN phase[j]
                 ELSE IF claims[j] < MaxAttempts THEN "queued" ELSE "dead"]
  /\ UNCHANGED claims

(* A cancelled run takes its waiting jobs with it. *)
Withdraw == \E S \in SUBSET Jobs :
  /\ Move(S, "queued", "dead")
  /\ UNCHANGED claims

Next == Submit \/ Claim \/ Succeed \/ Release \/ Withdraw

Spec == Init /\ [][Next]_vars
=============================================================================
