------------------------------ MODULE Schedule ------------------------------
(***************************************************************************)
(* How a run comes to be: pg_cron calls the API on the evenings (UTC) whose *)
(* next Korean day is a weekday (deploy/pg_cron_schedule.sql), the database *)
(* decides whether to start (should_start_scheduled_run), and startRun      *)
(* (packages/pipeline/src/orchestrator.ts) makes sure of the partitions,    *)
(* asks for the capacity, inserts the run and enqueues its first jobs, each *)
(* in a transaction of its own.  Administrators start runs at any time.     *)
(* A nightly job drops old partitions and frees space.                      *)
(*                                                                         *)
(* Days are numbers, a month is MonthLength days.  A moment is half a UTC   *)
(* day: in the second half, from 15:00 on, it is the next day in Korea.     *)
(* The four observation tables are partitioned alike; Tables are those of   *)
(* which one partition may be locked while another is not.                  *)
(***************************************************************************)
EXTENDS Naturals, Sequences, FiniteSets

CONSTANTS
  Requests,     \* calls of the API that are under way
  Tables,       \* observation tables partitioned by run_date
  MonthLength,  \* days of a month
  Retention,    \* 365 days
  Percents,     \* how full the database may be
  FirstMoment,  \* bound: where behaviours begin
  LastMoment,   \* bound: where they end
  MaxRuns,      \* bound: runs created
  MaxEvents     \* bound: calls lost or repeated, processes killed, partitions
                \* locked, changes of the setting or of the size

ASSUME CalendarAssumption ==
  /\ MonthLength \in Nat \ {0}
  /\ Retention \in Nat
  /\ FirstMoment \in Nat
  /\ LastMoment \in Nat
  /\ FirstMoment <= LastMoment
ASSUME TablesAssumption == IsFiniteSet(Tables)

VARIABLES
  now,         \* the moment
  fired,       \* pg_cron has called in this moment
  swept,       \* the nightly job has run in this moment
  pct,         \* pg_database_size in per cent of the limit
  enabled,     \* settings.schedule.enabled
  partitions,  \* partitions[t]: months for which table t has a partition
  runs,        \* rows of runs, in the order they were inserted
  request,     \* request[q]: where a call of startRun stands
  events,      \* how many events there were
  causes       \* causes[d]: why Korean day d may have no scheduled run

vars == <<now, fired, swept, pct, enabled, partitions, runs, request, events, causes>>

-----------------------------------------------------------------------------
(* The calendar. *)
UtcDate(m) == m \div 2

KstDate(m) == (m + 1) \div 2

Night(m) == m % 2 = 1

(* extract(isodow): 6 and 7 are the weekend; day 1 is a Monday. *)
IsoDow(d) == ((d + 6) % 7) + 1

Weekday(d) == IsoDow(d) <= 5

Month(d) == d \div MonthLength

(* The first day after a month. *)
Upper(month) == (month + 1) * MonthLength

Days == 0 .. KstDate(LastMoment)

(* The levels of db_capacity. *)
db_capacity(p) ==
  CASE p >= 90 -> "block"
    [] p >= 85 /\ p < 90 -> "cleanup"
    [] p >= 70 /\ p < 85 -> "warn"
    [] OTHER -> "ok"

Blocked == db_capacity(pct) = "block"

(* at: what the call does next; old: it was made in the moment before. *)
Idle == [at |-> "idle", trigger |-> "manual", date |-> 0, run |-> 0, old |-> FALSE]

Calls == [ at      : {"idle", "decide", "maintain", "assert", "insert", "enqueue"},
           trigger : {"cron", "manual"},
           date    : Nat,
           run     : Nat,
           old     : BOOLEAN ]

RunRow == [date : Nat, trigger : {"cron", "manual"}, jobs : BOOLEAN]

TypeOK ==
  /\ now \in FirstMoment .. LastMoment
  /\ fired \in BOOLEAN
  /\ swept \in BOOLEAN
  /\ pct \in Percents
  /\ enabled \in BOOLEAN
  /\ partitions \in [Tables -> SUBSET Nat]
  /\ runs \in Seq(RunRow)
  /\ request \in [Requests -> Calls]
  /\ events \in Nat
  /\ causes \in [Days -> SUBSET {"lost", "disabled", "blocked"}]

Init ==
  /\ now = FirstMoment
  /\ fired = FALSE
  /\ swept = FALSE
  /\ pct \in Percents
  /\ enabled \in BOOLEAN
  /\ partitions = [t \in Tables |-> {Month(UtcDate(FirstMoment))}]
  /\ runs = <<>>
  /\ request = [q \in Requests |-> Idle]
  /\ events = 0
  /\ causes = [d \in Days |-> {}]

At(q, place) == request[q].at = place

Goes(q, place) == request' = [request EXCEPT ![q].at = place]

Ends(q) == request' = [request EXCEPT ![q] = Idle]

Because(d, why) == causes' = [causes EXCEPT ![d] = @ \cup {why}]

(* What a scheduled call could not do, its day is left without. *)
EndsBecause(q, why) ==
  /\ Ends(q)
  /\ IF request[q].trigger = "cron" THEN Because(request[q].date, why) ELSE UNCHANGED causes

Event == events < MaxEvents /\ events' = events + 1

world == <<now, fired, swept, pct, enabled>>

-----------------------------------------------------------------------------
(* Calls.  pg_cron calls once, at 21:00 UTC from Sunday to Thursday; the call
   may not get through, and nobody repeats it but an operator by hand. *)
TriggerDue == Night(now) /\ Weekday(KstDate(now)) /\ ~fired

private_trigger_run(q) ==
  /\ TriggerDue
  /\ At(q, "idle")
  /\ fired' = TRUE
  /\ request' = [request EXCEPT ![q].at = "decide", ![q].trigger = "cron"]
  /\ UNCHANGED <<now, swept, pct, enabled, partitions, runs, events, causes>>

trigger_lost ==
  /\ TriggerDue
  /\ Event
  /\ fired' = TRUE
  /\ Because(KstDate(now), "lost")
  /\ UNCHANGED <<now, swept, pct, enabled, partitions, runs, request>>

call_by_hand(q) ==
  /\ At(q, "idle")
  /\ Event
  /\ request' = [request EXCEPT ![q].at = "decide", ![q].trigger = "cron"]
  /\ UNCHANGED <<world, partitions, runs, causes>>

(* POST /api/runs. *)
start_manually(q) ==
  /\ At(q, "idle")
  /\ Len(runs) < MaxRuns
  /\ request' = [request EXCEPT ![q].at = "maintain", ![q].trigger = "manual"]
  /\ UNCHANGED <<world, partitions, runs, events, causes>>

(* should_start_scheduled_run, and what /internal/run makes of it. *)
Today == KstDate(now)

(* A faulty variant: a manual run counts as the day's run, too. *)
RanOnAnyRun(d) == \E i \in DOMAIN runs : runs[i].date = d

RanOn(d) == \E i \in DOMAIN runs : runs[i].date = d /\ runs[i].trigger = "cron"

decide(q) ==
  /\ At(q, "decide")
  /\ IF enabled /\ Weekday(Today) /\ ~RanOn(Today) /\ ~Blocked
     THEN /\ request' = [request EXCEPT ![q].at = "maintain", ![q].date = Today]
          /\ UNCHANGED causes
     ELSE /\ Ends(q)
          /\ causes' = [causes EXCEPT ![Today] = @ \cup (IF enabled THEN {} ELSE {"disabled"})
                                                   \cup (IF Blocked THEN {"blocked"} ELSE {})]
  /\ UNCHANGED <<world, partitions, runs, events>>

-----------------------------------------------------------------------------
(* startRun. *)

(* A faulty variant: partitions for the months it is now. *)
AheadNone(d) == {Month(d)}

Ahead(d) == Month(d) .. Month(d) + 2

(* Partitions whose last day is further back than the retention. *)
Expired(months, d) == {m \in months : Upper(m) + Retention <= d}

(* maintain_observation_partitions, one transaction.  A partition that cannot
   be dropped is left for the next time. *)
maintain_observation_partitions(locked) ==
  partitions' = [t \in Tables |->
    LET old == Expired(partitions[t], UtcDate(now))
    IN  (partitions[t] \ (old \ (IF t \in locked THEN old ELSE {}))) \cup Ahead(UtcDate(now))]

Locks(locked) == events + Cardinality(locked) <= MaxEvents /\ events' = events + Cardinality(locked)

maintain(q) ==
  /\ At(q, "maintain")
  /\ \E locked \in SUBSET Tables :
       /\ Locks(locked)
       /\ maintain_observation_partitions(locked)
  /\ Goes(q, "assert")
  /\ UNCHANGED <<world, runs, causes>>

assert_capacity_for_run(q) ==
  /\ At(q, "assert")
  /\ IF Blocked THEN EndsBecause(q, "blocked")
                ELSE Goes(q, "insert") /\ UNCHANGED causes
  /\ UNCHANGED <<world, partitions, runs, events>>

(* The run, its attempt and its stages in one transaction; a run no one gave
   a date has today's, by UTC.  runs_one_cron_per_day refuses a second. *)
insert_run(q) ==
  LET date == IF request[q].trigger = "cron" THEN request[q].date ELSE UtcDate(now)
      row  == [date |-> date, trigger |-> request[q].trigger, jobs |-> FALSE]
  IN  /\ At(q, "insert")
      /\ Len(runs) < MaxRuns
      /\ IF row.trigger = "cron" /\ RanOn(date)
         THEN Ends(q) /\ UNCHANGED runs
         ELSE /\ runs' = Append(runs, row)
              /\ request' = [request EXCEPT ![q].at = "enqueue", ![q].run = Len(runs) + 1]
      /\ UNCHANGED <<world, partitions, events, causes>>

(* The collect jobs are inserted one by one, and counted in `jobs` when the last
   of them is in: what a loss on the way leaves is no run with its jobs. *)
enqueue_collect(q) ==
  /\ At(q, "enqueue")
  /\ runs' = [runs EXCEPT ![request[q].run].jobs = TRUE]
  /\ Ends(q)
  /\ UNCHANGED <<world, partitions, events, causes>>

(* A statement fails, or the API process dies; nobody takes up what it left. *)
request_lost(q) ==
  /\ ~At(q, "idle")
  /\ Event
  /\ IF At(q, "decide") THEN Ends(q) /\ Because(Today, "lost") ELSE EndsBecause(q, "lost")
  /\ UNCHANGED <<world, partitions, runs>>

-----------------------------------------------------------------------------
(* cleanup_by_capacity, every night at 19:00 UTC; under pressure it deletes
   what is younger, too, so that the database may shrink. *)
cleanup_by_capacity ==
  /\ Night(now)
  /\ ~swept
  /\ swept' = TRUE
  /\ \E locked \in SUBSET Tables : Locks(locked) /\ maintain_observation_partitions(locked)
  /\ pct' \in {p \in Percents : p = pct \/ (p < pct /\ db_capacity(pct) \in {"cleanup", "block"})}
  /\ UNCHANGED <<now, fired, enabled, runs, request, causes>>

(* Observations fill the database, administrators change the setting. *)
fill ==
  /\ Event
  /\ pct' \in {p \in Percents : p > pct}
  /\ UNCHANGED <<now, fired, swept, enabled, partitions, runs, request, causes>>

set_schedule ==
  /\ Event
  /\ enabled' = ~enabled
  /\ UNCHANGED <<now, fired, swept, pct, partitions, runs, request, causes>>

(* A call is decided in the moment it is made in; what follows may take it
   into the next, but not through a whole one. *)
tick ==
  /\ now < LastMoment
  /\ ~TriggerDue
  /\ \A q \in Requests : ~At(q, "decide") /\ ~request[q].old
  /\ request' = [q \in Requests |-> [request[q] EXCEPT !.old = request[q].at # "idle"]]
  /\ now' = now + 1
  /\ fired' = FALSE
  /\ swept' = FALSE
  /\ UNCHANGED <<pct, enabled, partitions, runs, events, causes>>

startRun(q) == maintain(q) \/ assert_capacity_for_run(q) \/ insert_run(q) \/ enqueue_collect(q)

Next ==
  \/ trigger_lost
  \/ \E q \in Requests :
       \/ private_trigger_run(q) \/ call_by_hand(q) \/ start_manually(q)
       \/ decide(q) \/ startRun(q) \/ request_lost(q)
  \/ cleanup_by_capacity \/ fill \/ set_schedule \/ tick

Spec == Init /\ [][Next]_vars

-----------------------------------------------------------------------------
(* Properties. *)

(* While a run is younger than the retention, every table has the partition of
   its date, although Korea's month begins before UTC's, others maintain the
   partitions meanwhile, and midnight may come between the decision, the
   partitions and the run. *)
RunsHavePartitions ==
  \A i \in DOMAIN runs :
    \/ \A t \in Tables : Month(runs[i].date) \in partitions[t]
    \/ runs[i].date + Retention < UtcDate(now)

(* Scheduled runs are on weekdays of Korea, one a day however many calls race;
   and a weekday whose morning is over has its run, with jobs, unless a call or
   a process was lost, the schedule was off or the database full.  In
   particular, manual runs never take a scheduled run's place. *)
EachWeekdayHasItsRun ==
  /\ \A i, j \in DOMAIN runs : (runs[i].trigger = "cron" /\ runs[j].trigger = "cron") =>
       /\ Weekday(runs[i].date)
       /\ runs[i].date = runs[j].date => i = j
  /\ \A d \in KstDate(FirstMoment) .. UtcDate(now) :
       (/\ Weekday(d)
        /\ 2 * d - 1 >= FirstMoment
        /\ now > 2 * d - 1
        /\ \A q \in Requests : request[q].date # d)
         => \/ causes[d] # {}
            \/ \E i \in DOMAIN runs : runs[i].trigger = "cron" /\ runs[i].date = d /\ runs[i].jobs
=============================================================================
