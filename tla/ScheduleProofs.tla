--------------------------- MODULE ScheduleProofs ---------------------------
(***************************************************************************)
(* Proofs about partitions and the runs that need them, for any calendar,  *)
(* retention, number of calls and tables.                                  *)
(***************************************************************************)
EXTENDS Schedule, FiniteSetTheorems, SequenceTheorems, TLAPS

(* A call is decided in its own moment and goes at most into the next, so its
   day is today's, and what it prepared is enough for today. *)
Undecided(r) == r.at \in {"idle", "decide"} => ~r.old

OnItsDay(r) ==
  r.at \in {"maintain", "assert", "insert"} /\ r.trigger = "cron" =>
    r.date = IF r.old THEN UtcDate(now) ELSE KstDate(now)

Prepared(r) ==
  r.at \in {"assert", "insert"} => \A t \in Tables :
    /\ Month(UtcDate(now)) \in partitions[t]
    /\ ~r.old => Month(UtcDate(now)) + 1 \in partitions[t]

HasItsRun(r) == r.at = "enqueue" => r.run \in DOMAIN runs

Fits(r) == Undecided(r) /\ OnItsDay(r) /\ Prepared(r) /\ HasItsRun(r)

CallsFit == \A q \in Requests : Fits(request[q])

IInv == TypeOK /\ CallsFit /\ RunsHavePartitions

-----------------------------------------------------------------------------
(* The calendar: days and months go on one at a time. *)
LEMMA MonthBounds ==
  ASSUME NEW d \in Nat
  PROVE  /\ Month(d) \in Nat
         /\ MonthLength * Month(d) <= d
         /\ d < MonthLength * Month(d) + MonthLength
BY CalendarAssumption DEF Month

(* A day later it is the same month or the next. *)
LEMMA NextMonth ==
  ASSUME NEW d \in Nat
  PROVE  Month(d + 1) \in {Month(d), Month(d) + 1}
<1>1. PICK m : m = Month(d)  OBVIOUS
<1>2. PICK n : n = Month(d + 1)  OBVIOUS
<1>3. m \in Nat /\ MonthLength * m <= d /\ d < MonthLength * m + MonthLength  BY <1>1, MonthBounds
<1>4. n \in Nat /\ MonthLength * n <= d + 1 /\ d + 1 < MonthLength * n + MonthLength
  <2>1. d + 1 \in Nat  OBVIOUS
  <2>2. QED  BY <1>2, <2>1, MonthBounds
<1>5. MonthLength \in Nat /\ MonthLength > 0  BY CalendarAssumption
<1>6. m <= n
  <2> SUFFICES ASSUME n + 1 <= m PROVE FALSE  BY <1>3, <1>4
  <2>1. MonthLength * (n + 1) <= MonthLength * m  BY <1>3, <1>4, <1>5
  <2>2. MonthLength * (n + 1) = MonthLength * n + MonthLength  BY <1>4, <1>5
  <2>3. QED  BY <1>3, <1>4, <1>5, <2>1, <2>2
<1>7. n <= m + 1
  <2> SUFFICES ASSUME m + 2 <= n PROVE FALSE  BY <1>3, <1>4
  <2>1. MonthLength * (m + 2) <= MonthLength * n  BY <1>3, <1>4, <1>5
  <2>2. MonthLength * (m + 2) = MonthLength * m + MonthLength + MonthLength  BY <1>3, <1>5
  <2>3. QED  BY <1>3, <1>4, <1>5, <2>1, <2>2
<1>8. QED  BY <1>1, <1>2, <1>3, <1>4, <1>6, <1>7

(* A day lies before the end of its month. *)
LEMMA MonthsEnd ==
  ASSUME NEW d \in Nat
  PROVE  Upper(Month(d)) \in Nat /\ d < Upper(Month(d))
<1>1. PICK m : m = Month(d)  OBVIOUS
<1>2. m \in Nat /\ d < MonthLength * m + MonthLength  BY <1>1, MonthBounds
<1>3. MonthLength \in Nat  BY CalendarAssumption
<1>4. (m + 1) * MonthLength = MonthLength * m + MonthLength  BY <1>2, <1>3
<1>5. QED  BY <1>1, <1>2, <1>3, <1>4 DEF Upper

(* Korea's day is UTC's or the one after, and UTC's in the next half day. *)
LEMMA Dates ==
  ASSUME NEW n \in Nat
  PROVE  /\ UtcDate(n) \in Nat /\ KstDate(n) \in {UtcDate(n), UtcDate(n) + 1}
         /\ UtcDate(n + 1) = KstDate(n)
BY DEF UtcDate, KstDate

(* Moments are numbers. *)
LEMMA NowIsNat == ASSUME TypeOK PROVE now \in Nat
BY CalendarAssumption DEF TypeOK

(* The rows and their dates. *)
LEMMA RunsTyped ==
  ASSUME TypeOK
  PROVE  /\ runs \in Seq(RunRow) /\ Len(runs) \in Nat /\ DOMAIN runs = 1 .. Len(runs)
         /\ \A i \in DOMAIN runs : runs[i] \in RunRow /\ runs[i].date \in Nat
<1>1. runs \in Seq(RunRow)  BY DEF TypeOK
<1>2. Len(runs) \in Nat /\ DOMAIN runs = 1 .. Len(runs)  BY <1>1, LenProperties
<1>3. \A i \in 1 .. Len(runs) : runs[i] \in RunRow  BY <1>1, ElementOfSeq
<1>4. \A i \in DOMAIN runs : runs[i].date \in Nat  BY <1>2, <1>3 DEF RunRow
<1>5. QED  BY <1>1, <1>2, <1>3, <1>4

-----------------------------------------------------------------------------
(* Before the first call nothing has to fit. *)
LEMMA InitIInv == Init => IInv
<1> SUFFICES ASSUME Init PROVE IInv  OBVIOUS
<1>1. FirstMoment \in FirstMoment .. LastMoment /\ FirstMoment \in Nat  BY CalendarAssumption
<1>2. TypeOK
  <2>1. Idle \in Calls  BY DEF Idle, Calls
  <2>2. Month(UtcDate(FirstMoment)) \in Nat  BY <1>1, Dates, MonthBounds
  <2>3. runs \in Seq(RunRow)  BY EmptySeq DEF Init
  <2>4. partitions \in [Tables -> SUBSET Nat] /\ request \in [Requests -> Calls]
        /\ causes \in [Days -> SUBSET {"lost", "disabled", "blocked"}]
    BY <2>1, <2>2 DEF Init
  <2>5. QED  BY <1>1, <2>3, <2>4 DEF Init, TypeOK
<1>3. CallsFit  BY DEF Init, CallsFit, Fits, Undecided, OnItsDay, Prepared, HasItsRun, Idle
<1>4. RunsHavePartitions  BY DEF Init, RunsHavePartitions
<1>5. QED  BY <1>2, <1>3, <1>4 DEF IInv

-----------------------------------------------------------------------------
(* In one moment: whoever makes no step still fits while today's partitions
   stay, and new rows come behind the old ones. *)
LEMMA MomentGoesOn ==
  ASSUME IInv, TypeOK', UNCHANGED now, DOMAIN runs \subseteq DOMAIN runs',
         \A t \in Tables, m \in {Month(UtcDate(now)), Month(UtcDate(now)) + 1} :
           m \in partitions[t] => m \in partitions'[t],
         \A p \in Requests : request'[p] = request[p] \/ Fits(request[p])',
         RunsHavePartitions'
  PROVE  IInv'
<1>1. ASSUME NEW r, Fits(r) PROVE Fits(r)'
  <2>1. Undecided(r)'  BY <1>1 DEF Fits, Undecided
  <2>2. OnItsDay(r)'  BY <1>1 DEF Fits, OnItsDay
  <2>3. Prepared(r)'  BY <1>1 DEF Fits, Prepared
  <2>4. HasItsRun(r)'  BY <1>1 DEF Fits, HasItsRun
  <2>5. QED  BY <2>1, <2>2, <2>3, <2>4 DEF Fits
<1>2. ASSUME NEW p \in Requests  PROVE Fits(request[p])'
  <2>1. CASE Fits(request[p])'  BY <2>1
  <2>2. CASE request'[p] = request[p]
    <3>1. PICK r : r = request[p]  OBVIOUS
    <3>2. Fits(r)  BY <3>1 DEF IInv, CallsFit
    <3>3. Fits(r)'  BY <3>2, <1>1
    <3>4. r = request'[p]  BY <2>2, <3>1
    <3>5. QED  BY <3>3, <3>4
  <2>3. QED  BY <2>1, <2>2
<1>3. QED  BY <1>2 DEF IInv, CallsFit

(* Rows that keep their dates keep their partitions while nobody maintains them. *)
LEMMA RunsStay ==
  ASSUME RunsHavePartitions, UNCHANGED <<now, partitions>>,
         \A i \in DOMAIN runs' : i \in DOMAIN runs /\ runs'[i].date = runs[i].date
  PROVE  RunsHavePartitions'
BY DEF RunsHavePartitions

(* One call moves, and nothing but the notes about it. *)
LEMMA CallMoves ==
  ASSUME IInv, NEW q \in Requests, NEW r \in Calls, request' = [request EXCEPT ![q] = r],
         UNCHANGED <<now, pct, enabled, partitions, runs>>, fired' \in BOOLEAN, swept' \in BOOLEAN,
         events' \in Nat, causes' \in [Days -> SUBSET {"lost", "disabled", "blocked"}],
         Fits(r)
  PROVE  IInv'
<1>1. request' \in [Requests -> Calls] /\ request'[q] = r /\ \A p \in Requests \ {q} : request'[p] = request[p]
  BY DEF IInv, TypeOK
<1>2. TypeOK'  BY <1>1 DEF IInv, TypeOK
<1>3. RunsHavePartitions'  BY RunsStay DEF IInv
<1>4. Fits(r)'
  <2>1. Undecided(r)'  BY DEF Fits, Undecided
  <2>2. OnItsDay(r)'  BY DEF Fits, OnItsDay
  <2>3. Prepared(r)'  BY DEF Fits, Prepared
  <2>4. HasItsRun(r)'  BY DEF Fits, HasItsRun
  <2>5. QED  BY <2>1, <2>2, <2>3, <2>4 DEF Fits
<1>5. \A p \in Requests : request'[p] = request[p] \/ Fits(request[p])'  BY <1>1, <1>4
<1>6. QED  BY <1>2, <1>3, <1>5, MomentGoesOn

(* A call that ends, for whatever reason. *)
LEMMA CallEnds ==
  ASSUME IInv, NEW q \in Requests, Ends(q),
         UNCHANGED <<now, fired, swept, pct, enabled, partitions, runs>>,
         events' \in Nat, causes' \in [Days -> SUBSET {"lost", "disabled", "blocked"}]
  PROVE  IInv'
<1>1. Idle \in Calls /\ Fits(Idle)  BY DEF Idle, Calls, Fits, Undecided, OnItsDay, Prepared, HasItsRun
<1>2. request' = [request EXCEPT ![q] = Idle]  BY DEF Ends
<1>3. fired' \in BOOLEAN /\ swept' \in BOOLEAN  BY DEF IInv, TypeOK
<1>4. QED  BY <1>1, <1>2, <1>3, CallMoves

(* Notes are about days and of three kinds. *)
LEMMA Notes ==
  ASSUME TypeOK, NEW d, NEW S \in SUBSET {"lost", "disabled", "blocked"}
  PROVE  [causes EXCEPT ![d] = @ \cup S] \in [Days -> SUBSET {"lost", "disabled", "blocked"}]
BY DEF TypeOK

(* One note more. *)
LEMMA Noted ==
  ASSUME TypeOK, NEW d, NEW why \in {"lost", "disabled", "blocked"}, Because(d, why)
  PROVE  causes' \in [Days -> SUBSET {"lost", "disabled", "blocked"}]
BY Notes DEF Because

(* What must hold of a call at each place. *)
LEMMA FitsAt ==
  ASSUME NEW r, r.at = "maintain" => (r.trigger = "cron" => r.date = IF r.old THEN UtcDate(now) ELSE KstDate(now)),
         r.at = "decide" => ~r.old, r.at \in {"decide", "maintain"}
  PROVE  Fits(r)
BY DEF Fits, Undecided, OnItsDay, Prepared, HasItsRun

-----------------------------------------------------------------------------
(* Calls come and are decided. *)
LEMMA StepTrigger ==
  ASSUME IInv, NEW q \in Requests, private_trigger_run(q) \/ call_by_hand(q)
  PROVE  IInv'
<1> DEFINE r == [request[q] EXCEPT !.at = "decide", !.trigger = "cron"]
<1>1. request[q] \in Calls /\ request[q].at = "idle" /\ ~request[q].old
  BY DEF IInv, TypeOK, CallsFit, Fits, Undecided, private_trigger_run, call_by_hand, At
<1>2. r \in Calls /\ r.at = "decide" /\ r.old = request[q].old  BY <1>1 DEF Calls
<1>3. request' = [request EXCEPT ![q] = r]
  BY DEF private_trigger_run, call_by_hand, IInv, TypeOK
<1>4. /\ UNCHANGED <<now, pct, enabled, partitions, runs, causes>>
      /\ fired' \in BOOLEAN /\ swept' \in BOOLEAN /\ events' \in Nat
  <2>1. CASE private_trigger_run(q)  BY <2>1 DEF private_trigger_run, IInv, TypeOK
  <2>2. CASE call_by_hand(q)
    <3>1. UNCHANGED <<now, fired, swept, pct, enabled, partitions, runs, causes>>
      BY <2>2 DEF call_by_hand, world
    <3>2. events' = events + 1  BY <2>2 DEF call_by_hand, Event
    <3>3. QED  BY <3>1, <3>2 DEF IInv, TypeOK
  <2>3. QED  BY <2>1, <2>2
<1>5. causes' \in [Days -> SUBSET {"lost", "disabled", "blocked"}]  BY <1>4 DEF IInv, TypeOK
<1> HIDE DEF r
<1>6. Fits(r)  BY <1>1, <1>2, FitsAt
<1>7. QED  BY <1>2, <1>3, <1>4, <1>5, <1>6, CallMoves

(* A manual call has no day yet. *)
LEMMA StepManual ==
  ASSUME IInv, NEW q \in Requests, start_manually(q)
  PROVE  IInv'
<1> DEFINE r == [request[q] EXCEPT !.at = "maintain", !.trigger = "manual"]
<1>1. request[q] \in Calls  BY DEF IInv, TypeOK
<1>2. r \in Calls /\ r.at = "maintain" /\ r.trigger = "manual"  BY <1>1 DEF Calls
<1>3. request' = [request EXCEPT ![q] = r]  BY DEF start_manually, IInv, TypeOK
<1>4. UNCHANGED <<now, fired, swept, pct, enabled, partitions, runs, events, causes>>
  BY DEF start_manually, world
<1>5. /\ fired' \in BOOLEAN /\ swept' \in BOOLEAN /\ events' \in Nat
      /\ causes' \in [Days -> SUBSET {"lost", "disabled", "blocked"}]
  BY <1>4 DEF IInv, TypeOK
<1> HIDE DEF r
<1>6. Fits(r)  BY <1>2, FitsAt
<1>7. QED  BY <1>2, <1>3, <1>4, <1>5, <1>6, CallMoves

(* A decided call is for Korea's today. *)
LEMMA StepDecide ==
  ASSUME IInv, NEW q \in Requests, decide(q)
  PROVE  IInv'
<1>1. /\ UNCHANGED <<now, fired, swept, pct, enabled, partitions, runs, events>>
      /\ At(q, "decide") /\ request[q] \in Calls
  BY DEF decide, world, IInv, TypeOK
<1>2. fired' \in BOOLEAN /\ swept' \in BOOLEAN /\ events' \in Nat  BY <1>1 DEF IInv, TypeOK
<1>3. CASE request' = [request EXCEPT ![q].at = "maintain", ![q].date = Today] /\ UNCHANGED causes
  <2> DEFINE r == [request[q] EXCEPT !.at = "maintain", !.date = Today]
  <2>1. Today \in Nat  BY NowIsNat, Dates DEF Today, IInv
  <2>2. r \in Calls /\ r.at = "maintain" /\ r.date = Today /\ r.old = request[q].old
    BY <1>1, <2>1 DEF Calls
  <2>3. request' = [request EXCEPT ![q] = r]  BY <1>3 DEF IInv, TypeOK
  <2>4. ~request[q].old  BY <1>1 DEF IInv, CallsFit, Fits, Undecided, At
  <2>5. causes' \in [Days -> SUBSET {"lost", "disabled", "blocked"}]  BY <1>3 DEF IInv, TypeOK
  <2> HIDE DEF r
  <2>6. Fits(r)  BY <2>2, <2>4, FitsAt DEF Today
  <2>7. QED  BY <1>1, <1>2, <2>2, <2>3, <2>5, <2>6, CallMoves
<1>4. CASE Ends(q) /\ causes' = [causes EXCEPT ![Today] = @ \cup (IF enabled THEN {} ELSE {"disabled"})
                                                          \cup (IF Blocked THEN {"blocked"} ELSE {})]
  <2> DEFINE S == (IF enabled THEN {} ELSE {"disabled"}) \cup (IF Blocked THEN {"blocked"} ELSE {})
  <2>1. causes' = [causes EXCEPT ![Today] = @ \cup S]  BY <1>4
  <2>2. S \in SUBSET {"lost", "disabled", "blocked"}  OBVIOUS
  <2> HIDE DEF S
  <2>3. causes' \in [Days -> SUBSET {"lost", "disabled", "blocked"}]  BY <2>1, <2>2, Notes DEF IInv
  <2>4. QED  BY <1>1, <1>2, <1>4, <2>3, CallEnds
<1>5. QED  BY <1>3, <1>4 DEF decide

-----------------------------------------------------------------------------
(* What maintenance drops no run needs, and what today needs is there after it. *)
LEMMA Maintained ==
  ASSUME IInv, NEW locked \in SUBSET Tables, maintain_observation_partitions(locked)
  PROVE  /\ partitions' \in [Tables -> SUBSET Nat]
         /\ \A t \in Tables : /\ Month(UtcDate(now)) \in partitions'[t]
                              /\ Month(UtcDate(now)) + 1 \in partitions'[t]
         /\ \A t \in Tables : \A m \in partitions[t] :
              m \in partitions'[t] \/ Upper(m) + Retention <= UtcDate(now)
<1> DEFINE U == UtcDate(now)
<1>1. U \in Nat /\ Month(U) \in Nat  BY NowIsNat, Dates, MonthBounds DEF IInv
<1>2. Ahead(U) \subseteq Nat /\ Month(U) \in Ahead(U) /\ Month(U) + 1 \in Ahead(U)  BY <1>1 DEF Ahead
<1>3. \A t \in Tables : /\ partitions'[t] \subseteq partitions[t] \cup Ahead(U)
                        /\ Ahead(U) \subseteq partitions'[t]
                        /\ partitions[t] \ Expired(partitions[t], U) \subseteq partitions'[t]
  BY DEF maintain_observation_partitions
<1>4. partitions \in [Tables -> SUBSET Nat]  BY DEF IInv, TypeOK
<1>5. partitions' \in [Tables -> SUBSET Nat]
  <2>1. \A t \in Tables : partitions'[t] \in SUBSET Nat  BY <1>2, <1>3, <1>4
  <2>2. QED  BY <2>1 DEF maintain_observation_partitions
<1>6. \A t \in Tables : \A m \in partitions[t] : m \in partitions'[t] \/ Upper(m) + Retention <= U
  BY <1>3 DEF Expired
<1>7. QED  BY <1>2, <1>3, <1>5, <1>6

(* No run younger than the retention loses its partition. *)
LEMMA MaintainedRuns ==
  ASSUME IInv, NEW locked \in SUBSET Tables, maintain_observation_partitions(locked), UNCHANGED <<now, runs>>
  PROVE  RunsHavePartitions'
<1> SUFFICES ASSUME NEW i \in DOMAIN runs
             PROVE  \/ \A t \in Tables : Month(runs[i].date) \in partitions'[t]
                    \/ runs[i].date + Retention < UtcDate(now)
  BY DEF RunsHavePartitions
<1>1. runs[i].date \in Nat  BY RunsTyped DEF IInv
<1>2. CASE runs[i].date + Retention < UtcDate(now)  BY <1>2
<1>3. CASE \A t \in Tables : Month(runs[i].date) \in partitions[t]
  <2> SUFFICES ASSUME NEW t \in Tables, Month(runs[i].date) \notin partitions'[t]
               PROVE  runs[i].date + Retention < UtcDate(now)
    OBVIOUS
  <2>1. Upper(Month(runs[i].date)) + Retention <= UtcDate(now)  BY <1>3, Maintained
  <2>2. UtcDate(now) \in Nat  BY NowIsNat, Dates DEF IInv
  <2>3. QED  BY <1>1, <2>1, <2>2, MonthsEnd, CalendarAssumption
<1>4. QED  BY <1>2, <1>3 DEF IInv, RunsHavePartitions

(* Locked partitions are finitely many. *)
LEMMA LocksTyped ==
  ASSUME TypeOK, NEW locked \in SUBSET Tables, Locks(locked)
  PROVE  events' \in Nat
<1>1. Cardinality(locked) \in Nat  BY TablesAssumption, FS_Subset, FS_CardinalityType
<1>2. QED  BY <1>1 DEF Locks, TypeOK

(* After maintenance a call is prepared. *)
LEMMA StepMaintain ==
  ASSUME IInv, NEW q \in Requests, maintain(q)
  PROVE  IInv'
<1>0. PICK r : r = [request[q] EXCEPT !.at = "assert"]  OBVIOUS
<1>1. request[q] \in Calls /\ request[q].at = "maintain" /\ Fits(request[q])
  BY DEF IInv, TypeOK, CallsFit, maintain, At
<1>2. /\ r \in Calls /\ r.at = "assert" /\ r.trigger = request[q].trigger /\ r.date = request[q].date
      /\ r.old = request[q].old
  BY <1>0, <1>1 DEF Calls
<1>3. request' = [request EXCEPT ![q] = r]  BY <1>0 DEF maintain, Goes, IInv, TypeOK
<1>4. UNCHANGED <<now, fired, swept, pct, enabled, runs, causes>>  BY DEF maintain, world
<1>5. PICK locked \in SUBSET Tables : Locks(locked) /\ maintain_observation_partitions(locked)
  BY DEF maintain
<1>6. /\ request' \in [Requests -> Calls] /\ request'[q] = r
      /\ \A p \in Requests \ {q} : request'[p] = request[p]
  BY <1>2, <1>3 DEF IInv, TypeOK
<1>7. TypeOK'
  <2>1. events' \in Nat  BY <1>5, LocksTyped DEF IInv
  <2>2. partitions' \in [Tables -> SUBSET Nat]  BY <1>5, Maintained
  <2>3. QED  BY <1>4, <1>6, <2>1, <2>2 DEF IInv, TypeOK
<1>8. RunsHavePartitions'  BY <1>4, <1>5, MaintainedRuns
<1>9. Fits(r)'
  <2>1. Undecided(r)' /\ HasItsRun(r)'  BY <1>2 DEF Undecided, HasItsRun
  <2>2. OnItsDay(r)'  BY <1>1, <1>2, <1>4 DEF Fits, OnItsDay
  <2>3. Prepared(r)'  BY <1>4, <1>5, Maintained DEF Prepared
  <2>4. QED  BY <2>1, <2>2, <2>3 DEF Fits
<1>10. \A p \in Requests : request'[p] = request[p] \/ Fits(request[p])'
  <2>1. Fits(request[q])'  BY <1>6, <1>9
  <2>2. QED  BY <1>6, <2>1
<1>11. \A t \in Tables, m \in {Month(UtcDate(now)), Month(UtcDate(now)) + 1} :
         m \in partitions[t] => m \in partitions'[t]
  BY <1>5, Maintained
<1>12. QED  BY <1>4, <1>7, <1>8, <1>10, <1>11, MomentGoesOn

(* The nightly job maintains, too. *)
LEMMA StepCleanup ==
  ASSUME IInv, cleanup_by_capacity
  PROVE  IInv'
<1>1. PICK locked \in SUBSET Tables : Locks(locked) /\ maintain_observation_partitions(locked)
  BY DEF cleanup_by_capacity
<1>2. UNCHANGED <<now, fired, enabled, runs, request, causes>> /\ swept' = TRUE /\ pct' \in Percents
  BY DEF cleanup_by_capacity
<1>3. TypeOK'
  <2>1. events' \in Nat  BY <1>1, LocksTyped DEF IInv
  <2>2. partitions' \in [Tables -> SUBSET Nat]  BY <1>1, Maintained
  <2>3. QED  BY <1>2, <2>1, <2>2 DEF IInv, TypeOK
<1>4. RunsHavePartitions'  BY <1>1, <1>2, MaintainedRuns
<1>5. \A t \in Tables, m \in {Month(UtcDate(now)), Month(UtcDate(now)) + 1} :
         m \in partitions[t] => m \in partitions'[t]
  BY <1>1, Maintained
<1>6. QED  BY <1>2, <1>3, <1>4, <1>5, MomentGoesOn

-----------------------------------------------------------------------------
(* The capacity is asked for in the same moment or the next. *)
LEMMA StepAssert ==
  ASSUME IInv, NEW q \in Requests, assert_capacity_for_run(q)
  PROVE  IInv'
<1>1. /\ UNCHANGED <<now, fired, swept, pct, enabled, partitions, runs, events>>
      /\ request[q].at = "assert" /\ request[q] \in Calls /\ Fits(request[q])
  BY DEF assert_capacity_for_run, world, At, IInv, TypeOK, CallsFit
<1>2. fired' \in BOOLEAN /\ swept' \in BOOLEAN /\ events' \in Nat  BY <1>1 DEF IInv, TypeOK
<1>3. CASE EndsBecause(q, "blocked")
  <2>1. Ends(q)  BY <1>3 DEF EndsBecause
  <2>2. causes' \in [Days -> SUBSET {"lost", "disabled", "blocked"}]
    BY <1>3, Noted DEF EndsBecause, IInv, TypeOK
  <2>3. QED  BY <1>1, <1>2, <2>1, <2>2, CallEnds
<1>4. CASE Goes(q, "insert") /\ UNCHANGED causes
  <2> DEFINE r == [request[q] EXCEPT !.at = "insert"]
  <2>1. /\ r \in Calls /\ r.at = "insert" /\ r.trigger = request[q].trigger /\ r.date = request[q].date
        /\ r.old = request[q].old
    BY <1>1 DEF Calls
  <2>2. request' = [request EXCEPT ![q] = r]  BY <1>4 DEF Goes, IInv, TypeOK
  <2> HIDE DEF r
  <2>3. Fits(r)
    <3>1. Undecided(r) /\ HasItsRun(r)  BY <2>1 DEF Undecided, HasItsRun
    <3>2. OnItsDay(r)  BY <1>1, <2>1 DEF Fits, OnItsDay
    <3>3. Prepared(r)  BY <1>1, <2>1 DEF Fits, Prepared
    <3>4. QED  BY <3>1, <3>2, <3>3 DEF Fits
  <2>4. causes' \in [Days -> SUBSET {"lost", "disabled", "blocked"}]  BY <1>4 DEF IInv, TypeOK
  <2>5. QED  BY <1>1, <1>2, <2>1, <2>2, <2>3, <2>4, CallMoves
<1>5. QED  BY <1>3, <1>4 DEF assert_capacity_for_run

(* The run that is inserted has its partitions. *)
LEMMA StepInsert ==
  ASSUME IInv, NEW q \in Requests, insert_run(q)
  PROVE  IInv'
<1> DEFINE date == IF request[q].trigger = "cron" THEN request[q].date ELSE UtcDate(now)
           row  == [date |-> date, trigger |-> request[q].trigger, jobs |-> FALSE]
<1>1. /\ UNCHANGED <<now, fired, swept, pct, enabled, partitions, events, causes>>
      /\ request[q].at = "insert" /\ request[q] \in Calls /\ Fits(request[q])
  BY DEF insert_run, world, At, IInv, TypeOK, CallsFit
<1>2. /\ fired' \in BOOLEAN /\ swept' \in BOOLEAN /\ events' \in Nat
      /\ causes' \in [Days -> SUBSET {"lost", "disabled", "blocked"}]
  BY <1>1 DEF IInv, TypeOK
<1>3. CASE Ends(q) /\ UNCHANGED runs  BY <1>1, <1>2, <1>3, CallEnds
<1>4. CASE /\ runs' = Append(runs, row)
           /\ request' = [request EXCEPT ![q].at = "enqueue", ![q].run = Len(runs) + 1]
  <2>0. PICK r : r = [request[q] EXCEPT !.at = "enqueue", !.run = Len(runs) + 1]  OBVIOUS
  <2>1. Len(runs) \in Nat /\ runs \in Seq(RunRow) /\ DOMAIN runs = 1 .. Len(runs)  BY RunsTyped DEF IInv
  <2>2. UtcDate(now) \in Nat /\ KstDate(now) \in {UtcDate(now), UtcDate(now) + 1}
    BY NowIsNat, Dates DEF IInv
  <2>3. date \in {UtcDate(now), KstDate(now)} /\ (request[q].old => date = UtcDate(now)) /\ date \in Nat
    BY <1>1, <2>2 DEF Fits, OnItsDay, Calls
  <2>4. \A t \in Tables : Month(date) \in partitions[t]
    <3>1. CASE date = UtcDate(now)  BY <1>1, <3>1 DEF Fits, Prepared
    <3>2. CASE date # UtcDate(now)
      <4>1. date = UtcDate(now) + 1 /\ ~request[q].old  BY <2>2, <2>3, <3>2
      <4>2. Month(date) \in {Month(UtcDate(now)), Month(UtcDate(now)) + 1}  BY <2>2, <4>1, NextMonth
      <4>3. QED  BY <1>1, <4>1, <4>2 DEF Fits, Prepared
    <3>3. QED  BY <3>1, <3>2
  <2> HIDE DEF date
  <2>5. row \in RunRow /\ row.date = date  BY <1>1, <2>3 DEF RunRow, Calls
  <2> HIDE DEF row
  <2>6. /\ runs' \in Seq(RunRow) /\ Len(runs') = Len(runs) + 1
        /\ \A i \in 1 .. Len(runs) : runs'[i] = runs[i]
        /\ runs'[Len(runs) + 1] = row
    BY <1>4, <2>1, <2>5, AppendProperties
  <2>7. DOMAIN runs' = 1 .. (Len(runs) + 1)  BY <2>6, LenProperties
  <2>8. r \in Calls /\ r.at = "enqueue" /\ r.run = Len(runs) + 1
    <3>1. Len(runs) + 1 \in Nat /\ request[q] \in Calls  BY <1>1, <2>1
    <3>2. QED  BY <2>0, <3>1 DEF Calls
  <2>9. request' = [request EXCEPT ![q] = r]  BY <1>4, <2>0 DEF IInv, TypeOK
  <2>10. /\ request' \in [Requests -> Calls] /\ request'[q] = r
         /\ \A p \in Requests \ {q} : request'[p] = request[p]
    BY <2>8, <2>9 DEF IInv, TypeOK
  <2>11. TypeOK'  BY <1>1, <2>6, <2>10 DEF IInv, TypeOK
  <2>12. RunsHavePartitions'
    <3> SUFFICES ASSUME NEW i \in 1 .. (Len(runs) + 1)
                 PROVE  \/ \A t \in Tables : Month(runs'[i].date) \in partitions[t]
                        \/ runs'[i].date + Retention < UtcDate(now)
      BY <1>1, <2>7 DEF RunsHavePartitions
    <3>1. CASE i \in 1 .. Len(runs)  BY <2>1, <2>6, <3>1 DEF IInv, RunsHavePartitions
    <3>2. CASE i = Len(runs) + 1  BY <2>4, <2>5, <2>6, <3>2
    <3>3. QED  BY <2>1, <3>1, <3>2
  <2>13. Fits(r)'
    <3>1. Undecided(r)' /\ OnItsDay(r)' /\ Prepared(r)'  BY <2>8 DEF Undecided, OnItsDay, Prepared
    <3>2. HasItsRun(r)'  BY <2>1, <2>7, <2>8 DEF HasItsRun
    <3>3. QED  BY <3>1, <3>2 DEF Fits
  <2>14. \A p \in Requests : request'[p] = request[p] \/ Fits(request[p])'
    <3>1. Fits(request[q])'  BY <2>10, <2>13
    <3>2. QED  BY <2>10, <3>1
  <2>15. DOMAIN runs \subseteq DOMAIN runs'  BY <2>1, <2>7
  <2>16. QED  BY <1>1, <2>11, <2>12, <2>14, <2>15, MomentGoesOn
<1>5. QED  BY <1>3, <1>4 DEF insert_run

(* Its jobs change nothing of its date. *)
LEMMA StepEnqueue ==
  ASSUME IInv, NEW q \in Requests, enqueue_collect(q)
  PROVE  IInv'
<1>1. /\ UNCHANGED <<now, fired, swept, pct, enabled, partitions, events, causes>> /\ Ends(q)
      /\ request[q].run \in DOMAIN runs
  BY DEF enqueue_collect, world, At, IInv, CallsFit, Fits, HasItsRun
<1>2. PICK i : i = request[q].run  OBVIOUS
<1> DEFINE row == [runs[i] EXCEPT !.jobs = TRUE]
<1>3. runs \in Seq(RunRow) /\ i \in 1 .. Len(runs) /\ runs[i] \in RunRow /\ DOMAIN runs = 1 .. Len(runs)
  BY <1>1, <1>2, RunsTyped DEF IInv
<1>4. row \in RunRow /\ row.date = runs[i].date  BY <1>3 DEF RunRow
<1>5. runs' = [runs EXCEPT ![i] = row]  BY <1>2, <1>3 DEF enqueue_collect
<1> HIDE DEF row
<1>6. /\ runs' \in Seq(RunRow) /\ Len(runs') = Len(runs)
      /\ \A j \in 1 .. Len(runs) : runs'[j] = IF j = i THEN row ELSE runs[j]
  BY <1>3, <1>4, <1>5, ExceptSeq
<1>7. DOMAIN runs' = DOMAIN runs  BY <1>3, <1>6, LenProperties
<1>8. \A j \in DOMAIN runs' : j \in DOMAIN runs /\ runs'[j].date = runs[j].date
  BY <1>3, <1>4, <1>6, <1>7
<1>9. RunsHavePartitions'  BY <1>1, <1>8, RunsStay DEF IInv
<1>10. /\ request' \in [Requests -> Calls] /\ request'[q] = Idle
       /\ \A p \in Requests \ {q} : request'[p] = request[p]
  <2>1. Idle \in Calls  BY DEF Idle, Calls
  <2>2. QED  BY <1>1, <2>1 DEF Ends, IInv, TypeOK
<1>11. TypeOK'  BY <1>1, <1>6, <1>10 DEF IInv, TypeOK
<1>12. Fits(Idle)'  BY DEF Idle, Fits, Undecided, OnItsDay, Prepared, HasItsRun
<1>13. \A p \in Requests : request'[p] = request[p] \/ Fits(request[p])'
  <2>1. Fits(request[q])'  BY <1>10, <1>12 DEF Idle, Fits, Undecided, OnItsDay, Prepared, HasItsRun
  <2>2. QED  BY <1>10, <2>1
<1>14. QED  BY <1>1, <1>7, <1>9, <1>11, <1>13, MomentGoesOn

(* A call that is lost leaves a note at most. *)
LEMMA StepLost ==
  ASSUME IInv, NEW q \in Requests, request_lost(q)
  PROVE  IInv'
<1>1. UNCHANGED <<now, fired, swept, pct, enabled, partitions, runs>> /\ events' \in Nat /\ Ends(q)
  BY DEF request_lost, world, Event, EndsBecause, IInv, TypeOK
<1>2. causes' \in [Days -> SUBSET {"lost", "disabled", "blocked"}]
  <2>1. Because(Today, "lost") \/ Because(request[q].date, "lost") \/ UNCHANGED causes
    BY DEF request_lost, EndsBecause
  <2>2. QED  BY <2>1, Noted DEF IInv, TypeOK
<1>3. QED  BY <1>1, <1>2, CallEnds

(* Steps that touch neither calls, nor partitions, nor runs. *)
LEMMA WorldMoves ==
  ASSUME IInv, UNCHANGED <<now, partitions, runs, request>>, TypeOK'
  PROVE  IInv'
<1>1. RunsHavePartitions'  BY RunsStay DEF IInv
<1>2. QED  BY <1>1, MomentGoesOn

(* Notes, size and setting are of no account here. *)
LEMMA StepWorld ==
  ASSUME IInv, trigger_lost \/ fill \/ set_schedule \/ UNCHANGED vars
  PROVE  IInv'
<1>1. UNCHANGED <<now, partitions, runs, request>>  BY DEF trigger_lost, fill, set_schedule, vars
<1>2. CASE trigger_lost
  <2>1. causes' \in [Days -> SUBSET {"lost", "disabled", "blocked"}]  BY <1>2, Noted DEF trigger_lost, IInv
  <2>2. TypeOK'  BY <1>2, <2>1 DEF trigger_lost, Event, IInv, TypeOK
  <2>3. QED  BY <1>1, <2>2, WorldMoves
<1>3. CASE fill \/ set_schedule \/ UNCHANGED vars
  <2>1. ASSUME fill  PROVE TypeOK'  BY <2>1 DEF fill, Event, IInv, TypeOK
  <2>2. ASSUME set_schedule  PROVE TypeOK'  BY <2>2 DEF set_schedule, Event, IInv, TypeOK
  <2>3. ASSUME UNCHANGED vars  PROVE TypeOK'  BY <2>3 DEF vars, IInv, TypeOK
  <2>4. QED  BY <1>1, <1>3, <2>1, <2>2, <2>3, WorldMoves
<1>4. QED  BY <1>2, <1>3

(* The next moment: what was Korea's day is UTC's now, and its month was
   prepared. *)
LEMMA StepTick ==
  ASSUME IInv, tick
  PROVE  IInv'
<1>1. now \in Nat /\ now' = now + 1 /\ now < LastMoment  BY NowIsNat DEF IInv, tick
<1>2. PICK u : u = UtcDate(now)  OBVIOUS
<1>3. UtcDate(now') = KstDate(now) /\ u \in Nat /\ KstDate(now) \in {u, u + 1}  BY <1>1, <1>2, Dates
<1>4. Month(UtcDate(now')) \in {Month(u), Month(u) + 1}  BY <1>3, NextMonth
<1>5. /\ UNCHANGED <<pct, enabled, partitions, runs, events, causes>> /\ fired' = FALSE /\ swept' = FALSE
      /\ request' = [q \in Requests |-> [request[q] EXCEPT !.old = request[q].at # "idle"]]
      /\ \A q \in Requests : request[q].at # "decide" /\ ~request[q].old
  BY DEF tick, At
<1>6. \A q \in Requests :
        /\ request'[q] \in Calls /\ request'[q].at = request[q].at /\ request'[q].trigger = request[q].trigger
        /\ request'[q].date = request[q].date /\ request'[q].run = request[q].run
        /\ request'[q].old = (request[q].at # "idle")
  <2> SUFFICES ASSUME NEW q \in Requests
      PROVE /\ request'[q] \in Calls /\ request'[q].at = request[q].at /\ request'[q].trigger = request[q].trigger
            /\ request'[q].date = request[q].date /\ request'[q].run = request[q].run
            /\ request'[q].old = (request[q].at # "idle")
    OBVIOUS
  <2>1. request[q] \in Calls /\ (request[q].at # "idle") \in BOOLEAN  BY DEF IInv, TypeOK
  <2>2. request'[q] = [request[q] EXCEPT !.old = request[q].at # "idle"]  BY <1>5
  <2>3. QED  BY <2>1, <2>2 DEF Calls
<1>7. TypeOK'
  <2>1. request' \in [Requests -> Calls]  BY <1>5, <1>6
  <2>2. now' \in FirstMoment .. LastMoment  BY <1>1, CalendarAssumption DEF IInv, TypeOK
  <2>3. QED  BY <1>5, <2>1, <2>2 DEF IInv, TypeOK
<1>8. CallsFit'
  <2> SUFFICES ASSUME NEW q \in Requests PROVE Fits(request[q])'  BY DEF CallsFit
  <2>0. Fits(request[q])  BY DEF IInv, CallsFit
  <2>1. Undecided(request[q])'  BY <1>5, <1>6 DEF Undecided
  <2>2. OnItsDay(request[q])'
    <3> SUFFICES ASSUME request'[q].at \in {"maintain", "assert", "insert"}, request'[q].trigger = "cron"
                 PROVE  request'[q].date = UtcDate(now') /\ request'[q].old
      BY DEF OnItsDay
    <3>1. request[q].date = KstDate(now)  BY <1>5, <1>6, <2>0 DEF Fits, OnItsDay
    <3>2. QED  BY <1>3, <1>6, <3>1
  <2>3. Prepared(request[q])'
    <3> SUFFICES ASSUME request'[q].at \in {"assert", "insert"}, NEW t \in Tables
                 PROVE  Month(UtcDate(now')) \in partitions[t] /\ request'[q].old
      BY <1>5 DEF Prepared
    <3>1. Month(u) \in partitions[t] /\ Month(u) + 1 \in partitions[t]
      BY <1>2, <1>5, <1>6, <2>0 DEF Fits, Prepared
    <3>2. QED  BY <1>4, <1>6, <3>1
  <2>4. HasItsRun(request[q])'  BY <1>5, <1>6, <2>0 DEF Fits, HasItsRun
  <2>5. QED  BY <2>1, <2>2, <2>3, <2>4 DEF Fits
<1>9. RunsHavePartitions'
  <2> SUFFICES ASSUME NEW i \in DOMAIN runs
               PROVE  \/ \A t \in Tables : Month(runs[i].date) \in partitions[t]
                      \/ runs[i].date + Retention < UtcDate(now')
    BY <1>5 DEF RunsHavePartitions
  <2>1. runs[i].date \in Nat  BY RunsTyped DEF IInv
  <2>2. UtcDate(now') \in Nat /\ u <= UtcDate(now')  BY <1>3
  <2>3. \/ \A t \in Tables : Month(runs[i].date) \in partitions[t]
        \/ runs[i].date + Retention < u
    BY <1>2 DEF IInv, RunsHavePartitions
  <2>4. QED  BY <1>3, <2>1, <2>2, <2>3, CalendarAssumption
<1>10. QED  BY <1>7, <1>8, <1>9 DEF IInv

(* Every step keeps the invariant. *)
LEMMA Step == IInv /\ [Next]_vars => IInv'
<1> SUFFICES ASSUME IInv, [Next]_vars PROVE IInv'  OBVIOUS
<1>1. CASE trigger_lost \/ fill \/ set_schedule \/ UNCHANGED vars  BY <1>1, StepWorld
<1>2. CASE \E q \in Requests :
             \/ private_trigger_run(q) \/ call_by_hand(q) \/ start_manually(q)
             \/ decide(q) \/ startRun(q) \/ request_lost(q)
  BY <1>2, StepTrigger, StepManual, StepDecide, StepMaintain, StepAssert, StepInsert, StepEnqueue, StepLost
  DEF startRun
<1>3. CASE cleanup_by_capacity  BY <1>3, StepCleanup
<1>4. CASE tick  BY <1>4, StepTick
<1>5. QED  BY <1>1, <1>2, <1>3, <1>4 DEF Next

(* The inductive invariant of the schedule. *)
LEMMA Invariant == Spec => []IInv
BY InitIInv, Step, PTL DEF Spec

-----------------------------------------------------------------------------
(* Theorems. *)

(* Calls, runs, partitions and notes keep their types in every behaviour. *)
THEOREM ScheduleTypes == Spec => []TypeOK
<1>1. IInv => TypeOK  BY DEF IInv
<1>2. QED  BY <1>1, Invariant, PTL

(* No run is without a partition of its date before the retention is over, for
   months of any length: maintenance looks two months ahead by UTC, a call
   crosses at most one midnight, and Korea's day is at most one ahead. *)
THEOREM PartitionsAreThere == Spec => []RunsHavePartitions
<1>1. IInv => RunsHavePartitions  BY DEF IInv
<1>2. QED  BY <1>1, Invariant, PTL

-----------------------------------------------------------------------------
(* Whose is a day: a call carries it, or a run, a run's last call or a note
   about its loss holds it. *)
Carries(r, d)  == r.trigger = "cron" /\ r.at \in {"maintain", "assert", "insert", "enqueue"} /\ r.date = d
Enqueues(r, d) == r.trigger = "cron" /\ r.at = "enqueue" /\ r.date = d
HasJobs(d)     == \E i \in DOMAIN runs : runs[i].trigger = "cron" /\ runs[i].date = d /\ runs[i].jobs

Held(d) == causes[d] # {} \/ HasJobs(d) \/ \E q \in Requests : Enqueues(request[q], d)

Covered(d) == Held(d) \/ \E q \in Requests : Carries(request[q], d)

(* A decided call is for a weekday, and a run's last call knows its run. *)
Dated(r) ==
  /\ r.at = "decide" => r.trigger = "cron"
  /\ (r.trigger = "cron" /\ r.at \in {"maintain", "assert", "insert", "enqueue"}) =>
       /\ r.date \in Days /\ Weekday(r.date)
       /\ r.at = "enqueue" => runs[r.run].trigger = "cron" /\ runs[r.run].date = r.date

CallsAreDated == \A q \in Requests : Dated(request[q])

OneRunADay ==
  \A i, j \in DOMAIN runs : (runs[i].trigger = "cron" /\ runs[j].trigger = "cron") =>
    /\ Weekday(runs[i].date)
    /\ runs[i].date = runs[j].date => i = j

RunsAreHeld == \A d \in Days : RanOn(d) => Held(d)

TodayIsCaredFor ==
  Night(now) /\ Weekday(Today) /\ fired => Covered(Today) \/ \E q \in Requests : request[q].at = "decide"

PastIsCovered ==
  \A d \in Days : Weekday(d) /\ FirstMoment <= 2 * d - 1 /\ 2 * d - 1 < now => Covered(d)

DaysInv == CallsAreDated /\ OneRunADay /\ RunsAreHeld /\ TodayIsCaredFor /\ PastIsCovered

(* Before the first call no day is anybody's. *)
LEMMA InitDays == Init => DaysInv
<1> SUFFICES ASSUME Init PROVE DaysInv  OBVIOUS
<1>1. runs = <<>> /\ now = FirstMoment /\ fired = FALSE /\ \A q \in Requests : request[q] = Idle  BY DEF Init
<1>2. CallsAreDated  BY <1>1 DEF CallsAreDated, Dated, Idle
<1>3. OneRunADay /\ RunsAreHeld  BY <1>1 DEF OneRunADay, RunsAreHeld, RanOn
<1>4. TodayIsCaredFor  BY <1>1 DEF TodayIsCaredFor
<1>5. PastIsCovered
  <2>1. \A d \in Days : d \in Nat  BY DEF Days
  <2>2. QED  BY <1>1, <2>1, CalendarAssumption DEF PastIsCovered
<1>6. QED  BY <1>2, <1>3, <1>4, <1>5 DEF DaysInv

(* Days that there are. *)
LEMMA TodayIsADay ==
  ASSUME TypeOK
  PROVE  Today \in Days
<1>1. now \in Nat /\ now <= LastMoment /\ LastMoment \in Nat  BY NowIsNat, CalendarAssumption DEF TypeOK
<1>2. KstDate(now) \in Nat /\ KstDate(now) <= KstDate(LastMoment)  BY <1>1 DEF KstDate
<1>3. QED  BY <1>1, <1>2, Dates DEF Today, Days

(* A note is kept, and one that is made is there. *)
LEMMA NoteIsMade ==
  ASSUME TypeOK, NEW d \in Days, NEW why, Because(d, why)
  PROVE  causes'[d] # {} /\ \A x \in Days : causes[x] \subseteq causes'[x]
BY DEF TypeOK, Because

(* What is held stays held, and what is covered stays covered, unless a call
   leaves it without more ado. *)
LEMMA HeldStays ==
  ASSUME \A d \in Days : causes[d] \subseteq causes'[d],
         \A i \in DOMAIN runs : i \in DOMAIN runs' /\ runs'[i].trigger = runs[i].trigger
                                /\ runs'[i].date = runs[i].date /\ (runs[i].jobs => runs'[i].jobs),
         \A p \in Requests, d \in Days :
           Enqueues(request[p], d) => Enqueues(request'[p], d) \/ causes'[d] # {} \/ HasJobs(d)'
  PROVE  \A d \in Days : Held(d) => Held(d)'
<1> SUFFICES ASSUME NEW d \in Days, Held(d) PROVE Held(d)'  OBVIOUS
<1>1. CASE causes[d] # {}  BY <1>1 DEF Held
<1>2. CASE HasJobs(d)
  <2>1. HasJobs(d)'  BY <1>2 DEF HasJobs
  <2>2. QED  BY <2>1 DEF Held
<1>3. CASE \E q \in Requests : Enqueues(request[q], d)  BY <1>3 DEF Held
<1>4. QED  BY <1>1, <1>2, <1>3 DEF Held

(* And what is covered. *)
LEMMA CoveredStays ==
  ASSUME \A d \in Days : Held(d) => Held(d)',
         \A p \in Requests, d \in Days : Carries(request[p], d) => Carries(request'[p], d) \/ Held(d)'
  PROVE  \A d \in Days : Covered(d) => Covered(d)'
BY DEF Covered

(* A step in one moment that leaves the rows of runs alone. *)
LEMMA QuietStep ==
  ASSUME IInv, DaysInv, UNCHANGED <<now, runs>>,
         \A d \in Days : causes[d] \subseteq causes'[d],
         \A p \in Requests : request'[p] = request[p] \/ Dated(request'[p]),
         \A p \in Requests, d \in Days :
           Enqueues(request[p], d) => Enqueues(request'[p], d) \/ causes'[d] # {} \/ HasJobs(d)',
         \A p \in Requests, d \in Days :
           Carries(request[p], d) => Carries(request'[p], d) \/ causes'[d] # {} \/ RanOn(d),
         Night(now) /\ Weekday(Today) /\ fired' =>
           \/ fired /\ \A p \in Requests : request[p].at = "decide" => request'[p].at = "decide"
           \/ causes'[Today] # {} \/ RanOn(Today)
           \/ \E p \in Requests : request'[p].at = "decide" \/ Carries(request'[p], Today)
  PROVE  DaysInv'
<1>1. \A d \in Days : Held(d) => Held(d)'  BY HeldStays
<1>2. \A d \in Days : RanOn(d) \/ causes'[d] # {} => Held(d)'  BY <1>1 DEF DaysInv, RunsAreHeld, Held
<1>3. \A d \in Days : Covered(d) => Covered(d)'  BY <1>1, <1>2, CoveredStays
<1>4. CallsAreDated'
  <2>1. ASSUME NEW p \in Requests PROVE Dated(request[p])'
    <3>1. PICK r : r = request'[p]  OBVIOUS
    <3>2. Dated(r)  BY <3>1 DEF DaysInv, CallsAreDated
    <3>3. Dated(r)'  BY <3>2 DEF Dated
    <3>4. QED  BY <3>1, <3>3
  <2>2. QED  BY <2>1 DEF CallsAreDated
<1>5. OneRunADay'  BY DEF DaysInv, OneRunADay
<1>6. RunsAreHeld'
  <2>1. \A d \in Days : RanOn(d)' => RanOn(d)  BY DEF RanOn
  <2>2. QED  BY <1>2, <2>1 DEF RunsAreHeld
<1>7. TodayIsCaredFor'
  <2> SUFFICES ASSUME Night(now), Weekday(Today), fired'
               PROVE  Covered(Today)' \/ \E q \in Requests : request'[q].at = "decide"
    BY DEF TodayIsCaredFor, Today
  <2>1. PICK d \in Days : d = Today  BY TodayIsADay DEF IInv
  <2>2. Today' = d  BY <2>1 DEF Today
  <2>3. CASE fired /\ \A p \in Requests : request[p].at = "decide" => request'[p].at = "decide"
    <3>1. Covered(d) \/ \E q \in Requests : request[q].at = "decide"
      BY <2>1, <2>3 DEF DaysInv, TodayIsCaredFor
    <3>2. Covered(d)' \/ \E q \in Requests : request'[q].at = "decide"  BY <1>3, <2>3, <3>1
    <3>3. QED  BY <2>2, <3>2 DEF Covered, Held, HasJobs, Enqueues, Carries
  <2>4. CASE causes'[d] # {} \/ RanOn(d)
    <3>1. Covered(d)'  BY <1>2, <2>4 DEF Covered
    <3>2. QED  BY <2>2, <3>1 DEF Covered, Held, HasJobs, Enqueues, Carries
  <2>5. CASE \E p \in Requests : request'[p].at = "decide" \/ Carries(request'[p], d)
    <3>1. Covered(d)' \/ \E q \in Requests : request'[q].at = "decide"  BY <2>5 DEF Covered
    <3>2. QED  BY <2>2, <3>1 DEF Covered, Held, HasJobs, Enqueues, Carries
  <2>6. QED  BY <2>1, <2>3, <2>4, <2>5
<1>8. PastIsCovered'  BY <1>3 DEF DaysInv, PastIsCovered
<1>9. QED  BY <1>4, <1>5, <1>6, <1>7, <1>8 DEF DaysInv

(* One call moves on, in one moment. *)
LEMMA OneCall ==
  ASSUME IInv, DaysInv, UNCHANGED <<now, runs>>,
         \A d \in Days : causes[d] \subseteq causes'[d],
         NEW q \in Requests, NEW r, request' = [request EXCEPT ![q] = r], Dated(r),
         \A d \in Days : Enqueues(request[q], d) => causes'[d] # {},
         \A d \in Days : Carries(request[q], d) => Carries(r, d) \/ causes'[d] # {} \/ RanOn(d),
         Night(now) /\ Weekday(Today) /\ fired' =>
           \/ fired /\ request[q].at # "decide"
           \/ causes'[Today] # {} \/ RanOn(Today) \/ r.at = "decide" \/ Carries(r, Today)
  PROVE  DaysInv'
<1>1. request'[q] = r /\ \A p \in Requests \ {q} : request'[p] = request[p]  BY DEF IInv, TypeOK
<1>2. \A p \in Requests : request'[p] = request[p] \/ Dated(request'[p])  BY <1>1
<1>3. \A p \in Requests, d \in Days :
        Enqueues(request[p], d) => Enqueues(request'[p], d) \/ causes'[d] # {} \/ HasJobs(d)'
  BY <1>1
<1>4. \A p \in Requests, d \in Days :
        Carries(request[p], d) => Carries(request'[p], d) \/ causes'[d] # {} \/ RanOn(d)
  BY <1>1
<1>5. Night(now) /\ Weekday(Today) /\ fired' =>
        \/ fired /\ \A p \in Requests : request[p].at = "decide" => request'[p].at = "decide"
        \/ causes'[Today] # {} \/ RanOn(Today)
        \/ \E p \in Requests : request'[p].at = "decide" \/ Carries(request'[p], Today)
  BY <1>1
<1>6. QED  BY <1>2, <1>3, <1>4, <1>5, QuietStep

(* A call that ends without a run leaves a note about its day, or the day has
   its run. *)
LEMMA CallLeaves ==
  ASSUME IInv, DaysInv, UNCHANGED <<now, runs, fired>>,
         \A d \in Days : causes[d] \subseteq causes'[d],
         NEW q \in Requests, Ends(q),
         \A d \in Days : Enqueues(request[q], d) => causes'[d] # {},
         \A d \in Days : Carries(request[q], d) => causes'[d] # {} \/ RanOn(d),
         request[q].at = "decide" => ~Weekday(Today) \/ causes'[Today] # {} \/ RanOn(Today)
  PROVE  DaysInv'
<1>1. request' = [request EXCEPT ![q] = Idle]  BY DEF Ends
<1>2. Dated(Idle)  BY DEF Dated, Idle
<1>3. PICK r : r = Idle  OBVIOUS
<1>4. QED  BY <1>1, <1>2, <1>3, OneCall

-----------------------------------------------------------------------------
(* A call that comes has no day before it is decided. *)
LEMMA DaysCalls ==
  ASSUME IInv, DaysInv, NEW q \in Requests,
         private_trigger_run(q) \/ call_by_hand(q) \/ start_manually(q)
  PROVE  DaysInv'
<1>1. /\ UNCHANGED <<now, runs, causes>> /\ request[q].at = "idle" /\ request[q] \in Calls
  BY DEF private_trigger_run, call_by_hand, start_manually, world, At, IInv, TypeOK
<1>2. PICK at, trigger :
        /\ request' = [request EXCEPT ![q] = [request[q] EXCEPT !.at = at, !.trigger = trigger]]
        /\ (at = "decide" /\ trigger = "cron") \/ (at = "maintain" /\ trigger = "manual" /\ UNCHANGED fired)
  <2>1. CASE private_trigger_run(q) \/ call_by_hand(q)
    <3>1. request' = [request EXCEPT ![q] = [request[q] EXCEPT !.at = "decide", !.trigger = "cron"]]
      BY <2>1 DEF private_trigger_run, call_by_hand, IInv, TypeOK
    <3>2. QED  BY <3>1
  <2>2. CASE start_manually(q)
    <3>1. request' = [request EXCEPT ![q] = [request[q] EXCEPT !.at = "maintain", !.trigger = "manual"]]
      BY <2>2 DEF start_manually, IInv, TypeOK
    <3>2. UNCHANGED fired  BY <2>2 DEF start_manually, world
    <3>3. QED  BY <3>1, <3>2
  <2>3. QED  BY <2>1, <2>2
<1>3. PICK r : r = [request[q] EXCEPT !.at = at, !.trigger = trigger]  OBVIOUS
<1>4. r.at = at /\ r.trigger = trigger  BY <1>1, <1>3 DEF Calls
<1>5. Dated(r)  BY <1>2, <1>4 DEF Dated
<1>6. \A d \in Days : ~Enqueues(request[q], d) /\ ~Carries(request[q], d)
  BY <1>1 DEF Enqueues, Carries
<1>7. Night(now) /\ Weekday(Today) /\ fired' => (fired /\ request[q].at # "decide") \/ r.at = "decide"
  BY <1>1, <1>2, <1>4
<1>8. request' = [request EXCEPT ![q] = r]  BY <1>2, <1>3
<1>9. QED  BY <1>1, <1>5, <1>6, <1>7, <1>8, OneCall

(* A call that starts a run carries today. *)
LEMMA DaysDecide ==
  ASSUME IInv, DaysInv, NEW q \in Requests, decide(q)
  PROVE  DaysInv'
<1>1. UNCHANGED <<now, runs, fired>> /\ request[q].at = "decide" /\ request[q] \in Calls
  BY DEF decide, world, At, IInv, TypeOK
<1>2. \A d \in Days : ~Enqueues(request[q], d) /\ ~Carries(request[q], d)
  BY <1>1 DEF Enqueues, Carries
<1>3. PICK today \in Days : today = Today  BY TodayIsADay DEF IInv
<1>4. CASE enabled /\ Weekday(Today) /\ ~RanOn(Today) /\ ~Blocked
  <2>1. /\ UNCHANGED causes
        /\ request' = [request EXCEPT ![q] = [request[q] EXCEPT !.at = "maintain", !.date = today]]
    BY <1>3, <1>4 DEF decide, IInv, TypeOK
  <2>2. PICK r : r = [request[q] EXCEPT !.at = "maintain", !.date = today]  OBVIOUS
  <2>3. r.at = "maintain" /\ r.date = today /\ r.trigger = request[q].trigger  BY <1>1, <2>2 DEF Calls
  <2>4. Dated(r)  BY <1>3, <1>4, <2>3 DEF Dated
  <2>5. request[q].trigger = "cron"  BY <1>1 DEF DaysInv, CallsAreDated, Dated
  <2>6. Carries(r, Today)  BY <1>3, <2>3, <2>5 DEF Carries
  <2>7. request' = [request EXCEPT ![q] = r] /\ \A d \in Days : causes[d] \subseteq causes'[d]
    BY <2>1, <2>2
  <2>8. QED  BY <1>1, <1>2, <2>4, <2>6, <2>7, OneCall
<1>5. CASE ~(enabled /\ Weekday(Today) /\ ~RanOn(Today) /\ ~Blocked)
  <2>1. PICK S : S = (IF enabled THEN {} ELSE {"disabled"}) \cup (IF Blocked THEN {"blocked"} ELSE {})
    OBVIOUS
  <2>2. Ends(q) /\ causes' = [causes EXCEPT ![today] = @ \cup S]
    BY <1>3, <1>5, <2>1 DEF decide, IInv, TypeOK
  <2>3. \A d \in Days : causes[d] \subseteq causes'[d]  BY <2>2 DEF IInv, TypeOK
  <2>4. S \subseteq causes'[today]  BY <2>2 DEF IInv, TypeOK
  <2>5. ~Weekday(Today) \/ causes'[Today] # {} \/ RanOn(Today)  BY <1>3, <1>5, <2>1, <2>4
  <2>6. QED  BY <1>1, <1>2, <2>2, <2>3, <2>5, CallLeaves
<1>6. QED  BY <1>4, <1>5

(* Maintenance and the capacity keep the call's day, or the day is noted. *)
LEMMA DaysPrepare ==
  ASSUME IInv, DaysInv, NEW q \in Requests, maintain(q) \/ assert_capacity_for_run(q)
  PROVE  DaysInv'
<1>1. /\ UNCHANGED <<now, runs, fired>> /\ request[q].at \in {"maintain", "assert"} /\ request[q] \in Calls
      /\ Dated(request[q])
  BY DEF maintain, assert_capacity_for_run, world, At, IInv, TypeOK, DaysInv, CallsAreDated
<1>2. \A d \in Days : ~Enqueues(request[q], d)  BY <1>1 DEF Enqueues
<1>3. CASE \E place \in {"assert", "insert"} : Goes(q, place) /\ UNCHANGED causes
  <2>1. PICK place \in {"assert", "insert"} : Goes(q, place) /\ UNCHANGED causes  BY <1>3
  <2>2. PICK r : r = [request[q] EXCEPT !.at = place]  OBVIOUS
  <2>3. r.at = place /\ r.date = request[q].date /\ r.trigger = request[q].trigger  BY <1>1, <2>2 DEF Calls
  <2>4. Dated(r)  BY <1>1, <2>3 DEF Dated
  <2>5. request' = [request EXCEPT ![q] = r] /\ \A d \in Days : causes[d] \subseteq causes'[d]
    BY <2>1, <2>2 DEF Goes, IInv, TypeOK
  <2>6. \A d \in Days : Carries(request[q], d) => Carries(r, d)  BY <2>3 DEF Carries
  <2>7. \/ fired /\ request[q].at # "decide"
        \/ ~fired'
    BY <1>1
  <2>8. QED  BY <1>1, <1>2, <2>4, <2>5, <2>6, <2>7, OneCall
<1>4. CASE EndsBecause(q, "blocked")
  <2>1. \A d \in Days : causes[d] \subseteq causes'[d]
    BY <1>4, NoteIsMade DEF EndsBecause, Because, IInv, TypeOK
  <2>2. \A d \in Days : Carries(request[q], d) => causes'[d] # {}
    <3>1. ASSUME NEW d \in Days, Carries(request[q], d) PROVE Because(d, "blocked")
      BY <1>4, <3>1 DEF EndsBecause, Carries
    <3>2. QED  BY <3>1, NoteIsMade DEF IInv
  <2>3. QED  BY <1>1, <1>2, <1>4, <2>1, <2>2, CallLeaves DEF EndsBecause
<1>5. QED  BY <1>3, <1>4 DEF maintain, assert_capacity_for_run

(* A call that is lost leaves a note about the day it carries or might have. *)
LEMMA DaysLost ==
  ASSUME IInv, DaysInv, NEW q \in Requests, request_lost(q)
  PROVE  DaysInv'
<1>1. UNCHANGED <<now, runs, fired>> /\ Ends(q) /\ Dated(request[q])
  BY DEF request_lost, world, EndsBecause, DaysInv, CallsAreDated
<1>2. PICK today \in Days : today = Today  BY TodayIsADay DEF IInv
<1>3. CASE request[q].at = "decide"
  <2>1. Because(today, "lost")  BY <1>2, <1>3 DEF request_lost, At
  <2>2. causes'[today] # {} /\ \A d \in Days : causes[d] \subseteq causes'[d]
    BY <2>1, NoteIsMade DEF IInv
  <2>3. \A d \in Days : ~Enqueues(request[q], d) /\ ~Carries(request[q], d)
    BY <1>3 DEF Enqueues, Carries
  <2>4. QED  BY <1>1, <1>2, <2>2, <2>3, CallLeaves
<1>4. CASE request[q].at # "decide"
  <2>1. EndsBecause(q, "lost")  BY <1>4 DEF request_lost, At
  <2>2. \A d \in Days : causes[d] \subseteq causes'[d]  BY <2>1 DEF EndsBecause, Because, IInv, TypeOK
  <2>3. \A d \in Days : Carries(request[q], d) => causes'[d] # {}
    <3>1. ASSUME NEW d \in Days, Carries(request[q], d) PROVE Because(d, "lost")
      BY <2>1, <3>1 DEF EndsBecause, Carries
    <3>2. QED  BY <3>1, NoteIsMade DEF IInv
  <2>4. \A d \in Days : Enqueues(request[q], d) => Carries(request[q], d)  BY DEF Enqueues, Carries
  <2>5. QED  BY <1>1, <1>4, <2>2, <2>3, <2>4, CallLeaves
<1>5. QED  BY <1>3, <1>4

(* Steps that leave calls and runs alone: a lost call of pg_cron is noted. *)
LEMMA DaysWorld ==
  ASSUME IInv, DaysInv, trigger_lost \/ fill \/ set_schedule \/ cleanup_by_capacity \/ UNCHANGED vars
  PROVE  DaysInv'
<1>1. UNCHANGED <<now, runs, request>>
  BY DEF trigger_lost, fill, set_schedule, cleanup_by_capacity, vars
<1>2. PICK today \in Days : today = Today  BY TodayIsADay DEF IInv
<1>3. /\ \A d \in Days : causes[d] \subseteq causes'[d]
      /\ (fired' => fired) \/ causes'[Today] # {}
  <2>1. CASE trigger_lost
    <3>1. Because(today, "lost")  BY <1>2, <2>1 DEF trigger_lost, Today
    <3>2. QED  BY <1>2, <3>1, NoteIsMade DEF IInv
  <2>2. CASE fill \/ set_schedule \/ cleanup_by_capacity \/ UNCHANGED vars
    BY <2>2 DEF fill, set_schedule, cleanup_by_capacity, vars
  <2>3. QED  BY <2>1, <2>2
<1>4. QED  BY <1>1, <1>3, QuietStep

(* In one moment, what is covered stays so. *)
LEMMA CareGoesOn ==
  ASSUME IInv, DaysInv, UNCHANGED <<now, fired>>, \A d \in Days : Covered(d) => Covered(d)',
         \A p \in Requests : request[p].at = "decide" => request'[p].at = "decide"
  PROVE  TodayIsCaredFor' /\ PastIsCovered'
<1>1. PastIsCovered'  BY DEF DaysInv, PastIsCovered
<1>2. TodayIsCaredFor'
  <2> SUFFICES ASSUME Night(now), Weekday(Today), fired
               PROVE  Covered(Today)' \/ \E q \in Requests : request'[q].at = "decide"
    BY DEF TodayIsCaredFor, Today
  <2>1. PICK d \in Days : d = Today  BY TodayIsADay DEF IInv
  <2>2. Today' = d  BY <2>1 DEF Today
  <2>3. Covered(d) \/ \E q \in Requests : request[q].at = "decide"
    BY <2>1 DEF DaysInv, TodayIsCaredFor
  <2>4. Covered(d)' \/ \E q \in Requests : request'[q].at = "decide"  BY <2>3
  <2>5. QED  BY <2>2, <2>4 DEF Covered, Held, HasJobs, Enqueues, Carries
<1>3. QED  BY <1>1, <1>2

(* The day's second run is refused; its first holds the day for its last call. *)
LEMMA DaysInsert ==
  ASSUME IInv, DaysInv, NEW q \in Requests, insert_run(q)
  PROVE  DaysInv'
<1> DEFINE date == IF request[q].trigger = "cron" THEN request[q].date ELSE UtcDate(now)
<1>1. /\ UNCHANGED <<now, fired, causes>> /\ request[q].at = "insert" /\ request[q] \in Calls
      /\ Dated(request[q])
  BY DEF insert_run, world, At, IInv, TypeOK, DaysInv, CallsAreDated
<1>2. \A d \in Days : ~Enqueues(request[q], d)  BY <1>1 DEF Enqueues
<1>3. \A d \in Days : Carries(request[q], d) => request[q].trigger = "cron" /\ d = date  BY DEF Carries
<1>4. CASE request[q].trigger = "cron" /\ RanOn(date)
  <2>1. Ends(q) /\ UNCHANGED runs  BY <1>4 DEF insert_run
  <2>2. QED  BY <1>1, <1>2, <1>3, <1>4, <2>1, CallLeaves
<1>5. CASE ~(request[q].trigger = "cron" /\ RanOn(date))
  <2>1. PICK row : row = [date |-> date, trigger |-> request[q].trigger, jobs |-> FALSE]  OBVIOUS
  <2>2. PICK n : n = Len(runs)  OBVIOUS
  <2>3. PICK r : r = [request[q] EXCEPT !.at = "enqueue", !.run = n + 1]  OBVIOUS
  <2>4. runs' = Append(runs, row) /\ request' = [request EXCEPT ![q] = r]
    BY <1>5, <2>1, <2>2, <2>3 DEF insert_run, IInv, TypeOK
  <2>5. n \in Nat /\ runs \in Seq(RunRow) /\ DOMAIN runs = 1 .. n  BY <2>2, RunsTyped DEF IInv
  <2>6. UtcDate(now) \in Nat /\ date \in Nat  BY <1>1, NowIsNat, Dates DEF IInv, Calls
  <2>7. row \in RunRow  BY <1>1, <2>1, <2>6 DEF RunRow, Calls
  <2>8. /\ runs' \in Seq(RunRow) /\ Len(runs') = n + 1
        /\ \A i \in 1 .. n : runs'[i] = runs[i]
        /\ runs'[n + 1] = row
    BY <2>2, <2>4, <2>5, <2>7, AppendProperties
  <2>9. DOMAIN runs' = 1 .. (n + 1)  BY <2>8, LenProperties
  <2>10. /\ r.at = "enqueue" /\ r.run = n + 1 /\ r.date = request[q].date
         /\ r.trigger = request[q].trigger
    BY <1>1, <2>3 DEF Calls
  <2>11. request'[q] = r /\ \A p \in Requests \ {q} : request'[p] = request[p]  BY <2>4 DEF IInv, TypeOK
  <2>12. row.date = date /\ row.trigger = request[q].trigger  BY <2>1
  <2> HIDE DEF date
  <2>13. request[q].trigger = "cron" => date = request[q].date  BY DEF date
  <2>14. \A d \in Days : Held(d) => Held(d)'
    <3>1. \A d \in Days : causes[d] \subseteq causes'[d]  BY <1>1
    <3>2. \A i \in DOMAIN runs : i \in DOMAIN runs' /\ runs'[i].trigger = runs[i].trigger
                                 /\ runs'[i].date = runs[i].date /\ (runs[i].jobs => runs'[i].jobs)
      BY <2>5, <2>8, <2>9
    <3>3. \A p \in Requests, d \in Days : Enqueues(request[p], d) => Enqueues(request'[p], d)
      BY <1>2, <2>11
    <3>4. QED  BY <3>1, <3>2, <3>3, HeldStays
  <2>15. \A d \in Days : Covered(d) => Covered(d)'
    <3>1. \A d \in Days : Carries(request[q], d) => Carries(r, d)  BY <2>10 DEF Carries
    <3>2. \A p \in Requests, d \in Days : Carries(request[p], d) => Carries(request'[p], d)
      BY <2>11, <3>1
    <3>3. QED  BY <2>14, <3>2, CoveredStays
  <2>16. CallsAreDated'
    <3> SUFFICES ASSUME NEW p \in Requests PROVE Dated(request[p])'  BY DEF CallsAreDated
    <3>1. CASE p = q
      <4>1. Dated(r)'  BY <1>1, <2>8, <2>10, <2>12, <2>13 DEF Dated
      <4>2. request'[p] = r  BY <2>11, <3>1
      <4>3. QED  BY <4>1, <4>2 DEF Dated
    <3>2. CASE p # q
      <4>1. PICK s : s = request[p]  OBVIOUS
      <4>2. Dated(s) /\ (s.at = "enqueue" => s.run \in DOMAIN runs)
        BY <4>1 DEF DaysInv, CallsAreDated, IInv, CallsFit, Fits, HasItsRun
      <4>3. Dated(s)'  BY <2>5, <2>8, <4>2 DEF Dated
      <4>4. request'[p] = s  BY <2>11, <3>2, <4>1
      <4>5. QED  BY <4>3, <4>4 DEF Dated
    <3>3. QED  BY <3>1, <3>2
  <2>17. request[q].trigger = "cron" =>
           Weekday(date) /\ date \in Days /\ \A i \in 1 .. n : runs[i].trigger = "cron" => runs[i].date # date
    BY <1>1, <1>5, <2>5, <2>13 DEF Dated, RanOn
  <2>18. OneRunADay'
    <3> SUFFICES ASSUME NEW i \in 1 .. (n + 1), NEW j \in 1 .. (n + 1),
                        runs'[i].trigger = "cron", runs'[j].trigger = "cron"
                 PROVE  Weekday(runs'[i].date) /\ (runs'[i].date = runs'[j].date => i = j)
      BY <2>9 DEF OneRunADay
    <3>1. CASE i \in 1 .. n /\ j \in 1 .. n  BY <2>5, <2>8, <3>1 DEF DaysInv, OneRunADay
    <3>2. CASE i = n + 1
      <4>1. Weekday(runs'[i].date)  BY <2>8, <2>12, <2>17, <3>2
      <4>2. CASE j = n + 1  BY <3>2, <4>1, <4>2
      <4>3. CASE j \in 1 .. n  BY <2>8, <2>12, <2>17, <3>2, <4>1, <4>3
      <4>4. QED  BY <2>5, <4>2, <4>3
    <3>3. CASE j = n + 1 /\ i \in 1 .. n
      <4>1. Weekday(runs[i].date)  BY <2>5, <2>8, <3>3 DEF DaysInv, OneRunADay
      <4>2. QED  BY <2>8, <2>12, <2>17, <3>3, <4>1
    <3>4. QED  BY <2>5, <3>1, <3>2, <3>3
  <2>19. RunsAreHeld'
    <3> SUFFICES ASSUME NEW d \in Days, NEW i \in 1 .. (n + 1), runs'[i].date = d, runs'[i].trigger = "cron"
                 PROVE  Held(d)'
      BY <2>9 DEF RunsAreHeld, RanOn
    <3>1. CASE i \in 1 .. n
      <4>1. RanOn(d)  BY <2>5, <2>8, <3>1 DEF RanOn
      <4>2. QED  BY <2>14, <4>1 DEF DaysInv, RunsAreHeld
    <3>2. CASE i = n + 1
      <4>1. Enqueues(r, d)  BY <2>8, <2>10, <2>12, <2>13, <3>2 DEF Enqueues
      <4>2. QED  BY <2>11, <4>1 DEF Held
    <3>3. QED  BY <2>5, <3>1, <3>2
  <2>20. \A p \in Requests : request[p].at = "decide" => request'[p].at = "decide"  BY <1>1, <2>11
  <2>21. TodayIsCaredFor' /\ PastIsCovered'  BY <1>1, <2>15, <2>20, CareGoesOn
  <2>22. QED  BY <2>16, <2>18, <2>19, <2>21 DEF DaysInv
<1>6. QED  BY <1>4, <1>5

(* The jobs of a scheduled run are the day's. *)
LEMMA DaysEnqueue ==
  ASSUME IInv, DaysInv, NEW q \in Requests, enqueue_collect(q)
  PROVE  DaysInv'
<1>1. /\ UNCHANGED <<now, fired, causes>> /\ request[q].at = "enqueue" /\ request[q] \in Calls
      /\ Dated(request[q]) /\ request[q].run \in DOMAIN runs /\ Ends(q)
  BY DEF enqueue_collect, world, At, IInv, TypeOK, DaysInv, CallsAreDated, CallsFit, Fits, HasItsRun
<1>2. PICK i : i = request[q].run  OBVIOUS
<1>3. runs \in Seq(RunRow) /\ DOMAIN runs = 1 .. Len(runs) /\ i \in 1 .. Len(runs) /\ runs[i] \in RunRow
  BY <1>1, <1>2, RunsTyped DEF IInv
<1>4. PICK row : row = [runs[i] EXCEPT !.jobs = TRUE]  OBVIOUS
<1>5. row \in RunRow /\ row.date = runs[i].date /\ row.trigger = runs[i].trigger /\ row.jobs
  BY <1>3, <1>4 DEF RunRow
<1>6. runs' = [runs EXCEPT ![i] = row]  BY <1>2, <1>3, <1>4 DEF enqueue_collect
<1>7. /\ runs' \in Seq(RunRow) /\ Len(runs') = Len(runs)
      /\ \A j \in 1 .. Len(runs) : runs'[j] = IF j = i THEN row ELSE runs[j]
  BY <1>3, <1>5, <1>6, ExceptSeq
<1>8. DOMAIN runs' = DOMAIN runs  BY <1>3, <1>7, LenProperties
<1>9. \A j \in DOMAIN runs : j \in DOMAIN runs' /\ runs'[j].trigger = runs[j].trigger
                             /\ runs'[j].date = runs[j].date /\ (runs[j].jobs => runs'[j].jobs)
  BY <1>3, <1>5, <1>7, <1>8
<1>10. request'[q] = Idle /\ \A p \in Requests \ {q} : request'[p] = request[p]
  BY <1>1 DEF Ends, IInv, TypeOK
<1>11. \A d \in Days : Enqueues(request[q], d) => HasJobs(d)'
  <2> SUFFICES ASSUME NEW d \in Days, Enqueues(request[q], d) PROVE HasJobs(d)'  OBVIOUS
  <2>1. runs[i].trigger = "cron" /\ runs[i].date = d  BY <1>1, <1>2 DEF Dated, Enqueues
  <2>2. i \in DOMAIN runs' /\ runs'[i] = row  BY <1>3, <1>7, <1>8
  <2>3. QED  BY <1>5, <2>1, <2>2 DEF HasJobs
<1>12. \A d \in Days : Held(d) => Held(d)'
  <2>1. \A p \in Requests, d \in Days : Enqueues(request[p], d) => Enqueues(request'[p], d) \/ HasJobs(d)'
    BY <1>10, <1>11
  <2>2. \A d \in Days : causes[d] \subseteq causes'[d]  BY <1>1
  <2>3. QED  BY <1>9, <2>1, <2>2, HeldStays
<1>13. \A d \in Days : Covered(d) => Covered(d)'
  <2>1. \A d \in Days : Carries(request[q], d) => Held(d)
    BY <1>1 DEF Carries, Enqueues, Held
  <2>2. \A p \in Requests, d \in Days : Carries(request[p], d) => Carries(request'[p], d) \/ Held(d)'
    BY <1>10, <1>12, <2>1
  <2>3. QED  BY <1>12, <2>2, CoveredStays
<1>14. CallsAreDated'
  <2> SUFFICES ASSUME NEW p \in Requests PROVE Dated(request[p])'  BY DEF CallsAreDated
  <2>1. CASE p = q  BY <1>10, <2>1 DEF Dated, Idle
  <2>2. CASE p # q
    <3>1. PICK s : s = request[p]  OBVIOUS
    <3>2. Dated(s) /\ (s.at = "enqueue" => s.run \in DOMAIN runs)
      BY <3>1 DEF DaysInv, CallsAreDated, IInv, CallsFit, Fits, HasItsRun
    <3>3. Dated(s)'  BY <1>9, <3>2 DEF Dated
    <3>4. request'[p] = s  BY <1>10, <2>2, <3>1
    <3>5. QED  BY <3>3, <3>4 DEF Dated
  <2>3. QED  BY <2>1, <2>2
<1>15. OneRunADay'  BY <1>8, <1>9 DEF DaysInv, OneRunADay
<1>16. RunsAreHeld'
  <2>1. \A d \in Days : RanOn(d)' => RanOn(d)  BY <1>8, <1>9 DEF RanOn
  <2>2. QED  BY <1>12, <2>1 DEF DaysInv, RunsAreHeld
<1>17. TodayIsCaredFor' /\ PastIsCovered'
  <2>1. \A p \in Requests : request[p].at = "decide" => request'[p].at = "decide"  BY <1>1, <1>10
  <2>2. QED  BY <1>1, <1>13, <2>1, CareGoesOn
<1>18. QED  BY <1>14, <1>15, <1>16, <1>17 DEF DaysInv

(* The night is not over before its day is called for and decided. *)
LEMMA DaysTick ==
  ASSUME IInv, DaysInv, tick
  PROVE  DaysInv'
<1>1. /\ UNCHANGED <<runs, causes>> /\ fired' = FALSE /\ ~TriggerDue /\ now' = now + 1 /\ now \in Nat
      /\ \A q \in Requests : request[q].at # "decide"
  BY NowIsNat DEF tick, At, IInv
<1>2. \A q \in Requests :
        /\ request'[q].at = request[q].at /\ request'[q].trigger = request[q].trigger
        /\ request'[q].date = request[q].date /\ request'[q].run = request[q].run
  <2> SUFFICES ASSUME NEW q \in Requests
      PROVE /\ request'[q].at = request[q].at /\ request'[q].trigger = request[q].trigger
            /\ request'[q].date = request[q].date /\ request'[q].run = request[q].run
    OBVIOUS
  <2>1. request[q] \in Calls  BY DEF IInv, TypeOK
  <2>2. request'[q] = [request[q] EXCEPT !.old = request[q].at # "idle"]  BY DEF tick
  <2>3. QED  BY <2>1, <2>2 DEF Calls
<1>3. \A d \in Days : Held(d) => Held(d)'
  <2>1. \A p \in Requests, d \in Days : Enqueues(request[p], d) => Enqueues(request'[p], d)
    BY <1>2 DEF Enqueues
  <2>2. QED  BY <1>1, <2>1, HeldStays
<1>4. \A d \in Days : Covered(d) => Covered(d)'
  <2>1. \A p \in Requests, d \in Days : Carries(request[p], d) => Carries(request'[p], d)
    BY <1>2 DEF Carries
  <2>2. QED  BY <1>3, <2>1, CoveredStays
<1>5. CallsAreDated'  BY <1>1, <1>2 DEF DaysInv, CallsAreDated, Dated
<1>6. OneRunADay'  BY <1>1 DEF DaysInv, OneRunADay
<1>7. RunsAreHeld'
  <2>1. \A d \in Days : RanOn(d)' => RanOn(d)  BY <1>1 DEF RanOn
  <2>2. QED  BY <1>3, <2>1 DEF DaysInv, RunsAreHeld
<1>8. TodayIsCaredFor'  BY <1>1 DEF TodayIsCaredFor
<1>9. PastIsCovered'
  <2> SUFFICES ASSUME NEW d \in Days, Weekday(d), FirstMoment <= 2 * d - 1, 2 * d - 1 < now'
               PROVE  Covered(d)
    BY <1>4 DEF PastIsCovered
  <2>1. d \in Nat  BY DEF Days
  <2>2. CASE 2 * d - 1 < now  BY <2>2 DEF DaysInv, PastIsCovered
  <2>3. CASE 2 * d - 1 = now
    <3>1. Night(now) /\ Today = d  BY <1>1, <2>1, <2>3 DEF Night, Today, KstDate
    <3>2. fired  BY <1>1, <3>1 DEF TriggerDue, Today
    <3>3. QED  BY <1>1, <3>1, <3>2 DEF DaysInv, TodayIsCaredFor
  <2>4. QED  BY <1>1, <2>1, <2>2, <2>3
<1>10. QED  BY <1>5, <1>6, <1>7, <1>8, <1>9 DEF DaysInv

(* Every step keeps the days covered. *)
LEMMA DaysStep == IInv /\ DaysInv /\ [Next]_vars => DaysInv'
<1> SUFFICES ASSUME IInv, DaysInv, [Next]_vars PROVE DaysInv'  OBVIOUS
<1>1. CASE trigger_lost \/ fill \/ set_schedule \/ cleanup_by_capacity \/ UNCHANGED vars  BY <1>1, DaysWorld
<1>2. CASE \E q \in Requests :
             \/ private_trigger_run(q) \/ call_by_hand(q) \/ start_manually(q)
             \/ decide(q) \/ startRun(q) \/ request_lost(q)
  BY <1>2, DaysCalls, DaysDecide, DaysPrepare, DaysInsert, DaysEnqueue, DaysLost DEF startRun
<1>3. CASE tick  BY <1>3, DaysTick
<1>4. QED  BY <1>1, <1>2, <1>3 DEF Next

(* A weekday whose call no process still holds has its run, for any number of
   calls at a time: the night ends only after pg_cron has called, what it found
   was decided at once, and a decided call carries the day until its run has
   jobs or a note says why not. *)
THEOREM EveryWeekdayRuns == Spec => []EachWeekdayHasItsRun
<1>1. ASSUME IInv, DaysInv PROVE EachWeekdayHasItsRun
  <2>1. ASSUME NEW d \in KstDate(FirstMoment) .. UtcDate(now), Weekday(d),
               2 * d - 1 >= FirstMoment, now > 2 * d - 1, \A q \in Requests : request[q].date # d
        PROVE  causes[d] # {} \/ HasJobs(d)
    <3>1. now \in Nat /\ now <= LastMoment /\ LastMoment \in Nat /\ FirstMoment \in Nat
      BY <1>1, NowIsNat, CalendarAssumption DEF IInv, TypeOK
    <3>2. KstDate(FirstMoment) \in Nat /\ UtcDate(now) \in Nat /\ UtcDate(now) <= KstDate(LastMoment)
      BY <3>1 DEF KstDate, UtcDate
    <3>3. KstDate(LastMoment) \in Nat  BY <3>1 DEF KstDate
    <3>4. d \in Nat /\ d <= KstDate(LastMoment)  BY <2>1, <3>2, <3>3
    <3>5. d \in Days  BY <3>3, <3>4 DEF Days
    <3>6. Covered(d)  BY <1>1, <2>1, <3>1, <3>4, <3>5 DEF DaysInv, PastIsCovered
    <3>7. \A q \in Requests : ~Carries(request[q], d) /\ ~Enqueues(request[q], d)
      BY <2>1 DEF Carries, Enqueues
    <3>8. QED  BY <3>6, <3>7 DEF Covered, Held
  <2>2. QED  BY <1>1, <2>1 DEF EachWeekdayHasItsRun, DaysInv, OneRunADay, HasJobs
<1>2. Spec => []DaysInv
  <2>1. IInv /\ DaysInv /\ IInv' /\ [Next]_vars => DaysInv'  BY DaysStep
  <2>2. QED  BY <2>1, InitDays, Invariant, PTL DEF Spec
<1>3. QED  BY <1>1, <1>2, Invariant, PTL
=============================================================================
