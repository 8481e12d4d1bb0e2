--------------------------- MODULE SchedulerProofs ---------------------------
(***************************************************************************)
(* The invariants of the schedule engine, for every number of instances,   *)
(* schedules, runs and overlapping ticks.                                  *)
(***************************************************************************)
EXTENDS SchedulerInvariant, TLAPS

-----------------------------------------------------------------------------
(* What the operators on rows return *)

\* The first cron slot after a time is a time (nextCronOrMonthlyFire).
LEMMA CronFireIsTime ==
    ASSUME NEW t \in Nat PROVE nextCronOrMonthlyFire(t) \in Nat
<1>1. Period \in Nat /\ Period > 0
  BY TimingAssumption
<1>2. t \div Period \in Nat
  BY <1>1
<1>3. ((t \div Period) + 1) * Period \in Nat
  BY <1>1, <1>2
<1> QED
  BY <1>3 DEF nextCronOrMonthlyFire

\* A cold start always arms the cadence, for whatever row it is asked.
LEMMA ColdStartIsTime ==
    ASSUME NEW s, NEW t \in Nat PROVE coldStart(s, t) \in Nat
<1>1. t + Period \in Nat
  BY TimingAssumption
<1> QED
  BY <1>1, CronFireIsTime DEF coldStart

\* computeNextFireAt answers a time or null.
LEMMA ComputedFireIsTime ==
    ASSUME NEW s \in Schedule, NEW t \in Nat
    PROVE computeNextFireAt(s, t) \in Nat \cup {None}
<1>1. Period \in Nat
  BY TimingAssumption
<1>2. s.restBase \in Nat
  BY DEF Schedule
<1>3. nextIntervalFire(s.restBase, t) \in Nat
  BY <1>1, <1>2 DEF nextIntervalFire
<1> QED
  BY CronFireIsTime, <1>3 DEF computeNextFireAt

\* create() inserts a well-formed row.
LEMMA NewRowIsSchedule ==
    ASSUME NEW shape \in Shapes, NEW t \in Nat PROVE NewRow(shape, t) \in Schedule
<1>1. shape \in [recurring : BOOLEAN, manual : BOOLEAN, interval : BOOLEAN]
  BY SchedulerAssumption
<1>2. \A s : coldStart(s, t) \in Nat
  BY ColdStartIsTime
<1> QED
  BY <1>1, <1>2 DEF NewRow, Schedule, Statuses

\* An UPDATE leaves a well-formed row.
LEMMA UpdatedIsSchedule ==
    ASSUME NEW s \in Schedule, NEW set \in SetClause PROVE Updated(s, set) \in Schedule
  BY SchedulerAssumption DEF Updated, Column, SetClause, Schedule, Fires

\* So does the replan after a fire, whatever snapshot it is decided on.
LEMMA ReplannedIsSchedule ==
    ASSUME NEW s \in Schedule, NEW seen, NEW t \in Nat
    PROVE Replanned(s, seen, t) \in Schedule
<1>1. coldStart(seen, t) \in Nat
  BY ColdStartIsTime
<1> QED
  BY <1>1 DEF Replanned, Schedule, Statuses

\* So does the replan after a force release.
LEMMA StalledReplanIsSchedule ==
    ASSUME NEW s \in Schedule, NEW seen \in Schedule, NEW t \in Nat
    PROVE StalledReplan(s, seen, t) \in Schedule
<1>1. computeNextFireAt(seen, t) \in Nat \cup {None}
  BY ComputedFireIsTime
<1> QED
  BY <1>1 DEF StalledReplan, Schedule, Statuses

\* update() builds a set clause an UPDATE can apply.
LEMMA PatchSetIsSetClause ==
    ASSUME NEW s \in Schedule, NEW patch \in Patches, NEW t \in Nat
    PROVE PatchSet(s, patch, t) \in SetClause
<1>1. patch \in [recurring : BOOLEAN \cup {Keep}, manual : BOOLEAN \cup {Keep},
                 interval : BOOLEAN \cup {Keep}]
  BY SchedulerAssumption
<1>2. \A x : coldStart(x, t) \in Nat
  BY ColdStartIsTime
<1> QED
  BY <1>1, <1>2 DEF PatchSet, SetClause, Statuses, Fires

\* What an instance caches of a row is a fire time, null, or nothing.
LEMMA CachedIsFire ==
    ASSUME DbTypeOK, NEW s \in Schedules PROVE Cached(s) \in Fires \cup {Absent}
  BY DEF DbTypeOK, Schedule, Cached, Fires

-----------------------------------------------------------------------------
(* What the shared parts of the actions do to the types *)

\* A reply leaves the fault budget a number.
LEMMA ReplyTypes ==
    ASSUME BoundTypeOK, NEW site, NEW o, Reply(site, o) PROVE faults' \in Nat
  BY DEF BoundTypeOK, Reply

\* Going on to an await keeps the type of pc.
LEMMA GotoTypes ==
    ASSUME ContTypeOK, NEW r \in Runs, NEW where \in Awaits, Goto(r, where)
    PROVE pc' \in [Runs -> Awaits]
  BY DEF ContTypeOK, Goto

\* Returning from a fire keeps the types of the continuation and the registry.
LEMMA ExitTypes ==
    ASSUME TypeOK, NEW r \in Runs, Exit(r) PROVE ContTypeOK' /\ AttemptTypeOK'
<1>1. NoFrame \in Frame
  BY DEF NoFrame, Frame, Row
<1>2. ContTypeOK'
  BY <1>1 DEF TypeOK, ContTypeOK, Exit, Awaits
<1>3. AttemptTypeOK'
  BY DEF TypeOK, AttemptTypeOK, Exit, finishInflightAttempt, Phases
<1> QED
  BY <1>2, <1>3

\* So does launching it.
LEMMA LaunchTypes ==
    ASSUME TypeOK, NEW r \in Runs, Launch(r) PROVE ContTypeOK' /\ AttemptTypeOK'
<1>1. CASE phase[r] = "none"
  BY <1>1, ExitTypes DEF Launch
<1>2. CASE phase[r] # "none"
  BY <1>2 DEF TypeOK, ContTypeOK, AttemptTypeOK, Launch, Goto, Awaits, Phases,
              ScheduleRunPhase
<1> QED
  BY <1>1, <1>2

\* The end of a force release keeps the type of the registry.
LEMMA EndForceTypes ==
    ASSUME AttemptTypeOK, NEW r \in Runs, EndForce(r) PROVE AttemptTypeOK'
<1>1. NoForce \in ForceState
  BY DEF NoForce, ForceState, Row
<1> QED
  BY <1>1 DEF AttemptTypeOK, EndForce, Phases

\* Caching a fire time keeps the type of the cache.
LEMMA RememberTypes ==
    ASSUME CacheTypeOK, NEW i \in Instances, NEW s \in Schedules,
           NEW when \in Fires \cup {Absent},
           Remember(i, s, when) \/ RememberIfActive(i, s, when) \/ UNCHANGED activeSchedules
    PROVE activeSchedules' \in [Instances -> [Schedules -> Fires \cup {Absent}]]
  BY DEF CacheTypeOK, Remember, RememberIfActive

\* So does emptying it.
LEMMA EmptyCacheTypes ==
    ASSUME CacheTypeOK, NEW i \in Instances, EmptyCache(i)
    PROVE activeSchedules' \in [Instances -> [Schedules -> Fires \cup {Absent}]]
  BY DEF CacheTypeOK, EmptyCache

\* Settling the ticket of a replan keeps the type of pendingReplans.
LEMMA PendingTypes ==
    ASSUME CacheTypeOK, NEW i \in Instances, NEW s \in Schedules, NEW o, Pending(i, s, o)
    PROVE pendingReplans' \in [Instances -> SUBSET Schedules]
  BY DEF CacheTypeOK, Pending

\* Writing a well-formed row keeps the type of the table.
LEMMA WriteRowTypes ==
    ASSUME DbTypeOK, NEW s \in Schedules, NEW after \in Schedule, NEW o,
           row' = IF Exists(row[s]) THEN [row EXCEPT ![s] = Effect(o, after, @)] ELSE row
    PROVE row' \in [Schedules -> Schedule]
  BY DEF DbTypeOK, Effect

\* Writing a run status keeps the type of the table of runs.
LEMMA WriteRunTypes ==
    ASSUME DbTypeOK, NEW r \in Runs, NEW status \in RunStatus, NEW o,
           \/ runRow' = [runRow EXCEPT ![r] = IF @ = "none" THEN @ ELSE Effect(o, status, @)]
           \/ runRow' = [runRow EXCEPT ![r] = Effect(o, status, @)]
           \/ runRow' = [runRow EXCEPT ![r] = Effect(o, "none", @)]
           \/ runRow' = runRow
    PROVE runRow' \in [Runs -> RunStatus \cup {"none"}]
  BY DEF DbTypeOK, Effect

\* The walk of a tick is a tick.
LEMMA WalkTypes ==
    ASSUME NEW todo \in SUBSET Schedules,
           NEW first \in {"reschedGet", "retryGet"}
    PROVE Walk(todo, first, "pick") \in Tick
  BY DEF Walk, IdleTick, Tick, Row

\* A tick that goes on keeps the type of the ticks.
LEMMA SetTickTypes ==
    ASSUME CallTypeOK, NEW i \in Instances, NEW k \in Ticks, NEW t \in Tick, SetTick(i, k, t)
    PROVE tick' \in [Instances -> [Ticks -> Tick]]
  BY DEF CallTypeOK, SetTick

\* The end of a CRUD call keeps the type of the queue.
LEMMA EndMutationTypes ==
    ASSUME CallTypeOK, NEW i \in Instances, NEW s \in Schedules, EndMutation(i, s)
    PROVE mutation' \in [Instances -> [Schedules -> Mutation]]
<1>1. NoMutation \in Mutation
  BY DEF NoMutation, Mutation, SetNothing, SetClause
<1> QED
  BY <1>1 DEF CallTypeOK, EndMutation

\* The UPDATE that closes a force release keeps the types of what it touches.
LEMMA WriteStalledReplanTypes ==
    ASSUME TypeOK, NEW i \in Instances, NEW s \in Schedules, NEW seen \in Schedule,
           NEW t \in Nat, NEW o, WriteStalledReplan(i, s, seen, t, o)
    PROVE row' \in [Schedules -> Schedule] /\ CacheTypeOK' /\ faults' \in Nat
<1> DEFINE after == StalledReplan(row[s], seen, t)
<1>1. after \in Schedule
  BY StalledReplanIsSchedule DEF TypeOK, DbTypeOK
<1>2. after.nextFireAt \in Fires \cup {Absent} /\ Absent \in Fires \cup {Absent}
  BY <1>1 DEF Schedule, Fires
<1>3. row' \in [Schedules -> Schedule]
  BY <1>1, WriteRowTypes DEF WriteStalledReplan, TypeOK
<1>4. \/ Remember(i, s, Absent) \/ RememberIfActive(i, s, after.nextFireAt)
      \/ UNCHANGED activeSchedules
  BY DEF WriteStalledReplan
<1>5. activeSchedules' \in [Instances -> [Schedules -> Fires \cup {Absent}]]
  BY <1>2, <1>4, RememberTypes DEF TypeOK
<1>6. pendingReplans' \in [Instances -> SUBSET Schedules]
  BY PendingTypes DEF WriteStalledReplan, TypeOK
<1>7. faults' \in Nat
  BY ReplyTypes DEF WriteStalledReplan, TypeOK
<1> QED
  BY <1>3, <1>5, <1>6, <1>7 DEF CacheTypeOK
-----------------------------------------------------------------------------
(* Type correctness, action by action *)

\* The continuation of a fire keeps every type when a storage call answers.
LEMMA FireStepTypes ==
    ASSUME IInv, NEW r \in Runs, FireStep(r) PROVE TypeOK'
<1>0. PICK o \in Replies :
          \/ claimDueFire(r, o) \/ RefreshCache(r, o)
          \/ LoadSchedule(r, o) \/ insertRun(r, o) \/ Bookkeep(r, o)
          \/ deleteRunOnDefer(r, o) \/ rearmDeferred(r, o)
          \/ recordVerdict(r, o) \/ rereadSchedule(r, o) \/ replan(r, o)
          \/ stampFinished(r, o)
  BY DEF FireStep
<1> DEFINE i == owner[r]
           s == target[r]
<1>a. TypeOK /\ DbTypeOK /\ ContTypeOK /\ AttemptTypeOK /\ CacheTypeOK /\ BoundTypeOK
  BY DEF IInv, TypeOK
<1>b. ASSUME pc[r] # "unused" PROVE i \in Instances /\ s \in Schedules /\ row[s] \in Schedule
  BY <1>a, <1>b DEF IInv, RunInv, Linked, DbTypeOK
<1>c. now \in Nat /\ frame[r] \in Frame
  BY <1>a DEF BoundTypeOK, ContTypeOK
<1>1. CASE claimDueFire(r, o)
  <2>1. i \in Instances /\ s \in Schedules /\ row[s] \in Schedule
    BY <1>b, <1>1 DEF claimDueFire
  <2>2. [row[s] EXCEPT !.nextFireAt = None] \in Schedule
    BY <2>1 DEF Schedule
  <2>3. row' \in [Schedules -> Schedule]
    BY <1>1, <1>a, <2>1, <2>2 DEF claimDueFire, DbTypeOK
  <2>4. frame[r].token \in Fires \cup {Absent}
    BY <1>c DEF Frame, Fires
  <2>5. activeSchedules' \in [Instances -> [Schedules -> Fires \cup {Absent}]]
    BY <1>1, <1>a, <2>1, <2>4, RememberTypes DEF claimDueFire, attemptVars
  <2>6. ContTypeOK' /\ AttemptTypeOK'
    BY <1>1, <1>a, ExitTypes DEF claimDueFire, Goto, Moved, ContTypeOK, AttemptTypeOK,
       attemptVars, Awaits, PreRegister, Phases, ScheduleRunPhase
  <2>7. faults' \in Nat
    BY <1>1, <1>a, ReplyTypes DEF claimDueFire
  <2> QED
    BY <1>1, <1>a, <2>3, <2>5, <2>6, <2>7 DEF claimDueFire, TypeOK, DbTypeOK, IdTypeOK,
       CacheTypeOK, HostTypeOK, CallTypeOK, BoundTypeOK, idVars, hostVars, callVars
<1>2. CASE RefreshCache(r, o)
  <2>1. i \in Instances /\ s \in Schedules
    BY <1>b, <1>2 DEF RefreshCache
  <2>2. activeSchedules' \in [Instances -> [Schedules -> Fires \cup {Absent}]]
    BY <1>2, <1>a, <2>1, CachedIsFire, RememberTypes DEF RefreshCache
  <2>3. ContTypeOK' /\ AttemptTypeOK' /\ faults' \in Nat
    BY <1>2, <1>a, ExitTypes, ReplyTypes DEF RefreshCache
  <2> QED
    BY <1>2, <1>a, <2>2, <2>3 DEF RefreshCache, TypeOK, DbTypeOK, IdTypeOK,
       CacheTypeOK, HostTypeOK, CallTypeOK, BoundTypeOK, dbVars, idVars, hostVars, callVars
<1>3. CASE LoadSchedule(r, o)
  <2>1. row[s] \in Schedule
    BY <1>b, <1>3 DEF LoadSchedule
  <2>2. [frame[r] EXCEPT !.seen = row[s]] \in Frame
    BY <1>c, <2>1 DEF Frame, Row
  <2>3. ContTypeOK' /\ AttemptTypeOK'
    BY <1>3, <1>a, <2>2, ExitTypes DEF LoadSchedule, Goto, Moved, ContTypeOK, AttemptTypeOK,
       Awaits, PreRegister, Phases, ScheduleRunPhase
  <2>4. faults' \in Nat
    BY <1>3, <1>a, ReplyTypes DEF LoadSchedule
  <2> QED
    BY <1>3, <1>a, <2>3, <2>4 DEF LoadSchedule, TypeOK, DbTypeOK, IdTypeOK, CacheTypeOK,
       HostTypeOK, CallTypeOK, BoundTypeOK, dbVars, idVars, cacheVars, hostVars, callVars
<1>4. CASE insertRun(r, o)
  <2>1. runRow' \in [Runs -> RunStatus \cup {"none"}]
    BY <1>4, <1>a, WriteRunTypes DEF insertRun, RunStatus
  <2>2. ContTypeOK' /\ AttemptTypeOK'
    BY <1>4, <1>a, ExitTypes, LaunchTypes DEF insertRun, Goto, ContTypeOK, AttemptTypeOK,
       attemptVars, Awaits, PreRegister
  <2>3. faults' \in Nat
    BY <1>4, <1>a, ReplyTypes DEF insertRun
  <2> QED
    BY <1>4, <1>a, <2>1, <2>2, <2>3 DEF insertRun, TypeOK, DbTypeOK, IdTypeOK, CacheTypeOK,
       HostTypeOK, CallTypeOK, BoundTypeOK, idVars, cacheVars, hostVars, callVars
<1>5. CASE Bookkeep(r, o)
  <2>1. s \in Schedules /\ row[s] \in Schedule
    BY <1>b, <1>5 DEF Bookkeep
  <2>2. [row[s] EXCEPT !.lastFired = Effect(o, TRUE, row[s].lastFired)] \in Schedule
    BY <2>1 DEF Schedule, Effect
  <2>3. row' \in [Schedules -> Schedule]
    BY <1>5, <1>a, <2>1, <2>2 DEF Bookkeep, DbTypeOK
  <2>4. ContTypeOK' /\ AttemptTypeOK' /\ faults' \in Nat
    BY <1>5, <1>a, ExitTypes, LaunchTypes, ReplyTypes DEF Bookkeep
  <2> QED
    BY <1>5, <1>a, <2>3, <2>4 DEF Bookkeep, TypeOK, DbTypeOK, IdTypeOK, CacheTypeOK,
       HostTypeOK, CallTypeOK, BoundTypeOK, idVars, cacheVars, hostVars, callVars
<1>6. CASE deleteRunOnDefer(r, o)
  <2>1. runRow' \in [Runs -> RunStatus \cup {"none"}]
    BY <1>6, <1>a, WriteRunTypes DEF deleteRunOnDefer, RunStatus
  <2>2. ContTypeOK' /\ faults' \in Nat
    BY <1>6, <1>a, ReplyTypes DEF deleteRunOnDefer, Goto, ContTypeOK, Awaits, Settling
  <2> QED
    BY <1>6, <1>a, <2>1, <2>2 DEF deleteRunOnDefer, TypeOK, DbTypeOK, IdTypeOK, AttemptTypeOK,
       CacheTypeOK, HostTypeOK, CallTypeOK, BoundTypeOK, idVars, attemptVars, cacheVars,
       hostVars, callVars
<1>7. CASE rearmDeferred(r, o)
  <2> DEFINE retryAt == frame[r].finishedAt + DeferDelay
             rearmed == IF source[r] = "automatic"
                        THEN [row[s] EXCEPT !.nextFireAt = retryAt]
                        ELSE [row[s] EXCEPT !.nextFireAt = retryAt,
                                            !.lastFired = frame[r].seen.lastFired]
  <2>1. i \in Instances /\ s \in Schedules /\ row[s] \in Schedule
    BY <1>b, <1>7 DEF rearmDeferred
  <2>2. retryAt \in Nat
    BY <1>c, SchedulerAssumption DEF Frame
  <2>3. source[r] # "automatic" => frame[r].seen.lastFired \in BOOLEAN
    BY <1>7 DEF rearmDeferred, IInv, RunInv, Linked, FramesReady, KeepsSnapshot, Schedule
  <2>4. rearmed \in Schedule
    BY <2>1, <2>2, <2>3 DEF Schedule
  <2>5. row' \in [Schedules -> Schedule]
    BY <1>7, <1>a, <2>1, <2>4, WriteRowTypes DEF rearmDeferred
  <2>6. activeSchedules' \in [Instances -> [Schedules -> Fires \cup {Absent}]]
    BY <1>7, <1>a, <2>1, <2>2, RememberTypes DEF rearmDeferred, Fires
  <2>7. ContTypeOK' /\ AttemptTypeOK' /\ faults' \in Nat
    BY <1>7, <1>a, ExitTypes, ReplyTypes DEF rearmDeferred
  <2> QED
    BY <1>7, <1>a, <2>5, <2>6, <2>7 DEF rearmDeferred, TypeOK, DbTypeOK, IdTypeOK, CacheTypeOK,
       HostTypeOK, CallTypeOK, BoundTypeOK, idVars, hostVars, callVars
<1>8. CASE recordVerdict(r, o)
  <2>1. frame[r].verdict \in RunStatus
    BY <1>8 DEF recordVerdict, IInv, RunInv, FramesReady, Verdicts, RunStatus
  <2>2. runRow' \in [Runs -> RunStatus \cup {"none"}]
    BY <1>8, <1>a, <2>1, WriteRunTypes DEF recordVerdict
  <2>3. ContTypeOK' /\ AttemptTypeOK'
    BY <1>8, <1>a, ExitTypes DEF recordVerdict, Goto, ContTypeOK, AttemptTypeOK,
       attemptVars, Awaits, Settling
  <2>4. faults' \in Nat
    BY <1>8, <1>a, ReplyTypes DEF recordVerdict
  <2> QED
    BY <1>8, <1>a, <2>2, <2>3, <2>4 DEF recordVerdict, TypeOK, DbTypeOK, IdTypeOK, CacheTypeOK,
       HostTypeOK, CallTypeOK, BoundTypeOK, idVars, cacheVars, hostVars, callVars
<1>9. CASE rereadSchedule(r, o)
  <2>1. row[s] \in Schedule
    BY <1>b, <1>9 DEF rereadSchedule
  <2>2. [frame[r] EXCEPT !.seen = row[s]] \in Frame
    BY <1>c, <2>1 DEF Frame, Row
  <2>3. ContTypeOK' /\ AttemptTypeOK'
    BY <1>9, <1>a, <2>2, ExitTypes DEF rereadSchedule, Goto, ContTypeOK, AttemptTypeOK,
       attemptVars, Awaits, Settling
  <2>4. faults' \in Nat
    BY <1>9, <1>a, ReplyTypes DEF rereadSchedule
  <2> QED
    BY <1>9, <1>a, <2>3, <2>4 DEF rereadSchedule, TypeOK, DbTypeOK, IdTypeOK, CacheTypeOK,
       HostTypeOK, CallTypeOK, BoundTypeOK, dbVars, idVars, cacheVars, hostVars, callVars
<1>10. CASE replan(r, o)
  <2> DEFINE after == Replanned(row[s], frame[r].seen, frame[r].finishedAt)
  <2>1. i \in Instances /\ s \in Schedules /\ row[s] \in Schedule
    BY <1>b, <1>10 DEF replan
  <2>2. after \in Schedule
    BY <2>1, <1>c, ReplannedIsSchedule DEF Frame
  <2>3. row' \in [Schedules -> Schedule]
    BY <1>10, <1>a, <2>1, <2>2, WriteRowTypes DEF replan
  <2>4. after.nextFireAt \in Fires \cup {Absent}
    BY <2>2 DEF Schedule, Fires
  <2>5. activeSchedules' \in [Instances -> [Schedules -> Fires \cup {Absent}]]
    BY <1>10, <1>a, <2>1, <2>4, RememberTypes DEF replan
  <2>6. ContTypeOK' /\ AttemptTypeOK' /\ faults' \in Nat
    BY <1>10, <1>a, ExitTypes, ReplyTypes DEF replan
  <2> QED
    BY <1>10, <1>a, <2>3, <2>5, <2>6 DEF replan, TypeOK, DbTypeOK, IdTypeOK, CacheTypeOK,
       HostTypeOK, CallTypeOK, BoundTypeOK, idVars, hostVars, callVars
<1>11. CASE stampFinished(r, o)
  <2>1. s \in Schedules /\ row[s] \in Schedule
    BY <1>b, <1>11 DEF stampFinished
  <2>2. [row[s] EXCEPT !.restBase = Effect(o, frame[r].finishedAt, row[s].restBase)] \in Schedule
    BY <1>c, <2>1 DEF Schedule, Effect, Frame
  <2>3. row' \in [Schedules -> Schedule]
    BY <1>11, <1>a, <2>1, <2>2 DEF stampFinished, DbTypeOK
  <2>4. ContTypeOK' /\ AttemptTypeOK' /\ faults' \in Nat
    BY <1>11, <1>a, ExitTypes, ReplyTypes DEF stampFinished
  <2> QED
    BY <1>11, <1>a, <2>3, <2>4 DEF stampFinished, TypeOK, DbTypeOK, IdTypeOK, CacheTypeOK,
       HostTypeOK, CallTypeOK, BoundTypeOK, idVars, cacheVars, hostVars, callVars
<1> QED
  BY <1>0, <1>1, <1>2, <1>3, <1>4, <1>5, <1>6, <1>7, <1>8, <1>9, <1>10, <1>11
\* The runner's callbacks and its return keep every type.
LEMMA RunnerStepTypes ==
    ASSUME IInv, NEW r \in Runs, RunnerStep(r) PROVE TypeOK'
<1>a. TypeOK /\ ContTypeOK /\ AttemptTypeOK /\ BoundTypeOK
  BY DEF IInv, TypeOK
<1>b. now \in Nat /\ frame[r] \in Frame /\ NoFrame \in Frame
  BY <1>a DEF BoundTypeOK, ContTypeOK, NoFrame, Frame, Row
<1>1. CASE onQueueWaitStart(r)
  <2>1. [frame[r] EXCEPT !.waited = TRUE] \in Frame
    BY <1>b DEF Frame
  <2>2. ContTypeOK' /\ AttemptTypeOK'
    BY <1>1, <1>a, <2>1 DEF onQueueWaitStart, ContTypeOK, AttemptTypeOK, Phases,
       ScheduleRunPhase
  <2> QED
    BY <1>1, <1>a, <2>2 DEF onQueueWaitStart, TypeOK, DbTypeOK, IdTypeOK, CacheTypeOK,
       HostTypeOK, CallTypeOK, BoundTypeOK, dbVars, idVars, cacheVars, hostVars, callVars,
       boundVars
<1>2. CASE reclaimSlot(r) \/ endQueueWait(r)
  <2>1. AttemptTypeOK'
    BY <1>2, <1>a DEF reclaimSlot, endQueueWait, AttemptTypeOK, Phases, ScheduleRunPhase
  <2> QED
    BY <1>2, <1>a, <2>1 DEF reclaimSlot, endQueueWait, TypeOK, DbTypeOK, IdTypeOK, ContTypeOK,
       CacheTypeOK, HostTypeOK, CallTypeOK, BoundTypeOK, dbVars, idVars, contVars, cacheVars,
       hostVars, callVars, boundVars
<1>3. CASE \E outcome \in Outcomes : Settle(r, outcome)
  <2>1. PICK outcome \in Outcomes : Settle(r, outcome)
    BY <1>3
  <2>2. outcome # "deferred" \/ wasRunAborted(r, outcome) => VerdictOf(r, outcome) \in Verdicts
    BY SchedulerAssumption DEF VerdictOf, Verdicts, OutcomeKinds
  <2> DEFINE undo == outcome = "deferred" /\ ~wasRunAborted(r, outcome)
             next == [frame[r] EXCEPT !.finishedAt = now,
                                      !.verdict = IF undo THEN None
                                                  ELSE VerdictOf(r, outcome)]
  <2>3. next \in Frame
    BY <1>b, <2>2 DEF Frame
  <2>4. ContTypeOK'
    BY <2>1, <1>a, <1>b, <2>3 DEF Settle, Goto, ContTypeOK, Awaits, Settling
  <2>5. AttemptTypeOK'
    BY <2>1, <1>a DEF Settle, AttemptTypeOK, finishInflightAttempt, Moved, Phases,
       ScheduleRunPhase
  <2> QED
    BY <2>1, <1>a, <2>4, <2>5 DEF Settle, TypeOK, DbTypeOK, IdTypeOK, CacheTypeOK, HostTypeOK,
       CallTypeOK, BoundTypeOK, dbVars, idVars, cacheVars, hostVars, callVars, boundVars
<1> QED
  BY <1>1, <1>2, <1>3 DEF RunnerStep

\* The stall guard keeps every type.
LEMMA GuardStepTypes ==
    ASSUME IInv, NEW r \in Runs, GuardStep(r) PROVE TypeOK'
<1>a. TypeOK /\ AttemptTypeOK /\ BoundTypeOK
  BY DEF IInv, TypeOK
<1>1. [stage |-> "write", at |-> now, seen |-> None] \in ForceState
  BY <1>a DEF ForceState, BoundTypeOK, Row
<1>2. AttemptTypeOK'
  BY <1>a, <1>1 DEF GuardStep, stallAbort, forceReleaseStalledRun, AttemptTypeOK, Phases,
     ScheduleRunPhase
<1> QED
  BY <1>a, <1>2 DEF GuardStep, stallAbort, forceReleaseStalledRun, TypeOK, DbTypeOK, IdTypeOK,
     ContTypeOK, CacheTypeOK, HostTypeOK, CallTypeOK, BoundTypeOK, dbVars, idVars, contVars,
     cacheVars, hostVars, callVars, boundVars

\* A force release keeps every type when a storage call answers.
LEMMA ForceStepTypes ==
    ASSUME IInv, NEW r \in Runs, ForceStep(r) PROVE TypeOK'
<1>0. PICK o \in Replies : forceRecord(r, o) \/ forceReread(r, o) \/ forceReplan(r, o)
  BY DEF ForceStep
<1> DEFINE i == owner[r]
           s == target[r]
<1>a. TypeOK /\ DbTypeOK /\ AttemptTypeOK /\ CacheTypeOK /\ BoundTypeOK
  BY DEF IInv, TypeOK
<1>b. i \in Instances /\ s \in Schedules /\ row[s] \in Schedule /\ force[r] \in ForceState
  BY <1>0, <1>a DEF IInv, RunInv, ForceOwned, Linked, DbTypeOK, AttemptTypeOK, forceRecord,
     forceReread, forceReplan
<1>1. CASE forceRecord(r, o)
  <2>1. runRow' \in [Runs -> RunStatus \cup {"none"}]
    BY <1>1, <1>a, WriteRunTypes DEF forceRecord, RunStatus
  <2>2. [force[r] EXCEPT !.stage = "get"] \in ForceState
    BY <1>b DEF ForceState
  <2>3. AttemptTypeOK'
    BY <1>1, <1>a, <2>2, EndForceTypes DEF forceRecord, AttemptTypeOK
  <2>4. faults' \in Nat
    BY <1>1, <1>a, ReplyTypes DEF forceRecord
  <2> QED
    BY <1>1, <1>a, <2>1, <2>3, <2>4 DEF forceRecord, TypeOK, DbTypeOK, IdTypeOK, ContTypeOK,
       CacheTypeOK, HostTypeOK, CallTypeOK, BoundTypeOK, idVars, contVars, cacheVars,
       hostVars, callVars
<1>2. CASE forceReread(r, o)
  <2>1. [force[r] EXCEPT !.stage = "put", !.seen = row[s]] \in ForceState
    BY <1>b DEF ForceState, Row
  <2>2. AttemptTypeOK'
    BY <1>2, <1>a, <2>1, EndForceTypes DEF forceReread, AttemptTypeOK
  <2>3. pendingReplans' \in [Instances -> SUBSET Schedules]
    BY <1>2, <1>a, <1>b, PendingTypes DEF forceReread, CacheTypeOK
  <2>4. faults' \in Nat
    BY <1>2, <1>a, ReplyTypes DEF forceReread
  <2> QED
    BY <1>2, <1>a, <2>2, <2>3, <2>4 DEF forceReread, TypeOK, DbTypeOK, IdTypeOK, ContTypeOK,
       CacheTypeOK, HostTypeOK, CallTypeOK, BoundTypeOK, dbVars, idVars, contVars, hostVars,
       callVars
<1>3. CASE forceReplan(r, o)
  <2>1. force[r].seen \in Schedule /\ force[r].at \in Nat
    BY <1>3, <1>b DEF forceReplan, IInv, RunInv, FramesReady, ForceState
  <2>2. row' \in [Schedules -> Schedule] /\ CacheTypeOK' /\ faults' \in Nat
    BY <1>3, <1>a, <1>b, <2>1, WriteStalledReplanTypes DEF forceReplan
  <2>3. AttemptTypeOK'
    BY <1>3, <1>a, EndForceTypes DEF forceReplan
  <2> QED
    BY <1>3, <1>a, <2>2, <2>3 DEF forceReplan, TypeOK, DbTypeOK, IdTypeOK, ContTypeOK,
       HostTypeOK, CallTypeOK, BoundTypeOK, idVars, contVars, hostVars, callVars
<1> QED
  BY <1>0, <1>1, <1>2, <1>3

\* A tick keeps every type, whatever it does at its next await.
LEMMA TickStepTypes ==
    ASSUME IInv, NEW i \in Instances, NEW k \in Ticks, TickStep(i, k) PROVE TypeOK'
<1>a. TypeOK /\ DbTypeOK /\ CacheTypeOK /\ CallTypeOK /\ BoundTypeOK /\ IdTypeOK
  BY DEF IInv, TypeOK
<1>b. now \in Nat /\ tick[i][k] \in Tick /\ tick[i][k].todo \in SUBSET Schedules
  BY <1>a DEF BoundTypeOK, CallTypeOK, Tick
<1>c. \A todo \in SUBSET Schedules : \A s : todo \ {s} \in SUBSET Schedules
  OBVIOUS
<1>d. AfterSweep(i) \in Tick
  BY <1>a, WalkTypes DEF AfterSweep, CacheTypeOK
<1>e. \A s : AfterReschedule(i, k, s) \in Tick /\ AfterRetry(i, k, s) \in Tick
  BY <1>b, <1>c, <1>d, WalkTypes DEF AfterReschedule, AfterRetry
<1>f. \A first \in {"idle", "sync", "sweep"} : [IdleTick EXCEPT !.pc = first] \in Tick
  BY DEF IdleTick, Tick, Row
<1>g. IdleTick \in Tick
  BY DEF IdleTick, Tick, Row
<1>1. CASE SyncTick(i, k) \/ RetryTick(i, k)
  <2>1. tick' \in [Instances -> [Ticks -> Tick]]
    BY <1>1, <1>a, <1>d, <1>f, SetTickTypes DEF SyncTick, RetryTick, BeginTick
  <2> QED
    BY <1>1, <1>a, <2>1 DEF SyncTick, RetryTick, BeginTick, TypeOK, DbTypeOK, IdTypeOK,
       ContTypeOK, AttemptTypeOK, CacheTypeOK, HostTypeOK, CallTypeOK, BoundTypeOK, dbVars,
       idVars, contVars, attemptVars, cacheVars, hostVars, boundVars
<1>2. ASSUME NEW o \in Replies, SyncCache(i, k, o) PROVE TypeOK'
  <2>1. Reloaded(i) \in [Schedules -> Fires \cup {Absent}]
    BY <1>a, CachedIsFire DEF Reloaded
  <2>2. activeSchedules' \in [Instances -> [Schedules -> Fires \cup {Absent}]]
    BY <1>2, <1>a, <2>1 DEF SyncCache, CacheTypeOK
  <2>3. tick' \in [Instances -> [Ticks -> Tick]] /\ faults' \in Nat
    BY <1>2, <1>a, <1>f, SetTickTypes, ReplyTypes DEF SyncCache
  <2> QED
    BY <1>2, <1>a, <2>2, <2>3 DEF SyncCache, TypeOK, DbTypeOK, IdTypeOK, ContTypeOK,
       AttemptTypeOK, CacheTypeOK, HostTypeOK, CallTypeOK, BoundTypeOK, dbVars, idVars,
       contVars, attemptVars, hostVars
<1>3. ASSUME NEW o \in Replies, sweepStaleRunningRuns(i, k, o) PROVE TypeOK'
  <2>1. Affected \in SUBSET Schedules
    BY DEF Affected, StaleRuns, Stale, IInv, RunInv, Linked
  <2>2. Walk(Affected, "reschedGet", "pick") \in Tick
    BY <2>1, WalkTypes
  <2>3. tick' \in [Instances -> [Ticks -> Tick]] /\ faults' \in Nat
    BY <1>3, <1>a, <1>d, <2>2, SetTickTypes, ReplyTypes DEF sweepStaleRunningRuns
  <2>4. runRow' \in [Runs -> RunStatus \cup {"none"}]
    BY <1>3, <1>a DEF sweepStaleRunningRuns, markRunningAsInterrupted, DbTypeOK, RunStatus
  <2> QED
    BY <1>3, <1>a, <2>3, <2>4 DEF sweepStaleRunningRuns, TypeOK, DbTypeOK, IdTypeOK, ContTypeOK,
       AttemptTypeOK, CacheTypeOK, HostTypeOK, CallTypeOK, BoundTypeOK, idVars, contVars,
       attemptVars, cacheVars, hostVars
<1>4. ASSUME NEW o \in Replies, NEW s \in Schedules, reschedGet(i, k, s, o) PROVE TypeOK'
  <2>1. [tick[i][k] EXCEPT !.pc = "reschedCheck", !.cur = s, !.seen = row[s]] \in Tick
    BY <1>a, <1>b DEF Tick, Row, DbTypeOK
  <2>2. tick' \in [Instances -> [Ticks -> Tick]] /\ faults' \in Nat
    BY <1>4, <1>a, <1>e, <2>1, SetTickTypes, ReplyTypes DEF reschedGet
  <2> QED
    BY <1>4, <1>a, <2>2 DEF reschedGet, TypeOK, DbTypeOK, IdTypeOK, ContTypeOK, AttemptTypeOK,
       CacheTypeOK, HostTypeOK, CallTypeOK, BoundTypeOK, dbVars, idVars, contVars, attemptVars,
       cacheVars, hostVars
<1>5. ASSUME NEW o \in Replies, reschedCheck(i, k, o) PROVE TypeOK'
  <2>1. [tick[i][k] EXCEPT !.pc = "reschedPut"] \in Tick
    BY <1>b DEF Tick
  <2>2. tick' \in [Instances -> [Ticks -> Tick]] /\ faults' \in Nat
    BY <1>5, <1>a, <1>e, <2>1, SetTickTypes, ReplyTypes DEF reschedCheck
  <2> QED
    BY <1>5, <1>a, <2>2 DEF reschedCheck, TypeOK, DbTypeOK, IdTypeOK, ContTypeOK, AttemptTypeOK,
       CacheTypeOK, HostTypeOK, CallTypeOK, BoundTypeOK, dbVars, idVars, contVars, attemptVars,
       cacheVars, hostVars
<1>6. ASSUME NEW o \in Replies, reschedPut(i, k, o) PROVE TypeOK'
  <2> DEFINE s == tick[i][k].cur
             next == computeNextFireAt(tick[i][k].seen, now)
  <2>1. s \in Schedules /\ tick[i][k].seen \in Schedule
    BY <1>6 DEF reschedPut, IInv, TicksReady
  <2>2. next \in Fires
    BY <1>b, <2>1, ComputedFireIsTime DEF Fires
  <2> HIDE DEF next
  <2>3. [row[s] EXCEPT !.nextFireAt = Effect(o, next, row[s].nextFireAt)] \in Schedule
    BY <1>a, <2>1, <2>2 DEF DbTypeOK, Schedule, Effect, Fires
  <2>4. row' \in [Schedules -> Schedule]
    BY <1>6, <1>a, <2>1, <2>3 DEF reschedPut, DbTypeOK, next
  <2>5. activeSchedules' \in [Instances -> [Schedules -> Fires \cup {Absent}]]
    BY <1>6, <1>a, <2>1, <2>2, RememberTypes DEF reschedPut, next
  <2>6. tick' \in [Instances -> [Ticks -> Tick]] /\ faults' \in Nat
    BY <1>6, <1>a, <1>e, SetTickTypes, ReplyTypes DEF reschedPut
  <2> QED
    BY <1>6, <1>a, <2>4, <2>5, <2>6 DEF reschedPut, TypeOK, DbTypeOK, IdTypeOK, ContTypeOK,
       AttemptTypeOK, CacheTypeOK, HostTypeOK, CallTypeOK, BoundTypeOK, idVars, contVars,
       attemptVars, hostVars
<1>7. ASSUME NEW o \in Replies, NEW s \in Schedules, retryGet(i, k, s, o) PROVE TypeOK'
  <2>1. [tick[i][k] EXCEPT !.pc = "retryPut", !.cur = s, !.seen = row[s]] \in Tick
    BY <1>a, <1>b DEF Tick, Row, DbTypeOK
  <2>2. tick' \in [Instances -> [Ticks -> Tick]] /\ faults' \in Nat
    BY <1>7, <1>a, <1>e, <2>1, SetTickTypes, ReplyTypes DEF retryGet
  <2>3. pendingReplans' \in [Instances -> SUBSET Schedules]
    BY <1>7, <1>a, PendingTypes DEF retryGet, CacheTypeOK
  <2> QED
    BY <1>7, <1>a, <2>2, <2>3 DEF retryGet, TypeOK, DbTypeOK, IdTypeOK, ContTypeOK,
       AttemptTypeOK, CacheTypeOK, HostTypeOK, CallTypeOK, BoundTypeOK, dbVars, idVars,
       contVars, attemptVars, hostVars
<1>8. ASSUME NEW o \in Replies, retryPut(i, k, o) PROVE TypeOK'
  <2>1. tick[i][k].cur \in Schedules /\ tick[i][k].seen \in Schedule
    BY <1>8 DEF retryPut, IInv, TicksReady
  <2>2. row' \in [Schedules -> Schedule] /\ CacheTypeOK' /\ faults' \in Nat
    BY <1>8, <1>a, <1>b, <2>1, WriteStalledReplanTypes DEF retryPut
  <2>3. tick' \in [Instances -> [Ticks -> Tick]]
    BY <1>8, <1>a, <1>e, SetTickTypes DEF retryPut
  <2> QED
    BY <1>8, <1>a, <2>2, <2>3 DEF retryPut, TypeOK, DbTypeOK, IdTypeOK, ContTypeOK,
       AttemptTypeOK, HostTypeOK, CallTypeOK, BoundTypeOK, idVars, contVars, attemptVars,
       hostVars
<1>9. ASSUME NEW S \in SUBSET Due(i), NEW runOf \in [S -> Runs], fireDue(i, k, S, runOf)
      PROVE TypeOK'
  <2> DEFINE started == {runOf[s] : s \in S}
             scheduleOf(r) == CHOOSE s \in S : runOf[s] = r
  <2>1. \A r \in started : scheduleOf(r) \in S
    OBVIOUS
  <2>2. S \subseteq Schedules
    BY DEF Due
  <2> HIDE DEF scheduleOf, started
  <2>3. \A r \in started : [NoFrame EXCEPT !.token = activeSchedules[i][scheduleOf(r)]] \in Frame
    <3> SUFFICES ASSUME NEW r \in started
                 PROVE [NoFrame EXCEPT !.token = activeSchedules[i][scheduleOf(r)]] \in Frame
      OBVIOUS
    <3>1. activeSchedules[i][scheduleOf(r)] \in Nat \cup {None}
      BY <1>a, <2>1, <2>2 DEF CacheTypeOK, Fires, Due
    <3> QED
      BY <3>1 DEF NoFrame, Frame, Row
  <2>4. IdTypeOK'
    BY <1>9, <1>a, <2>1, <2>2 DEF fireDue, IdTypeOK, started, scheduleOf
  <2>5. pc' \in [Runs -> Awaits] /\ phase' \in [Runs -> Phases]
    BY <1>9, <1>a DEF fireDue, TypeOK, ContTypeOK, AttemptTypeOK, Awaits, PreRegister, Phases,
       ScheduleRunPhase
  <2>6. frame' \in [Runs -> Frame]
    BY <1>9, <1>a, <2>3 DEF fireDue, TypeOK, ContTypeOK, started, scheduleOf
  <2>7. activeSchedules' \in [Instances -> [Schedules -> Fires \cup {Absent}]]
    BY <1>9, <1>a DEF fireDue, CacheTypeOK
  <2>8. tick' \in [Instances -> [Ticks -> Tick]]
    BY <1>9, <1>a, <1>g, SetTickTypes DEF fireDue
  <2> QED
    BY <1>9, <1>a, <2>4, <2>5, <2>6, <2>7, <2>8 DEF fireDue, TypeOK, DbTypeOK, ContTypeOK,
       AttemptTypeOK, CacheTypeOK, HostTypeOK, CallTypeOK, BoundTypeOK, dbVars, hostVars,
       boundVars
<1> QED
  BY <1>1, <1>2, <1>3, <1>4, <1>5, <1>6, <1>7, <1>8, <1>9 DEF TickStep
\* The writing half of a CRUD call keeps every type.
LEMMA MutationStepTypes ==
    ASSUME IInv, NEW i \in Instances, NEW s \in Schedules, MutationStep(i, s) PROVE TypeOK'
<1>0. PICK o \in Replies : pause(i, s, o) \/ delete(i, s, o) \/ writeMutation(i, s, o)
  BY DEF MutationStep
<1> DEFINE after == Updated(row[s], mutation[i][s].set)
<1>a. TypeOK /\ DbTypeOK /\ CacheTypeOK /\ CallTypeOK /\ BoundTypeOK
  BY DEF IInv, TypeOK
<1>b. row[s] \in Schedule /\ mutation[i][s].set \in SetClause
  BY <1>a DEF DbTypeOK, CallTypeOK, Mutation
<1>c. after \in Schedule
  BY <1>b, UpdatedIsSchedule
<1>d. after.nextFireAt \in Fires \cup {Absent} /\ Absent \in Fires \cup {Absent}
  BY <1>c DEF Schedule, Fires
<1>e. faults' \in Nat
  BY <1>0, <1>a, ReplyTypes DEF pause, delete, writeMutation
<1>f. mutation' \in [Instances -> [Schedules -> Mutation]]
  BY <1>0, <1>a, EndMutationTypes DEF pause, delete, writeMutation
<1> HIDE DEF after
<1>1. CASE pause(i, s, o) \/ writeMutation(i, s, o)
  <2>1. row' \in [Schedules -> Schedule]
    BY <1>1, <1>a, <1>b, <1>c DEF pause, writeMutation, DbTypeOK, Effect, after
  <2>2. activeSchedules' \in [Instances -> [Schedules -> Fires \cup {Absent}]]
    BY <1>1, <1>a, <1>d, RememberTypes DEF pause, writeMutation, after
  <2> QED
    BY <1>1, <1>a, <1>e, <1>f, <2>1, <2>2 DEF pause, writeMutation, TypeOK, DbTypeOK, IdTypeOK,
       ContTypeOK, AttemptTypeOK, CacheTypeOK, HostTypeOK, CallTypeOK, BoundTypeOK, idVars,
       contVars, attemptVars, hostVars
<1>2. CASE delete(i, s, o)
  <2>1. [row[s] EXCEPT !.status = IF Exists(row[s]) THEN "deleted" ELSE row[s].status] \in Schedule
    BY <1>b DEF Schedule, Statuses
  <2>2. DbTypeOK'
    BY <1>2, <1>a, <2>1 DEF delete, DbTypeOK, dbVars
  <2>3. activeSchedules' \in [Instances -> [Schedules -> Fires \cup {Absent}]]
    BY <1>2, <1>a, <1>d, RememberTypes DEF delete
  <2> QED
    BY <1>2, <1>a, <1>e, <1>f, <2>2, <2>3 DEF delete, TypeOK, IdTypeOK, ContTypeOK,
       AttemptTypeOK, CacheTypeOK, HostTypeOK, CallTypeOK, BoundTypeOK, idVars, contVars,
       attemptVars, hostVars
<1> QED
  BY <1>0, <1>1, <1>2

\* Putting a CRUD call in the queue keeps the type of the queue.
LEMMA BeginTypes ==
    ASSUME CallTypeOK, NEW i \in Instances, NEW s \in Schedules,
           NEW op \in {"pause", "delete", "resume", "update"}, NEW set \in SetClause,
           Begin(i, s, op, set)
    PROVE mutation' \in [Instances -> [Schedules -> Mutation]]
<1>1. [op |-> op, set |-> set] \in Mutation
  BY DEF Mutation
<1> QED
  BY <1>1 DEF CallTypeOK, Begin

\* A call of the engine's API keeps every type.
LEMMA CommandTypes ==
    ASSUME IInv, NEW i \in Instances, NEW s \in Schedules, Command(i, s) PROVE TypeOK'
<1>a. TypeOK /\ DbTypeOK /\ CacheTypeOK /\ CallTypeOK /\ BoundTypeOK /\ AttemptTypeOK
  BY DEF IInv, TypeOK
<1>b. row[s] \in Schedule /\ now \in Nat /\ SetNothing \in SetClause
  BY <1>a DEF DbTypeOK, BoundTypeOK, SetNothing, SetClause
<1>1. ASSUME NEW r \in Runs, runNow(i, s, r) PROVE TypeOK'
  <2>1. IdTypeOK' /\ pc' \in [Runs -> Awaits] /\ phase' \in [Runs -> Phases]
    BY <1>1, <1>a DEF runNow, Goto, TypeOK, IdTypeOK, ContTypeOK, AttemptTypeOK, Awaits,
       PreRegister, Phases, ScheduleRunPhase
  <2> QED
    BY <1>1, <1>a, <2>1 DEF runNow, TypeOK, DbTypeOK, ContTypeOK, AttemptTypeOK, CacheTypeOK,
       HostTypeOK, CallTypeOK, BoundTypeOK, dbVars, cacheVars, hostVars, callVars
<1>2. ASSUME NEW op \in {"pause", "delete"}, NEW exempt, abortInflight(i, s, op, exempt)
      PROVE TypeOK'
  <2> DEFINE set == IF op = "pause" THEN [SetNothing EXCEPT !.status = "paused"] ELSE SetNothing
  <2>1. set \in SetClause
    BY <1>b DEF SetClause, Statuses
  <2> HIDE DEF set
  <2>2. mutation' \in [Instances -> [Schedules -> Mutation]]
    BY <1>2, <1>a, <2>1, BeginTypes DEF abortInflight, set
  <2>3. AttemptTypeOK'
    BY <1>2, <1>a DEF abortInflight, AttemptTypeOK
  <2> QED
    BY <1>2, <1>a, <2>2, <2>3 DEF abortInflight, Issue, TypeOK, DbTypeOK, IdTypeOK, ContTypeOK,
       CacheTypeOK, HostTypeOK, CallTypeOK, BoundTypeOK, dbVars, idVars, contVars, cacheVars,
       hostVars
<1>3. CASE resumeGet(i, s)
  <2>1. coldStart(row[s], now) \in Nat
    BY <1>b, ColdStartIsTime
  <2>2. [SetNothing EXCEPT !.status = "active", !.nextFireAt = coldStart(row[s], now)] \in SetClause
    BY <1>b, <2>1 DEF SetClause, Statuses, Fires
  <2>3. mutation' \in [Instances -> [Schedules -> Mutation]]
    BY <1>3, <1>a, <2>2, BeginTypes DEF resumeGet
  <2> QED
    BY <1>3, <1>a, <2>3 DEF resumeGet, Issue, TypeOK, DbTypeOK, IdTypeOK, ContTypeOK,
       AttemptTypeOK, CacheTypeOK, HostTypeOK, CallTypeOK, BoundTypeOK, dbVars, idVars, contVars,
       attemptVars, cacheVars, hostVars
<1>4. ASSUME NEW patch \in Patches, updateGet(i, s, patch) PROVE TypeOK'
  <2>1. mutation' \in [Instances -> [Schedules -> Mutation]]
    BY <1>4, <1>a, <1>b, PatchSetIsSetClause, BeginTypes DEF updateGet
  <2> QED
    BY <1>4, <1>a, <2>1 DEF updateGet, Issue, TypeOK, DbTypeOK, IdTypeOK, ContTypeOK,
       AttemptTypeOK, CacheTypeOK, HostTypeOK, CallTypeOK, BoundTypeOK, dbVars, idVars, contVars,
       attemptVars, cacheVars, hostVars
<1>5. ASSUME NEW shape \in Shapes, NEW o \in Replies, create(i, s, shape, o) PROVE TypeOK'
  <2>1. NewRow(shape, now) \in Schedule
    BY <1>b, NewRowIsSchedule
  <2>2. NewRow(shape, now).nextFireAt \in Fires \cup {Absent}
    BY <2>1 DEF Schedule, Fires
  <2>3. row' \in [Schedules -> Schedule]
    BY <1>5, <1>a, <1>b, <2>1 DEF create, DbTypeOK, Effect
  <2>4. activeSchedules' \in [Instances -> [Schedules -> Fires \cup {Absent}]]
    BY <1>5, <1>a, <2>2, RememberTypes DEF create
  <2>5. faults' \in Nat
    BY <1>5, <1>a, ReplyTypes DEF create
  <2> QED
    BY <1>5, <1>a, <2>3, <2>4, <2>5 DEF create, TypeOK, DbTypeOK, IdTypeOK, ContTypeOK,
       AttemptTypeOK, CacheTypeOK, HostTypeOK, CallTypeOK, BoundTypeOK, idVars, contVars,
       attemptVars, hostVars, callVars
<1> QED
  BY <1>1, <1>2, <1>3, <1>4, <1>5 DEF Command

\* The start, the stop and the death of an instance keep every type.
LEMMA HostStepTypes ==
    ASSUME IInv, NEW i \in Instances, HostStep(i) PROVE TypeOK'
<1>a. /\ TypeOK /\ DbTypeOK /\ ContTypeOK /\ AttemptTypeOK /\ CacheTypeOK /\ HostTypeOK
      /\ CallTypeOK /\ BoundTypeOK
  BY DEF IInv, TypeOK
<1>b. now \in Nat
  BY <1>a DEF BoundTypeOK
<1>1. CASE stop(i)
  <2>1. AttemptTypeOK'
    BY <1>1, <1>a DEF stop, AttemptTypeOK, RunsOf, Phases
  <2>2. activeSchedules' \in [Instances -> [Schedules -> Fires \cup {Absent}]]
    BY <1>1, <1>a, EmptyCacheTypes DEF stop
  <2> QED
    BY <1>1, <1>a, <2>1, <2>2 DEF stop, TypeOK, DbTypeOK, IdTypeOK, ContTypeOK, CacheTypeOK,
       HostTypeOK, CallTypeOK, BoundTypeOK, dbVars, idVars, contVars, callVars
<1>2. CASE crash(i)
  <2>1. /\ NoFrame \in Frame /\ NoForce \in ForceState /\ IdleTick \in Tick
        /\ NoMutation \in Mutation
    BY DEF NoFrame, Frame, NoForce, ForceState, IdleTick, Tick, NoMutation, Mutation,
       SetNothing, SetClause, Row
  <2>2. ContTypeOK'
    BY <1>2, <1>a, <2>1 DEF crash, ContTypeOK, Awaits
  <2>3. AttemptTypeOK'
    BY <1>2, <1>a, <2>1 DEF crash, AttemptTypeOK, Phases
  <2>4. activeSchedules' \in [Instances -> [Schedules -> Fires \cup {Absent}]]
    BY <1>2, <1>a, EmptyCacheTypes DEF crash
  <2>5. pendingReplans' \in [Instances -> SUBSET Schedules]
    BY <1>2, <1>a DEF crash, CacheTypeOK
  <2>6. CallTypeOK'
    BY <1>2, <1>a, <2>1 DEF crash, CallTypeOK
  <2>7. HostTypeOK'
    BY <1>2, <1>a DEF crash, HostTypeOK
  <2>8. BoundTypeOK'
    BY <1>2, <1>a DEF crash, BoundTypeOK
  <2> QED
    BY <1>2, <1>a, <2>2, <2>3, <2>4, <2>5, <2>6, <2>7, <2>8 DEF crash, TypeOK, DbTypeOK,
       IdTypeOK, CacheTypeOK, dbVars, idVars
<1>3. ASSUME NEW o \in Replies, start(i, o) PROVE TypeOK'
  <2>1. runRow' \in [Runs -> RunStatus \cup {"none"}]
    BY <1>3, <1>a DEF start, markRunningAsInterrupted, DbTypeOK, RunStatus
  <2>2. mode' \in [Instances -> {"new", "listing", "arming", "up", "stopped", "dead"}]
    BY <1>3, <1>a DEF start, HostTypeOK
  <2>3. faults' \in Nat
    BY <1>3, <1>a, ReplyTypes DEF start
  <2> QED
    BY <1>3, <1>a, <2>1, <2>2, <2>3 DEF start, TypeOK, DbTypeOK, IdTypeOK, ContTypeOK,
       AttemptTypeOK, CacheTypeOK, HostTypeOK, CallTypeOK, BoundTypeOK, idVars, contVars,
       attemptVars, cacheVars, callVars
<1>4. ASSUME NEW o \in Replies, listActive(i, o) PROVE TypeOK'
  <2> DEFINE plan(s) == computeNextFireAt(row[s], now)
             active == {s \in Schedules : row[s].status = "active"}
             rearm == {s \in active : plan(s) # row[s].nextFireAt}
  <2>1. \A s \in Schedules : plan(s) \in Fires \cup {Absent}
    BY <1>a, <1>b, ComputedFireIsTime DEF DbTypeOK, Fires
  <2> HIDE DEF plan
  <2>2. [s \in Schedules |-> IF s \in rearm THEN plan(s) ELSE Absent]
            \in [Schedules -> Fires \cup {Absent}]
    BY <2>1
  <2>3. [s \in Schedules |-> IF s \in active \ rearm THEN plan(s) ELSE activeSchedules[i][s]]
            \in [Schedules -> Fires \cup {Absent}]
    BY <1>a, <2>1 DEF CacheTypeOK
  <2> HIDE DEF active, rearm
  <2>4. HostTypeOK'
    BY <1>4, <1>a, <2>2 DEF listActive, HostTypeOK, plan, active, rearm
  <2>5. activeSchedules' \in [Instances -> [Schedules -> Fires \cup {Absent}]]
    BY <1>4, <1>a, <2>3 DEF listActive, CacheTypeOK, plan, active, rearm
  <2>6. faults' \in Nat
    BY <1>4, <1>a, ReplyTypes DEF listActive
  <2> QED
    BY <1>4, <1>a, <2>4, <2>5, <2>6 DEF listActive, TypeOK, DbTypeOK, IdTypeOK, ContTypeOK,
       AttemptTypeOK, CacheTypeOK, CallTypeOK, BoundTypeOK, dbVars, idVars, contVars,
       attemptVars, callVars
<1>5. ASSUME NEW o \in Replies, NEW s \in Schedules, armOnStart(i, s, o) PROVE TypeOK'
  <2>1. row[s] \in Schedule /\ boot[i][s] \in Fires
    BY <1>5, <1>a DEF armOnStart, DbTypeOK, HostTypeOK
  <2>2. [row[s] EXCEPT !.nextFireAt = Effect(o, boot[i][s], row[s].nextFireAt)] \in Schedule
    BY <2>1 DEF Schedule, Effect, Fires
  <2>3. row' \in [Schedules -> Schedule]
    BY <1>5, <1>a, <2>2 DEF armOnStart, DbTypeOK
  <2>4. activeSchedules' \in [Instances -> [Schedules -> Fires \cup {Absent}]]
    BY <1>5, <1>a, <2>1, RememberTypes DEF armOnStart
  <2>5. HostTypeOK'
    <3> DEFINE rest == {t \in Schedules \ {s} : boot[i][t] # Absent}
    <3> HIDE DEF rest
    <3>0. \/ boot' = [boot EXCEPT ![i][s] = Absent]
          \/ boot' = [boot EXCEPT ![i] = [t \in Schedules |-> Absent]]
      BY <1>5 DEF armOnStart
    <3>1. boot' \in [Instances -> [Schedules -> Fires \cup {Absent}]]
      BY <1>a, <3>0 DEF HostTypeOK
    <3>2. \/ mode' = [mode EXCEPT ![i] = IF rest = {} THEN "up" ELSE @]
          \/ mode' = [mode EXCEPT ![i] = "stopped"]
      BY <1>5 DEF armOnStart, rest
    <3>3. mode' \in [Instances -> {"new", "listing", "arming", "up", "stopped", "dead"}]
      BY <1>a, <3>2 DEF HostTypeOK
    <3> QED
      BY <3>1, <3>3 DEF HostTypeOK
  <2>6. faults' \in Nat
    BY <1>5, <1>a, ReplyTypes DEF armOnStart
  <2> QED
    BY <1>5, <1>a, <2>3, <2>4, <2>5, <2>6 DEF armOnStart, TypeOK, DbTypeOK, IdTypeOK,
       ContTypeOK, AttemptTypeOK, CacheTypeOK, CallTypeOK, BoundTypeOK, idVars, contVars,
       attemptVars, callVars
<1> QED
  BY <1>1, <1>2, <1>3, <1>4, <1>5 DEF HostStep

\* The next-state relation keeps every type.
LEMMA NextTypes == ASSUME IInv, [Next]_vars PROVE TypeOK'
<1>1. CASE Advance
  BY <1>1 DEF Advance, IInv, TypeOK, DbTypeOK, IdTypeOK, ContTypeOK, AttemptTypeOK, CacheTypeOK,
     HostTypeOK, CallTypeOK, BoundTypeOK, dbVars, idVars, contVars, attemptVars, cacheVars,
     hostVars, callVars, boundVars
<1>2. CASE UNCHANGED vars
  BY <1>2 DEF vars, IInv, TypeOK, DbTypeOK, IdTypeOK, ContTypeOK, AttemptTypeOK, CacheTypeOK,
     HostTypeOK, CallTypeOK, BoundTypeOK, dbVars, idVars, contVars, attemptVars, cacheVars,
     hostVars, callVars, boundVars
<1> QED
  BY <1>1, <1>2, FireStepTypes, RunnerStepTypes, ForceStepTypes, GuardStepTypes, TickStepTypes,
     MutationStepTypes, CommandTypes, HostStepTypes DEF Next
-----------------------------------------------------------------------------
(* The invariants of the runs, action by action *)

runVars == <<idVars, contVars, phase, controllers, force, abandonedRuns>>

\* A step that leaves the runs alone keeps their invariants.
LEMMA UntouchedRuns == ASSUME RunInv, UNCHANGED runVars PROVE RunInv'
  BY DEF RunInv, runVars, idVars, contVars, Linked, FramesReady, ForceOwned, RegistryConsistent,
     SlotsAreHeld, PhaseFollowsAwait

\* No force release is in progress for a fire that is between two storage calls.
LEMMA NoForceBetweenCalls ==
    ASSUME IInv, NEW r \in Runs, pc[r] \in PreRegister \cup Settling
    PROVE force[r].stage = "idle" /\ r \notin controllers
  BY DEF IInv, RunInv, ForceOwned, RegistryConsistent, PreRegister, Settling

\* A fire that returns releases its attempt, and nothing else changes.
LEMMA ExitRuns ==
    ASSUME IInv, NEW r \in Runs, pc[r] \in PreRegister \cup Settling, Exit(r),
           UNCHANGED idVars
    PROVE RunInv'
<1>1. /\ force[r].stage = "idle" /\ r \notin controllers /\ phase'[r] = "none"
      /\ pc'[r] = "done" /\ frame'[r] = NoFrame
  BY NoForceBetweenCalls DEF Exit, finishInflightAttempt, IInv, TypeOK, ContTypeOK,
     AttemptTypeOK
<1>2. \A q \in Runs \ {r} : pc'[q] = pc[q] /\ frame'[q] = frame[q] /\ phase'[q] = phase[q]
  BY DEF Exit, finishInflightAttempt, IInv, TypeOK, ContTypeOK, AttemptTypeOK
<1>3. /\ controllers' = controllers \ {r} /\ force' = force /\ abandonedRuns' = abandonedRuns
      /\ owner' = owner /\ target' = target /\ source' = source
  BY DEF Exit, idVars
<1>4. Linked'
  BY <1>1, <1>2, <1>3 DEF IInv, RunInv, Linked, PreRegister, Settling
<1>5. FramesReady' /\ ForceOwned'
  BY <1>1, <1>2, <1>3 DEF IInv, RunInv, FramesReady, ForceOwned, KeepsSnapshot
<1>6. RegistryConsistent' /\ SlotsAreHeld' /\ PhaseFollowsAwait'
  BY <1>1, <1>2, <1>3 DEF IInv, RunInv, TypeOK, AttemptTypeOK, RegistryConsistent,
     SlotsAreHeld, PhaseFollowsAwait, PreRegister
<1> QED
  BY <1>4, <1>5, <1>6 DEF RunInv

\* A launch registers a controller only for an attempt that is still there.
LEMMA LaunchRuns ==
    ASSUME IInv, NEW r \in Runs, pc[r] \in {"insert", "bookkeep"}, Launch(r),
           UNCHANGED idVars
    PROVE RunInv'
<1>1. CASE phase[r] = "none"
  BY <1>1, ExitRuns DEF Launch, PreRegister
<1>2. CASE phase[r] # "none"
  <2>1. force[r].stage = "idle" /\ pc'[r] = "run" /\ phase'[r] = "running"
    BY <1>2, NoForceBetweenCalls DEF Launch, Goto, PreRegister, IInv, TypeOK, ContTypeOK,
       AttemptTypeOK
  <2>2. \A q \in Runs \ {r} : pc'[q] = pc[q] /\ phase'[q] = phase[q]
    BY <1>2 DEF Launch, Goto, IInv, TypeOK, ContTypeOK, AttemptTypeOK
  <2>3. /\ controllers' = controllers \cup {r} /\ force' = force /\ frame' = frame
        /\ abandonedRuns' = abandonedRuns /\ owner' = owner /\ target' = target
        /\ source' = source
    BY <1>2 DEF Launch, idVars
  <2>4. Linked' /\ FramesReady'
    BY <2>1, <2>2, <2>3 DEF IInv, RunInv, Linked, FramesReady, KeepsSnapshot
  <2>5. ForceOwned' /\ RegistryConsistent' /\ SlotsAreHeld'
    BY <2>1, <2>2, <2>3 DEF IInv, RunInv, TypeOK, AttemptTypeOK, ForceOwned,
       RegistryConsistent, SlotsAreHeld
  <2>6. PhaseFollowsAwait'
    BY <2>1, <2>2, <2>3 DEF IInv, RunInv, PhaseFollowsAwait, Settling
  <2> QED
    BY <2>4, <2>5, <2>6 DEF RunInv
<1> QED
  BY <1>1, <1>2

\* A fire that goes on to its next storage call with what that call needs.
LEMMA GotoRuns ==
    ASSUME IInv, NEW r \in Runs, pc[r] \in PreRegister \cup Settling,
           NEW where \in {"refresh", "insert", "bookkeep", "defer", "replanGet", "replanPut",
                          "stamp"},
           Goto(r, where),
           \/ frame' = frame
           \/ frame' = [frame EXCEPT ![r].seen = row[target[r]]],
           \/ where = "insert" /\ phase' = Moved(r, "persisting")
           \/ where = "refresh" /\ phase' = phase /\ pc[r] = "claim"
           \/ where = "bookkeep" /\ phase' = phase /\ pc[r] = "insert"
           \/ where \in Settling /\ phase' = phase /\ pc[r] \in Settling,
           source[r] = "run-now" /\ where \in KeepsSnapshot => frame'[r].seen \in Schedule,
           UNCHANGED <<idVars, controllers, force, abandonedRuns>>
    PROVE RunInv'
<1>1. /\ force[r].stage = "idle" /\ r \notin controllers /\ pc'[r] = where
      /\ phase'[r] \in {phase[r], "persisting"} /\ (phase[r] = "none" => phase'[r] = "none")
  BY NoForceBetweenCalls DEF Goto, Moved, IInv, TypeOK, ContTypeOK, AttemptTypeOK
<1>2. \A q \in Runs \ {r} : pc'[q] = pc[q] /\ frame'[q] = frame[q] /\ phase'[q] = phase[q]
  BY DEF Goto, Moved, IInv, TypeOK, ContTypeOK, AttemptTypeOK
<1>3. /\ controllers' = controllers /\ force' = force /\ abandonedRuns' = abandonedRuns
      /\ owner' = owner /\ target' = target /\ source' = source
  BY DEF idVars
<1>4. Linked'
  BY <1>1, <1>2, <1>3 DEF IInv, RunInv, Linked, PreRegister, Settling
<1>5. FramesReady'
  BY <1>1, <1>2, <1>3 DEF IInv, RunInv, FramesReady, KeepsSnapshot
<1>6. ForceOwned' /\ RegistryConsistent' /\ SlotsAreHeld'
  BY <1>1, <1>2, <1>3 DEF IInv, RunInv, TypeOK, AttemptTypeOK, ForceOwned, RegistryConsistent,
     SlotsAreHeld
<1>7. PhaseFollowsAwait'
  <2>1. \/ where = "insert" /\ phase'[r] \in {"none", "persisting"}
        \/ where = "refresh" /\ phase'[r] \in {"none", "claiming"}
        \/ where = "bookkeep" /\ phase'[r] \in {"none", "persisting"}
        \/ where \in Settling /\ phase'[r] \in {"none", "finalizing"}
    BY DEF Moved, IInv, RunInv, TypeOK, AttemptTypeOK, PhaseFollowsAwait
  <2> QED
    BY <1>1, <1>2, <1>3, <2>1 DEF IInv, RunInv, PhaseFollowsAwait, Settling
<1> QED
  BY <1>4, <1>5, <1>6, <1>7 DEF RunInv

\* The continuation of a fire keeps the invariants when a storage call answers.
LEMMA FireStepRuns == ASSUME IInv, NEW r \in Runs, FireStep(r) PROVE RunInv'
<1>0. PICK o \in Replies :
          \/ claimDueFire(r, o) \/ RefreshCache(r, o)
          \/ LoadSchedule(r, o) \/ insertRun(r, o) \/ Bookkeep(r, o)
          \/ deleteRunOnDefer(r, o) \/ rearmDeferred(r, o)
          \/ recordVerdict(r, o) \/ rereadSchedule(r, o) \/ replan(r, o)
          \/ stampFinished(r, o)
  BY DEF FireStep
<1>a. /\ pc[r] \in PreRegister \cup Settling /\ UNCHANGED idVars
  BY <1>0 DEF claimDueFire, RefreshCache, LoadSchedule, insertRun, Bookkeep, deleteRunOnDefer,
     rearmDeferred, recordVerdict, rereadSchedule, replan, stampFinished, PreRegister, Settling
<1>1. CASE Exit(r)
  BY <1>1, <1>a, ExitRuns
<1>2. CASE claimDueFire(r, o) /\ ~Exit(r)
  <2>1. source[r] # "run-now"
    BY <1>2 DEF claimDueFire, IInv, RunInv, Linked
  <2>2. \/ Goto(r, "insert") /\ phase' = Moved(r, "persisting")
           /\ UNCHANGED <<frame, controllers, force, abandonedRuns>>
        \/ Goto(r, "refresh") /\ UNCHANGED <<phase, frame, controllers, force, abandonedRuns>>
    BY <1>2 DEF claimDueFire, attemptVars
  <2> QED
    BY <1>a, <1>2, <2>1, <2>2, GotoRuns DEF claimDueFire, PreRegister
<1>3. CASE RefreshCache(r, o) \/ rearmDeferred(r, o) \/ replan(r, o) \/ stampFinished(r, o)
  BY <1>3, <1>1 DEF RefreshCache, rearmDeferred, replan, stampFinished
<1>4. CASE LoadSchedule(r, o) /\ ~Exit(r)
  <2>1. target[r] \in Schedules /\ row[target[r]] \in Schedule
    BY <1>4 DEF LoadSchedule, IInv, RunInv, Linked, TypeOK, DbTypeOK
  <2>2. frame'[r].seen \in Schedule
    BY <1>4, <2>1 DEF LoadSchedule, IInv, TypeOK, ContTypeOK, Frame
  <2> QED
    BY <1>a, <1>4, <2>2, GotoRuns DEF LoadSchedule, PreRegister
<1>5. CASE insertRun(r, o) /\ ~Exit(r)
  <2>1. CASE Launch(r)
    BY <1>a, <1>5, <2>1, LaunchRuns DEF insertRun
  <2>2. CASE Goto(r, "bookkeep") /\ UNCHANGED <<frame, attemptVars>>
    <3>1. source[r] = "run-now" => frame'[r].seen \in Schedule
      BY <1>5, <2>2 DEF insertRun, IInv, RunInv, FramesReady, KeepsSnapshot
    <3> QED
      BY <1>a, <1>5, <2>2, <3>1, GotoRuns DEF insertRun, attemptVars, PreRegister
  <2> QED
    BY <1>5, <2>1, <2>2 DEF insertRun
<1>6. CASE Bookkeep(r, o) /\ ~Exit(r)
  BY <1>a, <1>6, LaunchRuns DEF Bookkeep
<1>7. CASE deleteRunOnDefer(r, o)
  <2>1. source[r] = "run-now" => frame'[r].seen \in Schedule
    BY <1>7 DEF deleteRunOnDefer, IInv, RunInv, FramesReady, KeepsSnapshot
  <2> QED
    BY <1>a, <1>7, <2>1, GotoRuns DEF deleteRunOnDefer, attemptVars, PreRegister, Settling
<1>8. CASE recordVerdict(r, o) /\ ~Exit(r)
  <2>1. /\ pc[r] = "finalize" /\ UNCHANGED <<frame, attemptVars>>
        /\ Goto(r, "replanGet") \/ Goto(r, "stamp")
    BY <1>8 DEF recordVerdict
  <2> QED
    BY <1>a, <2>1, GotoRuns DEF attemptVars, PreRegister, KeepsSnapshot, Settling
<1>9. CASE rereadSchedule(r, o) /\ ~Exit(r)
  BY <1>a, <1>9, GotoRuns DEF rereadSchedule, attemptVars, PreRegister, KeepsSnapshot, Settling
<1> QED
  BY <1>0, <1>1, <1>2, <1>3, <1>4, <1>5, <1>6, <1>7, <1>8, <1>9
\* The runner's callbacks and its return keep the invariants.
LEMMA RunnerStepRuns == ASSUME IInv, NEW r \in Runs, RunnerStep(r) PROVE RunInv'
<1>a. RunInv /\ ContTypeOK /\ AttemptTypeOK /\ BoundTypeOK
  BY DEF IInv, TypeOK
<1>1. CASE onQueueWaitStart(r)
  <2>1. /\ pc[r] = "run" /\ frame'[r].seen = frame[r].seen
        /\ frame'[r].verdict = frame[r].verdict
        /\ \/ phase'[r] = phase[r]
           \/ phase[r] \notin {"none", "finalizing"} /\ phase'[r] = "queued"
        /\ frame'[r].waited
    BY <1>1, <1>a DEF onQueueWaitStart, Queueable, ContTypeOK, AttemptTypeOK, Frame
  <2>2. \A q \in Runs \ {r} : frame'[q] = frame[q] /\ phase'[q] = phase[q]
    BY <1>1, <1>a DEF onQueueWaitStart, ContTypeOK, AttemptTypeOK
  <2>3. UNCHANGED <<idVars, pc, controllers, force, abandonedRuns>>
    BY <1>1 DEF onQueueWaitStart
  <2>4. Linked' /\ FramesReady' /\ ForceOwned' /\ RegistryConsistent' /\ SlotsAreHeld'
    BY <1>a, <2>1, <2>2, <2>3 DEF idVars, RunInv, Linked, FramesReady, ForceOwned,
       RegistryConsistent, SlotsAreHeld, AttemptTypeOK
  <2>5. PhaseFollowsAwait'
    BY <1>a, <2>1, <2>2, <2>3 DEF RunInv, PhaseFollowsAwait, Settling
  <2> QED
    BY <2>4, <2>5 DEF RunInv
<1>2. CASE reclaimSlot(r) \/ endQueueWait(r)
  <2>1. pc[r] = "run" /\ phase[r] = "queued" /\ phase'[r] \in {"running", "cancelling"}
    BY <1>2, <1>a DEF reclaimSlot, endQueueWait, AttemptTypeOK
  <2>2. \A q \in Runs \ {r} : phase'[q] = phase[q]
    BY <1>2, <1>a DEF reclaimSlot, endQueueWait, AttemptTypeOK
  <2>3. UNCHANGED <<idVars, contVars, controllers, force, abandonedRuns>>
    BY <1>2 DEF reclaimSlot, endQueueWait
  <2>4. Linked' /\ FramesReady' /\ ForceOwned' /\ RegistryConsistent' /\ SlotsAreHeld'
    BY <1>a, <2>1, <2>2, <2>3 DEF idVars, contVars, RunInv, Linked, FramesReady, ForceOwned,
       RegistryConsistent, SlotsAreHeld, AttemptTypeOK
  <2>5. PhaseFollowsAwait'
    BY <1>a, <2>1, <2>2, <2>3 DEF contVars, RunInv, PhaseFollowsAwait, Settling
  <2> QED
    BY <2>4, <2>5 DEF RunInv
<1>3. ASSUME NEW outcome \in Outcomes, Settle(r, outcome) PROVE RunInv'
  <2>0. /\ pc[r] = "run" /\ controllers' = controllers \ {r} /\ force' = force
        /\ owner' = owner /\ target' = target /\ source' = source
    BY <1>3 DEF Settle, idVars
  <2>1. \A q \in Runs \ {r} :
            /\ pc'[q] = pc[q] /\ frame'[q] = frame[q] /\ phase'[q] = phase[q]
            /\ q \in abandonedRuns' <=> q \in abandonedRuns
    BY <1>3, <1>a DEF Settle, Goto, finishInflightAttempt, Moved, ContTypeOK, AttemptTypeOK
  <2>2. CASE r \in abandonedRuns
    <3>1. /\ pc'[r] = "done" /\ frame'[r] = NoFrame
          /\ phase'[r] = IF force[r].stage = "idle" THEN "none" ELSE phase[r]
      BY <1>3, <1>a, <2>2 DEF Settle, consumeAbandonedRun, finishInflightAttempt, ContTypeOK,
         AttemptTypeOK
    <3>2. Linked' /\ FramesReady' /\ ForceOwned'
      BY <1>a, <2>0, <2>1, <3>1 DEF RunInv, Linked, FramesReady, ForceOwned, KeepsSnapshot
    <3>3. RegistryConsistent' /\ SlotsAreHeld'
      BY <1>a, <2>0, <2>1, <3>1 DEF RunInv, RegistryConsistent, SlotsAreHeld, AttemptTypeOK
    <3>4. force[r].stage # "idle" => phase[r] \in {"none", "finalizing"}
      BY <1>a DEF RunInv, ForceOwned
    <3>5. PhaseFollowsAwait'
      BY <1>a, <2>0, <2>1, <3>1, <3>4 DEF RunInv, PhaseFollowsAwait, Settling
    <3> QED
      BY <3>2, <3>3, <3>5 DEF RunInv
  <2>3. CASE r \notin abandonedRuns
    <3> DEFINE undo == outcome = "deferred" /\ ~wasRunAborted(r, outcome)
    <3>1. ~undo => VerdictOf(r, outcome) \in Verdicts
      BY SchedulerAssumption DEF VerdictOf, Verdicts, OutcomeKinds
    <3>2. /\ pc'[r] = IF undo THEN "undo" ELSE "finalize"
          /\ frame'[r] = [frame[r] EXCEPT !.finishedAt = now,
                                          !.verdict = IF undo THEN None
                                                      ELSE VerdictOf(r, outcome)]
          /\ phase'[r] = IF phase[r] = "none" THEN "none" ELSE "finalizing"
      BY <1>3, <1>a, <2>3 DEF Settle, consumeAbandonedRun, Goto, Moved, ContTypeOK,
         AttemptTypeOK
    <3> HIDE DEF undo
    <3>3. /\ frame'[r].seen = frame[r].seen
          /\ pc'[r] = "finalize" => frame'[r].verdict \in Verdicts
      BY <1>a, <3>1, <3>2 DEF ContTypeOK, Frame
    <3>4. pc'[r] \in {"undo", "finalize"} /\ force[r].stage = "idle"
      BY <1>a, <2>0, <2>3, <3>2 DEF RunInv, ForceOwned
    <3>5. Linked' /\ FramesReady' /\ ForceOwned'
      BY <1>a, <2>0, <2>1, <3>3, <3>4 DEF RunInv, Linked, FramesReady, ForceOwned, KeepsSnapshot
    <3>6. RegistryConsistent' /\ SlotsAreHeld'
      BY <1>a, <2>0, <2>1, <3>4 DEF RunInv, RegistryConsistent, SlotsAreHeld, AttemptTypeOK
    <3>7. PhaseFollowsAwait'
      BY <1>a, <2>1, <3>2, <3>4 DEF RunInv, PhaseFollowsAwait, Settling
    <3> QED
      BY <3>5, <3>6, <3>7 DEF RunInv
  <2> QED
    BY <2>2, <2>3
<1> QED
  BY <1>1, <1>2, <1>3 DEF RunnerStep

\* The stall guard keeps the invariants: it takes only fires that are out.
LEMMA GuardStepRuns == ASSUME IInv, NEW r \in Runs, GuardStep(r) PROVE RunInv'
<1>a. RunInv /\ AttemptTypeOK
  BY DEF IInv, TypeOK
<1>1. CASE stallAbort(r)
  BY <1>1, <1>a, UntouchedRuns DEF stallAbort, runVars
<1>2. CASE forceReleaseStalledRun(r)
  <2>1. /\ pc[r] = "run" /\ force'[r].stage = "write" /\ phase'[r] = "finalizing"
        /\ r \in abandonedRuns'
    BY <1>2, <1>a DEF forceReleaseStalledRun, RunInv, RegistryConsistent, AttemptTypeOK
  <2>2. \A q \in Runs \ {r} : /\ force'[q] = force[q] /\ phase'[q] = phase[q]
                              /\ q \in abandonedRuns' <=> q \in abandonedRuns
    BY <1>2, <1>a DEF forceReleaseStalledRun, AttemptTypeOK
  <2>3. controllers' = controllers \ {r} /\ UNCHANGED <<idVars, contVars>>
    BY <1>2 DEF forceReleaseStalledRun
  <2> QED
    BY <1>a, <2>1, <2>2, <2>3 DEF idVars, contVars, RunInv, Linked, FramesReady, ForceOwned,
       RegistryConsistent, SlotsAreHeld, PhaseFollowsAwait, PreRegister, AttemptTypeOK
<1> QED
  BY <1>1, <1>2 DEF GuardStep

\* The end of a force release releases an attempt that has no controller.
LEMMA EndForceRuns ==
    ASSUME IInv, NEW r \in Runs, force[r].stage # "idle", EndForce(r),
           UNCHANGED <<idVars, contVars>>
    PROVE RunInv'
<1>1. force'[r] = NoForce /\ phase'[r] = "none" /\ r \notin controllers /\ pc[r] \in {"run", "done"}
  BY DEF EndForce, IInv, TypeOK, AttemptTypeOK, RunInv, ForceOwned
<1>2. \A q \in Runs \ {r} : force'[q] = force[q] /\ phase'[q] = phase[q]
  BY DEF EndForce, IInv, TypeOK, AttemptTypeOK
<1>3. UNCHANGED <<controllers, abandonedRuns>> /\ NoForce.stage = "idle"
  BY DEF EndForce, NoForce
<1> QED
  BY <1>1, <1>2, <1>3 DEF idVars, contVars, IInv, RunInv, Linked, FramesReady, ForceOwned,
     RegistryConsistent, SlotsAreHeld, PhaseFollowsAwait, PreRegister, TypeOK, AttemptTypeOK

\* A force release keeps the invariants when a storage call answers.
LEMMA ForceStepRuns == ASSUME IInv, NEW r \in Runs, ForceStep(r) PROVE RunInv'
<1>0. PICK o \in Replies : forceRecord(r, o) \/ forceReread(r, o) \/ forceReplan(r, o)
  BY DEF ForceStep
<1>1. /\ force[r].stage # "idle" /\ force[r] \in ForceState /\ UNCHANGED <<idVars, contVars>>
  BY <1>0 DEF forceRecord, forceReread, forceReplan, IInv, TypeOK, AttemptTypeOK
<1>2. CASE EndForce(r)
  BY <1>1, <1>2, EndForceRuns
<1>3. CASE ~EndForce(r)
  <2>1. row[target[r]] \in Schedule
    BY <1>1 DEF IInv, RunInv, ForceOwned, Linked, TypeOK, DbTypeOK
  <2>2. \/ force' = [force EXCEPT ![r].stage = "get"]
        \/ force' = [force EXCEPT ![r].stage = "put", ![r].seen = row[target[r]]]
    BY <1>0, <1>3 DEF forceRecord, forceReread, forceReplan
  <2>3. /\ force'[r].stage \in {"get", "put"}
        /\ force'[r].stage = "put" => force'[r].seen \in Schedule
    BY <1>1, <2>1, <2>2 DEF ForceState, IInv, TypeOK, AttemptTypeOK
  <2>4. \A q \in Runs \ {r} : force'[q] = force[q]
    BY <2>2 DEF IInv, TypeOK, AttemptTypeOK
  <2>5. UNCHANGED <<phase, controllers, abandonedRuns>>
    BY <1>0, <1>3 DEF forceRecord, forceReread, forceReplan
  <2> QED
    BY <1>1, <2>3, <2>4, <2>5 DEF idVars, contVars, IInv, RunInv, Linked, FramesReady,
       ForceOwned, RegistryConsistent, SlotsAreHeld, PhaseFollowsAwait
<1> QED
  BY <1>2, <1>3

\* New fires, of a tick or of runNow, begin with the invariants.
LEMMA BeginRuns ==
    ASSUME IInv, NEW started \in SUBSET Runs, \A r \in started : pc[r] = "unused",
           IdTypeOK', ContTypeOK', AttemptTypeOK',
           \A r \in started :
               /\ owner'[r] \in Instances /\ target'[r] \in Schedules
               /\ \/ source'[r] = "automatic" /\ pc'[r] = "claim" /\ phase'[r] = "claiming"
                  \/ source'[r] = "run-now" /\ pc'[r] = "load" /\ phase'[r] = "loading",
           \A r \in Runs \ started :
               /\ owner'[r] = owner[r] /\ target'[r] = target[r] /\ source'[r] = source[r]
               /\ pc'[r] = pc[r] /\ phase'[r] = phase[r] /\ frame'[r] = frame[r],
           UNCHANGED <<controllers, force, abandonedRuns>>
    PROVE RunInv'
<1>1. \A r \in started : force[r].stage = "idle" /\ r \notin controllers
  BY DEF IInv, RunInv, ForceOwned, RegistryConsistent
<1>2. Linked'
  BY DEF IInv, RunInv, Linked
<1>3. FramesReady'
  BY <1>1 DEF IInv, RunInv, FramesReady, KeepsSnapshot
<1>4. ForceOwned' /\ RegistryConsistent' /\ SlotsAreHeld'
  BY <1>1 DEF IInv, RunInv, TypeOK, AttemptTypeOK, ForceOwned, RegistryConsistent, SlotsAreHeld
<1>5. PhaseFollowsAwait'
  BY DEF IInv, RunInv, PhaseFollowsAwait, Settling
<1> QED
  BY <1>2, <1>3, <1>4, <1>5 DEF RunInv
\* A tick keeps the invariants of the runs: only fireDue begins any.
LEMMA TickStepRuns ==
    ASSUME IInv, NEW i \in Instances, NEW k \in Ticks, TickStep(i, k) PROVE RunInv'
<1>1. ASSUME UNCHANGED runVars PROVE RunInv'
  BY <1>1, UntouchedRuns DEF IInv
<1>2. ASSUME NEW S \in SUBSET Due(i), NEW runOf \in [S -> Runs], fireDue(i, k, S, runOf)
      PROVE RunInv'
  <2> DEFINE started == {runOf[s] : s \in S}
             scheduleOf(r) == CHOOSE s \in S : runOf[s] = r
  <2>1. \A r \in started : scheduleOf(r) \in Schedules
    <3>1. \A r \in started : scheduleOf(r) \in S
      OBVIOUS
    <3> QED
      BY <3>1 DEF Due
  <2> HIDE DEF scheduleOf
  <2>2. \A r \in started : pc[r] = "unused"
    BY <1>2 DEF fireDue
  <2> HIDE DEF started
  <2>3. started \in SUBSET Runs
    BY DEF started
  <2>4. IdTypeOK' /\ ContTypeOK' /\ AttemptTypeOK'
    BY <1>2, TickStepTypes DEF TickStep, TypeOK
  <2>5. /\ owner' = [r \in Runs |-> IF r \in started THEN i ELSE owner[r]]
        /\ target' = [r \in Runs |-> IF r \in started THEN scheduleOf(r) ELSE target[r]]
        /\ source' = [r \in Runs |-> IF r \in started THEN "automatic" ELSE source[r]]
        /\ pc' = [r \in Runs |-> IF r \in started THEN "claim" ELSE pc[r]]
        /\ phase' = [r \in Runs |-> IF r \in started THEN "claiming" ELSE phase[r]]
    BY <1>2 DEF fireDue, started, scheduleOf
  <2>6. \A r \in Runs \ started : frame'[r] = frame[r]
    BY <1>2 DEF fireDue, started
  <2>7. UNCHANGED <<controllers, force, abandonedRuns>>
    BY <1>2 DEF fireDue
  <2> QED
    BY <2>1, <2>2, <2>3, <2>4, <2>5, <2>6, <2>7, BeginRuns
<1>3. CASE ~\E S \in SUBSET Due(i) : \E runOf \in [S -> Runs] : fireDue(i, k, S, runOf)
  BY <1>1, <1>3 DEF TickStep, SyncTick, RetryTick, BeginTick, SyncCache, sweepStaleRunningRuns,
     reschedCheck, reschedPut, retryPut, reschedGet, retryGet, runVars, attemptVars
<1> QED
  BY <1>2, <1>3

\* A call of the API keeps them: only runNow begins a fire.
LEMMA CommandRuns ==
    ASSUME IInv, NEW i \in Instances, NEW s \in Schedules, Command(i, s) PROVE RunInv'
<1>1. ASSUME UNCHANGED runVars PROVE RunInv'
  BY <1>1, UntouchedRuns DEF IInv
<1>2. ASSUME NEW r \in Runs, runNow(i, s, r) PROVE RunInv'
  <2>1. IdTypeOK' /\ ContTypeOK' /\ AttemptTypeOK'
    BY <1>2, CommandTypes DEF Command, TypeOK
  <2>2. /\ pc[r] = "unused" /\ owner'[r] = i /\ target'[r] = s /\ source'[r] = "run-now"
        /\ pc'[r] = "load" /\ phase'[r] = "loading"
    BY <1>2 DEF runNow, Goto, IInv, TypeOK, IdTypeOK, ContTypeOK, AttemptTypeOK
  <2>3. \A q \in Runs \ {r} :
            /\ owner'[q] = owner[q] /\ target'[q] = target[q] /\ source'[q] = source[q]
            /\ pc'[q] = pc[q] /\ phase'[q] = phase[q] /\ frame'[q] = frame[q]
    BY <1>2 DEF runNow, Goto, IInv, TypeOK, IdTypeOK, ContTypeOK, AttemptTypeOK
  <2>4. UNCHANGED <<controllers, force, abandonedRuns>>
    BY <1>2 DEF runNow
  <2>5. {r} \in SUBSET Runs
    OBVIOUS
  <2> QED
    BY <2>1, <2>2, <2>3, <2>4, <2>5, BeginRuns
<1>3. CASE ~\E r \in Runs : runNow(i, s, r)
  BY <1>1, <1>3 DEF Command, abortInflight, resumeGet, updateGet, create, runVars, attemptVars
<1> QED
  BY <1>2, <1>3

\* stop() and a crash keep them.
LEMMA HostStepRuns == ASSUME IInv, NEW i \in Instances, HostStep(i) PROVE RunInv'
<1>a. RunInv /\ IdTypeOK /\ ContTypeOK /\ AttemptTypeOK
  BY DEF IInv, TypeOK
<1>1. CASE stop(i)
  <2>1. /\ phase' = [r \in Runs |-> IF owner[r] = i THEN "none" ELSE phase[r]]
        /\ controllers' = controllers \ RunsOf(i)
        /\ UNCHANGED <<idVars, contVars, force, abandonedRuns>>
    BY <1>1 DEF stop
  <2> QED
    BY <1>a, <2>1 DEF idVars, contVars, RunsOf, RunInv, Linked, FramesReady, ForceOwned,
       RegistryConsistent, SlotsAreHeld, PhaseFollowsAwait, AttemptTypeOK
<1>2. CASE crash(i)
  <2>1. \A r \in Runs : owner[r] = i =>
            /\ pc'[r] = "done" /\ phase'[r] = "none" /\ force'[r].stage = "idle"
            /\ r \notin controllers'
    BY <1>2 DEF crash, RunsOf, NoForce
  <2>2. \A r \in Runs : owner[r] # i =>
            /\ pc'[r] = pc[r] /\ phase'[r] = phase[r] /\ force'[r] = force[r]
            /\ frame'[r] = frame[r]
            /\ r \in controllers' <=> r \in controllers
            /\ r \in abandonedRuns' <=> r \in abandonedRuns
    BY <1>2, <1>a DEF crash, RunsOf
  <2>3. UNCHANGED <<owner, target, source>> /\ controllers' \subseteq controllers
    BY <1>2 DEF crash, idVars
  <2>4. Linked'
    BY <1>a, <2>1, <2>2, <2>3 DEF RunInv, Linked
  <2>5. FramesReady'
    BY <1>a, <2>1, <2>2, <2>3 DEF RunInv, FramesReady, KeepsSnapshot
  <2>6. ForceOwned' /\ RegistryConsistent' /\ SlotsAreHeld' /\ PhaseFollowsAwait'
    BY <1>a, <2>1, <2>2, <2>3 DEF RunInv, ForceOwned, RegistryConsistent, SlotsAreHeld,
       PhaseFollowsAwait, AttemptTypeOK, PreRegister
  <2> QED
    BY <2>4, <2>5, <2>6 DEF RunInv
<1>3. CASE ~stop(i) /\ ~crash(i)
  <2>1. UNCHANGED runVars
    BY <1>3 DEF HostStep, start, listActive, armOnStart, runVars, attemptVars
  <2> QED
    BY <1>a, <2>1, UntouchedRuns
<1> QED
  BY <1>1, <1>2, <1>3

\* The next-state relation keeps the invariants of the runs.
LEMMA NextRuns == ASSUME IInv, [Next]_vars PROVE RunInv'
<1>1. ASSUME NEW i \in Instances, NEW s \in Schedules, MutationStep(i, s) PROVE RunInv'
  BY <1>1, UntouchedRuns DEF IInv, MutationStep, pause, delete, writeMutation, runVars, attemptVars
<1>2. CASE Advance \/ UNCHANGED vars
  BY <1>2, UntouchedRuns DEF IInv, Advance, vars, runVars, attemptVars
<1> QED
  BY <1>1, <1>2, FireStepRuns, RunnerStepRuns, ForceStepRuns, GuardStepRuns, TickStepRuns,
     CommandRuns, HostStepRuns DEF Next

-----------------------------------------------------------------------------
(* The ticks *)

\* A walk stands at no schedule yet.
LEMMA WalkIsReady ==
    ASSUME NEW todo, NEW first \in {"reschedGet", "retryGet"}
    PROVE Walk(todo, first, "pick").pc \notin {"reschedCheck", "reschedPut", "retryPut"}
  BY DEF Walk, IdleTick

\* A tick that stands at a schedule has read its row.
LEMMA TickStepReady ==
    ASSUME IInv, NEW i \in Instances, NEW k \in Ticks, TickStep(i, k) PROVE TicksReady'
<1> DEFINE Ready(t) == t.pc \in {"reschedCheck", "reschedPut", "retryPut"} =>
                           t.cur \in Schedules /\ t.seen \in Schedule
<1>a. /\ DbTypeOK /\ CallTypeOK /\ tick[i][k] \in Tick /\ TicksReady
  BY DEF IInv, TypeOK, CallTypeOK
<1>b. \A s : Ready(AfterSweep(i)) /\ Ready(AfterReschedule(i, k, s)) /\ Ready(AfterRetry(i, k, s))
  BY WalkIsReady DEF AfterSweep, AfterReschedule, AfterRetry
<1>c. \A first \in {"idle", "sync", "sweep"} : Ready([IdleTick EXCEPT !.pc = first])
  BY DEF IdleTick
<1>1. ASSUME NEW t, SetTick(i, k, t), Ready(t) PROVE TicksReady'
  BY <1>1, <1>a DEF SetTick, TicksReady, CallTypeOK
<1> HIDE DEF Ready
<1>2. CASE SyncTick(i, k) \/ RetryTick(i, k)
  BY <1>2, <1>1, <1>b, <1>c DEF SyncTick, RetryTick, BeginTick
<1>3. ASSUME NEW o \in Replies,
             \/ SyncCache(i, k, o) \/ sweepStaleRunningRuns(i, k, o) \/ retryPut(i, k, o)
             \/ reschedPut(i, k, o)
      PROVE TicksReady'
  <2>1. Ready(Walk(Affected, "reschedGet", "pick"))
    BY WalkIsReady DEF Ready
  <2> QED
    BY <1>3, <1>1, <1>b, <1>c, <2>1 DEF SyncCache, sweepStaleRunningRuns, retryPut, reschedPut
<1>4. ASSUME NEW o \in Replies, reschedCheck(i, k, o) PROVE TicksReady'
  <2>1. Ready([tick[i][k] EXCEPT !.pc = "reschedPut"])
    BY <1>4, <1>a DEF reschedCheck, TicksReady, Ready, Tick
  <2> QED
    BY <1>4, <1>1, <1>b, <2>1 DEF reschedCheck
<1>5. ASSUME NEW o \in Replies, NEW s \in Schedules, reschedGet(i, k, s, o) PROVE TicksReady'
  <2>1. Ready([tick[i][k] EXCEPT !.pc = "reschedCheck", !.cur = s, !.seen = row[s]])
    BY <1>a DEF Ready, Tick, DbTypeOK
  <2> QED
    BY <1>5, <1>1, <1>b, <2>1 DEF reschedGet
<1>6. ASSUME NEW o \in Replies, NEW s \in Schedules, retryGet(i, k, s, o) PROVE TicksReady'
  <2>1. Ready([tick[i][k] EXCEPT !.pc = "retryPut", !.cur = s, !.seen = row[s]])
    BY <1>a DEF Ready, Tick, DbTypeOK
  <2> QED
    BY <1>6, <1>1, <1>b, <2>1 DEF retryGet
<1>7. ASSUME NEW S, NEW runOf, fireDue(i, k, S, runOf) PROVE TicksReady'
  <2>1. Ready(IdleTick)
    BY DEF Ready, IdleTick
  <2> QED
    BY <1>7, <1>1, <2>1 DEF fireDue
<1> QED
  BY <1>2, <1>3, <1>4, <1>5, <1>6, <1>7 DEF TickStep

\* The next-state relation keeps that.
LEMMA NextReady == ASSUME IInv, [Next]_vars PROVE TicksReady'
<1>1. ASSUME UNCHANGED tick PROVE TicksReady'
  BY <1>1 DEF IInv, TicksReady
<1>2. ASSUME NEW i \in Instances, HostStep(i) PROVE TicksReady'
  <2>1. CASE crash(i)
    BY <2>1 DEF crash, IInv, TypeOK, CallTypeOK, TicksReady, IdleTick
  <2>2. CASE ~crash(i)
    BY <1>1, <1>2, <2>2 DEF HostStep, stop, start, listActive, armOnStart, callVars
  <2> QED
    BY <2>1, <2>2
<1>3. ASSUME NEW r \in Runs, FireStep(r) \/ RunnerStep(r) \/ ForceStep(r) \/ GuardStep(r)
      PROVE TicksReady'
  <2>1. UNCHANGED callVars
    BY <1>3 DEF FireStep, RunnerStep, ForceStep, GuardStep, claimDueFire, RefreshCache,
       LoadSchedule, insertRun, Bookkeep, deleteRunOnDefer, rearmDeferred, recordVerdict,
       rereadSchedule, replan, stampFinished, onQueueWaitStart, reclaimSlot, endQueueWait,
       Settle, forceRecord, forceReread, forceReplan, stallAbort, forceReleaseStalledRun
  <2> QED
    BY <1>1, <2>1 DEF callVars
<1>4. ASSUME NEW i \in Instances, NEW s \in Schedules, MutationStep(i, s) \/ Command(i, s)
      PROVE TicksReady'
  BY <1>1, <1>4 DEF MutationStep, Command, pause, delete, writeMutation, runNow, abortInflight,
     resumeGet, updateGet, create, callVars
<1>5. CASE Advance \/ UNCHANGED vars
  BY <1>1, <1>5 DEF Advance, vars, callVars
<1> QED
  BY <1>2, <1>3, <1>4, <1>5, TickStepReady DEF Next

-----------------------------------------------------------------------------
(* The theorems *)

\* A fresh database has every type, whether its instances have started or not.
LEMMA FreshTypes ==
    ASSUME NEW m \in [Instances -> {"new", "up"}], NEW u, InitWith(m, 0, u), Spent(0, 0, 0)
    PROVE TypeOK
<1>1. 0 \in Nat /\ \A sh \in Shapes : NewRow(sh, 0) \in Schedule
  BY NewRowIsSchedule
<1>2. UnbornRow \in Schedule
  BY DEF UnbornRow, Schedule, Statuses
<1>3. DbTypeOK
  BY <1>1, <1>2 DEF InitWith, DbTypeOK
<1>4. /\ NoFrame \in Frame /\ NoForce \in ForceState /\ IdleTick \in Tick
      /\ NoMutation \in Mutation
  BY DEF NoFrame, Frame, NoForce, ForceState, IdleTick, Tick, NoMutation, Mutation, SetNothing,
     SetClause, Row
<1>5. IdTypeOK /\ ContTypeOK /\ AttemptTypeOK
  BY <1>4 DEF InitWith, IdTypeOK, ContTypeOK, AttemptTypeOK, Awaits, Phases
<1>6. CacheTypeOK
  BY <1>3, CachedIsFire DEF InitWith, CacheTypeOK
<1>7. HostTypeOK /\ CallTypeOK /\ BoundTypeOK
  BY <1>4 DEF InitWith, Spent, HostTypeOK, CallTypeOK, BoundTypeOK
<1> QED
  BY <1>3, <1>5, <1>6, <1>7 DEF TypeOK

\* So it satisfies the inductive invariant.
LEMMA FreshInvariant ==
    ASSUME NEW m \in [Instances -> {"new", "up"}], NEW u, InitWith(m, 0, u), Spent(0, 0, 0)
    PROVE IInv
<1>1. /\ \A r \in Runs : /\ pc[r] = "unused" /\ owner[r] = None /\ phase[r] = "none"
                         /\ force[r].stage = "idle"
      /\ controllers = {}
  BY DEF InitWith, NoForce
<1>2. RunInv
  BY <1>1, SchedulerAssumption DEF RunInv, Linked, FramesReady, ForceOwned, RegistryConsistent,
     SlotsAreHeld, PhaseFollowsAwait, KeepsSnapshot, PreRegister
<1>3. TicksReady
  BY DEF InitWith, TicksReady, IdleTick
<1> QED
  BY <1>2, <1>3, FreshTypes DEF IInv

\* The initial states satisfy the inductive invariant.
LEMMA InitInvariant == Init => IInv
<1>1. [i \in Instances |-> "new"] \in [Instances -> {"new", "up"}]
  OBVIOUS
<1> QED
  BY <1>1, FreshInvariant DEF Init

\* IInv is an inductive invariant of the engine.
THEOREM EngineInvariant == Spec => []IInv
<1>1. IInv /\ [Next]_vars => IInv'
  BY NextTypes, NextRuns, NextReady DEF IInv
<1> QED
  BY <1>1, InitInvariant, PTL DEF Spec

\* Every variable of the engine keeps its type, under every interleaving,
\* storage failure, restart and crash.
THEOREM TypeCorrect == Spec => []TypeOK
<1>1. IInv => TypeOK
  BY DEF IInv
<1> QED
  BY <1>1, EngineInvariant, PTL

\* assertAttemptRegistryInvariants never fires: a controller always belongs to
\* an attempt that is registered and whose runner has not come back.
THEOREM RegistryIsConsistent == Spec => []RegistryConsistent
<1>1. IInv => RegistryConsistent
  BY DEF IInv, RunInv
<1> QED
  BY <1>1, EngineInvariant, PTL

\* No concurrency slot leaks: whatever is registered has somebody left who will
\* release it.
THEOREM NoSlotLeaks == Spec => []SlotsAreHeld
<1>1. IInv => SlotsAreHeld
  BY DEF IInv, RunInv
<1> QED
  BY <1>1, EngineInvariant, PTL
=============================================================================
