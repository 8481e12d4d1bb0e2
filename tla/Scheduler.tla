----------------------------- MODULE Scheduler ------------------------------
(***************************************************************************)
(* The schedule engine of packages/maker-scheduler (engine/scheduler.ts)   *)
(* with the storage it runs on (apps/desktop scheduler-host/storage.ts).   *)
(*                                                                         *)
(* Several Scheduler objects (Instances) share one SQLite database: a dev  *)
(* and a release build opened together, or the objects one process makes   *)
(* before and after an account switch or a restart.  Each object is single *)
(* threaded; what interleaves is its asynchronous continuations, which is  *)
(* why an operation is split at its awaits: an action is one storage call  *)
(* together with the code that runs when it answers.                       *)
(*                                                                         *)
(* A run id (Runs) is one fire of one schedule.  Its continuation is       *)
(* fireOneInner when source is "automatic", runNowInner when "run-now".    *)
(*                                                                         *)
(* A definition whose comment begins "Fault:" is a faulty variant of the   *)
(* one after it, which no action uses: it shows what a property detects.   *)
(***************************************************************************)
EXTENDS ScheduleTiming, AttemptLifecycle, FiniteSets

CONSTANTS
    Instances,          \* Scheduler objects
    Schedules,          \* schedule ids
    Runs,               \* run ids, each used at most once
    Ticks,              \* overlapping tick() calls of one instance
    Passive,            \* instances constructed with passive: true
    ScriptSchedules,    \* schedules with executionMode "script"
    Shapes,             \* cadences a schedule may be created with
    Unborn,             \* schedules that exist only once create() made them
    Patches,            \* patches update() may be called with
    MaxConcurrentRuns,  \* the concurrency gate
    DeferDelay,         \* deferRetryMs of a deferred fire
    Outcomes,           \* what runner.fire may come back with
    Fallible,           \* the places whose storage calls may fail
    MaxNow, MaxFaults, MaxCommands, MaxDowns,  \* bounds of an instance
    Absent,             \* no entry in a map
    Keep                \* a column an UPDATE does not set

\* "aborting": an error whose text mentions an abort.
OutcomeKinds == {"success", "failed", "skipped", "deferred", "aborting"}

ASSUME SchedulerAssumption ==
    /\ Passive \subseteq Instances
    /\ ScriptSchedules \subseteq Schedules
    /\ Unborn \subseteq Schedules
    /\ Shapes \subseteq [recurring : BOOLEAN, manual : BOOLEAN, interval : BOOLEAN]
    /\ Patches \subseteq [recurring : BOOLEAN \cup {Keep},
                          manual : BOOLEAN \cup {Keep},
                          interval : BOOLEAN \cup {Keep}]
    /\ Outcomes \subseteq OutcomeKinds
    /\ MaxConcurrentRuns \in Nat \ {0} /\ DeferDelay \in Nat \ {0}
    /\ {MaxNow, MaxFaults, MaxCommands, MaxDowns} \subseteq Nat
    /\ Absent \notin Nat /\ Absent # None
    /\ Keep \notin Nat /\ Keep # None /\ Keep \notin BOOLEAN /\ Keep \notin Statuses
    /\ None \notin Instances \cup Schedules \cup {"aborted"}
    /\ IsFiniteSet(Runs) /\ IsFiniteSet(Schedules)

VARIABLES
    now,              \* the shared clock
    row,              \* table schedules
    runRow,           \* table schedule_runs: the status column, "none" = no row
    owner, target, source,  \* instance, schedule and kind of a run id
    pc,               \* the await at which the run's continuation stands
    frame,            \* what that continuation still reads after the await
    phase,            \* inflightAttempts: "none" = no entry
    controllers,      \* inflightControllers and inflightByschedule
    signalled,        \* runs whose AbortSignal is aborted
    stallAborted,     \* attempts with stallAbortedAt set
    force,            \* the forceReleaseStalledRun of a run, and where it stands
    abandonedRuns,
    mode,             \* the life of an instance
    boot,             \* schedules start() has still to arm, and when
    activeSchedules,  \* the nextFireAt of the cached schedules
    pendingReplans,
    tick,             \* the tick() calls in progress
    mutation,         \* per schedule, the CRUD call that holds the mutation queue
    faults, commands, downs  \* spent budgets

dbVars      == <<row, runRow>>
idVars      == <<owner, target, source>>
contVars    == <<pc, frame>>
attemptVars == <<phase, controllers, signalled, stallAborted, force, abandonedRuns>>
cacheVars   == <<activeSchedules, pendingReplans>>
hostVars    == <<mode, boot>>
callVars    == <<tick, mutation>>
boundVars   == <<faults, commands, downs>>
vars == <<now, dbVars, idVars, contVars, attemptVars, cacheVars, hostVars,
          callVars, boundVars>>

-----------------------------------------------------------------------------
(* Types and initial state *)

RunStatus == {"running", "success", "failed", "aborted", "interrupted", "skipped"}
Verdicts  == {"success", "failed", "aborted", "skipped"}

\* Awaits of a fire.  "done": the continuation has returned.
PreRegister == {"claim", "refresh", "load", "insert", "bookkeep"}
Settling    == {"undo", "defer", "finalize", "replanGet", "replanPut", "stamp"}
Awaits      == {"unused", "run", "done"} \cup PreRegister \cup Settling

Row   == Schedule \cup {None}
Frame == [token : Nat \cup {None}, verdict : Verdicts \cup {None},
          finishedAt : Nat, seen : Row, waited : BOOLEAN]
ForceState == [stage : {"idle", "write", "get", "put"}, at : Nat, seen : Row]
Tick  == [pc : {"idle", "sync", "sweep", "reschedGet", "reschedCheck", "reschedPut",
                "retryGet", "retryPut", "pick"},
          todo : SUBSET Schedules, cur : Schedules \cup {None}, seen : Row]
Fires == Nat \cup {None}

SetClause ==
    [status : Statuses \cup {Keep}, recurring : BOOLEAN \cup {Keep},
     manual : BOOLEAN \cup {Keep}, interval : BOOLEAN \cup {Keep},
     nextFireAt : Fires \cup {Keep}]
Mutation == [op : {"none", "pause", "delete", "resume", "update"}, set : SetClause]

NoFrame    == [token |-> None, verdict |-> None, finishedAt |-> 0, seen |-> None,
               waited |-> FALSE]
NoForce    == [stage |-> "idle", at |-> 0, seen |-> None]
IdleTick   == [pc |-> "idle", todo |-> {}, cur |-> None, seen |-> None]
SetNothing == [status |-> Keep, recurring |-> Keep, manual |-> Keep,
               interval |-> Keep, nextFireAt |-> Keep]
NoMutation == [op |-> "none", set |-> SetNothing]

\* The row create() builds.
NewRow(shape, t) ==
    LET blank == [status |-> "active", recurring |-> shape.recurring,
                  manual |-> shape.manual, interval |-> shape.interval,
                  nextFireAt |-> None, lastFired |-> FALSE, restBase |-> t]
    IN  IF shape.manual THEN blank
        ELSE [blank EXCEPT !.nextFireAt = coldStart(blank, t)]

UnbornRow == [status |-> "unborn", recurring |-> FALSE, manual |-> TRUE,
              interval |-> FALSE, nextFireAt |-> None, lastFired |-> FALSE,
              restBase |-> 0]

\* What an instance caches of a row: listActive returns the active ones.
Cached(s) == IF row[s].status = "active" THEN row[s].nextFireAt ELSE Absent

\* The state at time t, m[i] being the mode of instance i.  "up" is the mode once
\* start() has returned: it finds each schedule armed as it would arm it.
InitWith(m, t, u) ==
    /\ now = t
    /\ row \in [Schedules -> {NewRow(sh, t) : sh \in Shapes} \cup {UnbornRow}]
    /\ \A s \in Schedules : row[s] = UnbornRow <=> s \in u
    /\ runRow = [r \in Runs |-> "none"]
    /\ owner = [r \in Runs |-> None]
    /\ target = [r \in Runs |-> None]
    /\ source = [r \in Runs |-> None]
    /\ pc = [r \in Runs |-> "unused"]
    /\ frame = [r \in Runs |-> NoFrame]
    /\ phase = [r \in Runs |-> "none"]
    /\ controllers = {} /\ signalled = {} /\ stallAborted = {} /\ abandonedRuns = {}
    /\ force = [r \in Runs |-> NoForce]
    /\ mode = m
    /\ boot = [i \in Instances |-> [s \in Schedules |-> Absent]]
    /\ activeSchedules = [i \in Instances |-> [s \in Schedules |->
                              IF m[i] = "up" /\ i \notin Passive THEN Cached(s) ELSE Absent]]
    /\ pendingReplans = [i \in Instances |-> {}]
    /\ tick = [i \in Instances |-> [k \in Ticks |-> IdleTick]]
    /\ mutation = [i \in Instances |-> [s \in Schedules |-> NoMutation]]

\* What is spent of the budgets.
Spent(f, c, d) == faults = f /\ commands = c /\ downs = d

Init == InitWith([i \in Instances |-> "new"], 0, Unborn) /\ Spent(0, 0, 0)

-----------------------------------------------------------------------------
(* Storage *)

\* A storage call answers "ok", rejects without effect ("lost"), or rejects
\* after its statement took effect ("late": update, insertRun, updateRun and
\* claimDueFire run a statement and then a SELECT that may fail on its own).
Replies == {"ok", "lost", "late"}

Reply(site, o) ==
    IF o = "ok" THEN UNCHANGED faults
    ELSE site \in Fallible /\ faults < MaxFaults /\ faults' = faults + 1

\* A write that takes effect unless the call is lost.
Effect(o, written, old) == IF o = "lost" THEN old ELSE written

Column(new, old) == IF new = Keep THEN old ELSE new

\* UPDATE schedules SET ... : a no-op on a row that is not there.
Updated(s, set) ==
    IF ~Exists(s) THEN s
    ELSE [s EXCEPT !.status     = Column(set.status, @),
                   !.recurring  = Column(set.recurring, @),
                   !.manual     = Column(set.manual, @),
                   !.interval   = Column(set.interval, @),
                   !.nextFireAt = Column(set.nextFireAt, @)]

\* A running row whose owner no longer renews its heartbeat.  Renewal stops
\* with the controller; a continuation that is between two storage calls is
\* taken to need less than the 60s of RUN_HEARTBEAT_STALE_MS.
Stale(r) == /\ runRow[r] = "running"
            /\ r \notin controllers
            /\ force[r].stage = "idle"
            /\ pc[r] \in {"run", "done"}

StaleRuns == {r \in Runs : Stale(r)}

markRunningAsInterrupted ==
    runRow' = [r \in Runs |-> IF Stale(r) THEN "interrupted" ELSE runRow[r]]

\* Fault: a sweep reports only what its own live process left behind.
AffectedOfTheLiving == {target[r] : r \in {q \in StaleRuns : mode[owner[q]] = "up"}}

\* The schedules whose run rows it reports.
Affected == {target[r] : r \in StaleRuns}

hasRunningRuns(s) == \E r \in Runs : runRow[r] = "running" /\ target[r] = s

-----------------------------------------------------------------------------
(* The registry of in-flight attempts *)

Attempts(i) == {r \in Runs : owner[r] = i /\ phase[r] # "none"}

\* Fault: only attempts with a controller are counted.
SlotsOfControllers(i) == Cardinality({r \in controllers : owner[r] = i})

SlotsInUse(i) ==
    Cardinality({r \in Runs : owner[r] = i /\ phase[r] \notin SlotFreePhases})

FreeSlots(i) == IF SlotsInUse(i) >= MaxConcurrentRuns THEN 0
                ELSE MaxConcurrentRuns - SlotsInUse(i)

\* updateInflightAttempt: nothing happens once the attempt is gone.
Moved(r, ph) == [phase EXCEPT ![r] = IF @ = "none" THEN @ ELSE ph]

\* Fault: the finally of a late fire releases the attempt in any case.
finishRegardlessOfOwner(r) == phase' = [phase EXCEPT ![r] = "none"]

\* A force release in progress keeps the attempt: it will release it itself.
finishInflightAttempt(r) ==
    phase' = [phase EXCEPT ![r] = IF force[r].stage = "idle" THEN "none" ELSE @]

\* The continuation of r returns, and its finally releases the attempt.
Exit(r) ==
    /\ pc' = [pc EXCEPT ![r] = "done"]
    /\ frame' = [frame EXCEPT ![r] = NoFrame]
    /\ finishInflightAttempt(r)
    /\ controllers' = controllers \ {r}
    /\ signalled' = signalled \ {r}
    /\ stallAborted' = stallAborted \ {r}
    /\ UNCHANGED <<force, abandonedRuns>>

\* The continuation of r goes on to its next await.
Goto(r, where) == pc' = [pc EXCEPT ![r] = where]

\* Fault: no check that the attempt is still registered.
LaunchUnguarded(r) ==
    /\ Goto(r, "run")
    /\ phase' = Moved(r, "running")
    /\ controllers' = controllers \cup {r}
    /\ UNCHANGED <<frame, signalled, stallAborted, force, abandonedRuns>>

\* The code between the last await of the preparation and runner.fire: an
\* attempt that stop() released in the meantime drops the fire.
Launch(r) ==
    IF phase[r] = "none" THEN Exit(r)
    ELSE /\ Goto(r, "run")
         /\ phase' = [phase EXCEPT ![r] = "running"]
         /\ controllers' = controllers \cup {r}
         /\ UNCHANGED <<frame, signalled, stallAborted, force, abandonedRuns>>

Remember(i, s, when) == activeSchedules' = [activeSchedules EXCEPT ![i][s] = when]

\* Fault: the answer is not cached.
ForgetUpdate(i, s, when) == UNCHANGED activeSchedules

\* An UPDATE of nextFireAt answered with a row that is still active.
RememberIfActive(i, s, when) ==
    IF row[s].status = "active" THEN Remember(i, s, when) ELSE UNCHANGED activeSchedules

-----------------------------------------------------------------------------
(* An automatic fire up to the runner: fireOneInner *)

\* Fault: any active row is taken, whatever it is armed for.
ClaimMatchesActive(s, expected) == row[s].status = "active"

\* The WHERE of the compare-and-swap that takes the due fire.
ClaimMatches(s, expected) ==
    row[s].status = "active" /\ row[s].nextFireAt = expected

claimDueFire(r, o) ==
    LET i == owner[r]
        s == target[r]
        won == ClaimMatches(s, frame[r].token)
    IN  /\ pc[r] = "claim" /\ Reply("claim", o)
        /\ o = "late" => won
        /\ row' = IF won /\ o # "lost" THEN [row EXCEPT ![s].nextFireAt = None]
                                       ELSE row
        /\ \/ /\ o = "ok" /\ won
              /\ Goto(r, "insert") /\ phase' = Moved(r, "persisting")
              /\ UNCHANGED <<frame, controllers, signalled, stallAborted, force,
                             abandonedRuns, activeSchedules>>
           \/ /\ o = "ok" /\ ~won
              /\ Goto(r, "refresh")
              /\ UNCHANGED <<frame, attemptVars, activeSchedules>>
           \/ /\ o # "ok"                  \* put back for the next tick
              /\ Remember(i, s, frame[r].token) /\ Exit(r)
        /\ UNCHANGED <<now, runRow, idVars, pendingReplans, hostVars, callVars,
                       commands, downs>>

\* A lost claim re-reads the row into the cache.
RefreshCache(r, o) ==
    LET s == target[r]
    IN  /\ pc[r] = "refresh" /\ o # "late" /\ Reply("refresh", o)
        /\ IF o = "ok"
           THEN Remember(owner[r], s, Cached(s))
           ELSE UNCHANGED activeSchedules
        /\ Exit(r)
        /\ UNCHANGED <<now, dbVars, idVars, pendingReplans, hostVars, callVars,
                       commands, downs>>

\* The run row refers to its schedule by a foreign key.
ForeignKeyHolds(r) == Exists(row[target[r]])

insertRun(r, o) ==
    LET accepted == ForeignKeyHolds(r)
    IN  /\ pc[r] = "insert" /\ Reply("insert", o)
        /\ runRow' = IF accepted THEN [runRow EXCEPT ![r] = Effect(o, "running", @)]
                                 ELSE runRow
        /\ IF o # "ok" \/ ~accepted THEN Exit(r)
           ELSE IF source[r] = "automatic" THEN Launch(r)
           ELSE Goto(r, "bookkeep") /\ UNCHANGED <<frame, attemptVars>>
        /\ UNCHANGED <<now, row, idVars, cacheVars, hostVars, callVars, commands, downs>>

(* A manual fire up to the runner: runNow *)

runNow(i, s, r) ==
    /\ mode[i] = "up" /\ commands < MaxCommands /\ commands' = commands + 1
    /\ pc[r] = "unused"
    /\ owner' = [owner EXCEPT ![r] = i]
    /\ target' = [target EXCEPT ![r] = s]
    /\ source' = [source EXCEPT ![r] = "run-now"]
    /\ Goto(r, "load") /\ phase' = [phase EXCEPT ![r] = "loading"]
    /\ UNCHANGED <<now, dbVars, frame, controllers, signalled, stallAborted, force,
                   abandonedRuns, cacheVars, hostVars, callVars, faults, downs>>

LoadSchedule(r, o) ==
    LET s == target[r]
    IN  /\ pc[r] = "load" /\ o # "late" /\ Reply("load", o)
        /\ IF o # "ok" \/ ~Exists(row[s]) THEN Exit(r)
           ELSE /\ Goto(r, "insert") /\ phase' = Moved(r, "persisting")
                /\ frame' = [frame EXCEPT ![r].seen = row[s]]
                /\ UNCHANGED <<controllers, signalled, stallAborted, force, abandonedRuns>>
        /\ UNCHANGED <<now, dbVars, idVars, cacheVars, hostVars, callVars, commands, downs>>

\* lastFiredAt is written before the run starts.
Bookkeep(r, o) ==
    LET s == target[r]
    IN  /\ pc[r] = "bookkeep" /\ Reply("bookkeep", o)
        /\ row' = IF Exists(row[s]) THEN [row EXCEPT ![s].lastFired = Effect(o, TRUE, @)]
                                    ELSE row
        /\ IF o = "ok" THEN Launch(r) ELSE Exit(r)
        /\ UNCHANGED <<now, runRow, idVars, cacheVars, hostVars, callVars, commands, downs>>

-----------------------------------------------------------------------------
(* The runner: external to the engine, seen through FireContext *)

\* Fault: a callback that comes after the force release is taken for a live one.
QueueableWhileRegistered(r) == phase[r] # "none"

\* The attempt is still there and was not force-released.
Queueable(r) == phase[r] \notin {"none", "finalizing"}

\* A bound session is busy: the prompt is queued, once per fire, and the slot
\* given up.
onQueueWaitStart(r) ==
    /\ pc[r] = "run" /\ target[r] \notin ScriptSchedules /\ ~frame[r].waited
    /\ frame' = [frame EXCEPT ![r].waited = TRUE]
    /\ phase' = [phase EXCEPT ![r] = IF Queueable(r) THEN "queued" ELSE @]
    /\ UNCHANGED <<now, dbVars, idVars, pc, controllers, signalled, stallAborted,
                   force, abandonedRuns, cacheVars, hostVars, callVars, boundVars>>

\* The queued prompt is about to be dispatched and asks for a slot.  A runner
\* that is refused stands down in the same synchronous block.
reclaimSlot(r) ==
    /\ pc[r] = "run" /\ phase[r] = "queued"
    /\ phase' = [phase EXCEPT ![r] =
           IF SlotsInUse(owner[r]) >= MaxConcurrentRuns THEN "cancelling" ELSE "running"]
    /\ UNCHANGED <<now, dbVars, idVars, contVars, controllers, signalled, stallAborted,
                   force, abandonedRuns, cacheVars, hostVars, callVars, boundVars>>

\* endQueueWait(false): the queued prompt is withdrawn.
endQueueWait(r) ==
    /\ pc[r] = "run" /\ phase[r] = "queued"
    /\ phase' = [phase EXCEPT ![r] = "cancelling"]
    /\ UNCHANGED <<now, dbVars, idVars, contVars, controllers, signalled, stallAborted,
                   force, abandonedRuns, cacheVars, hostVars, callVars, boundVars>>

\* The text of an error is matched against /abort/i for agent schedules only.
wasRunAborted(r, outcome) ==
    r \in signalled \/ (outcome = "aborting" /\ target[r] \notin ScriptSchedules)

wasStallAborted(r) == r \in stallAborted /\ phase[r] # "none"

\* Fault: the stall guard's abort is taken for the user's.
VerdictOfAnyAbort(r, outcome) ==
    IF wasRunAborted(r, outcome) THEN "aborted"
    ELSE IF outcome = "aborting" THEN "failed"
    ELSE outcome

\* Fault: the outcome decides before the signal.
VerdictOfOutcome(r, outcome) ==
    IF wasStallAborted(r) THEN "failed"
    ELSE IF outcome = "aborting" THEN "failed"
    ELSE outcome

VerdictOf(r, outcome) ==
    IF wasStallAborted(r) THEN "failed"
    ELSE IF wasRunAborted(r, outcome) THEN "aborted"
    ELSE IF outcome = "aborting" THEN "failed"
    ELSE outcome

\* Fault: a late settle is closed like any other.
neverAbandoned(r) == FALSE

\* The guard has closed this fire already: its late settle is discarded.
consumeAbandonedRun(r) == r \in abandonedRuns

\* runner.fire settles: the controller is unregistered and the way the fire is
\* closed is decided, before the first storage call.
Settle(r, outcome) ==
    /\ pc[r] = "run"
    /\ IF consumeAbandonedRun(r)
       THEN /\ abandonedRuns' = abandonedRuns \ {r}
            /\ pc' = [pc EXCEPT ![r] = "done"]
            /\ frame' = [frame EXCEPT ![r] = NoFrame]
            /\ finishInflightAttempt(r)
            /\ signalled' = signalled \ {r}
       ELSE /\ LET undo == outcome = "deferred" /\ ~wasRunAborted(r, outcome)
               IN  /\ Goto(r, IF undo THEN "undo" ELSE "finalize")
                   /\ frame' = [frame EXCEPT
                         ![r].finishedAt = now,
                         ![r].verdict = IF undo THEN None ELSE VerdictOf(r, outcome)]
            /\ phase' = Moved(r, "finalizing")
            /\ UNCHANGED <<abandonedRuns, signalled>>
    /\ controllers' = controllers \ {r}
    /\ UNCHANGED <<now, dbVars, idVars, stallAborted, force, cacheVars, hostVars,
                   callVars, boundVars>>

-----------------------------------------------------------------------------
(* Closing a fire *)

\* A deferred fire leaves no run row; a failure to delete it is tolerated.
deleteRunOnDefer(r, o) ==
    /\ pc[r] = "undo" /\ o # "late" /\ Reply("undo", o)
    /\ runRow' = [runRow EXCEPT ![r] = Effect(o, "none", @)]
    /\ Goto(r, "defer")
    /\ UNCHANGED <<now, row, idVars, frame, attemptVars, cacheVars, hostVars, callVars,
                   commands, downs>>

\* It is armed again a little later; a manual fire also takes back lastFiredAt.
rearmDeferred(r, o) ==
    LET s == target[r]
        retryAt == frame[r].finishedAt + DeferDelay
        rearmed == IF source[r] = "automatic"
                   THEN [row[s] EXCEPT !.nextFireAt = retryAt]
                   ELSE [row[s] EXCEPT !.nextFireAt = retryAt,
                                       !.lastFired = frame[r].seen.lastFired]
    IN  /\ pc[r] = "defer" /\ Reply("defer", o)
        /\ row' = IF Exists(row[s]) THEN [row EXCEPT ![s] = Effect(o, rearmed, @)]
                                    ELSE row
        /\ IF o = "ok" THEN RememberIfActive(owner[r], s, retryAt)
           ELSE UNCHANGED activeSchedules
        /\ Exit(r)
        /\ UNCHANGED <<now, runRow, idVars, pendingReplans, hostVars, callVars,
                       commands, downs>>

\* The terminal status of the run row.  fireOneInner goes on to the schedule
\* even when the write fails; runNow rejects.  An aborted fire leaves the
\* schedule row alone.
recordVerdict(r, o) ==
    LET goesOn == frame[r].verdict # "aborted" /\ (source[r] = "automatic" \/ o = "ok")
    IN  /\ pc[r] = "finalize" /\ Reply("finalize", o)
        /\ runRow' = [runRow EXCEPT ![r] =
                          IF @ = "none" THEN @ ELSE Effect(o, frame[r].verdict, @)]
        /\ IF goesOn
           THEN /\ Goto(r, IF source[r] = "automatic" THEN "replanGet" ELSE "stamp")
                /\ UNCHANGED <<frame, attemptVars>>
           ELSE Exit(r)
        /\ UNCHANGED <<now, row, idVars, cacheVars, hostVars, callVars, commands, downs>>

\* The row is read again: update() may have changed it during the run.  Of a
\* row that is gone the snapshot is used, and the UPDATE then does nothing.
rereadSchedule(r, o) ==
    LET s == target[r]
    IN  /\ pc[r] = "replanGet" /\ o # "late" /\ Reply("replan", o)
        /\ IF o = "ok" /\ Exists(row[s])
           THEN /\ Goto(r, "replanPut")
                /\ frame' = [frame EXCEPT ![r].seen = row[s]]
                /\ UNCHANGED attemptVars
           ELSE Exit(r)
        /\ UNCHANGED <<now, dbVars, idVars, cacheVars, hostVars, callVars, commands, downs>>

\* A recurring schedule is armed again; a one-shot expires unless it was paused.
Replanned(s, seen, at) ==
    LET stamped == [s EXCEPT !.lastFired = TRUE, !.restBase = at]
    IN  IF seen.recurring THEN [stamped EXCEPT !.nextFireAt = coldStart(seen, at)]
        ELSE IF seen.status = "paused" THEN stamped
        ELSE [stamped EXCEPT !.status = "expired", !.nextFireAt = None]

replan(r, o) ==
    LET s == target[r]
        seen == frame[r].seen
        after == Replanned(row[s], seen, frame[r].finishedAt)
    IN  /\ pc[r] = "replanPut" /\ Reply("replan", o)
        /\ row' = IF Exists(row[s]) THEN [row EXCEPT ![s] = Effect(o, after, @)]
                                    ELSE row
        /\ IF o = "ok" /\ seen.recurring
           THEN RememberIfActive(owner[r], s, after.nextFireAt)
           ELSE UNCHANGED activeSchedules
        /\ Exit(r)
        /\ UNCHANGED <<now, runRow, idVars, pendingReplans, hostVars, callVars,
                       commands, downs>>

\* A manual fire only writes lastFinishedAt.
stampFinished(r, o) ==
    LET s == target[r]
    IN  /\ pc[r] = "stamp" /\ Reply("stamp", o)
        /\ row' = IF Exists(row[s])
                  THEN [row EXCEPT ![s].restBase = Effect(o, frame[r].finishedAt, @)]
                  ELSE row
        /\ Exit(r)
        /\ UNCHANGED <<now, runRow, idVars, cacheVars, hostVars, callVars, commands, downs>>

-----------------------------------------------------------------------------
(* The stall guard.  The times it waits for (runStallMs without progress,  *)
(* then runStallAbortGraceMs) are left open: it may act at any moment.     *)

controllerRegistered(r) == pc[r] \notin PreRegister \cup {"unused"}

\* Fault: the guard skips every attempt that holds no slot.
GuardedInSlot(r) == /\ phase[r] \notin SlotFreePhases \cup {"finalizing"}
                    /\ target[r] \notin ScriptSchedules
                    /\ controllerRegistered(r)

Guarded(r) == /\ phase[r] \notin {"none", "queued", "finalizing"}
              /\ target[r] \notin ScriptSchedules
              /\ controllerRegistered(r)

stallAbort(r) ==
    /\ Guarded(r) /\ r \notin stallAborted
    /\ stallAborted' = stallAborted \cup {r}
    /\ signalled' = IF r \in controllers THEN signalled \cup {r} ELSE signalled
    /\ UNCHANGED <<now, dbVars, idVars, contVars, phase, controllers, force,
                   abandonedRuns, cacheVars, hostVars, callVars, boundVars>>

\* The runner did not obey: its slot is taken back and the fire closed here.
forceReleaseStalledRun(r) ==
    /\ Guarded(r) /\ r \in stallAborted /\ r \in controllers
    /\ abandonedRuns' = abandonedRuns \cup {r}
    /\ controllers' = controllers \ {r}
    /\ phase' = [phase EXCEPT ![r] = "finalizing"]
    /\ force' = [force EXCEPT ![r] = [stage |-> "write", at |-> now, seen |-> None]]
    /\ UNCHANGED <<now, dbVars, idVars, contVars, signalled, stallAborted, cacheVars,
                   hostVars, callVars, boundVars>>

\* Fault: the force release leaves the attempt to the finally of its fire.
EndForceOnly(r) ==
    /\ force' = [force EXCEPT ![r] = NoForce]
    /\ stallAborted' = stallAborted \ {r}
    /\ UNCHANGED <<phase, controllers, signalled, abandonedRuns>>

\* The finally of the force release, the only one to release the attempt now.
EndForce(r) ==
    /\ force' = [force EXCEPT ![r] = NoForce]
    /\ phase' = [phase EXCEPT ![r] = "none"]
    /\ stallAborted' = stallAborted \ {r}
    /\ UNCHANGED <<controllers, signalled, abandonedRuns>>

\* The run row is marked failed; the schedule is replanned even if that fails.
forceRecord(r, o) ==
    /\ force[r].stage = "write" /\ Reply("force", o)
    /\ runRow' = [runRow EXCEPT ![r] = IF @ = "none" THEN @ ELSE Effect(o, "failed", @)]
    /\ IF source[r] = "automatic"
       THEN /\ force' = [force EXCEPT ![r].stage = "get"]
            /\ UNCHANGED <<phase, controllers, signalled, stallAborted, abandonedRuns>>
       ELSE EndForce(r)
    /\ UNCHANGED <<now, row, idVars, contVars, cacheVars, hostVars, callVars,
                   commands, downs>>

\* applyStalledClaimReplan has nothing to write for this row.
NoReplan(s) == s.status # "active" \/ s.nextFireAt # None \/ s.manual

\* Fault: a one-shot is armed like a recurring schedule.
StalledReplanOfAny(s, seen, t) == [s EXCEPT !.nextFireAt = computeNextFireAt(seen, t)]

\* The UPDATE of applyStalledClaimReplan, decided from the row it has read.
StalledReplan(s, seen, t) ==
    IF ~seen.recurring
    THEN [s EXCEPT !.lastFired = TRUE, !.restBase = t, !.status = "expired",
                   !.nextFireAt = None]
    ELSE [s EXCEPT !.nextFireAt = computeNextFireAt(seen, t)]

\* Fault: the ticket is dropped even when the replan was rejected.
PendingDropped(i, s, o) == pendingReplans' = [pendingReplans EXCEPT ![i] = @ \ {s}]

\* A rejection leaves the schedule in pendingReplans, any answer removes it.
Pending(i, s, o) ==
    pendingReplans' = [pendingReplans EXCEPT ![i] = IF o = "ok" THEN @ \ {s}
                                                               ELSE @ \cup {s}]

forceReread(r, o) ==
    LET i == owner[r]
        s == target[r]
    IN  /\ force[r].stage = "get" /\ o # "late" /\ Reply("force", o)
        /\ IF o = "ok" /\ ~NoReplan(row[s])
           THEN /\ force' = [force EXCEPT ![r].stage = "put", ![r].seen = row[s]]
                /\ UNCHANGED <<phase, controllers, signalled, stallAborted, abandonedRuns,
                               pendingReplans>>
           ELSE EndForce(r) /\ Pending(i, s, o)
        /\ UNCHANGED <<now, dbVars, idVars, contVars, activeSchedules, hostVars, callVars,
                       commands, downs>>

\* The UPDATE of a stalled claim's replan and the cache that follows it.
WriteStalledReplan(i, s, seen, t, o) ==
    LET after == StalledReplan(row[s], seen, t)
    IN  /\ Reply("force", o)
        /\ row' = IF Exists(row[s]) THEN [row EXCEPT ![s] = Effect(o, after, @)]
                                    ELSE row
        /\ IF o = "ok" /\ ~seen.recurring THEN Remember(i, s, Absent)
           ELSE IF o = "ok" THEN RememberIfActive(i, s, after.nextFireAt)
           ELSE UNCHANGED activeSchedules
        /\ Pending(i, s, o)

forceReplan(r, o) ==
    /\ force[r].stage = "put"
    /\ WriteStalledReplan(owner[r], target[r], force[r].seen, force[r].at, o)
    /\ EndForce(r)
    /\ UNCHANGED <<now, runRow, idVars, contVars, hostVars, callVars, commands, downs>>

-----------------------------------------------------------------------------
(* tick().  The timer does not wait for the previous call, so several are  *)
(* in progress at once (Ticks).  Which calls include the 30s database sync *)
(* is left open, and so is a sweep put off after a suspend.                *)

SetTick(i, k, t) == tick' = [tick EXCEPT ![i][k] = t]

\* The calls one tick makes for each of a set of schedules, in any order.
Walk(todo, first, next) ==
    IF todo = {} THEN [IdleTick EXCEPT !.pc = next]
                 ELSE [IdleTick EXCEPT !.pc = first, !.todo = todo]

\* retryPendingReplans, then the due schedules.
AfterSweep(i) == Walk(pendingReplans[i], "retryGet", "pick")

\* The tick is done with schedule s of its walk.
AfterReschedule(i, k, s) ==
    LET rest == tick[i][k].todo \ {s}
    IN  IF rest = {} THEN AfterSweep(i) ELSE Walk(rest, "reschedGet", "pick")

AfterRetry(i, k, s) == Walk(tick[i][k].todo \ {s}, "retryGet", "pick")

BeginTick(i, k, first) ==
    /\ mode[i] = "up" /\ i \notin Passive /\ tick[i][k].pc = "idle"
    /\ SetTick(i, k, first)
    /\ UNCHANGED <<now, dbVars, idVars, contVars, attemptVars, cacheVars, hostVars,
                   mutation, boundVars>>

\* A tick with the database sync, and one with only retries to make.
SyncTick(i, k) == BeginTick(i, k, [IdleTick EXCEPT !.pc = "sync"])

RetryTick(i, k) == pendingReplans[i] # {} /\ BeginTick(i, k, AfterSweep(i))

\* Fault: only the schedules the instance knows are refreshed.
ReloadedKnown(i) ==
    [s \in Schedules |-> IF activeSchedules[i][s] = Absent THEN Absent ELSE Cached(s)]

Reloaded(i) == [s \in Schedules |-> Cached(s)]

\* listActive, and the cache is cleared and loaded from its answer.
SyncCache(i, k, o) ==
    /\ tick[i][k].pc = "sync" /\ o # "late" /\ Reply("sync", o)
    /\ activeSchedules' =
           IF o = "ok" THEN [activeSchedules EXCEPT ![i] = Reloaded(i)] ELSE activeSchedules
    /\ SetTick(i, k, [IdleTick EXCEPT !.pc = "sweep"])
    /\ UNCHANGED <<now, dbVars, idVars, contVars, attemptVars, pendingReplans, hostVars,
                   mutation, commands, downs>>

\* sweepStaleRunningRuns: unless it is blocked or fails.
sweepStaleRunningRuns(i, k, o) ==
    /\ tick[i][k].pc = "sweep" /\ o # "late" /\ Reply("sweep", o)
    /\ \/ /\ o = "ok" /\ markRunningAsInterrupted
          /\ SetTick(i, k, IF Affected = {} THEN AfterSweep(i)
                           ELSE Walk(Affected, "reschedGet", "pick"))
       \/ UNCHANGED runRow /\ SetTick(i, k, AfterSweep(i))
    /\ UNCHANGED <<now, row, idVars, contVars, attemptVars, cacheVars, hostVars,
                   mutation, commands, downs>>

\* rescheduleAfterSweep in its three storage calls; a failure ends it.
reschedGet(i, k, s, o) ==
    /\ tick[i][k].pc = "reschedGet" /\ s \in tick[i][k].todo /\ o # "late" /\ Reply("sweep", o)
    /\ SetTick(i, k,
           IF o = "ok" /\ row[s].status = "active" /\ row[s].nextFireAt = None
           THEN [tick[i][k] EXCEPT !.pc = "reschedCheck", !.cur = s, !.seen = row[s]]
           ELSE AfterReschedule(i, k, s))
    /\ UNCHANGED <<now, dbVars, idVars, contVars, attemptVars, cacheVars, hostVars,
                   mutation, commands, downs>>

reschedCheck(i, k, o) ==
    LET t == tick[i][k]
    IN  /\ t.pc = "reschedCheck" /\ o # "late" /\ Reply("sweep", o)
        /\ SetTick(i, k,
               IF o = "ok" /\ ~hasRunningRuns(t.cur) /\ computeNextFireAt(t.seen, now) # None
               THEN [t EXCEPT !.pc = "reschedPut"] ELSE AfterReschedule(i, k, t.cur))
        /\ UNCHANGED <<now, dbVars, idVars, contVars, attemptVars, cacheVars, hostVars,
                       mutation, commands, downs>>

reschedPut(i, k, o) ==
    LET t == tick[i][k]
        s == t.cur
        next == computeNextFireAt(t.seen, now)
    IN  /\ t.pc = "reschedPut" /\ Reply("sweep", o)
        /\ row' = IF Exists(row[s]) THEN [row EXCEPT ![s].nextFireAt = Effect(o, next, @)]
                                    ELSE row
        /\ IF o = "ok" THEN RememberIfActive(i, s, next) ELSE UNCHANGED activeSchedules
        /\ SetTick(i, k, AfterReschedule(i, k, s))
        /\ UNCHANGED <<now, runRow, idVars, contVars, attemptVars, pendingReplans,
                       hostVars, mutation, commands, downs>>

\* replanAfterStalledClaim for a schedule of pendingReplans.
retryGet(i, k, s, o) ==
    LET t == tick[i][k]
    IN  /\ t.pc = "retryGet" /\ s \in t.todo /\ o # "late" /\ Reply("force", o)
        /\ IF o = "ok" /\ ~NoReplan(row[s])
           THEN /\ SetTick(i, k, [t EXCEPT !.pc = "retryPut", !.cur = s, !.seen = row[s]])
                /\ UNCHANGED pendingReplans
           ELSE SetTick(i, k, AfterRetry(i, k, s)) /\ Pending(i, s, o)
        /\ UNCHANGED <<now, dbVars, idVars, contVars, attemptVars, activeSchedules,
                       hostVars, mutation, commands, downs>>

retryPut(i, k, o) ==
    LET t == tick[i][k]
    IN  /\ t.pc = "retryPut"
        /\ WriteStalledReplan(i, t.cur, t.seen, now, o)
        /\ SetTick(i, k, AfterRetry(i, k, t.cur))
        /\ UNCHANGED <<now, runRow, idVars, contVars, attemptVars, hostVars, mutation,
                       commands, downs>>

Due(i) == {s \in Schedules : /\ activeSchedules[i][s] \notin {None, Absent}
                             /\ activeSchedules[i][s] <= now}

\* The fires a tick may start: one per free slot.  The model also runs out of
\* run ids, which the program never does.
Capacity(i) ==
    LET ids == Cardinality({r \in Runs : pc[r] = "unused"})
    IN  IF ids < FreeSlots(i) THEN ids ELSE FreeSlots(i)

\* What the gate lets through: as many as there are slots, longest due first.
Admitted(i, S) ==
    /\ S \subseteq Due(i)
    /\ Cardinality(S) <= Capacity(i)
    /\ S = Due(i) \/ Cardinality(S) = Capacity(i)
    /\ \A a \in S, b \in Due(i) \ S : activeSchedules[i][a] <= activeSchedules[i][b]

\* fireOne for each admitted schedule: they leave the cache and their attempts
\* are registered before the first await.  A tick with nothing else to do goes
\* through here in one step.  A stopped instance does not stop a tick that is
\* under way.
fireDue(i, k, S, runOf) ==
    LET started == {runOf[s] : s \in S}
        scheduleOf(r) == CHOOSE s \in S : runOf[s] = r
    IN  /\ \/ tick[i][k].pc = "pick"
           \/ /\ tick[i][k].pc = "idle" /\ mode[i] = "up" /\ i \notin Passive
              /\ pendingReplans[i] = {} /\ S # {}
        /\ Admitted(i, S)
        /\ \A s \in S : pc[runOf[s]] = "unused"
        /\ \A s, t \in S : runOf[s] = runOf[t] => s = t
        /\ activeSchedules' = [activeSchedules EXCEPT ![i] =
               [s \in Schedules |-> IF s \in S THEN Absent ELSE @[s]]]
        /\ owner' = [r \in Runs |-> IF r \in started THEN i ELSE owner[r]]
        /\ target' = [r \in Runs |-> IF r \in started THEN scheduleOf(r) ELSE target[r]]
        /\ source' = [r \in Runs |-> IF r \in started THEN "automatic" ELSE source[r]]
        /\ pc' = [r \in Runs |-> IF r \in started THEN "claim" ELSE pc[r]]
        /\ phase' = [r \in Runs |-> IF r \in started THEN "claiming" ELSE phase[r]]
        /\ frame' = [r \in Runs |->
               IF r \in started
               THEN [NoFrame EXCEPT !.token = activeSchedules[i][scheduleOf(r)]]
               ELSE frame[r]]
        /\ SetTick(i, k, IdleTick)
        /\ UNCHANGED <<now, dbVars, controllers, signalled, stallAborted, force,
                       abandonedRuns, pendingReplans, hostVars, mutation, boundVars>>

-----------------------------------------------------------------------------
(* CRUD.  The mutation queue of a schedule runs one call at a time         *)
(* (serializeScheduleMutation); create and runNow are not queued.          *)

Issue(i) == mode[i] = "up" /\ commands < MaxCommands /\ commands' = commands + 1

Begin(i, s, op, set) ==
    /\ mutation[i][s] = NoMutation
    /\ mutation' = [mutation EXCEPT ![i][s] = [op |-> op, set |-> set]]

EndMutation(i, s) == mutation' = [mutation EXCEPT ![i][s] = NoMutation]

create(i, s, shape, o) ==
    /\ mode[i] = "up" /\ row[s].status = "unborn" /\ Reply("crud", o)
    /\ row' = [row EXCEPT ![s] = Effect(o, NewRow(shape, now), @)]
    /\ IF o = "ok" THEN Remember(i, s, NewRow(shape, now).nextFireAt)
                   ELSE UNCHANGED activeSchedules
    /\ UNCHANGED <<now, runRow, idVars, contVars, attemptVars, pendingReplans, hostVars,
                   callVars, commands, downs>>

\* pause and delete abort the registered runs of the schedule, except the run
\* that made the call (exemptRunId), and wait for them for at most 5s.  The
\* wait is left open at both ends.
abortInflight(i, s, op, exempt) ==
    /\ Issue(i)
    /\ Begin(i, s, op, IF op = "pause" THEN [SetNothing EXCEPT !.status = "paused"]
                                       ELSE SetNothing)
    /\ signalled' = signalled \cup
           {r \in controllers : owner[r] = i /\ target[r] = s /\ r # exempt}
    /\ UNCHANGED <<now, dbVars, idVars, contVars, phase, controllers, stallAborted, force,
                   abandonedRuns, cacheVars, hostVars, tick, faults, downs>>

pause(i, s, o) ==
    /\ mutation[i][s].op = "pause" /\ Reply("crud", o)
    /\ row' = [row EXCEPT ![s] = Effect(o, Updated(@, mutation[i][s].set), @)]
    /\ IF o = "ok" /\ Exists(row[s]) THEN Remember(i, s, Absent)
                                     ELSE UNCHANGED activeSchedules
    /\ EndMutation(i, s)
    /\ UNCHANGED <<now, runRow, idVars, contVars, attemptVars, pendingReplans, hostVars,
                   tick, commands, downs>>

\* The run rows of a deleted schedule go with it (ON DELETE CASCADE).
delete(i, s, o) ==
    /\ mutation[i][s].op = "delete" /\ o # "late" /\ Reply("crud", o)
    /\ IF o = "ok"
       THEN /\ row' = [row EXCEPT ![s].status = IF Exists(row[s]) THEN "deleted" ELSE @]
            /\ runRow' = [r \in Runs |-> IF target[r] = s THEN "none" ELSE runRow[r]]
            /\ Remember(i, s, Absent)
       ELSE UNCHANGED <<dbVars, activeSchedules>>
    /\ EndMutation(i, s)
    /\ UNCHANGED <<now, idVars, contVars, attemptVars, pendingReplans, hostVars, tick,
                   commands, downs>>

\* resume and update read the row, decide what to set, and write it.
resumeGet(i, s) ==
    /\ Issue(i) /\ Exists(row[s])
    /\ Begin(i, s, "resume",
             [SetNothing EXCEPT !.status = "active", !.nextFireAt = coldStart(row[s], now)])
    /\ UNCHANGED <<now, dbVars, idVars, contVars, attemptVars, cacheVars, hostVars, tick,
                   faults, downs>>

\* A patch that touches the cadence, or turns an expired schedule into a
\* recurring one, arms the schedule anew; manual disarms it.
PatchSet(s, patch, t) ==
    LET merged == [s EXCEPT !.recurring = Column(patch.recurring, @),
                            !.manual = Column(patch.manual, @),
                            !.interval = Column(patch.interval, @)]
        reactivate == s.status = "expired" /\ merged.recurring /\ ~merged.manual
        recompute == patch.manual # Keep \/ patch.interval # Keep \/ reactivate
    IN  [status |-> IF reactivate THEN "active" ELSE Keep,
         recurring |-> patch.recurring, manual |-> patch.manual,
         interval |-> patch.interval,
         nextFireAt |-> IF ~recompute THEN Keep
                        ELSE IF merged.manual THEN None ELSE coldStart(merged, t)]

updateGet(i, s, patch) ==
    /\ Issue(i) /\ Exists(row[s])
    /\ Begin(i, s, "update", PatchSet(row[s], patch, now))
    /\ UNCHANGED <<now, dbVars, idVars, contVars, attemptVars, cacheVars, hostVars, tick,
                   faults, downs>>

writeMutation(i, s, o) ==
    LET after == Updated(row[s], mutation[i][s].set)
    IN  /\ mutation[i][s].op \in {"resume", "update"} /\ Reply("crud", o)
        /\ row' = [row EXCEPT ![s] = Effect(o, after, @)]
        /\ IF o = "ok" /\ Exists(row[s])
           THEN Remember(i, s, IF after.status = "active" THEN after.nextFireAt ELSE Absent)
           ELSE UNCHANGED activeSchedules
        /\ EndMutation(i, s)
        /\ UNCHANGED <<now, runRow, idVars, contVars, attemptVars, pendingReplans,
                       hostVars, tick, commands, downs>>

-----------------------------------------------------------------------------
(* start(), stop() and the death of the process *)

start(i, o) ==
    /\ mode[i] \in {"new", "stopped"} /\ o # "late"
    /\ IF i \in Passive
       THEN o = "ok" /\ mode' = [mode EXCEPT ![i] = "up"] /\ UNCHANGED runRow
       ELSE /\ mode' = [mode EXCEPT ![i] = "listing"]
            /\ IF o = "ok" THEN markRunningAsInterrupted ELSE UNCHANGED runRow
    /\ Reply("start", o)
    /\ UNCHANGED <<now, row, idVars, contVars, attemptVars, cacheVars, boot, callVars,
                   commands, downs>>

\* Every active schedule is armed by computeNextFireAt; those that are already
\* armed so are cached at once, the others one UPDATE at a time.
listActive(i, o) ==
    LET plan(s) == computeNextFireAt(row[s], now)
        active == {s \in Schedules : row[s].status = "active"}
        rearm == {s \in active : plan(s) # row[s].nextFireAt}
    IN  /\ mode[i] = "listing" /\ o # "late" /\ Reply("start", o)
        /\ IF o = "ok"
           THEN /\ boot' = [boot EXCEPT ![i] =
                       [s \in Schedules |-> IF s \in rearm THEN plan(s) ELSE Absent]]
                /\ activeSchedules' = [activeSchedules EXCEPT ![i] =
                       [s \in Schedules |-> IF s \in active \ rearm THEN plan(s) ELSE @[s]]]
                /\ mode' = [mode EXCEPT ![i] = IF rearm = {} THEN "up" ELSE "arming"]
           ELSE mode' = [mode EXCEPT ![i] = "stopped"] /\ UNCHANGED <<boot, activeSchedules>>
        /\ UNCHANGED <<now, dbVars, idVars, contVars, attemptVars, pendingReplans,
                       callVars, commands, downs>>

armOnStart(i, s, o) ==
    LET rest == {t \in Schedules \ {s} : boot[i][t] # Absent}
    IN  /\ mode[i] = "arming" /\ boot[i][s] # Absent /\ Reply("start", o)
        /\ row' = IF Exists(row[s])
                  THEN [row EXCEPT ![s].nextFireAt = Effect(o, boot[i][s], @)] ELSE row
        /\ IF o = "ok"
           THEN /\ Remember(i, s, boot[i][s])
                /\ boot' = [boot EXCEPT ![i][s] = Absent]
                /\ mode' = [mode EXCEPT ![i] = IF rest = {} THEN "up" ELSE @]
           ELSE /\ UNCHANGED activeSchedules
                /\ boot' = [boot EXCEPT ![i] = [t \in Schedules |-> Absent]]
                /\ mode' = [mode EXCEPT ![i] = "stopped"]
        /\ UNCHANGED <<now, runRow, idVars, contVars, attemptVars, pendingReplans,
                       callVars, commands, downs>>

RunsOf(i) == {r \in Runs : owner[r] = i}

EmptyCache(i) ==
    activeSchedules' = [activeSchedules EXCEPT ![i] = [s \in Schedules |-> Absent]]

\* abandonedRuns and pendingReplans are kept.
stop(i) ==
    /\ mode[i] = "up" /\ downs < MaxDowns /\ downs' = downs + 1
    /\ mode' = [mode EXCEPT ![i] = "stopped"]
    /\ signalled' = signalled \cup (controllers \cap RunsOf(i))
    /\ controllers' = controllers \ RunsOf(i)
    /\ phase' = [r \in Runs |-> IF owner[r] = i THEN "none" ELSE phase[r]]
    /\ EmptyCache(i)
    /\ UNCHANGED <<now, dbVars, idVars, contVars, stallAborted, force, abandonedRuns,
                   pendingReplans, boot, callVars, faults, commands>>

\* The process dies: nothing of its memory is left.
crash(i) ==
    /\ mode[i] \notin {"new", "dead"} /\ downs < MaxDowns /\ downs' = downs + 1
    /\ mode' = [mode EXCEPT ![i] = "dead"]
    /\ pc' = [r \in Runs |-> IF owner[r] = i THEN "done" ELSE pc[r]]
    /\ frame' = [r \in Runs |-> IF owner[r] = i THEN NoFrame ELSE frame[r]]
    /\ phase' = [r \in Runs |-> IF owner[r] = i THEN "none" ELSE phase[r]]
    /\ force' = [r \in Runs |-> IF owner[r] = i THEN NoForce ELSE force[r]]
    /\ controllers' = controllers \ RunsOf(i)
    /\ signalled' = signalled \ RunsOf(i)
    /\ stallAborted' = stallAborted \ RunsOf(i)
    /\ abandonedRuns' = abandonedRuns \ RunsOf(i)
    /\ boot' = [boot EXCEPT ![i] = [s \in Schedules |-> Absent]]
    /\ EmptyCache(i)
    /\ pendingReplans' = [pendingReplans EXCEPT ![i] = {}]
    /\ tick' = [tick EXCEPT ![i] = [k \in Ticks |-> IdleTick]]
    /\ mutation' = [mutation EXCEPT ![i] = [s \in Schedules |-> NoMutation]]
    /\ UNCHANGED <<now, dbVars, idVars, faults, commands>>

Advance ==
    /\ now < MaxNow /\ now' = now + 1
    /\ UNCHANGED <<dbVars, idVars, contVars, attemptVars, cacheVars, hostVars, callVars,
                   boundVars>>

-----------------------------------------------------------------------------
(* The next-state relation *)

\* A storage call of the continuation of r answers.
FireStep(r) ==
    \E o \in Replies :
        \/ claimDueFire(r, o) \/ RefreshCache(r, o)
        \/ LoadSchedule(r, o) \/ insertRun(r, o) \/ Bookkeep(r, o)
        \/ deleteRunOnDefer(r, o) \/ rearmDeferred(r, o)
        \/ recordVerdict(r, o) \/ rereadSchedule(r, o) \/ replan(r, o)
        \/ stampFinished(r, o)

RunnerStep(r) ==
    \/ onQueueWaitStart(r) \/ reclaimSlot(r) \/ endQueueWait(r)
    \/ \E outcome \in Outcomes : Settle(r, outcome)

ForceStep(r) == \E o \in Replies : forceRecord(r, o) \/ forceReread(r, o) \/ forceReplan(r, o)

GuardStep(r) == stallAbort(r) \/ forceReleaseStalledRun(r)

TickStep(i, k) ==
    \/ SyncTick(i, k) \/ RetryTick(i, k)
    \/ \E o \in Replies :
          \/ SyncCache(i, k, o) \/ sweepStaleRunningRuns(i, k, o)
          \/ reschedCheck(i, k, o) \/ reschedPut(i, k, o) \/ retryPut(i, k, o)
          \/ \E s \in Schedules : reschedGet(i, k, s, o) \/ retryGet(i, k, s, o)
    \/ \E S \in SUBSET Due(i) : \E runOf \in [S -> Runs] : fireDue(i, k, S, runOf)

MutationStep(i, s) ==
    \E o \in Replies : pause(i, s, o) \/ delete(i, s, o) \/ writeMutation(i, s, o)

Command(i, s) ==
    \/ \E r \in Runs : runNow(i, s, r)
    \/ \E op \in {"pause", "delete"}, exempt \in Runs \cup {None} :
          abortInflight(i, s, op, exempt)
    \/ resumeGet(i, s)
    \/ \E patch \in Patches : updateGet(i, s, patch)
    \/ \E shape \in Shapes, o \in Replies : create(i, s, shape, o)

HostStep(i) ==
    \/ stop(i) \/ crash(i)
    \/ \E o \in Replies :
          \/ start(i, o) \/ listActive(i, o)
          \/ \E s \in Schedules : armOnStart(i, s, o)

Next ==
    \/ \E r \in Runs : FireStep(r) \/ RunnerStep(r) \/ ForceStep(r) \/ GuardStep(r)
    \/ \E i \in Instances, k \in Ticks : TickStep(i, k)
    \/ \E i \in Instances, s \in Schedules : MutationStep(i, s) \/ Command(i, s)
    \/ \E i \in Instances : HostStep(i)
    \/ Advance

Spec == Init /\ [][Next]_vars

-----------------------------------------------------------------------------
(* Type invariant, one part per group of variables *)

DbTypeOK ==
    /\ row \in [Schedules -> Schedule]
    /\ runRow \in [Runs -> RunStatus \cup {"none"}]

IdTypeOK ==
    /\ owner \in [Runs -> Instances \cup {None}]
    /\ target \in [Runs -> Schedules \cup {None}]
    /\ source \in [Runs -> {"automatic", "run-now", None}]

ContTypeOK == pc \in [Runs -> Awaits] /\ frame \in [Runs -> Frame]

AttemptTypeOK ==
    /\ phase \in [Runs -> Phases]
    /\ controllers \subseteq Runs /\ signalled \subseteq Runs
    /\ stallAborted \subseteq Runs /\ abandonedRuns \subseteq Runs
    /\ force \in [Runs -> ForceState]

CacheTypeOK ==
    /\ activeSchedules \in [Instances -> [Schedules -> Fires \cup {Absent}]]
    /\ pendingReplans \in [Instances -> SUBSET Schedules]

HostTypeOK ==
    /\ mode \in [Instances -> {"new", "listing", "arming", "up", "stopped", "dead"}]
    /\ boot \in [Instances -> [Schedules -> Fires \cup {Absent}]]

CallTypeOK ==
    /\ tick \in [Instances -> [Ticks -> Tick]]
    /\ mutation \in [Instances -> [Schedules -> Mutation]]

BoundTypeOK == now \in Nat /\ faults \in Nat /\ commands \in Nat /\ downs \in Nat

\* Every variable keeps the shape the code gives it.
TypeOK ==
    /\ DbTypeOK /\ IdTypeOK /\ ContTypeOK /\ AttemptTypeOK
    /\ CacheTypeOK /\ HostTypeOK /\ CallTypeOK /\ BoundTypeOK
=============================================================================
