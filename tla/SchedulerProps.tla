--------------------------- MODULE SchedulerProps ---------------------------
(***************************************************************************)
(* What the schedule engine promises, and the fairness its timers and its  *)
(* database give it.                                                       *)
(***************************************************************************)
EXTENDS Scheduler

-----------------------------------------------------------------------------
(* The registry of in-flight attempts *)

\* assertAttemptRegistryInvariants, at every moment and not only when an
\* attempt begins: a controller belongs to an attempt that is still registered
\* and whose runner has not come back.
RegistryConsistent ==
    \A r \in controllers : phase[r] # "none" /\ pc[r] = "run"

\* No slot leaks: a registered attempt has a continuation that will release
\* it, or a force release in progress that will.
SlotsAreHeld ==
    \A r \in Runs : phase[r] # "none" =>
        pc[r] \notin {"unused", "done"} \/ force[r].stage # "idle"

\* The concurrency gate: on one instance no more than MaxConcurrentRuns
\* automatic fires are executing at once, whatever run-now calls, queue waits
\* and overlapping ticks do.
AutomaticExecuting(i) ==
    {r \in Runs : owner[r] = i /\ source[r] = "automatic" /\ phase[r] \in ExecutingPhases}

AutomaticRunsWithinGate ==
    \A i \in Instances : Cardinality(AutomaticExecuting(i)) <= MaxConcurrentRuns

\* Every phase change is one the table allows (transitionAttempt would throw
\* on another and lose the rest of its caller), and a released attempt never
\* comes back.
LegalTransitions ==
    [][\A r \in Runs :
          /\ phase[r] # "none" /\ phase'[r] # "none" =>
                isLegalPhaseTransition(phase[r], phase'[r])
          /\ phase[r] = "none" /\ phase'[r] # "none" =>
                pc[r] = "unused" /\ phase'[r] \in EntryPhases]_vars

\* While a force release is closing a fire its attempt stays registered,
\* whatever its late runner does: only stop() or a crash may drop it.
ForceReleaseKeepsSlot ==
    [][\A r \in Runs :
          force[r].stage # "idle" /\ phase[r] # "none" /\ phase'[r] = "none" =>
             force'[r].stage = "idle" \/ mode'[owner[r]] # "up"]_vars

\* A run the user has seen end keeps its verdict: a late runner, a sweep or a
\* retry never overwrites it.  Only the deletion of its schedule removes it.
SettledRunRowsStick ==
    [][\A r \in Runs : runRow[r] \in Verdicts => runRow'[r] \in {runRow[r], "none"}]_vars

-----------------------------------------------------------------------------
(* Schedules and their claims *)

\* Every instance has started at time 0.
AllUp == [i \in Instances |-> "up"]
InitUp == InitWith(AllUp, 0, Unborn) /\ Spent(0, 0, 0)
SpecUp == InitUp /\ [][Next]_vars

\* Automatic fires of s that hold its claim: past the compare-and-swap, not
\* yet closed, and not given up by the stall guard.
Holders(s) ==
    {r \in Runs : /\ target[r] = s /\ source[r] = "automatic"
                  /\ pc[r] \notin {"unused", "claim", "refresh", "done"}
                  /\ r \notin abandonedRuns}

\* Two instances on one database never execute a schedule twice at once.
ExclusiveClaim == \A s \in Schedules : Cardinality(Holders(s)) <= 1

\* A one-shot schedule is run to an end at most once.
Executed(s) == {r \in Runs : target[r] = s /\ runRow[r] \in {"success", "failed", "skipped"}}

OnceFiresOnce ==
    \A s \in Schedules : ~row[s].recurring => Cardinality(Executed(s)) <= 1

\* Someone will arm s again: the fire that holds its claim, a force release, a
\* retry, or a command that is under way.
Answering(s) ==
    \/ \E r \in Holders(s) :
          /\ r \notin signalled \/ r \in stallAborted
          /\ frame[r].verdict # "aborted"
    \/ \E r \in Runs : /\ target[r] = s /\ source[r] = "automatic"
                       /\ force[r].stage # "idle"
    \/ \E i \in Instances \ Passive : s \in pendingReplans[i]
    \/ \E i \in Instances : \/ mutation[i][s].op \in {"pause", "delete"}
                            \/ mutation[i][s].set.nextFireAt \notin {Keep, None}

\* The cadence of a recurring schedule never stops silently: an active one
\* without a next fire time has somebody who answers for it.
Unarmed(s) == /\ row[s].status = "active" /\ row[s].recurring /\ ~row[s].manual
              /\ row[s].nextFireAt = None

NoOrphanedSchedule == \A s \in Schedules : Unarmed(s) => Answering(s)

\* Nothing of instance i is between two awaits.
Quiescent(i) ==
    /\ mode[i] = "up"
    /\ \A r \in Runs : /\ pc[r] \in {"unused", "done"} /\ force[r].stage = "idle"
    /\ \A k \in Ticks : tick[i][k] = IdleTick
    /\ \A s \in Schedules : mutation[i][s] = NoMutation

\* The next tick of i at which s is due by the database finds it due.
InTime(i, s) ==
    /\ activeSchedules[i][s] \notin {None, Absent}
    /\ activeSchedules[i][s] <= Cached(s) \/ activeSchedules[i][s] <= now

\* At rest an instance misses no fire that the database holds: however the
\* calls that wrote the fire time were interleaved, what it caches is due no
\* later, or already.  It may be due earlier, a stale copy that loses its claim.
CacheMissesNoFire ==
    \A i \in Instances \ Passive, s \in Schedules :
        Quiescent(i) /\ Cached(s) \notin {None, Absent} => InTime(i, s)

-----------------------------------------------------------------------------
(* Fairness and liveness *)

\* A sweep that is neither blocked nor failing.
SweepsNow(i, k) ==
    sweepStaleRunningRuns(i, k, "ok") /\ (StaleRuns # {} => runRow' # runRow)

\* The database answers every call; the heartbeat timer runs the stall guard;
\* the session queue comes to every queued prompt; the tick timer goes on, with
\* a database sync every 30s and a sweep once its suspend window has passed.
\* The runner is not assumed to come back, nor a user or a process to act.
Fairness ==
    /\ \A r \in Runs : /\ WF_vars(FireStep(r)) /\ WF_vars(ForceStep(r))
                       /\ WF_vars(GuardStep(r))
                       /\ WF_vars(reclaimSlot(r) \/ endQueueWait(r))
    /\ \A i \in Instances \ Passive, k \in Ticks :
          WF_vars(TickStep(i, k)) /\ SF_vars(SyncTick(i, k)) /\ SF_vars(SweepsNow(i, k))
    /\ \A i \in Instances, s \in Schedules : WF_vars(MutationStep(i, s))
    /\ \A i \in Instances :
          WF_vars(\E o \in Replies : \/ listActive(i, o)
                                    \/ \E s \in Schedules : armOnStart(i, s, o))

\* A slot never depends on the runner: an agent's attempt that occupies one is
\* released, or gives the slot up by queuing, whatever fails on the way.
SlotEventuallyFreed ==
    \A r \in Runs :
        phase[r] \notin {"none", "queued"} ~> phase[r] \in {"none", "queued"}

\* A recurring schedule whose fire is stuck, or whose replan failed, is armed
\* again without a restart.
CadenceResumes == \A s \in Schedules : Unarmed(s) ~> ~Unarmed(s)

\* A recurring schedule whose fire died with its process is armed again by the
\* instance that is left, once its sweep has found the running row.
DiedRunning(s) ==
    \E r \in Runs : target[r] = s /\ runRow[r] = "running" /\ mode[owner[r]] = "dead"

CrashedFireTakenOver ==
    \A s \in Schedules : Unarmed(s) /\ DiedRunning(s) ~> ~Unarmed(s)

\* A fire that is due in the database is claimed by some instance, even when
\* it was armed by one that does not tick.
DueFireClaimed ==
    \A s \in Schedules, t \in 1 .. MaxNow :
        (row[s].status = "active" /\ row[s].nextFireAt = t /\ t <= now)
            ~> (~(row[s].status = "active" /\ row[s].nextFireAt = t)
                \/ \A r \in Runs : pc[r] # "unused")
=============================================================================
