------------------------- MODULE SchedulerInvariant -------------------------
(***************************************************************************)
(* The inductive invariants behind the theorems about the engine: what the *)
(* local variables of a suspended continuation may rely on, how far the    *)
(* registry of attempts may lag behind the continuations, and who answers  *)
(* for a schedule, holds its claim, or still owes the cache an entry.      *)
(***************************************************************************)
EXTENDS SchedulerProps

\* A run id in use, and no other, names the fire it stands for.
Linked ==
    \A r \in Runs :
        /\ pc[r] = "unused" => owner[r] \notin Instances
        /\ pc[r] # "unused" => /\ owner[r] \in Instances
                              /\ target[r] \in Schedules
                              /\ source[r] \in {"automatic", "run-now"}
        /\ pc[r] = "claim" => source[r] = "automatic"

\* Awaits after which runNowInner still reads the row it loaded.
KeepsSnapshot == {"insert", "bookkeep", "run", "undo", "defer"}

\* What an await needs of the continuation's local variables is there.
FramesReady ==
    \A r \in Runs :
        /\ pc[r] = "finalize" => frame[r].verdict \in Verdicts
        /\ source[r] = "run-now" /\ pc[r] \in KeepsSnapshot => frame[r].seen \in Schedule
        /\ force[r].stage = "put" => force[r].seen \in Schedule

\* The same of a tick that stands at one schedule of its walk.
TicksReady ==
    \A i \in Instances, k \in Ticks :
        tick[i][k].pc \in {"reschedCheck", "reschedPut", "retryPut"} =>
            tick[i][k].cur \in Schedules /\ tick[i][k].seen \in Schedule

\* A force release has taken the fire from a runner that is still out, or came
\* back late.
ForceOwned ==
    \A r \in Runs : force[r].stage # "idle" =>
        /\ r \notin controllers /\ phase[r] \in {"none", "finalizing"}
        /\ pc[r] = "done" \/ (pc[r] = "run" /\ r \in abandonedRuns)

\* The phase of a registered attempt follows the await of its continuation; it
\* is queued, or withdrawn, only once the runner has reported the queue wait.
PhaseFollowsAwait ==
    \A r \in Runs :
        /\ pc[r] \in {"claim", "refresh"} => phase[r] \in {"none", "claiming"}
        /\ pc[r] = "load" => phase[r] \in {"none", "loading"}
        /\ pc[r] \in {"insert", "bookkeep"} => phase[r] \in {"none", "persisting"}
        /\ pc[r] = "run" =>
              /\ phase[r] \in {"none", "running", "queued", "cancelling", "finalizing"}
              /\ phase[r] \in {"queued", "cancelling"} => frame[r].waited
        /\ pc[r] \in Settling \cup {"done"} => phase[r] \in {"none", "finalizing"}

\* What holds of the runs, whatever the ticks and the API calls do.
RunInv == /\ Linked /\ FramesReady /\ ForceOwned
          /\ RegistryConsistent /\ SlotsAreHeld /\ PhaseFollowsAwait

IInv == TypeOK /\ TicksReady /\ RunInv

\* The stall guard gives up a fire whose runner is out, and takes its controller.
AbandonedIsOut == \A r \in abandonedRuns : pc[r] = "run" /\ r \notin controllers

\* Once a run row has its verdict, nobody is left who would write another.
VerdictIsFinal ==
    \A r \in Runs : runRow[r] \in Verdicts =>
        /\ force[r].stage # "write"
        /\ \/ pc[r] \in {"replanGet", "replanPut", "stamp", "done"}
           \/ r \in abandonedRuns

RowInv == AbandonedIsOut /\ VerdictIsFinal

-----------------------------------------------------------------------------
(* Runs that no stop() and no crash disturbs *)

\* An attempt stays registered until its runner comes back or is given up.
StaysRegistered ==
    \A r \in Runs : pc[r] \in PreRegister \cup {"run"} =>
        phase[r] # "none" \/ r \in abandonedRuns

\* Only a fire whose runner was called is aborted.
SignalledIsOut == \A r \in signalled : pc[r] \in {"run"} \cup Settling

\* A fire has no verdict before its runner has settled.
UndecidedBeforeSettle ==
    \A r \in Runs : pc[r] \in PreRegister \cup {"unused", "run"} => frame[r].verdict = None

\* A snapshot tells what kind of schedule it is of.
SnapshotsKeepKind ==
    \A r \in Runs : pc[r] = "replanPut" =>
        /\ frame[r].seen \in Schedule
        /\ row[target[r]].status # "unborn"
        /\ frame[r].seen.recurring = row[target[r]].recurring

-----------------------------------------------------------------------------
(* Who answers for a schedule: NoOrphanedSchedule *)

\* The failures the engine does not make up for: a claim or a run row that is
\* written but not acknowledged, a replan, a deferral or an API call that is
\* lost, and an error of a runner that reads like an abort.
FailuresTolerated ==
    /\ Fallible \cap {"claim", "insert", "replan", "defer", "crud"} = {}
    /\ "aborting" \notin Outcomes

\* A schedule stays recurring or one-shot, and only one instance, if any, takes
\* a schedule in and out of manual mode.
KindsKept ==
    /\ \A patch \in Patches : patch.recurring = Keep
    /\ (\A patch \in Patches : patch.manual = Keep) \/ (\A i, j \in Instances : i = j)

\* Whom Answering names: a fire that will arm s again, itself or through its
\* force release, the retries of a replan, and the API calls under way.
Serves(r, s) ==
    /\ target[r] = s /\ source[r] = "automatic"
    /\ \/ /\ pc[r] \notin {"unused", "claim", "refresh", "done"} /\ r \notin abandonedRuns
          /\ r \notin signalled \/ r \in stallAborted
          /\ frame[r].verdict # "aborted"
       \/ force[r].stage # "idle"

Retried(s) == \E i \in Instances \ Passive : s \in pendingReplans[i]

Edited(s) ==
    \E i \in Instances : \/ mutation[i][s].op \in {"pause", "delete"}
                         \/ mutation[i][s].set.nextFireAt \notin {Keep, None}

\* The awaits of runNow are its own; only an automatic fire is replanned after a
\* force release, while what was read calls for it; no passive instance fires.
SourcesFit ==
    \A r \in Runs :
        /\ pc[r] \in {"load", "bookkeep", "stamp"} => source[r] = "run-now"
        /\ force[r].stage \in {"get", "put"} => source[r] = "automatic"
        /\ force[r].stage = "put" => ~NoReplan(force[r].seen)
        /\ source[r] = "automatic" => owner[r] \notin Passive

\* What a tick is about to write arms the schedule, or closes a one-shot.
TicksArm ==
    \A i \in Instances, k \in Ticks :
        /\ tick[i][k].pc # "idle" => i \notin Passive
        /\ tick[i][k].pc = "reschedPut" =>
              ~tick[i][k].seen.manual /\ (tick[i][k].seen.recurring \/ ~tick[i][k].seen.lastFired)
        /\ tick[i][k].pc = "retryPut" => ~NoReplan(tick[i][k].seen)

\* An UPDATE of resume() or update() that will disarm the schedule leaves it
\* manual, and one that will activate it or make it tick arms it.
WillArm(i, set, s) ==
    /\ s.status # "unborn" /\ set.recurring = Keep /\ set.status \in {Keep, "active"}
    /\ set.manual = Keep \/ \A j \in Instances : j = i
    /\ set.status = "active" \/ set.manual = FALSE => set.nextFireAt \in Nat
    /\ set.nextFireAt = None => set.manual = TRUE \/ (set.manual = Keep /\ s.manual)

MutationsArm ==
    \A i \in Instances, s \in Schedules :
        /\ mutation[i][s].op = "pause" =>
              mutation[i][s].set = [SetNothing EXCEPT !.status = "paused"]
        /\ mutation[i][s].op \in {"none", "delete"} => mutation[i][s].set = SetNothing
        /\ mutation[i][s].op \in {"resume", "update"} =>
              WillArm(i, mutation[i][s].set, row[s])

\* So does start(); the API is served once it is through.
StartArms ==
    \A i \in Instances, s \in Schedules :
        /\ mode[i] # "up" => mutation[i][s] = NoMutation
        /\ boot[i][s] # Absent => mode[i] = "arming"
        /\ boot[i][s] = None =>
              row[s].status # "unborn" /\ (row[s].manual \/ ~row[s].recurring)

RunsServe == StaysRegistered /\ SignalledIsOut /\ UndecidedBeforeSettle /\ SourcesFit

ArmInv == /\ NoOrphanedSchedule /\ RunsServe /\ TicksArm
          /\ SnapshotsKeepKind /\ MutationsArm /\ StartArms
-----------------------------------------------------------------------------
(* Who holds the claim of a schedule: ExclusiveClaim, OnceFiresOnce *)

\* Fires only: nobody edits a schedule or runs it by hand, no process goes down,
\* and no write of a run row fails.
Undisturbed == /\ MaxCommands = 0 /\ MaxDowns = 0
               /\ Fallible \cap {"insert", "undo", "finalize", "force"} = {}

\* What is then under way: no mutation, no retry, no run-now, no reschedule.
OnlyFires ==
    /\ \A i \in Instances : mode[i] = "up" /\ pendingReplans[i] = {}
    /\ \A i \in Instances, s \in Schedules : mutation[i][s] = NoMutation
    /\ \A i \in Instances, k \in Ticks : tick[i][k].pc \in {"idle", "sync", "sweep", "pick"}
    /\ \A r \in Runs : /\ pc[r] # "unused" => source[r] = "automatic"
                       /\ pc[r] = "claim" => frame[r].token \in Nat

\* A sweep finds no running row: each has a controller, a force release that is
\* about to write it, or a continuation that is.
RunningIsCared ==
    \A r \in Runs : runRow[r] = "running" =>
        r \in controllers \/ force[r].stage = "write" \/ pc[r] \in {"undo", "finalize"}

\* Run rows, and what a force release has read, are of schedules that exist.
RowsExist ==
    \A r \in Runs :
        /\ runRow[r] # "none" => pc[r] # "unused" /\ row[target[r]].status # "unborn"
        /\ force[r].stage = "put" => force[r].seen.recurring = row[target[r]].recurring

\* Holders, and the fires whose force release has still to arm the schedule.
Claims(r, s) ==
    /\ target[r] = s
    /\ \/ /\ source[r] = "automatic" /\ pc[r] \notin {"unused", "claim", "refresh", "done"}
          /\ r \notin abandonedRuns
       \/ force[r].stage # "idle"

\* While one fire claims a schedule nobody else can: the row is disarmed.
Sole(s) ==
    \A r \in Runs : Claims(r, s) =>
        /\ row[s].status = "active" /\ row[s].nextFireAt = None
        /\ \A q \in Runs : Claims(q, s) => q = r

\* A one-shot that was run to an end is disarmed for good.
Over(s) ==
    \A r \in Executed(s) : ~row[s].recurring =>
        /\ row[s].status = "expired" \/ row[s].nextFireAt = None
        /\ \A q \in Runs : Claims(q, s) \/ q \in Executed(s) => q = r

ClaimInv == /\ RunsServe /\ TicksArm /\ SnapshotsKeepKind
            /\ OnlyFires /\ RunningIsCared /\ RowsExist
            /\ \A s \in Schedules : Sole(s) /\ Over(s)

-----------------------------------------------------------------------------
(* What an instance caches: CacheMissesNoFire *)

\* One instance on its database, and the calls that write a fire time, or read
\* it for the cache, answer.
CacheKept ==
    /\ \A i, j \in Instances : i = j
    /\ Fallible \cap {"refresh", "defer", "replan", "force", "sweep", "crud"} = {}

\* A fire is claimed for a time that has come.
TokensDue == \A r \in Runs : pc[r] = "claim" => frame[r].token \in Nat /\ frame[r].token <= now

\* What start() has still to arm, it arms before anything else of it goes on.
BootWhileArming ==
    \A i \in Instances, s \in Schedules : boot[i][s] # Absent => mode[i] = "arming"

\* A fire of s that may still put it back into the cache.
Claiming(s) == \E r \in Runs : target[r] = s /\ pc[r] \in {"claim", "refresh"}

\* A fire time of the database is cached, or somebody is about to cache it.
Covered(i, s) == Cached(s) \notin {None, Absent} =>
    InTime(i, s) \/ boot[i][s] # Absent \/ Claiming(s)

CacheCovers ==
    \A i \in Instances \ Passive, s \in Schedules :
        mode[i] \in {"arming", "up"} => Covered(i, s)

\* The UPDATE of pause() pauses.
PausesPause ==
    \A i \in Instances, s \in Schedules :
        mutation[i][s].op = "pause" => mutation[i][s].set.status = "paused"

CacheInv == TokensDue /\ BootWhileArming /\ CacheCovers
=============================================================================
