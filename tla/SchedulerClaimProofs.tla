------------------------ MODULE SchedulerClaimProofs ------------------------
(***************************************************************************)
(* Schedules and their claims, for every number of instances, schedules,   *)
(* runs and overlapping ticks: no cadence stops silently, no two instances *)
(* run a schedule at once, and an instance caches what the database holds. *)
(***************************************************************************)
EXTENDS SchedulerRunProofs

-----------------------------------------------------------------------------
(* What a step does to the runs it is not about *)

\* The storage calls of a fire, one by one.
FireCall(r, o) ==
    \/ claimDueFire(r, o) \/ RefreshCache(r, o)
    \/ LoadSchedule(r, o) \/ insertRun(r, o) \/ Bookkeep(r, o)
    \/ deleteRunOnDefer(r, o) \/ rearmDeferred(r, o)
    \/ recordVerdict(r, o) \/ rereadSchedule(r, o) \/ replan(r, o)
    \/ stampFinished(r, o)

\* A fire that returns, calls its runner, or goes on to another storage call.
Ends(r) ==
    /\ pc'[r] = "done" /\ frame'[r] = NoFrame /\ phase'[r] = "none"
    /\ signalled' = signalled \ {r} /\ stallAborted' = stallAborted \ {r}
    /\ controllers' = controllers \ {r}

Starts(r) ==
    /\ pc[r] \in {"insert", "bookkeep"} /\ pc'[r] = "run" /\ frame'[r] = frame[r]
    /\ phase'[r] = "running" /\ controllers' = controllers \cup {r}
    /\ UNCHANGED <<signalled, stallAborted>>

GoesOn(r) ==
    /\ pc'[r] \in PreRegister \cup Settling
    /\ pc'[r] \in PreRegister => pc[r] \in PreRegister
    /\ frame'[r].verdict = frame[r].verdict
    /\ phase'[r] = "none" => phase[r] = "none"
    /\ pc'[r] \in {"load", "bookkeep", "stamp"} => source[r] = "run-now"
    /\ UNCHANGED <<signalled, stallAborted, controllers>>

\* Exit, Launch and Goto are such steps.
LEMMA ExitEnds ==
    ASSUME IInv, NEW r \in Runs, pc[r] \in PreRegister \cup Settling, Exit(r)
    PROVE Ends(r)
  BY NoForceBetweenCalls DEF Exit, finishInflightAttempt, Ends, IInv, TypeOK, ContTypeOK,
     AttemptTypeOK

\* Launch ends the fire, or calls its runner.
LEMMA LaunchEndsOrStarts ==
    ASSUME IInv, NEW r \in Runs, pc[r] \in {"insert", "bookkeep"}, Launch(r)
    PROVE Ends(r) \/ Starts(r)
<1>1. CASE phase[r] = "none"
  BY <1>1, ExitEnds DEF Launch, PreRegister
<1>2. CASE phase[r] # "none"
  BY <1>2 DEF Launch, Goto, Starts, IInv, TypeOK, ContTypeOK, AttemptTypeOK
<1> QED
  BY <1>1, <1>2

\* A storage call of r moves r alone.
LEMMA FireStepShape ==
    ASSUME IInv, NEW r \in Runs, NEW o \in Replies, FireCall(r, o)
    PROVE /\ pc[r] \in PreRegister \cup Settling /\ force[r].stage = "idle"
          /\ Ends(r) \/ Starts(r) \/ GoesOn(r)
          /\ \A q \in Runs \ {r} : /\ pc'[q] = pc[q] /\ frame'[q] = frame[q]
                                   /\ phase'[q] = phase[q]
          /\ UNCHANGED <<force, abandonedRuns, owner, target, source>>
<1>a. ContTypeOK /\ AttemptTypeOK
  BY DEF IInv, TypeOK
<1>b. pc[r] \in PreRegister \cup Settling
  BY DEF FireCall, claimDueFire, RefreshCache, LoadSchedule, insertRun, Bookkeep,
     deleteRunOnDefer, rearmDeferred, recordVerdict, rereadSchedule, replan, stampFinished,
     PreRegister, Settling
<1>c. force[r].stage = "idle"
  BY <1>b, NoForceBetweenCalls
<1>d. UNCHANGED <<owner, target, source>>
  BY DEF FireCall, claimDueFire, RefreshCache, LoadSchedule, insertRun, Bookkeep,
     deleteRunOnDefer, rearmDeferred, recordVerdict, rereadSchedule, replan, stampFinished,
     idVars
<1>e. pc[r] # "unused" /\ source[r] \in {"automatic", "run-now"}
  BY <1>b DEF PreRegister, Settling, IInv, RunInv, Linked
<1>1. CASE Exit(r)
  <2>1. Ends(r)
    BY <1>1, <1>b, ExitEnds
  <2>2. \A q \in Runs \ {r} : pc'[q] = pc[q] /\ frame'[q] = frame[q] /\ phase'[q] = phase[q]
    BY <1>1, <1>a DEF Exit, finishInflightAttempt, ContTypeOK, AttemptTypeOK
  <2> QED
    BY <1>1, <1>b, <1>c, <1>d, <2>1, <2>2 DEF Exit
<1>2. CASE Launch(r) /\ pc[r] \in {"insert", "bookkeep"}
  <2>1. Ends(r) \/ Starts(r)
    BY <1>2, LaunchEndsOrStarts
  <2>2. CASE phase[r] # "none"
    <3>1. \A q \in Runs \ {r} : pc'[q] = pc[q] /\ frame'[q] = frame[q] /\ phase'[q] = phase[q]
      BY <1>2, <2>2, <1>a DEF Launch, Goto, ContTypeOK, AttemptTypeOK
    <3> QED
      BY <1>2, <2>2, <1>b, <1>c, <1>d, <2>1, <3>1 DEF Launch
  <2> QED
    BY <1>1, <1>2, <2>2 DEF Launch
<1>3. ASSUME NEW where \in {"refresh", "insert", "bookkeep", "defer", "replanGet", "replanPut",
                           "stamp"},
             Goto(r, where), pc[r] \in PreRegister \/ where \in Settling,
             where \in {"bookkeep", "stamp"} => source[r] = "run-now",
             phase' = phase \/ phase' = Moved(r, "persisting"),
             frame' = frame \/ frame' = [frame EXCEPT ![r].seen = row[target[r]]],
             UNCHANGED <<controllers, signalled, stallAborted, force, abandonedRuns>>
      PROVE /\ GoesOn(r) /\ UNCHANGED <<force, abandonedRuns>>
            /\ \A q \in Runs \ {r} : /\ pc'[q] = pc[q] /\ frame'[q] = frame[q]
                                     /\ phase'[q] = phase[q]
  <2>1. pc'[r] = where /\ \A q \in Runs \ {r} : pc'[q] = pc[q]
    BY <1>3, <1>a DEF Goto, ContTypeOK
  <2>2. frame'[r].verdict = frame[r].verdict /\ \A q \in Runs \ {r} : frame'[q] = frame[q]
    BY <1>3, <1>a DEF ContTypeOK, Frame
  <2>3. /\ phase'[r] = "none" => phase[r] = "none"
        /\ \A q \in Runs \ {r} : phase'[q] = phase[q]
    BY <1>3, <1>a DEF Moved, AttemptTypeOK
  <2>4. where \in PreRegister \cup Settling
    BY DEF PreRegister, Settling
  <2>5. where \in Settling => where \notin PreRegister
    BY DEF PreRegister, Settling
  <2> QED
    BY <1>3, <2>1, <2>2, <2>3, <2>4, <2>5 DEF GoesOn
<1>4. Exit(r) \/ (Launch(r) /\ pc[r] \in {"insert", "bookkeep"}) \/
      \E where \in {"refresh", "insert", "bookkeep", "defer", "replanGet", "replanPut", "stamp"} :
          /\ Goto(r, where) /\ (pc[r] \in PreRegister \/ where \in Settling)
          /\ where \in {"bookkeep", "stamp"} => source[r] = "run-now"
          /\ phase' = phase \/ phase' = Moved(r, "persisting")
          /\ frame' = frame \/ frame' = [frame EXCEPT ![r].seen = row[target[r]]]
          /\ UNCHANGED <<controllers, signalled, stallAborted, force, abandonedRuns>>
  BY <1>b, <1>e DEF FireCall, claimDueFire, RefreshCache, LoadSchedule, insertRun, Bookkeep,
     deleteRunOnDefer, rearmDeferred, recordVerdict, rereadSchedule, replan, stampFinished,
     attemptVars, PreRegister, Settling
<1> QED
  BY <1>1, <1>2, <1>3, <1>4, <1>b, <1>c, <1>d

\* With no stop and no crash, the instances only start.
LEMMA NothingGoesDown ==
    ASSUME IInv, MaxDowns = 0, NEW i \in Instances PROVE ~stop(i) /\ ~crash(i)
<1>1. downs \in Nat
  BY DEF IInv, TypeOK, BoundTypeOK
<1>2. ~(downs < MaxDowns)
  BY <1>1
<1> QED
  BY <1>2 DEF stop, crash

\* So the steps of the host are those of start().
LEMMA HostStepStarts ==
    ASSUME IInv, MaxDowns = 0, NEW i \in Instances, HostStep(i)
    PROVE \E o \in Replies : \/ start(i, o) \/ listActive(i, o)
                             \/ \E s \in Schedules : armOnStart(i, s, o)
  BY NothingGoesDown DEF HostStep

-----------------------------------------------------------------------------
(* Runs that no stop() and no crash disturbs: RunsServe                    *)

\* A step that begins no fire and moves none.
LEMMA UntouchedServe ==
    ASSUME IInv, RunsServe, UNCHANGED <<idVars, contVars, phase, force, abandonedRuns>>,
           signalled' \subseteq signalled \cup controllers
    PROVE RunsServe'
<1>1. \A r \in controllers : pc[r] = "run"
  BY DEF IInv, RunInv, RegistryConsistent
<1> QED
  BY <1>1 DEF idVars, contVars, RunsServe, StaysRegistered, SignalledIsOut,
     UndecidedBeforeSettle, SourcesFit

\* A storage call of a fire leaves each run fit to answer for its schedule.
LEMMA FireStepServes ==
    ASSUME IInv, RowInv, RunsServe, NEW r \in Runs, NEW o \in Replies, FireCall(r, o)
    PROVE RunsServe'
<1>1. /\ pc[r] \in PreRegister \cup Settling /\ force[r].stage = "idle"
      /\ Ends(r) \/ Starts(r) \/ GoesOn(r)
      /\ \A q \in Runs \ {r} : pc'[q] = pc[q] /\ frame'[q] = frame[q] /\ phase'[q] = phase[q]
      /\ UNCHANGED <<force, abandonedRuns, owner, target, source>>
  BY FireStepShape
<1>2. r \notin abandonedRuns /\ signalled \subseteq Runs
  BY <1>1 DEF RowInv, AbandonedIsOut, PreRegister, Settling, IInv, TypeOK, AttemptTypeOK
<1>3. SourcesFit'
  BY <1>1 DEF Ends, Starts, GoesOn, RunsServe, SourcesFit
<1>4. CASE Ends(r)
  BY <1>1, <1>2, <1>3, <1>4 DEF Ends, RunsServe, StaysRegistered, SignalledIsOut,
     UndecidedBeforeSettle, PreRegister
<1>5. CASE Starts(r)
  BY <1>1, <1>2, <1>3, <1>5 DEF Starts, RunsServe, StaysRegistered, SignalledIsOut,
     UndecidedBeforeSettle, PreRegister
<1>6. CASE GoesOn(r)
  <2>1. r \in signalled => pc'[r] \in Settling
    BY <1>1, <1>6 DEF GoesOn, RunsServe, SignalledIsOut, PreRegister, Settling
  <2>2. SignalledIsOut'
    BY <1>1, <1>2, <1>6, <2>1 DEF GoesOn, RunsServe, SignalledIsOut
  <2>3. pc'[r] \notin {"unused", "run"}
    BY <1>6 DEF GoesOn, PreRegister, Settling
  <2> QED
    BY <1>1, <1>2, <1>3, <1>6, <2>2, <2>3 DEF GoesOn, RunsServe, StaysRegistered,
       UndecidedBeforeSettle
<1> QED
  BY <1>1, <1>4, <1>5, <1>6

\* The runner calls back, or comes back: its fire is the only one that moves.
LEMMA RunnerStepShape ==
    ASSUME IInv, NEW r \in Runs, RunnerStep(r)
    PROVE /\ pc[r] = "run"
          /\ \/ /\ pc'[r] = "run" /\ frame'[r].verdict = frame[r].verdict
                /\ phase'[r] = "none" => phase[r] = "none"
                /\ UNCHANGED <<signalled, abandonedRuns, controllers>>
             \/ /\ r \in abandonedRuns /\ pc'[r] = "done" /\ frame'[r] = NoFrame
                /\ abandonedRuns' = abandonedRuns \ {r} /\ signalled' = signalled \ {r}
                /\ controllers' = controllers \ {r}
             \/ /\ r \notin abandonedRuns /\ UNCHANGED <<signalled, abandonedRuns>>
                /\ controllers' = controllers \ {r}
                /\ \E outcome \in Outcomes :
                      IF outcome = "deferred" /\ ~wasRunAborted(r, outcome)
                      THEN pc'[r] = "undo" /\ frame'[r].verdict = None
                      ELSE pc'[r] = "finalize" /\ frame'[r].verdict = VerdictOf(r, outcome)
          /\ \A q \in Runs \ {r} : pc'[q] = pc[q] /\ frame'[q] = frame[q] /\ phase'[q] = phase[q]
          /\ UNCHANGED <<force, stallAborted, owner, target, source, row, runRow, tick, mutation,
                         pendingReplans, mode, boot, activeSchedules, now>>
<1>a. ContTypeOK /\ AttemptTypeOK /\ frame[r] \in Frame
  BY DEF IInv, TypeOK, ContTypeOK
<1>1. CASE onQueueWaitStart(r)
  <2>1. /\ frame'[r].verdict = frame[r].verdict
        /\ \A q \in Runs \ {r} : frame'[q] = frame[q]
    BY <1>1, <1>a DEF onQueueWaitStart, ContTypeOK, Frame
  <2>2. /\ phase'[r] = "none" => phase[r] = "none"
        /\ \A q \in Runs \ {r} : phase'[q] = phase[q]
    BY <1>1, <1>a DEF onQueueWaitStart, AttemptTypeOK
  <2> QED
    BY <1>1, <2>1, <2>2 DEF onQueueWaitStart, dbVars, idVars, cacheVars, hostVars, callVars
<1>2. CASE reclaimSlot(r) \/ endQueueWait(r)
  <2>1. /\ phase'[r] = "none" => phase[r] = "none"
        /\ \A q \in Runs \ {r} : phase'[q] = phase[q]
    BY <1>2, <1>a DEF reclaimSlot, endQueueWait, AttemptTypeOK
  <2> QED
    BY <1>2, <2>1 DEF reclaimSlot, endQueueWait, dbVars, idVars, contVars, cacheVars, hostVars,
       callVars
<1>3. ASSUME NEW outcome \in Outcomes, Settle(r, outcome)
      PROVE /\ pc[r] = "run"
            /\ \/ /\ r \in abandonedRuns /\ pc'[r] = "done" /\ frame'[r] = NoFrame
                  /\ abandonedRuns' = abandonedRuns \ {r} /\ signalled' = signalled \ {r}
               \/ /\ r \notin abandonedRuns /\ UNCHANGED <<signalled, abandonedRuns>>
                  /\ IF outcome = "deferred" /\ ~wasRunAborted(r, outcome)
                     THEN pc'[r] = "undo" /\ frame'[r].verdict = None
                     ELSE pc'[r] = "finalize" /\ frame'[r].verdict = VerdictOf(r, outcome)
            /\ controllers' = controllers \ {r}
            /\ \A q \in Runs \ {r} : /\ pc'[q] = pc[q] /\ frame'[q] = frame[q]
                                     /\ phase'[q] = phase[q]
            /\ UNCHANGED <<force, stallAborted, owner, target, source, row, runRow, tick,
                           mutation, pendingReplans, mode, boot, activeSchedules, now>>
  <2>1. UNCHANGED <<force, stallAborted, owner, target, source, row, runRow, tick, mutation,
                    pendingReplans, mode, boot, activeSchedules, now>>
    BY <1>3 DEF Settle, dbVars, idVars, cacheVars, hostVars, callVars
  <2>2. pc[r] = "run" /\ controllers' = controllers \ {r}
    BY <1>3 DEF Settle
  <2>3. CASE r \in abandonedRuns
    BY <1>3, <1>a, <2>1, <2>2, <2>3 DEF Settle, consumeAbandonedRun, finishInflightAttempt,
       ContTypeOK, AttemptTypeOK
  <2>4. CASE r \notin abandonedRuns
    <3> DEFINE undo == outcome = "deferred" /\ ~wasRunAborted(r, outcome)
    <3>1. /\ pc' = [pc EXCEPT ![r] = IF undo THEN "undo" ELSE "finalize"]
          /\ frame' = [frame EXCEPT ![r].finishedAt = now,
                                    ![r].verdict = IF undo THEN None ELSE VerdictOf(r, outcome)]
          /\ phase' = Moved(r, "finalizing") /\ UNCHANGED <<signalled, abandonedRuns>>
      BY <1>3, <2>4 DEF Settle, consumeAbandonedRun, Goto
    <3> HIDE DEF undo
    <3>2. /\ pc'[r] = IF undo THEN "undo" ELSE "finalize"
          /\ \A q \in Runs \ {r} : pc'[q] = pc[q] /\ phase'[q] = phase[q]
      BY <3>1, <1>a DEF Moved, ContTypeOK, AttemptTypeOK
    <3>3. /\ frame'[r].verdict = IF undo THEN None ELSE VerdictOf(r, outcome)
          /\ \A q \in Runs \ {r} : frame'[q] = frame[q]
      BY <3>1, <1>a DEF ContTypeOK, Frame
    <3> QED
      BY <2>1, <2>2, <2>4, <3>1, <3>2, <3>3 DEF undo
  <2> QED
    BY <2>3, <2>4
<1> QED
  BY <1>1, <1>2, <1>3 DEF RunnerStep

\* So does the runner, when it calls back or settles.
LEMMA RunnerStepServes ==
    ASSUME IInv, RowInv, RunsServe, NEW r \in Runs, RunnerStep(r) PROVE RunsServe'
<1>1. pc[r] = "run" /\ signalled \subseteq Runs /\ abandonedRuns \subseteq Runs
  BY RunnerStepShape DEF IInv, TypeOK, AttemptTypeOK
<1>2. /\ \A q \in Runs \ {r} : pc'[q] = pc[q] /\ frame'[q] = frame[q] /\ phase'[q] = phase[q]
      /\ UNCHANGED <<force, owner, source>>
  BY RunnerStepShape
<1>3. \/ /\ pc'[r] = "run" /\ frame'[r].verdict = frame[r].verdict
         /\ phase'[r] = "none" => phase[r] = "none"
         /\ UNCHANGED <<signalled, abandonedRuns>>
      \/ /\ pc'[r] = "done"
         /\ abandonedRuns' = abandonedRuns \ {r} /\ signalled' = signalled \ {r}
      \/ pc'[r] \in {"undo", "finalize"} /\ UNCHANGED <<signalled, abandonedRuns>>
  BY RunnerStepShape
<1>4. SourcesFit'
  BY <1>2, <1>3 DEF RunsServe, SourcesFit
<1>5. StaysRegistered'
  BY <1>1, <1>2, <1>3 DEF RunsServe, StaysRegistered, PreRegister
<1>6. SignalledIsOut'
  BY <1>1, <1>2, <1>3 DEF RunsServe, SignalledIsOut, Settling
<1>7. UndecidedBeforeSettle'
  BY <1>1, <1>2, <1>3 DEF RunsServe, UndecidedBeforeSettle, PreRegister
<1> QED
  BY <1>4, <1>5, <1>6, <1>7 DEF RunsServe

\* So does the stall guard, which gives the run to its force release.
LEMMA GuardStepServes ==
    ASSUME IInv, RowInv, RunsServe, NEW r \in Runs, GuardStep(r) PROVE RunsServe'
<1>1. CASE stallAbort(r)
  BY <1>1, UntouchedServe DEF stallAbort
<1>2. CASE forceReleaseStalledRun(r)
  <2>1. force'[r].stage = "write" /\ phase'[r] # "none"
    BY <1>2 DEF forceReleaseStalledRun, IInv, TypeOK, AttemptTypeOK
  <2>2. \A q \in Runs \ {r} : force'[q] = force[q] /\ phase'[q] = phase[q]
    BY <1>2 DEF forceReleaseStalledRun, IInv, TypeOK, AttemptTypeOK
  <2>3. UNCHANGED <<idVars, contVars, signalled>> /\ abandonedRuns' = abandonedRuns \cup {r}
    BY <1>2 DEF forceReleaseStalledRun
  <2> QED
    BY <2>1, <2>2, <2>3 DEF idVars, contVars, RunsServe, StaysRegistered, SignalledIsOut,
       UndecidedBeforeSettle, SourcesFit
<1> QED
  BY <1>1, <1>2 DEF GuardStep

\* A storage call of the force release of r.
ForceCall(r, o) == forceRecord(r, o) \/ forceReread(r, o) \/ forceReplan(r, o)

\* The force release ends, or goes on with a row that still needs its replan.
LEMMA ForceStepShape ==
    ASSUME IInv, NEW r \in Runs, NEW o \in Replies, ForceCall(r, o)
    PROVE /\ force[r].stage # "idle"
          /\ \/ EndForce(r)
             \/ /\ UNCHANGED <<phase, controllers, signalled, stallAborted, abandonedRuns>>
                /\ \/ source[r] = "automatic" /\ force'[r].stage = "get"
                   \/ /\ force[r].stage = "get" /\ force'[r].stage = "put"
                      /\ force'[r].seen = row[target[r]] /\ ~NoReplan(row[target[r]])
          /\ \A q \in Runs \ {r} : force'[q] = force[q] /\ phase'[q] = phase[q]
          /\ UNCHANGED <<idVars, contVars, controllers, signalled, abandonedRuns, tick, mutation,
                         mode, boot>>
<1>a. AttemptTypeOK /\ force[r] \in ForceState
  BY DEF IInv, TypeOK, AttemptTypeOK
<1>1. CASE EndForce(r)
  BY <1>1, <1>a DEF ForceCall, forceRecord, forceReread, forceReplan, EndForce, hostVars,
     callVars, AttemptTypeOK
<1>2. CASE ~EndForce(r) /\ forceRecord(r, o)
  BY <1>2, <1>a DEF forceRecord, ForceState, hostVars, callVars, AttemptTypeOK
<1>3. CASE ~EndForce(r) /\ forceReread(r, o)
  BY <1>3, <1>a DEF forceReread, ForceState, hostVars, callVars, AttemptTypeOK
<1> QED
  BY <1>1, <1>2, <1>3 DEF ForceCall, forceReplan

\* So does the force release, which goes on only for an automatic fire.
LEMMA ForceStepServes ==
    ASSUME IInv, RowInv, RunsServe, NEW r \in Runs, NEW o \in Replies, ForceCall(r, o)
    PROVE RunsServe'
<1>1. /\ force[r].stage # "idle"
      /\ \/ EndForce(r)
         \/ /\ UNCHANGED phase
            /\ \/ source[r] = "automatic" /\ force'[r].stage = "get"
               \/ /\ force[r].stage = "get" /\ force'[r].stage = "put"
                  /\ force'[r].seen = row[target[r]] /\ ~NoReplan(row[target[r]])
      /\ \A q \in Runs \ {r} : force'[q] = force[q] /\ phase'[q] = phase[q]
      /\ UNCHANGED <<idVars, contVars, signalled, abandonedRuns>>
  BY ForceStepShape
<1>2. pc[r] \in PreRegister \cup {"run"} => r \in abandonedRuns
  BY <1>1 DEF IInv, RunInv, ForceOwned, PreRegister
<1>3. EndForce(r) => force'[r].stage = "idle"
  BY DEF EndForce, NoForce, IInv, TypeOK, AttemptTypeOK
<1>4. SourcesFit'
  BY <1>1, <1>3 DEF idVars, contVars, RunsServe, SourcesFit
<1> QED
  BY <1>1, <1>2, <1>4 DEF contVars, RunsServe, StaysRegistered, SignalledIsOut,
     UndecidedBeforeSettle

\* A tick that starts the due schedules, in terms of the runs it starts.
FireDue(i, k) ==
    \E S \in SUBSET Due(i) : \E runOf \in [S -> Runs] : fireDue(i, k, S, runOf)

\* The runs it has started, and what it leaves alone.
Begun(i, k, started) ==
    /\ \A r \in started :
          /\ pc[r] = "unused" /\ pc'[r] = "claim" /\ phase'[r] = "claiming"
          /\ owner'[r] = i /\ source'[r] = "automatic"
          /\ target'[r] \in Due(i) /\ activeSchedules'[i][target'[r]] = Absent
          /\ frame'[r] = [NoFrame EXCEPT !.token = activeSchedules[i][target'[r]]]
    /\ \A r \in Runs \ started :
          /\ pc'[r] = pc[r] /\ phase'[r] = phase[r] /\ frame'[r] = frame[r]
          /\ owner'[r] = owner[r] /\ source'[r] = source[r] /\ target'[r] = target[r]
    /\ \A s \in Schedules : activeSchedules'[i][s] # activeSchedules[i][s] =>
          \E r \in started : target'[r] = s
    /\ \A j \in Instances \ {i} : activeSchedules'[j] = activeSchedules[j]
    /\ tick' = [tick EXCEPT ![i][k] = IdleTick]
    /\ tick[i][k].pc = "pick" \/ i \notin Passive
    /\ UNCHANGED <<now, row, runRow, controllers, signalled, stallAborted, force,
                   abandonedRuns, pendingReplans, mode, boot, mutation>>

\* FireDue begins exactly the runs it picks.
LEMMA FireDueBegins ==
    ASSUME IInv, NEW i \in Instances, NEW k \in Ticks, FireDue(i, k)
    PROVE \E started \in SUBSET Runs : Begun(i, k, started)
<1>0. PICK S \in SUBSET Due(i) : \E runOf \in [S -> Runs] : fireDue(i, k, S, runOf)
  BY DEF FireDue
<1>1. PICK runOf \in [S -> Runs] : fireDue(i, k, S, runOf)
  BY <1>0
<1> DEFINE started == {runOf[s] : s \in S}
           scheduleOf(r) == CHOOSE s \in S : runOf[s] = r
<1>2. \A r \in started : scheduleOf(r) \in S /\ runOf[scheduleOf(r)] = r
  OBVIOUS
<1>3. \A s \in S : runOf[s] \in started /\ scheduleOf(runOf[s]) = s
  BY <1>1, <1>2 DEF fireDue
<1>4. started \in SUBSET Runs /\ S \subseteq Schedules
  BY DEF Due
<1>5. \A r \in started : pc[r] = "unused"
  BY <1>1 DEF fireDue
<1> HIDE DEF scheduleOf
<1> HIDE DEF started
<1>6. /\ owner' = [r \in Runs |-> IF r \in started THEN i ELSE owner[r]]
      /\ target' = [r \in Runs |-> IF r \in started THEN scheduleOf(r) ELSE target[r]]
      /\ source' = [r \in Runs |-> IF r \in started THEN "automatic" ELSE source[r]]
      /\ pc' = [r \in Runs |-> IF r \in started THEN "claim" ELSE pc[r]]
      /\ phase' = [r \in Runs |-> IF r \in started THEN "claiming" ELSE phase[r]]
  BY <1>1 DEF fireDue, started, scheduleOf
<1>7. frame' = [r \in Runs |->
         IF r \in started
         THEN [NoFrame EXCEPT !.token = activeSchedules[i][scheduleOf(r)]] ELSE frame[r]]
  BY <1>1 DEF fireDue, started, scheduleOf
<1>8. /\ \A s \in Schedules : activeSchedules'[i][s] = IF s \in S THEN Absent
                                                        ELSE activeSchedules[i][s]
      /\ \A j \in Instances \ {i} : activeSchedules'[j] = activeSchedules[j]
  BY <1>1 DEF fireDue, IInv, TypeOK, CacheTypeOK
<1>9. /\ tick' = [tick EXCEPT ![i][k] = IdleTick]
      /\ tick[i][k].pc = "pick" \/ i \notin Passive
      /\ UNCHANGED <<now, row, runRow, controllers, signalled, stallAborted, force,
                     abandonedRuns, pendingReplans, mode, boot, mutation>>
  BY <1>1 DEF fireDue, SetTick, dbVars, hostVars
<1>10. \A r \in started :
          /\ pc[r] = "unused" /\ pc'[r] = "claim" /\ phase'[r] = "claiming"
          /\ owner'[r] = i /\ source'[r] = "automatic" /\ target'[r] = scheduleOf(r)
          /\ target'[r] \in S
          /\ frame'[r] = [NoFrame EXCEPT !.token = activeSchedules[i][scheduleOf(r)]]
  BY <1>2, <1>4, <1>5, <1>6, <1>7
<1>11. \A r \in started :
          /\ pc[r] = "unused" /\ pc'[r] = "claim" /\ phase'[r] = "claiming"
          /\ owner'[r] = i /\ source'[r] = "automatic"
          /\ target'[r] \in Due(i) /\ activeSchedules'[i][target'[r]] = Absent
          /\ frame'[r] = [NoFrame EXCEPT !.token = activeSchedules[i][target'[r]]]
  BY <1>4, <1>8, <1>10
<1>12. \A s \in Schedules : activeSchedules'[i][s] # activeSchedules[i][s] =>
          \E r \in started : target'[r] = s
  <2>1. \A s \in S : runOf[s] \in started /\ target'[runOf[s]] = s
    BY <1>3, <1>10
  <2> QED
    BY <1>8, <2>1
<1>13. \A r \in Runs \ started :
          /\ pc'[r] = pc[r] /\ phase'[r] = phase[r] /\ frame'[r] = frame[r]
          /\ owner'[r] = owner[r] /\ source'[r] = source[r] /\ target'[r] = target[r]
  BY <1>6, <1>7
<1>14. \A j \in Instances \ {i} : activeSchedules'[j] = activeSchedules[j]
  BY <1>8
<1>15. Begun(i, k, started)
  BY <1>9, <1>11, <1>12, <1>13, <1>14 DEF Begun
<1> QED
  BY <1>4, <1>15

\* The rest of a tick leaves the runs alone.
LEMMA OtherTickSteps ==
    ASSUME NEW i \in Instances, NEW k \in Ticks, TickStep(i, k), ~FireDue(i, k)
    PROVE UNCHANGED <<idVars, contVars, phase, controllers, signalled, stallAborted, force,
                      abandonedRuns, mode, boot, mutation>>
  BY DEF TickStep, FireDue, SyncTick, RetryTick, BeginTick, SyncCache, sweepStaleRunningRuns,
     reschedCheck, reschedPut, retryPut, reschedGet, retryGet, attemptVars, hostVars

\* A tick begins its fires as automatic ones of an instance that ticks.
LEMMA TickStepServes ==
    ASSUME IInv, RowInv, RunsServe, TicksArm, NEW i \in Instances, NEW k \in Ticks,
           TickStep(i, k)
    PROVE RunsServe'
<1>1. CASE ~FireDue(i, k)
  BY <1>1, OtherTickSteps, UntouchedServe
<1>2. CASE FireDue(i, k)
  <2>0. PICK started \in SUBSET Runs : Begun(i, k, started)
    BY <1>2, FireDueBegins
  <2>1. /\ \A r \in started :
              /\ pc[r] = "unused" /\ pc'[r] = "claim" /\ phase'[r] = "claiming"
              /\ owner'[r] = i /\ source'[r] = "automatic"
              /\ frame'[r] = [NoFrame EXCEPT !.token = activeSchedules[i][target'[r]]]
        /\ \A r \in Runs \ started :
              /\ pc'[r] = pc[r] /\ phase'[r] = phase[r] /\ frame'[r] = frame[r]
              /\ owner'[r] = owner[r] /\ source'[r] = source[r]
        /\ tick[i][k].pc = "pick" \/ i \notin Passive
        /\ UNCHANGED <<signalled, force, abandonedRuns>>
    BY <2>0 DEF Begun
  <2>2. i \notin Passive
    BY <2>1 DEF TicksArm
  <2>3. \A r \in started : frame'[r].verdict = None /\ force[r].stage = "idle"
    BY <2>1 DEF NoFrame, IInv, RunInv, ForceOwned
  <2>4. \A r \in started : r \notin signalled
    BY <2>1 DEF RunsServe, SignalledIsOut, Settling
  <2>5. StaysRegistered' /\ UndecidedBeforeSettle'
    BY <2>1, <2>3 DEF RunsServe, StaysRegistered, UndecidedBeforeSettle
  <2>6. signalled \subseteq Runs
    BY DEF IInv, TypeOK, AttemptTypeOK
  <2>7. SignalledIsOut'
    BY <2>1, <2>4, <2>6 DEF RunsServe, SignalledIsOut
  <2>8. SourcesFit'
    BY <2>1, <2>2, <2>3 DEF RunsServe, SourcesFit
  <2> QED
    BY <2>5, <2>7, <2>8 DEF RunsServe
<1> QED
  BY <1>1, <1>2

\* The calls of the API: only runNow begins a fire.
LEMMA CallServes ==
    ASSUME IInv, RowInv, RunsServe, NEW i \in Instances, NEW s \in Schedules,
           MutationStep(i, s) \/ Command(i, s)
    PROVE RunsServe'
<1>1. ASSUME NEW r \in Runs, runNow(i, s, r) PROVE RunsServe'
  <2>1. /\ pc[r] = "unused" /\ pc'[r] = "load" /\ phase'[r] = "loading" /\ source'[r] = "run-now"
        /\ \A q \in Runs \ {r} : /\ pc'[q] = pc[q] /\ phase'[q] = phase[q]
                                 /\ owner'[q] = owner[q] /\ source'[q] = source[q]
        /\ UNCHANGED <<frame, signalled, force, abandonedRuns>>
    BY <1>1 DEF runNow, Goto, IInv, TypeOK, IdTypeOK, ContTypeOK, AttemptTypeOK
  <2>2. r \notin signalled /\ force[r].stage = "idle" /\ signalled \subseteq Runs
    BY <2>1 DEF RunsServe, SignalledIsOut, Settling, IInv, RunInv, ForceOwned, TypeOK,
       AttemptTypeOK
  <2> QED
    BY <2>1, <2>2 DEF RunsServe, StaysRegistered, SignalledIsOut, UndecidedBeforeSettle,
       SourcesFit
<1>2. ASSUME NEW op, NEW exempt, abortInflight(i, s, op, exempt) PROVE RunsServe'
  <2>1. signalled' \subseteq signalled \cup controllers
    BY <1>2 DEF abortInflight
  <2> QED
    BY <1>2, <2>1, UntouchedServe DEF abortInflight
<1>3. CASE ~\E r \in Runs : runNow(i, s, r)
  BY <1>2, <1>3, UntouchedServe DEF MutationStep, Command, pause, delete, writeMutation,
     resumeGet, updateGet, create, attemptVars
<1> QED
  BY <1>1, <1>3

\* Every step keeps the invariant of the runs.
LEMMA NextServes ==
    ASSUME MaxDowns = 0, IInv, RowInv, RunsServe, TicksArm, [Next]_vars
    PROVE RunsServe'
<1>1. ASSUME NEW r \in Runs, FireStep(r) \/ ForceStep(r) PROVE RunsServe'
  BY <1>1, FireStepServes, ForceStepServes DEF FireStep, FireCall, ForceStep, ForceCall
<1>2. ASSUME NEW i \in Instances, HostStep(i) PROVE RunsServe'
  BY <1>2, HostStepStarts, UntouchedServe DEF start, listActive, armOnStart, attemptVars
<1>3. CASE Advance \/ UNCHANGED vars
  BY <1>3, UntouchedServe DEF Advance, vars, attemptVars
<1> QED
  BY <1>1, <1>2, <1>3, RunnerStepServes, GuardStepServes, TickStepServes, CallServes DEF Next

-----------------------------------------------------------------------------
(* What kind of schedule a row is of *)

\* A row that exists, or has existed, stays of its kind.
SameKind(a, b) ==
    a.status # "unborn" =>
        b.status # "unborn" /\ b.recurring = a.recurring /\ b.manual = a.manual

\* A statement that sets one row to one of the same kind, or does nothing.
LEMMA WriteKeepsKind ==
    ASSUME DbTypeOK, NEW s \in Schedules, NEW new, SameKind(row[s], new),
           row' = [row EXCEPT ![s] = new] \/ row' = row, NEW q \in Schedules
    PROVE SameKind(row[q], row'[q])
  BY DEF SameKind, DbTypeOK

\* A fire never changes the kind of a schedule, nor brings one to life.
LEMMA FireCallKeepsKind ==
    ASSUME IInv, NEW r \in Runs, NEW o \in Replies, FireCall(r, o), NEW q \in Schedules
    PROVE SameKind(row[q], row'[q])
<1>a. DbTypeOK /\ pc[r] # "unused"
  BY FireStepShape DEF IInv, TypeOK, PreRegister, Settling
<1>b. target[r] \in Schedules /\ row[target[r]] \in Schedule
  BY <1>a DEF DbTypeOK, IInv, RunInv, Linked
<1> DEFINE s == target[r]
<1>1. CASE UNCHANGED row
  BY <1>1 DEF SameKind
<1>2. CASE claimDueFire(r, o)
  <2>1. SameKind(row[s], [row[s] EXCEPT !.nextFireAt = None])
    BY <1>b DEF SameKind, Schedule
  <2>2. row' = [row EXCEPT ![s] = [row[s] EXCEPT !.nextFireAt = None]] \/ row' = row
    BY <1>2, <1>a, <1>b DEF claimDueFire, DbTypeOK
  <2> QED
    BY <1>a, <1>b, <2>1, <2>2, WriteKeepsKind
<1>3. CASE Bookkeep(r, o)
  <2> DEFINE new == [row[s] EXCEPT !.lastFired = Effect(o, TRUE, @)]
  <2>1. SameKind(row[s], new)
    BY <1>b DEF SameKind, Schedule
  <2>2. row' = [row EXCEPT ![s] = new] \/ row' = row
    BY <1>3, <1>a, <1>b DEF Bookkeep, DbTypeOK
  <2> QED
    BY <1>a, <1>b, <2>1, <2>2, WriteKeepsKind
<1>4. CASE stampFinished(r, o)
  <2> DEFINE new == [row[s] EXCEPT !.restBase = Effect(o, frame[r].finishedAt, @)]
  <2>1. SameKind(row[s], new)
    BY <1>b DEF SameKind, Schedule
  <2>2. row' = [row EXCEPT ![s] = new] \/ row' = row
    BY <1>4, <1>a, <1>b DEF stampFinished, DbTypeOK
  <2> QED
    BY <1>a, <1>b, <2>1, <2>2, WriteKeepsKind
<1>5. CASE rearmDeferred(r, o)
  <2> DEFINE retryAt == frame[r].finishedAt + DeferDelay
             rearmed == IF source[r] = "automatic"
                        THEN [row[s] EXCEPT !.nextFireAt = retryAt]
                        ELSE [row[s] EXCEPT !.nextFireAt = retryAt,
                                            !.lastFired = frame[r].seen.lastFired]
  <2>1. SameKind(row[s], Effect(o, rearmed, row[s]))
    BY <1>b DEF SameKind, Schedule, Effect
  <2>2. row' = [row EXCEPT ![s] = Effect(o, rearmed, row[s])] \/ row' = row
    BY <1>5, <1>a, <1>b DEF rearmDeferred, DbTypeOK
  <2> QED
    BY <1>a, <1>b, <2>1, <2>2, WriteKeepsKind
<1>6. CASE replan(r, o)
  <2> DEFINE after == Replanned(row[s], frame[r].seen, frame[r].finishedAt)
  <2>1. SameKind(row[s], Effect(o, after, row[s]))
    BY <1>b DEF SameKind, Schedule, Effect, Replanned
  <2>2. row' = [row EXCEPT ![s] = Effect(o, after, row[s])] \/ row' = row
    BY <1>6, <1>a, <1>b DEF replan, DbTypeOK
  <2> QED
    BY <1>a, <1>b, <2>1, <2>2, WriteKeepsKind
<1> QED
  BY <1>1, <1>2, <1>3, <1>4, <1>5, <1>6 DEF FireCall, RefreshCache, LoadSchedule, insertRun,
     deleteRunOnDefer, recordVerdict, rereadSchedule, dbVars

\* The replan of a stalled claim, by the force release or by a retry.
LEMMA StalledReplanKeepsKind ==
    ASSUME DbTypeOK, NEW i \in Instances, NEW s \in Schedules, NEW seen, NEW t, NEW o,
           WriteStalledReplan(i, s, seen, t, o), NEW q \in Schedules
    PROVE SameKind(row[q], row'[q])
<1> DEFINE after == StalledReplan(row[s], seen, t)
<1>1. SameKind(row[s], Effect(o, after, row[s]))
  BY DEF SameKind, DbTypeOK, Schedule, Effect, StalledReplan
<1>2. row' = [row EXCEPT ![s] = Effect(o, after, row[s])] \/ row' = row
  BY DEF WriteStalledReplan, DbTypeOK
<1> QED
  BY <1>1, <1>2, WriteKeepsKind

\* Nor does the force release.
LEMMA ForceCallKeepsKind ==
    ASSUME IInv, NEW r \in Runs, NEW o \in Replies, ForceCall(r, o), NEW q \in Schedules
    PROVE SameKind(row[q], row'[q])
<1>1. CASE UNCHANGED row
  BY <1>1 DEF SameKind
<1>2. CASE forceReplan(r, o)
  <2>1. owner[r] \in Instances /\ target[r] \in Schedules
    BY <1>2 DEF forceReplan, IInv, RunInv, ForceOwned, Linked
  <2> QED
    BY <1>2, <2>1, StalledReplanKeepsKind DEF forceReplan, IInv, TypeOK
<1> QED
  BY <1>1, <1>2 DEF ForceCall, forceRecord, forceReread, dbVars

\* Nor does a tick.
LEMMA TickStepKeepsKind ==
    ASSUME IInv, NEW i \in Instances, NEW k \in Ticks, TickStep(i, k), NEW q \in Schedules
    PROVE SameKind(row[q], row'[q])
<1>a. DbTypeOK
  BY DEF IInv, TypeOK
<1>1. CASE UNCHANGED row
  BY <1>1 DEF SameKind
<1>2. ASSUME NEW o \in Replies, reschedPut(i, k, o) PROVE SameKind(row[q], row'[q])
  <2> DEFINE s == tick[i][k].cur
             new == [row[s] EXCEPT !.nextFireAt = Effect(o, computeNextFireAt(tick[i][k].seen, now), @)]
  <2>1. s \in Schedules
    BY <1>2 DEF reschedPut, IInv, TicksReady
  <2>2. SameKind(row[s], new)
    BY <1>a, <2>1 DEF SameKind, DbTypeOK, Schedule
  <2>3. row' = [row EXCEPT ![s] = new] \/ row' = row
    BY <1>2, <1>a, <2>1 DEF reschedPut, DbTypeOK
  <2> QED
    BY <1>a, <2>1, <2>2, <2>3, WriteKeepsKind
<1>3. ASSUME NEW o \in Replies, retryPut(i, k, o) PROVE SameKind(row[q], row'[q])
  <2>1. tick[i][k].cur \in Schedules
    BY <1>3 DEF retryPut, IInv, TicksReady
  <2> QED
    BY <1>3, <1>a, <2>1, StalledReplanKeepsKind DEF retryPut
<1> QED
  BY <1>1, <1>2, <1>3 DEF TickStep, SyncTick, RetryTick, BeginTick, SyncCache,
     sweepStaleRunningRuns, reschedCheck, reschedGet, retryGet, fireDue, dbVars

\* The API edits a row, as far as the patch says so, and creates one.
LEMMA CallKeepsKind ==
    ASSUME IInv, MutationsArm, NEW i \in Instances, NEW s \in Schedules,
           MutationStep(i, s) \/ Command(i, s), NEW q \in Schedules
    PROVE \/ SameKind(row[q], row'[q])
          \/ \E o \in Replies :
                /\ q = s /\ writeMutation(i, s, o) /\ mutation[i][s].set.manual # Keep
                /\ row'[q].status # "unborn" /\ row'[q].recurring = row[q].recurring
<1>a. DbTypeOK /\ row[s] \in Schedule
  BY DEF IInv, TypeOK, DbTypeOK
<1>b. mutation[i][s] \in Mutation
  BY DEF IInv, TypeOK, CallTypeOK
<1>1. CASE UNCHANGED row
  BY <1>1 DEF SameKind
<1>2. ASSUME NEW shape \in Shapes, NEW o \in Replies, create(i, s, shape, o)
      PROVE SameKind(row[q], row'[q])
  BY <1>2, <1>a DEF create, SameKind, DbTypeOK
<1>3. ASSUME NEW o \in Replies, pause(i, s, o) PROVE SameKind(row[q], row'[q])
  <2> DEFINE new == Effect(o, Updated(row[s], mutation[i][s].set), row[s])
  <2>1. mutation[i][s].set = [SetNothing EXCEPT !.status = "paused"]
    BY <1>3 DEF pause, MutationsArm
  <2>2. SameKind(row[s], new)
    BY <1>a, <2>1 DEF SameKind, Schedule, Effect, Updated, Exists, Column, SetNothing, Statuses
  <2>3. row' = [row EXCEPT ![s] = new]
    BY <1>3, <1>a DEF pause, DbTypeOK
  <2> QED
    BY <1>a, <2>2, <2>3, WriteKeepsKind
<1>4. ASSUME NEW o \in Replies, delete(i, s, o) PROVE SameKind(row[q], row'[q])
  BY <1>4, <1>a, <1>1 DEF delete, SameKind, DbTypeOK, Schedule, dbVars, Exists
<1>5. ASSUME NEW o \in Replies, writeMutation(i, s, o)
      PROVE \/ SameKind(row[q], row'[q])
            \/ /\ q = s /\ mutation[i][s].set.manual # Keep
               /\ row'[q].status # "unborn" /\ row'[q].recurring = row[q].recurring
  <2> DEFINE set == mutation[i][s].set
             new == Effect(o, Updated(row[s], set), row[s])
  <2>1. /\ set.recurring = Keep /\ row[s].status # "unborn" /\ set \in SetClause
        /\ set.status \in {Keep, "active"}
    BY <1>5, <1>b DEF writeMutation, MutationsArm, WillArm, Mutation
  <2>2. row' = [row EXCEPT ![s] = new]
    BY <1>5, <1>a DEF writeMutation, DbTypeOK
  <2>3. /\ new.recurring = row[s].recurring /\ new.status # "unborn"
        /\ set.manual = Keep => new.manual = row[s].manual
    BY <1>a, <2>1 DEF Updated, Column, Effect, Exists, Schedule
  <2> QED
    BY <1>a, <2>2, <2>3 DEF SameKind, DbTypeOK
<1> QED
  BY <1>1, <1>2, <1>3, <1>4, <1>5 DEF MutationStep, Command, runNow, abortInflight, resumeGet,
     updateGet, dbVars

\* Nor does start(), stop() or a crash.
LEMMA HostStepKeepsKind ==
    ASSUME IInv, NEW i \in Instances, HostStep(i), NEW q \in Schedules
    PROVE SameKind(row[q], row'[q])
<1>1. CASE UNCHANGED row
  BY <1>1 DEF SameKind
<1>2. ASSUME NEW o \in Replies, NEW s \in Schedules, armOnStart(i, s, o)
      PROVE SameKind(row[q], row'[q])
  BY <1>2 DEF armOnStart, SameKind, IInv, TypeOK, DbTypeOK, Schedule
<1> QED
  BY <1>1, <1>2 DEF HostStep, stop, crash, start, listActive, dbVars

\* Only update() changes whether a schedule is manual, and nothing whether it
\* is recurring.
LEMMA NextKeepsKind ==
    ASSUME IInv, MutationsArm, [Next]_vars, NEW s \in Schedules
    PROVE \/ SameKind(row[s], row'[s])
          \/ \E i \in Instances, o \in Replies :
                /\ writeMutation(i, s, o) /\ mutation[i][s].set.manual # Keep
                /\ row'[s].status # "unborn" /\ row'[s].recurring = row[s].recurring
<1>1. ASSUME NEW r \in Runs, FireStep(r) \/ ForceStep(r) PROVE SameKind(row[s], row'[s])
  BY <1>1, FireCallKeepsKind, ForceCallKeepsKind DEF FireStep, FireCall, ForceStep, ForceCall
<1>2. CASE UNCHANGED row
  BY <1>2 DEF SameKind
<1>3. ASSUME NEW r \in Runs, RunnerStep(r) \/ GuardStep(r) PROVE UNCHANGED row
  BY <1>3, RunnerStepShape DEF GuardStep, stallAbort, forceReleaseStalledRun, dbVars
<1>4. CASE Advance \/ UNCHANGED vars
  BY <1>2, <1>4 DEF Advance, vars, dbVars
<1>5. ASSUME NEW i \in Instances, NEW q \in Schedules, MutationStep(i, q) \/ Command(i, q)
      PROVE \/ SameKind(row[s], row'[s])
            \/ \E o \in Replies :
                  /\ s = q /\ writeMutation(i, q, o) /\ mutation[i][q].set.manual # Keep
                  /\ row'[s].status # "unborn" /\ row'[s].recurring = row[s].recurring
  BY <1>5, CallKeepsKind
<1>6. CASE \E i \in Instances, q \in Schedules : MutationStep(i, q) \/ Command(i, q)
  BY <1>5, <1>6
<1> QED
  BY <1>1, <1>2, <1>3, <1>4, <1>6, TickStepKeepsKind, HostStepKeepsKind DEF Next

\* What fireOneInner has read before its replan: only rereadSchedule reads.
LEMMA ReplanIsRead ==
    ASSUME IInv, [Next]_vars, NEW r \in Runs, pc'[r] = "replanPut"
    PROVE /\ target'[r] = target[r]
          /\ \/ pc[r] = "replanPut" /\ frame'[r] = frame[r]
             \/ /\ pc[r] = "replanGet" /\ frame'[r].seen = row[target[r]]
                /\ Exists(row[target[r]]) /\ UNCHANGED row
<1>a. ContTypeOK /\ frame[r] \in Frame
  BY DEF IInv, TypeOK, ContTypeOK
<1>1. CASE UNCHANGED <<target, pc, frame>>
  BY <1>1
<1>2. ASSUME NEW q \in Runs, NEW o \in Replies, FireCall(q, o)
      PROVE /\ target'[r] = target[r]
            /\ \/ pc[r] = "replanPut" /\ frame'[r] = frame[r]
               \/ /\ pc[r] = "replanGet" /\ frame'[r].seen = row[target[r]]
                  /\ Exists(row[target[r]]) /\ UNCHANGED row
  <2>1. CASE q # r
    BY <1>2, <2>1, FireStepShape
  <2>2. CASE q = r /\ rereadSchedule(r, o)
    BY <2>2, <1>a DEF rereadSchedule, Exit, Frame, dbVars, idVars, ContTypeOK
  <2>3. CASE q = r /\ ~rereadSchedule(r, o)
    BY <1>2, <2>3, <1>a DEF FireCall, claimDueFire, RefreshCache, LoadSchedule, insertRun,
       Bookkeep, deleteRunOnDefer, rearmDeferred, recordVerdict, replan, stampFinished, Exit,
       Launch, Goto, ContTypeOK, attemptVars
  <2> QED
    BY <2>1, <2>2, <2>3
<1>3. ASSUME NEW q \in Runs, RunnerStep(q)
      PROVE target' = target /\ pc[r] = "replanPut" /\ frame'[r] = frame[r]
  BY <1>3, RunnerStepShape
<1>4. ASSUME NEW q \in Runs, ForceStep(q) \/ GuardStep(q) PROVE UNCHANGED <<target, pc, frame>>
  BY <1>4 DEF ForceStep, GuardStep, forceRecord, forceReread, forceReplan, stallAbort,
     forceReleaseStalledRun, contVars, idVars
<1>5. ASSUME NEW i \in Instances, NEW k \in Ticks, FireDue(i, k)
      PROVE target'[r] = target[r] /\ pc[r] = "replanPut" /\ frame'[r] = frame[r]
  <2>1. PICK started \in SUBSET Runs : Begun(i, k, started)
    BY <1>5, FireDueBegins
  <2> QED
    BY <2>1 DEF Begun
<1>6. ASSUME NEW i \in Instances, NEW k \in Ticks, TickStep(i, k), ~FireDue(i, k)
      PROVE UNCHANGED <<target, pc, frame>>
  BY <1>6, OtherTickSteps DEF contVars, idVars
<1>7. ASSUME NEW i \in Instances, NEW s \in Schedules, NEW q \in Runs, runNow(i, s, q)
      PROVE target'[r] = target[r] /\ pc[r] = "replanPut" /\ frame'[r] = frame[r]
  BY <1>7 DEF runNow, Goto, IInv, TypeOK, ContTypeOK, IdTypeOK
<1>8. ASSUME NEW i \in Instances, NEW s \in Schedules, MutationStep(i, s) \/ Command(i, s),
             ~\E q \in Runs : runNow(i, s, q)
      PROVE UNCHANGED <<target, pc, frame>>
  BY <1>8 DEF MutationStep, Command, pause, delete, writeMutation, abortInflight, resumeGet,
     updateGet, create, contVars, idVars
<1>9. ASSUME NEW i \in Instances, HostStep(i)
      PROVE target' = target /\ pc[r] = "replanPut" /\ frame'[r] = frame[r]
  BY <1>9, <1>a DEF HostStep, stop, crash, start, listActive, armOnStart, contVars, idVars,
     ContTypeOK
<1>10. CASE Advance \/ UNCHANGED vars
  BY <1>1, <1>10 DEF Advance, vars, contVars, idVars
<1> QED
  BY <1>1, <1>2, <1>3, <1>4, <1>5, <1>6, <1>7, <1>8, <1>9, <1>10 DEF Next, FireStep, FireCall

\* What a fire has read again still tells the kind of its schedule.
LEMMA NextSnapshots ==
    ASSUME IInv, MutationsArm, SnapshotsKeepKind, [Next]_vars PROVE SnapshotsKeepKind'
<1> SUFFICES ASSUME NEW r \in Runs, pc'[r] = "replanPut"
             PROVE /\ frame'[r].seen \in Schedule
                   /\ row'[target'[r]].status # "unborn"
                   /\ frame'[r].seen.recurring = row'[target'[r]].recurring
  BY DEF SnapshotsKeepKind
<1>1. target'[r] = target[r]
  BY ReplanIsRead
<1>2. target[r] \in Schedules /\ row[target[r]] \in Schedule
  BY ReplanIsRead DEF IInv, RunInv, Linked, TypeOK, DbTypeOK
<1>3. CASE pc[r] = "replanPut" /\ frame'[r] = frame[r]
  <2>1. /\ frame[r].seen \in Schedule /\ row[target[r]].status # "unborn"
        /\ frame[r].seen.recurring = row[target[r]].recurring
    BY <1>3 DEF SnapshotsKeepKind
  <2>2. row'[target[r]].status # "unborn" /\ row'[target[r]].recurring = row[target[r]].recurring
    BY <1>2, <2>1, NextKeepsKind DEF SameKind
  <2> QED
    BY <1>1, <1>3, <2>1, <2>2
<1>4. CASE frame'[r].seen = row[target[r]] /\ Exists(row[target[r]]) /\ UNCHANGED row
  BY <1>1, <1>2, <1>4 DEF Exists
<1> QED
  BY <1>3, <1>4, ReplanIsRead

-----------------------------------------------------------------------------
(* What a mutation, a start and a tick are about to write                   *)

\* A call that stays under way keeps arming, whatever happens to the row.
LEMMA PendingMutationArms ==
    ASSUME IInv, MutationsArm, [Next]_vars, NEW i \in Instances, NEW s \in Schedules,
           mutation'[i][s] = mutation[i][s],
           mutation[i][s].op \in {"resume", "update"}
    PROVE WillArm(i, mutation[i][s].set, row'[s])
<1>1. WillArm(i, mutation[i][s].set, row[s])
  BY DEF MutationsArm
<1>2. CASE SameKind(row[s], row'[s])
  BY <1>1, <1>2 DEF SameKind, WillArm
<1>3. ASSUME NEW j \in Instances, NEW o \in Replies, writeMutation(j, s, o),
             mutation[j][s].set.manual # Keep
      PROVE FALSE
  <2>1. mutation[j][s].op \in {"resume", "update"} /\ mutation'[j][s] = NoMutation
    BY <1>3 DEF writeMutation, EndMutation, IInv, TypeOK, CallTypeOK
  <2>2. \A l \in Instances : l = j
    BY <1>3, <2>1 DEF MutationsArm, WillArm
  <2>3. NoMutation.op = "none"
    BY DEF NoMutation
  <2> QED
    BY <2>1, <2>2, <2>3
<1> QED
  BY <1>1, <1>2, <1>3, NextKeepsKind

\* resume() and update() decide to arm what they will activate.
LEMMA PatchArms ==
    ASSUME KindsKept, NEW i \in Instances, NEW s \in Schedule, NEW patch \in Patches,
           NEW t \in Nat
    PROVE s.status # "unborn" => WillArm(i, PatchSet(s, patch, t), s)
<1>1. /\ patch.recurring = Keep /\ patch.manual \in BOOLEAN \cup {Keep}
      /\ patch.manual = Keep \/ \A j \in Instances : j = i
  BY SchedulerAssumption DEF KindsKept
<1>2. \A x : coldStart(x, t) \in Nat
  BY ColdStartIsTime
<1>3. s.manual \in BOOLEAN
  BY DEF Schedule
<1>4. None \notin Nat /\ Keep \notin Nat /\ Keep # None /\ Keep \notin BOOLEAN /\ Keep # "active"
  BY SchedulerAssumption, TimingAssumption DEF Statuses
<1> QED
  BY <1>1, <1>2, <1>3, <1>4 DEF WillArm, PatchSet, Column, Schedule

\* What may happen to the mutation queue of a schedule: a call begins, or ends.
LEMMA MutationChanges ==
    ASSUME IInv, [Next]_vars, NEW i \in Instances, NEW s \in Schedules
    PROVE \/ mutation'[i][s] \in {mutation[i][s], NoMutation}
          \/ \E op \in {"pause", "delete"}, exempt \in Runs \cup {None} :
                  abortInflight(i, s, op, exempt)
          \/ resumeGet(i, s)
          \/ \E patch \in Patches : updateGet(i, s, patch)
<1>1. ASSUME UNCHANGED mutation PROVE mutation'[i][s] = mutation[i][s]
  BY <1>1
<1>2. ASSUME NEW r \in Runs,
             FireStep(r) \/ RunnerStep(r) \/ ForceStep(r) \/ GuardStep(r)
      PROVE UNCHANGED callVars
  BY <1>2 DEF FireStep, RunnerStep, ForceStep, GuardStep, claimDueFire, RefreshCache,
     LoadSchedule, insertRun, Bookkeep, deleteRunOnDefer, rearmDeferred, recordVerdict,
     rereadSchedule, replan, stampFinished, onQueueWaitStart, reclaimSlot, endQueueWait,
     Settle, forceRecord, forceReread, forceReplan, stallAbort, forceReleaseStalledRun
<1>3. ASSUME NEW j \in Instances, NEW k \in Ticks, TickStep(j, k) PROVE UNCHANGED mutation
  BY <1>3 DEF TickStep, SyncTick, RetryTick, BeginTick, SyncCache, sweepStaleRunningRuns,
     reschedCheck, reschedPut, retryPut, reschedGet, retryGet, fireDue
<1>4. ASSUME NEW j \in Instances, HostStep(j)
      PROVE mutation'[i][s] \in {mutation[i][s], NoMutation}
  BY <1>4 DEF HostStep, stop, crash, start, listActive, armOnStart, callVars, IInv, TypeOK,
     CallTypeOK
<1>5. ASSUME NEW j \in Instances, NEW q \in Schedules, MutationStep(j, q)
      PROVE mutation'[i][s] \in {mutation[i][s], NoMutation}
  BY <1>5 DEF MutationStep, pause, delete, writeMutation, EndMutation, IInv, TypeOK, CallTypeOK
<1>6. ASSUME NEW j \in Instances, NEW q \in Schedules, Command(j, q), j # i \/ q # s
      PROVE mutation'[i][s] = mutation[i][s]
  BY <1>6 DEF Command, runNow, abortInflight, resumeGet, updateGet, create, Begin, callVars,
     IInv, TypeOK, CallTypeOK
<1>7. ASSUME Command(i, s)
      PROVE \/ mutation' = mutation
            \/ \E op \in {"pause", "delete"}, exempt \in Runs \cup {None} :
                  abortInflight(i, s, op, exempt)
            \/ resumeGet(i, s)
            \/ \E patch \in Patches : updateGet(i, s, patch)
  BY <1>7 DEF Command, runNow, create, callVars
<1>8. CASE Advance \/ UNCHANGED vars
  BY <1>8 DEF Advance, vars, callVars
<1> QED
  BY <1>1, <1>2, <1>3, <1>4, <1>5, <1>6, <1>7, <1>8 DEF Next, callVars

\* What an API call is about to write stays fit to be written.
LEMMA NextMutations ==
    ASSUME KindsKept, MaxDowns = 0, IInv, MutationsArm, [Next]_vars PROVE MutationsArm'
<1> DEFINE Arms(i, s) ==
        /\ mutation'[i][s].op = "pause" =>
              mutation'[i][s].set = [SetNothing EXCEPT !.status = "paused"]
        /\ mutation'[i][s].op \in {"none", "delete"} => mutation'[i][s].set = SetNothing
        /\ mutation'[i][s].op \in {"resume", "update"} =>
              WillArm(i, mutation'[i][s].set, row'[s])
<1> SUFFICES ASSUME NEW i \in Instances, NEW s \in Schedules PROVE Arms(i, s)
  BY DEF MutationsArm
<1>1. CASE mutation'[i][s] = mutation[i][s]
  BY <1>1, PendingMutationArms DEF MutationsArm
<1>2. CASE mutation'[i][s] = NoMutation
  BY <1>2 DEF NoMutation
<1>3. CASE \E op \in {"pause", "delete"}, exempt \in Runs \cup {None} :
              abortInflight(i, s, op, exempt)
  BY <1>3 DEF abortInflight, Begin, IInv, TypeOK, CallTypeOK
<1>4. CASE resumeGet(i, s)
  <2>1. mutation'[i][s] = [op |-> "resume",
            set |-> [SetNothing EXCEPT !.status = "active",
                                       !.nextFireAt = coldStart(row[s], now)]]
    BY <1>4 DEF resumeGet, Begin, IInv, TypeOK, CallTypeOK
  <2>2. coldStart(row[s], now) \in Nat /\ None \notin Nat /\ Keep \notin BOOLEAN
    BY ColdStartIsTime, TimingAssumption, SchedulerAssumption DEF IInv, TypeOK, BoundTypeOK
  <2>3. row'[s].status # "unborn"
    BY <1>4 DEF resumeGet, Exists, dbVars
  <2> DEFINE at == coldStart(row[s], now)
             set == [SetNothing EXCEPT !.status = "active", !.nextFireAt = at]
  <2> HIDE DEF at
  <2>4. /\ set.recurring = Keep /\ set.manual = Keep /\ set.status = "active"
        /\ set.nextFireAt = at
    BY DEF SetNothing
  <2> HIDE DEF set
  <2>5. WillArm(i, set, row'[s])
    BY <2>2, <2>3, <2>4 DEF WillArm, at
  <2>6. WillArm(i, mutation'[i][s].set, row'[s]) /\ mutation'[i][s].op = "resume"
    BY <2>1, <2>5 DEF set, at
  <2> QED
    BY <2>6
<1>5. ASSUME NEW patch \in Patches, updateGet(i, s, patch) PROVE Arms(i, s)
  <2>1. mutation'[i][s] = [op |-> "update", set |-> PatchSet(row[s], patch, now)]
    BY <1>5 DEF updateGet, Begin, IInv, TypeOK, CallTypeOK
  <2>2. row'[s].status # "unborn" /\ row' = row
    BY <1>5 DEF updateGet, Exists, dbVars
  <2>3. row[s] \in Schedule /\ now \in Nat
    BY DEF IInv, TypeOK, DbTypeOK, BoundTypeOK
  <2>4. WillArm(i, mutation'[i][s].set, row'[s])
    BY <2>1, <2>2, <2>3, PatchArms
  <2> QED
    BY <2>1, <2>4
<1>6. \/ mutation'[i][s] \in {mutation[i][s], NoMutation}
      \/ \E op \in {"pause", "delete"}, exempt \in Runs \cup {None} :
              abortInflight(i, s, op, exempt)
      \/ resumeGet(i, s)
      \/ \E patch \in Patches : updateGet(i, s, patch)
  BY MutationChanges
<1> QED
  BY <1>1, <1>2, <1>3, <1>4, <1>5, <1>6

\* An instance that is served is up, and nothing but a start() arms it.
LEMMA NextStarts ==
    ASSUME MaxDowns = 0, IInv, MutationsArm, StartArms, [Next]_vars PROVE StartArms'
<1> DEFINE Arms(i, s) ==
        /\ mode'[i] # "up" => mutation'[i][s] = NoMutation
        /\ boot'[i][s] # Absent => mode'[i] = "arming"
        /\ boot'[i][s] = None =>
              row'[s].status # "unborn" /\ (row'[s].manual \/ ~row'[s].recurring)
<1> SUFFICES ASSUME NEW i \in Instances, NEW s \in Schedules PROVE Arms(i, s)
  BY DEF StartArms
<1>a. HostTypeOK /\ CallTypeOK /\ Absent # None
  BY SchedulerAssumption DEF IInv, TypeOK
<1>1. ASSUME boot'[i][s] = boot[i][s], boot[i][s] = None
      PROVE row'[s].status # "unborn" /\ (row'[s].manual \/ ~row'[s].recurring)
  <2>1. row[s].status # "unborn" /\ (row[s].manual \/ ~row[s].recurring) /\ mode[i] = "arming"
    BY <1>1, <1>a DEF StartArms
  <2>2. ASSUME NEW j \in Instances, NEW o \in Replies, writeMutation(j, s, o),
               mutation[j][s].set.manual # Keep
        PROVE FALSE
    <3>1. mutation[j][s].op \in {"resume", "update"}
      BY <2>2 DEF writeMutation
    <3>2. j = i
      BY <2>2, <3>1 DEF MutationsArm, WillArm
    <3>3. mode[j] = "up"
      BY <3>1 DEF StartArms, NoMutation
    <3> QED
      BY <2>1, <3>2, <3>3
  <2> QED
    BY <2>1, <2>2, NextKeepsKind DEF SameKind
<1>2. ASSUME UNCHANGED hostVars, mutation'[i][s] \in {mutation[i][s], NoMutation} PROVE Arms(i, s)
  BY <1>1, <1>2, <1>a DEF hostVars, StartArms
<1>3. ASSUME NEW r \in Runs,
             FireStep(r) \/ RunnerStep(r) \/ ForceStep(r) \/ GuardStep(r)
      PROVE UNCHANGED <<hostVars, callVars>>
  BY <1>3 DEF FireStep, RunnerStep, ForceStep, GuardStep, claimDueFire, RefreshCache,
     LoadSchedule, insertRun, Bookkeep, deleteRunOnDefer, rearmDeferred, recordVerdict,
     rereadSchedule, replan, stampFinished, onQueueWaitStart, reclaimSlot, endQueueWait,
     Settle, forceRecord, forceReread, forceReplan, stallAbort, forceReleaseStalledRun
<1>4. ASSUME NEW j \in Instances, NEW k \in Ticks, TickStep(j, k)
      PROVE UNCHANGED <<hostVars, mutation>>
  BY <1>4 DEF TickStep, SyncTick, RetryTick, BeginTick, SyncCache, sweepStaleRunningRuns,
     reschedCheck, reschedPut, retryPut, reschedGet, retryGet, fireDue
<1>5. ASSUME NEW j \in Instances, NEW q \in Schedules, MutationStep(j, q)
      PROVE UNCHANGED hostVars /\ mutation'[i][s] \in {mutation[i][s], NoMutation}
  BY <1>5, <1>a DEF MutationStep, pause, delete, writeMutation, EndMutation, CallTypeOK
<1>6. ASSUME NEW j \in Instances, NEW q \in Schedules, Command(j, q)
      PROVE /\ UNCHANGED hostVars
            /\ mutation'[i][s] = mutation[i][s] \/ (i = j /\ mode[i] = "up")
  BY <1>6, <1>a DEF Command, runNow, abortInflight, resumeGet, updateGet, create, Begin, Issue,
     callVars, CallTypeOK
<1>7. CASE Advance \/ UNCHANGED vars
  BY <1>2, <1>7 DEF Advance, vars, callVars
<1>8. ASSUME NEW j \in Instances, HostStep(j) PROVE Arms(i, s)
  <2>0. PICK o \in Replies : \/ start(j, o) \/ listActive(j, o)
                             \/ \E q \in Schedules : armOnStart(j, q, o)
    BY <1>8, HostStepStarts
  <2>1. UNCHANGED mutation
    BY <2>0 DEF start, listActive, armOnStart, callVars
  <2>2. CASE i # j
    <3>1. mode'[i] = mode[i] /\ boot'[i][s] = boot[i][s]
      BY <2>0, <2>2, <1>a DEF start, listActive, armOnStart, HostTypeOK
    <3> QED
      BY <1>1, <1>a, <2>1, <3>1 DEF StartArms
  <2>3. CASE i = j /\ start(j, o)
    <3>1. boot' = boot /\ mode[i] # "up" /\ boot[i][s] = Absent
      BY <2>3, <1>a DEF start, StartArms
    <3> QED
      BY <1>a, <2>1, <3>1 DEF StartArms
  <2>4. CASE i = j /\ listActive(j, o)
    <3> DEFINE plan(q) == computeNextFireAt(row[q], now)
               active == {q \in Schedules : row[q].status = "active"}
               rearm == {q \in active : plan(q) # row[q].nextFireAt}
    <3>1. mode[i] = "listing" /\ boot[i][s] = Absent /\ mutation'[i][s] = NoMutation
      BY <2>1, <2>4, <1>a DEF listActive, StartArms
    <3>2. CASE o = "ok"
      <4>1. /\ boot'[i][s] = IF s \in rearm THEN plan(s) ELSE Absent
            /\ mode'[i] = IF rearm = {} THEN "up" ELSE "arming"
        BY <2>4, <3>2, <1>a DEF listActive, HostTypeOK
      <4>2. boot'[i][s] = None => row[s].status = "active" /\ (row[s].manual \/ ~row[s].recurring)
        <5>1. coldStart(row[s], now) # None /\ row[s] \in Schedule /\ now \in Nat
          BY ColdStartIsTime, TimingAssumption DEF IInv, TypeOK, BoundTypeOK, DbTypeOK
        <5>2. nextIntervalFire(row[s].restBase, now) \in Nat
          BY <5>1, TimingAssumption DEF nextIntervalFire, Schedule
        <5>3. nextCronOrMonthlyFire(now) \in Nat
          BY <5>1, CronFireIsTime
        <5> QED
          BY <4>1, <1>a, <5>2, <5>3, TimingAssumption DEF computeNextFireAt
      <4>3. boot'[i][s] # Absent => mode'[i] = "arming"
        BY <4>1
      <4>4. row' = row
        BY <2>4 DEF listActive, dbVars
      <4> QED
        BY <3>1, <4>2, <4>3, <4>4
    <3>3. CASE o # "ok"
      BY <2>4, <3>1, <3>3, <1>a DEF listActive, HostTypeOK
    <3> QED
      BY <3>2, <3>3
  <2>5. ASSUME i = j, NEW q \in Schedules, armOnStart(j, q, o) PROVE Arms(i, s)
    <3>1. mode[i] = "arming" /\ mutation'[i][s] = NoMutation
      BY <2>1, <2>5 DEF armOnStart, StartArms
    <3>2. CASE o = "ok"
      <4>1. boot'[i][s] = IF s = q THEN Absent ELSE boot[i][s]
        BY <2>5, <3>2, <1>a DEF armOnStart, HostTypeOK
      <4>2. boot'[i][s] # Absent => mode'[i] = mode[i]
        <5>1. CASE s # q /\ boot[i][s] # Absent
          BY <2>5, <3>2, <5>1, <1>a DEF armOnStart, HostTypeOK
        <5> QED
          BY <4>1, <5>1
      <4> QED
        BY <1>1, <1>a, <3>1, <4>1, <4>2
    <3>3. CASE o # "ok"
      BY <2>5, <3>1, <3>3, <1>a DEF armOnStart, HostTypeOK
    <3> QED
      BY <3>2, <3>3
  <2> QED
    BY <2>0, <2>2, <2>3, <2>4, <2>5
<1>9. CASE \E j \in Instances, q \in Schedules : MutationStep(j, q) \/ Command(j, q)
  <2>1. PICK j \in Instances, q \in Schedules : MutationStep(j, q) \/ Command(j, q)
    BY <1>9
  <2>2. UNCHANGED hostVars
    BY <1>5, <1>6, <2>1
  <2>3. mutation'[i][s] \in {mutation[i][s], NoMutation} \/ mode[i] = "up"
    BY <1>5, <1>6, <2>1
  <2> QED
    BY <1>1, <1>a, <2>2, <2>3 DEF hostVars, StartArms
<1> QED
  BY <1>2, <1>3, <1>4, <1>7, <1>8, <1>9 DEF Next, callVars

\* computeNextFireAt answers null for a row at all times or at none.
LEMMA NeverComputed ==
    ASSUME NEW s \in Schedule, NEW t \in Nat
    PROVE computeNextFireAt(s, t) = None <=> s.manual \/ (~s.recurring /\ s.lastFired)
<1>1. nextCronOrMonthlyFire(t) \in Nat
  BY CronFireIsTime
<1>2. nextIntervalFire(s.restBase, t) \in Nat
  BY TimingAssumption DEF nextIntervalFire, Schedule
<1> QED
  BY <1>1, <1>2, TimingAssumption DEF computeNextFireAt

\* What a tick is about to write arms the schedule.
LEMMA NextTicks ==
    ASSUME MaxDowns = 0, IInv, TicksArm, [Next]_vars PROVE TicksArm'
<1> DEFINE Arms(i, k) ==
        /\ tick'[i][k].pc # "idle" => i \notin Passive
        /\ tick'[i][k].pc = "reschedPut" =>
              /\ ~tick'[i][k].seen.manual
              /\ tick'[i][k].seen.recurring \/ ~tick'[i][k].seen.lastFired
        /\ tick'[i][k].pc = "retryPut" => ~NoReplan(tick'[i][k].seen)
<1>a. CallTypeOK
  BY DEF IInv, TypeOK
<1>1. ASSUME UNCHANGED tick PROVE TicksArm'
  BY <1>1 DEF TicksArm
<1>2. ASSUME NEW i \in Instances, NEW k \in Ticks, TickStep(i, k) PROVE TicksArm'
  <2>0. \E t : SetTick(i, k, t)
    BY <1>2 DEF TickStep, SyncTick, RetryTick, BeginTick, SyncCache,
       sweepStaleRunningRuns, reschedCheck, reschedPut, retryPut, reschedGet, retryGet, fireDue
  <2>1. \A j \in Instances, l \in Ticks : j # i \/ l # k => tick'[j][l] = tick[j][l]
    BY <2>0, <1>a DEF SetTick, CallTypeOK
  <2>2. i \notin Passive \/ tick'[i][k].pc = "idle"
    <3>1. CASE FireDue(i, k)
      <4>1. PICK started \in SUBSET Runs : Begun(i, k, started)
        BY <3>1, FireDueBegins
      <4> QED
        BY <4>1, <1>a DEF Begun, CallTypeOK, IdleTick
    <3>2. CASE ~FireDue(i, k)
      BY <1>2, <3>2 DEF FireDue, TickStep, SyncTick, RetryTick, BeginTick, SyncCache,
         sweepStaleRunningRuns, reschedCheck, reschedPut, retryPut, reschedGet, retryGet,
         TicksArm
    <3> QED
      BY <3>1, <3>2
  <2>3. ASSUME tick'[i][k].pc \notin {"reschedPut", "retryPut"} PROVE Arms(i, k)
    BY <2>2, <2>3
  <2>4. \A todo, next : /\ Walk(todo, "reschedGet", next).pc \in {"reschedGet", next}
                        /\ Walk(todo, "retryGet", next).pc \in {"retryGet", next}
    BY DEF Walk, IdleTick
  <2>5. AfterSweep(i).pc \in {"retryGet", "pick"}
    BY <2>4 DEF AfterSweep
  <2>6. \A s : /\ AfterReschedule(i, k, s).pc \in {"reschedGet", "retryGet", "pick"}
               /\ AfterRetry(i, k, s).pc \in {"retryGet", "pick"}
    BY <2>4, <2>5 DEF AfterReschedule, AfterRetry
  <2>7. \A t : SetTick(i, k, t) => tick'[i][k] = t
    BY <1>a DEF SetTick, CallTypeOK
  <2>8. Arms(i, k)
    <3>1. CASE SyncTick(i, k) \/ RetryTick(i, k)
      BY <3>1, <2>3, <2>5, <2>7 DEF SyncTick, RetryTick, BeginTick, IdleTick
    <3>2. ASSUME NEW o, SyncCache(i, k, o) PROVE Arms(i, k)
      BY <3>2, <2>3, <2>7 DEF SyncCache, IdleTick
    <3>3. ASSUME NEW o, sweepStaleRunningRuns(i, k, o) PROVE Arms(i, k)
      BY <3>3, <2>3, <2>4, <2>5, <2>7 DEF sweepStaleRunningRuns
    <3>4. ASSUME NEW o, NEW s \in Schedules, reschedGet(i, k, s, o) PROVE Arms(i, k)
      <4>1. \/ tick'[i][k] = [tick[i][k] EXCEPT !.pc = "reschedCheck", !.cur = s, !.seen = row[s]]
            \/ tick'[i][k] = AfterReschedule(i, k, s)
        BY <3>4, <2>7 DEF reschedGet
      <4>2. tick[i][k] \in Tick
        BY <1>a DEF CallTypeOK
      <4>3. tick'[i][k].pc \in {"reschedCheck", "reschedGet", "retryGet", "pick"}
        BY <4>1, <4>2, <2>6 DEF Tick
      <4> QED
        BY <4>3, <2>3
    <3>5. ASSUME NEW o, reschedCheck(i, k, o) PROVE Arms(i, k)
      <4> DEFINE t == tick[i][k]
      <4>1. CASE tick'[i][k] = AfterReschedule(i, k, t.cur)
        BY <4>1, <2>3, <2>6
      <4>2. CASE tick'[i][k] = [t EXCEPT !.pc = "reschedPut"] /\ computeNextFireAt(t.seen, now) # None
        <5>1. t.seen \in Schedule /\ now \in Nat /\ t \in Tick
          BY <3>5, <1>a DEF reschedCheck, IInv, TicksReady, TypeOK, BoundTypeOK, CallTypeOK
        <5>2. tick'[i][k].pc = "reschedPut" /\ tick'[i][k].seen = t.seen
          BY <4>2, <5>1 DEF Tick
        <5>3. ~t.seen.manual /\ (t.seen.recurring \/ ~t.seen.lastFired)
          BY <4>2, <5>1, NeverComputed
        <5> QED
          BY <2>2, <5>2, <5>3
      <4> QED
        BY <3>5, <2>7, <4>1, <4>2 DEF reschedCheck
    <3>6. ASSUME NEW o, reschedPut(i, k, o) \/ retryPut(i, k, o) PROVE Arms(i, k)
      BY <3>6, <2>3, <2>6, <2>7 DEF reschedPut, retryPut
    <3>7. ASSUME NEW o, NEW s \in Schedules, retryGet(i, k, s, o) PROVE Arms(i, k)
      <4> DEFINE t == tick[i][k]
      <4>1. CASE tick'[i][k] = AfterRetry(i, k, s)
        BY <4>1, <2>3, <2>6
      <4>2. CASE /\ tick'[i][k] = [t EXCEPT !.pc = "retryPut", !.cur = s, !.seen = row[s]]
                 /\ ~NoReplan(row[s])
        <5>1. t \in Tick
          BY <1>a DEF CallTypeOK
        <5>2. tick'[i][k].pc = "retryPut" /\ tick'[i][k].seen = row[s]
          BY <4>2, <5>1 DEF Tick
        <5> QED
          BY <2>2, <4>2, <5>2
      <4> QED
        BY <3>7, <2>7, <4>1, <4>2 DEF retryGet
    <3>8. CASE FireDue(i, k)
      <4>1. PICK started \in SUBSET Runs : Begun(i, k, started)
        BY <3>8, FireDueBegins
      <4> QED
        BY <4>1, <2>3, <1>a DEF Begun, CallTypeOK, IdleTick
    <3> QED
      BY <1>2, <3>1, <3>2, <3>3, <3>4, <3>5, <3>6, <3>7, <3>8 DEF TickStep, FireDue
  <2>9. ASSUME NEW j \in Instances, NEW l \in Ticks, j # i \/ l # k PROVE Arms(j, l)
    BY <2>1, <2>9 DEF TicksArm
  <2>10. \A j \in Instances, l \in Ticks : Arms(j, l)
    BY <2>8, <2>9
  <2> QED
    BY <2>10 DEF TicksArm
<1>3. ASSUME NEW i \in Instances, HostStep(i) PROVE UNCHANGED tick
  BY <1>3, HostStepStarts DEF start, listActive, armOnStart, callVars
<1>4. ASSUME NEW r \in Runs, FireStep(r) \/ RunnerStep(r) \/ ForceStep(r) \/ GuardStep(r)
      PROVE UNCHANGED callVars
  BY <1>4 DEF FireStep, RunnerStep, ForceStep, GuardStep, claimDueFire, RefreshCache,
     LoadSchedule, insertRun, Bookkeep, deleteRunOnDefer, rearmDeferred, recordVerdict,
     rereadSchedule, replan, stampFinished, onQueueWaitStart, reclaimSlot, endQueueWait,
     Settle, forceRecord, forceReread, forceReplan, stallAbort, forceReleaseStalledRun
<1>5. ASSUME NEW i \in Instances, NEW s \in Schedules, MutationStep(i, s) \/ Command(i, s)
      PROVE UNCHANGED tick
  BY <1>5 DEF MutationStep, Command, pause, delete, writeMutation, runNow, abortInflight,
     resumeGet, updateGet, create, callVars
<1>6. CASE Advance \/ UNCHANGED vars
  BY <1>1, <1>6 DEF Advance, vars, callVars
<1> QED
  BY <1>1, <1>2, <1>3, <1>4, <1>5, <1>6 DEF Next, callVars

-----------------------------------------------------------------------------
(* An active recurring schedule is armed, or answered for                  *)

\* Answering names the runs, the retries and the calls.
LEMMA AnsweringSplit ==
    ASSUME NEW s \in Schedules
    PROVE /\ Answering(s) => (\E r \in Runs : Serves(r, s)) \/ Retried(s) \/ Edited(s)
          /\ \A r \in Runs : Serves(r, s)' => Answering(s)'
          /\ Retried(s)' \/ Edited(s)' => Answering(s)'
  BY DEF Answering, Holders, Serves, Retried, Edited

\* What a step leaves of NoOrphanedSchedule at one schedule.
Answered(s) == Unarmed(s)' => Answering(s)'

\* A step that disarms nobody and makes nobody forget.
LEMMA StillAnswered ==
    ASSUME NoOrphanedSchedule, NEW s \in Schedules, Unarmed(s)' => Unarmed(s),
           \A r \in Runs : Serves(r, s) => Serves(r, s)' \/ Answered(s),
           Retried(s) => Retried(s)' \/ Answered(s), Edited(s) => Edited(s)' \/ Answered(s)
    PROVE Answered(s)
  BY AnsweringSplit DEF NoOrphanedSchedule, Answered

\* A step that leaves the database rows and the fires alone.
LEMMA FiresStillServe ==
    ASSUME UNCHANGED <<idVars, contVars, signalled, stallAborted, abandonedRuns, force>>,
           NEW s \in Schedules, NEW r \in Runs
    PROVE Serves(r, s)' <=> Serves(r, s)
  BY DEF idVars, contVars, Serves

\* A schedule is armed by a time, and disarmed by other hands than a fire's.
LEMMA ArmedByTime ==
    ASSUME NEW s \in Schedules, row'[s].nextFireAt \in Nat \/ row'[s].status # "active"
           \/ row'[s].manual \/ ~row'[s].recurring
    PROVE Answered(s)
  BY TimingAssumption DEF Answered, Unarmed

\* A storage call of a fire touches its own schedule and serves it still.
LEMMA FireCallAnswers ==
    ASSUME FailuresTolerated, IInv, RowInv, NoOrphanedSchedule, RunsServe, SnapshotsKeepKind,
           NEW r \in Runs, NEW o \in Replies, FireCall(r, o), NEW s \in Schedules
    PROVE Answered(s)
<1>a. DbTypeOK /\ ContTypeOK /\ AttemptTypeOK /\ row[s] \in Schedule
  BY DEF IInv, TypeOK, DbTypeOK
<1>b. /\ pc[r] \in PreRegister \cup Settling /\ force[r].stage = "idle"
      /\ Ends(r) \/ Starts(r) \/ GoesOn(r)
      /\ \A q \in Runs \ {r} : pc'[q] = pc[q] /\ frame'[q] = frame[q]
      /\ UNCHANGED <<force, abandonedRuns, owner, target, source>>
  BY FireStepShape
<1>c. r \notin abandonedRuns
  BY <1>b DEF RowInv, AbandonedIsOut, PreRegister, Settling
<1>d. \A q \in Runs \ {r} : Serves(q, s)' <=> Serves(q, s)
  BY <1>b DEF Ends, Starts, GoesOn, Serves
<1>e. UNCHANGED <<mutation, pendingReplans>>
  BY DEF FireCall, claimDueFire, RefreshCache, LoadSchedule, insertRun, Bookkeep,
     deleteRunOnDefer, rearmDeferred, recordVerdict, rereadSchedule, replan, stampFinished,
     callVars, cacheVars
<1>f. (Retried(s)' <=> Retried(s)) /\ (Edited(s)' <=> Edited(s))
  BY <1>e DEF Retried, Edited
<1>1. ASSUME Unarmed(s)' => Unarmed(s), Serves(r, s) => Serves(r, s)' PROVE Answered(s)
  BY <1>1, <1>d, <1>f, StillAnswered
<1>2. ASSUME UNCHANGED row PROVE Unarmed(s)' <=> Unarmed(s)
  BY <1>2 DEF Unarmed
<1>3. CASE target[r] # s
  <2>1. row'[s] = row[s]
    BY <1>3, <1>a DEF FireCall, claimDueFire, RefreshCache, LoadSchedule, insertRun, Bookkeep,
       deleteRunOnDefer, rearmDeferred, recordVerdict, rereadSchedule, replan, stampFinished,
       DbTypeOK, dbVars
  <2> QED
    BY <1>1, <1>3, <2>1 DEF Unarmed, Serves
<1>4. CASE target[r] = s
  <2>0. o = "ok" \/ ~\E site \in {"claim", "insert", "replan", "defer"} : Reply(site, o)
    BY DEF FailuresTolerated, Reply
  <2>u. pc[r] \in PreRegister => r \notin signalled /\ frame[r].verdict # "aborted"
    BY SchedulerAssumption DEF RunsServe, SignalledIsOut, UndecidedBeforeSettle, PreRegister,
       Settling
  <2>v. pc[r] \in PreRegister => phase[r] # "none"
    BY <1>c DEF RunsServe, StaysRegistered
  <2>1. CASE claimDueFire(r, o)
    <3>1. CASE ClaimMatches(s, frame[r].token)
      <4>1. pc'[r] = "insert" /\ UNCHANGED <<frame, signalled>>
        BY <1>4, <1>a, <2>0, <2>1, <3>1 DEF claimDueFire, Goto, ContTypeOK
      <4>2. source[r] = "automatic" /\ pc[r] \in PreRegister
        BY <2>1 DEF claimDueFire, PreRegister, IInv, RunInv, Linked
      <4>3. Serves(r, s)'
        BY <1>4, <1>b, <1>c, <2>u, <4>1, <4>2 DEF Serves
      <4> QED
        BY <4>3, AnsweringSplit DEF Answered
    <3>2. CASE ~ClaimMatches(s, frame[r].token)
      BY <1>1, <1>2, <1>4, <1>b, <2>1, <3>2 DEF claimDueFire, Serves
    <3> QED
      BY <3>1, <3>2
  <2>2. CASE RefreshCache(r, o)
    BY <1>1, <1>2, <1>b, <2>2 DEF RefreshCache, Serves, dbVars
  <2>3. CASE LoadSchedule(r, o)
    BY <1>1, <1>2, <1>b, <2>3 DEF LoadSchedule, Serves, dbVars, RunsServe, SourcesFit
  <2>4. CASE insertRun(r, o)
    <3>1. CASE source[r] # "automatic"
      BY <1>1, <1>2, <2>4, <3>1 DEF insertRun, Serves
    <3>2. CASE ~Exists(row[s])
      BY <2>4, <3>2, ArmedByTime DEF insertRun, Exists
    <3>3. CASE source[r] = "automatic" /\ Exists(row[s])
      <4>1. Launch(r) /\ pc[r] \in PreRegister
        BY <1>4, <2>0, <2>4, <3>3 DEF insertRun, ForeignKeyHolds, PreRegister
      <4>2. pc'[r] = "run" /\ UNCHANGED <<frame, signalled>>
        BY <1>a, <2>v, <4>1 DEF Launch, Goto, ContTypeOK
      <4>3. Serves(r, s)'
        BY <1>4, <1>b, <1>c, <2>u, <3>3, <4>1, <4>2 DEF Serves
      <4> QED
        BY <4>3, AnsweringSplit DEF Answered
    <3> QED
      BY <3>1, <3>2, <3>3
  <2>5. CASE Bookkeep(r, o)
    <3>1. Unarmed(s)' => Unarmed(s)
      BY <1>4, <1>a, <2>5 DEF Bookkeep, Unarmed, DbTypeOK, Schedule
    <3> QED
      BY <1>1, <2>5, <3>1 DEF Bookkeep, Serves, RunsServe, SourcesFit
  <2>6. CASE deleteRunOnDefer(r, o)
    <3>1. pc'[r] = "defer"
      BY <1>a, <2>6 DEF deleteRunOnDefer, Goto, ContTypeOK
    <3> QED
      BY <1>1, <1>2, <1>b, <2>6, <3>1 DEF deleteRunOnDefer, Serves, attemptVars
  <2>7. CASE rearmDeferred(r, o)
    <3>1. o = "ok" /\ frame[r].finishedAt + DeferDelay \in Nat
      BY <1>a, <2>0, <2>7, SchedulerAssumption DEF rearmDeferred, ContTypeOK, Frame
    <3> DEFINE at == frame[r].finishedAt + DeferDelay
    <3> HIDE DEF at
    <3>2. Exists(row[s]) => row'[s].nextFireAt = at
      BY <1>4, <1>a, <2>7, <3>1 DEF rearmDeferred, Effect, DbTypeOK, Schedule, at
    <3>3. ~Exists(row[s]) => row'[s] = row[s]
      BY <1>4, <2>7 DEF rearmDeferred
    <3> QED
      BY <3>1, <3>2, <3>3, ArmedByTime DEF Exists, at
  <2>8. CASE recordVerdict(r, o)
    <3>1. CASE source[r] = "automatic" /\ frame[r].verdict # "aborted"
      <4>1. pc'[r] = "replanGet" /\ UNCHANGED <<frame, attemptVars>>
        BY <1>a, <2>8, <3>1 DEF recordVerdict, Goto, ContTypeOK
      <4> QED
        BY <1>1, <1>2, <1>b, <2>8, <4>1 DEF recordVerdict, Serves, attemptVars
    <3>2. CASE source[r] # "automatic" \/ frame[r].verdict = "aborted"
      BY <1>1, <1>2, <1>b, <2>8, <3>2 DEF recordVerdict, Serves
    <3> QED
      BY <3>1, <3>2
  <2>9. CASE rereadSchedule(r, o)
    <3>1. CASE Exists(row[s])
      <4>1. pc'[r] = "replanPut" /\ frame'[r].verdict = frame[r].verdict /\ UNCHANGED attemptVars
        BY <1>4, <1>a, <2>0, <2>9, <3>1 DEF rereadSchedule, Goto, ContTypeOK, Frame
      <4> QED
        BY <1>1, <1>2, <1>b, <2>9, <4>1 DEF rereadSchedule, Serves, attemptVars, dbVars
    <3>2. CASE ~Exists(row[s])
      BY <2>9, <3>2, ArmedByTime DEF rereadSchedule, Exists, dbVars
    <3> QED
      BY <3>1, <3>2
  <2>10. CASE replan(r, o)
    <3> DEFINE seen == frame[r].seen
               at == frame[r].finishedAt
    <3>1. o = "ok" /\ at \in Nat /\ seen.recurring = row[s].recurring
      BY <1>4, <1>a, <2>0, <2>10 DEF replan, ContTypeOK, Frame, SnapshotsKeepKind
    <3>2. coldStart(seen, at) \in Nat
      BY <3>1, ColdStartIsTime
    <3>3. row' = IF Exists(row[s])
                 THEN [row EXCEPT ![s] = Effect(o, Replanned(row[s], seen, at), @)] ELSE row
      BY <1>4, <2>10 DEF replan
    <3> HIDE DEF seen, at
    <3>4. Exists(row[s]) => row'[s] = Replanned(row[s], seen, at)
      BY <1>a, <3>1, <3>3 DEF Effect, DbTypeOK
    <3>5. IF seen.recurring THEN Replanned(row[s], seen, at).nextFireAt = coldStart(seen, at)
                            ELSE ~Replanned(row[s], seen, at).recurring
      BY <1>a, <3>1 DEF Replanned, Schedule
    <3>6. ~Exists(row[s]) => row'[s] = row[s]
      BY <3>3
    <3> QED
      BY <3>2, <3>4, <3>5, <3>6, ArmedByTime DEF Exists
  <2>11. CASE stampFinished(r, o)
    <3>1. Unarmed(s)' => Unarmed(s)
      BY <1>4, <1>a, <2>11 DEF stampFinished, Unarmed, DbTypeOK, Schedule
    <3> QED
      BY <1>1, <2>11, <3>1 DEF stampFinished, Serves, RunsServe, SourcesFit
  <2> QED
    BY <2>1, <2>2, <2>3, <2>4, <2>5, <2>6, <2>7, <2>8, <2>9, <2>10, <2>11 DEF FireCall
<1> QED
  BY <1>3, <1>4

\* The runner comes back to a fire that goes on to its replan.
LEMMA RunnerStepAnswers ==
    ASSUME FailuresTolerated, IInv, NoOrphanedSchedule, RunsServe,
           NEW r \in Runs, RunnerStep(r), NEW s \in Schedules
    PROVE Answered(s)
<1>1. /\ pc[r] = "run"
      /\ \/ /\ pc'[r] = "run" /\ frame'[r].verdict = frame[r].verdict
            /\ UNCHANGED <<signalled, abandonedRuns>>
         \/ /\ r \in abandonedRuns /\ abandonedRuns' = abandonedRuns \ {r}
            /\ signalled' = signalled \ {r}
         \/ /\ r \notin abandonedRuns /\ UNCHANGED <<signalled, abandonedRuns>>
            /\ \E outcome \in Outcomes :
                  IF outcome = "deferred" /\ ~wasRunAborted(r, outcome)
                  THEN pc'[r] = "undo" /\ frame'[r].verdict = None
                  ELSE pc'[r] = "finalize" /\ frame'[r].verdict = VerdictOf(r, outcome)
      /\ \A q \in Runs \ {r} : pc'[q] = pc[q] /\ frame'[q] = frame[q]
      /\ UNCHANGED <<force, stallAborted, owner, target, source, row, mutation, pendingReplans>>
  BY RunnerStepShape
<1>2. Unarmed(s)' = Unarmed(s) /\ (Retried(s)' <=> Retried(s)) /\ (Edited(s)' <=> Edited(s))
  BY <1>1 DEF Unarmed, Retried, Edited
<1>3. \A q \in Runs \ {r} : Serves(q, s) => Serves(q, s)'
  BY <1>1 DEF Serves
<1>4. Serves(r, s) => Serves(r, s)'
  <2> SUFFICES ASSUME Serves(r, s), force[r].stage = "idle" PROVE Serves(r, s)'
    BY <1>1 DEF Serves
  <2>1. r \notin abandonedRuns /\ (r \notin signalled \/ r \in stallAborted)
    BY DEF Serves
  <2>2. phase[r] # "none"
    BY <1>1, <2>1 DEF RunsServe, StaysRegistered
  <2>3. \A outcome \in Outcomes : VerdictOf(r, outcome) # "aborted"
    BY <2>1, <2>2, SchedulerAssumption DEF VerdictOf, wasStallAborted, wasRunAborted,
       OutcomeKinds, FailuresTolerated
  <2>4. /\ pc'[r] \in {"run", "undo", "finalize"} /\ frame'[r].verdict # "aborted"
        /\ UNCHANGED <<signalled, abandonedRuns>>
    BY <1>1, <2>1, <2>3, SchedulerAssumption DEF Serves
  <2> QED
    BY <1>1, <2>1, <2>4 DEF Serves
<1> QED
  BY <1>2, <1>3, <1>4, StillAnswered

\* The guard's abort is not the user's, and its force release serves in turn.
LEMMA GuardStepAnswers ==
    ASSUME IInv, NoOrphanedSchedule, NEW r \in Runs, GuardStep(r), NEW s \in Schedules
    PROVE Answered(s)
<1>1. Unarmed(s)' = Unarmed(s) /\ (Retried(s)' <=> Retried(s)) /\ (Edited(s)' <=> Edited(s))
  BY DEF GuardStep, stallAbort, forceReleaseStalledRun, dbVars, callVars, cacheVars, Unarmed,
     Retried, Edited
<1>2. \A q \in Runs : Serves(q, s) => Serves(q, s)'
  <2>1. CASE stallAbort(r)
    BY <2>1 DEF stallAbort, idVars, contVars, Serves
  <2>2. CASE forceReleaseStalledRun(r)
    <3>1. force'[r].stage = "write" /\ \A q \in Runs \ {r} : force'[q] = force[q]
      BY <2>2 DEF forceReleaseStalledRun, IInv, TypeOK, AttemptTypeOK
    <3> QED
      BY <2>2, <3>1 DEF forceReleaseStalledRun, idVars, contVars, Serves
  <2> QED
    BY <2>1, <2>2 DEF GuardStep
<1> QED
  BY <1>1, <1>2, StillAnswered

\* The replan of a stalled claim arms, closes a one-shot, or is left to a retry.
LEMMA StalledReplanArms ==
    ASSUME IInv, NEW i \in Instances \ Passive, NEW c \in Schedules, NEW seen \in Schedule,
           NEW t \in Nat, ~NoReplan(seen), NEW o \in Replies,
           WriteStalledReplan(i, c, seen, t, o), NEW s \in Schedules
    PROVE /\ s = c => Answered(s)
          /\ s # c => row'[s] = row[s] /\ (Retried(s)' <=> Retried(s))
<1>a. DbTypeOK /\ CacheTypeOK /\ row[c] \in Schedule
  BY DEF IInv, TypeOK, DbTypeOK
<1> DEFINE after == StalledReplan(row[c], seen, t)
<1>1. /\ row' = IF Exists(row[c]) THEN [row EXCEPT ![c] = Effect(o, after, @)] ELSE row
      /\ Pending(i, c, o)
  BY DEF WriteStalledReplan
<1>2. CASE o = "ok"
  <2>1. after.nextFireAt \in Nat \/ ~after.recurring \/ after.status = "expired"
    <3>1. CASE seen.recurring
      <4>1. computeNextFireAt(seen, t) # None
        BY <3>1, NeverComputed DEF NoReplan
      <4>2. after.nextFireAt = computeNextFireAt(seen, t)
        BY <1>a, <3>1 DEF StalledReplan, Schedule
      <4>3. computeNextFireAt(seen, t) \in Nat \cup {None}
        BY ComputedFireIsTime
      <4> QED
        BY <4>1, <4>2, <4>3
    <3>2. CASE ~seen.recurring
      BY <1>a, <3>2 DEF StalledReplan, Schedule
    <3> QED
      BY <3>1, <3>2
  <2> HIDE DEF after
  <2>2. IF Exists(row[c]) THEN row'[c] = after ELSE row'[c] = row[c]
    BY <1>1, <1>2, <1>a DEF Effect, DbTypeOK
  <2>3. Answered(c)
    BY <2>1, <2>2, ArmedByTime DEF Exists
  <2>4. s # c => row'[s] = row[s] /\ (Retried(s)' <=> Retried(s))
    BY <1>1, <1>a DEF DbTypeOK, CacheTypeOK, Pending, Retried
  <2> QED
    BY <2>3, <2>4
<1>3. CASE o # "ok"
  <2>1. c \in pendingReplans'[i]
    BY <1>1, <1>3, <1>a DEF Pending, CacheTypeOK
  <2>2. Answered(c)
    BY <2>1, AnsweringSplit DEF Retried, Answered
  <2> HIDE DEF after
  <2>3. s # c => row'[s] = row[s] /\ (Retried(s)' <=> Retried(s))
    BY <1>1, <1>a DEF DbTypeOK, CacheTypeOK, Pending, Retried
  <2> QED
    BY <2>2, <2>3
<1> QED
  BY <1>2, <1>3

\* A row that needs no replan, or a read that failed and is tried again.
LEMMA PendingAnswers ==
    ASSUME IInv, NEW i \in Instances \ Passive, NEW c \in Schedules, NEW o, Pending(i, c, o),
           UNCHANGED row, o = "ok" => NoReplan(row[c]), NEW s \in Schedules
    PROVE /\ s = c => Answered(s)
          /\ s # c => (Retried(s)' <=> Retried(s))
<1>a. CacheTypeOK
  BY DEF IInv, TypeOK
<1>1. CASE o = "ok"
  <2>1. Answered(c)
    BY <1>1 DEF NoReplan, Answered, Unarmed
  <2> QED
    BY <1>a, <2>1 DEF Pending, Retried, CacheTypeOK
<1>2. CASE o # "ok"
  <2>1. c \in pendingReplans'[i]
    BY <1>2, <1>a DEF Pending, CacheTypeOK
  <2>2. Answered(c)
    BY <2>1, AnsweringSplit DEF Retried, Answered
  <2> QED
    BY <1>a, <2>2 DEF Pending, Retried, CacheTypeOK
<1> QED
  BY <1>1, <1>2

\* The force release serves to its end, and leaves what it could not do to a retry.
LEMMA ForceStepAnswers ==
    ASSUME IInv, NoOrphanedSchedule, RunsServe,
           NEW r \in Runs, NEW o \in Replies, ForceCall(r, o), NEW s \in Schedules
    PROVE Answered(s)
<1>1. /\ force[r].stage # "idle" /\ \A q \in Runs \ {r} : force'[q] = force[q]
      /\ UNCHANGED <<idVars, contVars, controllers, signalled, abandonedRuns, mutation>>
  BY ForceStepShape
<1>2. \A q \in Runs \ {r} : q \in stallAborted <=> q \in stallAborted'
  BY DEF ForceCall, forceRecord, forceReread, forceReplan, EndForce
<1>3. \A q \in Runs \ {r} : Serves(q, s) => Serves(q, s)'
  BY <1>1, <1>2 DEF idVars, contVars, Serves
<1>4. Edited(s)' <=> Edited(s)
  BY <1>1 DEF Edited
<1>5. r \in abandonedRuns \/ pc[r] = "done"
  BY <1>1 DEF IInv, RunInv, ForceOwned
<1>6. owner[r] \in Instances /\ target[r] \in Schedules
  BY <1>1 DEF IInv, RunInv, ForceOwned, Linked
<1>7. CASE source[r] # "automatic"
  <2>1. forceRecord(r, o) /\ ~Serves(r, s)
    BY <1>1, <1>7 DEF ForceCall, forceReread, forceReplan, RunsServe, SourcesFit, Serves
  <2>2. Unarmed(s)' = Unarmed(s) /\ (Retried(s)' <=> Retried(s))
    BY <2>1 DEF forceRecord, Unarmed, Retried, cacheVars
  <2> QED
    BY <1>3, <1>4, <2>1, <2>2, StillAnswered
<1>8. CASE source[r] = "automatic"
  <2>1. owner[r] \in Instances \ Passive
    BY <1>6, <1>8 DEF RunsServe, SourcesFit
  <2>2. CASE forceRecord(r, o)
    <3>1. force'[r].stage = "get"
      BY <1>8, <2>2 DEF forceRecord, IInv, TypeOK, AttemptTypeOK, ForceState
    <3>2. Serves(r, s) => Serves(r, s)'
      BY <1>1, <3>1 DEF idVars, Serves
    <3>3. Unarmed(s)' = Unarmed(s) /\ (Retried(s)' <=> Retried(s))
      BY <2>2 DEF forceRecord, Unarmed, Retried, cacheVars
    <3> QED
      BY <1>3, <1>4, <3>2, <3>3, StillAnswered
  <2>3. CASE forceReread(r, o)
    <3>1. UNCHANGED row
      BY <2>3 DEF forceReread, dbVars
    <3>2. Unarmed(s)' = Unarmed(s)
      BY <3>1 DEF Unarmed
    <3>3. CASE o = "ok" /\ ~NoReplan(row[target[r]])
      <4>1. force'[r].stage = "put" /\ UNCHANGED pendingReplans
        BY <2>3, <3>3 DEF forceReread, IInv, TypeOK, AttemptTypeOK, ForceState
      <4>2. Serves(r, s) => Serves(r, s)'
        BY <1>1, <4>1 DEF idVars, Serves
      <4> QED
        BY <1>3, <1>4, <3>2, <4>1, <4>2, StillAnswered DEF Retried
    <3>4. CASE o # "ok" \/ NoReplan(row[target[r]])
      <4>1. Pending(owner[r], target[r], o)
        BY <2>3, <3>4 DEF forceReread
      <4>2. s = target[r] => Answered(s)
        BY <1>6, <2>1, <3>1, <3>4, <4>1, PendingAnswers
      <4>3. s # target[r] => (Retried(s)' <=> Retried(s))
        BY <1>6, <2>1, <3>1, <3>4, <4>1, PendingAnswers
      <4>4. s # target[r] => ~Serves(r, s)
        BY DEF Serves
      <4> QED
        BY <1>3, <1>4, <3>2, <4>2, <4>3, <4>4, StillAnswered
    <3> QED
      BY <3>3, <3>4
  <2>4. CASE forceReplan(r, o)
    <3>1. /\ force[r].seen \in Schedule /\ force[r].at \in Nat /\ ~NoReplan(force[r].seen)
          /\ WriteStalledReplan(owner[r], target[r], force[r].seen, force[r].at, o)
      BY <2>4 DEF forceReplan, IInv, RunInv, FramesReady, TypeOK, AttemptTypeOK, ForceState,
         RunsServe, SourcesFit
    <3>2. s = target[r] => Answered(s)
      BY <1>6, <2>1, <3>1, StalledReplanArms
    <3>3. s # target[r] => row'[s] = row[s] /\ (Retried(s)' <=> Retried(s))
      BY <1>6, <2>1, <3>1, StalledReplanArms
    <3>4. s # target[r] => Unarmed(s)' = Unarmed(s) /\ ~Serves(r, s)
      BY <3>3 DEF Serves, Unarmed
    <3> QED
      BY <1>3, <1>4, <3>2, <3>3, <3>4, StillAnswered
  <2> QED
    BY <2>2, <2>3, <2>4 DEF ForceCall
<1> QED
  BY <1>7, <1>8

\* A tick starts fires of schedules that are armed, and arms what it replans.
LEMMA TickStepAnswers ==
    ASSUME IInv, NoOrphanedSchedule, TicksArm, NEW i \in Instances, NEW k \in Ticks,
           TickStep(i, k), NEW s \in Schedules
    PROVE Answered(s)
<1>a. DbTypeOK /\ CallTypeOK
  BY DEF IInv, TypeOK
<1>1. CASE FireDue(i, k)
  <2>0. PICK started \in SUBSET Runs : Begun(i, k, started)
    BY <1>1, FireDueBegins
  <2>1. \A r \in Runs : Serves(r, s) => Serves(r, s)'
    <3> SUFFICES ASSUME NEW r \in Runs, Serves(r, s) PROVE Serves(r, s)'
      OBVIOUS
    <3>1. pc[r] # "unused"
      BY DEF Serves, IInv, RunInv, ForceOwned
    <3>2. r \in Runs \ started
      BY <2>0, <3>1 DEF Begun
    <3>3. /\ pc'[r] = pc[r] /\ frame'[r] = frame[r] /\ source'[r] = source[r]
          /\ target'[r] = target[r]
          /\ UNCHANGED <<signalled, stallAborted, force, abandonedRuns>>
      BY <2>0, <3>2 DEF Begun
    <3> QED
      BY <3>3 DEF Serves
  <2>2. UNCHANGED <<row, pendingReplans, mutation>>
    BY <2>0 DEF Begun
  <2> QED
    BY <2>1, <2>2, StillAnswered DEF Unarmed, Retried, Edited
<1>2. CASE ~FireDue(i, k)
  <2>0. UNCHANGED <<idVars, contVars, signalled, stallAborted, force, abandonedRuns, mutation>>
    BY <1>2, OtherTickSteps
  <2>1. (\A r \in Runs : Serves(r, s) => Serves(r, s)') /\ (Edited(s)' <=> Edited(s))
    BY <2>0, FiresStillServe DEF Edited
  <2>2. ASSUME Unarmed(s)' => Unarmed(s), Retried(s) => Retried(s)' PROVE Answered(s)
    BY <2>1, <2>2, StillAnswered
  <2>3. CASE UNCHANGED <<row, pendingReplans>>
    BY <2>2, <2>3 DEF Unarmed, Retried
  <2>4. ASSUME NEW o \in Replies, reschedPut(i, k, o) PROVE Answered(s)
    <3> DEFINE t == tick[i][k]
               at == computeNextFireAt(t.seen, now)
    <3>1. /\ row' = IF Exists(row[t.cur])
                    THEN [row EXCEPT ![t.cur].nextFireAt = Effect(o, at, @)] ELSE row
          /\ t.pc = "reschedPut" /\ UNCHANGED pendingReplans
      BY <2>4 DEF reschedPut
    <3>2. t.seen \in Schedule /\ t.cur \in Schedules /\ now \in Nat
      BY <3>1 DEF IInv, TicksReady, TypeOK, BoundTypeOK
    <3>3. at \in Nat
      BY <3>1, <3>2, NeverComputed, ComputedFireIsTime DEF TicksArm
    <3> HIDE DEF at, t
    <3>4. CASE s = t.cur /\ Exists(row[s]) /\ o # "lost"
      BY <1>a, <3>1, <3>3, <3>4, ArmedByTime DEF Effect, DbTypeOK, Schedule
    <3>5. CASE s # t.cur \/ ~Exists(row[s]) \/ o = "lost"
      <4>1. row'[s] = row[s]
        <5>1. \A x \in Schedule : [x EXCEPT !.nextFireAt = x.nextFireAt] = x
          BY DEF Schedule
        <5>2. row[s] \in Schedule
          BY <1>a DEF DbTypeOK
        <5> QED
          BY <1>a, <3>1, <3>2, <3>5, <5>1, <5>2 DEF Effect, DbTypeOK
      <4> QED
        BY <2>2, <3>1, <4>1 DEF Unarmed, Retried
    <3> QED
      BY <3>4, <3>5
  <2>5. ASSUME NEW o \in Replies, NEW c \in Schedules, retryGet(i, k, c, o),
               o # "ok" \/ NoReplan(row[c])
        PROVE Answered(s)
    <3>1. i \in Instances \ Passive /\ Pending(i, c, o) /\ UNCHANGED row
      BY <2>5 DEF retryGet, TicksArm, dbVars
    <3>2. s = c => Answered(s)
      BY <2>5, <3>1, PendingAnswers
    <3>3. s # c => (Retried(s)' <=> Retried(s))
      BY <2>5, <3>1, PendingAnswers
    <3> QED
      BY <2>2, <3>1, <3>2, <3>3 DEF Unarmed
  <2>6. ASSUME NEW o \in Replies, retryPut(i, k, o) PROVE Answered(s)
    <3> DEFINE t == tick[i][k]
    <3>1. WriteStalledReplan(i, t.cur, t.seen, now, o) /\ t.pc = "retryPut"
      BY <2>6 DEF retryPut
    <3>2. t.seen \in Schedule /\ t.cur \in Schedules /\ now \in Nat
      BY <3>1 DEF IInv, TicksReady, TypeOK, BoundTypeOK
    <3>3. i \in Instances \ Passive /\ ~NoReplan(t.seen)
      BY <3>1 DEF TicksArm
    <3> HIDE DEF t
    <3>4. s = t.cur => Answered(s)
      BY <3>1, <3>2, <3>3, StalledReplanArms
    <3>5. s # t.cur => row'[s] = row[s] /\ (Retried(s)' <=> Retried(s))
      BY <3>1, <3>2, <3>3, StalledReplanArms
    <3> QED
      BY <2>2, <3>4, <3>5 DEF Unarmed
  <2>7. ASSUME NEW o \in Replies, NEW c \in Schedules, retryGet(i, k, c, o),
               ~(o # "ok" \/ NoReplan(row[c]))
        PROVE UNCHANGED <<row, pendingReplans>>
    BY <2>7 DEF retryGet, dbVars
  <2> QED
    BY <1>2, <2>3, <2>4, <2>5, <2>6, <2>7 DEF FireDue, TickStep, SyncTick, RetryTick, BeginTick,
       SyncCache, sweepStaleRunningRuns, reschedCheck, reschedGet, dbVars, cacheVars
<1> QED
  BY <1>1, <1>2

\* A mutation is answered for while it is under way, and arms what it leaves.
LEMMA MutationStepAnswers ==
    ASSUME FailuresTolerated, IInv, NoOrphanedSchedule, MutationsArm,
           NEW i \in Instances, NEW c \in Schedules, MutationStep(i, c), NEW s \in Schedules
    PROVE Answered(s)
<1>a. DbTypeOK /\ CallTypeOK /\ row[c] \in Schedule
  BY DEF IInv, TypeOK, DbTypeOK
<1>1. PICK o \in Replies : pause(i, c, o) \/ delete(i, c, o) \/ writeMutation(i, c, o)
  BY DEF MutationStep
<1>2. o = "ok" /\ UNCHANGED <<idVars, contVars, attemptVars, pendingReplans>>
  BY <1>1 DEF FailuresTolerated, Reply, pause, delete, writeMutation
<1>3. \A r \in Runs : Serves(r, s) => Serves(r, s)'
  BY <1>2, FiresStillServe DEF attemptVars
<1>4. Retried(s) => Retried(s)'
  BY <1>2 DEF Retried
<1>5. \A j \in Instances, q \in Schedules :
          mutation'[j][q] = IF j = i /\ q = c THEN NoMutation ELSE mutation[j][q]
  BY <1>1, <1>a DEF pause, delete, writeMutation, EndMutation, CallTypeOK
<1>6. \A q \in Schedules \ {c} : row'[q] = row[q]
  BY <1>1, <1>a DEF pause, delete, writeMutation, DbTypeOK, dbVars
<1>7. CASE s # c
  BY <1>3, <1>4, <1>5, <1>6, <1>7, StillAnswered DEF Unarmed, Edited
<1>8. CASE s = c /\ pause(i, c, o)
  <2>1. mutation[i][c].set = [SetNothing EXCEPT !.status = "paused"]
    BY <1>8 DEF pause, MutationsArm
  <2>2. row'[c] = Updated(row[c], mutation[i][c].set)
    BY <1>2, <1>8, <1>a DEF pause, Effect, DbTypeOK
  <2>3. Updated(row[c], mutation[i][c].set).status # "active"
    BY <2>1, <1>a, SchedulerAssumption DEF Updated, Column, SetNothing, Exists, Schedule, Statuses
  <2> QED
    BY <1>8, <2>2, <2>3, ArmedByTime
<1>9. CASE s = c /\ delete(i, c, o)
  <2>1. row'[c].status # "active"
    BY <1>2, <1>9, <1>a DEF delete, Exists, DbTypeOK, Schedule
  <2> QED
    BY <1>9, <2>1, ArmedByTime
<1>10. CASE s = c /\ writeMutation(i, c, o)
  <2> DEFINE set == mutation[i][c].set
             after == Updated(row[c], set)
  <2>1. row'[c] = after /\ mutation[i][c].op \in {"resume", "update"}
    BY <1>2, <1>10, <1>a DEF writeMutation, Effect, DbTypeOK
  <2>2. WillArm(i, set, row[c])
    BY <2>1 DEF MutationsArm
  <2> HIDE DEF set
  <2>3. /\ after.status = Column(set.status, row[c].status)
        /\ after.recurring = Column(set.recurring, row[c].recurring)
        /\ after.manual = Column(set.manual, row[c].manual)
        /\ after.nextFireAt = Column(set.nextFireAt, row[c].nextFireAt)
        \/ after.status # "active"
    BY <1>a DEF Updated, Schedule, Exists
  <2> HIDE DEF after
  <2>4. CASE set.nextFireAt # Keep
    BY <1>10, <2>1, <2>2, <2>3, <2>4, ArmedByTime, SchedulerAssumption
       DEF Column, WillArm, Answered, Unarmed
  <2>5. CASE set.nextFireAt = Keep
    <3>1. Unarmed(s)' => Unarmed(s)
      BY <1>10, <2>1, <2>2, <2>3, <2>5, SchedulerAssumption DEF Column, WillArm, Unarmed
    <3>2. Edited(s) => Edited(s)'
      BY <1>5, <1>10, <2>1, <2>5 DEF Edited, set
    <3> QED
      BY <1>3, <1>4, <3>1, <3>2, StillAnswered
  <2> QED
    BY <2>4, <2>5
<1> QED
  BY <1>1, <1>7, <1>8, <1>9, <1>10

\* A command that is accepted answers for the schedule until it is done.
LEMMA CommandAnswers ==
    ASSUME FailuresTolerated, IInv, NoOrphanedSchedule,
           NEW i \in Instances, NEW c \in Schedules, Command(i, c), NEW s \in Schedules
    PROVE Answered(s)
<1>a. DbTypeOK /\ CallTypeOK /\ row[c] \in Schedule
  BY DEF IInv, TypeOK, DbTypeOK
<1>1. ASSUME NEW r \in Runs, runNow(i, c, r) PROVE Answered(s)
  <2>1. /\ pc[r] = "unused"
        /\ \A q \in Runs \ {r} : /\ pc'[q] = pc[q] /\ target'[q] = target[q]
                                 /\ source'[q] = source[q]
        /\ UNCHANGED <<frame, signalled, stallAborted, force, abandonedRuns, row, pendingReplans,
                       mutation>>
    BY <1>1 DEF runNow, Goto, dbVars, cacheVars, callVars, IInv, TypeOK, IdTypeOK, ContTypeOK
  <2>2. ~Serves(r, s)
    BY <2>1 DEF Serves, IInv, RunInv, ForceOwned
  <2>3. \A q \in Runs : Serves(q, s) => Serves(q, s)'
    BY <2>1, <2>2 DEF Serves
  <2> QED
    BY <2>1, <2>3, StillAnswered DEF Unarmed, Retried, Edited
<1>2. ASSUME NEW op \in {"pause", "delete"}, NEW exempt, abortInflight(i, c, op, exempt)
      PROVE Answered(s)
  <2>1. /\ \A j \in Instances, q \in Schedules : j # i \/ q # c => mutation'[j][q] = mutation[j][q]
        /\ mutation'[i][c].op = op
    BY <1>2, <1>a DEF abortInflight, Begin, CallTypeOK
  <2>2. CASE s = c
    BY <2>1, <2>2, AnsweringSplit DEF Answered, Edited
  <2>3. CASE s # c
    <3>1. \A r \in Runs : Serves(r, s) => Serves(r, s)'
      BY <1>2, <2>3 DEF abortInflight, idVars, contVars, Serves
    <3> QED
      BY <1>2, <2>1, <2>3, <3>1, StillAnswered DEF abortInflight, dbVars, cacheVars, Unarmed,
         Retried, Edited
  <2> QED
    BY <2>2, <2>3
<1>3. ASSUME NEW op, NEW set, Begin(i, c, op, set),
             UNCHANGED <<idVars, contVars, attemptVars, row, pendingReplans>>
      PROVE Answered(s)
  <2>1. \A r \in Runs : Serves(r, s) => Serves(r, s)'
    BY <1>3, FiresStillServe DEF attemptVars
  <2>2. /\ \A j \in Instances, q \in Schedules : j # i \/ q # c => mutation'[j][q] = mutation[j][q]
        /\ mutation[i][c] = NoMutation
    BY <1>3, <1>a DEF Begin, CallTypeOK
  <2>3. Edited(s) => Edited(s)'
    BY <2>2 DEF Edited, NoMutation, SetNothing
  <2> QED
    BY <1>3, <2>1, <2>3, StillAnswered DEF Unarmed, Retried
<1>4. ASSUME NEW shape \in Shapes, NEW o \in Replies, create(i, c, shape, o) PROVE Answered(s)
  <2>1. /\ o = "ok"
        /\ UNCHANGED <<idVars, contVars, attemptVars, pendingReplans, mutation>>
    BY <1>4 DEF create, FailuresTolerated, Reply, callVars
  <2>2. row' = [row EXCEPT ![c] = NewRow(shape, now)]
    BY <1>4, <2>1 DEF create, Effect
  <2>3. NewRow(shape, now).manual \/ NewRow(shape, now).nextFireAt \in Nat
    <3>1. \A x : coldStart(x, now) \in Nat
      BY ColdStartIsTime DEF IInv, TypeOK, BoundTypeOK
    <3> QED
      BY <3>1 DEF NewRow
  <2>4. CASE s = c
    BY <1>a, <2>2, <2>3, <2>4, ArmedByTime DEF DbTypeOK
  <2>5. CASE s # c
    <3>1. row'[s] = row[s]
      BY <1>a, <2>2, <2>5 DEF DbTypeOK
    <3>2. \A r \in Runs : Serves(r, s) => Serves(r, s)'
      BY <2>1, FiresStillServe DEF attemptVars
    <3> QED
      BY <2>1, <3>1, <3>2, StillAnswered DEF Unarmed, Retried, Edited
  <2> QED
    BY <2>4, <2>5
<1> QED
  BY <1>1, <1>2, <1>3, <1>4 DEF Command, resumeGet, updateGet, dbVars, cacheVars

\* A start arms what it computes a time for.
LEMMA HostStepAnswers ==
    ASSUME MaxDowns = 0, IInv, NoOrphanedSchedule, StartArms,
           NEW i \in Instances, HostStep(i), NEW s \in Schedules
    PROVE Answered(s)
<1>a. DbTypeOK /\ HostTypeOK
  BY DEF IInv, TypeOK
<1>1. PICK o \in Replies : \/ start(i, o) \/ listActive(i, o)
                           \/ \E c \in Schedules : armOnStart(i, c, o)
  BY HostStepStarts
<1>2. UNCHANGED <<idVars, contVars, attemptVars, pendingReplans, mutation>>
  BY <1>1 DEF start, listActive, armOnStart, callVars, cacheVars
<1>3. \A r \in Runs : Serves(r, s) => Serves(r, s)'
  BY <1>2, FiresStillServe DEF attemptVars
<1>4. CASE Unarmed(s)' => Unarmed(s)
  BY <1>2, <1>3, <1>4, StillAnswered DEF Retried, Edited
<1>5. ASSUME NEW c \in Schedules, armOnStart(i, c, o) PROVE Answered(s)
  <2>1. /\ boot[i][c] \in Nat \cup {None}
        /\ row' = IF Exists(row[c]) THEN [row EXCEPT ![c].nextFireAt = Effect(o, boot[i][c], @)]
                                    ELSE row
    BY <1>5, <1>a DEF armOnStart, HostTypeOK, Fires
  <2>2. CASE s = c /\ Exists(row[c]) /\ o # "lost"
    <3>1. /\ row'[s].nextFireAt = boot[i][s] /\ row'[s].manual = row[s].manual
          /\ row'[s].recurring = row[s].recurring
      BY <1>a, <2>1, <2>2 DEF Effect, DbTypeOK, Schedule
    <3>2. boot[i][s] = None => row[s].manual \/ ~row[s].recurring
      BY DEF StartArms
    <3> QED
      BY <2>1, <2>2, <3>1, <3>2, ArmedByTime
  <2>3. CASE s # c \/ ~Exists(row[c]) \/ o = "lost"
    <3>1. \A x \in Schedule : [x EXCEPT !.nextFireAt = x.nextFireAt] = x
      BY DEF Schedule
    <3>2. row'[s] = row[s]
      BY <1>a, <2>1, <2>3, <3>1 DEF Effect, DbTypeOK
    <3> QED
      BY <1>4, <3>2 DEF Unarmed
  <2> QED
    BY <2>2, <2>3
<1>6. CASE UNCHANGED row
  BY <1>4, <1>6 DEF Unarmed
<1> QED
  BY <1>1, <1>5, <1>6 DEF start, listActive, dbVars

\* Every step answers for the schedules it disarms.
LEMMA NextAnswers ==
    ASSUME MaxDowns = 0, FailuresTolerated, IInv, RowInv, ArmInv, [Next]_vars
    PROVE NoOrphanedSchedule'
<1> SUFFICES ASSUME NEW s \in Schedules PROVE Answered(s)
  BY DEF NoOrphanedSchedule, Answered
<1>1. ASSUME NEW r \in Runs, FireStep(r) \/ ForceStep(r) PROVE Answered(s)
  BY <1>1, FireCallAnswers, ForceStepAnswers DEF ArmInv, FireStep, FireCall, ForceStep, ForceCall
<1>2. CASE Advance \/ UNCHANGED vars
  <2>1. UNCHANGED <<idVars, contVars, attemptVars, row, pendingReplans, mutation>>
    BY <1>2 DEF Advance, vars, dbVars, cacheVars, callVars
  <2>2. \A r \in Runs : Serves(r, s) => Serves(r, s)'
    BY <2>1, FiresStillServe DEF attemptVars
  <2> QED
    BY <2>1, <2>2, StillAnswered DEF ArmInv, Unarmed, Retried, Edited
<1>3. ASSUME NEW r \in Runs, RunnerStep(r) \/ GuardStep(r) PROVE Answered(s)
  BY <1>3, RunnerStepAnswers, GuardStepAnswers DEF ArmInv
<1>4. ASSUME NEW i \in Instances, NEW k \in Ticks, TickStep(i, k) PROVE Answered(s)
  BY <1>4, TickStepAnswers DEF ArmInv
<1>5. ASSUME NEW i \in Instances, NEW c \in Schedules, MutationStep(i, c) \/ Command(i, c)
      PROVE Answered(s)
  BY <1>5, MutationStepAnswers, CommandAnswers DEF ArmInv
<1>6. ASSUME NEW i \in Instances, HostStep(i) PROVE Answered(s)
  BY <1>6, HostStepAnswers DEF ArmInv
<1> QED
  BY <1>1, <1>2, <1>3, <1>4, <1>5, <1>6 DEF Next

\* The initial states of the rows and the runs.
LEMMA InitRows == Init => RowInv
  BY DEF Init, InitWith, RowInv, AbandonedIsOut, VerdictIsFinal, Verdicts

\* Nothing is under way at first, and every schedule is armed.
LEMMA InitArms == Init => ArmInv
<1> SUFFICES ASSUME Init PROVE ArmInv
  OBVIOUS
<1>1. /\ \A r \in Runs : /\ pc[r] = "unused" /\ frame[r].verdict = None
                         /\ force[r].stage = "idle" /\ owner[r] = None
      /\ signalled = {} /\ mode = [i \in Instances |-> "new"]
      /\ \A i \in Instances, s \in Schedules :
            boot[i][s] = Absent /\ mutation[i][s] = NoMutation
      /\ \A i \in Instances, k \in Ticks : tick[i][k].pc = "idle"
  BY DEF Init, InitWith, NoFrame, NoForce, IdleTick
<1>2. \A s \in Schedules : ~Unarmed(s)
  <2>1. \A t \in Nat, shape \in Shapes :
            NewRow(shape, t).manual \/ NewRow(shape, t).nextFireAt \in Nat
    BY ColdStartIsTime DEF NewRow
  <2>2. \A s \in Schedules : row[s].manual \/ row[s].nextFireAt \in Nat
    BY <2>1 DEF Init, InitWith, UnbornRow
  <2> QED
    BY <2>2, TimingAssumption DEF Unarmed
<1>3. NoOrphanedSchedule /\ MutationsArm
  BY <1>1, <1>2 DEF NoOrphanedSchedule, MutationsArm, NoMutation
<1>4. RunsServe
  BY <1>1, SchedulerAssumption DEF RunsServe, StaysRegistered, SignalledIsOut,
     UndecidedBeforeSettle, SourcesFit, PreRegister
<1>5. TicksArm /\ SnapshotsKeepKind /\ StartArms
  BY <1>1, SchedulerAssumption DEF TicksArm, SnapshotsKeepKind, StartArms
<1> QED
  BY <1>3, <1>4, <1>5 DEF ArmInv

\* The cadence of a recurring schedule never stops silently: whatever fires,
\* stalls, overlaps, is paused, resumed, edited or retried, and whichever other
\* storage call fails, an active schedule without a next fire time has somebody
\* who will arm it, so long as no process goes down.
THEOREM NoCadenceStops ==
    ASSUME MaxDowns = 0, FailuresTolerated, KindsKept
    PROVE  Spec => []NoOrphanedSchedule
<1>1. Init => IInv /\ RowInv /\ ArmInv
  BY InitInvariant, InitRows, InitArms
<1>2. ASSUME IInv, RowInv, ArmInv, [Next]_vars PROVE ArmInv'
  <2>1. RunsServe'
    BY <1>2, NextServes DEF ArmInv
  <2>2. SnapshotsKeepKind' /\ TicksArm'
    BY <1>2, NextSnapshots, NextTicks DEF ArmInv
  <2>3. MutationsArm' /\ StartArms'
    BY <1>2, NextMutations, NextStarts DEF ArmInv
  <2>4. NoOrphanedSchedule'
    BY <1>2, NextAnswers
  <2> QED
    BY <2>1, <2>2, <2>3, <2>4 DEF ArmInv
<1>3. IInv /\ RowInv /\ [Next]_vars => RowInv'
  BY NextRows
<1>4. IInv /\ RowInv /\ ArmInv /\ [Next]_vars => ArmInv'
  BY <1>2
<1>5. ArmInv => NoOrphanedSchedule
  BY DEF ArmInv
<1> QED
  BY <1>1, <1>3, <1>4, <1>5, EngineInvariant, PTL DEF Spec

-----------------------------------------------------------------------------
(* One claim at a time, and one end for a one-shot                         *)

\* Whatever a step does to s, nobody claims s who did not, and only who claimed
\* it has run it to an end.
LEMMA ClaimsKept ==
    ASSUME NEW s \in Schedules, Sole(s), Over(s), row'[s] = row[s],
           \A q \in Runs : Claims(q, s)' => Claims(q, s),
           \A q \in Executed(s)' : q \in Executed(s) \/ Claims(q, s)
    PROVE Sole(s)' /\ Over(s)'
<1>1. Sole(s)'
  BY DEF Sole
<1>2. ASSUME NEW r \in Executed(s)', ~row'[s].recurring
      PROVE /\ row'[s].status = "expired" \/ row'[s].nextFireAt = None
            /\ \A q \in Runs : Claims(q, s)' \/ q \in Executed(s)' => q = r
  <2>1. Executed(s)' \subseteq Runs
    BY DEF Executed
  <2>2. CASE r \in Executed(s)
    BY <1>2, <2>1, <2>2 DEF Over
  <2>3. CASE Claims(r, s)
    BY <1>2, <2>1, <2>3 DEF Over, Sole
  <2> QED
    BY <1>2, <2>2, <2>3
<1> QED
  BY <1>1, <1>2 DEF Over

\* A step after which nobody claims s.
LEMMA ClaimsLeft ==
    ASSUME NEW s \in Schedules, Over(s), \A q \in Runs : ~Claims(q, s)',
           Executed(s)' \subseteq Executed(s), row'[s].recurring = row[s].recurring,
           \/ Executed(s) = {} \/ row[s].recurring
           \/ row'[s].status = "expired" \/ row'[s].nextFireAt = None
    PROVE Sole(s)' /\ Over(s)'
<1>1. Executed(s)' \subseteq Runs
  BY DEF Executed
<1> QED
  BY <1>1 DEF Sole, Over

\* The runs of a step that moves none of them.
LEMMA UnmovedClaims ==
    ASSUME UNCHANGED <<idVars, contVars, abandonedRuns, force>>, NEW r \in Runs,
           NEW s \in Schedules
    PROVE Claims(r, s)' <=> Claims(r, s)
  BY DEF idVars, contVars, Claims

\* The steps that are left when nobody disturbs the fires.
LEMMA UndisturbedSteps ==
    ASSUME Undisturbed, IInv, ClaimInv, [Next]_vars
    PROVE \/ \E r \in Runs, o \in Replies : FireCall(r, o) \/ ForceCall(r, o)
          \/ \E r \in Runs : RunnerStep(r) \/ GuardStep(r)
          \/ \E i \in Instances, k \in Ticks : TickStep(i, k)
          \/ \E i \in Instances, s \in Schedules, shape \in Shapes, o \in Replies :
                create(i, s, shape, o)
          \/ UNCHANGED <<dbVars, idVars, contVars, attemptVars, cacheVars, hostVars, callVars>>
<1>1. ~(commands < MaxCommands)
  BY DEF Undisturbed, IInv, TypeOK, BoundTypeOK
<1>2. ASSUME NEW i \in Instances, NEW s \in Schedules PROVE ~MutationStep(i, s)
  BY DEF ClaimInv, OnlyFires, MutationStep, pause, delete, writeMutation, NoMutation
<1>3. ASSUME NEW i \in Instances, NEW s \in Schedules, Command(i, s)
      PROVE \E shape \in Shapes, o \in Replies : create(i, s, shape, o)
  BY <1>1, <1>3 DEF Command, runNow, abortInflight, resumeGet, updateGet, Issue
<1>4. ASSUME NEW i \in Instances, HostStep(i) PROVE FALSE
  <2>1. mode[i] = "up"
    BY DEF ClaimInv, OnlyFires
  <2> QED
    BY <1>4, <2>1, HostStepStarts DEF Undisturbed, start, listActive, armOnStart
<1> QED
  BY <1>2, <1>3, <1>4 DEF Next, FireStep, FireCall, ForceStep, ForceCall, Advance, vars

\* The rest of a tick leaves the database alone too: there is nothing to sweep.
LEMMA UndisturbedTick ==
    ASSUME IInv, OnlyFires, RunningIsCared, NEW i \in Instances, NEW k \in Ticks,
           TickStep(i, k), ~FireDue(i, k)
    PROVE /\ UNCHANGED <<row, runRow, pendingReplans>>
          /\ tick'[i][k].pc \in {"idle", "sync", "sweep", "pick"}
          /\ \A j \in Instances, l \in Ticks : j # i \/ l # k => tick'[j][l] = tick[j][l]
<1>a. CallTypeOK /\ DbTypeOK
  BY DEF IInv, TypeOK
<1>1. StaleRuns = {} /\ Affected = {}
  BY DEF RunningIsCared, StaleRuns, Stale, Affected
<1>2. AfterSweep(i) = [IdleTick EXCEPT !.pc = "pick"]
  BY DEF OnlyFires, AfterSweep, Walk
<1>3. markRunningAsInterrupted => UNCHANGED runRow
  BY <1>1, <1>a DEF markRunningAsInterrupted, StaleRuns, DbTypeOK
<1>4. \A t : SetTick(i, k, t) =>
          /\ tick'[i][k] = t
          /\ \A j \in Instances, l \in Ticks : j # i \/ l # k => tick'[j][l] = tick[j][l]
  BY <1>a DEF SetTick, CallTypeOK
<1>5. tick[i][k].pc \in {"idle", "sync", "sweep", "pick"} /\ pendingReplans[i] = {}
  BY DEF OnlyFires
<1>6. CASE SyncTick(i, k)
  BY <1>4, <1>6 DEF SyncTick, BeginTick, IdleTick, dbVars, cacheVars
<1>7. ASSUME NEW o, SyncCache(i, k, o)
      PROVE /\ UNCHANGED <<row, runRow, pendingReplans>>
            /\ SetTick(i, k, [IdleTick EXCEPT !.pc = "sweep"])
  BY <1>7 DEF SyncCache, dbVars
<1>8. ASSUME NEW o, sweepStaleRunningRuns(i, k, o)
      PROVE /\ UNCHANGED <<row, runRow, pendingReplans>>
            /\ SetTick(i, k, [IdleTick EXCEPT !.pc = "pick"])
  BY <1>1, <1>2, <1>3, <1>8 DEF sweepStaleRunningRuns, cacheVars
<1>9. SyncTick(i, k) \/ \E o : SyncCache(i, k, o) \/ sweepStaleRunningRuns(i, k, o)
  BY <1>5 DEF FireDue, TickStep, RetryTick, reschedCheck, reschedPut, retryPut, reschedGet,
     retryGet
<1> QED
  BY <1>4, <1>6, <1>7, <1>8, <1>9 DEF IdleTick

\* Rows keep existing, and their kind.
LEMMA UndisturbedRows ==
    ASSUME IInv, OnlyFires, [Next]_vars, NEW s \in Schedules PROVE SameKind(row[s], row'[s])
<1>1. MutationsArm
  BY DEF OnlyFires, MutationsArm, NoMutation
<1>2. \A i \in Instances, o \in Replies : ~writeMutation(i, s, o)
  BY DEF OnlyFires, writeMutation, NoMutation
<1> QED
  BY <1>1, <1>2, NextKeepsKind

\* Only fires go on, and their claims were due when the tick picked them.
LEMMA NextOnlyFires ==
    ASSUME Undisturbed, IInv, ClaimInv, [Next]_vars PROVE OnlyFires'
<1>a. /\ OnlyFires /\ CallTypeOK /\ ContTypeOK /\ CacheTypeOK
      /\ \A r \in Runs : pc[r] \notin {"load", "bookkeep", "stamp"}
  BY DEF ClaimInv, IInv, TypeOK, OnlyFires, RunsServe, SourcesFit
<1>1. ASSUME UNCHANGED <<mode, pendingReplans, mutation, tick>>,
             \A r \in Runs : /\ pc'[r] # "unused" => pc[r] # "unused" /\ source'[r] = source[r]
                             /\ pc'[r] = "claim" => pc[r] = "claim" /\ frame'[r] = frame[r]
      PROVE OnlyFires'
  BY <1>1 DEF ClaimInv, OnlyFires
<1>2. ASSUME NEW r \in Runs, NEW o \in Replies, FireCall(r, o) PROVE OnlyFires'
  <2>1. UNCHANGED <<mode, pendingReplans, mutation, tick>>
    BY <1>2 DEF FireCall, claimDueFire, RefreshCache, LoadSchedule, insertRun, Bookkeep,
       deleteRunOnDefer, rearmDeferred, recordVerdict, rereadSchedule, replan, stampFinished,
       hostVars, callVars, cacheVars
  <2>2. /\ pc[r] \in PreRegister \cup Settling /\ UNCHANGED source
        /\ \A q \in Runs \ {r} : pc'[q] = pc[q] /\ frame'[q] = frame[q]
    BY <1>2, FireStepShape
  <2>3. pc'[r] # "claim"
    BY <1>2, <1>a DEF FireCall, claimDueFire, RefreshCache, LoadSchedule, insertRun, Bookkeep,
       deleteRunOnDefer, rearmDeferred, recordVerdict, rereadSchedule, replan, stampFinished,
       Exit, Launch, Goto, ContTypeOK
  <2>4. pc[r] # "unused"
    BY <2>2 DEF PreRegister, Settling
  <2> QED
    BY <1>1, <2>1, <2>2, <2>3, <2>4
<1>3. ASSUME NEW r \in Runs, NEW o \in Replies, ForceCall(r, o) PROVE OnlyFires'
  <2>1. UNCHANGED <<idVars, contVars, mode, mutation, tick>> /\ force[r].stage # "idle"
    BY <1>3, ForceStepShape
  <2>2. owner[r] \in Instances
    BY <2>1 DEF IInv, RunInv, ForceOwned, Linked
  <2>3. o = "ok"
    BY <1>3 DEF ForceCall, forceRecord, forceReread, forceReplan, WriteStalledReplan, Reply,
       Undisturbed
  <2>4. \A s : Pending(owner[r], s, o) => UNCHANGED pendingReplans
    <3>1. pendingReplans[owner[r]] = {} /\ pendingReplans \in [Instances -> SUBSET Schedules]
      BY <1>a, <2>2 DEF OnlyFires, CacheTypeOK
    <3> QED
      BY <2>2, <2>3, <3>1 DEF Pending
  <2>5. UNCHANGED pendingReplans
    BY <1>3, <2>4 DEF ForceCall, forceRecord, forceReread, forceReplan, WriteStalledReplan,
       cacheVars
  <2> QED
    BY <1>1, <2>1, <2>5 DEF idVars, contVars
<1>4. ASSUME NEW r \in Runs, RunnerStep(r) PROVE OnlyFires'
  <2>1. /\ pc[r] = "run" /\ \A q \in Runs \ {r} : pc'[q] = pc[q] /\ frame'[q] = frame[q]
        /\ pc'[r] \in {"run", "done", "undo", "finalize"}
        /\ UNCHANGED <<source, mode, pendingReplans, mutation, tick>>
    BY <1>4, RunnerStepShape
  <2> QED
    BY <1>1, <2>1
<1>5. ASSUME NEW r \in Runs, GuardStep(r) PROVE OnlyFires'
  BY <1>1, <1>5 DEF GuardStep, stallAbort, forceReleaseStalledRun, idVars, contVars, hostVars,
     callVars, cacheVars
<1>6. ASSUME NEW i \in Instances, NEW k \in Ticks, FireDue(i, k) PROVE OnlyFires'
  <2>0. PICK started \in SUBSET Runs : Begun(i, k, started)
    BY <1>6, FireDueBegins
  <2>1. UNCHANGED <<mode, pendingReplans, mutation>>
    BY <2>0 DEF Begun
  <2>2. \A j \in Instances, l \in Ticks : tick'[j][l].pc \in {"idle", "sync", "sweep", "pick"}
    BY <2>0, <1>a DEF Begun, OnlyFires, CallTypeOK, IdleTick
  <2>3. \A r \in started : source'[r] = "automatic" /\ frame'[r].token \in Nat
    <3> SUFFICES ASSUME NEW r \in started PROVE source'[r] = "automatic" /\ frame'[r].token \in Nat
      OBVIOUS
    <3>1. /\ source'[r] = "automatic" /\ target'[r] \in Due(i)
          /\ frame'[r] = [NoFrame EXCEPT !.token = activeSchedules[i][target'[r]]]
      BY <2>0 DEF Begun
    <3>2. activeSchedules[i][target'[r]] \in Nat
      BY <3>1, <1>a DEF Due, CacheTypeOK, Fires
    <3> QED
      BY <3>1, <3>2 DEF NoFrame
  <2>4. \A r \in Runs \ started :
            pc'[r] = pc[r] /\ frame'[r] = frame[r] /\ source'[r] = source[r]
    BY <2>0 DEF Begun
  <2> QED
    BY <1>a, <2>1, <2>2, <2>3, <2>4 DEF OnlyFires
<1>7. ASSUME NEW i \in Instances, NEW k \in Ticks, TickStep(i, k), ~FireDue(i, k) PROVE OnlyFires'
  <2>1. /\ UNCHANGED pendingReplans /\ tick'[i][k].pc \in {"idle", "sync", "sweep", "pick"}
        /\ \A j \in Instances, l \in Ticks : j # i \/ l # k => tick'[j][l] = tick[j][l]
    BY <1>7, UndisturbedTick DEF ClaimInv
  <2>2. UNCHANGED <<idVars, contVars, mode, mutation>>
    BY <1>7, OtherTickSteps
  <2> QED
    BY <1>a, <2>1, <2>2 DEF OnlyFires, idVars, contVars
<1>8. ASSUME NEW i, NEW s, NEW shape, NEW o, create(i, s, shape, o) PROVE OnlyFires'
  BY <1>1, <1>8 DEF create, idVars, contVars, hostVars, callVars
<1>9. CASE UNCHANGED <<dbVars, idVars, contVars, attemptVars, cacheVars, hostVars, callVars>>
  BY <1>1, <1>9 DEF idVars, contVars, hostVars, callVars, cacheVars
<1> QED
  BY <1>2, <1>3, <1>4, <1>5, <1>6, <1>7, <1>8, <1>9, UndisturbedSteps

\* What the sweep would find stays cared for.
LEMMA NextRunningIsCared ==
    ASSUME Undisturbed, IInv, RowInv, ClaimInv, [Next]_vars PROVE RunningIsCared'
<1>a. /\ DbTypeOK /\ ContTypeOK /\ AttemptTypeOK /\ RunningIsCared
      /\ \A r \in controllers : pc[r] = "run"
      /\ \A r \in Runs : pc[r] \notin {"load", "bookkeep", "stamp"}
  BY DEF ClaimInv, IInv, RunInv, RegistryConsistent, TypeOK, OnlyFires, RunsServe, SourcesFit
<1> DEFINE Cared(r) == runRow'[r] = "running" =>
               r \in controllers' \/ force'[r].stage = "write" \/ pc'[r] \in {"undo", "finalize"}
<1> SUFFICES ASSUME NEW q \in Runs PROVE Cared(q)
  BY DEF RunningIsCared
<1>1. ASSUME runRow'[q] = runRow[q], pc'[q] = pc[q], force'[q] = force[q],
             q \in controllers => q \in controllers'
      PROVE Cared(q)
  BY <1>1, <1>a DEF RunningIsCared
<1>2. ASSUME NEW r \in Runs, NEW o \in Replies, FireCall(r, o) PROVE Cared(q)
  <2>1. /\ pc[r] \in PreRegister \cup Settling /\ force[r].stage = "idle"
        /\ Ends(r) \/ Starts(r) \/ GoesOn(r)
        /\ \A x \in Runs \ {r} : pc'[x] = pc[x] /\ UNCHANGED <<force, abandonedRuns>>
    BY <1>2, FireStepShape
  <2>2. \A x \in Runs \ {r} : runRow'[x] = runRow[x]
    BY <1>2, <1>a DEF FireCall, claimDueFire, RefreshCache, LoadSchedule, insertRun, Bookkeep,
       deleteRunOnDefer, rearmDeferred, recordVerdict, rereadSchedule, replan, stampFinished,
       DbTypeOK, dbVars
  <2>3. CASE q # r
    BY <1>1, <2>1, <2>2, <2>3 DEF Ends, Starts, GoesOn
  <2>4. CASE q = r /\ pc[r] \notin {"insert", "undo", "finalize"}
    <3>1. UNCHANGED runRow
      BY <1>2, <2>4 DEF FireCall, claimDueFire, RefreshCache, LoadSchedule, insertRun, Bookkeep,
         deleteRunOnDefer, rearmDeferred, recordVerdict, rereadSchedule, replan, stampFinished,
         dbVars
    <3>2. pc[r] # "run"
      BY <2>1 DEF PreRegister, Settling
    <3> QED
      BY <1>a, <2>1, <2>4, <3>1, <3>2 DEF RunningIsCared
  <2>5. CASE q = r /\ insertRun(r, o)
    <3>1. o = "ok" /\ runRow[r] # "running" /\ source[r] = "automatic"
      BY <1>a, <2>1, <2>5 DEF insertRun, Reply, Undisturbed, RunningIsCared, ClaimInv, OnlyFires
    <3>2. CASE ForeignKeyHolds(r)
      <4>1. r \notin abandonedRuns
        BY <2>5 DEF insertRun, RowInv, AbandonedIsOut
      <4>2. phase[r] # "none"
        BY <2>5, <4>1 DEF insertRun, ClaimInv, RunsServe, StaysRegistered, PreRegister
      <4>3. r \in controllers'
        BY <2>5, <3>1, <3>2, <4>2 DEF insertRun, Launch
      <4> QED
        BY <2>5, <4>3
    <3>3. CASE ~ForeignKeyHolds(r)
      BY <2>5, <3>1, <3>3 DEF insertRun
    <3> QED
      BY <3>2, <3>3
  <2>6. CASE q = r /\ deleteRunOnDefer(r, o)
    BY <1>a, <2>6 DEF deleteRunOnDefer, Reply, Undisturbed, Effect, DbTypeOK
  <2>7. CASE q = r /\ recordVerdict(r, o)
    <3>1. o = "ok" /\ frame[r].verdict \in Verdicts
      BY <2>7 DEF recordVerdict, Reply, Undisturbed, IInv, RunInv, FramesReady
    <3>2. runRow'[r] # "running"
      BY <1>a, <2>7, <3>1 DEF recordVerdict, Effect, Verdicts, DbTypeOK
    <3> QED
      BY <2>7, <3>2
  <2> QED
    BY <1>2, <2>3, <2>4, <2>5, <2>6, <2>7 DEF FireCall, claimDueFire, RefreshCache, LoadSchedule,
       Bookkeep, rearmDeferred, rereadSchedule, replan, stampFinished
<1>3. ASSUME NEW r \in Runs, NEW o \in Replies, ForceCall(r, o) PROVE Cared(q)
  <2>1. /\ force[r].stage # "idle" /\ UNCHANGED <<contVars, controllers>>
        /\ \A x \in Runs \ {r} : force'[x] = force[x]
    BY <1>3, ForceStepShape
  <2>2. \A x \in Runs \ {r} : runRow'[x] = runRow[x]
    BY <1>3, <1>a DEF ForceCall, forceRecord, forceReread, forceReplan, DbTypeOK, dbVars
  <2>3. CASE q = r
    <3>1. forceRecord(r, o) => runRow'[r] # "running"
      BY <1>a DEF forceRecord, Reply, Undisturbed, Effect, DbTypeOK
    <3>2. r \notin controllers /\ pc[r] \in {"run", "done"}
      BY <2>1 DEF IInv, RunInv, ForceOwned
    <3>3. ~forceRecord(r, o) => runRow'[r] = runRow[r] /\ force[r].stage # "write"
      BY <1>3 DEF ForceCall, forceReread, forceReplan, dbVars
    <3> QED
      BY <1>a, <2>3, <3>1, <3>2, <3>3 DEF RunningIsCared
  <2> QED
    BY <1>1, <2>1, <2>2, <2>3 DEF contVars
<1>4. ASSUME NEW r \in Runs, RunnerStep(r) PROVE Cared(q)
  <2>1. /\ pc[r] = "run" /\ \A x \in Runs \ {r} : pc'[x] = pc[x]
        /\ \/ pc'[r] = "run" /\ UNCHANGED controllers
           \/ r \in abandonedRuns /\ controllers' = controllers \ {r}
           \/ pc'[r] \in {"undo", "finalize"} /\ controllers' = controllers \ {r}
        /\ UNCHANGED <<force, runRow>>
    BY <1>4, RunnerStepShape
  <2>2. r \in abandonedRuns => r \notin controllers
    BY DEF RowInv, AbandonedIsOut
  <2> QED
    BY <1>1, <1>a, <2>1, <2>2 DEF RunningIsCared
<1>5. ASSUME NEW r \in Runs, GuardStep(r) PROVE Cared(q)
  BY <1>1, <1>5, <1>a DEF GuardStep, stallAbort, forceReleaseStalledRun, contVars, dbVars,
     AttemptTypeOK
<1>6. ASSUME NEW i \in Instances, NEW k \in Ticks, FireDue(i, k) PROVE Cared(q)
  <2>0. PICK started \in SUBSET Runs : Begun(i, k, started)
    BY <1>6, FireDueBegins
  <2>1. UNCHANGED <<runRow, controllers, force>>
    BY <2>0 DEF Begun
  <2>2. IF q \in started THEN pc[q] = "unused" ELSE pc'[q] = pc[q]
    BY <2>0 DEF Begun
  <2> QED
    BY <1>1, <2>1, <2>2 DEF ClaimInv, RowsExist
<1>7. ASSUME NEW i \in Instances, NEW k \in Ticks, TickStep(i, k), ~FireDue(i, k) PROVE Cared(q)
  BY <1>1, <1>7, UndisturbedTick, OtherTickSteps DEF ClaimInv, contVars
<1>8. ASSUME NEW i, NEW s, NEW shape, NEW o, create(i, s, shape, o) PROVE Cared(q)
  BY <1>1, <1>8 DEF create, contVars, attemptVars
<1>9. CASE UNCHANGED <<dbVars, idVars, contVars, attemptVars, cacheVars, hostVars, callVars>>
  BY <1>1, <1>9 DEF dbVars, contVars, attemptVars
<1> QED
  BY <1>2, <1>3, <1>4, <1>5, <1>6, <1>7, <1>8, <1>9, UndisturbedSteps

\* A run in use keeps its schedule and its own id.
LEMMA UsedRunsStay ==
    ASSUME Undisturbed, IInv, ClaimInv, [Next]_vars, NEW r \in Runs, pc[r] # "unused"
    PROVE target'[r] = target[r] /\ source'[r] = source[r] /\ pc'[r] # "unused"
<1>1. CASE UNCHANGED <<target, source, pc>>
  BY <1>1
<1>2. ASSUME NEW q \in Runs, NEW o \in Replies, FireCall(q, o) PROVE pc'[r] # "unused"
  <2>1. /\ Ends(q) \/ Starts(q) \/ GoesOn(q)
        /\ \A x \in Runs \ {q} : pc'[x] = pc[x]
    BY <1>2, FireStepShape
  <2> QED
    BY <2>1 DEF Ends, Starts, GoesOn, PreRegister, Settling
<1>3. ASSUME NEW q \in Runs, NEW o \in Replies, FireCall(q, o) PROVE UNCHANGED <<target, source>>
  BY <1>3, FireStepShape
<1>4. ASSUME NEW q \in Runs, NEW o \in Replies, ForceCall(q, o) PROVE UNCHANGED <<target, source, pc>>
  BY <1>4, ForceStepShape DEF idVars, contVars
<1>5. ASSUME NEW q \in Runs, RunnerStep(q)
      PROVE UNCHANGED <<target, source>> /\ pc'[r] # "unused"
  BY <1>5, RunnerStepShape
<1>6. ASSUME NEW q \in Runs, GuardStep(q) PROVE UNCHANGED <<target, source, pc>>
  BY <1>6 DEF GuardStep, stallAbort, forceReleaseStalledRun, idVars, contVars
<1>7. ASSUME NEW i \in Instances, NEW k \in Ticks, FireDue(i, k)
      PROVE target'[r] = target[r] /\ source'[r] = source[r] /\ pc'[r] # "unused"
  <2>0. PICK started \in SUBSET Runs : Begun(i, k, started)
    BY <1>7, FireDueBegins
  <2>1. r \in Runs \ started
    BY <2>0 DEF Begun
  <2> QED
    BY <2>0, <2>1 DEF Begun
<1>8. ASSUME NEW i \in Instances, NEW k \in Ticks, TickStep(i, k), ~FireDue(i, k)
      PROVE UNCHANGED <<target, source, pc>>
  BY <1>8, OtherTickSteps DEF idVars, contVars
<1>9. ASSUME NEW i, NEW s, NEW shape, NEW o, create(i, s, shape, o)
      PROVE UNCHANGED <<target, source, pc>>
  BY <1>9 DEF create, idVars, contVars
<1>10. CASE UNCHANGED <<dbVars, idVars, contVars, attemptVars, cacheVars, hostVars, callVars>>
  BY <1>1, <1>10 DEF idVars, contVars
<1> QED
  BY <1>1, <1>2, <1>3, <1>4, <1>5, <1>6, <1>7, <1>8, <1>9, <1>10, UndisturbedSteps

\* A run row is inserted for a schedule that exists, and a row keeps its kind
\* while a force release holds what it read of it.
LEMMA NextRowsExist ==
    ASSUME Undisturbed, IInv, RowInv, ClaimInv, [Next]_vars PROVE RowsExist'
<1>a. /\ DbTypeOK /\ RowsExist /\ OnlyFires
      /\ \A s \in Schedules : Sole(s)
  BY DEF ClaimInv, IInv, TypeOK
<1> SUFFICES ASSUME NEW r \in Runs
             PROVE /\ runRow'[r] # "none" =>
                        pc'[r] # "unused" /\ row'[target'[r]].status # "unborn"
                   /\ force'[r].stage = "put" =>
                        force'[r].seen.recurring = row'[target'[r]].recurring
  BY DEF RowsExist
<1>1. pc[r] # "unused" => target[r] \in Schedules /\ target'[r] = target[r] /\ pc'[r] # "unused"
  BY UsedRunsStay DEF IInv, RunInv, Linked
<1>2. \A s \in Schedules : SameKind(row[s], row'[s])
  BY <1>a, UndisturbedRows
<1> DEFINE Inserted == pc[r] # "unused" /\ row[target[r]].status # "unborn"
           Reread == /\ pc[r] # "unused" /\ row[target[r]].status # "unborn"
                     /\ force'[r].seen.recurring = row[target[r]].recurring
<1>3. runRow[r] # "none" => Inserted
  BY <1>a DEF RowsExist
<1>4. force[r].stage = "put" /\ force'[r] = force[r] => Reread
  <2> SUFFICES ASSUME force[r].stage = "put", force'[r] = force[r] PROVE Reread
    OBVIOUS
  <2>1. pc[r] # "unused"
    BY DEF IInv, RunInv, ForceOwned
  <2>2. target[r] \in Schedules
    BY <1>1, <2>1
  <2>3. row[target[r]].status = "active"
    BY <1>a, <2>2 DEF Sole, Claims
  <2> QED
    BY <1>a, <2>1, <2>3 DEF RowsExist
<1>5. ASSUME runRow'[r] = runRow[r], force'[r] = force[r]
      PROVE /\ runRow'[r] # "none" => Inserted
            /\ force'[r].stage = "put" => Reread
  BY <1>3, <1>4, <1>5
<1>6. ASSUME NEW q \in Runs, NEW o \in Replies, FireCall(q, o)
      PROVE /\ runRow'[r] # "none" => Inserted
            /\ force'[r].stage = "put" => Reread
  <2>1. UNCHANGED force /\ pc[q] # "unused"
    BY <1>6, FireStepShape DEF PreRegister, Settling
  <2>2. runRow'[r] # "none" => runRow[r] # "none" \/ (r = q /\ Exists(row[target[r]]))
    BY <1>6, <1>a DEF FireCall, claimDueFire, RefreshCache, LoadSchedule, insertRun, Bookkeep,
       deleteRunOnDefer, rearmDeferred, recordVerdict, rereadSchedule, replan, stampFinished,
       DbTypeOK, dbVars, ForeignKeyHolds, Effect
  <2> QED
    BY <1>3, <1>4, <2>1, <2>2 DEF Exists
<1>7. ASSUME NEW q \in Runs, NEW o \in Replies, ForceCall(q, o)
      PROVE /\ runRow'[r] # "none" => Inserted
            /\ force'[r].stage = "put" => Reread
  <2>1. runRow'[r] # "none" => runRow[r] # "none"
    BY <1>7, <1>a DEF ForceCall, forceRecord, forceReread, forceReplan, DbTypeOK, dbVars
  <2>2. CASE q # r
    BY <1>3, <1>4, <1>7, <2>1, <2>2, ForceStepShape
  <2>3. CASE q = r
    <3>1. /\ force[r].stage # "idle"
          /\ \/ EndForce(r) \/ force'[r].stage = "get"
             \/ force'[r].seen = row[target[r]] /\ ~NoReplan(row[target[r]])
      BY <1>7, <2>3, ForceStepShape
    <3>2. EndForce(r) => force'[r].stage = "idle"
      BY DEF EndForce, NoForce, IInv, TypeOK, AttemptTypeOK
    <3>3. pc[r] # "unused"
      BY <3>1 DEF IInv, RunInv, ForceOwned
    <3> QED
      BY <1>3, <2>1, <3>1, <3>2, <3>3 DEF NoReplan
  <2> QED
    BY <2>2, <2>3
<1>8. ASSUME NEW q \in Runs, RunnerStep(q) PROVE UNCHANGED <<runRow, force>>
  BY <1>8, RunnerStepShape
<1>9. ASSUME NEW q \in Runs, GuardStep(q)
      PROVE UNCHANGED runRow /\ (force'[r] = force[r] \/ force'[r].stage # "put")
  BY <1>9 DEF GuardStep, stallAbort, forceReleaseStalledRun, dbVars, IInv, TypeOK, AttemptTypeOK
<1>10. ASSUME NEW i \in Instances, NEW k \in Ticks, FireDue(i, k) PROVE UNCHANGED <<runRow, force>>
  <2>1. PICK started \in SUBSET Runs : Begun(i, k, started)
    BY <1>10, FireDueBegins
  <2> QED
    BY <2>1 DEF Begun
<1>11. ASSUME NEW i \in Instances, NEW k \in Ticks, TickStep(i, k), ~FireDue(i, k)
       PROVE UNCHANGED <<runRow, force>>
  BY <1>11, UndisturbedTick, OtherTickSteps DEF ClaimInv
<1>12. ASSUME NEW i, NEW s, NEW shape, NEW o, create(i, s, shape, o)
       PROVE UNCHANGED <<runRow, force>>
  BY <1>12 DEF create, attemptVars
<1>13. ASSUME UNCHANGED <<dbVars, idVars, contVars, attemptVars, cacheVars, hostVars, callVars>>
       PROVE UNCHANGED <<runRow, force>>
  BY <1>13 DEF dbVars, attemptVars
<1>14. /\ runRow'[r] # "none" => Inserted
       /\ force'[r].stage = "put" => Reread
  BY <1>3, <1>5, <1>6, <1>7, <1>8, <1>9, <1>10, <1>11, <1>12, <1>13, UndisturbedSteps
<1> QED
  BY <1>1, <1>2, <1>14 DEF SameKind

\* A storage call of a fire takes a claim nobody has, keeps it, or gives it up.
LEMMA FireCallClaims ==
    ASSUME IInv, RowInv, ClaimInv, NEW r \in Runs, NEW o \in Replies, FireCall(r, o),
           NEW s \in Schedules
    PROVE Sole(s)' /\ Over(s)'
<1>a. DbTypeOK /\ ContTypeOK /\ row[s] \in Schedule /\ Sole(s) /\ Over(s)
  BY DEF ClaimInv, IInv, TypeOK, DbTypeOK
<1>b. /\ pc[r] \in PreRegister \cup Settling /\ force[r].stage = "idle"
      /\ Ends(r) \/ Starts(r) \/ GoesOn(r)
      /\ \A q \in Runs \ {r} : pc'[q] = pc[q]
      /\ UNCHANGED <<force, abandonedRuns, target, source>>
  BY FireStepShape
<1>c. source[r] = "automatic" /\ r \notin abandonedRuns
  BY <1>b DEF ClaimInv, OnlyFires, RowInv, AbandonedIsOut, PreRegister, Settling
<1>d. pc[r] \notin {"load", "bookkeep", "stamp"}
  BY <1>c DEF ClaimInv, RunsServe, SourcesFit
<1>e. Claims(r, s) <=> target[r] = s /\ pc[r] \notin {"claim", "refresh"}
  BY <1>b, <1>c DEF Claims, PreRegister, Settling
<1>f. \A q \in Runs \ {r} : Claims(q, s)' <=> Claims(q, s)
  BY <1>b DEF Claims
<1>g. ASSUME UNCHANGED runRow PROVE Executed(s)' = Executed(s)
  BY <1>g, <1>b DEF Executed
<1>1. ASSUME row'[s] = row[s], Claims(r, s)' => Claims(r, s),
             \A q \in Executed(s)' : q \in Executed(s) \/ Claims(q, s)
      PROVE Sole(s)' /\ Over(s)'
  BY <1>1, <1>a, <1>f, ClaimsKept
<1>2. ASSUME \A q \in Runs : ~Claims(q, s)', Executed(s)' \subseteq Executed(s),
             row'[s].recurring = row[s].recurring,
             \/ Executed(s) = {} \/ row[s].recurring
             \/ row'[s].status = "expired" \/ row'[s].nextFireAt = None
      PROVE Sole(s)' /\ Over(s)'
  BY <1>2, <1>a, ClaimsLeft
<1>3. \A q \in Runs \ {r} : runRow'[q] = runRow[q]
  BY <1>a DEF FireCall, claimDueFire, RefreshCache, LoadSchedule, insertRun, Bookkeep,
     deleteRunOnDefer, rearmDeferred, recordVerdict, rereadSchedule, replan, stampFinished,
     DbTypeOK, dbVars
<1>4. ASSUME Exit(r) PROVE ~Claims(r, s)'
  BY <1>4, <1>b, ExitEnds DEF Ends, Claims
<1>5. ASSUME Exit(r), Claims(r, s) PROVE \A q \in Runs : ~Claims(q, s)'
  BY <1>4, <1>5, <1>a, <1>f DEF Sole
<1>6. CASE target[r] # s
  <2>1. row'[s] = row[s]
    BY <1>6, <1>a DEF FireCall, claimDueFire, RefreshCache, LoadSchedule, insertRun, Bookkeep,
       deleteRunOnDefer, rearmDeferred, recordVerdict, rereadSchedule, replan, stampFinished,
       DbTypeOK, dbVars
  <2>2. ~Claims(r, s)' /\ r \notin Executed(s)'
    BY <1>6, <1>b DEF Claims, Executed
  <2>3. \A q \in Executed(s)' : q \in Executed(s)
    BY <2>2, <1>3, <1>b DEF Executed
  <2> QED
    BY <1>1, <2>1, <2>2, <2>3
<1>7. CASE target[r] = s
  <2>1. CASE claimDueFire(r, o)
    <3>1. CASE ClaimMatches(s, frame[r].token) /\ o # "lost"
      <4>1. frame[r].token \in Nat
        BY <2>1 DEF claimDueFire, ClaimInv, OnlyFires
      <4>2. row[s].status = "active" /\ row[s].nextFireAt # None
        BY <3>1, <4>1, TimingAssumption DEF ClaimMatches
      <4>3. \A q \in Runs : ~Claims(q, s)
        BY <1>a, <4>2 DEF Sole
      <4>4. Executed(s) = {} \/ row[s].recurring
        BY <1>a, <4>2 DEF Over
      <4>5. row' = [row EXCEPT ![s].nextFireAt = None] /\ UNCHANGED runRow
        BY <1>7, <2>1, <3>1 DEF claimDueFire
      <4>6. /\ row'[s].nextFireAt = None /\ row'[s].status = "active"
            /\ row'[s].recurring = row[s].recurring
        BY <1>a, <4>2, <4>5 DEF DbTypeOK, Schedule
      <4>7. Sole(s)'
        BY <1>f, <4>3, <4>6 DEF Sole
      <4>8. Over(s)'
        BY <1>g, <4>4, <4>5, <4>6 DEF Over
      <4> QED
        BY <4>7, <4>8
    <3>2. CASE ~(ClaimMatches(s, frame[r].token) /\ o # "lost")
      <4>1. UNCHANGED <<row, runRow>>
        BY <1>7, <2>1, <3>2 DEF claimDueFire
      <4>2. pc'[r] \in {"refresh", "done"}
        BY <1>7, <1>a, <2>1, <3>2 DEF claimDueFire, Goto, Exit, ContTypeOK
      <4>3. ~Claims(r, s)'
        BY <1>b, <4>2 DEF Claims
      <4> QED
        BY <1>1, <1>g, <4>1, <4>3
    <3> QED
      BY <3>1, <3>2
  <2>2. CASE RefreshCache(r, o)
    BY <1>1, <1>4, <1>g, <2>2 DEF RefreshCache, dbVars
  <2>3. CASE insertRun(r, o)
    <3>1. r \notin Executed(s)'
      <4>1. runRow'[r] \in {"running", runRow[r]}
        BY <1>a, <2>3 DEF insertRun, Effect, DbTypeOK
      <4>2. runRow[r] \notin Verdicts
        BY <1>c, <2>3 DEF insertRun, RowInv, VerdictIsFinal
      <4> QED
        BY <4>1, <4>2 DEF Executed, Verdicts
    <3>2. \A q \in Executed(s)' : q \in Executed(s)
      BY <1>3, <1>b, <3>1 DEF Executed
    <3>3. Claims(r, s) /\ row' = row
      BY <1>7, <1>e, <2>3 DEF insertRun
    <3> QED
      BY <1>1, <3>2, <3>3
  <2>4. CASE deleteRunOnDefer(r, o) \/ recordVerdict(r, o) \/ rereadSchedule(r, o)
    <3>1. Claims(r, s) /\ row' = row
      BY <1>7, <1>e, <2>4 DEF deleteRunOnDefer, recordVerdict, rereadSchedule, dbVars
    <3>2. \A q \in Executed(s)' : q \in Executed(s) \/ q = r
      BY <1>3, <1>b DEF Executed
    <3> QED
      BY <1>1, <3>1, <3>2
  <2>5. CASE rearmDeferred(r, o)
    <3>1. Claims(r, s) /\ Exit(r) /\ UNCHANGED runRow
      BY <1>7, <1>e, <2>5 DEF rearmDeferred
    <3>2. r \notin Executed(s)
      BY <1>c, <2>5 DEF rearmDeferred, RowInv, VerdictIsFinal, Executed, Verdicts
    <3>3. Executed(s) = {} \/ row[s].recurring
      BY <1>a, <3>1, <3>2 DEF Over
    <3>4. row'[s].recurring = row[s].recurring
      BY <1>7, <1>a, <2>5 DEF rearmDeferred, Effect, DbTypeOK, Schedule
    <3> QED
      BY <1>2, <1>5, <1>g, <3>1, <3>3, <3>4
  <2>6. CASE replan(r, o)
    <3> DEFINE seen == frame[r].seen
               at == frame[r].finishedAt
    <3>1. Claims(r, s) /\ Exit(r) /\ UNCHANGED runRow /\ seen.recurring = row[s].recurring
      BY <1>7, <1>e, <2>6 DEF replan, ClaimInv, SnapshotsKeepKind
    <3>2. row' = IF Exists(row[s])
                 THEN [row EXCEPT ![s] = Effect(o, Replanned(row[s], seen, at), @)] ELSE row
      BY <1>7, <2>6 DEF replan
    <3> HIDE DEF seen, at
    <3>3. row[s].nextFireAt = None
      BY <1>a, <3>1 DEF Sole
    <3>4. /\ Replanned(row[s], seen, at).recurring = row[s].recurring
          /\ ~seen.recurring => Replanned(row[s], seen, at).nextFireAt = None
      BY <1>a, <3>3 DEF Replanned, Schedule
    <3>5. row'[s] \in {row[s], Replanned(row[s], seen, at)}
      BY <1>a, <3>2 DEF Effect, DbTypeOK
    <3>6. /\ row'[s].recurring = row[s].recurring
          /\ row[s].recurring \/ row'[s].nextFireAt = None
      BY <3>1, <3>3, <3>4, <3>5
    <3> QED
      BY <1>2, <1>5, <1>g, <3>1, <3>6
  <2> QED
    BY <1>d, <2>1, <2>2, <2>3, <2>4, <2>5, <2>6 DEF FireCall, LoadSchedule, Bookkeep, stampFinished
<1> QED
  BY <1>6, <1>7

\* A force release keeps the claim of its fire until the schedule is replanned.
LEMMA ForceCallClaims ==
    ASSUME Undisturbed, IInv, RowInv, ClaimInv, NEW r \in Runs, NEW o \in Replies,
           ForceCall(r, o), NEW s \in Schedules
    PROVE Sole(s)' /\ Over(s)'
<1>a. DbTypeOK /\ row[s] \in Schedule /\ Sole(s) /\ Over(s)
  BY DEF ClaimInv, IInv, TypeOK, DbTypeOK
<1>b. /\ force[r].stage # "idle" /\ \A q \in Runs \ {r} : force'[q] = force[q]
      /\ UNCHANGED <<idVars, contVars, abandonedRuns>>
  BY ForceStepShape
<1>c. \A q \in Runs \ {r} : Claims(q, s)' <=> Claims(q, s)
  BY <1>b DEF idVars, contVars, Claims
<1>d. target[r] = s <=> Claims(r, s)
  BY <1>b DEF Claims
<1>e. r \in abandonedRuns \/ pc[r] = "done"
  BY <1>b DEF IInv, RunInv, ForceOwned
<1>f. o = "ok"
  BY DEF Undisturbed, ForceCall, forceRecord, forceReread, forceReplan, WriteStalledReplan, Reply
<1>g. \A q \in Runs \ {r} : runRow'[q] = runRow[q]
  BY <1>a DEF ForceCall, forceRecord, forceReread, forceReplan, DbTypeOK, dbVars
<1>h. \A q \in Executed(s)' : q \in Executed(s) \/ Claims(q, s)
  BY <1>b, <1>d, <1>g DEF Executed, idVars
<1>1. CASE target[r] # s \/ ~forceReplan(r, o)
  <2>1. row'[s] = row[s]
    BY <1>1, <1>a DEF ForceCall, forceRecord, forceReread, forceReplan, WriteStalledReplan,
       DbTypeOK, dbVars
  <2>2. Claims(r, s)' => Claims(r, s)
    BY <1>b, <1>d DEF Claims, idVars
  <2> QED
    BY <1>a, <1>c, <1>h, <2>1, <2>2, ClaimsKept
<1>2. CASE target[r] = s /\ forceReplan(r, o)
  <2>1. /\ EndForce(r) /\ UNCHANGED runRow /\ force[r].stage = "put"
        /\ row' = IF Exists(row[s])
                  THEN [row EXCEPT ![s] = Effect(o, StalledReplan(row[s], force[r].seen,
                                                                  force[r].at), @)] ELSE row
    BY <1>2 DEF forceReplan, WriteStalledReplan
  <2>2. force'[r].stage = "idle"
    BY <2>1 DEF EndForce, NoForce, IInv, TypeOK, AttemptTypeOK
  <2>3. \A q \in Runs : ~Claims(q, s)'
    BY <1>2, <1>a, <1>b, <1>c, <1>d, <1>e, <2>2 DEF Sole, Claims, contVars
  <2>4. Executed(s)' = Executed(s)
    BY <1>b, <2>1 DEF Executed, idVars
  <2>5. force[r].seen.recurring = row[s].recurring /\ row[s].status = "active"
    BY <1>2, <1>a, <1>d, <2>1 DEF ClaimInv, RowsExist, Sole
  <2>6. /\ row'[s].recurring = row[s].recurring
        /\ row[s].recurring \/ row'[s].status = "expired"
    BY <1>a, <1>f, <2>1, <2>5 DEF Effect, StalledReplan, Exists, DbTypeOK, Schedule
  <2> QED
    BY <1>a, <2>3, <2>4, <2>6, ClaimsLeft
<1> QED
  BY <1>1, <1>2

\* Every other step leaves the rows alone, or creates one.
LEMMA NextClaims ==
    ASSUME Undisturbed, IInv, RowInv, ClaimInv, [Next]_vars, NEW s \in Schedules
    PROVE Sole(s)' /\ Over(s)'
<1>a. /\ DbTypeOK /\ Sole(s) /\ Over(s) /\ RowsExist /\ OnlyFires /\ RunningIsCared
  BY DEF ClaimInv, IInv, TypeOK
<1>1. ASSUME UNCHANGED <<row, runRow, target>>, \A q \in Runs : Claims(q, s)' => Claims(q, s)
      PROVE Sole(s)' /\ Over(s)'
  <2>1. Executed(s)' = Executed(s)
    BY <1>1 DEF Executed
  <2> QED
    BY <1>1, <1>a, <2>1, ClaimsKept
<1>2. ASSUME NEW r \in Runs, RunnerStep(r) PROVE Sole(s)' /\ Over(s)'
  <2>1. /\ pc[r] = "run" /\ \A q \in Runs \ {r} : pc'[q] = pc[q]
        /\ \/ pc'[r] = "run" /\ UNCHANGED abandonedRuns
           \/ pc'[r] = "done" /\ abandonedRuns' = abandonedRuns \ {r}
           \/ r \notin abandonedRuns /\ UNCHANGED abandonedRuns
        /\ UNCHANGED <<force, target, source, row, runRow>>
    BY <1>2, RunnerStepShape
  <2>2. \A q \in Runs : Claims(q, s)' => Claims(q, s)
    BY <2>1 DEF Claims
  <2> QED
    BY <1>1, <2>1, <2>2
<1>3. ASSUME NEW r \in Runs, GuardStep(r) PROVE Sole(s)' /\ Over(s)'
  <2>1. UNCHANGED <<row, runRow, idVars, contVars>>
    BY <1>3 DEF GuardStep, stallAbort, forceReleaseStalledRun, dbVars
  <2>2. CASE stallAbort(r)
    BY <1>1, <2>1, <2>2, UnmovedClaims DEF stallAbort, idVars
  <2>3. CASE forceReleaseStalledRun(r)
    <3>1. /\ r \in controllers /\ abandonedRuns' = abandonedRuns \cup {r}
          /\ \A q \in Runs \ {r} : force'[q] = force[q]
      BY <2>3 DEF forceReleaseStalledRun, IInv, TypeOK, AttemptTypeOK
    <3>2. pc[r] = "run" /\ r \notin abandonedRuns /\ source[r] = "automatic"
      BY <1>a, <3>1 DEF OnlyFires, IInv, RunInv, RegistryConsistent, RowInv, AbandonedIsOut
    <3>3. \A q \in Runs : Claims(q, s)' => Claims(q, s)
      BY <2>1, <3>1, <3>2 DEF Claims, idVars, contVars
    <3> QED
      BY <1>1, <2>1, <3>3 DEF idVars
  <2> QED
    BY <1>3, <2>2, <2>3 DEF GuardStep
<1>4. ASSUME NEW i \in Instances, NEW k \in Ticks, FireDue(i, k) PROVE Sole(s)' /\ Over(s)'
  <2>0. PICK started \in SUBSET Runs : Begun(i, k, started)
    BY <1>4, FireDueBegins
  <2>1. \A r \in started : pc[r] = "unused" /\ pc'[r] = "claim"
    BY <2>0 DEF Begun
  <2>2. \A r \in Runs \ started :
            pc'[r] = pc[r] /\ source'[r] = source[r] /\ target'[r] = target[r]
    BY <2>0 DEF Begun
  <2>3. UNCHANGED <<row, runRow, force, abandonedRuns>>
    BY <2>0 DEF Begun
  <2>4. \A r \in started : force[r].stage = "idle" /\ runRow[r] = "none"
    BY <1>a, <2>1 DEF RowsExist, IInv, RunInv, ForceOwned
  <2>5. \A q \in Runs : Claims(q, s)' => Claims(q, s)
    BY <2>1, <2>2, <2>3, <2>4 DEF Claims
  <2>6. Executed(s)' \subseteq Executed(s)
    BY <2>2, <2>3, <2>4 DEF Executed
  <2> QED
    BY <1>a, <2>3, <2>5, <2>6, ClaimsKept
<1>5. ASSUME NEW i \in Instances, NEW k \in Ticks, TickStep(i, k), ~FireDue(i, k)
      PROVE Sole(s)' /\ Over(s)'
  <2>1. UNCHANGED <<row, runRow, idVars, contVars, force, abandonedRuns>>
    BY <1>5, <1>a, OtherTickSteps, UndisturbedTick
  <2> QED
    BY <1>1, <2>1, UnmovedClaims DEF idVars
<1>6. ASSUME NEW i \in Instances, NEW c \in Schedules, NEW shape, NEW o, create(i, c, shape, o)
      PROVE Sole(s)' /\ Over(s)'
  <2>1. UNCHANGED <<runRow, idVars, contVars, force, abandonedRuns>> /\ row[c].status = "unborn"
    BY <1>6 DEF create, attemptVars
  <2>2. \A q \in Runs : Claims(q, s)' <=> Claims(q, s)
    BY <2>1, UnmovedClaims
  <2>3. Executed(s)' = Executed(s)
    BY <2>1 DEF Executed, idVars
  <2>4. CASE s = c
    <3>1. (\A q \in Runs : ~Claims(q, s)) /\ Executed(s) = {}
      BY <1>a, <2>1, <2>4 DEF Sole, RowsExist, Executed
    <3> QED
      BY <2>2, <2>3, <3>1 DEF Sole, Over
  <2>5. CASE s # c
    <3>1. row'[s] = row[s]
      BY <1>6, <1>a, <2>5 DEF create, DbTypeOK
    <3> QED
      BY <1>a, <2>2, <2>3, <3>1, ClaimsKept
  <2> QED
    BY <2>4, <2>5
<1>7. CASE UNCHANGED <<dbVars, idVars, contVars, attemptVars, cacheVars, hostVars, callVars>>
  BY <1>1, <1>7, UnmovedClaims DEF dbVars, idVars, attemptVars
<1> QED
  BY <1>2, <1>3, <1>4, <1>5, <1>6, <1>7, UndisturbedSteps, FireCallClaims, ForceCallClaims

\* Every instance has started and nothing has happened yet.
LEMMA InitClaims == InitUp => IInv /\ RowInv /\ ClaimInv
<1> SUFFICES ASSUME InitUp PROVE IInv /\ RowInv /\ ClaimInv
  OBVIOUS
<1>1. IInv
  <2>1. AllUp \in [Instances -> {"new", "up"}]
    BY DEF AllUp
  <2> QED
    BY <2>1, FreshInvariant DEF InitUp
<1>2. /\ \A r \in Runs : /\ pc[r] = "unused" /\ frame[r].verdict = None /\ runRow[r] = "none"
                         /\ force[r].stage = "idle" /\ owner[r] = None
      /\ signalled = {} /\ abandonedRuns = {}
      /\ \A i \in Instances : /\ mode[i] = "up" /\ pendingReplans[i] = {}
                              /\ \A s \in Schedules : mutation[i][s] = NoMutation
                              /\ \A k \in Ticks : tick[i][k].pc = "idle"
  BY DEF InitUp, AllUp, InitWith, NoFrame, NoForce, IdleTick
<1>3. RowInv /\ RunningIsCared /\ RowsExist /\ OnlyFires
  BY <1>2 DEF RowInv, AbandonedIsOut, VerdictIsFinal, Verdicts, RunningIsCared, RowsExist, OnlyFires
<1>4. RunsServe /\ TicksArm /\ SnapshotsKeepKind
  BY <1>2, SchedulerAssumption DEF RunsServe, StaysRegistered, SignalledIsOut,
     UndecidedBeforeSettle, SourcesFit, PreRegister, TicksArm, SnapshotsKeepKind
<1>5. \A s \in Schedules : Sole(s) /\ Over(s)
  BY <1>2 DEF Sole, Over, Claims, Executed
<1> QED
  BY <1>1, <1>3, <1>4, <1>5 DEF ClaimInv

\* The claims of the fires are kept by every step.
LEMMA ClaimInvariant == ASSUME Undisturbed PROVE SpecUp => [](IInv /\ RowInv /\ ClaimInv)
<1>1. IInv /\ [Next]_vars => IInv'
  BY NextTypes, NextRuns, NextReady DEF IInv
<1>2. IInv /\ RowInv /\ [Next]_vars => RowInv'
  BY NextRows
<1>3. ASSUME IInv, RowInv, ClaimInv, [Next]_vars PROVE ClaimInv'
  <2>1. MaxDowns = 0 /\ RunsServe /\ TicksArm /\ SnapshotsKeepKind /\ OnlyFires
    BY <1>3 DEF Undisturbed, ClaimInv
  <2>2. MutationsArm
    BY <2>1 DEF OnlyFires, MutationsArm, NoMutation
  <2>3. RunsServe' /\ TicksArm' /\ SnapshotsKeepKind'
    BY <1>3, <2>1, <2>2, NextServes, NextTicks, NextSnapshots
  <2>4. OnlyFires' /\ RunningIsCared' /\ RowsExist'
    BY <1>3, NextOnlyFires, NextRunningIsCared, NextRowsExist
  <2>5. \A s \in Schedules : Sole(s)' /\ Over(s)'
    BY <1>3, NextClaims
  <2> QED
    BY <2>3, <2>4, <2>5 DEF ClaimInv
<1>4. IInv /\ RowInv /\ ClaimInv /\ [Next]_vars => ClaimInv'
  BY <1>3
<1> QED
  BY <1>1, <1>2, <1>4, InitClaims, PTL DEF SpecUp

\* A set whose elements are all the same has at most one.
LEMMA AtMostOne ==
    ASSUME NEW S, \A a, b \in S : a = b PROVE Cardinality(S) <= 1
<1>1. CASE S = {}
  BY <1>1, FS_EmptySet
<1>2. CASE S # {}
  <2>1. PICK a \in S : S = {a}
    BY <1>2
  <2> QED
    BY <2>1, FS_Singleton
<1> QED
  BY <1>1, <1>2

\* The compare-and-swap keeps two instances on one database, and two ticks of
\* one instance, from running a schedule twice at once: whatever stalls, is
\* force-released, deferred or claimed from a stale cache, and whether a claim,
\* a deferral or a replan fails, no schedule has two holders.
THEOREM ClaimsAreExclusive == ASSUME Undisturbed PROVE SpecUp => []ExclusiveClaim
<1>1. ClaimInv => ExclusiveClaim
  <2> SUFFICES ASSUME ClaimInv, NEW s \in Schedules PROVE Cardinality(Holders(s)) <= 1
    BY DEF ExclusiveClaim
  <2>1. \A q, r \in Holders(s) : q = r
    BY DEF ClaimInv, Sole, Claims, Holders
  <2> QED
    BY <2>1, AtMostOne
<1> QED
  BY <1>1, ClaimInvariant, PTL

\* A one-shot schedule is run to an end at most once, by whichever instance.
THEOREM OneShotsFireOnce == ASSUME Undisturbed PROVE SpecUp => []OnceFiresOnce
<1>1. ClaimInv => OnceFiresOnce
  <2> SUFFICES ASSUME ClaimInv, NEW s \in Schedules, ~row[s].recurring
               PROVE Cardinality(Executed(s)) <= 1
    BY DEF OnceFiresOnce
  <2>1. \A q, r \in Executed(s) : q = r
    BY DEF ClaimInv, Over, Executed
  <2> QED
    BY <2>1, AtMostOne
<1> QED
  BY <1>1, ClaimInvariant, PTL

-----------------------------------------------------------------------------
(* What an instance caches: CacheInv *)

\* A step that is not about schedule s, as instance i sees it.
Elsewhere(i, s) ==
    /\ Cached(s)' = Cached(s)
    /\ Claiming(s) => Claiming(s)'
    /\ now' = now /\ activeSchedules'[i][s] = activeSchedules[i][s]
    /\ boot'[i][s] = boot[i][s]

\* The three ways to keep a fire time covered: to leave it alone, to cache what
\* the database holds, and to cache what is due anyway.
LEMMA ElsewhereIsCovered ==
    ASSUME NEW i, NEW s, Covered(i, s), Elsewhere(i, s) PROVE Covered(i, s)'
<1>1. InTime(i, s) => InTime(i, s)'
  BY DEF Elsewhere, InTime
<1> QED
  BY <1>1 DEF Covered, Elsewhere

LEMMA ToldIsCovered ==
    ASSUME TypeOK', NEW i, NEW s \in Schedules, activeSchedules'[i][s] = Cached(s)'
    PROVE Covered(i, s)'
<1>1. Cached(s)' \notin {None, Absent} => Cached(s)' \in Nat
  BY DEF TypeOK, DbTypeOK, Schedule, Cached
<1>2. Cached(s)' \notin {None, Absent} => Cached(s)' <= Cached(s)'
  BY <1>1
<1> QED
  BY <1>2 DEF Covered, InTime

LEMMA DueIsCovered ==
    ASSUME NEW i, NEW s, activeSchedules'[i][s] \in Nat, activeSchedules'[i][s] <= now'
    PROVE Covered(i, s)'
<1>1. activeSchedules'[i][s] \notin {None, Absent}
  BY TimingAssumption, SchedulerAssumption
<1> QED
  BY <1>1 DEF Covered, InTime

\* A run that stands neither at its claim nor at its refresh leaves none.
LEMMA ClaimingKept ==
    ASSUME NEW r \in Runs, NEW s, UNCHANGED target,
           \A q \in Runs \ {r} : pc'[q] = pc[q],
           pc[r] \notin {"claim", "refresh"} \/ target[r] # s
    PROVE Claiming(s) => Claiming(s)'
  BY DEF Claiming

\* Writing one row leaves what is cached of the others alone.
LEMMA OtherRowsCached ==
    ASSUME TypeOK, NEW s \in Schedules, NEW after,
           row' = [row EXCEPT ![s] = after] \/ row' = row,
           NEW t \in Schedules \ {s}
    PROVE Cached(t)' = Cached(t)
  BY DEF TypeOK, DbTypeOK, Cached

\* A call that is not fallible answers.
LEMMA AnswersAlways ==
    ASSUME NEW site, NEW o, site \notin Fallible, Reply(site, o) PROVE o = "ok"
  BY DEF Reply

\* No call of a fire leads back to its claim.
LEMMA FireCallLeavesClaim ==
    ASSUME IInv, NEW r \in Runs, NEW o \in Replies, FireCall(r, o)
    PROVE pc'[r] # "claim" /\ UNCHANGED <<now, mode, boot>>
<1>a. ContTypeOK
  BY DEF IInv, TypeOK
<1>1. UNCHANGED <<now, mode, boot>>
  BY DEF FireCall, claimDueFire, RefreshCache, LoadSchedule, insertRun, Bookkeep,
     deleteRunOnDefer, rearmDeferred, recordVerdict, rereadSchedule, replan, stampFinished,
     hostVars
<1>2. Exit(r) => pc'[r] # "claim"
  BY <1>a DEF Exit, ContTypeOK
<1>3. Launch(r) => pc'[r] # "claim"
  BY <1>a, <1>2 DEF Launch, Goto, ContTypeOK
<1>4. \A where \in {"refresh", "insert", "bookkeep", "defer", "replanGet", "replanPut",
                    "stamp"} : Goto(r, where) => pc'[r] # "claim"
  BY <1>a DEF Goto, ContTypeOK
<1> QED
  BY <1>1, <1>2, <1>3, <1>4 DEF FireCall, claimDueFire, RefreshCache, LoadSchedule, insertRun,
     Bookkeep, deleteRunOnDefer, rearmDeferred, recordVerdict, rereadSchedule, replan,
     stampFinished

\* A fire keeps the time it was claimed for.
LEMMA FireStepTokens ==
    ASSUME IInv, CacheInv, NEW r \in Runs, NEW o \in Replies, FireCall(r, o)
    PROVE TokensDue' /\ BootWhileArming'
  BY FireStepShape, FireCallLeavesClaim DEF CacheInv, TokensDue, BootWhileArming

\* What a fire writes to its schedule, its instance caches.
LEMMA FireStepCovers ==
    ASSUME IInv, TypeOK', CacheKept, CacheInv, NEW r \in Runs, NEW o \in Replies,
           FireCall(r, o)
    PROVE CacheCovers'
<1> SUFFICES ASSUME NEW i \in Instances \ Passive, NEW t \in Schedules,
                    mode[i] \in {"arming", "up"}
             PROVE Covered(i, t)'
  BY FireCallLeavesClaim DEF CacheCovers
<1> DEFINE s == target[r]
<1>a. /\ pc[r] \in PreRegister \cup Settling
      /\ \A q \in Runs \ {r} : pc'[q] = pc[q]
      /\ UNCHANGED <<target, now, mode, boot>>
  BY FireStepShape, FireCallLeavesClaim
<1>b. owner[r] = i /\ s \in Schedules
  BY <1>a DEF IInv, RunInv, Linked, PreRegister, Settling, CacheKept
<1>c. Covered(i, t)
  BY DEF CacheInv, CacheCovers
<1>d. TypeOK /\ CacheTypeOK /\ DbTypeOK
  BY DEF IInv, TypeOK
<1>e. \A site \in {"refresh", "defer", "replan"} : Reply(site, o) => o = "ok"
  BY AnswersAlways DEF CacheKept
<1>1. ASSUME Cached(t)' = Cached(t), activeSchedules'[i][t] = activeSchedules[i][t],
             pc[r] \notin {"claim", "refresh"} \/ s # t
      PROVE Covered(i, t)'
  BY <1>1, <1>a, <1>c, ClaimingKept, ElsewhereIsCovered DEF Elsewhere
<1>2. CASE t # s
  <2>1. \E after : row' = [row EXCEPT ![s] = after] \/ row' = row
    BY DEF FireCall, claimDueFire, RefreshCache, LoadSchedule, insertRun, Bookkeep,
       deleteRunOnDefer, rearmDeferred, recordVerdict, rereadSchedule, replan, stampFinished,
       dbVars
  <2>2. Cached(t)' = Cached(t)
    BY <1>2, <1>b, <1>d, <2>1, OtherRowsCached
  <2>3. activeSchedules' = activeSchedules \/ \E when : Remember(i, s, when)
    BY <1>b DEF FireCall, claimDueFire, RefreshCache, LoadSchedule, insertRun, Bookkeep,
       deleteRunOnDefer, rearmDeferred, recordVerdict, rereadSchedule, replan, stampFinished,
       cacheVars, RememberIfActive
  <2>4. activeSchedules'[i][t] = activeSchedules[i][t]
    BY <1>2, <1>d, <2>3 DEF Remember, CacheTypeOK
  <2> QED
    BY <1>1, <1>2, <2>2, <2>4
<1>3. CASE t = s
  <2>1. CASE claimDueFire(r, o)
    <3>1. CASE o # "lost" /\ ClaimMatches(s, frame[r].token)
      BY <1>3, <1>b, <1>d, <2>1, <3>1 DEF claimDueFire, Covered, Cached, DbTypeOK
    <3>2. CASE o = "ok" /\ ~ClaimMatches(s, frame[r].token)
      BY <1>3, <1>a, <1>d, <2>1, <3>2 DEF claimDueFire, Goto, Covered, Claiming, IInv, TypeOK,
         ContTypeOK
    <3>3. CASE o = "lost"
      <4>1. activeSchedules'[i][t] = frame[r].token
        BY <1>3, <1>b, <1>d, <2>1, <3>3 DEF claimDueFire, Remember, CacheTypeOK
      <4>2. frame[r].token \in Nat /\ frame[r].token <= now
        BY <2>1 DEF claimDueFire, CacheInv, TokensDue
      <4> QED
        BY <1>a, <4>1, <4>2, DueIsCovered
    <3> QED
      BY <2>1, <3>1, <3>2, <3>3 DEF claimDueFire, Replies
  <2>2. CASE RefreshCache(r, o)
    <3>1. o = "ok"
      BY <2>2, <1>e DEF RefreshCache
    <3>2. row' = row /\ activeSchedules'[i][t] = Cached(t)
      BY <1>3, <1>b, <1>d, <2>2, <3>1 DEF RefreshCache, Remember, CacheTypeOK, dbVars
    <3> QED
      BY <3>2, ToldIsCovered DEF Cached
  <2>3. CASE LoadSchedule(r, o) \/ insertRun(r, o) \/ deleteRunOnDefer(r, o)
             \/ recordVerdict(r, o) \/ rereadSchedule(r, o)
    <3>1. /\ row' = row /\ activeSchedules' = activeSchedules
          /\ pc[r] \notin {"claim", "refresh"}
      BY <2>3 DEF LoadSchedule, insertRun, deleteRunOnDefer, recordVerdict, rereadSchedule,
         dbVars, cacheVars
    <3> QED
      BY <1>1, <3>1 DEF Cached
  <2>4. CASE Bookkeep(r, o) \/ stampFinished(r, o)
    <3>1. /\ activeSchedules' = activeSchedules /\ pc[r] \notin {"claim", "refresh"}
          /\ row'[s].status = row[s].status /\ row'[s].nextFireAt = row[s].nextFireAt
      BY <2>4, <1>b, <1>d DEF Bookkeep, stampFinished, cacheVars, DbTypeOK, Schedule, Effect
    <3> QED
      BY <1>1, <1>3, <3>1 DEF Cached
  <2>5. CASE rearmDeferred(r, o)
    <3> DEFINE retryAt == frame[r].finishedAt + DeferDelay
    <3>1. o = "ok" /\ pc[r] = "defer"
      BY <2>5, <1>e DEF rearmDeferred
    <3> HIDE DEF retryAt
    <3>2. /\ ~Exists(row[s]) => row' = row
          /\ Exists(row[s]) => /\ row'[s].status = row[s].status
                               /\ row'[s].nextFireAt = retryAt
          /\ RememberIfActive(i, s, retryAt)
      BY <2>5, <3>1, <1>b, <1>d DEF rearmDeferred, Effect, DbTypeOK, Schedule, retryAt
    <3>3. CASE row[s].status = "active"
      <4>1. activeSchedules'[i][s] = retryAt
        BY <3>2, <3>3, <1>b, <1>d DEF RememberIfActive, Remember, CacheTypeOK
      <4>2. Cached(s)' = retryAt
        BY <1>a, <3>2, <3>3 DEF Exists, Cached
      <4> QED
        BY <1>3, <1>a, <4>1, <4>2, ToldIsCovered
    <3>4. CASE row[s].status # "active"
      BY <1>3, <3>2, <3>4 DEF Covered, Cached
    <3> QED
      BY <3>3, <3>4
  <2>6. CASE replan(r, o)
    <3> DEFINE after == Replanned(row[s], frame[r].seen, frame[r].finishedAt)
    <3>1. o = "ok" /\ pc[r] = "replanPut"
      BY <2>6, <1>e DEF replan
    <3>2. /\ ~Exists(row[s]) => row' = row
          /\ Exists(row[s]) => /\ row'[s].status = after.status
                               /\ row'[s].nextFireAt = after.nextFireAt
          /\ IF frame[r].seen.recurring THEN RememberIfActive(i, s, after.nextFireAt)
             ELSE UNCHANGED activeSchedules
      BY <2>6, <3>1, <1>b, <1>d DEF replan, Effect, DbTypeOK
    <3>3. CASE frame[r].seen.recurring
      <4>1. after.status = row[s].status
        BY <3>3, <1>b, <1>d DEF Replanned, DbTypeOK, Schedule
      <4>2. CASE row[s].status = "active"
        <5> HIDE DEF after
        <5>1. activeSchedules'[i][s] = after.nextFireAt
          BY <3>2, <3>3, <4>2, <1>b, <1>d DEF RememberIfActive, Remember, CacheTypeOK
        <5>2. Cached(s)' = after.nextFireAt
          BY <1>a, <3>2, <4>1, <4>2 DEF Exists, Cached
        <5> QED
          BY <1>3, <1>a, <5>1, <5>2, ToldIsCovered
      <4>3. CASE row[s].status # "active"
        BY <1>3, <3>2, <4>1, <4>3 DEF Covered, Cached
      <4> QED
        BY <4>2, <4>3
    <3>4. CASE ~frame[r].seen.recurring
      <4>1. \/ after.status = "expired"
            \/ after.status = row[s].status /\ after.nextFireAt = row[s].nextFireAt
        BY <3>4, <1>b, <1>d DEF Replanned, DbTypeOK, Schedule
      <4> HIDE DEF after
      <4>2. CASE row' = row \/ (row'[s].status = row[s].status
                                /\ row'[s].nextFireAt = row[s].nextFireAt)
        BY <1>1, <1>3, <3>1, <3>2, <3>4, <4>2 DEF Cached
      <4>3. CASE row'[s].status = "expired"
        BY <1>3, <4>3 DEF Covered, Cached
      <4> QED
        BY <3>2, <4>1, <4>2, <4>3
    <3> QED
      BY <3>3, <3>4
  <2> QED
    BY <2>1, <2>2, <2>3, <2>4, <2>5, <2>6 DEF FireCall
<1> QED
  BY <1>2, <1>3

\* A write that arms a row, and caches the new time if the row is active.
LEMMA RearmCovers ==
    ASSUME TypeOK, TypeOK', NEW i \in Instances, NEW s \in Schedules, NEW after,
           after.status = row[s].status,
           row' = IF Exists(row[s]) THEN [row EXCEPT ![s] = after] ELSE row,
           RememberIfActive(i, s, after.nextFireAt),
           UNCHANGED <<now, boot, target, pc>>, NEW t \in Schedules, Covered(i, t)
    PROVE Covered(i, t)'
<1>a. DbTypeOK /\ CacheTypeOK
  BY DEF TypeOK
<1>1. CASE t # s
  <2>1. Cached(t)' = Cached(t)
    BY <1>1, <1>a, OtherRowsCached
  <2>2. activeSchedules'[i][t] = activeSchedules[i][t]
    BY <1>1, <1>a DEF RememberIfActive, Remember, CacheTypeOK
  <2> QED
    BY <2>1, <2>2, ElsewhereIsCovered DEF Elsewhere, Claiming
<1>2. CASE t = s /\ row[s].status = "active"
  <2>1. row'[s] = after
    BY <1>2, <1>a DEF Exists, DbTypeOK
  <2>2. activeSchedules'[i][s] = after.nextFireAt
    BY <1>2, <1>a DEF RememberIfActive, Remember, CacheTypeOK
  <2> QED
    BY <1>2, <2>1, <2>2, ToldIsCovered DEF Cached
<1>3. CASE t = s /\ row[s].status # "active"
  <2>1. row'[s] = after \/ row'[s] = row[s]
    BY <1>a DEF DbTypeOK
  <2> QED
    BY <1>3, <2>1 DEF Covered, Cached
<1> QED
  BY <1>1, <1>2, <1>3

\* A write that leaves the row without a next fire, whatever is cached of it.
LEMMA DisarmCovers ==
    ASSUME TypeOK, NEW i \in Instances, NEW s \in Schedules, NEW after,
           row' = [row EXCEPT ![s] = after], after.status # "active",
           NEW when, Remember(i, s, when) \/ UNCHANGED activeSchedules,
           UNCHANGED <<now, boot, target, pc>>, NEW t \in Schedules, Covered(i, t)
    PROVE Covered(i, t)'
<1>a. DbTypeOK /\ CacheTypeOK
  BY DEF TypeOK
<1>1. CASE t # s
  <2>1. Cached(t)' = Cached(t)
    BY <1>1, <1>a, OtherRowsCached
  <2>2. activeSchedules'[i][t] = activeSchedules[i][t]
    BY <1>1, <1>a DEF Remember, CacheTypeOK
  <2> QED
    BY <2>1, <2>2, ElsewhereIsCovered DEF Elsewhere, Claiming
<1>2. CASE t = s
  BY <1>2, <1>a DEF DbTypeOK, Covered, Cached
<1> QED
  BY <1>1, <1>2

\* A call that finds no active row, and writes none.
LEMMA UnarmedCovers ==
    ASSUME TypeOK, NEW i \in Instances, NEW s \in Schedules,
           row' = row, row[s].status # "active",
           NEW when, Remember(i, s, when) \/ UNCHANGED activeSchedules,
           UNCHANGED <<now, boot, target, pc>>, NEW t \in Schedules, Covered(i, t)
    PROVE Covered(i, t)'
<1>a. CacheTypeOK
  BY DEF TypeOK
<1>1. CASE t # s
  <2>1. activeSchedules'[i][t] = activeSchedules[i][t]
    BY <1>1, <1>a DEF Remember, CacheTypeOK
  <2> QED
    BY <2>1, ElsewhereIsCovered DEF Elsewhere, Claiming, Cached
<1>2. CASE t = s
  BY <1>2 DEF Covered, Cached
<1> QED
  BY <1>1, <1>2

\* A step that touches neither a fire time nor the cache.
LEMMA UntouchedCovers ==
    ASSUME NEW i, NEW t, Covered(i, t),
           UNCHANGED <<now, row, activeSchedules, boot, target, pc>>
    PROVE Covered(i, t)'
  BY ElsewhereIsCovered DEF Elsewhere, Claiming, Cached

\* The replan of a stalled claim.
LEMMA StalledReplanCovers ==
    ASSUME TypeOK, TypeOK', CacheKept, NEW i \in Instances, NEW s \in Schedules, NEW seen,
           NEW at, NEW o, WriteStalledReplan(i, s, seen, at, o),
           UNCHANGED <<now, boot, target, pc>>, NEW t \in Schedules, Covered(i, t)
    PROVE Covered(i, t)'
<1> DEFINE after == StalledReplan(row[s], seen, at)
<1>a. row[s] \in Schedule
  BY DEF TypeOK, DbTypeOK
<1>1. o = "ok"
  BY AnswersAlways DEF CacheKept, WriteStalledReplan
<1>2. /\ row' = IF Exists(row[s]) THEN [row EXCEPT ![s] = after] ELSE row
      /\ ~seen.recurring => Remember(i, s, Absent)
      /\ seen.recurring => RememberIfActive(i, s, after.nextFireAt)
  BY <1>1 DEF WriteStalledReplan, Effect
<1>3. IF seen.recurring THEN after.status = row[s].status ELSE after.status = "expired"
  BY <1>a DEF StalledReplan, Schedule
<1> HIDE DEF after
<1>4. CASE seen.recurring
  BY <1>2, <1>3, <1>4, RearmCovers
<1>5. CASE ~seen.recurring /\ Exists(row[s])
  <2>1. row' = [row EXCEPT ![s] = after] /\ after.status # "active" /\ Remember(i, s, Absent)
    BY <1>2, <1>3, <1>5
  <2> QED
    BY <2>1, DisarmCovers
<1>6. CASE ~seen.recurring /\ ~Exists(row[s])
  <2>1. row' = row /\ row[s].status # "active" /\ Remember(i, s, Absent)
    BY <1>2, <1>6 DEF Exists
  <2> QED
    BY <2>1, UnarmedCovers
<1> QED
  BY <1>4, <1>5, <1>6

\* The runner does not touch the cache.
LEMMA RunnerStepCaches ==
    ASSUME IInv, CacheInv, NEW r \in Runs, RunnerStep(r) PROVE CacheInv'
<1>1. /\ pc[r] = "run" /\ pc'[r] \in {"run", "done", "undo", "finalize"}
      /\ \A q \in Runs \ {r} : pc'[q] = pc[q] /\ frame'[q] = frame[q]
      /\ UNCHANGED <<target, row, mode, boot, activeSchedules, now>>
  BY RunnerStepShape
<1>2. TokensDue' /\ BootWhileArming'
  BY <1>1 DEF CacheInv, TokensDue, BootWhileArming
<1>3. \A s : Claiming(s) => Claiming(s)'
  BY <1>1, ClaimingKept
<1>4. CacheCovers'
  BY <1>1, <1>3, ElsewhereIsCovered DEF Elsewhere, Cached, CacheInv, CacheCovers
<1> QED
  BY <1>2, <1>4 DEF CacheInv

\* The force release caches what it writes.
LEMMA ForceStepCaches ==
    ASSUME IInv, TypeOK', CacheKept, CacheInv, NEW r \in Runs, NEW o \in Replies,
           ForceCall(r, o)
    PROVE CacheInv'
<1>1. /\ force[r].stage # "idle"
      /\ UNCHANGED <<idVars, contVars, mode, boot>>
  BY ForceStepShape
<1>2. pc[r] # "unused" /\ owner[r] \in Instances /\ target[r] \in Schedules
  BY <1>1 DEF IInv, RunInv, ForceOwned, Linked
<1>3. UNCHANGED <<now, pc, target, frame>>
  BY <1>1 DEF ForceCall, forceRecord, forceReread, forceReplan, idVars, contVars
<1>4. TokensDue' /\ BootWhileArming'
  BY <1>1, <1>3 DEF CacheInv, TokensDue, BootWhileArming
<1>5. ASSUME NEW i \in Instances \ Passive, NEW s \in Schedules, Covered(i, s)
      PROVE Covered(i, s)'
  <2>1. CASE forceReplan(r, o)
    <3>1. owner[r] = i
      BY <1>2 DEF CacheKept
    <3>2. WriteStalledReplan(i, target[r], force[r].seen, force[r].at, o)
      BY <2>1, <3>1 DEF forceReplan
    <3> QED
      BY <1>1, <1>2, <1>3, <1>5, <3>2, StalledReplanCovers DEF IInv
  <2>2. CASE forceRecord(r, o) \/ forceReread(r, o)
    <3>1. UNCHANGED <<row, activeSchedules>>
      BY <2>2 DEF forceRecord, forceReread, dbVars, cacheVars
    <3> QED
      BY <1>1, <1>3, <1>5, <3>1, UntouchedCovers
  <2> QED
    BY <2>1, <2>2 DEF ForceCall
<1> QED
  BY <1>1, <1>4, <1>5 DEF CacheInv, CacheCovers

\* The stall guard does not touch the cache.
LEMMA GuardStepCaches ==
    ASSUME CacheInv, NEW r \in Runs, GuardStep(r) PROVE CacheInv'
<1>1. UNCHANGED <<now, row, activeSchedules, boot, mode, target, pc, frame>>
  BY DEF GuardStep, stallAbort, forceReleaseStalledRun, dbVars, idVars, contVars, cacheVars,
     hostVars
<1>2. CacheCovers'
  BY <1>1, UntouchedCovers DEF CacheInv, CacheCovers
<1> QED
  BY <1>1, <1>2 DEF CacheInv, TokensDue, BootWhileArming

\* A tick that fires nothing caches what it reads or writes.
LEMMA OtherTickCovers ==
    ASSUME IInv, TypeOK', CacheKept, NEW i \in Instances, NEW k \in Ticks,
           TickStep(i, k), ~FireDue(i, k), NEW t \in Schedules, Covered(i, t)
    PROVE Covered(i, t)'
<1>a. TypeOK /\ CacheTypeOK /\ TicksReady /\ DbTypeOK
  BY DEF IInv, TypeOK
<1>b. UNCHANGED <<boot, target, pc>>
  BY OtherTickSteps DEF idVars, contVars
<1>1. ASSUME NEW o \in Replies, SyncCache(i, k, o) PROVE Covered(i, t)'
  <2>1. row' = row /\ now' = now
    BY <1>1 DEF SyncCache, dbVars
  <2>2. CASE o = "ok"
    <3>1. activeSchedules'[i][t] = Cached(t)
      BY <1>1, <1>a, <2>2 DEF SyncCache, Reloaded, CacheTypeOK
    <3> QED
      BY <2>1, <3>1, ToldIsCovered DEF Cached
  <2>3. CASE o # "ok"
    BY <1>1, <1>b, <2>1, <2>3, UntouchedCovers DEF SyncCache
  <2> QED
    BY <2>2, <2>3
<1>2. ASSUME NEW o \in Replies, reschedPut(i, k, o) PROVE Covered(i, t)'
  <2> DEFINE s == tick[i][k].cur
             next == computeNextFireAt(tick[i][k].seen, now)
             after == [row[s] EXCEPT !.nextFireAt = next]
  <2>1. s \in Schedules /\ now' = now
    BY <1>2, <1>a DEF reschedPut, TicksReady
  <2>2. o = "ok"
    BY <1>2, AnswersAlways DEF reschedPut, CacheKept
  <2>3. /\ row' = IF Exists(row[s]) THEN [row EXCEPT ![s].nextFireAt = next] ELSE row
        /\ RememberIfActive(i, s, next)
    BY <1>2, <2>2 DEF reschedPut, Effect
  <2>4. after.status = row[s].status /\ after.nextFireAt = next
    BY <2>1, <1>a DEF DbTypeOK, Schedule
  <2>5. [row EXCEPT ![s].nextFireAt = next] = [row EXCEPT ![s] = after]
    BY <2>1, <1>a DEF DbTypeOK
  <2> HIDE DEF after, next, s
  <2> QED
    BY <1>a, <1>b, <2>1, <2>3, <2>4, <2>5, RearmCovers
<1>3. ASSUME NEW o \in Replies, retryPut(i, k, o) PROVE Covered(i, t)'
  <2>1. tick[i][k].cur \in Schedules /\ now' = now
    BY <1>3, <1>a DEF retryPut, TicksReady
  <2>2. WriteStalledReplan(i, tick[i][k].cur, tick[i][k].seen, now, o)
    BY <1>3 DEF retryPut
  <2> QED
    BY <1>a, <1>b, <2>1, <2>2, StalledReplanCovers
<1>4. ASSUME UNCHANGED <<now, row, activeSchedules>> PROVE Covered(i, t)'
  BY <1>4, <1>b, UntouchedCovers
<1>5. \/ UNCHANGED <<now, row, activeSchedules>>
      \/ \E o \in Replies : SyncCache(i, k, o) \/ reschedPut(i, k, o) \/ retryPut(i, k, o)
  BY DEF TickStep, FireDue, SyncTick, RetryTick, BeginTick, sweepStaleRunningRuns, reschedCheck,
     reschedGet, retryGet, dbVars, cacheVars
<1> QED
  BY <1>1, <1>2, <1>3, <1>4, <1>5

\* A due schedule leaves the cache with a fire that will answer for it.
LEMMA TickStepCaches ==
    ASSUME IInv, TypeOK', CacheKept, CacheInv, NEW i \in Instances, NEW k \in Ticks,
           TickStep(i, k)
    PROVE CacheInv'
<1>1. CASE ~FireDue(i, k)
  <2>1. UNCHANGED <<pc, frame, mode, boot>> /\ now' = now
    BY <1>1, OtherTickSteps DEF contVars, TickStep, FireDue, SyncTick, RetryTick, BeginTick,
       SyncCache, sweepStaleRunningRuns, reschedCheck, reschedPut, retryPut, reschedGet, retryGet
  <2>2. CacheCovers'
    BY <1>1, <2>1, OtherTickCovers DEF CacheInv, CacheCovers, CacheKept
  <2> QED
    BY <2>1, <2>2 DEF CacheInv, TokensDue, BootWhileArming
<1>2. CASE FireDue(i, k)
  <2>0. PICK started \in SUBSET Runs : Begun(i, k, started)
    BY <1>2, FireDueBegins
  <2>1. UNCHANGED <<now, row, mode, boot>>
    BY <2>0 DEF Begun
  <2>2. TokensDue'
    <3>1. ASSUME NEW r \in started
          PROVE frame'[r].token = activeSchedules[i][target'[r]] /\ target'[r] \in Due(i)
      <4>1. /\ frame'[r] = [NoFrame EXCEPT !.token = activeSchedules[i][target'[r]]]
            /\ target'[r] \in Due(i)
        BY <2>0 DEF Begun
      <4> QED
        BY <4>1 DEF NoFrame
    <3>2. \A s \in Due(i) : activeSchedules[i][s] \in Nat /\ activeSchedules[i][s] <= now
      BY DEF Due, IInv, TypeOK, CacheTypeOK, Fires
    <3>3. \A r \in Runs \ started : pc'[r] = pc[r] /\ frame'[r] = frame[r]
      BY <2>0 DEF Begun
    <3> QED
      BY <2>1, <3>1, <3>2, <3>3 DEF CacheInv, TokensDue
  <2>3. ASSUME NEW s \in Schedules, Covered(i, s) PROVE Covered(i, s)'
    <3>1. \A q \in Runs : pc[q] # "unused" => pc'[q] = pc[q] /\ target'[q] = target[q]
      BY <2>0 DEF Begun
    <3>2. Claiming(s) => Claiming(s)'
      BY <3>1 DEF Claiming
    <3>3. CASE activeSchedules'[i][s] = activeSchedules[i][s]
      BY <2>1, <2>3, <3>2, <3>3, ElsewhereIsCovered DEF Elsewhere, Cached
    <3>4. CASE activeSchedules'[i][s] # activeSchedules[i][s]
      <4>1. PICK r \in started : target'[r] = s
        BY <2>0, <3>4 DEF Begun
      <4>2. pc'[r] = "claim"
        BY <2>0 DEF Begun
      <4> QED
        BY <4>1, <4>2 DEF Covered, Claiming
    <3> QED
      BY <3>3, <3>4
  <2>4. CacheCovers'
    BY <2>1, <2>3 DEF CacheInv, CacheCovers, CacheKept
  <2> QED
    BY <2>1, <2>2, <2>4 DEF CacheInv, BootWhileArming
<1> QED
  BY <1>1, <1>2

\* A call of pause() sets the status it will write when it joins the queue.
LEMMA NextPauses == ASSUME IInv, PausesPause, [Next]_vars PROVE PausesPause'
<1> SUFFICES ASSUME NEW i \in Instances, NEW s \in Schedules, mutation'[i][s].op = "pause"
             PROVE mutation'[i][s].set.status = "paused"
  BY DEF PausesPause
<1>1. CASE mutation'[i][s] \in {mutation[i][s], NoMutation}
  BY <1>1 DEF PausesPause, NoMutation
<1>2. ASSUME NEW op \in {"pause", "delete"}, NEW exempt, abortInflight(i, s, op, exempt)
      PROVE mutation'[i][s].set.status = "paused"
  <2>1. mutation'[i][s] = [op |-> op, set |-> IF op = "pause"
                                             THEN [SetNothing EXCEPT !.status = "paused"]
                                             ELSE SetNothing]
    BY <1>2 DEF abortInflight, Begin, IInv, TypeOK, CallTypeOK
  <2> QED
    BY <2>1 DEF SetNothing
<1>3. ~resumeGet(i, s) /\ \A patch \in Patches : ~updateGet(i, s, patch)
  BY DEF resumeGet, updateGet, Begin, IInv, TypeOK, CallTypeOK
<1> QED
  BY <1>1, <1>2, <1>3, MutationChanges

\* What an API call writes to a row, its instance caches.
LEMMA MutationStepCovers ==
    ASSUME IInv, TypeOK', CacheKept, PausesPause, NEW i \in Instances, NEW s \in Schedules,
           MutationStep(i, s), NEW t \in Schedules, Covered(i, t)
    PROVE Covered(i, t)' /\ UNCHANGED <<now, boot, mode, pc, frame>>
<1>0. PICK o \in Replies : pause(i, s, o) \/ delete(i, s, o) \/ writeMutation(i, s, o)
  BY DEF MutationStep
<1>a. TypeOK /\ CacheTypeOK /\ DbTypeOK /\ row[s] \in Schedule
  BY DEF IInv, TypeOK, DbTypeOK
<1>b. o = "ok" /\ UNCHANGED <<now, boot, mode, target, pc, frame>>
  BY <1>0, AnswersAlways DEF CacheKept, pause, delete, writeMutation, idVars, contVars, hostVars
<1> DEFINE after == Updated(row[s], mutation[i][s].set)
<1>1. CASE pause(i, s, o)
  <2>1. /\ row' = [row EXCEPT ![s] = after] /\ mutation[i][s].op = "pause"
        /\ IF Exists(row[s]) THEN Remember(i, s, Absent) ELSE UNCHANGED activeSchedules
    BY <1>1, <1>b DEF pause, Effect
  <2>2. after.status # "active"
    BY <2>1, <1>a, SchedulerAssumption
       DEF PausesPause, Updated, Column, Schedule, Exists, Statuses
  <2> HIDE DEF after
  <2> QED
    BY <1>a, <1>b, <2>1, <2>2, DisarmCovers
<1>2. CASE delete(i, s, o)
  <2> DEFINE gone == [row[s] EXCEPT !.status = IF Exists(row[s]) THEN "deleted" ELSE @]
  <2>1. row' = [row EXCEPT ![s].status = IF Exists(row[s]) THEN "deleted" ELSE @]
        /\ Remember(i, s, Absent)
    BY <1>2, <1>b DEF delete
  <2>2. row' = [row EXCEPT ![s] = gone] /\ gone.status # "active"
    BY <2>1, <1>a DEF DbTypeOK, Schedule, Exists
  <2> HIDE DEF gone
  <2> QED
    BY <1>a, <1>b, <2>1, <2>2, DisarmCovers
<1>3. CASE writeMutation(i, s, o)
  <2>1. /\ row' = [row EXCEPT ![s] = after]
        /\ Exists(row[s]) => Remember(i, s, IF after.status = "active" THEN after.nextFireAt
                                                                       ELSE Absent)
        /\ ~Exists(row[s]) => UNCHANGED activeSchedules
    BY <1>3, <1>b DEF writeMutation, Effect
  <2>2. ~Exists(row[s]) => after = row[s]
    BY DEF Updated
  <2> HIDE DEF after
  <2>3. CASE t # s
    <3>1. Cached(t)' = Cached(t)
      BY <1>a, <2>1, <2>3, OtherRowsCached
    <3>2. activeSchedules'[i][t] = activeSchedules[i][t]
      BY <1>a, <2>1, <2>3 DEF Remember, CacheTypeOK
    <3> QED
      BY <1>b, <3>1, <3>2, ElsewhereIsCovered DEF Elsewhere, Claiming
  <2>4. CASE t = s /\ Exists(row[s])
    <3>1. row'[s] = after
      BY <1>a, <2>1 DEF DbTypeOK
    <3>2. activeSchedules'[i][s] = IF after.status = "active" THEN after.nextFireAt ELSE Absent
      BY <1>a, <2>1, <2>4 DEF Remember, CacheTypeOK
    <3>3. activeSchedules'[i][s] = Cached(s)'
      BY <3>1, <3>2 DEF Cached
    <3> QED
      BY <1>b, <2>4, <3>3, ToldIsCovered
  <2>5. CASE t = s /\ ~Exists(row[s])
    <3>1. row'[s] = row[s] /\ row[s].status # "active"
      BY <1>a, <2>1, <2>2, <2>5 DEF DbTypeOK, Exists
    <3> QED
      BY <1>b, <2>5, <3>1 DEF Covered, Cached
  <2> QED
    BY <2>3, <2>4, <2>5
<1> QED
  BY <1>0, <1>1, <1>2, <1>3, <1>b

\* Create() caches the row it writes; the other commands write none.
LEMMA CommandCovers ==
    ASSUME IInv, TypeOK', CacheKept, NEW i \in Instances, NEW s \in Schedules,
           Command(i, s), NEW t \in Schedules, Covered(i, t)
    PROVE Covered(i, t)'
<1>a. TypeOK /\ CacheTypeOK /\ DbTypeOK
  BY DEF IInv, TypeOK
<1>1. ASSUME NEW r \in Runs, runNow(i, s, r) PROVE Covered(i, t)'
  <2>1. /\ pc[r] = "unused" /\ \A q \in Runs \ {r} : pc'[q] = pc[q] /\ target'[q] = target[q]
        /\ UNCHANGED <<now, row, activeSchedules, boot>>
    BY <1>1 DEF runNow, Goto, IInv, TypeOK, IdTypeOK, ContTypeOK, dbVars, cacheVars, hostVars
  <2>2. Claiming(t) => Claiming(t)'
    BY <2>1 DEF Claiming
  <2> QED
    BY <2>1, <2>2, ElsewhereIsCovered DEF Elsewhere, Cached
<1>2. ASSUME NEW shape \in Shapes, NEW o \in Replies, create(i, s, shape, o)
      PROVE Covered(i, t)'
  <2> DEFINE new == NewRow(shape, now)
  <2>1. o = "ok"
    BY <1>2, AnswersAlways DEF create, CacheKept
  <2>2. new.status = "active"
    BY DEF NewRow
  <2>3. /\ row' = [row EXCEPT ![s] = new] /\ Remember(i, s, new.nextFireAt)
        /\ UNCHANGED <<now, boot, target, pc>>
    BY <1>2, <2>1 DEF create, Effect, idVars, contVars, hostVars
  <2> HIDE DEF new
  <2>4. CASE t = s
    <3>1. activeSchedules'[i][t] = Cached(t)'
      BY <1>a, <2>2, <2>3, <2>4 DEF Remember, CacheTypeOK, DbTypeOK, Cached
    <3> QED
      BY <3>1, ToldIsCovered
  <2>5. CASE t # s
    <3>1. Cached(t)' = Cached(t)
      BY <1>a, <2>3, <2>5, OtherRowsCached
    <3>2. activeSchedules'[i][t] = activeSchedules[i][t]
      BY <1>a, <2>3, <2>5 DEF Remember, CacheTypeOK
    <3> QED
      BY <2>3, <3>1, <3>2, ElsewhereIsCovered DEF Elsewhere, Claiming
  <2> QED
    BY <2>4, <2>5
<1>3. CASE UNCHANGED <<now, row, activeSchedules, boot, target, pc>>
  BY <1>3, UntouchedCovers
<1> QED
  BY <1>1, <1>2, <1>3 DEF Command, abortInflight, resumeGet, updateGet, dbVars, idVars, contVars,
     cacheVars, hostVars

\* The API keeps the cache in line with the rows.
LEMMA ApiCaches ==
    ASSUME IInv, TypeOK', CacheKept, PausesPause, CacheInv, NEW i \in Instances,
           NEW s \in Schedules, MutationStep(i, s) \/ Command(i, s)
    PROVE CacheInv'
<1>1. /\ UNCHANGED <<now, boot, mode>>
      /\ \A r \in Runs : pc'[r] = "claim" => pc[r] = "claim" /\ frame'[r] = frame[r]
  BY DEF MutationStep, pause, delete, writeMutation, Command, runNow, Goto, abortInflight,
     resumeGet, updateGet, create, contVars, hostVars, IInv, TypeOK, ContTypeOK
<1>2. TokensDue' /\ BootWhileArming'
  BY <1>1 DEF CacheInv, TokensDue, BootWhileArming
<1>3. CacheCovers'
  BY <1>1, MutationStepCovers, CommandCovers DEF CacheInv, CacheCovers, CacheKept
<1> QED
  BY <1>2, <1>3 DEF CacheInv

\* start() caches what it arms, one schedule at a time.
LEMMA HostStepCaches ==
    ASSUME IInv, TypeOK', CacheKept, CacheInv, NEW i \in Instances, HostStep(i)
    PROVE CacheInv'
<1>a. TypeOK /\ CacheTypeOK /\ DbTypeOK /\ HostTypeOK /\ ContTypeOK /\ now \in Nat
  BY DEF IInv, TypeOK, BoundTypeOK
<1>b. \A j \in Instances : j = i
  BY DEF CacheKept
<1>c. \A s \in Schedules : mode[i] \in {"arming", "up"} /\ i \notin Passive => Covered(i, s)
  BY DEF CacheInv, CacheCovers
<1>d. \A s \in Schedules : boot[i][s] # Absent => mode[i] = "arming"
  BY DEF CacheInv, BootWhileArming
<1>1. CASE stop(i) \/ crash(i)
  <2>1. /\ now' = now /\ mode'[i] \in {"stopped", "dead"}
        /\ \A r \in Runs : pc'[r] = "claim" => pc[r] = "claim" /\ frame'[r] = frame[r]
    BY <1>1, <1>a DEF stop, crash, HostTypeOK, contVars
  <2>2. \A s \in Schedules : boot'[i][s] = Absent
    BY <1>1, <1>a, <1>d DEF stop, crash, HostTypeOK
  <2> QED
    BY <1>b, <2>1, <2>2 DEF CacheInv, TokensDue, BootWhileArming, CacheCovers
<1>2. ASSUME NEW o \in Replies, start(i, o) PROVE CacheInv'
  <2>1. /\ UNCHANGED <<now, boot, pc, frame>>
        /\ mode'[i] = "listing" \/ i \in Passive
        /\ mode[i] # "arming"
    BY <1>2, <1>a DEF start, HostTypeOK, contVars
  <2>2. \A s \in Schedules : boot'[i][s] = Absent
    BY <1>d, <2>1
  <2> QED
    BY <1>b, <2>1, <2>2 DEF CacheInv, TokensDue, BootWhileArming, CacheCovers
<1>3. ASSUME NEW o \in Replies, listActive(i, o) PROVE CacheInv'
  <2>0. UNCHANGED <<now, row, pc, frame, target>> /\ mode[i] = "listing"
    BY <1>3 DEF listActive, dbVars, idVars, contVars
  <2>1. TokensDue'
    BY <2>0 DEF CacheInv, TokensDue
  <2>2. CASE o # "ok"
    <3>1. mode'[i] = "stopped" /\ UNCHANGED boot
      BY <1>3, <1>a, <2>2 DEF listActive, HostTypeOK
    <3>2. \A s \in Schedules : boot'[i][s] = Absent
      BY <1>d, <2>0, <3>1
    <3> QED
      BY <1>b, <2>1, <3>1, <3>2 DEF CacheInv, BootWhileArming, CacheCovers
  <2>3. CASE o = "ok"
    <3> DEFINE plan(s) == computeNextFireAt(row[s], now)
               active == {s \in Schedules : row[s].status = "active"}
               rearm == {s \in active : plan(s) # row[s].nextFireAt}
    <3>1. /\ mode' = [mode EXCEPT ![i] = IF rearm = {} THEN "up" ELSE "arming"]
          /\ boot' = [boot EXCEPT ![i] =
                 [s \in Schedules |-> IF s \in rearm THEN plan(s) ELSE Absent]]
          /\ activeSchedules' = [activeSchedules EXCEPT ![i] =
                 [s \in Schedules |-> IF s \in active \ rearm THEN plan(s) ELSE @[s]]]
      BY <1>3, <2>3 DEF listActive
    <3>2. \A s \in Schedules : plan(s) # Absent
      BY <1>a, ComputedFireIsTime, SchedulerAssumption DEF DbTypeOK
    <3>3. ASSUME NEW s \in active \ rearm
          PROVE Cached(s) = plan(s) /\ s \in Schedules
      BY <3>3 DEF Cached
    <3>4. \A s \in Schedules \ active : Cached(s) = Absent
      BY DEF Cached
    <3>5. rearm \subseteq Schedules /\ active \subseteq Schedules
      OBVIOUS
    <3> HIDE DEF plan, active, rearm
    <3>6. \A s \in Schedules :
              /\ boot'[i][s] = IF s \in rearm THEN plan(s) ELSE Absent
              /\ s \in active \ rearm => activeSchedules'[i][s] = plan(s)
      BY <1>a, <3>1 DEF HostTypeOK, CacheTypeOK
    <3>7. mode'[i] = IF rearm = {} THEN "up" ELSE "arming"
      BY <1>a, <3>1 DEF HostTypeOK
    <3>8. BootWhileArming'
      BY <1>b, <3>6, <3>7 DEF BootWhileArming
    <3>9. ASSUME NEW s \in Schedules PROVE Covered(i, s)'
      <4>1. Cached(s)' = Cached(s)
        BY <2>0 DEF Cached
      <4>2. CASE s \in rearm
        BY <3>2, <3>6, <4>2 DEF Covered
      <4>3. CASE s \in active \ rearm
        BY <3>3, <3>6, <4>1, <4>3, ToldIsCovered
      <4>4. CASE s \notin active
        BY <3>4, <4>1, <4>4 DEF Covered
      <4> QED
        BY <4>2, <4>3, <4>4
    <3> QED
      BY <1>b, <2>1, <3>8, <3>9 DEF CacheInv, CacheCovers
  <2> QED
    BY <2>2, <2>3
<1>4. ASSUME NEW o \in Replies, NEW s \in Schedules, armOnStart(i, s, o) PROVE CacheInv'
  <2> DEFINE rest == {t \in Schedules \ {s} : boot[i][t] # Absent}
  <2>0. UNCHANGED <<now, pc, frame, target>> /\ mode[i] = "arming"
    BY <1>4 DEF armOnStart, idVars, contVars
  <2>1. TokensDue'
    BY <2>0 DEF CacheInv, TokensDue
  <2>2. CASE o # "ok"
    <3>1. mode'[i] = "stopped" /\ \A t \in Schedules : boot'[i][t] = Absent
      BY <1>4, <1>a, <2>2 DEF armOnStart, HostTypeOK
    <3> QED
      BY <1>b, <2>1, <3>1 DEF CacheInv, BootWhileArming, CacheCovers
  <2>3. CASE o = "ok"
    <3> DEFINE after == [row[s] EXCEPT !.nextFireAt = boot[i][s]]
    <3>1. /\ Remember(i, s, boot[i][s]) /\ boot' = [boot EXCEPT ![i][s] = Absent]
          /\ mode' = [mode EXCEPT ![i] = IF rest = {} THEN "up" ELSE @]
          /\ row' = IF Exists(row[s]) THEN [row EXCEPT ![s].nextFireAt = boot[i][s]] ELSE row
      BY <1>4, <2>3 DEF armOnStart, Effect
    <3>2. /\ [row EXCEPT ![s].nextFireAt = boot[i][s]] = [row EXCEPT ![s] = after]
          /\ after.status = row[s].status /\ after.nextFireAt = boot[i][s]
      BY <1>a DEF DbTypeOK, Schedule
    <3>3. /\ boot'[i][s] = Absent
          /\ \A t \in Schedules \ {s} : boot'[i][t] = boot[i][t]
          /\ mode'[i] = IF rest = {} THEN "up" ELSE "arming"
      BY <1>a, <2>0, <3>1 DEF HostTypeOK
    <3>4. BootWhileArming'
      BY <1>b, <3>3 DEF BootWhileArming
    <3> HIDE DEF after
    <3>5. ASSUME NEW t \in Schedules, i \notin Passive PROVE Covered(i, t)'
      <4>1. CASE t # s
        <5>1. Cached(t)' = Cached(t)
          BY <1>a, <3>1, <3>2, <4>1, OtherRowsCached
        <5>2. activeSchedules'[i][t] = activeSchedules[i][t]
          BY <1>a, <3>1, <4>1 DEF Remember, CacheTypeOK
        <5> QED
          BY <1>c, <2>0, <3>3, <3>5, <4>1, <5>1, <5>2, ElsewhereIsCovered DEF Elsewhere, Claiming
      <4>2. CASE t = s /\ row[s].status = "active"
        <5>1. row'[s] = after
          BY <1>a, <3>1, <3>2, <4>2 DEF Exists, DbTypeOK
        <5>2. activeSchedules'[i][s] = boot[i][s]
          BY <1>a, <3>1 DEF Remember, CacheTypeOK
        <5>3. activeSchedules'[i][s] = Cached(s)'
          BY <3>2, <4>2, <5>1, <5>2 DEF Cached
        <5> QED
          BY <4>2, <5>3, ToldIsCovered
      <4>3. CASE t = s /\ row[s].status # "active"
        <5>1. row'[s] = after \/ row'[s] = row[s]
          BY <1>a, <3>1, <3>2 DEF DbTypeOK
        <5> QED
          BY <3>2, <4>3, <5>1 DEF Covered, Cached
      <4> QED
        BY <4>1, <4>2, <4>3
    <3> QED
      BY <1>b, <2>1, <3>4, <3>5 DEF CacheInv, CacheCovers
  <2> QED
    BY <2>2, <2>3
<1> QED
  BY <1>1, <1>2, <1>3, <1>4 DEF HostStep

\* The clock goes on: what was due stays due.
LEMMA AdvanceCaches ==
    ASSUME IInv, CacheInv, Advance \/ UNCHANGED vars PROVE CacheInv'
<1>1. /\ now \in Nat /\ now' \in {now, now + 1}
      /\ UNCHANGED <<row, activeSchedules, boot, mode, target, pc, frame>>
  BY DEF IInv, TypeOK, BoundTypeOK, Advance, vars, dbVars, idVars, contVars, cacheVars, hostVars
<1>2. \A x \in Nat : x <= now => x <= now'
  BY <1>1
<1>3. TokensDue' /\ BootWhileArming'
  BY <1>1, <1>2 DEF CacheInv, TokensDue, BootWhileArming
<1>4. ASSUME NEW i \in Instances, NEW s \in Schedules, Covered(i, s) PROVE Covered(i, s)'
  <2>1. Cached(s)' = Cached(s) /\ (Claiming(s) => Claiming(s)')
    BY <1>1 DEF Cached, Claiming
  <2>2. InTime(i, s) => InTime(i, s)'
    <3>1. activeSchedules[i][s] \notin {None, Absent} => activeSchedules[i][s] \in Nat
      BY DEF IInv, TypeOK, CacheTypeOK, Fires
    <3> QED
      BY <1>1, <1>2, <2>1, <3>1 DEF InTime
  <2> QED
    BY <1>1, <1>4, <2>1, <2>2 DEF Covered
<1> QED
  BY <1>1, <1>3, <1>4 DEF CacheInv, CacheCovers

\* Every step keeps the cache in line with the rows.
LEMMA NextCaches ==
    ASSUME CacheKept, IInv, PausesPause, CacheInv, [Next]_vars PROVE CacheInv'
<1>0. TypeOK'
  BY NextTypes
<1>1. ASSUME NEW r \in Runs, FireStep(r) PROVE CacheInv'
  <2>1. PICK o \in Replies : FireCall(r, o)
    BY <1>1 DEF FireStep, FireCall
  <2> QED
    BY <1>0, <2>1, FireStepTokens, FireStepCovers DEF CacheInv
<1>2. ASSUME NEW r \in Runs, ForceStep(r) PROVE CacheInv'
  BY <1>0, <1>2, ForceStepCaches DEF ForceStep, ForceCall
<1> QED
  BY <1>0, <1>1, <1>2, RunnerStepCaches, GuardStepCaches, TickStepCaches, ApiCaches,
     HostStepCaches, AdvanceCaches DEF Next

\* At first nothing is up.
LEMMA InitCaches == Init => PausesPause /\ CacheInv
<1> SUFFICES ASSUME Init PROVE PausesPause /\ CacheInv
  OBVIOUS
<1>1. /\ pc = [r \in Runs |-> "unused"] /\ mode = [i \in Instances |-> "new"]
      /\ boot = [i \in Instances |-> [s \in Schedules |-> Absent]]
      /\ mutation = [i \in Instances |-> [s \in Schedules |-> NoMutation]]
  BY DEF Init, InitWith
<1>2. PausesPause
  BY <1>1 DEF PausesPause, NoMutation
<1> QED
  BY <1>1, <1>2 DEF CacheInv, TokensDue, BootWhileArming, CacheCovers

\* At rest an instance that is alone on its database misses no fire the database
\* holds, as long as the calls that arm a schedule answer: whichever fires,
\* ticks, API calls and restarts have interleaved to write its next fire time.
THEOREM FiresAreNotMissed == ASSUME CacheKept PROVE Spec => []CacheMissesNoFire
<1>1. IInv /\ PausesPause /\ CacheInv /\ [Next]_vars => (IInv /\ PausesPause /\ CacheInv)'
  BY NextTypes, NextRuns, NextReady, NextPauses, NextCaches DEF IInv
<1>2. Init => IInv /\ PausesPause /\ CacheInv
  BY InitInvariant, InitCaches
<1>3. IInv /\ CacheInv => CacheMissesNoFire
  <2> SUFFICES ASSUME CacheInv, NEW i \in Instances \ Passive, NEW s \in Schedules,
                      Quiescent(i), Cached(s) \notin {None, Absent}
               PROVE InTime(i, s)
    BY DEF CacheMissesNoFire
  <2>1. mode[i] = "up" /\ \A r \in Runs : pc[r] \in {"unused", "done"}
    BY DEF Quiescent
  <2>2. ~Claiming(s) /\ boot[i][s] = Absent
    BY <2>1 DEF Claiming, CacheInv, BootWhileArming
  <2> QED
    BY <2>1, <2>2 DEF CacheInv, CacheCovers, Covered
<1> QED
  BY <1>1, <1>2, <1>3, PTL DEF Spec
=============================================================================
