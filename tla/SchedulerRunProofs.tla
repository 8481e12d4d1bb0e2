------------------------- MODULE SchedulerRunProofs -------------------------
(***************************************************************************)
(* The runs of the schedule engine, for every number of instances,         *)
(* schedules, runs and overlapping ticks and for every limit: the phases   *)
(* of an attempt and the concurrency gate, then the verdicts of the runs   *)
(* and the attempts that a force release closes.                           *)
(***************************************************************************)
EXTENDS SchedulerProofs, FiniteSetTheorems

-----------------------------------------------------------------------------
(* How the phase of an attempt changes *)

\* A change that neither begins an attempt nor gives a slot back to one.
Calm(r) ==
    \/ phase'[r] \in {"none", phase[r]}
    \/ phase'[r] = "persisting" /\ phase[r] \in EntryPhases
    \/ phase'[r] = "running"    /\ phase[r] = "persisting"
    \/ phase'[r] = "queued"     /\ phase[r] = "running"
    \/ phase'[r] = "cancelling" /\ phase[r] = "queued"
    \/ phase'[r] = "finalizing" /\ phase[r] \in {"running", "queued", "cancelling"}

\* The continuation of a fire moves its own attempt, and calmly.
LEMMA FireStepIsCalm ==
    ASSUME IInv, NEW r \in Runs, FireStep(r), NEW q \in Runs PROVE Calm(q)
<1>0. PICK o \in Replies :
          \/ claimDueFire(r, o) \/ RefreshCache(r, o)
          \/ LoadSchedule(r, o) \/ insertRun(r, o) \/ Bookkeep(r, o)
          \/ deleteRunOnDefer(r, o) \/ rearmDeferred(r, o)
          \/ recordVerdict(r, o) \/ rereadSchedule(r, o) \/ replan(r, o)
          \/ stampFinished(r, o)
  BY DEF FireStep
<1>a. AttemptTypeOK /\ PhaseFollowsAwait
  BY DEF IInv, RunInv, TypeOK
<1>1. CASE Exit(r)
  BY <1>1, <1>a DEF Exit, finishInflightAttempt, AttemptTypeOK, Calm
<1>2. CASE UNCHANGED phase
  BY <1>2 DEF Calm
<1>3. CASE Launch(r) /\ pc[r] \in {"insert", "bookkeep"}
  BY <1>1, <1>3, <1>a DEF Launch, PhaseFollowsAwait, AttemptTypeOK, Calm
<1>4. CASE phase' = Moved(r, "persisting") /\ pc[r] \in {"claim", "load"}
  BY <1>4, <1>a DEF Moved, PhaseFollowsAwait, AttemptTypeOK, Calm, EntryPhases
<1> QED
  BY <1>0, <1>1, <1>2, <1>3, <1>4 DEF claimDueFire, RefreshCache, LoadSchedule, insertRun,
     Bookkeep, deleteRunOnDefer, rearmDeferred, recordVerdict, rereadSchedule, replan,
     stampFinished, attemptVars

\* So does the runner, except when it takes its slot back, ...
LEMMA RunnerStepIsCalm ==
    ASSUME IInv, NEW r \in Runs, RunnerStep(r), ~reclaimSlot(r), NEW q \in Runs PROVE Calm(q)
<1>a. AttemptTypeOK /\ ContTypeOK /\ PhaseFollowsAwait
  BY DEF IInv, RunInv, TypeOK
<1>1. CASE onQueueWaitStart(r)
  <2>1. phase[r] \in {"none", "running", "finalizing"}
    BY <1>1, <1>a DEF onQueueWaitStart, PhaseFollowsAwait
  <2> QED
    BY <1>1, <1>a, <2>1 DEF onQueueWaitStart, Queueable, AttemptTypeOK, Calm
<1>2. CASE endQueueWait(r)
  BY <1>2, <1>a DEF endQueueWait, AttemptTypeOK, Calm
<1>3. ASSUME NEW outcome \in Outcomes, Settle(r, outcome) PROVE Calm(q)
  <2>1. phase[r] \in {"none", "running", "queued", "cancelling", "finalizing"}
    BY <1>3, <1>a DEF Settle, PhaseFollowsAwait
  <2> QED
    BY <1>3, <1>a, <2>1 DEF Settle, finishInflightAttempt, Moved, AttemptTypeOK, Calm
<1> QED
  BY <1>1, <1>2, <1>3 DEF RunnerStep

\* ... the stall guard and its force release, ...
LEMMA GuardStepIsCalm ==
    ASSUME IInv, NEW r \in Runs, GuardStep(r) \/ ForceStep(r), NEW q \in Runs PROVE Calm(q)
<1>a. AttemptTypeOK /\ PhaseFollowsAwait /\ RegistryConsistent
  BY DEF IInv, RunInv, TypeOK
<1>1. CASE forceReleaseStalledRun(r)
  <2>1. phase[r] \in {"running", "cancelling"}
    BY <1>1, <1>a DEF forceReleaseStalledRun, Guarded, RegistryConsistent, PhaseFollowsAwait
  <2> QED
    BY <1>1, <1>a, <2>1 DEF forceReleaseStalledRun, AttemptTypeOK, Calm
<1>2. CASE EndForce(r)
  BY <1>2, <1>a DEF EndForce, AttemptTypeOK, Calm
<1>3. CASE UNCHANGED phase
  BY <1>3 DEF Calm
<1> QED
  BY <1>1, <1>2, <1>3 DEF GuardStep, ForceStep, stallAbort, forceRecord, forceReread, forceReplan

\* ... and stop() and a crash.
LEMMA HostStepIsCalm ==
    ASSUME IInv, NEW i \in Instances, HostStep(i), NEW q \in Runs PROVE Calm(q)
<1>1. CASE stop(i) \/ crash(i)
  BY <1>1 DEF stop, crash, Calm
<1>2. CASE ~stop(i) /\ ~crash(i)
  BY <1>2 DEF HostStep, start, listActive, armOnStart, attemptVars, Calm
<1> QED
  BY <1>1, <1>2

\* Every other step is calm for every attempt: what begins or resumes one is a
\* tick that fires, a call of runNow, or a queued runner that asks for a slot.
LEMMA StepIsCalm ==
    ASSUME IInv, [Next]_vars,
           ~\E i \in Instances, k \in Ticks :
               \E S \in SUBSET Due(i) : \E runOf \in [S -> Runs] : fireDue(i, k, S, runOf),
           ~\E i \in Instances, s \in Schedules, r \in Runs : runNow(i, s, r),
           ~\E r \in Runs : reclaimSlot(r),
           NEW q \in Runs
    PROVE Calm(q)
<1>1. ASSUME NEW i \in Instances, NEW k \in Ticks, TickStep(i, k) PROVE Calm(q)
  BY <1>1 DEF TickStep, SyncTick, RetryTick, BeginTick, SyncCache, sweepStaleRunningRuns,
     reschedCheck, reschedPut, retryPut, reschedGet, retryGet, attemptVars, Calm
<1>2. ASSUME NEW i \in Instances, NEW s \in Schedules, MutationStep(i, s) \/ Command(i, s)
      PROVE Calm(q)
  BY <1>2 DEF MutationStep, Command, pause, delete, writeMutation, abortInflight, resumeGet,
     updateGet, create, attemptVars, Calm
<1>3. CASE Advance \/ UNCHANGED vars
  BY <1>3 DEF Advance, vars, attemptVars, Calm
<1> QED
  BY <1>1, <1>2, <1>3, FireStepIsCalm, RunnerStepIsCalm, GuardStepIsCalm, HostStepIsCalm DEF Next

\* Nor does any other step rename a run id.
LEMMA StepKeepsNames ==
    ASSUME [Next]_vars,
           ~\E i \in Instances, k \in Ticks :
               \E S \in SUBSET Due(i) : \E runOf \in [S -> Runs] : fireDue(i, k, S, runOf),
           ~\E i \in Instances, s \in Schedules, r \in Runs : runNow(i, s, r)
    PROVE UNCHANGED idVars
<1>1. ASSUME NEW r \in Runs, FireStep(r) \/ RunnerStep(r) \/ ForceStep(r) \/ GuardStep(r)
      PROVE UNCHANGED idVars
  BY <1>1 DEF FireStep, RunnerStep, ForceStep, GuardStep, claimDueFire, RefreshCache,
     LoadSchedule, insertRun, Bookkeep, deleteRunOnDefer, rearmDeferred, recordVerdict,
     rereadSchedule, replan, stampFinished, onQueueWaitStart, reclaimSlot, endQueueWait,
     Settle, forceRecord, forceReread, forceReplan, stallAbort, forceReleaseStalledRun
<1>2. ASSUME NEW i \in Instances, NEW k \in Ticks, TickStep(i, k) PROVE UNCHANGED idVars
  BY <1>2 DEF TickStep, SyncTick, RetryTick, BeginTick, SyncCache, sweepStaleRunningRuns,
     reschedCheck, reschedPut, retryPut, reschedGet, retryGet
<1>3. ASSUME NEW i \in Instances, NEW s \in Schedules, MutationStep(i, s) \/ Command(i, s)
      PROVE UNCHANGED idVars
  BY <1>3 DEF MutationStep, Command, pause, delete, writeMutation, abortInflight, resumeGet,
     updateGet, create
<1>4. ASSUME NEW i \in Instances, HostStep(i) PROVE UNCHANGED idVars
  BY <1>4 DEF HostStep, stop, crash, start, listActive, armOnStart
<1>5. CASE Advance \/ UNCHANGED vars
  BY <1>5 DEF Advance, vars
<1> QED
  BY <1>1, <1>2, <1>3, <1>4, <1>5 DEF Next

\* A calm change is one the phase table allows.
LEMMA CalmIsLegal ==
    ASSUME NEW r \in Runs, phase[r] \in Phases, phase'[r] \in Phases, Calm(r),
           phase[r] # "none", phase'[r] # "none"
    PROVE isLegalPhaseTransition(phase[r], phase'[r])
  BY DEF Calm, isLegalPhaseTransition, LEGAL_PHASE_TRANSITIONS, ScheduleRunPhase, EntryPhases,
     Phases

\* No step makes a phase change that transitionAttempt would refuse, and no
\* released attempt is registered again.
THEOREM TransitionsAreLegal == Spec => LegalTransitions
<1> DEFINE Legal ==
        \A r \in Runs :
          /\ phase[r] # "none" /\ phase'[r] # "none" =>
                isLegalPhaseTransition(phase[r], phase'[r])
          /\ phase[r] = "none" /\ phase'[r] # "none" =>
                pc[r] = "unused" /\ phase'[r] \in EntryPhases
<1>1. ASSUME IInv, [Next]_vars PROVE Legal
  <2>a. AttemptTypeOK /\ AttemptTypeOK' /\ RunInv
    BY <1>1, NextTypes DEF IInv, TypeOK
  <2>1. ASSUME NEW i \in Instances, NEW k \in Ticks, NEW S, NEW runOf, fireDue(i, k, S, runOf)
        PROVE Legal
    <3>1. \A r \in Runs : phase'[r] # phase[r] => pc[r] = "unused" /\ phase'[r] = "claiming"
      BY <2>1, <2>a DEF fireDue, AttemptTypeOK
    <3>2. \A r \in Runs : pc[r] = "unused" => phase[r] = "none"
      BY <2>a DEF RunInv, SlotsAreHeld, ForceOwned
    <3> QED
      BY <3>1, <3>2 DEF EntryPhases, isLegalPhaseTransition
  <2>2. ASSUME NEW i \in Instances, NEW s \in Schedules, NEW r \in Runs, runNow(i, s, r)
        PROVE Legal
    <3>1. \A q \in Runs : phase'[q] # phase[q] => pc[q] = "unused" /\ phase'[q] = "loading"
      BY <2>2, <2>a DEF runNow, AttemptTypeOK
    <3>2. \A q \in Runs : pc[q] = "unused" => phase[q] = "none"
      BY <2>a DEF RunInv, SlotsAreHeld, ForceOwned
    <3> QED
      BY <3>1, <3>2 DEF EntryPhases, isLegalPhaseTransition
  <2>3. ASSUME NEW r \in Runs, reclaimSlot(r) PROVE Legal
    <3>1. \A q \in Runs : phase'[q] # phase[q] =>
              phase[q] = "queued" /\ phase'[q] \in {"running", "cancelling"}
      BY <2>3, <2>a DEF reclaimSlot, AttemptTypeOK
    <3> QED
      BY <3>1 DEF isLegalPhaseTransition, LEGAL_PHASE_TRANSITIONS, ScheduleRunPhase, EntryPhases
  <2>4. ASSUME \A r \in Runs : Calm(r) PROVE Legal
    <3>1. \A r \in Runs : phase[r] \in Phases /\ phase'[r] \in Phases
      BY <2>a DEF AttemptTypeOK
    <3>2. \A r \in Runs : phase[r] = "none" => phase'[r] = "none"
      BY <2>4 DEF Calm, EntryPhases
    <3> QED
      BY <2>4, <3>1, <3>2, CalmIsLegal
  <2> QED
    BY <1>1, <2>1, <2>2, <2>3, <2>4, StepIsCalm
<1>2. IInv /\ [Next]_vars => [Legal]_vars
  BY <1>1
<1> QED
  BY <1>2, EngineInvariant, PTL DEF Spec, LegalTransitions
-----------------------------------------------------------------------------
(* The concurrency gate *)

\* The attempts countSlotsInUse counts.
Counted(i) == {r \in Runs : owner[r] = i /\ phase[r] \notin SlotFreePhases}

\* The gate counts every automatic fire that may execute.
LEMMA ExecutingIsCounted ==
    ASSUME NEW i
    PROVE /\ IsFiniteSet(Counted(i)) /\ Cardinality(Counted(i)) = SlotsInUse(i)
          /\ SlotsInUse(i) \in Nat
          /\ Cardinality(AutomaticExecuting(i)) \in Nat
          /\ Cardinality(AutomaticExecuting(i)) <= SlotsInUse(i)
          /\ IsFiniteSet(AutomaticExecuting(i))
<1>1. IsFiniteSet(Counted(i)) /\ Cardinality(Counted(i)) \in Nat
  BY SchedulerAssumption, FS_Subset, FS_CardinalityType DEF Counted
<1>2. AutomaticExecuting(i) \in SUBSET Counted(i)
  BY DEF AutomaticExecuting, Counted, ExecutingPhases, SlotFreePhases
<1>3. Cardinality(Counted(i)) = SlotsInUse(i)
  BY DEF Counted, SlotsInUse
<1>4. /\ IsFiniteSet(AutomaticExecuting(i))
      /\ Cardinality(AutomaticExecuting(i)) <= Cardinality(Counted(i))
  BY <1>1, <1>2, FS_Subset
<1> QED
  BY <1>1, <1>3, <1>4, FS_CardinalityType

\* A step that lets no further automatic fire execute keeps within the gate.
LEMMA FewerExecuting ==
    ASSUME AutomaticRunsWithinGate, NEW i \in Instances,
           AutomaticExecuting(i)' \subseteq AutomaticExecuting(i)
    PROVE Cardinality(AutomaticExecuting(i)') <= MaxConcurrentRuns
<1>1. IsFiniteSet(AutomaticExecuting(i)) /\ Cardinality(AutomaticExecuting(i)) \in Nat
  BY ExecutingIsCounted
<1>2. /\ IsFiniteSet(AutomaticExecuting(i)')
      /\ Cardinality(AutomaticExecuting(i)') <= Cardinality(AutomaticExecuting(i))
  BY <1>1, FS_Subset
<1>3. Cardinality(AutomaticExecuting(i)') \in Nat
  BY <1>2, FS_CardinalityType
<1> QED
  BY <1>1, <1>2, <1>3, SchedulerAssumption DEF AutomaticRunsWithinGate

\* What a step adds to the executing fires fits into the slots that are free.
LEMMA AdmittedFit ==
    ASSUME NEW i \in Instances, NEW added, IsFiniteSet(added),
           Cardinality(added) <= FreeSlots(i), added # {},
           AutomaticExecuting(i)' \subseteq AutomaticExecuting(i) \cup added
    PROVE Cardinality(AutomaticExecuting(i)') <= MaxConcurrentRuns
<1> DEFINE old == AutomaticExecuting(i)
<1>1. /\ IsFiniteSet(old) /\ Cardinality(old) \in Nat /\ Cardinality(old) <= SlotsInUse(i)
      /\ SlotsInUse(i) \in Nat
  BY ExecutingIsCounted
<1>2. Cardinality(added) \in Nat \ {0}
  BY FS_CardinalityType, FS_EmptySet
<1> HIDE DEF old
<1>3. old \cap added \in SUBSET old
  OBVIOUS
<1>4. Cardinality(old \cap added) \in Nat
  BY <1>1, <1>3, FS_Subset, FS_CardinalityType
<1>5. /\ IsFiniteSet(old \cup added)
      /\ Cardinality(old \cup added) <= Cardinality(old) + Cardinality(added)
  BY <1>1, <1>2, <1>4, FS_Union
<1>6. Cardinality(old \cup added) <= MaxConcurrentRuns
  <2>1. Cardinality(old \cup added) \in Nat
    BY <1>5, FS_CardinalityType
  <2>2. MaxConcurrentRuns \in Nat
    BY SchedulerAssumption
  <2>3. Cardinality(added) <= MaxConcurrentRuns - SlotsInUse(i)
    BY <1>1, <1>2, <2>2 DEF FreeSlots
  <2> QED
    BY <1>1, <1>2, <1>5, <2>1, <2>2, <2>3
<1>7. AutomaticExecuting(i)' \in SUBSET (old \cup added)
  BY DEF old
<1>8. /\ Cardinality(AutomaticExecuting(i)') <= Cardinality(old \cup added)
      /\ IsFiniteSet(AutomaticExecuting(i)')
  BY <1>5, <1>7, FS_Subset
<1>9. Cardinality(AutomaticExecuting(i)') \in Nat /\ Cardinality(old \cup added) \in Nat
  BY <1>5, <1>8, FS_CardinalityType
<1> QED
  BY <1>6, <1>8, <1>9, SchedulerAssumption

\* A tick fires no more schedules than it has free slots.
LEMMA TickStaysWithinGate ==
    ASSUME IInv, AutomaticRunsWithinGate, NEW i \in Instances, NEW k \in Ticks,
           NEW S \in SUBSET Due(i), NEW runOf \in [S -> Runs], fireDue(i, k, S, runOf),
           NEW j \in Instances
    PROVE Cardinality(AutomaticExecuting(j)') <= MaxConcurrentRuns
<1> DEFINE started == {runOf[s] : s \in S}
<1>1. /\ owner' = [r \in Runs |-> IF r \in started THEN i ELSE owner[r]]
      /\ source' = [r \in Runs |-> IF r \in started THEN "automatic" ELSE source[r]]
      /\ phase' = [r \in Runs |-> IF r \in started THEN "claiming" ELSE phase[r]]
  BY DEF fireDue
<1> HIDE DEF started
<1>2. CASE j # i \/ started = {}
  <2>1. AutomaticExecuting(j)' \subseteq AutomaticExecuting(j)
    BY <1>1, <1>2 DEF AutomaticExecuting
  <2> QED
    BY <2>1, FewerExecuting
<1>3. CASE j = i /\ started # {}
  <2>1. AutomaticExecuting(i)' \subseteq AutomaticExecuting(i) \cup started
    BY <1>1 DEF AutomaticExecuting
  <2>2. S \in SUBSET Schedules /\ IsFiniteSet(S)
    <3>1. S \in SUBSET Schedules
      BY DEF Due
    <3> QED
      BY <3>1, SchedulerAssumption, FS_Subset
  <2>3. runOf \in Surjection(S, started)
    BY DEF started, Surjection
  <2>4. IsFiniteSet(started) /\ Cardinality(started) <= Cardinality(S)
    BY <2>2, <2>3, FS_Surjection
  <2>5. Cardinality(S) <= FreeSlots(i)
    <3>1. Cardinality(S) <= Capacity(i)
      BY DEF fireDue, Admitted
    <3>2. Cardinality({r \in Runs : pc[r] = "unused"}) \in Nat
      BY SchedulerAssumption, FS_Subset, FS_CardinalityType
    <3>3. FreeSlots(i) \in Nat
      <4>1. SlotsInUse(i) \in Nat /\ MaxConcurrentRuns \in Nat
        BY ExecutingIsCounted, SchedulerAssumption
      <4> QED
        BY <4>1 DEF FreeSlots
    <3>4. Cardinality(S) \in Nat
      BY <2>2, FS_CardinalityType
    <3> QED
      BY <3>1, <3>2, <3>3, <3>4 DEF Capacity
  <2>6. Cardinality(started) <= FreeSlots(i)
    <3>1. Cardinality(started) \in Nat /\ Cardinality(S) \in Nat
      BY <2>2, <2>4, FS_CardinalityType
    <3>2. SlotsInUse(i) \in Nat /\ MaxConcurrentRuns \in Nat
      BY ExecutingIsCounted, SchedulerAssumption
    <3> QED
      BY <2>4, <2>5, <3>1, <3>2 DEF FreeSlots
  <2> QED
    BY <1>3, <2>1, <2>4, <2>6, AdmittedFit
<1> QED
  BY <1>2, <1>3

\* A queued fire resumes only into a free slot.
LEMMA ReclaimStaysWithinGate ==
    ASSUME IInv, AutomaticRunsWithinGate, NEW r \in Runs, reclaimSlot(r), NEW j \in Instances
    PROVE Cardinality(AutomaticExecuting(j)') <= MaxConcurrentRuns
<1>1. /\ phase' = [phase EXCEPT ![r] = IF SlotsInUse(owner[r]) >= MaxConcurrentRuns
                                      THEN "cancelling" ELSE "running"]
      /\ owner' = owner /\ source' = source /\ phase \in [Runs -> Phases]
  BY DEF reclaimSlot, idVars, IInv, TypeOK, AttemptTypeOK
<1>2. CASE SlotsInUse(owner[r]) >= MaxConcurrentRuns \/ owner[r] # j
  <2>1. AutomaticExecuting(j)' \subseteq AutomaticExecuting(j)
    BY <1>1, <1>2 DEF AutomaticExecuting, ExecutingPhases
  <2> QED
    BY <2>1, FewerExecuting
<1>3. CASE ~(SlotsInUse(owner[r]) >= MaxConcurrentRuns) /\ owner[r] = j
  <2>1. AutomaticExecuting(j)' \subseteq AutomaticExecuting(j) \cup {r}
    BY <1>1 DEF AutomaticExecuting
  <2>2. IsFiniteSet({r}) /\ Cardinality({r}) = 1
    BY FS_Singleton
  <2>3. SlotsInUse(j) \in Nat /\ MaxConcurrentRuns \in Nat
    BY ExecutingIsCounted, SchedulerAssumption
  <2>4. Cardinality({r}) <= FreeSlots(j)
    BY <1>3, <2>2, <2>3 DEF FreeSlots
  <2> QED
    BY <2>1, <2>2, <2>4, AdmittedFit
<1> QED
  BY <1>2, <1>3

\* Whatever run-now calls, queue waits, force releases, restarts and overlapping
\* ticks do, an instance executes no more automatic fires than its limit.
THEOREM GateHolds == Spec => []AutomaticRunsWithinGate
<1>1. Init => AutomaticRunsWithinGate
  <2> SUFFICES ASSUME Init, NEW i \in Instances
               PROVE Cardinality(AutomaticExecuting(i)) <= MaxConcurrentRuns
    BY DEF AutomaticRunsWithinGate
  <2>1. AutomaticExecuting(i) = {}
    BY DEF Init, InitWith, AutomaticExecuting, ExecutingPhases
  <2> QED
    BY <2>1, FS_EmptySet, SchedulerAssumption
<1>2. IInv /\ AutomaticRunsWithinGate /\ [Next]_vars => AutomaticRunsWithinGate'
  <2> SUFFICES ASSUME IInv, AutomaticRunsWithinGate, [Next]_vars, NEW j \in Instances
               PROVE Cardinality(AutomaticExecuting(j)') <= MaxConcurrentRuns
    BY DEF AutomaticRunsWithinGate
  <2>1. ASSUME NEW i \in Instances, NEW s \in Schedules, NEW r \in Runs, runNow(i, s, r)
        PROVE AutomaticExecuting(j)' \subseteq AutomaticExecuting(j)
    BY <2>1 DEF runNow, IInv, TypeOK, IdTypeOK, AttemptTypeOK, AutomaticExecuting
  <2>2. ASSUME \A r \in Runs : Calm(r), UNCHANGED <<owner, source>>
        PROVE AutomaticExecuting(j)' \subseteq AutomaticExecuting(j)
    BY <2>2 DEF Calm, AutomaticExecuting, ExecutingPhases, EntryPhases
  <2>3. CASE \/ \E i \in Instances, k \in Ticks :
                    \E S \in SUBSET Due(i) : \E runOf \in [S -> Runs] : fireDue(i, k, S, runOf)
             \/ \E r \in Runs : reclaimSlot(r)
    BY <2>3, TickStaysWithinGate, ReclaimStaysWithinGate
  <2>4. CASE ~(\/ \E i \in Instances, k \in Ticks :
                      \E S \in SUBSET Due(i) : \E runOf \in [S -> Runs] : fireDue(i, k, S, runOf)
               \/ \E r \in Runs : reclaimSlot(r))
    <3>1. CASE \E i \in Instances, s \in Schedules, r \in Runs : runNow(i, s, r)
      BY <2>1, <3>1, FewerExecuting
    <3>2. CASE ~\E i \in Instances, s \in Schedules, r \in Runs : runNow(i, s, r)
      <4>1. \A r \in Runs : Calm(r)
        BY <2>4, <3>2, StepIsCalm
      <4>2. UNCHANGED <<owner, source>>
        BY <2>4, <3>2, StepKeepsNames DEF idVars
      <4> QED
        BY <2>2, <4>1, <4>2, FewerExecuting
    <3> QED
      BY <3>1, <3>2
  <2> QED
    BY <2>3, <2>4
<1> QED
  BY <1>1, <1>2, EngineInvariant, PTL DEF Spec

-----------------------------------------------------------------------------
(* The verdicts of the runs *)

\* A step overwrites no verdict.
VerdictsStick == \A r \in Runs : runRow[r] \in Verdicts => runRow'[r] \in {runRow[r], "none"}

\* A step that writes no run row and lets no fire go on keeps the invariant.
LEMMA UntouchedRows ==
    ASSUME RowInv, UNCHANGED <<pc, runRow, force, controllers, abandonedRuns>>
    PROVE RowInv' /\ VerdictsStick
  BY DEF RowInv, AbandonedIsOut, VerdictIsFinal, VerdictsStick

\* A statement that only interrupts running rows, or drops rows, does as well.
LEMMA InterruptedRows ==
    ASSUME RowInv, UNCHANGED <<pc, force, controllers, abandonedRuns>>,
           \A r \in Runs : \/ runRow'[r] \in {runRow[r], "none"}
                           \/ runRow[r] = "running" /\ runRow'[r] = "interrupted"
    PROVE RowInv' /\ VerdictsStick
  BY DEF RowInv, AbandonedIsOut, VerdictIsFinal, VerdictsStick, Verdicts

\* The continuation of a fire writes a verdict at most once, and last.
LEMMA FireStepRows ==
    ASSUME IInv, RowInv, NEW r \in Runs, FireStep(r) PROVE RowInv' /\ VerdictsStick
<1>0. PICK o \in Replies :
          \/ claimDueFire(r, o) \/ RefreshCache(r, o)
          \/ LoadSchedule(r, o) \/ insertRun(r, o) \/ Bookkeep(r, o)
          \/ deleteRunOnDefer(r, o) \/ rearmDeferred(r, o)
          \/ recordVerdict(r, o) \/ rereadSchedule(r, o) \/ replan(r, o)
          \/ stampFinished(r, o)
  BY DEF FireStep
<1>a. DbTypeOK /\ ContTypeOK /\ AttemptTypeOK
  BY DEF IInv, TypeOK
<1>b. pc[r] \in PreRegister \cup Settling
  BY <1>0 DEF claimDueFire, RefreshCache, LoadSchedule, insertRun, Bookkeep, deleteRunOnDefer,
     rearmDeferred, recordVerdict, rereadSchedule, replan, stampFinished, PreRegister, Settling
<1>c. force[r].stage = "idle" /\ r \notin abandonedRuns
  BY <1>b, NoForceBetweenCalls DEF RowInv, AbandonedIsOut, PreRegister, Settling
<1>d. \/ Exit(r)
      \/ Launch(r)
      \/ (\E where \in Awaits : Goto(r, where)) /\ UNCHANGED <<controllers, force, abandonedRuns>>
  BY <1>0 DEF claimDueFire, RefreshCache, LoadSchedule, insertRun, Bookkeep, deleteRunOnDefer,
     rearmDeferred, recordVerdict, rereadSchedule, replan, stampFinished, attemptVars, Awaits,
     PreRegister, Settling
<1>e. /\ UNCHANGED <<force, abandonedRuns>> /\ controllers' \subseteq controllers \cup {r}
      /\ \A q \in Runs \ {r} : pc'[q] = pc[q]
  BY <1>a, <1>d DEF Exit, Launch, Goto, ContTypeOK
<1>f. \A q \in Runs \ {r} : runRow'[q] = runRow[q]
  BY <1>0, <1>a DEF claimDueFire, RefreshCache, LoadSchedule, insertRun, Bookkeep,
     deleteRunOnDefer, rearmDeferred, recordVerdict, rereadSchedule, replan, stampFinished,
     dbVars, DbTypeOK
<1>g. AbandonedIsOut'
  BY <1>a, <1>c, <1>e DEF RowInv, AbandonedIsOut, AttemptTypeOK
<1>h. \A q \in Runs \ {r} : runRow'[q] \in Verdicts =>
          /\ force'[q].stage # "write"
          /\ pc'[q] \in {"replanGet", "replanPut", "stamp", "done"} \/ q \in abandonedRuns'
  BY <1>e, <1>f DEF RowInv, VerdictIsFinal
<1>1. CASE UNCHANGED runRow
  <2>1. runRow[r] \in Verdicts => pc[r] \in {"replanGet", "replanPut", "stamp"}
    BY <1>b, <1>c DEF RowInv, VerdictIsFinal, PreRegister, Settling
  <2>2. pc[r] \in {"replanGet", "replanPut", "stamp"} => pc'[r] \in {"replanPut", "done"}
    BY <1>0, <1>a DEF claimDueFire, RefreshCache, LoadSchedule, insertRun, Bookkeep,
       deleteRunOnDefer, rearmDeferred, recordVerdict, rereadSchedule, replan, stampFinished,
       Exit, Goto, ContTypeOK
  <2> QED
    BY <1>1, <1>c, <1>e, <1>g, <1>h, <2>1, <2>2 DEF RowInv, VerdictIsFinal, VerdictsStick
<1>2. CASE insertRun(r, o)
  <2>1. runRow[r] \notin Verdicts
    BY <1>2, <1>c DEF insertRun, RowInv, VerdictIsFinal
  <2>2. runRow'[r] \in {runRow[r], "running"}
    BY <1>2, <1>a DEF insertRun, Effect, DbTypeOK
  <2> QED
    BY <1>f, <1>g, <1>h, <2>1, <2>2 DEF RowInv, VerdictIsFinal, VerdictsStick, Verdicts
<1>3. CASE deleteRunOnDefer(r, o)
  <2>1. runRow[r] \notin Verdicts
    BY <1>3, <1>c DEF deleteRunOnDefer, RowInv, VerdictIsFinal
  <2>2. runRow'[r] \in {runRow[r], "none"}
    BY <1>3, <1>a DEF deleteRunOnDefer, Effect, DbTypeOK
  <2> QED
    BY <1>f, <1>g, <1>h, <2>1, <2>2 DEF RowInv, VerdictIsFinal, VerdictsStick, Verdicts
<1>4. CASE recordVerdict(r, o)
  <2>1. runRow[r] \notin Verdicts
    BY <1>4, <1>c DEF recordVerdict, RowInv, VerdictIsFinal
  <2>2. pc'[r] \in {"replanGet", "stamp", "done"}
    BY <1>4, <1>a DEF recordVerdict, Exit, Goto, ContTypeOK
  <2> QED
    BY <1>c, <1>e, <1>f, <1>g, <1>h, <2>1, <2>2 DEF RowInv, VerdictIsFinal, VerdictsStick
<1> QED
  BY <1>0, <1>1, <1>2, <1>3, <1>4 DEF claimDueFire, RefreshCache, LoadSchedule, Bookkeep,
     rearmDeferred, rereadSchedule, replan, stampFinished, dbVars

\* A runner that comes back after its fire was given up is discarded.
LEMMA RunnerStepRows ==
    ASSUME IInv, RowInv, NEW r \in Runs, RunnerStep(r) PROVE RowInv' /\ VerdictsStick
<1>a. ContTypeOK /\ AttemptTypeOK
  BY DEF IInv, TypeOK
<1>1. CASE onQueueWaitStart(r) \/ reclaimSlot(r) \/ endQueueWait(r)
  BY <1>1, UntouchedRows DEF onQueueWaitStart, reclaimSlot, endQueueWait, dbVars, contVars
<1>2. ASSUME NEW outcome \in Outcomes, Settle(r, outcome) PROVE RowInv' /\ VerdictsStick
  <2>1. /\ pc[r] = "run" /\ controllers' = controllers \ {r} /\ force' = force
        /\ runRow' = runRow
    BY <1>2 DEF Settle, dbVars
  <2>2. \A q \in Runs \ {r} : pc'[q] = pc[q] /\ (q \in abandonedRuns' <=> q \in abandonedRuns)
    BY <1>2, <1>a DEF Settle, Goto, ContTypeOK
  <2>3. r \notin abandonedRuns' /\ (r \in abandonedRuns => pc'[r] = "done")
    BY <1>2, <1>a DEF Settle, consumeAbandonedRun, ContTypeOK
  <2>4. abandonedRuns' \subseteq Runs
    BY <1>2, <1>a DEF Settle, AttemptTypeOK
  <2>5. AbandonedIsOut'
    BY <2>1, <2>2, <2>3, <2>4 DEF RowInv, AbandonedIsOut
  <2>6. VerdictIsFinal' /\ VerdictsStick
    BY <2>1, <2>2, <2>3 DEF RowInv, VerdictIsFinal, VerdictsStick
  <2> QED
    BY <2>5, <2>6 DEF RowInv
<1> QED
  BY <1>1, <1>2 DEF RunnerStep

\* The stall guard closes only fires that have no verdict.
LEMMA GuardStepRows ==
    ASSUME IInv, RowInv, NEW r \in Runs, GuardStep(r) PROVE RowInv' /\ VerdictsStick
<1>1. CASE stallAbort(r)
  BY <1>1, UntouchedRows DEF stallAbort, dbVars, contVars
<1>2. CASE forceReleaseStalledRun(r)
  <2>1. r \notin abandonedRuns /\ pc[r] = "run" /\ runRow[r] \notin Verdicts
    BY <1>2 DEF forceReleaseStalledRun, IInv, RunInv, RegistryConsistent, RowInv,
       AbandonedIsOut, VerdictIsFinal
  <2>2. \A q \in Runs \ {r} : force'[q] = force[q]
    BY <1>2 DEF forceReleaseStalledRun, IInv, TypeOK, AttemptTypeOK
  <2>3. /\ UNCHANGED <<pc, runRow>> /\ controllers' = controllers \ {r}
        /\ abandonedRuns' = abandonedRuns \cup {r}
    BY <1>2 DEF forceReleaseStalledRun, dbVars, contVars
  <2> QED
    BY <2>1, <2>2, <2>3 DEF RowInv, AbandonedIsOut, VerdictIsFinal, VerdictsStick
<1> QED
  BY <1>1, <1>2 DEF GuardStep

\* A force release writes its verdict first and leaves the rest alone.
LEMMA ForceStepRows ==
    ASSUME IInv, RowInv, NEW r \in Runs, ForceStep(r) PROVE RowInv' /\ VerdictsStick
<1>0. PICK o \in Replies : forceRecord(r, o) \/ forceReread(r, o) \/ forceReplan(r, o)
  BY DEF ForceStep
<1>a. DbTypeOK /\ AttemptTypeOK /\ force[r] \in ForceState
  BY DEF IInv, TypeOK, AttemptTypeOK
<1>b. UNCHANGED <<pc, controllers, abandonedRuns>>
  BY <1>0 DEF forceRecord, forceReread, forceReplan, EndForce, contVars
<1>c. /\ force'[r].stage # "write" /\ \A q \in Runs \ {r} : force'[q] = force[q]
  BY <1>0, <1>a DEF forceRecord, forceReread, forceReplan, EndForce, NoForce, ForceState,
     AttemptTypeOK
<1>d. pc[r] = "done" \/ r \in abandonedRuns
  BY <1>0 DEF forceRecord, forceReread, forceReplan, IInv, RunInv, ForceOwned
<1>1. CASE forceRecord(r, o)
  <2>1. runRow[r] \notin Verdicts
    BY <1>1 DEF forceRecord, RowInv, VerdictIsFinal
  <2>2. \A q \in Runs \ {r} : runRow'[q] = runRow[q]
    BY <1>1, <1>a DEF forceRecord, DbTypeOK
  <2> QED
    BY <1>b, <1>c, <1>d, <2>1, <2>2 DEF RowInv, AbandonedIsOut, VerdictIsFinal, VerdictsStick
<1>2. CASE UNCHANGED runRow
  BY <1>b, <1>c, <1>2 DEF RowInv, AbandonedIsOut, VerdictIsFinal, VerdictsStick
<1> QED
  BY <1>0, <1>1, <1>2 DEF forceReread, forceReplan, dbVars

\* New fires have no verdict, and a sweep interrupts only running rows.
LEMMA TickStepRows ==
    ASSUME IInv, RowInv, NEW i \in Instances, NEW k \in Ticks, TickStep(i, k)
    PROVE RowInv' /\ VerdictsStick
<1>1. ASSUME NEW S, NEW runOf, fireDue(i, k, S, runOf) PROVE RowInv' /\ VerdictsStick
  <2>1. \A r \in Runs : pc'[r] = pc[r] \/ pc[r] = "unused"
    BY <1>1 DEF fireDue
  <2>2. UNCHANGED <<runRow, force, controllers, abandonedRuns>>
    BY <1>1 DEF fireDue, dbVars
  <2>3. abandonedRuns \subseteq Runs
    BY DEF IInv, TypeOK, AttemptTypeOK
  <2> QED
    BY <2>1, <2>2, <2>3 DEF RowInv, AbandonedIsOut, VerdictIsFinal, VerdictsStick
<1>2. ASSUME NEW o, sweepStaleRunningRuns(i, k, o) PROVE RowInv' /\ VerdictsStick
  <2>1. \A r \in Runs : \/ runRow'[r] = runRow[r]
                        \/ runRow[r] = "running" /\ runRow'[r] = "interrupted"
    BY <1>2 DEF sweepStaleRunningRuns, markRunningAsInterrupted, Stale
  <2>2. UNCHANGED <<pc, force, controllers, abandonedRuns>>
    BY <1>2 DEF sweepStaleRunningRuns, contVars, attemptVars
  <2> QED
    BY <2>1, <2>2, InterruptedRows
<1>3. ASSUME UNCHANGED <<runRow, contVars, attemptVars>> PROVE RowInv' /\ VerdictsStick
  BY <1>3, UntouchedRows DEF contVars, attemptVars
<1> QED
  BY <1>1, <1>2, <1>3 DEF TickStep, SyncTick, RetryTick, BeginTick, SyncCache, reschedCheck,
     reschedPut, retryPut, reschedGet, retryGet, dbVars

\* A call of the API removes a verdict only with its schedule.
LEMMA CallRows ==
    ASSUME IInv, RowInv, NEW i \in Instances, NEW s \in Schedules,
           MutationStep(i, s) \/ Command(i, s)
    PROVE RowInv' /\ VerdictsStick
<1>1. ASSUME NEW r \in Runs, runNow(i, s, r) PROVE RowInv' /\ VerdictsStick
  <2>1. \A q \in Runs : pc'[q] = pc[q] \/ pc[q] = "unused"
    BY <1>1 DEF runNow, Goto, IInv, TypeOK, ContTypeOK
  <2>2. UNCHANGED <<runRow, force, controllers, abandonedRuns>>
    BY <1>1 DEF runNow, dbVars
  <2>3. abandonedRuns \subseteq Runs
    BY DEF IInv, TypeOK, AttemptTypeOK
  <2> QED
    BY <2>1, <2>2, <2>3 DEF RowInv, AbandonedIsOut, VerdictIsFinal, VerdictsStick
<1>2. ASSUME NEW o, delete(i, s, o) PROVE RowInv' /\ VerdictsStick
  <2>1. \A r \in Runs : runRow'[r] \in {runRow[r], "none"}
    BY <1>2 DEF delete, dbVars
  <2>2. UNCHANGED <<pc, force, controllers, abandonedRuns>>
    BY <1>2 DEF delete, contVars, attemptVars
  <2> QED
    BY <2>1, <2>2, InterruptedRows
<1>3. ASSUME UNCHANGED <<pc, runRow, force, controllers, abandonedRuns>>
      PROVE RowInv' /\ VerdictsStick
  BY <1>3, UntouchedRows
<1> QED
  BY <1>1, <1>2, <1>3 DEF MutationStep, Command, pause, writeMutation, abortInflight, resumeGet,
     updateGet, create, contVars, attemptVars, dbVars

\* Neither does the start, the stop or the death of an instance.
LEMMA HostStepRows ==
    ASSUME IInv, RowInv, NEW i \in Instances, HostStep(i) PROVE RowInv' /\ VerdictsStick
<1>1. CASE stop(i)
  BY <1>1 DEF stop, dbVars, contVars, RowInv, AbandonedIsOut, VerdictIsFinal, VerdictsStick
<1>2. CASE crash(i)
  <2>1. \A r \in Runs : \/ pc'[r] = "done" /\ force'[r].stage = "idle"
                        \/ /\ owner[r] # i /\ pc'[r] = pc[r] /\ force'[r] = force[r]
                           /\ r \in abandonedRuns <=> r \in abandonedRuns'
    BY <1>2 DEF crash, RunsOf, NoForce
  <2>2. \A r \in abandonedRuns' : r \in abandonedRuns /\ pc'[r] = pc[r]
    BY <1>2 DEF crash, RunsOf, IInv, TypeOK, AttemptTypeOK
  <2>3. runRow' = runRow /\ controllers' \subseteq controllers
    BY <1>2 DEF crash, dbVars
  <2> QED
    BY <2>1, <2>2, <2>3 DEF RowInv, AbandonedIsOut, VerdictIsFinal, VerdictsStick
<1>3. ASSUME NEW o, start(i, o) PROVE RowInv' /\ VerdictsStick
  <2>1. \A r \in Runs : \/ runRow'[r] = runRow[r]
                        \/ runRow[r] = "running" /\ runRow'[r] = "interrupted"
    BY <1>3 DEF start, markRunningAsInterrupted, Stale
  <2>2. UNCHANGED <<pc, force, controllers, abandonedRuns>>
    BY <1>3 DEF start, contVars, attemptVars
  <2> QED
    BY <2>1, <2>2, InterruptedRows
<1>4. ASSUME UNCHANGED <<pc, runRow, force, controllers, abandonedRuns>>
      PROVE RowInv' /\ VerdictsStick
  BY <1>4, UntouchedRows
<1> QED
  BY <1>1, <1>2, <1>3, <1>4 DEF HostStep, listActive, armOnStart, contVars, attemptVars, dbVars

\* The next-state relation keeps the invariant and overwrites no verdict.
LEMMA NextRows == ASSUME IInv, RowInv, [Next]_vars PROVE RowInv' /\ VerdictsStick
<1>1. CASE Advance \/ UNCHANGED vars
  BY <1>1, UntouchedRows DEF Advance, vars, dbVars, contVars, attemptVars
<1> QED
  BY <1>1, FireStepRows, RunnerStepRows, ForceStepRows, GuardStepRows, TickStepRows, CallRows,
     HostStepRows DEF Next

-----------------------------------------------------------------------------
(* The attempt of a force release *)

\* Whoever releases an attempt that is being force-released is the force release
\* itself, stop() or a crash.
LEMMA StepKeepsForcedAttempt ==
    ASSUME IInv, [Next]_vars, NEW q \in Runs,
           force[q].stage # "idle", phase[q] # "none", phase'[q] = "none"
    PROVE force'[q].stage = "idle" \/ mode'[owner[q]] # "up"
<1>a. AttemptTypeOK /\ ContTypeOK /\ HostTypeOK /\ owner[q] \in Instances /\ pc[q] # "unused"
  BY DEF IInv, TypeOK, RunInv, ForceOwned, Linked
<1>1. ASSUME UNCHANGED phase PROVE FALSE
  BY <1>1
<1>2. ASSUME NEW r \in Runs, Exit(r) \/ Launch(r) PROVE FALSE
  BY <1>2, <1>a DEF Exit, Launch, finishInflightAttempt, AttemptTypeOK
<1>3. ASSUME NEW r \in Runs, EndForce(r) PROVE force'[q].stage = "idle"
  BY <1>3, <1>a DEF EndForce, AttemptTypeOK, NoForce
<1>4. ASSUME NEW r \in Runs, FireStep(r) PROVE FALSE
  <2>1. CASE phase' = Moved(r, "persisting")
    BY <2>1, <1>a DEF Moved, AttemptTypeOK
  <2> QED
    BY <1>1, <1>2, <1>4, <2>1 DEF FireStep, claimDueFire, RefreshCache, LoadSchedule, insertRun,
       Bookkeep, deleteRunOnDefer, rearmDeferred, recordVerdict, rereadSchedule, replan,
       stampFinished, attemptVars
<1>5. ASSUME NEW r \in Runs, RunnerStep(r) PROVE FALSE
  BY <1>5, <1>a DEF RunnerStep, onQueueWaitStart, reclaimSlot, endQueueWait, Settle,
     finishInflightAttempt, Moved, AttemptTypeOK
<1>6. ASSUME NEW r \in Runs, ForceStep(r) \/ GuardStep(r) PROVE force'[q].stage = "idle"
  BY <1>1, <1>3, <1>6, <1>a DEF ForceStep, GuardStep, forceRecord, forceReread, forceReplan,
     stallAbort, forceReleaseStalledRun, AttemptTypeOK
<1>7. ASSUME NEW i \in Instances, NEW k \in Ticks, TickStep(i, k) PROVE FALSE
  BY <1>1, <1>7 DEF TickStep, SyncTick, RetryTick, BeginTick, SyncCache, sweepStaleRunningRuns,
     reschedCheck, reschedPut, retryPut, reschedGet, retryGet, fireDue, attemptVars
<1>8. ASSUME NEW i \in Instances, NEW s \in Schedules, MutationStep(i, s) \/ Command(i, s)
      PROVE FALSE
  BY <1>1, <1>8, <1>a DEF MutationStep, Command, pause, delete, writeMutation, runNow,
     abortInflight, resumeGet, updateGet, create, attemptVars, AttemptTypeOK
<1>9. ASSUME NEW i \in Instances, HostStep(i) PROVE mode'[owner[q]] # "up"
  BY <1>1, <1>9, <1>a DEF HostStep, stop, crash, start, listActive, armOnStart, attemptVars,
     HostTypeOK
<1>10. CASE Advance \/ UNCHANGED vars
  BY <1>1, <1>10 DEF Advance, vars, attemptVars
<1> QED
  BY <1>4, <1>5, <1>6, <1>7, <1>8, <1>9, <1>10 DEF Next

-----------------------------------------------------------------------------
(* The theorems about verdicts and force releases *)

\* While a force release is closing a fire its attempt keeps its slot, whatever
\* the late runner does: only stop() or a crash may drop it.
THEOREM ForceReleaseHoldsItsSlot == Spec => ForceReleaseKeepsSlot
<1> DEFINE Keeps ==
        \A r \in Runs :
          force[r].stage # "idle" /\ phase[r] # "none" /\ phase'[r] = "none" =>
             force'[r].stage = "idle" \/ mode'[owner[r]] # "up"
<1>1. IInv /\ [Next]_vars => Keeps
  BY StepKeepsForcedAttempt
<1> QED
  BY <1>1, EngineInvariant, PTL DEF Spec, ForceReleaseKeepsSlot

\* A run the user has seen end keeps its verdict: no late runner, sweep, force
\* release or retry overwrites it, and only its schedule's deletion removes it.
THEOREM VerdictsAreFinal == Spec => SettledRunRowsStick
<1>1. Init => RowInv
  BY DEF Init, InitWith, RowInv, AbandonedIsOut, VerdictIsFinal, Verdicts
<1>2. IInv /\ RowInv /\ [Next]_vars => RowInv' /\ VerdictsStick
  BY NextRows
<1>3. VerdictsStick <=>
        \A r \in Runs : runRow[r] \in Verdicts => runRow'[r] \in {runRow[r], "none"}
  BY DEF VerdictsStick
<1> QED
  BY <1>1, <1>2, <1>3, EngineInvariant, PTL DEF Spec, SettledRunRowsStick
=============================================================================
