--------------------------- MODULE StartupFence ----------------------------
(***************************************************************************)
(* The account boundary of the desktop process: how the scheduler and the  *)
(* goal controller of an account are started, and how a logout or account  *)
(* switch takes them down while a start is under way.                      *)
(*                                                                         *)
(*   attempt   attemptStartScheduler, serialised by a barrier, with        *)
(*             startScheduler and runSchedulerStartup inside it            *)
(*   teardown  teardownAuthAccountBoundary, one at a time (the callers     *)
(*             hold the boundary lock), with resetScheduler inside it      *)
(*                                                                         *)
(* The two share module variables and fence each other with the generation *)
(* counters of scheduler-host and goal-host.  One action is the code from  *)
(* one await to the next.  Continuations of promises that have settled run *)
(* before the next event of the loop: see Quiet.                           *)
(***************************************************************************)
EXTENDS Naturals, Sequences, FiniteSets

CONSTANTS
    None,               \* no scheduler, no Maker; counted from 1 otherwise
    MaxLogins,          \* accounts that sign in, one after the other
    MaxFenceFailures,   \* launch fences that cannot be raised
    MaxAborts,          \* teardowns that stop at the sweep of Pi runs
    MaxStartFailures    \* Scheduler.start calls that reject

ASSUME BoundAssumption ==
    /\ MaxLogins \in Nat /\ MaxFenceFailures \in Nat
    /\ MaxAborts \in Nat /\ MaxStartFailures \in Nat
ASSUME NoneAssumption == None \notin Nat

VARIABLES
    dbReady,      \* getDbClient() answers
    consumers,    \* consumersStarted of the current readiness entry
    maker,        \* the Maker singleton
    loaded,       \* its _initialCustomMcpRefresh has settled
    makers,       \* Makers constructed so far
    goalGen,      \* goal-host: _teardownGeneration
    controller,   \* goal-host: the Maker of _controller
    startupGen,   \* scheduler-host: _startupGeneration
    published,    \* scheduler-host: _scheduler
    born,         \* the schedulers constructed: their generation and their Maker
    running,      \* schedulers that have started and not stopped
    ready,        \* maker-ipc: the scheduler of _current
    attached,     \* _scheduleIpcRegistered
    queued,       \* attempts waiting at the barrier
    attempt,      \* the attempt at work
    teardown,     \* the teardown at work
    late,         \* accountBoundaryAbortedMidTeardown
    spent,        \* how much of each bound is used
    lapsed        \* history: an attempt began while a teardown was under way

dbVars    == <<dbReady, consumers>>
makerVars == <<maker, loaded, makers>>
goalVars  == <<goalGen, controller>>
hostVars  == <<startupGen, published, born, running>>
ipcVars   == <<ready, attached>>
attemptVars == <<queued, attempt, lapsed>>
vars == <<dbVars, makerVars, goalVars, hostVars, ipcVars, attemptVars,
          teardown, late, spent>>

StartupPhases == {"starting", "cleanup", "publishing"}
AttemptPcs  == StartupPhases \cup {"idle", "refresh", "answered", "resetting"}
TeardownPcs == {"idle", "fence", "drain", "waiting", "stopping", "hosts", "sweep", "close"}

Bounds == {"logins", "fences", "aborts", "starts"}

NoAttempt  == [pc |-> "idle", gen |-> 0, maker |-> None, scheduler |-> None]
NoTeardown == [pc |-> "idle", awaits |-> None]

Init ==
    /\ dbReady = FALSE /\ consumers = FALSE
    /\ maker = None /\ loaded = FALSE /\ makers = 0
    /\ goalGen = 0 /\ controller = None
    /\ startupGen = 0 /\ published = None /\ born = <<>> /\ running = {}
    /\ ready = None /\ attached = {}
    /\ queued = 0 /\ attempt = NoAttempt /\ lapsed = FALSE
    /\ teardown = NoTeardown /\ late = FALSE
    /\ spent = [b \in Bounds |-> 0]

Spend(what, bound) ==
    /\ spent[what] < bound
    /\ spent' = [spent EXCEPT ![what] = @ + 1]

-----------------------------------------------------------------------------
(* Helpers *)

\* _startupPromise: only the attempt at work has one, and it is cleared by the
\* first reaction to its settlement.
StartupPromise == IF attempt.pc \in StartupPhases THEN attempt.scheduler ELSE None

\* Fault: resetScheduler only fences the publication of a startup under way.
PendingStartupFenced == None

\* resetScheduler: the startup it waits for before it stops anything.
PendingStartup == StartupPromise

\* The initial MCP refresh that the attempt awaits has settled.
Refreshed == attempt.maker = maker /\ loaded

\* No continuation of a settled promise waits to run.
Quiet ==
    /\ attempt.pc \notin {"publishing", "answered", "resetting"}
    /\ ~(attempt.pc = "refresh" /\ Refreshed)
    /\ ~(attempt.pc = "idle" /\ queued > 0)
    /\ teardown.pc # "stopping"
    /\ ~(teardown.pc = "waiting" /\ StartupPromise # teardown.awaits)

\* Fault: every caller constructs a Maker.
MakerAnew == makers + 1

\* getMakerCore(): the singleton, constructed on demand; a new one starts its
\* initial MCP refresh.
MakerCore == IF maker = None THEN makers + 1 ELSE maker
getMakerCore(settled) ==
    /\ maker' = MakerCore
    /\ loaded' = (settled \/ (maker # None /\ loaded))
    /\ makers' = IF maker = None THEN makers + 1 ELSE makers

\* startGoalController({ maker: m }): keeps a controller that is there.
ControllerOf(m) == IF controller = None THEN m ELSE controller

\* await _scheduler.stop() in resetScheduler; the clearing follows.
StopPublished == running' = running \ {published}

\* _startupGeneration has moved since the scheduler was constructed, and
\* _teardownGeneration since the attempt began.
Superseded == born[attempt.scheduler].gen # startupGen

\* Fault: an attempt is not fenced.
OutOfDateNever == FALSE

OutOfDate == goalGen # attempt.gen

-----------------------------------------------------------------------------
(* The account *)

\* The next account is committed and its database opened (onReady).
Login ==
    /\ Quiet /\ teardown.pc = "idle" /\ ~dbReady
    /\ Spend("logins", MaxLogins)
    /\ dbReady' = TRUE /\ consumers' = FALSE
    /\ UNCHANGED <<makerVars, goalVars, hostVars, ipcVars, attemptVars, teardown, late>>

\* Provider readiness, which awaits the Maker's initial refresh, settles and
\* starts its consumers, once per entry and never while the boundary is pending.
startReadinessConsumers ==
    /\ Quiet /\ dbReady /\ teardown.pc = "idle" /\ ~consumers
    /\ consumers' = TRUE
    /\ getMakerCore(TRUE)
    /\ queued' = queued + 1
    /\ UNCHANGED <<dbReady, goalVars, hostVars, ipcVars, attempt, lapsed, teardown, late, spent>>

initialRefreshSettled ==
    /\ Quiet /\ maker # None /\ ~loaded
    /\ loaded' = TRUE
    /\ UNCHANGED <<dbVars, maker, makers, goalVars, hostVars, ipcVars, attemptVars,
                   teardown, late, spent>>

-----------------------------------------------------------------------------
(* attemptStartScheduler *)

\* The barrier lets the next attempt in; without a database it returns.
beginAttempt ==
    /\ attempt.pc = "idle" /\ queued > 0
    /\ queued' = queued - 1
    /\ getMakerCore(FALSE)
    /\ attempt' = IF dbReady
                  THEN [pc |-> "refresh", gen |-> goalGen, maker |-> MakerCore,
                        scheduler |-> None]
                  ELSE NoAttempt
    /\ lapsed' = (lapsed \/ (dbReady /\ teardown.pc # "idle"))
    /\ UNCHANGED <<dbVars, goalVars, hostVars, ipcVars, teardown, late, spent>>

\* waitForInitialCustomMcpRefresh is over (that of a discarded Maker at any
\* time): an attempt that a teardown overtook returns, another one calls
\* startScheduler.
startScheduler ==
    /\ attempt.pc = "refresh" /\ (Refreshed \/ (Quiet /\ attempt.maker # maker))
    /\ \/ /\ OutOfDate
          /\ attempt' = NoAttempt
          /\ UNCHANGED born
       \/ /\ ~OutOfDate /\ published # None
          /\ attempt' = [attempt EXCEPT !.pc = "answered", !.scheduler = published]
          /\ UNCHANGED born
       \/ /\ ~OutOfDate /\ published = None
          /\ born' = Append(born, [gen |-> startupGen, maker |-> attempt.maker])
          /\ attempt' = [attempt EXCEPT !.pc = "starting", !.scheduler = Len(born) + 1]
    /\ UNCHANGED <<dbVars, makerVars, goalVars, startupGen, published, running, ipcVars,
                   queued, lapsed, teardown, late, spent>>

\* The startup rejects: superseded, or Scheduler.start failed.
Rejected == attempt' = [attempt EXCEPT !.pc = "answered", !.scheduler = None]

\* Fault: a superseded startup rejects and lets its scheduler tick.
SupersededUnstopped == Rejected /\ UNCHANGED running

\* scheduler.stop(), and the startup rejects.
SupersededStopped == Rejected /\ running' = running \ {attempt.scheduler}

\* scheduler.start() answers; a superseded scheduler is stopped at once.
startAnswered ==
    /\ Quiet /\ attempt.pc = "starting"
    /\ \/ Superseded /\ SupersededStopped /\ UNCHANGED spent
       \/ /\ ~Superseded
          /\ running' = running \cup {attempt.scheduler}
          /\ attempt' = [attempt EXCEPT !.pc = "cleanup"]
          /\ UNCHANGED spent
       \/ /\ Spend("starts", MaxStartFailures)
          /\ Rejected
          /\ UNCHANGED running
    /\ UNCHANGED <<dbVars, makerVars, goalVars, startupGen, published, born, ipcVars,
                   queued, lapsed, teardown, late>>

\* afterStart (deleteOrphanRuns) answers: the second check of the generation.
cleanupAnswered ==
    /\ Quiet /\ attempt.pc = "cleanup"
    /\ \/ Superseded /\ SupersededStopped
       \/ /\ ~Superseded
          /\ attempt' = [attempt EXCEPT !.pc = "publishing"]
          /\ UNCHANGED running
    /\ UNCHANGED <<dbVars, makerVars, goalVars, startupGen, published, born, ipcVars,
                   queued, lapsed, teardown, late, spent>>

\* _scheduler = scheduler, and the startup resolves.
publish ==
    /\ attempt.pc = "publishing"
    /\ published' = attempt.scheduler
    /\ attempt' = [attempt EXCEPT !.pc = "answered"]
    /\ UNCHANGED <<dbVars, makerVars, goalVars, startupGen, born, running, ipcVars,
                   queued, lapsed, teardown, late, spent>>

\* The attempt goes on after startScheduler.  Overtaken, it resets a scheduler
\* it was given, or just returns; otherwise it attaches the scheduler, which
\* makes it ready, and starts the goal controller.
attachOrReset ==
    /\ attempt.pc = "answered"
    /\ \/ /\ OutOfDate /\ attempt.scheduler # None
          /\ startupGen' = startupGen + 1
          /\ StopPublished
          /\ attempt' = [attempt EXCEPT !.pc = "resetting"]
          /\ UNCHANGED <<controller, ipcVars>>
       \/ /\ OutOfDate /\ attempt.scheduler = None
          /\ attempt' = NoAttempt
          /\ UNCHANGED <<controller, startupGen, running, ipcVars>>
       \/ /\ ~OutOfDate
          /\ IF attempt.scheduler \in attached \cup {None}
             THEN UNCHANGED ipcVars
             ELSE /\ ready' = attempt.scheduler
                  /\ attached' = attached \cup {attempt.scheduler}
          /\ controller' = ControllerOf(attempt.maker)
          /\ attempt' = NoAttempt
          /\ UNCHANGED <<startupGen, running>>
    /\ UNCHANGED <<dbVars, makerVars, goalGen, published, born, queued, lapsed,
                   teardown, late, spent>>

\* The last line of the attempt's own resetScheduler.
clearAfterReset ==
    /\ attempt.pc = "resetting"
    /\ published' = None
    /\ attempt' = NoAttempt
    /\ UNCHANGED <<dbVars, makerVars, goalVars, startupGen, born, running, ipcVars,
                   queued, lapsed, teardown, late, spent>>

AttemptStep ==
    \/ beginAttempt \/ startScheduler \/ startAnswered \/ cleanupAnswered
    \/ publish \/ attachOrReset \/ clearAfterReset

-----------------------------------------------------------------------------
(* teardownAuthAccountBoundary *)

At(pc) == [teardown EXCEPT !.pc = pc]

\* Fault: the controller is disposed, the attempts under way are not fenced.
resetGoalControllerOnly ==
    /\ controller' = None
    /\ UNCHANGED goalGen

\* resetGoalController(), before its first await.
resetGoalController ==
    /\ controller' = None
    /\ goalGen' = goalGen + 1

beginTeardown ==
    /\ Quiet /\ teardown.pc = "idle" /\ dbReady
    /\ teardown' = At("fence")
    /\ resetGoalController
    /\ UNCHANGED <<dbVars, makerVars, hostVars, ipcVars, attemptVars, late, spent>>

fenceRaised ==
    /\ Quiet /\ teardown.pc = "fence"
    /\ teardown' = At("drain")
    /\ UNCHANGED <<dbVars, makerVars, goalVars, hostVars, ipcVars, attemptVars, late, spent>>

\* Fault: an aborted handover restores the goal controller alone.
restoreControllerOnly ==
    /\ getMakerCore(FALSE)
    /\ controller' = ControllerOf(MakerCore)
    /\ UNCHANGED queued

\* The goal controller is made again, and a full attempt is queued behind the
\* one that the generation may have cut.
restoreAccountHost ==
    /\ getMakerCore(FALSE)
    /\ controller' = ControllerOf(MakerCore)
    /\ queued' = queued + 1

\* The launch fence cannot be raised: the account stays.
fenceFailed ==
    /\ Quiet /\ teardown.pc = "fence"
    /\ Spend("fences", MaxFenceFailures)
    /\ restoreAccountHost
    /\ teardown' = NoTeardown
    /\ UNCHANGED <<dbVars, goalGen, hostVars, ipcVars, attempt, lapsed, late>>

\* The drains are over.  resetSchedulerReady(); resetScheduler() up to its
\* first await: the startup under way, or stop().
resetScheduler ==
    /\ Quiet /\ teardown.pc = "drain"
    /\ ready' = None
    /\ startupGen' = startupGen + 1
    /\ IF PendingStartup # None
       THEN /\ teardown' = [pc |-> "waiting", awaits |-> PendingStartup]
            /\ UNCHANGED running
       ELSE /\ teardown' = At("stopping")
            /\ StopPublished
    /\ UNCHANGED <<dbVars, makerVars, goalVars, published, born, attached, attemptVars,
                   late, spent>>

\* The startup that resetScheduler awaits has settled.
startupSettled ==
    /\ teardown.pc = "waiting" /\ StartupPromise # teardown.awaits
    /\ teardown' = [pc |-> "stopping", awaits |-> None]
    /\ StopPublished
    /\ UNCHANGED <<dbVars, makerVars, goalVars, startupGen, published, born, ipcVars,
                   attemptVars, late, spent>>

\* The last line of resetScheduler; the embedding host and Learn come next.
clearScheduler ==
    /\ teardown.pc = "stopping"
    /\ teardown' = At("hosts")
    /\ published' = None
    /\ UNCHANGED <<dbVars, makerVars, goalVars, startupGen, born, running, ipcVars,
                   attemptVars, late, spent>>

\* They are stopped: the goal controller is disposed once more, the Maker shut
\* down and the Pi runs swept.
disposeGoals ==
    /\ Quiet /\ teardown.pc = "hosts"
    /\ teardown' = At("sweep")
    /\ resetGoalController
    /\ UNCHANGED <<dbVars, makerVars, hostVars, ipcVars, attemptVars, late, spent>>

\* resetMaker(); the device link gives up its ownership next.
sweepDone ==
    /\ Quiet /\ teardown.pc = "sweep"
    /\ teardown' = At("close")
    /\ maker' = None
    /\ UNCHANGED <<dbVars, loaded, makers, goalVars, hostVars, ipcVars, attemptVars, late, spent>>

\* A Pi run survives: the account stays with what was stopped stopped.  The
\* Maker is replaced unless a session is still attached to it.
sweepFailed ==
    /\ Quiet /\ teardown.pc = "sweep"
    /\ Spend("aborts", MaxAborts)
    /\ teardown' = NoTeardown
    /\ maker' \in {maker, None}
    /\ late' = TRUE
    /\ UNCHANGED <<dbVars, loaded, makers, goalVars, hostVars, ipcVars, attemptVars>>

\* The DbClient is disposed and the database closed.
closeDb ==
    /\ Quiet /\ teardown.pc = "close"
    /\ teardown' = NoTeardown
    /\ dbReady' = FALSE
    /\ late' = FALSE
    /\ UNCHANGED <<consumers, makerVars, goalVars, hostVars, ipcVars, attemptVars, spent>>

TeardownStep ==
    \/ fenceRaised \/ resetScheduler \/ startupSettled \/ clearScheduler
    \/ disposeGoals \/ sweepDone \/ closeDb

Next ==
    \/ AttemptStep \/ TeardownStep \/ startReadinessConsumers \/ initialRefreshSettled
    \/ Login \/ beginTeardown \/ fenceFailed \/ sweepFailed

Spec == Init /\ [][Next]_vars

\* Every await of the two procedures is answered and provider readiness settles.
\* Whether and when accounts come and go is up to the user, and no failure is due.
Fairness ==
    /\ WF_vars(AttemptStep)
    /\ WF_vars(startReadinessConsumers) /\ WF_vars(initialRefreshSettled)
    /\ WF_vars(TeardownStep)

FairSpec == Spec /\ Fairness

-----------------------------------------------------------------------------
(* Properties *)

Ids == 1 .. Len(born)

\* Type invariant: every variable keeps the shape the code gives it.
TypeOK ==
    /\ dbReady \in BOOLEAN /\ consumers \in BOOLEAN
    /\ makers \in Nat /\ loaded \in BOOLEAN /\ maker \in 1 .. makers \cup {None}
    /\ goalGen \in Nat /\ controller \in 1 .. makers \cup {None}
    /\ startupGen \in Nat
    /\ born \in Seq([gen : 0 .. startupGen, maker : 1 .. makers])
    /\ published \in Ids \cup {None} /\ running \subseteq Ids
    /\ ready \in Ids \cup {None} /\ attached \subseteq Ids
    /\ queued \in Nat
    /\ attempt \in [pc : AttemptPcs, gen : 0 .. goalGen, maker : 1 .. makers \cup {None},
                    scheduler : Ids \cup {None}]
    /\ teardown \in [pc : TeardownPcs, awaits : Ids \cup {None}]
    /\ late \in BOOLEAN /\ lapsed \in BOOLEAN
    /\ spent \in [Bounds -> Nat]

\* However starts, resets and account switches overlap, at most one scheduler
\* of the process ticks: the two generation checks of runSchedulerStartup and
\* the singleton of startScheduler leave no second one behind.
OneScheduler == \A s, t \in running : s = t

\* When resetScheduler of a teardown returns, no scheduler runs, and one that is
\* starting is of the new generation: what the reset waits for is the whole
\* startup, not only its publication.
ResetLeavesNothingOlder ==
    [][clearScheduler =>
          /\ running' = {}
          /\ StartupPromise' # None => born'[StartupPromise'].gen = startupGen']_vars

\* Between accounts nothing of the last one is left: no scheduler ticks, is
\* published or ready, and no goal controller dispatches, when the database
\* closes and until the next one opens.
NothingOutlivesItsAccount ==
    ~dbReady /\ ~lapsed =>
        /\ running = {} /\ published = None /\ ready = None
        /\ controller = None

\* Outside a teardown, whoever is asked for a scheduler gets the one that is
\* published and ticks, and both it and the goal controller work with the
\* Maker of the present account, not with one that was shut down.
RuntimeIsOurs ==
    Quiet /\ teardown.pc = "idle" /\ ~lapsed =>
        /\ ready # None =>
              ready = published /\ ready \in running /\ born[ready].maker = maker
        /\ controller # None => controller = maker

\* Once nothing disturbs the account any more, it has a scheduler that ticks
\* and is ready, and a goal controller: neither an attempt that a teardown
\* overtook nor a teardown that gave up at its fence leaves it without.
Undisturbed ==
    /\ dbReady /\ teardown.pc = "idle" /\ ~late
    /\ ~lapsed /\ spent.starts = 0

RuntimeComesBack ==
    <>[]Undisturbed =>
        <>[](ready # None /\ ready \in running /\ controller # None)
=============================================================================
