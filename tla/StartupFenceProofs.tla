------------------------- MODULE StartupFenceProofs -------------------------
(***************************************************************************)
(* Theorems about StartupFence: types; at most one scheduler ticks; a reset*)
(* leaves nothing of an older generation, a logout nothing of its account, *)
(* and what is at hand is the present account's; for any number of logins, *)
(* failed fences, aborted sweeps and failed starts.                        *)
(***************************************************************************)
EXTENDS StartupFence, SequenceTheorems, TLAPS

-----------------------------------------------------------------------------
(* The inductive invariant *)

\* Startups whose scheduler ticks and is not published yet.
Unpublished == attempt.pc \in {"cleanup", "publishing"}

\* A scheduler that ticks is published or belongs to the startup at work, which
\* finds nothing published.
Accounted ==
    /\ running \subseteq {published} \cup (IF Unpublished THEN {attempt.scheduler} ELSE {})
    /\ attempt.pc \in StartupPhases => published = None
    /\ attempt.pc = "resetting" => published \notin running

\* What a reset waits for, and what it may find when that has settled: a
\* startup that began after the generation was raised and has not got far.
Waits ==
    teardown.pc = "waiting" =>
        /\ Unpublished => attempt.scheduler = teardown.awaits
        /\ attempt.pc \in StartupPhases /\ attempt.scheduler # teardown.awaits =>
              born[attempt.scheduler].gen = startupGen

Stops ==
    teardown.pc = "stopping" =>
        /\ ~Unpublished /\ published \notin running
        /\ attempt.pc \in StartupPhases => born[attempt.scheduler].gen = startupGen

FenceInv == Accounted /\ Waits /\ Stops

\* From the start of a teardown until the next account, an attempt is fenced and
\* the goal controller gone; from resetScheduler on nothing is ready, and what
\* it waits for is all there is; from its end on nothing of the host is left.
Leaving == teardown.pc # "idle" \/ ~dbReady
Resets  == teardown.pc \notin {"idle", "fence", "drain"} \/ ~dbReady
Cleared == teardown.pc \in {"hosts", "sweep", "close"} \/ ~dbReady

Boundary ==
    /\ Leaving => /\ controller = None
                  /\ attempt.pc # "idle" => attempt.gen # goalGen
    /\ Resets => ready = None
    /\ teardown.pc = "waiting" /\ attempt.pc \in StartupPhases =>
          attempt.scheduler = teardown.awaits
    /\ teardown.pc = "stopping" \/ Cleared => attempt.pc \notin StartupPhases
    /\ Cleared => running = {} /\ published = None

BoundaryInv ==
    /\ teardown.pc # "idle" => dbReady
    /\ ~lapsed => Boundary

\* Whatever is at hand belongs to the Maker of the present account: an attempt
\* that is not fenced, a startup, the scheduler published and the one that is
\* ready, which a fenced attempt finds cleared before it resets anything.
Ours ==
    /\ attempt.pc # "idle" /\ attempt.gen = goalGen => attempt.maker = maker
    /\ controller # None => controller = maker
    /\ attempt.pc \in StartupPhases =>
          attempt.maker = maker /\ born[attempt.scheduler].maker = maker
    /\ Unpublished => attempt.scheduler \in running
    /\ published # None /\ ~Resets /\ attempt.pc # "resetting" =>
          published \in running /\ born[published].maker = maker
    /\ ready # None =>
          ready = published /\ ready \in running /\ born[ready].maker = maker
    /\ attempt.pc = "answered" /\ attempt.scheduler # None =>
          IF attempt.gen = goalGen THEN attempt.scheduler = published ELSE ready = None
    /\ attempt.pc = "resetting" => ready = None

OursInv == ~lapsed => Ours

\* TypeOK in parts, and a scheduler at hand where the code has one.
AccountTypes ==
    /\ dbReady \in BOOLEAN /\ consumers \in BOOLEAN /\ late \in BOOLEAN /\ lapsed \in BOOLEAN
    /\ queued \in Nat
    /\ spent \in [Bounds -> Nat]

MakerTypes ==
    /\ makers \in Nat /\ loaded \in BOOLEAN /\ maker \in 1 .. makers \cup {None}
    /\ goalGen \in Nat /\ controller \in 1 .. makers \cup {None}

HostTypes ==
    /\ startupGen \in Nat
    /\ born \in Seq([gen : 0 .. startupGen, maker : 1 .. makers])
    /\ published \in Ids \cup {None} /\ running \subseteq Ids
    /\ ready \in Ids \cup {None} /\ attached \subseteq Ids

AttemptTypes ==
    /\ attempt \in [pc : AttemptPcs, gen : 0 .. goalGen, maker : 1 .. makers \cup {None},
                    scheduler : Ids \cup {None}]
    /\ attempt.pc \in StartupPhases => attempt.scheduler \in Ids
    /\ attempt.pc \notin {"idle"} => attempt.maker \in 1 .. makers

TeardownTypes == teardown \in [pc : TeardownPcs, awaits : Ids \cup {None}]

TypeInv == AccountTypes /\ MakerTypes /\ HostTypes /\ AttemptTypes /\ TeardownTypes

IInv == TypeInv /\ FenceInv /\ BoundaryInv /\ OursInv

-----------------------------------------------------------------------------
(* Types *)

LEMMA TypeInit == Init => TypeInv
<1> SUFFICES ASSUME Init PROVE TypeInv
  OBVIOUS
<1>1. born \in Seq([gen : 0 .. startupGen, maker : 1 .. makers]) /\ Len(born) = 0
  BY EmptySeq DEF Init
<1>2. AccountTypes
  BY DEF Init, AccountTypes
<1>3. MakerTypes
  BY DEF Init, MakerTypes
<1>4. HostTypes
  BY <1>1 DEF Init, HostTypes, Ids
<1>5. AttemptTypes
  BY NoneAssumption DEF Init, AttemptTypes, Ids, NoAttempt, AttemptPcs, StartupPhases
<1>6. TeardownTypes
  BY DEF Init, TeardownTypes, Ids, NoTeardown, TeardownPcs
<1> QED
  BY <1>2, <1>3, <1>4, <1>5, <1>6 DEF TypeInv

\* Using a bound up keeps the account of them.
LEMMA SpendTypes ==
    ASSUME AccountTypes, NEW what \in Bounds, NEW bound,
           Spend(what, bound)
    PROVE  spent' \in [Bounds -> Nat]
<1>1. spent[what] + 1 \in Nat
  BY DEF AccountTypes
<1> QED
  BY <1>1 DEF AccountTypes, Spend

\* The counters only rise, and what the schedulers were born with stays in range.
LEMMA BornGrows ==
    ASSUME HostTypes, MakerTypes,
           startupGen' \in Nat, startupGen' >= startupGen, makers' \in Nat, makers' >= makers
    PROVE  born \in Seq([gen : 0 .. startupGen', maker : 1 .. makers'])
<1>1. [gen : 0 .. startupGen, maker : 1 .. makers]
         \subseteq [gen : 0 .. startupGen', maker : 1 .. makers']
  BY DEF HostTypes, MakerTypes
<1> QED
  BY <1>1, SeqMonotonic DEF HostTypes

LEMMA TypeStep == TypeInv /\ [Next]_vars => TypeInv'
<1> SUFFICES ASSUME TypeInv, [Next]_vars PROVE TypeInv'
  OBVIOUS
<1> USE NoneAssumption DEF TypeInv, AccountTypes, MakerTypes, HostTypes, AttemptTypes,
     TeardownTypes, Ids, AttemptPcs, TeardownPcs, StartupPhases, dbVars, makerVars, goalVars,
     hostVars, ipcVars, attemptVars
<1>1. CASE Login
  <2>1. AccountTypes'
    BY <1>1, SpendTypes DEF Login, Bounds
  <2>2. MakerTypes'
    BY <1>1 DEF Login, Spend
  <2>3. HostTypes'
    BY <1>1 DEF Login, Spend
  <2>4. AttemptTypes'
    BY <1>1 DEF Login, Spend
  <2>5. TeardownTypes'
    BY <1>1 DEF Login, Spend
  <2> QED
    BY <2>1, <2>2, <2>3, <2>4, <2>5 DEF TypeInv
<1>2. CASE startReadinessConsumers
  <2>1. AccountTypes'
    BY <1>2 DEF startReadinessConsumers, getMakerCore, MakerCore
  <2>2. MakerTypes'
    BY <1>2 DEF startReadinessConsumers, getMakerCore, MakerCore
  <2>3. HostTypes'
    <3>1. startupGen' \in Nat /\ startupGen' >= startupGen /\ makers' \in Nat /\ makers' >= makers
      BY <1>2 DEF startReadinessConsumers, getMakerCore, MakerCore
    <3> QED
      BY <1>2, <3>1, BornGrows DEF startReadinessConsumers, getMakerCore, MakerCore
  <2>4. AttemptTypes'
    BY <1>2 DEF startReadinessConsumers, getMakerCore, MakerCore
  <2>5. TeardownTypes'
    BY <1>2 DEF startReadinessConsumers, getMakerCore, MakerCore
  <2> QED
    BY <2>1, <2>2, <2>3, <2>4, <2>5 DEF TypeInv
<1>3. CASE initialRefreshSettled
  <2>1. AccountTypes'
    BY <1>3 DEF initialRefreshSettled
  <2>2. MakerTypes'
    BY <1>3 DEF initialRefreshSettled
  <2>3. HostTypes'
    BY <1>3 DEF initialRefreshSettled
  <2>4. AttemptTypes'
    BY <1>3 DEF initialRefreshSettled
  <2>5. TeardownTypes'
    BY <1>3 DEF initialRefreshSettled
  <2> QED
    BY <2>1, <2>2, <2>3, <2>4, <2>5 DEF TypeInv
<1>4. CASE beginAttempt
  <2>1. AccountTypes'
    BY <1>4 DEF beginAttempt, getMakerCore, MakerCore, NoAttempt
  <2>2. MakerTypes'
    BY <1>4 DEF beginAttempt, getMakerCore, MakerCore, NoAttempt
  <2>3. HostTypes'
    <3>1. startupGen' \in Nat /\ startupGen' >= startupGen /\ makers' \in Nat /\ makers' >= makers
      BY <1>4 DEF beginAttempt, getMakerCore, MakerCore
    <3> QED
      BY <1>4, <3>1, BornGrows DEF beginAttempt, getMakerCore, MakerCore
  <2>4. AttemptTypes'
    BY <1>4 DEF beginAttempt, getMakerCore, MakerCore, NoAttempt
  <2>5. TeardownTypes'
    BY <1>4 DEF beginAttempt, getMakerCore, MakerCore, NoAttempt
  <2> QED
    BY <2>1, <2>2, <2>3, <2>4, <2>5 DEF TypeInv
<1>5. CASE startScheduler
  <2>1. CASE born' = born
    <3>1. UNCHANGED <<dbVars, makerVars, goalVars, startupGen, published, running, ipcVars,
                      queued, lapsed, teardown, late, spent>>
      BY <1>5 DEF startScheduler
    <3>2. Len(born') = Len(born)
      BY <2>1
    <3>3. AccountTypes' /\ MakerTypes' /\ HostTypes' /\ TeardownTypes'
      BY <2>1, <3>1
    <3>4. CASE attempt' = NoAttempt
      BY <2>1, <3>1, <3>3, <3>4 DEF NoAttempt
    <3>5. CASE /\ published # None /\ attempt.pc = "refresh"
               /\ attempt' = [attempt EXCEPT !.pc = "answered", !.scheduler = published]
      <4>1. attempt' \in [pc : AttemptPcs, gen : 0 .. goalGen', maker : 1 .. makers' \cup {None},
                          scheduler : Ids' \cup {None}]
        BY <2>1, <3>1, <3>5
      <4>2. attempt'.pc = "answered" /\ attempt'.maker \in 1 .. makers'
        BY <3>1, <3>5
      <4> QED
        BY <3>3, <4>1, <4>2
    <3> QED
      BY <1>5, <2>1, <3>4, <3>5, AppendProperties DEF startScheduler
  <2>2. CASE /\ born' = Append(born, [gen |-> startupGen, maker |-> attempt.maker])
             /\ attempt.pc = "refresh"
             /\ attempt' = [attempt EXCEPT !.pc = "starting", !.scheduler = Len(born) + 1]
    <3> DEFINE R == [gen : 0 .. startupGen, maker : 1 .. makers]
    <3>1. [gen |-> startupGen, maker |-> attempt.maker] \in R
      BY <2>2
    <3>2. born' \in Seq(R) /\ Len(born') = Len(born) + 1 /\ Len(born) \in Nat
      BY <2>2, <3>1, AppendProperties
    <3>3. UNCHANGED <<dbVars, makerVars, goalVars, startupGen, published, running, ipcVars,
                      queued, lapsed, teardown, late, spent>>
      BY <1>5 DEF startScheduler
    <3>4. AccountTypes' /\ MakerTypes'
      BY <3>3
    <3>5. HostTypes'
      <4>1. Ids \subseteq Ids'
        BY <3>2
      <4> QED
        BY <3>2, <3>3, <4>1
    <3>6. AttemptTypes'
      <4>1. Len(born) + 1 \in Ids'
        BY <3>2
      <4>2. attempt' \in [pc : AttemptPcs, gen : 0 .. goalGen', maker : 1 .. makers' \cup {None},
                          scheduler : Ids' \cup {None}]
        BY <2>2, <3>2, <3>3, <4>1
      <4>3. attempt'.scheduler = Len(born) + 1 /\ attempt'.maker \in 1 .. makers'
        BY <2>2, <3>3
      <4> QED
        BY <4>1, <4>2, <4>3
    <3>7. TeardownTypes'
      BY <3>2, <3>3
    <3> QED
      BY <3>4, <3>5, <3>6, <3>7
  <2> QED
    BY <1>5, <2>1, <2>2 DEF startScheduler
<1>6. CASE startAnswered
  <2>1. AccountTypes'
    BY <1>6, SpendTypes DEF startAnswered, Bounds
  <2>2. MakerTypes'
    BY <1>6 DEF startAnswered, SupersededStopped, Rejected, Spend
  <2>3. HostTypes'
    BY <1>6 DEF startAnswered, SupersededStopped, Rejected, Spend
  <2>4. AttemptTypes'
    BY <1>6 DEF startAnswered, SupersededStopped, Rejected, Spend
  <2>5. TeardownTypes'
    BY <1>6 DEF startAnswered, SupersededStopped, Rejected, Spend
  <2> QED
    BY <2>1, <2>2, <2>3, <2>4, <2>5 DEF TypeInv
<1>7. CASE cleanupAnswered
  <2>1. AccountTypes'
    BY <1>7 DEF cleanupAnswered, SupersededStopped, Rejected
  <2>2. MakerTypes'
    BY <1>7 DEF cleanupAnswered, SupersededStopped, Rejected
  <2>3. HostTypes'
    BY <1>7 DEF cleanupAnswered, SupersededStopped, Rejected
  <2>4. AttemptTypes'
    BY <1>7 DEF cleanupAnswered, SupersededStopped, Rejected
  <2>5. TeardownTypes'
    BY <1>7 DEF cleanupAnswered, SupersededStopped, Rejected
  <2> QED
    BY <2>1, <2>2, <2>3, <2>4, <2>5 DEF TypeInv
<1>8. CASE publish
  <2>1. AccountTypes'
    BY <1>8 DEF publish
  <2>2. MakerTypes'
    BY <1>8 DEF publish
  <2>3. HostTypes'
    BY <1>8 DEF publish
  <2>4. AttemptTypes'
    BY <1>8 DEF publish
  <2>5. TeardownTypes'
    BY <1>8 DEF publish
  <2> QED
    BY <2>1, <2>2, <2>3, <2>4, <2>5 DEF TypeInv
<1>9. CASE attachOrReset
  <2>1. AccountTypes'
    BY <1>9 DEF attachOrReset, StopPublished, ControllerOf, NoAttempt
  <2>2. MakerTypes'
    BY <1>9 DEF attachOrReset, StopPublished, ControllerOf, NoAttempt
  <2>3. HostTypes'
    <3>1. startupGen' \in Nat /\ startupGen' >= startupGen /\ makers' \in Nat /\ makers' >= makers
      BY <1>9 DEF attachOrReset, StopPublished
    <3> QED
      BY <1>9, <3>1, BornGrows DEF attachOrReset, StopPublished
  <2>4. AttemptTypes'
    <3>1. CASE attempt' = [attempt EXCEPT !.pc = "resetting"]
      BY <1>9, <3>1 DEF attachOrReset
    <3>2. CASE attempt' = NoAttempt
      BY <1>9, <3>2 DEF attachOrReset, NoAttempt
    <3> QED
      BY <1>9, <3>1, <3>2 DEF attachOrReset
  <2>5. TeardownTypes'
    BY <1>9 DEF attachOrReset, StopPublished, ControllerOf, NoAttempt
  <2> QED
    BY <2>1, <2>2, <2>3, <2>4, <2>5 DEF TypeInv
<1>10. CASE clearAfterReset
  <2>1. AccountTypes'
    BY <1>10 DEF clearAfterReset, NoAttempt
  <2>2. MakerTypes'
    BY <1>10 DEF clearAfterReset, NoAttempt
  <2>3. HostTypes'
    BY <1>10 DEF clearAfterReset, NoAttempt
  <2>4. AttemptTypes'
    BY <1>10 DEF clearAfterReset, NoAttempt
  <2>5. TeardownTypes'
    BY <1>10 DEF clearAfterReset, NoAttempt
  <2> QED
    BY <2>1, <2>2, <2>3, <2>4, <2>5 DEF TypeInv
<1>11. CASE beginTeardown
  <2>1. AccountTypes'
    BY <1>11 DEF beginTeardown, resetGoalController, At
  <2>2. MakerTypes'
    BY <1>11 DEF beginTeardown, resetGoalController, At
  <2>3. HostTypes'
    BY <1>11 DEF beginTeardown, resetGoalController, At
  <2>4. AttemptTypes'
    BY <1>11 DEF beginTeardown, resetGoalController, At
  <2>5. TeardownTypes'
    BY <1>11 DEF beginTeardown, resetGoalController, At
  <2> QED
    BY <2>1, <2>2, <2>3, <2>4, <2>5 DEF TypeInv
<1>12. CASE fenceRaised
  <2>1. AccountTypes'
    BY <1>12 DEF fenceRaised, At
  <2>2. MakerTypes'
    BY <1>12 DEF fenceRaised, At
  <2>3. HostTypes'
    BY <1>12 DEF fenceRaised, At
  <2>4. AttemptTypes'
    BY <1>12 DEF fenceRaised, At
  <2>5. TeardownTypes'
    BY <1>12 DEF fenceRaised, At
  <2> QED
    BY <2>1, <2>2, <2>3, <2>4, <2>5 DEF TypeInv
<1>13. CASE fenceFailed
  <2>1. AccountTypes'
    BY <1>13 DEF fenceFailed, restoreAccountHost, getMakerCore, MakerCore, ControllerOf, Bounds, Spend, NoTeardown
  <2>2. MakerTypes'
    BY <1>13 DEF fenceFailed, restoreAccountHost, getMakerCore, MakerCore, ControllerOf, Bounds, Spend, NoTeardown
  <2>3. HostTypes'
    <3>1. startupGen' \in Nat /\ startupGen' >= startupGen /\ makers' \in Nat /\ makers' >= makers
      BY <1>13 DEF fenceFailed, restoreAccountHost, getMakerCore
    <3> QED
      BY <1>13, <3>1, BornGrows DEF fenceFailed, restoreAccountHost, getMakerCore
  <2>4. AttemptTypes'
    BY <1>13 DEF fenceFailed, restoreAccountHost, getMakerCore, MakerCore, ControllerOf, Bounds, Spend, NoTeardown
  <2>5. TeardownTypes'
    BY <1>13 DEF fenceFailed, restoreAccountHost, getMakerCore, MakerCore, ControllerOf, Bounds, Spend, NoTeardown
  <2> QED
    BY <2>1, <2>2, <2>3, <2>4, <2>5 DEF TypeInv
<1>14. CASE resetScheduler
  <2>1. AccountTypes'
    BY <1>14 DEF resetScheduler, PendingStartup, StartupPromise, StopPublished, At
  <2>2. MakerTypes'
    BY <1>14 DEF resetScheduler, PendingStartup, StartupPromise, StopPublished, At
  <2>3. HostTypes'
    <3>1. startupGen' \in Nat /\ startupGen' >= startupGen /\ makers' \in Nat /\ makers' >= makers
      BY <1>14 DEF resetScheduler, StopPublished
    <3> QED
      BY <1>14, <3>1, BornGrows DEF resetScheduler, StopPublished
  <2>4. AttemptTypes'
    BY <1>14 DEF resetScheduler, PendingStartup, StartupPromise, StopPublished, At
  <2>5. TeardownTypes'
    <3>1. StartupPromise # None => StartupPromise \in Ids
      BY DEF StartupPromise
    <3>2. Ids' = Ids
      BY <1>14 DEF resetScheduler
    <3> QED
      BY <1>14, <3>1, <3>2 DEF resetScheduler, PendingStartup, At
  <2> QED
    BY <2>1, <2>2, <2>3, <2>4, <2>5 DEF TypeInv
<1>15. CASE startupSettled
  <2>1. AccountTypes'
    BY <1>15 DEF startupSettled, StopPublished
  <2>2. MakerTypes'
    BY <1>15 DEF startupSettled, StopPublished
  <2>3. HostTypes'
    BY <1>15 DEF startupSettled, StopPublished
  <2>4. AttemptTypes'
    BY <1>15 DEF startupSettled, StopPublished
  <2>5. TeardownTypes'
    BY <1>15 DEF startupSettled, StopPublished
  <2> QED
    BY <2>1, <2>2, <2>3, <2>4, <2>5 DEF TypeInv
<1>16. CASE clearScheduler
  <2>1. AccountTypes'
    BY <1>16 DEF clearScheduler, At
  <2>2. MakerTypes'
    BY <1>16 DEF clearScheduler, At
  <2>3. HostTypes'
    BY <1>16 DEF clearScheduler, At
  <2>4. AttemptTypes'
    BY <1>16 DEF clearScheduler, At
  <2>5. TeardownTypes'
    BY <1>16 DEF clearScheduler, At
  <2> QED
    BY <2>1, <2>2, <2>3, <2>4, <2>5 DEF TypeInv
<1>17. CASE disposeGoals
  <2>1. AccountTypes'
    BY <1>17 DEF disposeGoals, resetGoalController, At
  <2>2. MakerTypes'
    BY <1>17 DEF disposeGoals, resetGoalController, At
  <2>3. HostTypes'
    BY <1>17 DEF disposeGoals, resetGoalController, At
  <2>4. AttemptTypes'
    BY <1>17 DEF disposeGoals, resetGoalController, At
  <2>5. TeardownTypes'
    BY <1>17 DEF disposeGoals, resetGoalController, At
  <2> QED
    BY <2>1, <2>2, <2>3, <2>4, <2>5 DEF TypeInv
<1>18. CASE sweepDone
  <2>1. AccountTypes'
    BY <1>18 DEF sweepDone, At
  <2>2. MakerTypes'
    BY <1>18 DEF sweepDone, At
  <2>3. HostTypes'
    BY <1>18 DEF sweepDone, At
  <2>4. AttemptTypes'
    BY <1>18 DEF sweepDone, At
  <2>5. TeardownTypes'
    BY <1>18 DEF sweepDone, At
  <2> QED
    BY <2>1, <2>2, <2>3, <2>4, <2>5 DEF TypeInv
<1>19. CASE sweepFailed
  <2>1. AccountTypes'
    BY <1>19 DEF sweepFailed, Bounds, Spend, NoTeardown
  <2>2. MakerTypes'
    BY <1>19 DEF sweepFailed, Bounds, Spend, NoTeardown
  <2>3. HostTypes'
    BY <1>19 DEF sweepFailed, Bounds, Spend, NoTeardown
  <2>4. AttemptTypes'
    BY <1>19 DEF sweepFailed, Bounds, Spend, NoTeardown
  <2>5. TeardownTypes'
    BY <1>19 DEF sweepFailed, Bounds, Spend, NoTeardown
  <2> QED
    BY <2>1, <2>2, <2>3, <2>4, <2>5 DEF TypeInv
<1>20. CASE closeDb
  <2>1. AccountTypes'
    BY <1>20 DEF closeDb, NoTeardown
  <2>2. MakerTypes'
    BY <1>20 DEF closeDb, NoTeardown
  <2>3. HostTypes'
    BY <1>20 DEF closeDb, NoTeardown
  <2>4. AttemptTypes'
    BY <1>20 DEF closeDb, NoTeardown
  <2>5. TeardownTypes'
    BY <1>20 DEF closeDb, NoTeardown
  <2> QED
    BY <2>1, <2>2, <2>3, <2>4, <2>5 DEF TypeInv
<1>21. CASE UNCHANGED vars
  BY <1>21 DEF vars
<1> QED
  BY <1>1, <1>2, <1>3, <1>4, <1>5, <1>6, <1>7, <1>8, <1>9, <1>10, <1>11, <1>12, <1>13,
     <1>14, <1>15, <1>16, <1>17, <1>18, <1>19, <1>20, <1>21
     DEF Next, AttemptStep, TeardownStep

-----------------------------------------------------------------------------
(* The fence *)

LEMMA FenceInit == Init => FenceInv
  BY DEF Init, FenceInv, Accounted, Waits, Stops, Unpublished, NoAttempt, NoTeardown, StartupPhases

LEMMA FenceStep == TypeInv /\ FenceInv /\ [Next]_vars => FenceInv'
<1> SUFFICES ASSUME TypeInv, FenceInv, [Next]_vars PROVE FenceInv'
  OBVIOUS
<1> USE NoneAssumption DEF TypeInv, HostTypes, AttemptTypes, TeardownTypes, FenceInv, Accounted,
     Waits, Stops, Unpublished, Ids, StartupPhases, dbVars, makerVars, goalVars, hostVars, ipcVars,
     attemptVars
<1>1. CASE Login
  BY <1>1 DEF Login
<1>2. CASE startReadinessConsumers
  BY <1>2 DEF startReadinessConsumers
<1>3. CASE initialRefreshSettled
  BY <1>3 DEF initialRefreshSettled
<1>4. CASE beginAttempt
  <2>1. Accounted'
    BY <1>4 DEF beginAttempt, NoAttempt
  <2>2. Waits'
    BY <1>4 DEF beginAttempt, NoAttempt
  <2>3. Stops'
    BY <1>4 DEF beginAttempt, NoAttempt
  <2> QED
    BY <2>1, <2>2, <2>3 DEF FenceInv
<1>5. CASE startScheduler
  <2>1. UNCHANGED <<startupGen, published, running, teardown>> /\ attempt.pc = "refresh"
    BY <1>5 DEF startScheduler
  <2>2. CASE attempt'.pc \in {"idle", "answered"}
    BY <2>1, <2>2
  <2>3. CASE /\ attempt'.pc = "starting" /\ attempt'.scheduler = Len(born) + 1
             /\ published = None
             /\ born' = Append(born, [gen |-> startupGen, maker |-> attempt.maker])
    <3>1. born'[attempt'.scheduler].gen = startupGen'
      BY <2>1, <2>3
    <3> QED
      BY <2>1, <2>3, <3>1
  <2>4. attempt' = NoAttempt => attempt'.pc = "idle"
    BY DEF NoAttempt
  <2>5. /\ [attempt EXCEPT !.pc = "answered", !.scheduler = published].pc = "answered"
        /\ [attempt EXCEPT !.pc = "starting", !.scheduler = Len(born) + 1].pc = "starting"
        /\ [attempt EXCEPT !.pc = "starting", !.scheduler = Len(born) + 1].scheduler = Len(born) + 1
    OBVIOUS
  <2> QED
    BY <1>5, <2>2, <2>3, <2>4, <2>5 DEF startScheduler
<1>6. CASE startAnswered
  <2>1. Accounted'
    BY <1>6 DEF startAnswered, SupersededStopped, Rejected, Quiet
  <2>2. Waits'
    BY <1>6 DEF startAnswered, SupersededStopped, Rejected, Quiet, StartupPromise
  <2>3. Stops'
    BY <1>6 DEF startAnswered, SupersededStopped, Rejected, Quiet
  <2> QED
    BY <2>1, <2>2, <2>3 DEF FenceInv
<1>7. CASE cleanupAnswered
  <2>1. Accounted'
    BY <1>7 DEF cleanupAnswered, SupersededStopped, Rejected, Quiet
  <2>2. Waits'
    BY <1>7 DEF cleanupAnswered, SupersededStopped, Rejected, Quiet
  <2>3. Stops'
    BY <1>7 DEF cleanupAnswered, SupersededStopped, Rejected, Quiet
  <2> QED
    BY <2>1, <2>2, <2>3 DEF FenceInv
<1>8. CASE publish
  <2>1. Accounted'
    BY <1>8 DEF publish
  <2>2. Waits'
    BY <1>8 DEF publish
  <2>3. Stops'
    BY <1>8 DEF publish
  <2> QED
    BY <2>1, <2>2, <2>3 DEF FenceInv
<1>9. CASE attachOrReset
  <2>1. Accounted'
    BY <1>9 DEF attachOrReset, StopPublished, NoAttempt
  <2>2. Waits'
    BY <1>9 DEF attachOrReset, StopPublished, NoAttempt
  <2>3. Stops'
    BY <1>9 DEF attachOrReset, StopPublished, NoAttempt
  <2> QED
    BY <2>1, <2>2, <2>3 DEF FenceInv
<1>10. CASE clearAfterReset
  <2>1. Accounted'
    BY <1>10 DEF clearAfterReset, NoAttempt
  <2>2. Waits'
    BY <1>10 DEF clearAfterReset, NoAttempt
  <2>3. Stops'
    BY <1>10 DEF clearAfterReset, NoAttempt
  <2> QED
    BY <2>1, <2>2, <2>3 DEF FenceInv
<1>11. CASE beginTeardown
  <2>1. Accounted'
    BY <1>11 DEF beginTeardown, At
  <2>2. Waits'
    BY <1>11 DEF beginTeardown, At
  <2>3. Stops'
    BY <1>11 DEF beginTeardown, At
  <2> QED
    BY <2>1, <2>2, <2>3 DEF FenceInv
<1>12. CASE fenceRaised
  <2>1. Accounted'
    BY <1>12 DEF fenceRaised, At
  <2>2. Waits'
    BY <1>12 DEF fenceRaised, At
  <2>3. Stops'
    BY <1>12 DEF fenceRaised, At
  <2> QED
    BY <2>1, <2>2, <2>3 DEF FenceInv
<1>13. CASE fenceFailed
  <2>1. Accounted'
    BY <1>13 DEF fenceFailed, NoTeardown, Quiet
  <2>2. Waits'
    BY <1>13 DEF fenceFailed, NoTeardown, Quiet
  <2>3. Stops'
    BY <1>13 DEF fenceFailed, NoTeardown, Quiet
  <2> QED
    BY <2>1, <2>2, <2>3 DEF FenceInv
<1>14. CASE resetScheduler
  <2>1. Accounted'
    BY <1>14 DEF resetScheduler, PendingStartup, StartupPromise, StopPublished, At, Quiet
  <2>2. Waits'
    BY <1>14 DEF resetScheduler, PendingStartup, StartupPromise, StopPublished, At, Quiet
  <2>3. Stops'
    BY <1>14 DEF resetScheduler, PendingStartup, StartupPromise, StopPublished, At, Quiet
  <2> QED
    BY <2>1, <2>2, <2>3 DEF FenceInv
<1>15. CASE startupSettled
  <2>1. Accounted'
    BY <1>15 DEF startupSettled, StartupPromise, StopPublished
  <2>2. Waits'
    BY <1>15 DEF startupSettled, StartupPromise, StopPublished
  <2>3. Stops'
    BY <1>15 DEF startupSettled, StartupPromise, StopPublished
  <2> QED
    BY <2>1, <2>2, <2>3 DEF FenceInv
<1>16. CASE clearScheduler
  <2>1. Accounted'
    BY <1>16 DEF clearScheduler, At
  <2>2. Waits'
    BY <1>16 DEF clearScheduler, At
  <2>3. Stops'
    BY <1>16 DEF clearScheduler, At
  <2> QED
    BY <2>1, <2>2, <2>3 DEF FenceInv
<1>17. CASE disposeGoals
  <2>1. Accounted'
    BY <1>17 DEF disposeGoals, At
  <2>2. Waits'
    BY <1>17 DEF disposeGoals, At
  <2>3. Stops'
    BY <1>17 DEF disposeGoals, At
  <2> QED
    BY <2>1, <2>2, <2>3 DEF FenceInv
<1>18. CASE sweepDone
  <2>1. Accounted'
    BY <1>18 DEF sweepDone, At
  <2>2. Waits'
    BY <1>18 DEF sweepDone, At
  <2>3. Stops'
    BY <1>18 DEF sweepDone, At
  <2> QED
    BY <2>1, <2>2, <2>3 DEF FenceInv
<1>19. CASE sweepFailed
  <2>1. Accounted'
    BY <1>19 DEF sweepFailed, NoTeardown
  <2>2. Waits'
    BY <1>19 DEF sweepFailed, NoTeardown
  <2>3. Stops'
    BY <1>19 DEF sweepFailed, NoTeardown
  <2> QED
    BY <2>1, <2>2, <2>3 DEF FenceInv
<1>20. CASE closeDb
  <2>1. Accounted'
    BY <1>20 DEF closeDb, NoTeardown
  <2>2. Waits'
    BY <1>20 DEF closeDb, NoTeardown
  <2>3. Stops'
    BY <1>20 DEF closeDb, NoTeardown
  <2> QED
    BY <2>1, <2>2, <2>3 DEF FenceInv
<1>21. CASE UNCHANGED vars
  BY <1>21 DEF vars
<1> QED
  BY <1>1, <1>2, <1>3, <1>4, <1>5, <1>6, <1>7, <1>8, <1>9, <1>10, <1>11, <1>12, <1>13,
     <1>14, <1>15, <1>16, <1>17, <1>18, <1>19, <1>20, <1>21
     DEF Next, AttemptStep, TeardownStep

-----------------------------------------------------------------------------
(* The boundary *)

LEMMA BoundaryInit == Init => BoundaryInv
  BY DEF Init, BoundaryInv, Boundary, Leaving, Resets, Cleared, NoAttempt, NoTeardown, StartupPhases

LEMMA BoundaryStep ==
    TypeInv /\ FenceInv /\ BoundaryInv /\ [Next]_vars => BoundaryInv'
<1> SUFFICES ASSUME TypeInv, FenceInv, BoundaryInv, [Next]_vars PROVE BoundaryInv'
  OBVIOUS
<1> USE NoneAssumption DEF TypeInv, MakerTypes, HostTypes, AttemptTypes, TeardownTypes, FenceInv,
     Accounted, Stops, Unpublished, BoundaryInv, Boundary, Leaving, Resets, Cleared, Ids,
     StartupPhases, dbVars, makerVars, goalVars, hostVars, ipcVars, attemptVars
<1>1. CASE Login
  BY <1>1 DEF Login, Quiet
<1>2. CASE startReadinessConsumers
  BY <1>2 DEF startReadinessConsumers
<1>3. CASE initialRefreshSettled
  BY <1>3 DEF initialRefreshSettled
<1>4. CASE beginAttempt
  BY <1>4 DEF beginAttempt, NoAttempt
<1>5. CASE startScheduler
  BY <1>5 DEF startScheduler, NoAttempt, OutOfDate
<1>6. CASE startAnswered
  BY <1>6 DEF startAnswered, SupersededStopped, Rejected, Quiet, StartupPromise
<1>7. CASE cleanupAnswered
  BY <1>7 DEF cleanupAnswered, SupersededStopped, Rejected, Quiet, StartupPromise
<1>8. CASE publish
  BY <1>8 DEF publish
<1>9. CASE attachOrReset
  BY <1>9 DEF attachOrReset, OutOfDate, StopPublished, NoAttempt
<1>10. CASE clearAfterReset
  BY <1>10 DEF clearAfterReset, NoAttempt
<1>11. CASE beginTeardown
  BY <1>11 DEF beginTeardown, At, resetGoalController
<1>12. CASE fenceRaised
  BY <1>12 DEF fenceRaised, At
<1>13. CASE fenceFailed
  BY <1>13 DEF fenceFailed, NoTeardown, Quiet
<1>14. CASE resetScheduler
  BY <1>14 DEF resetScheduler, PendingStartup, StartupPromise, StopPublished, At, Quiet
<1>15. CASE startupSettled
  BY <1>15 DEF startupSettled, StartupPromise, StopPublished
<1>16. CASE clearScheduler
  BY <1>16 DEF clearScheduler, At
<1>17. CASE disposeGoals
  BY <1>17 DEF disposeGoals, At, resetGoalController
<1>18. CASE sweepDone
  BY <1>18 DEF sweepDone, At
<1>19. CASE sweepFailed
  BY <1>19 DEF sweepFailed, NoTeardown
<1>20. CASE closeDb
  BY <1>20 DEF closeDb, NoTeardown
<1>21. CASE UNCHANGED vars
  BY <1>21 DEF vars
<1> QED
  BY <1>1, <1>2, <1>3, <1>4, <1>5, <1>6, <1>7, <1>8, <1>9, <1>10, <1>11, <1>12, <1>13,
     <1>14, <1>15, <1>16, <1>17, <1>18, <1>19, <1>20, <1>21
     DEF Next, AttemptStep, TeardownStep

-----------------------------------------------------------------------------
(* The present account *)

LEMMA OursInit == Init => OursInv
  BY DEF Init, OursInv, Ours, Unpublished, NoAttempt, StartupPhases

\* A Maker is constructed only when nothing depends on one.
LEMMA MakerMade ==
    ASSUME TypeInv, Ours, NEW settled, getMakerCore(settled), maker' # maker
    PROVE  /\ controller = None /\ ready = None
           /\ attempt.pc # "idle" => attempt.gen # goalGen
           /\ attempt.pc \notin StartupPhases
           /\ published = None \/ Resets \/ attempt.pc = "resetting"
           /\ maker' \in Nat
<1>1. maker = None /\ maker' \in Nat
  BY DEF getMakerCore, MakerCore, TypeInv, MakerTypes
<1>2. \A s \in Ids : born[s].maker \in 1 .. makers
  <2> TAKE s \in Ids
  <2>1. born[s] \in [gen : 0 .. startupGen, maker : 1 .. makers]
    BY ElementOfSeq DEF TypeInv, HostTypes, Ids
  <2> QED
    BY <2>1
<1>3. \A s \in Ids : born[s].maker # maker
  BY <1>1, <1>2, NoneAssumption DEF TypeInv, MakerTypes
<1>4. attempt.pc # "idle" => attempt.maker # maker
  BY <1>1, NoneAssumption DEF TypeInv, MakerTypes, AttemptTypes
<1>5. ready = None /\ (published = None \/ Resets \/ attempt.pc = "resetting")
  BY <1>3 DEF TypeInv, HostTypes, Ours
<1>6. /\ attempt.pc # "idle" => attempt.gen # goalGen
      /\ attempt.pc \notin StartupPhases
  BY <1>4 DEF Ours, StartupPhases
<1> QED
  BY <1>1, <1>5, <1>6 DEF Ours

LEMMA OursStep ==
    TypeInv /\ FenceInv /\ BoundaryInv /\ OursInv /\ [Next]_vars => OursInv'
<1> SUFFICES ASSUME TypeInv, FenceInv, BoundaryInv, OursInv, [Next]_vars PROVE OursInv'
  OBVIOUS
<1> USE NoneAssumption DEF TypeInv, MakerTypes, HostTypes, AttemptTypes, TeardownTypes, FenceInv,
     Accounted, Stops, Unpublished, BoundaryInv, Boundary, Leaving, Resets, Cleared, OursInv, Ours,
     Ids, StartupPhases, dbVars, makerVars, goalVars, hostVars, ipcVars, attemptVars
<1>1. CASE Login
  BY <1>1 DEF Login, Quiet
<1>2. CASE startReadinessConsumers
  <2>1. CASE maker' = maker
    BY <1>2, <2>1 DEF startReadinessConsumers
  <2>2. CASE maker' # maker
    BY <1>2, <2>2, MakerMade DEF startReadinessConsumers
  <2> QED
    BY <2>1, <2>2
<1>3. CASE initialRefreshSettled
  BY <1>3 DEF initialRefreshSettled
<1>4. CASE beginAttempt
  <2>1. maker' = MakerCore /\ (lapsed => lapsed')
    BY <1>4 DEF beginAttempt, getMakerCore
  <2>2. CASE maker' = maker
    BY <1>4, <2>1, <2>2 DEF beginAttempt, NoAttempt
  <2>3. CASE maker' # maker
    BY <1>4, <2>1, <2>3, MakerMade DEF beginAttempt, NoAttempt
  <2> QED
    BY <2>2, <2>3
<1>5. CASE startScheduler
  <2>1. /\ UNCHANGED <<lapsed, makerVars, goalVars, published, running, ipcVars, teardown, dbReady>>
        /\ attempt.pc = "refresh"
    BY <1>5 DEF startScheduler
  <2>2. CASE attempt' = NoAttempt /\ born' = born
    BY <2>1, <2>2 DEF NoAttempt
  <2>3. CASE /\ ~OutOfDate /\ born' = born
             /\ attempt' = [attempt EXCEPT !.pc = "answered", !.scheduler = published]
    <3>1. attempt'.pc = "answered" /\ attempt'.gen = goalGen' /\ attempt'.scheduler = published'
          /\ attempt'.maker = attempt.maker /\ attempt.gen = goalGen
      BY <2>1, <2>3 DEF OutOfDate
    <3> QED
      BY <2>1, <2>3, <3>1
  <2>4. CASE /\ ~OutOfDate /\ published = None
             /\ born' = Append(born, [gen |-> startupGen, maker |-> attempt.maker])
             /\ attempt' = [attempt EXCEPT !.pc = "starting", !.scheduler = Len(born) + 1]
    <3>1. attempt'.pc = "starting" /\ attempt'.scheduler = Len(born) + 1
          /\ attempt'.maker = attempt.maker /\ attempt'.gen = attempt.gen /\ attempt.gen = goalGen
      BY <2>1, <2>4 DEF OutOfDate
    <3>2. born'[Len(born) + 1].maker = attempt.maker
      BY <2>4
    <3>3. ~lapsed => ready = None /\ attempt.maker = maker
      BY <2>1, <2>4, <3>1
    <3> QED
      BY <2>1, <2>4, <3>1, <3>2, <3>3
  <2> QED
    BY <1>5, <2>2, <2>3, <2>4 DEF startScheduler
<1>6. CASE startAnswered
  BY <1>6 DEF startAnswered, SupersededStopped, Rejected
<1>7. CASE cleanupAnswered
  BY <1>7 DEF cleanupAnswered, SupersededStopped, Rejected
<1>8. CASE publish
  BY <1>8 DEF publish
<1>9. CASE attachOrReset
  BY <1>9 DEF attachOrReset, OutOfDate, StopPublished, NoAttempt, ControllerOf
<1>10. CASE clearAfterReset
  BY <1>10 DEF clearAfterReset, NoAttempt
<1>11. CASE beginTeardown
  BY <1>11 DEF beginTeardown, At, resetGoalController, Quiet
<1>12. CASE fenceRaised
  BY <1>12 DEF fenceRaised, At
<1>13. CASE fenceFailed
  <2>1. /\ maker' = MakerCore /\ controller' = ControllerOf(MakerCore)
        /\ getMakerCore(FALSE) /\ teardown.pc = "fence" /\ Quiet
        /\ UNCHANGED <<dbVars, goalGen, hostVars, ipcVars, attempt, lapsed>>
        /\ teardown' = NoTeardown
    BY <1>13 DEF fenceFailed, restoreAccountHost, getMakerCore
  <2>2. ~lapsed => controller' = maker'
    BY <2>1 DEF ControllerOf
  <2>3. CASE maker' = maker
    BY <2>1, <2>2, <2>3 DEF NoTeardown
  <2>4. CASE maker' # maker
    BY <2>1, <2>2, <2>4, MakerMade DEF NoTeardown
  <2> QED
    BY <2>3, <2>4
<1>14. CASE resetScheduler
  BY <1>14 DEF resetScheduler, StopPublished, At, Quiet
<1>15. CASE startupSettled
  BY <1>15 DEF startupSettled, StopPublished
<1>16. CASE clearScheduler
  BY <1>16 DEF clearScheduler, At
<1>17. CASE disposeGoals
  BY <1>17 DEF disposeGoals, At, resetGoalController, Quiet
<1>18. CASE sweepDone
  BY <1>18 DEF sweepDone, At
<1>19. CASE sweepFailed
  BY <1>19 DEF sweepFailed, NoTeardown
<1>20. CASE closeDb
  BY <1>20 DEF closeDb, NoTeardown
<1>21. CASE UNCHANGED vars
  BY <1>21 DEF vars
<1> QED
  BY <1>1, <1>2, <1>3, <1>4, <1>5, <1>6, <1>7, <1>8, <1>9, <1>10, <1>11, <1>12, <1>13,
     <1>14, <1>15, <1>16, <1>17, <1>18, <1>19, <1>20, <1>21
     DEF Next, AttemptStep, TeardownStep

-----------------------------------------------------------------------------
(* The theorems *)

\* Every reachable state satisfies the inductive invariant: what ticks is
\* published or on its way to be, and what a reset of scheduler-host waits for
\* or has stopped is all there was.
THEOREM FenceInvariant == Spec => []IInv
<1>1. Init => IInv
  BY TypeInit, FenceInit, BoundaryInit, OursInit DEF IInv
<1>2. IInv /\ [Next]_vars => IInv'
  BY TypeStep, FenceStep, BoundaryStep, OursStep DEF IInv
<1> QED
  BY <1>1, <1>2, PTL DEF Spec

\* Type correctness, for every bound.
THEOREM TypeCorrect == Spec => []TypeOK
<1>1. IInv => TypeOK
  BY DEF IInv, TypeInv, AccountTypes, MakerTypes, HostTypes, AttemptTypes, TeardownTypes, TypeOK
<1> QED
  BY <1>1, FenceInvariant, PTL

\* runSchedulerStartup and resetScheduler between them never leave two
\* schedulers ticking, however attempts and teardowns overlap.
THEOREM SchedulerIsUnique == Spec => []OneScheduler
<1>1. IInv => OneScheduler
  <2> SUFFICES ASSUME IInv, NEW s \in running, NEW t \in running PROVE s = t
    BY DEF OneScheduler
  <2>1. s # None /\ t # None
    BY NoneAssumption DEF IInv, TypeInv, HostTypes, Ids
  <2>2. CASE Unpublished
    BY <2>1, <2>2 DEF IInv, FenceInv, Accounted, Unpublished, StartupPhases
  <2>3. CASE ~Unpublished
    BY <2>3 DEF IInv, FenceInv, Accounted
  <2> QED
    BY <2>2, <2>3
<1> QED
  BY <1>1, FenceInvariant, PTL

\* When resetScheduler of a teardown returns, nothing ticks, and what is
\* starting began after the reset did.
THEOREM ResetIsComplete == Spec => ResetLeavesNothingOlder
<1>1. IInv /\ [Next]_vars =>
        [clearScheduler => /\ running' = {}
                           /\ StartupPromise' # None => born'[StartupPromise'].gen = startupGen']_vars
  <2> SUFFICES ASSUME IInv, clearScheduler
               PROVE  /\ running' = {}
                      /\ StartupPromise' # None => born'[StartupPromise'].gen = startupGen'
    OBVIOUS
  <2>1. teardown.pc = "stopping" /\ running' = running /\ born' = born
        /\ startupGen' = startupGen /\ attempt' = attempt
    BY DEF clearScheduler, hostVars, attemptVars
  <2>2. running = {}
    BY <2>1, NoneAssumption DEF IInv, TypeInv, HostTypes, FenceInv, Accounted, Stops, Unpublished
  <2>3. StartupPromise # None => born[StartupPromise].gen = startupGen
    BY <2>1 DEF IInv, FenceInv, Stops, StartupPromise
  <2> QED
    BY <2>1, <2>2, <2>3 DEF StartupPromise
<1> QED
  BY <1>1, FenceInvariant, PTL DEF Spec, ResetLeavesNothingOlder

\* When the database of an account closes, and until the next one opens,
\* nothing of the account ticks, is ready or dispatches goals, unless an attempt
\* began while the teardown was under way.
THEOREM AccountEndsClean == Spec => []NothingOutlivesItsAccount
<1>1. IInv => NothingOutlivesItsAccount
  BY DEF IInv, BoundaryInv, Boundary, Leaving, Resets, Cleared, NothingOutlivesItsAccount
<1> QED
  BY <1>1, FenceInvariant, PTL

\* Between teardowns the scheduler that callers are given is the published one,
\* it ticks, and it and the goal controller use the Maker of the account.
THEOREM RuntimeIsCurrent == Spec => []RuntimeIsOurs
<1>1. IInv => RuntimeIsOurs
  BY DEF IInv, OursInv, Ours, RuntimeIsOurs
<1> QED
  BY <1>1, FenceInvariant, PTL
=============================================================================
