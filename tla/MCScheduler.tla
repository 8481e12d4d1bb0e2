---------------------------- MODULE MCScheduler -----------------------------
(***************************************************************************)
(* Values of the constants of Scheduler for TLC.                           *)
(***************************************************************************)
EXTENDS SchedulerClaims, TLC

Cron(recurring) == [recurring |-> recurring, manual |-> FALSE, interval |-> FALSE]
Interval == [recurring |-> TRUE, manual |-> FALSE, interval |-> TRUE]

IntervalShapes == {Interval}
CronShapes     == {Cron(TRUE)}
BothShapes     == {Interval, Cron(FALSE)}

NoPatch == [recurring |-> Keep, manual |-> Keep, interval |-> Keep]
NoPatches == {}
CadencePatches == {[NoPatch EXCEPT !.interval = TRUE], [NoPatch EXCEPT !.manual = TRUE],
                   [NoPatch EXCEPT !.manual = FALSE]}

RunnerOutcomes == OutcomeKinds \ {"aborting"}

\* The storage calls whose failure the engine tolerates: it goes on, or keeps
\* what it has not done in pendingReplans.
ToleratedSites == {"refresh", "load", "bookkeep", "stamp", "undo", "finalize", "force",
                   "sync", "sweep"}
NoSites == {}
ReplanSites == {"insert", "replan"}

\* A verdict and an undone run; "failed" and "skipped" are settled as "success" is.
VerdictOrUndo == {"success", "deferred"}

Success  == {"success"}

RunSymmetry == Permutations(Runs)

FairSpecUp == SpecUp /\ Fairness

\* Two instances tick and the passive ones have died, or one instance ticks
\* beside the passive ones and no other will die.
HandoverInit ==
    \/ /\ InitWith([i \in Instances |-> IF i \in Passive THEN "dead" ELSE "up"], 0, Unborn)
       /\ Spent(0, 0, 1)
    \/ /\ InitWith([AllUp EXCEPT ![CHOOSE i \in Instances : i \notin Passive] = "dead"], 0, Unborn)
       /\ Spent(0, 0, MaxDowns)
FairHandover == HandoverInit /\ [][Next]_vars /\ Fairness

FireSites == {"start", "claim", "insert"}

\* An instance that has started serves the user without failures, or one that
\* has a single schedule starts and goes down once, with failures.
ServeOrRestartInit ==
    \/ /\ InitWith(AllUp, 0, Unborn)
       /\ Spent(MaxFaults, 0, MaxDowns)
    \/ /\ InitWith([i \in Instances |-> "new"], 0, ScriptSchedules)
       /\ Spent(0, MaxCommands, 0)
SpecServeOrRestart == ServeOrRestartInit /\ [][Next]_vars

=============================================================================
