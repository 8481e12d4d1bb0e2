-------------------------- MODULE MCGoalController --------------------------
(***************************************************************************)
(* Values of the constants of GoalController for TLC.                      *)
(***************************************************************************)
EXTENDS GoalController, TLC

TaskSymmetry == Permutations(Tasks)

\* Three events from outside: calls of the user, or one of them and a failure.
\* After a lapse, which most properties exclude, the last one is a Stop.
FewEvents ==
    /\ calls + 2 * faults <= 3
    /\ lapses # {} => faults = 0 /\ (calls = MaxCalls => stopped)
=============================================================================
