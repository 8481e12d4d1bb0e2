-------------------------- MODULE SchedulerClaims ---------------------------
(***************************************************************************)
(* A sentence of the repository about the schedule engine that the code    *)
(* does not keep, stated as the comment says it; the README tells how the  *)
(* code comes to break it, and names the others.                           *)
(***************************************************************************)
EXTENDS SchedulerProps

\* scheduler.ts on pendingReplans: a transient storage error must not stop an
\* active recurring schedule until the process is restarted.
StorageErrorStallsNoSchedule == NoOrphanedSchedule
=============================================================================
