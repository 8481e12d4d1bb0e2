-------------------------- MODULE AttemptLifecycle --------------------------
(***************************************************************************)
(* The phase table of an in-flight attempt (engine/attemptLifecycle.ts).   *)
(* "none" is not a phase of the code: it stands for "no entry in the       *)
(* inflightAttempts map", before the attempt begins and after it is        *)
(* deleted.                                                                *)
(***************************************************************************)

ScheduleRunPhase ==
    {"loading", "claiming", "persisting", "running", "queued", "cancelling",
     "finalizing"}

Phases == ScheduleRunPhase \cup {"none"}

\* The two phases in which beginInflightAttempt registers an attempt.
EntryPhases == {"claiming", "loading"}

LEGAL_PHASE_TRANSITIONS ==
    [p \in ScheduleRunPhase |->
        CASE p \in EntryPhases  -> {"persisting"}
          [] p = "persisting"   -> {"running", "finalizing"}
          [] p = "running"      -> {"queued", "finalizing"}
          [] p = "queued"       -> {"running", "cancelling", "finalizing"}
          [] p = "cancelling"   -> {"finalizing"}
          [] p = "finalizing"   -> {}]

\* Re-entering the current phase is legal and a no-op.
isLegalPhaseTransition(from, to) ==
    from = to \/ to \in LEGAL_PHASE_TRANSITIONS[from]

\* The phases countSlotsInUse does not count.
SlotFreePhases == {"none", "queued", "cancelling"}

\* The phases in which an attempt may be running, or about to run, an agent.
ExecutingPhases == {"claiming", "loading", "persisting", "running"}
=============================================================================
