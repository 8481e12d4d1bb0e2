--------------------------- MODULE ScheduleTiming ---------------------------
(***************************************************************************)
(* A schedule row and the arithmetic that arms it: computeNextFireAt and   *)
(* its callees in engine/scheduler.ts.  Time is a natural number.  A row   *)
(* keeps what the engine decides on: the name, prompt, workspace and model *)
(* fields are left out.  One constant, Period, is both the interval of an  *)
(* interval schedule and the spacing of the slots of a cron schedule.      *)
(***************************************************************************)
EXTENDS Integers

CONSTANTS Period, None

ASSUME TimingAssumption == Period \in Nat \ {0} /\ None \notin Nat

\* "unborn" and "deleted" are not statuses of the code: no row has that id.
Statuses == {"unborn", "active", "paused", "expired", "deleted"}

\* interval: intervalMs is set.  lastFired: lastFiredAt is set.
\* restBase: lastFinishedAt ?? createdAt, the base of a restarted interval.
Schedule ==
    [status : Statuses, recurring : BOOLEAN, manual : BOOLEAN,
     interval : BOOLEAN, nextFireAt : Nat \cup {None}, lastFired : BOOLEAN,
     restBase : Nat]

Exists(s) == s.status \in {"active", "paused", "expired"}

\* The first cron slot strictly after t.
nextCronOrMonthlyFire(t) == ((t \div Period) + 1) * Period

\* A cold start of the cadence at t: a fresh interval, or the next cron slot.
coldStart(s, t) == IF s.interval THEN t + Period ELSE nextCronOrMonthlyFire(t)

nextIntervalFire(base, t) ==
    IF base + Period > t THEN base + Period ELSE t + Period

computeNextFireAt(s, t) ==
    IF s.manual \/ (~s.recurring /\ s.lastFired) THEN None
    ELSE IF s.interval THEN nextIntervalFire(s.restBase, t)
    ELSE nextCronOrMonthlyFire(t)
=============================================================================
