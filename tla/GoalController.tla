--------------------------- MODULE GoalController ---------------------------
(***************************************************************************)
(* GoalController (apps/desktop goal-host/controller.ts) for one session:  *)
(* it runs one agent turn after another until the goal is reached, while   *)
(* the user may stop, resume, replace or clear the goal at any time.       *)
(*                                                                         *)
(* Every operation is asynchronous.  A task is one operation under way; it *)
(* stops at each await and an action is the code from one await to the     *)
(* next.  One worker serves the calls of the storage in the order they are *)
(* made and its answers come in that order: `queue'.  A call takes effect  *)
(* in the step that uses its answer, which nobody can tell from earlier.   *)
(*                                                                         *)
(* `turns' holds the owner of the goal's lifecycle, an object whose        *)
(* identity and generation every operation compares, after each await, with*)
(* the one it started from.  A replaced owner never returns, so a task     *)
(* keeps only whether its owner is still the current one: "cur".           *)
(*                                                                         *)
(* A definition whose comment begins "Fault:" is a faulty variant of the   *)
(* one after it, which no action uses.                                     *)
(***************************************************************************)
EXTENDS Naturals, FiniteSets, Sequences

CONSTANTS
    Tasks,          \* operations under way at a time
    MaxTurns,       \* maxTurns of every goal
    MaxRejections,  \* DISPATCH_REJECTION_MAX_ATTEMPTS
    Prompt,         \* TRUE: the storage and Session.send answer before a later timer fires
    MaxCalls,       \* calls of the user, his own turns among them
    MaxFaults,      \* awaited calls that fail
    None

ASSUME GoalAssumption ==
    /\ None \notin Tasks
    /\ {MaxTurns, MaxRejections, MaxCalls, MaxFaults} \subseteq Nat
    /\ MaxTurns > 0 /\ MaxRejections > 0
    /\ Prompt \in BOOLEAN

VARIABLES
    row,      \* the row of session_goals
    mem,      \* the fields of the controller
    task,     \* the operations under way
    queue,    \* those that wait for an answer of the storage
    session,  \* the turn the agent session runs
    hydrated, \* getSession finds the session
    stopped,  \* the user's last word was Stop or Clear
    lapses,   \* what has gone wrong in a way the code is known to allow
    calls, faults

vars == <<row, mem, task, queue, session, hydrated, stopped, lapses, calls, faults>>

Statuses == {"active", "paused", "blocked", "usageLimited", "budgetLimited"}

\* resets: usageResetAt is set; objective: the call of setGoal it came from.
Row == [status : Statuses, used : 0 .. MaxTurns, resets : BOOLEAN, objective : 0 .. MaxCalls]

Memory ==
    [owner : {"none", "live", "cancelled"},  \* turns
     finalized : BOOLEAN,
     persisting : SUBSET Tasks,   \* pendingPersistence of the owner
     completing : SUBSET Tasks,   \* pendingCompletion
     listening : BOOLEAN,         \* unsubscribers
     timer : BOOLEAN,             \* timers
     late : SUBSET Tasks,         \* storage work older than the timer
     older : SUBSET Tasks,        \* storage work older than the turn
     usageTimer : BOOLEAN,        \* usageResumeTimers
     firing : Tasks \cup {None},
     claimed : BOOLEAN,           \* goalTurnsInFlight
     rejections : 0 .. MaxRejections,
     deferred : {"no", "claimed", "waiting", "armed"},  \* deferredManualResumes
     restores : BOOLEAN,          \* its context has a usageResetAt
     bound : BOOLEAN,             \* its context's boundary is the owner
     unsaved : BOOLEAN]           \* unpersistedDispatchFailures

\* An edit refused while the user's own turn runs leaves its owner behind; a
\* resume that overlaps an edit leaves the turn to a fire that its owner outdates,
\* or waits for the session longer than the edit lasts, or drops their owner;
\* the timer of a usage limit finds an operation that soon gives up;
\* a goal is blocked, and its owner dropped, whose completion is being recorded.
Lapses == {"refused edit", "crossed resume", "dropped limit", "forgotten completion"}

NoMemory == [owner |-> "none", finalized |-> FALSE, persisting |-> {}, completing |-> {},
             listening |-> FALSE, timer |-> FALSE, late |-> {}, older |-> {}, usageTimer |-> FALSE, firing |-> None,
             claimed |-> FALSE, rejections |-> 0, deferred |-> "no", restores |-> FALSE,
             bound |-> FALSE, unsaved |-> FALSE]

Operations == {"none", "pause", "clear", "set", "edit", "create", "resume", "auto", "reauto",
               "open", "boot", "idle", "fire", "final"}
Points == {"end", "barrier", "get", "hydrate", "notice", "prepare", "gate", "sent",
           "limit", "record", "write", "wrote", "failed"}
Verdicts == {"active", "complete", "paused", "blocked", "usageLimited", "other"}

\* put: the status to write, or the outcome of a turn; used and resets: to write
\* with it (resume: whether it found a usageResetAt);
\* owns: the task made its owner (set: it found none); cut: its dispatch signal
\* is aborted; retry and hadTurn: the rejections and the turn it interrupted.
Task == [op : Operations, at : Points, cur : BOOLEAN, owns : BOOLEAN, cut : BOOLEAN,
         used : 0 .. MaxTurns, resets : BOOLEAN, put : Statuses \cup Verdicts \cup {"delete"},
         retry : 0 .. MaxRejections, hadTurn : BOOLEAN, objective : 0 .. MaxCalls]

Idle == [op |-> "none", at |-> "end", cur |-> FALSE, owns |-> FALSE, cut |-> FALSE,
         used |-> 0, resets |-> FALSE, put |-> "active", retry |-> 0, hadTurn |-> FALSE, objective |-> 0]

New(op, at) == [Idle EXCEPT !.op = op, !.at = at, !.cur = TRUE]

(***************************************************************************)
(* Steps of a task.  A task goes on as r with the controller's fields m;   *)
(* when turns gets another owner or generation, the others lose theirs.    *)
(***************************************************************************)

\* goalDispatchAbortControllers: the dispatch that stopSession cut off.
Cut(u, t, m) == /\ u # t /\ mem.firing = u /\ m.firing # u
                /\ task[u].at \in {"hydrate", "prepare", "gate"}

Others(t, m, r, losers) ==
    [u \in Tasks |-> IF u = t THEN r
                     ELSE [task[u] EXCEPT !.cur = @ /\ task[u].op \notin losers,
                                          !.cut = @ \/ Cut(u, t, m)]]

\* The answer to a call of t is the next one.
Answered(t) == queue # <<>> /\ Head(queue) = t

\* Points that only the storage can hold up.
Local == {"barrier", "get", "write", "wrote"}

Waiting == {u \in Tasks : task[u].at \in Local}

\* t goes on at r, which may call the storage again.
Served(t) == IF Answered(t) THEN Tail(queue) ELSE queue
Step(t, m, r, losers) ==
    /\ LET waits == {u \in Tasks : (IF u = t THEN r ELSE task[u]).at \in Local} IN
       mem' = [m EXCEPT !.late = @ \cap waits, !.older = @ \cap waits]
    /\ task' = Others(t, m, r, losers)
    /\ queue' = IF r.at \in {"get", "write", "wrote"} THEN Append(Served(t), t) ELSE Served(t)

\* The owner stays.
Keep(t, m, r) == Step(t, m, r, {})

\* resetTurn: the next generation; only fireTurn and finalizeTurn compare it.
Renew(t, m, r) == Step(t, [m EXCEPT !.finalized = FALSE], r, {"fire", "final"})

\* turns.set of another owner, or turns.delete.
Replace(t, m, r) == Step(t, m, r, Operations)

\* A freshTurn that inherits the barriers of the previous owner.
Owned(m, owner) == [m EXCEPT !.owner = owner, !.finalized = FALSE, !.bound = FALSE]

\* turns.delete: the barriers are gone with the owner.
Disowned(m) == [Owned(m, "none") EXCEPT !.persisting = {}, !.completing = {}]

\* scheduleContinuation: a timer of 150 ms, or of the backoff.
Armed(m) == [m EXCEPT !.timer = TRUE, !.late = Waiting]

\* Fault: the dispatch that is under way is not cut off.
DetachedUncut(m) == [m EXCEPT !.listening = FALSE, !.timer = FALSE, !.late = {},
                              !.claimed = FALSE, !.rejections = 0, !.unsaved = FALSE]

\* stopSession, but for turns.
Detached(m) == [m EXCEPT !.listening = FALSE, !.timer = FALSE, !.late = {}, !.firing = None,
                         !.claimed = FALSE, !.rejections = 0, !.unsaved = FALSE]

stopSession(m) == Disowned(Detached(m))

\* Fault: a session that runs a turn is not listened to.
attachListenerWhenIdle(m) == [m EXCEPT !.listening = @ \/ (hydrated /\ session = "idle")]

attachListener(m) == [m EXCEPT !.listening = @ \/ hydrated]

\* completeDeferredManualResume, and cancelDeferredManualResume.
CancelDeferred(m) == [m EXCEPT !.deferred = "no", !.restores = FALSE, !.bound = FALSE]

\* cancelDeferredManualResume with restoreUsageResume, but for turns.
RestoreDeferred(m) == CancelDeferred([m EXCEPT !.usageTimer = @ \/ m.restores])

isBusy(m) == m.firing # None \/ m.claimed \/ session # "idle"

\* Fault: one turn too many.
exceedsGoalBudgetByOne(r) == r.used > MaxTurns

exceedsGoalBudget(r) == r.used >= MaxTurns

\* The finally block of fireTurn.
Finished(t, m) == IF m.firing = t THEN [m EXCEPT !.firing = None] ELSE m

End(t, m) == Keep(t, Finished(t, m), Idle)

\* setGoal compares with the owner it found, or with its absence.
Current(t) == IF task[t].op = "set" /\ task[t].owns THEN mem.owner = "none" ELSE task[t].cur

\* Fault: the owner waits for a completion that is over.
SettledWrites(t) == [mem EXCEPT !.persisting = @ \ {t}]

\* trackPersistence: the owner waits for the write; Settled: it no longer does.
Persisting(t, m) == [m EXCEPT !.persisting = @ \cup {t}]
Writing(r, status) == [r EXCEPT !.at = "write", !.put = status]
Persist(t, m, status) == Keep(t, Persisting(t, m), Writing(task[t], status))
Settled(t) == [mem EXCEPT !.persisting = @ \ {t}, !.completing = @ \ {t}]

To(t, at) == [task[t] EXCEPT !.at = at]
At(t, op, at) == /\ task[t].op = op /\ task[t].at = at
                 /\ at \in {"get", "write", "wrote"} => Answered(t)
\* Fault: the owner is not compared after the await.
ResumedAnyway(t, op, at) == At(t, op, at)

Resumed(t, op, at) == At(t, op, at) /\ Current(t)   \* the await is over, the owner is current

Quiet == \A t \in Tasks : task[t].op = "none"

EnvUnchanged == UNCHANGED <<row, session, hydrated, stopped, lapses, calls, faults>>

\* ensureSession finds or restores the session.
Ensured == hydrated' = TRUE /\ UNCHANGED <<row, session, stopped, lapses, calls, faults>>

\* An awaited call fails.
Fault == /\ faults < MaxFaults /\ faults' = faults + 1
         /\ UNCHANGED <<row, session, hydrated, stopped, lapses, calls>>

(***************************************************************************)
(* Steps common to the operations.                                         *)
(***************************************************************************)

\* After an await the owner is another one: the operation is given up.
Superseded(t) ==
    /\ \E at \in {"barrier", "get", "hydrate", "notice", "prepare", "limit"} : At(t, task[t].op, at)
    /\ task[t].op \notin {"idle", "boot"} /\ ~Current(t)
    /\ End(t, mem) /\ EnvUnchanged

\* A failed write of the status that a restored session or a turn did not get.
Blocks(t) == task[t].op # "final" /\ task[t].put = "blocked"

\* What the statement of a task leaves of the row.
Applied(t) ==
    LET r == task[t]
        ends == r.op = "final" IN
    IF r.put = "delete" THEN None
    ELSE IF r.op = "create"
    THEN [status |-> "active", used |-> 0, resets |-> FALSE, objective |-> r.objective]
    ELSE IF row = None THEN None
    ELSE [status |-> IF ends /\ r.put = "active" THEN row.status ELSE r.put,
          used |-> IF ends THEN r.used ELSE row.used,
          resets |-> IF ends THEN r.put = "usageLimited" /\ r.resets
                     ELSE row.resets /\ r.put \in {"blocked", "budgetLimited"},
          objective |-> IF r.op = "edit" /\ r.put = "active" THEN r.objective ELSE row.objective]

\* A statement takes effect; an UPDATE is followed by a read of the row.
Write(t) ==
    /\ At(t, task[t].op, "write")
    /\ row' = Applied(t)
    /\ Keep(t, mem, To(t, "wrote"))
    /\ UNCHANGED <<session, hydrated, stopped, lapses, calls, faults>>

\* It fails, or the read or the message that follows it does.
WriteFails(t) ==
    /\ At(t, task[t].op, "write") /\ faults < MaxFaults /\ faults' = faults + 1
    /\ row' \in {row, Applied(t)}
    /\ Keep(t, mem, To(t, "failed"))
    /\ UNCHANGED <<session, hydrated, stopped, lapses, calls>>

\* Fault: only the writes are awaited, not the end of a completed goal.
WaitedForWrites(t, op) == Resumed(t, op, "barrier") /\ mem.persisting = {}

\* awaitPendingLifecycle, for pauseGoal awaitPendingPersistence, is over.
Waited(t, op) ==
    /\ Resumed(t, op, "barrier") /\ mem.persisting = {}
    /\ op # "pause" => mem.completing = {}

\* blockDispatchFailure ends: on success the goal is stopped, else its owner is
\* fenced off until resumeOnOpen has saved the failure.
BlockSettled(t) ==
    /\ At(t, task[t].op, "wrote") \/ At(t, task[t].op, "failed")
    /\ Blocks(t)
    /\ \/ ~task[t].cur /\ End(t, Settled(t)) /\ UNCHANGED lapses
       \/ /\ task[t].cur /\ task[t].at = "wrote"
          /\ Replace(t, stopSession(Settled(t)), Idle)
          /\ lapses' = lapses \cup (IF mem.completing = {} THEN {} ELSE {"forgotten completion"})
       \/ /\ task[t].cur /\ task[t].at = "failed"
          /\ Replace(t, [Owned(Detached(Settled(t)), "cancelled") EXCEPT !.unsaved = TRUE], Idle)
          /\ UNCHANGED lapses
    /\ UNCHANGED <<row, session, hydrated, stopped, calls, faults>>

\* A write of an operation that is no longer current has settled.
LateSettled(t) ==
    /\ At(t, task[t].op, "wrote") \/ At(t, task[t].op, "failed")
    /\ ~task[t].cur /\ ~Blocks(t)
    /\ ~(task[t].op = "resume" /\ task[t].at = "failed")
    /\ End(t, Settled(t)) /\ EnvUnchanged

Owns(t, op, at) == At(t, op, at) /\ task[t].cur /\ ~Blocks(t)

(***************************************************************************)
(* pauseGoal, which is also what Stop does, and clearGoal.                 *)
(***************************************************************************)

\* The user calls an operation.
Call(t) == task[t].op = "none" /\ calls < MaxCalls /\ calls' = calls + 1
CallUnchanged == UNCHANGED <<row, session, hydrated, lapses, faults>>

\* The owner is fenced off before anything is awaited.
TakeOver(t, op) ==
    Replace(t, [Owned(CancelDeferred(Detached(mem)), "cancelled") EXCEPT !.usageTimer = FALSE],
            [New(op, "barrier") EXCEPT !.objective = calls])

pauseGoal(t) == Call(t) /\ TakeOver(t, "pause") /\ stopped' = TRUE /\ CallUnchanged

PauseReady(t) == Waited(t, "pause") /\ Keep(t, mem, To(t, "get")) /\ EnvUnchanged

PauseRead(t) ==
    /\ Resumed(t, "pause", "get")
    /\ IF row # None /\ row.status \in {"active", "usageLimited"}
       THEN Persist(t, mem, "paused") ELSE End(t, mem)
    /\ EnvUnchanged

\* stopActiveGoalTurn is left out: any turn may end at any time.
clearGoal(t) == Call(t) /\ TakeOver(t, "clear") /\ stopped' = TRUE /\ CallUnchanged

ClearReady(t) == Waited(t, "clear") /\ Persist(t, mem, "delete") /\ EnvUnchanged

\* pauseGoal keeps its cancelled owner, clearGoal drops it.
StopSettled(t) ==
    \/ /\ Owns(t, "pause", "wrote") \/ Owns(t, "pause", "failed") \/ Owns(t, "clear", "failed")
       /\ End(t, Settled(t)) /\ EnvUnchanged
    \/ /\ Owns(t, "clear", "wrote")
       /\ Replace(t, Disowned(Settled(t)), Idle) /\ EnvUnchanged

(***************************************************************************)
(* setGoal: a new goal, or another objective for the goal there is.        *)
(***************************************************************************)

\* During a rejection backoff the old objective is fenced off at once; while an
\* old goal is being completed, its clear is awaited first.
setGoal(t) ==
    LET takes == mem.rejections > 0 /\ mem.owner # "none"
        m == IF takes THEN Owned(Detached(CancelDeferred(mem)), "cancelled")
             ELSE CancelDeferred(mem)
        r == [New("set", "get") EXCEPT !.objective = calls + 1,
                 !.retry = IF takes THEN mem.rejections ELSE 0,
                 !.hadTurn = takes /\ mem.claimed]
    IN /\ Call(t)
       /\ \/ /\ mem.completing # {}
             /\ Replace(t, Owned(Detached(m), "live"), [r EXCEPT !.at = "barrier"])
          \/ mem.completing = {} /\ takes /\ Replace(t, m, r)
          \/ /\ mem.completing = {} /\ ~takes
             /\ Keep(t, m, [r EXCEPT !.cur = mem.owner # "none", !.owns = mem.owner = "none"])
       /\ stopped' = FALSE /\ CallUnchanged

SetReady(t) == Waited(t, "set") /\ Keep(t, mem, To(t, "get")) /\ EnvUnchanged

SetRead(t) ==
    LET r == [To(t, "hydrate") EXCEPT !.cur = TRUE, !.owns = FALSE] IN
    /\ Resumed(t, "set", "get")
    /\ \/ /\ row = None
          /\ Replace(t, Owned(Detached(mem), "live"), [r EXCEPT !.op = "create"])
       \/ /\ row # None /\ mem.owner = "none"
          /\ Replace(t, Owned(mem, "live"), [r EXCEPT !.op = "edit"])
       \/ /\ row # None /\ mem.owner # "none"
          /\ Keep(t, mem, [r EXCEPT !.op = "edit"])
    /\ EnvUnchanged

\* An edit stops the goal's own turn; while the user's turn runs it is refused,
\* and the owner it made stays.
EditHydrated(t) ==
    /\ Resumed(t, "edit", "hydrate") /\ hydrated' = TRUE
    /\ IF isBusy(mem) /\ ~mem.claimed /\ ~task[t].hadTurn
       THEN End(t, mem) /\ lapses' = lapses \cup {"refused edit"}
       ELSE Replace(t, Owned(Detached(mem), "live"), To(t, "barrier")) /\ UNCHANGED lapses
    /\ UNCHANGED <<row, session, stopped, calls, faults>>

CreateHydrated(t) ==
    /\ Resumed(t, "create", "hydrate") /\ Ensured
    /\ Keep(t, mem, To(t, "barrier"))

SetWrites(t) ==
    /\ \/ Waited(t, "edit") /\ Persist(t, [mem EXCEPT !.usageTimer = FALSE], "active")
       \/ Waited(t, "create") /\ Persist(t, mem, "active")
    /\ EnvUnchanged

\* The goal is active: fireTurn.
SetSettled(t) ==
    /\ Owns(t, "edit", "wrote") \/ Owns(t, "create", "wrote")
    /\ IF task[t].op = "edit" /\ row = None
       THEN Replace(t, Disowned(Settled(t)), Idle)
       ELSE Renew(t, attachListener(Settled(t)), New("fire", "get"))
    /\ EnvUnchanged

\* The owner is given up, but an edit that interrupted a rejection backoff goes on.
SetGivenUp(t) ==
    /\ Owns(t, "edit", "failed") \/ Owns(t, "create", "failed")
    /\ IF task[t].retry = 0 THEN Replace(t, Disowned(Settled(t)), Idle)
       ELSE \E n \in {0, task[t].retry} :
            Keep(t, [Armed(attachListener(Settled(t))) EXCEPT !.rejections = n], Idle)
    /\ EnvUnchanged

(***************************************************************************)
(* resumeGoal.  Op "resume" is the user's, "reauto" that of a usage limit  *)
(* that has passed.                                                        *)
(***************************************************************************)
ResumeOps == {"resume", "reauto"}
Limited(r) == r.status = "usageLimited" /\ r.resets
Resumable(r) == r # None /\ r.status \in {"paused", "blocked", "usageLimited"}

\* rebindDeferredManualResumeBoundary.
Rebound(m) == [m EXCEPT !.bound = m.deferred # "no"]

\* A resume starts with the owner there is or with one of its own.
BeginResume(t, m) ==
    \/ m.owner = "cancelled" /\ Keep(t, m, New("resume", "barrier"))
    \/ m.owner = "live" /\ Keep(t, Rebound(m), New("resume", "barrier"))
    \/ /\ m.owner = "none"
       /\ Replace(t, Rebound(Owned(m, "live")), [New("resume", "barrier") EXCEPT !.owns = TRUE])

\* A resume meets an edit under way.
Crossed(meets) ==
    lapses' = lapses \cup (IF meets /\ \E u \in Tasks : task[u].op \in {"set", "edit", "create"}
                           THEN {"crossed resume"} ELSE {})

resumeGoal(t) ==
    /\ Call(t) /\ BeginResume(t, mem) /\ stopped' = FALSE /\ Crossed(TRUE)
    /\ UNCHANGED <<row, session, hydrated, faults>>

ResumeReady(t) ==
    /\ Waited(t, "resume") \/ Waited(t, "reauto")
    /\ Keep(t, mem, To(t, "get")) /\ EnvUnchanged

\* deferManualResumeUntilIdle: a live owner gives way to a cancelled one.
Defer(t, limited) ==
    LET m == IF mem.owner = "live" THEN Owned(Detached(mem), "cancelled") ELSE mem
        d == [m EXCEPT !.restores = limited,
                       !.bound = TRUE,
                       !.deferred = IF ~isBusy(m) \/ @ = "armed" THEN "armed" ELSE "waiting"]
    IN IF mem.owner = "live" THEN Replace(t, d, Idle) ELSE Keep(t, d, Idle)

\* The goal may be resumed: with its budget exhausted the session is not needed.
Proceeds(t, m, r) ==
    IF exceedsGoalBudget(row) THEN <<Persisting(t, m), Writing(r, "active")>>
    ELSE <<m, [r EXCEPT !.at = "hydrate", !.resets = Limited(row)]>>

\* claimDeferredManualResume.
Claimed(m) == [Rebound(m) EXCEPT !.deferred = IF @ = "no" THEN "no" ELSE "claimed",
                                 !.rejections = 0]

\* A cancelled owner is dropped only when the goal can be resumed.
ResumeRead(t) ==
    /\ Resumed(t, "resume", "get")
    /\ \/ /\ ~Resumable(row)
          /\ IF task[t].owns THEN Replace(t, Disowned(CancelDeferred(mem)), Idle)
             ELSE Keep(t, CancelDeferred(mem), Idle)
       \/ /\ Resumable(row) /\ isBusy(mem)
          /\ Defer(t, Limited(row))
       \/ /\ Resumable(row) /\ ~isBusy(mem) /\ mem.owner = "cancelled"
          /\ LET p == Proceeds(t, Claimed(Owned(Disowned(mem), "live")),
                               [task[t] EXCEPT !.owns = TRUE])
             IN Replace(t, p[1], p[2])
       \/ /\ Resumable(row) /\ ~isBusy(mem) /\ mem.owner = "live"
          /\ LET p == Proceeds(t, Claimed(mem), task[t]) IN Keep(t, p[1], p[2])
    /\ Crossed(Resumable(row) /\ isBusy(mem))
    /\ UNCHANGED <<row, session, hydrated, stopped, calls, faults>>

ReautoRead(t) ==
    /\ Resumed(t, "reauto", "get")
    /\ \/ ~Resumable(row) /\ Replace(t, Disowned(mem), Idle)
       \/ /\ Resumable(row)
          /\ LET p == Proceeds(t, mem, task[t]) IN Keep(t, p[1], p[2])
    /\ EnvUnchanged

ResumeHydrated(t) ==
    /\ Resumed(t, "resume", "hydrate") \/ Resumed(t, "reauto", "hydrate")
    /\ LET defers == task[t].op = "resume" /\ isBusy(mem) IN
       /\ IF defers THEN Defer(t, task[t].resets) ELSE Persist(t, mem, "active")
       /\ Crossed(defers)
    /\ hydrated' = TRUE /\ UNCHANGED <<row, session, stopped, calls, faults>>

\* The goal is active again under an owner of its own.
ResumeSettled(t) ==
    /\ \E op \in ResumeOps : Owns(t, op, "wrote")
    /\ row # None
    /\ LET c == IF task[t].op = "resume" THEN CancelDeferred(Settled(t)) ELSE Settled(t)
           m == attachListener(Owned([c EXCEPT !.usageTimer = FALSE], "live"))
       IN /\ Replace(t, m, IF isBusy(m) THEN Idle ELSE New("fire", "get"))
          /\ lapses' = lapses \cup (IF m.firing = None THEN {} ELSE {"crossed resume"})
    /\ UNCHANGED <<row, session, hydrated, stopped, calls, faults>>

\* Also what is left of a resume whose read, session or write failed, current or
\* not: the usage timer is restored and an owner of its own is given up.
GiveUpResume(t, owns) ==
    LET m == IF task[t].op = "resume" THEN RestoreDeferred(Settled(t)) ELSE Settled(t)
        drops == \/ task[t].cur /\ owns
                 \/ task[t].op = "resume" /\ mem.deferred # "no" /\ mem.bound
    IN IF drops THEN Replace(t, Disowned(m), Idle) ELSE Keep(t, m, Idle)

ResumeGivenUp(t) ==
    /\ \/ /\ \E op \in ResumeOps : Owns(t, op, "wrote")
          /\ row = None
       \/ /\ task[t].op \in ResumeOps /\ task[t].at = "failed" /\ ~Blocks(t)
          /\ task[t].cur \/ task[t].op = "resume"
    /\ GiveUpResume(t, task[t].owns \/ task[t].op = "reauto")
    /\ EnvUnchanged

ResumeFails(t) ==
    /\ At(t, "resume", "get") \/ At(t, "resume", "hydrate")
    /\ mem.owner # "cancelled"
    /\ GiveUpResume(t, task[t].owns \/ task[t].at = "hydrate")
    /\ Fault

\* Without a session the goal is blocked.
Unhydrated(t) ==
    /\ \/ /\ Resumed(t, "resume", "hydrate")
          /\ Persist(t, [CancelDeferred(mem) EXCEPT !.usageTimer = FALSE], "blocked")
       \/ /\ Resumed(t, "edit", "hydrate") \/ Resumed(t, "open", "hydrate")
          /\ Persist(t, mem, "blocked")
    /\ Fault

\* A read fails that nothing follows.
ReadFails(t) ==
    /\ At(t, task[t].op, "get")
    /\ \/ task[t].op \in {"pause", "boot", "idle", "final"}
       \/ task[t].op = "set" /\ task[t].retry = 0
       \/ task[t].op = "resume" /\ mem.owner = "cancelled"
    /\ Keep(t, mem, Idle) /\ Fault

(***************************************************************************)
(* The timers: the next turn, a deferred resume, the end of a usage limit. *)
(***************************************************************************)

\* Session.send has the turn accepted and has not answered yet.
Lags(u) == task[u].at = "sent" /\ session # "dispatching"

\* scheduleContinuation: the timer fires and calls fireTurn.
ContinuationFires(t) ==
    /\ task[t].op = "none" /\ mem.timer
    /\ Prompt => mem.late = {} /\ ~\E u \in Tasks : Lags(u)
    /\ Keep(t, [mem EXCEPT !.timer = FALSE, !.late = {}], IF mem.owner = "live" THEN New("fire", "get") ELSE Idle)
    /\ EnvUnchanged

\* scheduleDeferredManualResume.
DeferredResumeFires(t) ==
    /\ task[t].op = "none" /\ mem.deferred = "armed"
    /\ BeginResume(t, [mem EXCEPT !.deferred = "waiting"])
    /\ EnvUnchanged

\* autoResumeFromUsageLimit: any owner there is has the goal already.
autoResumeFromUsageLimit(t) ==
    LET m == [mem EXCEPT !.usageTimer = FALSE] IN
    /\ task[t].op = "none" /\ mem.usageTimer
    /\ Prompt => session # "settling" /\ ~\E u \in Tasks : Lags(u)
    /\ \/ mem.owner # "none" /\ Keep(t, m, Idle)
          /\ lapses' = lapses \cup (IF Quiet THEN {} ELSE {"dropped limit"})
       \/ /\ mem.owner = "none" /\ Replace(t, Owned(m, "live"), New("auto", "get"))
          /\ UNCHANGED lapses
    /\ UNCHANGED <<row, session, hydrated, stopped, calls, faults>>

AutoRead(t) ==
    /\ Resumed(t, "auto", "get")
    /\ IF row = None \/ row.status # "usageLimited"
       THEN Replace(t, Disowned(mem), Idle)
       ELSE Keep(t, mem, IF exceedsGoalBudget(row) THEN New("reauto", "barrier")
                         ELSE To(t, "hydrate"))
    /\ EnvUnchanged

AutoHydrated(t) == Resumed(t, "auto", "hydrate") /\ Keep(t, mem, To(t, "notice")) /\ Ensured

\* persistGoalNotice.
AutoNoticed(t) ==
    /\ Resumed(t, "auto", "notice")
    /\ Keep(t, mem, New("reauto", "barrier")) /\ EnvUnchanged

\* Its owner is given up, also by resumeOnOpen and setGoal.
OwnerGivenUp(t) ==
    /\ \/ \E op \in {"auto", "reauto", "open"} : Resumed(t, op, "get")
       \/ \E op \in {"auto", "reauto", "create"} : Resumed(t, op, "hydrate")
    /\ Replace(t, Disowned(mem), Idle) /\ Fault

(***************************************************************************)
(* resumeOnOpen, resumeActiveGoals, maybeContinueActiveGoal.               *)
(***************************************************************************)

\* A dispatch failure that was not saved is saved again.
resumeOnOpen(t) ==
    /\ Call(t) /\ UNCHANGED stopped /\ CallUnchanged
    /\ \/ /\ mem.unsaved
          /\ Keep(t, Persisting(t, mem), Writing(New("open", "get"), "blocked"))
       \/ /\ ~mem.unsaved /\ ~mem.listening /\ mem.owner = "none"
          /\ Replace(t, Owned(mem, "live"), New("open", "get"))

OpenRead(t) ==
    /\ Resumed(t, "open", "get")
    /\ IF row # None /\ row.status = "active"
       THEN Keep(t, mem, To(t, "hydrate")) ELSE Replace(t, Disowned(mem), Idle)
    /\ EnvUnchanged

OpenHydrated(t) ==
    /\ Resumed(t, "open", "hydrate") /\ Ensured
    /\ LET m == [mem EXCEPT !.listening = TRUE] IN
       Keep(t, m, IF isBusy(m) THEN Idle ELSE New("fire", "get"))

\* Fault: the timer of a usage limit does not survive the process.
resumeOnlyActiveGoals(t) ==
    /\ At(t, "boot", "get")
    /\ LET m == attachListener(Owned(mem, "live")) IN
       IF row # None /\ row.status = "active" /\ mem.owner = "none" /\ hydrated
       THEN Replace(t, m, IF isBusy(m) THEN Idle ELSE New("fire", "get"))
       ELSE Keep(t, mem, Idle)
    /\ EnvUnchanged

\* At the start of the process a goal goes on whose session is there already,
\* and the timer of a usage limit is set again.
resumeActiveGoals(t) ==
    /\ At(t, "boot", "get")
    /\ LET m == attachListener(Owned(mem, "live")) IN
       IF row # None /\ row.status = "active" /\ mem.owner = "none" /\ hydrated
       THEN Replace(t, m, IF isBusy(m) THEN Idle ELSE New("fire", "get"))
       ELSE Keep(t, [mem EXCEPT !.usageTimer = @ \/ (row # None /\ Limited(row))], Idle)
    /\ EnvUnchanged

\* The turn is over for the desktop as well (notifyGoalIdleAfterTurnSettled).
IdleObserved(t) ==
    /\ session = "settling" /\ session' = "idle"
    /\ Prompt => ~\E u \in Tasks : task[u].op = "final" \/ Lags(u)
    /\ task[t].op = "none"
    /\ IF mem.deferred \in {"waiting", "armed"}
       THEN Keep(t, [mem EXCEPT !.deferred = "armed"], Idle)
       ELSE Keep(t, mem, IF mem.listening /\ mem.firing = None THEN New("idle", "get") ELSE Idle)
    /\ UNCHANGED <<row, hydrated, stopped, lapses, calls, faults>>

maybeContinueActiveGoal(t) ==
    /\ At(t, "idle", "get")
    /\ Keep(t, IF row # None /\ row.status = "active" THEN Armed(mem) ELSE mem, Idle)
    /\ EnvUnchanged

(***************************************************************************)
(* fireTurn.                                                               *)
(***************************************************************************)
FireRead(t) ==
    /\ Resumed(t, "fire", "get")
    /\ \/ row = None /\ End(t, mem)
       \/ row # None /\ row.status # "active" /\ End(t, mem)
       \/ /\ row # None /\ row.status = "active" /\ exceedsGoalBudget(row)
          /\ Persist(t, mem, "budgetLimited")
       \/ /\ row # None /\ row.status = "active" /\ ~exceedsGoalBudget(row)
          /\ \/ mem.firing # None /\ Keep(t, mem, Idle)
             \/ mem.firing = None /\ isBusy(mem) /\ Keep(t, Armed(mem), Idle)
             \/ ~isBusy(mem) /\ Keep(t, [mem EXCEPT !.firing = t], To(t, "hydrate"))
    /\ EnvUnchanged

\* The agent switch is applied, the session is there: resetTurn.
FireHydrated(t) ==
    /\ Resumed(t, "fire", "hydrate") /\ Ensured
    /\ Renew(t, mem, To(t, "prepare"))

\* beforeDispatchUserTurn is over: Session.send is called.
FirePrepared(t) ==
    /\ Resumed(t, "fire", "prepare")
    /\ Keep(t, mem, To(t, "gate")) /\ EnvUnchanged

\* onDispatching: the last synchronous step before the agent gets the turn.
onDispatching(t) ==
    /\ At(t, "fire", "gate") /\ ~task[t].cut /\ session = "idle" /\ session' = "dispatching"
    /\ Keep(t, [mem EXCEPT !.claimed = @ \/ task[t].cur, !.older = Waiting], To(t, "sent"))
    /\ UNCHANGED <<row, hydrated, stopped, lapses, calls, faults>>

\* The session runs another turn, or the signal was aborted before.
NotAccepted(t) ==
    /\ At(t, "fire", "gate") /\ (task[t].cut \/ session # "idle")
    /\ End(t, IF task[t].cur THEN [Armed(mem) EXCEPT !.claimed = FALSE] ELSE mem)
    /\ EnvUnchanged

\* The provider refuses the turn: again after a while, or the goal is blocked.
ProviderRejects(t) ==
    LET n == mem.rejections + 1
        m == [mem EXCEPT !.claimed = FALSE]
    IN /\ At(t, "fire", "sent") /\ session = "dispatching" /\ session' = "idle"
       /\ \/ ~task[t].cur /\ End(t, mem)
          \/ task[t].cur /\ n >= MaxRejections /\ Persist(t, m, "blocked")
          \/ /\ task[t].cur /\ n < MaxRejections
             /\ End(t, [Armed(m) EXCEPT !.rejections = n])
       /\ UNCHANGED <<row, hydrated, stopped, lapses, calls, faults>>

Accepted(t) ==
    /\ At(t, "fire", "sent") /\ session # "dispatching"
    /\ End(t, IF task[t].cur THEN [mem EXCEPT !.rejections = 0] ELSE mem)
    /\ EnvUnchanged

\* The row cannot be read, the session restored, or the dispatch confirmed.
FireFails(t) ==
    /\ \E at \in {"get", "hydrate", "prepare", "gate", "sent"} : At(t, "fire", at)
    /\ task[t].at = "sent" => session = "dispatching"
    /\ session' = IF task[t].at = "sent" THEN "idle" ELSE session
    /\ IF task[t].cur
       THEN Persist(t, [mem EXCEPT !.claimed = @ /\ task[t].at = "get"], "blocked")
       ELSE End(t, mem)
    /\ faults < MaxFaults /\ faults' = faults + 1
    /\ UNCHANGED <<row, hydrated, stopped, lapses, calls>>

\* The budget was exhausted: the row says so.
BudgetSettled(t) ==
    /\ \/ /\ Owns(t, "fire", "wrote") /\ Replace(t, stopSession(Settled(t)), Idle)
       \/ /\ Owns(t, "fire", "failed") /\ End(t, Settled(t))
    /\ EnvUnchanged

(***************************************************************************)
(* The agent session, and what the end of a turn leads to.                 *)
(***************************************************************************)
UserTurn ==
    /\ session = "idle" /\ session' = "user" /\ hydrated' = TRUE
    /\ calls < MaxCalls /\ calls' = calls + 1
    /\ mem' = [mem EXCEPT !.older = Waiting]
    /\ UNCHANGED <<row, task, queue, stopped, lapses, faults>>

TurnAccepted ==
    /\ session = "dispatching" /\ session' = "goal"
    /\ UNCHANGED <<row, mem, task, queue, hydrated, stopped, lapses, calls, faults>>

\* onEvent, for a done or a terminal error: a finalizer starts, unless the turn
\* has one already.
TurnEnds(t, verdict) ==
    LET m == [mem EXCEPT !.claimed = @ /\ session # "goal"]
        heard == mem.listening /\ mem.owner # "cancelled"
    IN /\ session \in {"goal", "user"} /\ session' = "settling"
       /\ (verdict = "other") = (session = "user")
       /\ task[t].op = "none" /\ (Prompt => mem.older = {} /\ mem.deferred # "armed")
       /\ \/ /\ ~heard /\ UNCHANGED <<mem, task, queue>>
          \/ /\ heard /\ mem.finalized /\ Keep(t, m, Idle)
          \/ /\ heard /\ ~mem.finalized /\ mem.owner = "live"
             /\ Keep(t, [m EXCEPT !.finalized = TRUE], [New("final", "get") EXCEPT !.put = verdict])
          \/ /\ heard /\ mem.owner = "none"
             /\ Replace(t, [Owned(m, "live") EXCEPT !.finalized = TRUE],
                        [New("final", "get") EXCEPT !.put = verdict])
       /\ UNCHANGED <<row, hydrated, stopped, lapses, calls, faults>>

\* decideNextGoalState; the tokens and the rounds without a tool are left out.
Decision(verdict) ==
    LET used == IF verdict = "other" \/ row.used = MaxTurns THEN row.used ELSE row.used + 1 IN
    [status |-> CASE verdict = "other" -> "paused"
                  [] verdict = "active" /\ used >= MaxTurns -> "budgetLimited"
                  [] OTHER -> verdict,
     used |-> used]

\* finalizeTurn: a goal that is reached is recorded and cleared, a goal that goes
\* on or met a limit looks at the account first.
FinalRead(t) ==
    /\ Resumed(t, "final", "get")
    /\ IF row = None \/ row.status # "active" THEN Replace(t, stopSession(mem), Idle)
       ELSE LET d == Decision(task[t].put)
                r == [task[t] EXCEPT !.put = d.status, !.used = d.used,
                                     !.objective = row.objective]
            IN \/ /\ d.status = "complete"
                  /\ Keep(t, [mem EXCEPT !.completing = @ \cup {t}], [r EXCEPT !.at = "record"])
               \/ /\ d.status \in {"active", "usageLimited"}
                  /\ Keep(t, mem, [r EXCEPT !.at = "limit"])
               \/ /\ d.status = "usageLimited"   \* an overload: the delay is known
                  /\ Keep(t, Persisting(t, mem), Writing([r EXCEPT !.resets = TRUE], d.status))
               \/ /\ d.status \notin {"complete", "active", "usageLimited"}
                  /\ Keep(t, Persisting(t, mem), Writing(r, d.status))
    /\ EnvUnchanged

\* getAccountLimit answers whether the account is limited, and until when.
FinalLimited(t) ==
    /\ Resumed(t, "final", "limit")
    /\ \E limited, resets \in BOOLEAN :
          /\ limited \/ (task[t].put = "active" /\ ~resets)
          /\ Keep(t, Persisting(t, mem),
                  Writing([task[t] EXCEPT !.resets = resets],
                          IF limited THEN "usageLimited" ELSE "active"))
    /\ EnvUnchanged

\* persistGoalCompletion, whose failure is only logged.
FinalRecorded(t) ==
    /\ At(t, "final", "record")
    /\ Keep(t, mem, Writing(task[t], "delete")) /\ EnvUnchanged

FinalSettled(t) ==
    LET m == Settled(t)
        goesOn == task[t].put = "active" /\ row # None /\ row.status = "active"
    IN /\ \/ /\ Owns(t, "final", "failed") /\ End(t, m)
          \/ /\ Owns(t, "final", "wrote") /\ goesOn
             /\ Renew(t, Armed(m), Idle)
          \/ /\ Owns(t, "final", "wrote") /\ ~goesOn
             /\ Replace(t, [stopSession(m) EXCEPT !.usageTimer =
                               IF task[t].put = "usageLimited" THEN task[t].resets ELSE @], Idle)
       /\ EnvUnchanged

-----------------------------------------------------------------------------

\* A process starts, with the row an earlier one left.
Init ==
    /\ row \in {None} \cup [status : {"active", "usageLimited", "paused"}, used : {0},
                            resets : BOOLEAN, objective : {0}]
    /\ row # None /\ row.resets => row.status = "usageLimited"
    /\ mem = NoMemory
    /\ \E t \in Tasks : /\ task = [[u \in Tasks |-> Idle] EXCEPT ![t] = New("boot", "get")]
                       /\ queue = <<t>>
    /\ session = "idle" /\ hydrated \in BOOLEAN
    /\ stopped = FALSE /\ lapses = {} /\ calls = 0 /\ faults = 0

Storage(t) == Write(t) \/ WriteFails(t) \/ ReadFails(t)
Commands(t) == pauseGoal(t) \/ clearGoal(t) \/ setGoal(t) \/ resumeGoal(t) \/ resumeOnOpen(t)
Stopping(t) == PauseReady(t) \/ PauseRead(t) \/ ClearReady(t) \/ StopSettled(t)
Setting(t) ==
    \/ SetReady(t) \/ SetRead(t) \/ EditHydrated(t) \/ CreateHydrated(t) \/ SetWrites(t)
    \/ SetSettled(t) \/ SetGivenUp(t)
Resuming(t) ==
    \/ ResumeReady(t) \/ ResumeRead(t) \/ ReautoRead(t) \/ ResumeHydrated(t)
    \/ ResumeSettled(t) \/ ResumeGivenUp(t) \/ ResumeFails(t) \/ Unhydrated(t)
    \/ AutoRead(t) \/ AutoHydrated(t) \/ AutoNoticed(t) \/ OwnerGivenUp(t)
Timers(t) == ContinuationFires(t) \/ DeferredResumeFires(t) \/ autoResumeFromUsageLimit(t)
Opening(t) ==
    \/ OpenRead(t) \/ OpenHydrated(t) \/ resumeActiveGoals(t) \/ IdleObserved(t)
    \/ maybeContinueActiveGoal(t)
Firing(t) ==
    \/ FireRead(t) \/ FireHydrated(t) \/ FirePrepared(t) \/ onDispatching(t) \/ NotAccepted(t)
    \/ ProviderRejects(t) \/ Accepted(t) \/ FireFails(t) \/ BudgetSettled(t)
Finalizing(t) == FinalRead(t) \/ FinalLimited(t) \/ FinalRecorded(t) \/ FinalSettled(t)
Ending(t) == Superseded(t) \/ BlockSettled(t) \/ LateSettled(t)

Next ==
    \/ \E t \in Tasks :
          \/ Commands(t) \/ Storage(t) \/ Stopping(t) \/ Setting(t) \/ Resuming(t) \/ Timers(t)
          \/ Opening(t) \/ Firing(t) \/ Finalizing(t) \/ Ending(t)
          \/ \E v \in Verdicts : TurnEnds(t, v)
    \/ UserTurn \/ TurnAccepted

Spec == Init /\ [][Next]_vars

-----------------------------------------------------------------------------
\* Every variable keeps its type, and whoever waits for a write waits for one
\* that was issued and has not settled.
TypeOK ==
    /\ row \in Row \cup {None}
    /\ mem \in Memory
    /\ task \in [Tasks -> Task]
    /\ queue \in Seq(Tasks)
    /\ \A i, j \in DOMAIN queue : queue[i] = queue[j] => i = j
    /\ \A t \in Tasks : task[t].at \in {"get", "write", "wrote"} <=> \E i \in DOMAIN queue : queue[i] = t
    /\ session \in {"idle", "dispatching", "goal", "user", "settling"}
    /\ {hydrated, stopped} \subseteq BOOLEAN /\ lapses \subseteq Lapses
    /\ calls \in 0 .. MaxCalls /\ faults \in 0 .. MaxFaults
    /\ \A t \in mem.persisting : task[t].at \in {"write", "wrote", "failed"}
    /\ \A t \in mem.completing : task[t].op = "final" /\ task[t].at \in {"record", "write", "wrote", "failed"}

\* After Stop or Clear no turn of the goal is handed to the agent until the user
\* says otherwise, whatever was under way when he said it.
StopSticks == [][session = "idle" /\ session' = "dispatching" => ~stopped]_vars

\* When Stop has been carried out and no storage call failed, the row does not
\* come back to life: no late write makes it active, and a restart finds it so.
StopPersists ==
    Quiet /\ stopped /\ faults = 0 /\ row # None => row.status \notin {"active", "usageLimited"}

\* No late write brings an older objective back, and a Clear never deletes an
\* objective the user gave after it.
EditsInOrder ==
    [][\A t \in Tasks : row # None /\ task[t].at = "write" /\ task'[t].at # "write" =>
          /\ row' # None => row'.objective >= row.objective
          /\ row' = None /\ task[t].op = "clear" => task[t].objective >= row.objective]_vars

\* The end of a goal that was reached deletes that goal, never one the user gave
\* while the completion was recorded.
CompletionIsOwn ==
    [][\A t \in Tasks : /\ row # None /\ row' = None /\ lapses \cap {"forgotten completion", "crossed resume"} = {}
                       /\ task[t].op = "final" /\ task[t].at = "write" /\ task'[t].at # "write" =>
          task[t].objective >= row.objective]_vars

\* An active goal that resumeOnOpen takes for managed is never left to itself: a
\* turn runs and somebody listens, or the next one is scheduled.
NotStranded ==
    /\ Quiet /\ row # None /\ row.status = "active"
    /\ mem.owner = "live" \/ mem.listening
    /\ lapses = {} /\ faults = 0
    => mem.timer \/ (mem.listening /\ session # "idle")

\* A goal that waits for a usage limit to pass has its timer, or the user's
\* resume waits for the session.
LimitIsArmed ==
    Quiet /\ row # None /\ Limited(row) /\ ~stopped /\ lapses = {} /\ faults = 0
        => mem.usageTimer \/ mem.deferred # "no"

\* The same unless an operation under way had the owner when the timer fired: "an
\* owner means that another operation of the lifecycle is taking over", says the
\* comment of autoResumeFromUsageLimit.
OwnerTakesOver ==
    Quiet /\ row # None /\ Limited(row) /\ ~stopped /\ "dropped limit" \notin lapses /\ faults = 0
        => mem.usageTimer \/ mem.deferred # "no"

\* No turn is handed over once the stored goal has used its turns.
WithinBudget ==
    [][session = "idle" /\ session' = "dispatching" => row = None \/ row.used < MaxTurns]_vars
=============================================================================
