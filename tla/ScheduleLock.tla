---------------------------- MODULE ScheduleLock ----------------------------
(***************************************************************************)
(* withScheduleLock (apps/desktop scheduler-host/scheduleLock.ts) for one  *)
(* schedule: the fires of a schedule run one after the other through a     *)
(* chain of promises whose tail is kept in the map inflight.  pause,       *)
(* delete, stop and the stall guard abort a fire at any moment, also while *)
(* it waits.  An action is one microtask, or the call itself.              *)
(*                                                                         *)
(* A definition whose comment begins "Fault:" is a faulty variant of the   *)
(* one after it, which no action uses.                                     *)
(***************************************************************************)
CONSTANTS Calls,  \* the calls, one per fire of the schedule
          None

ASSUME LockAssumption == None \notin Calls

VARIABLES
    inflight,  \* the call whose marker the map holds
    prev,      \* the call whose marker a call has chained itself to
    next,      \* the stages of its promise next, of its marker and its cleanup
    started,   \* the calls whose fn has been entered
    signal,    \* the calls whose AbortSignal is aborted
    rejected,  \* the callers that returned before their turn
    before     \* history: the calls made earlier

lockVars == <<inflight, prev, next, started, signal, rejected, before>>

Stages == {"idle", "queued", "running", "settled", "resolved", "cleaned"}

\* The marker of a call has resolved: whoever is chained to it may go on.
MarkerResolved(c) == next[c] \in {"resolved", "cleaned"}

Init == /\ inflight = None
        /\ prev = [c \in Calls |-> None]
        /\ next = [c \in Calls |-> "idle"]
        /\ started = {} /\ signal = {} /\ rejected = {}
        /\ before = [c \in Calls |-> {}]

withScheduleLock(c) ==
    /\ next[c] = "idle"
    /\ next' = [next EXCEPT ![c] = "queued"]
    /\ prev' = [prev EXCEPT ![c] = inflight]
    /\ inflight' = c
    /\ before' = [before EXCEPT ![c] = {d \in Calls : next[d] # "idle"}]
    /\ UNCHANGED <<started, signal, rejected>>

abort(c) ==
    /\ c \notin signal /\ signal' = signal \cup {c}
    /\ UNCHANGED <<inflight, prev, next, started, rejected, before>>

\* Fault: only an abort before the call is looked at.
NotAbortedAtCall(c) == before[c] = {} \/ c \notin signal

NotAborted(c) == c \notin signal

\* Fault: the predecessor's caller is waited for, not its fn.
TurnOfCaller(c) ==
    \A d \in {prev[c]} \ {None} : MarkerResolved(d) \/ d \in rejected

\* The predecessor's marker has resolved.
Turn(c) == \A d \in {prev[c]} \ {None} : MarkerResolved(d)

runWhenNotAborted(c) ==
    /\ next[c] = "queued" /\ Turn(c)
    /\ IF NotAborted(c)
       THEN next' = [next EXCEPT ![c] = "running"] /\ started' = started \cup {c}
       ELSE next' = [next EXCEPT ![c] = "settled"] /\ UNCHANGED started
    /\ UNCHANGED <<inflight, prev, signal, rejected, before>>

\* queuedAbort wins the race: the caller returns, its place in the chain stays.
onAbort(c) ==
    /\ next[c] = "queued" /\ c \in signal /\ c \notin rejected
    /\ rejected' = rejected \cup {c}
    /\ UNCHANGED <<inflight, prev, next, started, signal, before>>

\* fn resolves or rejects: it makes no difference to the chain.
settle(c) ==
    /\ next[c] = "running"
    /\ next' = [next EXCEPT ![c] = "settled"]
    /\ UNCHANGED <<inflight, prev, started, signal, rejected, before>>

\* Fault: only the marker of a fn that ran resolves.
SettledByRunning(c) == next[c] = "settled" /\ c \in started

Settled(c) == next[c] = "settled"

resolveMarker(c) ==
    /\ Settled(c)
    /\ next' = [next EXCEPT ![c] = "resolved"]
    /\ UNCHANGED <<inflight, prev, started, signal, rejected, before>>

\* Fault: a rejected call leaves its entry behind.
RemovedByStarted(c) == IF inflight = c /\ c \in started THEN None ELSE inflight

\* The entry is removed unless a later call has replaced it.
Removed(c) == IF inflight = c THEN None ELSE inflight

cleanup(c) ==
    /\ next[c] = "resolved"
    /\ next' = [next EXCEPT ![c] = "cleaned"]
    /\ inflight' = Removed(c)
    /\ UNCHANGED <<prev, started, signal, rejected, before>>

Microtask(c) == runWhenNotAborted(c) \/ onAbort(c) \/ resolveMarker(c) \/ cleanup(c)

Next == \E c \in Calls : withScheduleLock(c) \/ abort(c) \/ Microtask(c) \/ settle(c)

Spec == Init /\ [][Next]_lockVars

\* Microtasks run; fn is taken to return (the runner obeys its AbortSignal).
Fairness == \A c \in Calls : WF_lockVars(Microtask(c)) /\ WF_lockVars(settle(c))

FairSpec == Spec /\ Fairness

-----------------------------------------------------------------------------
(* Properties *)

\* Every variable keeps the shape the code gives it.
TypeOK ==
    /\ inflight \in Calls \cup {None}
    /\ prev \in [Calls -> Calls \cup {None}]
    /\ next \in [Calls -> Stages]
    /\ started \subseteq Calls /\ signal \subseteq Calls /\ rejected \subseteq Calls
    /\ before \in [Calls -> SUBSET Calls]

\* How the chain implements the lock: a call gives up its place when its
\* caller has returned, or when its turn comes after the abort.
LockState ==
    [c \in Calls |-> CASE next[c] = "idle" -> "idle"
                       [] next[c] = "queued" /\ c \notin rejected -> "waiting"
                       [] next[c] = "running" -> "holding"
                       [] OTHER -> "done"]

Lock == INSTANCE FifoLock WITH st <- LockState

\* "A caller that aborts while queued may return early, but later fires must
\* not bypass the still-running predecessor": the chain implements the lock, so
\* fires of a schedule exclude each other and start in the order of arrival.
ImplementsFifoLock == Lock!Spec

\* A fire whose caller was told that it was aborted never runs its agent.
AbortedCallsNeverRun == started \cap rejected = {}

\* The map does not grow with the schedules: what it holds is the marker of a
\* call that is still to be cleaned up, and the last one made.
EntryIsLive ==
    inflight # None => /\ next[inflight] \notin {"idle", "cleaned"}
                       /\ \A c \in Calls : inflight \notin before[c]

\* Every waiting fire gets its turn, or is told that it was aborted.
EveryCallReturns ==
    \A c \in Calls : next[c] = "queued" ~> next[c] = "settled" \/ c \in rejected
=============================================================================
