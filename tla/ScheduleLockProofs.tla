------------------------- MODULE ScheduleLockProofs -------------------------
(***************************************************************************)
(* The chain of promises implements the lock, for any number of calls.     *)
(***************************************************************************)
EXTENDS ScheduleLock, TLAPS

-----------------------------------------------------------------------------
(* The inductive invariant *)

Made == {c \in Calls : next[c] # "idle"}

\* A call is chained to the last call made before it, or to nothing when all of
\* those had been cleaned up.
Chained(c) ==
    /\ before[c] \subseteq Made /\ c \notin before[c]
    /\ next[c] = "idle" => before[c] = {} /\ prev[c] = None
    /\ prev[c] = None => \A d \in before[c] : MarkerResolved(d)
    /\ prev[c] # None => before[c] \subseteq before[prev[c]] \cup {prev[c]}

\* The calls before one that has had its turn are over.
InOrder(c) == next[c] \notin {"idle", "queued"} => \A d \in before[c] : MarkerResolved(d)

\* started, signal and rejected agree with the stage.
StageOK(c) ==
    /\ c \in started => next[c] \notin {"idle", "queued"}
    /\ next[c] = "running" => c \in started
    /\ c \in rejected => c \in signal /\ c \notin started /\ next[c] # "idle"

\* The map holds the last call made, unless everything is over.
TailOK ==
    /\ inflight = None => \A c \in Made : MarkerResolved(c)
    /\ inflight # None => Made \subseteq before[inflight] \cup {inflight}
    /\ EntryIsLive

LockInv == /\ TypeOK /\ TailOK
           /\ \A c \in Calls : Chained(c) /\ InOrder(c) /\ StageOK(c)

-----------------------------------------------------------------------------
(* It is inductive *)

LEMMA LockInit == Init => LockInv
BY LockAssumption DEF Init, LockInv, TypeOK, TailOK, EntryIsLive, Chained, InOrder,
                      StageOK, Made, Stages, MarkerResolved

\* The call itself: whatever is made by then comes before it.
LEMMA CallKeepsInv ==
    ASSUME LockInv, NEW c \in Calls, withScheduleLock(c) PROVE LockInv'
<1> USE LockAssumption
<1>1. TypeOK'
  BY DEF LockInv, TypeOK, withScheduleLock, Stages
<1>2. Made' = Made \cup {c} /\ c \notin Made /\ before'[c] = Made
  BY DEF LockInv, TypeOK, withScheduleLock, Made, Stages
<1>3. /\ \A d \in Calls \ {c} : before'[d] = before[d] /\ prev'[d] = prev[d]
      /\ \A d \in Calls \ {c} : next'[d] = next[d]
      /\ next'[c] = "queued" /\ prev'[c] = inflight /\ inflight' = c
  BY DEF LockInv, TypeOK, withScheduleLock
<1>4. \A d \in Calls : MarkerResolved(d) => MarkerResolved(d)'
  BY <1>3 DEF LockInv, withScheduleLock, MarkerResolved
<1>5. \A d \in Calls : c \notin before[d] /\ before[d] \subseteq Calls
  BY <1>2 DEF LockInv, Chained, TypeOK
<1>6. TailOK'
  BY <1>2, <1>3, <1>5 DEF TailOK, EntryIsLive
<1>7. ASSUME NEW d \in Calls PROVE Chained(d)'
  <2>1. CASE d = c
    BY <2>1, <1>2, <1>3, <1>4 DEF LockInv, Chained, TailOK, EntryIsLive, Made, TypeOK
  <2>2. CASE d # c
    BY <2>2, <1>2, <1>3, <1>4, <1>5 DEF LockInv, Chained, Made, TypeOK
  <2> QED BY <2>1, <2>2
<1>8. ASSUME NEW d \in Calls PROVE InOrder(d)'
  BY <1>3, <1>4, <1>5 DEF LockInv, InOrder
<1>9. ASSUME NEW d \in Calls PROVE StageOK(d)'
  BY <1>3 DEF LockInv, StageOK, withScheduleLock
<1> QED
  BY <1>1, <1>6, <1>7, <1>8, <1>9 DEF LockInv

\* What the steps that do not make a call have in common.
LEMMA ProgressKeepsChain ==
    ASSUME LockInv, UNCHANGED <<prev, before>>, NEW c \in Calls,
           next' = [next EXCEPT ![c] = next'[c]], next[c] # "idle", next'[c] # "idle",
           MarkerResolved(c) => MarkerResolved(c)'
    PROVE  \A d \in Calls : Chained(d)'
<1>1. Made' = Made
  BY DEF LockInv, TypeOK, Made
<1>2. \A d \in Calls : MarkerResolved(d) => MarkerResolved(d)'
  BY DEF LockInv, TypeOK, MarkerResolved
<1> QED
  BY <1>1, <1>2 DEF LockInv, TypeOK, Chained

\* A call gets its turn: all the calls before it are over.
LEMMA TurnIsLast ==
    ASSUME LockInv, NEW c \in Calls, Turn(c), next[c] = "queued"
    PROVE  \A d \in before[c] : MarkerResolved(d)
<1>1. CASE prev[c] = None
  BY <1>1 DEF LockInv, Chained
<1>2. CASE prev[c] # None
  <2>1. prev[c] \in Calls /\ MarkerResolved(prev[c])
    BY <1>2 DEF Turn, LockInv, TypeOK
  <2>2. \A d \in before[prev[c]] : MarkerResolved(d)
    BY <2>1 DEF LockInv, InOrder, MarkerResolved
  <2> QED
    BY <1>2, <2>1, <2>2 DEF LockInv, Chained
<1> QED BY <1>1, <1>2

LEMMA StepKeepsInv ==
    ASSUME LockInv, [Next]_lockVars PROVE LockInv'
<1> USE LockAssumption
<1>1. ASSUME NEW c \in Calls, withScheduleLock(c) PROVE LockInv'
  BY <1>1, CallKeepsInv
<1>2. ASSUME NEW c \in Calls, abort(c) PROVE LockInv'
  BY <1>2 DEF abort, LockInv, TypeOK, TailOK, EntryIsLive, Chained, InOrder, StageOK,
              Made, MarkerResolved
<1>3. ASSUME NEW c \in Calls, runWhenNotAborted(c) PROVE LockInv'
  <2>1. \A d \in before[c] : MarkerResolved(d)
    BY <1>3, TurnIsLast DEF runWhenNotAborted
  <2>2. /\ next'[c] \in {"running", "settled"} /\ next[c] = "queued"
        /\ next' = [next EXCEPT ![c] = next'[c]]
    BY <1>3 DEF runWhenNotAborted, LockInv, TypeOK
  <2>3. \A d \in Calls : MarkerResolved(d) <=> MarkerResolved(d)'
    BY <2>2 DEF LockInv, TypeOK, MarkerResolved
  <2>4. TypeOK' /\ Made' = Made
    BY <1>3, <2>2 DEF runWhenNotAborted, LockInv, TypeOK, Made, Stages
  <2>5. TailOK'
    BY <1>3, <2>2, <2>3, <2>4 DEF runWhenNotAborted, LockInv, TypeOK, TailOK, EntryIsLive, Made
  <2>6. \A d \in Calls : Chained(d)'
    BY <1>3, <2>2, <2>3, ProgressKeepsChain DEF runWhenNotAborted
  <2>7. \A d \in Calls : InOrder(d)'
    BY <1>3, <2>1, <2>2, <2>3 DEF runWhenNotAborted, LockInv, TypeOK, InOrder, Chained, Made
  <2>8. \A d \in Calls : StageOK(d)'
    BY <1>3, <2>2 DEF runWhenNotAborted, NotAborted, LockInv, TypeOK, StageOK
  <2> QED BY <2>4, <2>5, <2>6, <2>7, <2>8 DEF LockInv
<1>4. ASSUME NEW c \in Calls, onAbort(c) PROVE LockInv'
  BY <1>4 DEF onAbort, LockInv, TypeOK, TailOK, EntryIsLive, Chained, InOrder, StageOK,
              Made, MarkerResolved
<1>5. ASSUME NEW c \in Calls, settle(c) \/ resolveMarker(c) \/ cleanup(c) PROVE LockInv'
  <2> DEFINE passed == {"running", "settled", "resolved", "cleaned"}
  <2>1. /\ next'[c] \in passed \ {"running"} /\ next[c] \in passed
        /\ next' = [next EXCEPT ![c] = next'[c]]
        /\ UNCHANGED <<prev, started, signal, rejected, before>>
    BY <1>5 DEF settle, resolveMarker, Settled, cleanup, LockInv, TypeOK
  <2>2. MarkerResolved(c) => MarkerResolved(c)'
    BY <1>5 DEF settle, resolveMarker, Settled, cleanup, LockInv, TypeOK, MarkerResolved
  <2>3. \A d \in Calls : MarkerResolved(d) => MarkerResolved(d)'
    BY <2>1, <2>2 DEF LockInv, TypeOK, MarkerResolved
  <2>4. inflight' = inflight \/ (inflight = c /\ inflight' = None /\ next[c] = "resolved")
    BY <1>5 DEF settle, resolveMarker, cleanup, Removed
  <2>5. TypeOK' /\ Made' = Made
    BY <2>1, <2>4 DEF LockInv, TypeOK, Made, Stages
  <2>6. TailOK'
    <3>1. CASE inflight' = None
      <4>1. \A d \in Made : MarkerResolved(d)'
        BY <3>1, <2>1, <2>3, <2>4 DEF LockInv, TailOK, InOrder, Made, MarkerResolved, TypeOK
      <4> QED BY <3>1, <4>1, <2>5 DEF TailOK, EntryIsLive
    <3>2. CASE inflight' # None
      <4>1. inflight' = inflight /\ inflight \in Calls
        BY <3>2, <2>4 DEF LockInv, TypeOK
      <4>2. next'[inflight] # "cleaned"
        BY <1>5, <3>2, <4>1, <2>1 DEF settle, resolveMarker, cleanup, Removed, LockInv,
                                      TypeOK, TailOK, EntryIsLive
      <4> QED BY <4>1, <4>2, <2>1, <2>5 DEF LockInv, TailOK, EntryIsLive, TypeOK
    <3> QED BY <3>1, <3>2
  <2>7. \A d \in Calls : Chained(d)'
    BY <2>1, <2>2, ProgressKeepsChain
  <2>8. \A d \in Calls : InOrder(d)'
    BY <2>1, <2>3 DEF LockInv, TypeOK, InOrder, Chained, Made
  <2>9. \A d \in Calls : StageOK(d)'
    BY <2>1 DEF LockInv, TypeOK, StageOK
  <2> QED BY <2>5, <2>6, <2>7, <2>8, <2>9 DEF LockInv
<1>6. CASE UNCHANGED lockVars
  BY <1>6 DEF lockVars, LockInv, TypeOK, TailOK, EntryIsLive, Chained, InOrder, StageOK,
              Made, MarkerResolved
<1> QED
  BY <1>1, <1>2, <1>3, <1>4, <1>5, <1>6 DEF Next, Microtask

THEOREM LockInvariant == Spec => []LockInv
BY LockInit, StepKeepsInv, PTL DEF Spec

-----------------------------------------------------------------------------
(* What follows *)

\* The map holds only the marker of a call that is still to be cleaned up.
THEOREM EntriesAreLive == Spec => []EntryIsLive
<1>1. LockInv => EntryIsLive
  BY DEF LockInv, TailOK
<1> QED BY <1>1, LockInvariant, PTL

\* A caller that was told of its abort has not run and will not run.
THEOREM AbortedCallsStayOut == Spec => []AbortedCallsNeverRun
<1>1. LockInv => AbortedCallsNeverRun
  BY DEF LockInv, StageOK, TypeOK, AbortedCallsNeverRun
<1> QED BY <1>1, LockInvariant, PTL

LEMMA RefinesInit == Init => Lock!Init
BY DEF Init, Lock!Init, LockState

LEMMA RefinesStep ==
    ASSUME LockInv, [Next]_lockVars PROVE [Lock!Next]_<<LockState, before>>
<1> USE DEF LockInv, TypeOK
<1>1. ASSUME NEW c \in Calls, withScheduleLock(c) PROVE Lock!Request(c)
  <2>1. LockState[c] = "idle" /\ LockState' = [LockState EXCEPT ![c] = "waiting"]
    BY <1>1 DEF withScheduleLock, LockState, StageOK
  <2>2. Lock!Requested = {d \in Calls : next[d] # "idle"}
    BY DEF Lock!Requested, LockState, Stages
  <2> QED BY <1>1, <2>1, <2>2 DEF withScheduleLock, Lock!Request
<1>2. ASSUME NEW c \in Calls, runWhenNotAborted(c)
      PROVE  Lock!Acquire(c) \/ Lock!GiveUp(c) \/ UNCHANGED <<LockState, before>>
  <2>1. CASE NotAborted(c)
    <3>1. LockState[c] = "waiting" /\ LockState' = [LockState EXCEPT ![c] = "holding"]
      BY <1>2, <2>1 DEF runWhenNotAborted, NotAborted, LockState, StageOK
    <3>2. \A d \in before[c] : d \in Calls /\ MarkerResolved(d)
      BY <1>2, TurnIsLast DEF runWhenNotAborted
    <3>3. \A d \in before[c] : LockState[d] = "done"
      BY <3>2 DEF LockState, MarkerResolved
    <3> QED BY <1>2, <3>1, <3>3 DEF runWhenNotAborted, Lock!Acquire
  <2>2. CASE ~NotAborted(c) /\ c \notin rejected
    <3>1. LockState[c] = "waiting" /\ LockState' = [LockState EXCEPT ![c] = "done"]
      BY <1>2, <2>2 DEF runWhenNotAborted, LockState
    <3> QED BY <1>2, <3>1 DEF runWhenNotAborted, Lock!GiveUp
  <2>3. CASE ~NotAborted(c) /\ c \in rejected
    BY <1>2, <2>3 DEF runWhenNotAborted, LockState
  <2> QED BY <2>1, <2>2, <2>3
<1>3. ASSUME NEW c \in Calls, onAbort(c) PROVE Lock!GiveUp(c)
  <2>1. LockState[c] = "waiting" /\ LockState' = [LockState EXCEPT ![c] = "done"]
    BY <1>3 DEF onAbort, LockState
  <2> QED BY <1>3, <2>1 DEF onAbort, Lock!GiveUp
<1>4. ASSUME NEW c \in Calls, settle(c) PROVE Lock!Release(c)
  <2>1. LockState[c] = "holding" /\ LockState' = [LockState EXCEPT ![c] = "done"]
    BY <1>4 DEF settle, LockState
  <2> QED BY <1>4, <2>1 DEF settle, Lock!Release
<1>5. ASSUME NEW c \in Calls, abort(c) \/ resolveMarker(c) \/ cleanup(c)
      PROVE  UNCHANGED <<LockState, before>>
  BY <1>5 DEF abort, resolveMarker, Settled, cleanup, LockState
<1>6. CASE UNCHANGED lockVars
  BY <1>6 DEF lockVars, LockState
<1> QED
  BY <1>1, <1>2, <1>3, <1>4, <1>5, <1>6 DEF Next, Microtask, Lock!Next

\* Every behaviour of the chain is one of the lock: fires of one schedule never
\* overlap, and none overtakes a predecessor that still runs, whoever aborts.
THEOREM ChainImplementsLock == Spec => ImplementsFifoLock
<1>1. LockInv /\ [Next]_lockVars => [Lock!Next]_<<LockState, before>>
  BY RefinesStep
<1> QED
  BY <1>1, RefinesInit, LockInvariant, PTL
     DEF Spec, ImplementsFifoLock, Lock!Spec, Lock!lockVars
=============================================================================
