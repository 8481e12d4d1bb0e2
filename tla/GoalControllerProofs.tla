------------------------ MODULE GoalControllerProofs ------------------------
(***************************************************************************)
(* Theorems about GoalController: types, that a Stop sticks and stays      *)
(* stored, that no turn exceeds the budget and that the newest objective   *)
(* wins, for any number of tasks, turns, rejections, calls and failures.   *)
(***************************************************************************)
EXTENDS GoalController, TLAPS

Owners == {"none", "live", "cancelled"}

-----------------------------------------------------------------------------
(* What the operators on the controller's fields do *)

\* n waits for what m waits for,
SameBarriers(n, m) == n.persisting = m.persisting /\ n.completing = m.completing
\* it hears what m hears,
SameEars(n, m) == n.listening = m.listening /\ n.deferred = m.deferred /\ n.firing = m.firing
\* and it has the same owner, too.
Alike(n, m) ==
    /\ n \in Memory /\ SameBarriers(n, m) /\ SameEars(n, m)
    /\ n.owner = m.owner /\ n.unsaved = m.unsaved

LEMMA OwnedMemory ==
    ASSUME NEW m \in Memory, NEW o \in Owners
    PROVE  /\ Owned(m, o) \in Memory /\ Owned(m, o).owner = o
           /\ Owned(m, o).unsaved = m.unsaved
           /\ SameBarriers(Owned(m, o), m) /\ SameEars(Owned(m, o), m)
  BY DEF Owned, Owners, Memory, SameBarriers, SameEars

LEMMA DisownedMemory ==
    ASSUME NEW m \in Memory
    PROVE  /\ Disowned(m) \in Memory /\ Disowned(m).owner = "none"
           /\ Disowned(m).unsaved = m.unsaved
           /\ Disowned(m).persisting = {} /\ Disowned(m).completing = {}
           /\ SameEars(Disowned(m), m)
  BY DEF Disowned, Owned, Memory, SameEars

LEMMA DetachedMemory ==
    ASSUME NEW m \in Memory
    PROVE  /\ Detached(m) \in Memory /\ Detached(m).owner = m.owner
           /\ ~Detached(m).unsaved /\ ~Detached(m).listening /\ Detached(m).firing = None
           /\ Detached(m).deferred = m.deferred /\ SameBarriers(Detached(m), m)
<1>1. None \in Tasks \cup {None} /\ 0 \in 0 .. MaxRejections
  BY GoalAssumption
<1>2. Detached(m) \in Memory
  BY <1>1, Zenon DEF Detached, Memory
<1>3. /\ Detached(m).owner = m.owner
      /\ ~Detached(m).unsaved /\ ~Detached(m).listening /\ Detached(m).firing = None
      /\ Detached(m).deferred = m.deferred /\ SameBarriers(Detached(m), m)
  BY DEF Detached, Memory, SameBarriers
<1> QED
  BY <1>2, <1>3

LEMMA ArmedMemory ==
    ASSUME NEW m \in Memory PROVE Alike(Armed(m), m)
<1>1. Waiting \in SUBSET Tasks
  BY DEF Waiting
<1>2. Armed(m) \in Memory
  BY <1>1, Zenon DEF Armed, Memory
<1>3. /\ Armed(m).owner = m.owner /\ Armed(m).unsaved = m.unsaved
      /\ SameBarriers(Armed(m), m) /\ SameEars(Armed(m), m)
  BY DEF Armed, Memory, SameBarriers, SameEars
<1> QED
  BY <1>2, <1>3 DEF Alike

LEMMA ListeningMemory ==
    ASSUME NEW m \in Memory, NEW b \in BOOLEAN
    PROVE  LET n == [m EXCEPT !.listening = b] IN
           /\ n \in Memory /\ SameBarriers(n, m) /\ n.owner = m.owner /\ n.unsaved = m.unsaved
           /\ n.listening = b /\ n.deferred = m.deferred /\ n.firing = m.firing
<1>1. [m EXCEPT !.listening = b] \in Memory
  BY Zenon DEF Memory
<1> QED
  BY <1>1 DEF Memory, SameBarriers

\* CancelDeferred and RestoreDeferred end a deferred resume.
LEMMA DeferredMemory ==
    ASSUME NEW m \in Memory, NEW n \in {CancelDeferred(m), RestoreDeferred(m)}
    PROVE  /\ n \in Memory /\ SameBarriers(n, m) /\ n.owner = m.owner /\ n.unsaved = m.unsaved
           /\ n.listening = m.listening /\ n.firing = m.firing /\ n.deferred = "no"
<1>1. m.usageTimer \in BOOLEAN /\ m.restores \in BOOLEAN
  BY DEF Memory
<1>2. (m.usageTimer \/ m.restores) \in BOOLEAN
  BY <1>1, Zenon
<1>3. \A k \in Memory : CancelDeferred(k) \in Memory
  BY Zenon DEF CancelDeferred, Memory
<1>4. [m EXCEPT !.usageTimer = m.usageTimer \/ m.restores] \in Memory
  BY <1>2, Zenon DEF Memory
<1>5. n \in Memory
  BY <1>3, <1>4 DEF RestoreDeferred
<1> QED
  BY <1>5 DEF CancelDeferred, RestoreDeferred, Memory, SameBarriers

LEMMA FinishedMemory ==
    ASSUME NEW m \in Memory, NEW t \in Tasks
    PROVE  LET n == Finished(t, m) IN
           /\ n \in Memory /\ SameBarriers(n, m) /\ n.owner = m.owner /\ n.unsaved = m.unsaved
           /\ n.listening = m.listening /\ n.deferred = m.deferred
           /\ n.firing = IF m.firing = t THEN None ELSE m.firing
<1>1. None \in Tasks \cup {None}
  OBVIOUS
<1>2. [m EXCEPT !.firing = None] \in Memory
  BY <1>1, Zenon DEF Memory
<1> QED
  BY <1>2 DEF Finished, Memory, SameBarriers

LEMMA PersistingMemory ==
    ASSUME NEW m \in Memory, NEW t \in Tasks
    PROVE  LET n == Persisting(t, m) IN
           /\ n \in Memory /\ SameEars(n, m) /\ n.owner = m.owner /\ n.unsaved = m.unsaved
           /\ n.persisting = m.persisting \cup {t} /\ n.completing = m.completing
<1>1. m.persisting \cup {t} \in SUBSET Tasks
  BY DEF Memory
<1>2. Persisting(t, m) \in Memory
  BY <1>1, Zenon DEF Persisting, Memory
<1> QED
  BY <1>2 DEF Persisting, Memory, SameEars

LEMMA SettledMemory ==
    ASSUME mem \in Memory, NEW t \in Tasks
    PROVE  LET n == Settled(t) IN
           /\ n \in Memory /\ SameEars(n, mem) /\ n.owner = mem.owner /\ n.unsaved = mem.unsaved
           /\ n.persisting = mem.persisting \ {t} /\ n.completing = mem.completing \ {t}
<1>1. mem.persisting \ {t} \in SUBSET Tasks /\ mem.completing \ {t} \in SUBSET Tasks
  BY DEF Memory
<1>2. Settled(t) \in Memory
  BY <1>1, Zenon DEF Settled, Memory
<1> QED
  BY <1>2 DEF Settled, Memory, SameEars

LEMMA CompletingMemory ==
    ASSUME NEW m \in Memory, NEW t \in Tasks
    PROVE  LET n == [m EXCEPT !.completing = @ \cup {t}] IN
           /\ n \in Memory /\ SameEars(n, m) /\ n.owner = m.owner /\ n.unsaved = m.unsaved
           /\ n.completing = m.completing \cup {t} /\ n.persisting = m.persisting
<1>1. m.completing \cup {t} \in SUBSET Tasks
  BY DEF Memory
<1>2. [m EXCEPT !.completing = @ \cup {t}] \in Memory
  BY <1>1, Zenon DEF Memory
<1> QED
  BY <1>2 DEF Memory, SameEars

LEMMA FiringMemory ==
    ASSUME NEW m \in Memory, NEW t \in Tasks
    PROVE  LET n == [m EXCEPT !.firing = t] IN
           /\ n \in Memory /\ SameBarriers(n, m) /\ n.owner = m.owner /\ n.unsaved = m.unsaved
           /\ n.listening = m.listening /\ n.deferred = m.deferred /\ n.firing = t
<1>1. [m EXCEPT !.firing = t] \in Memory
  BY Zenon DEF Memory
<1> QED
  BY <1>1 DEF Memory, SameBarriers

\* The fields that neither a barrier nor a listener is made of.
LEMMA FlagMemory ==
    ASSUME NEW m \in Memory, NEW b \in BOOLEAN
    PROVE  /\ Alike([m EXCEPT !.finalized = b], m) /\ Alike([m EXCEPT !.usageTimer = b], m)
           /\ Alike([m EXCEPT !.claimed = b], m)
           /\ Alike([m EXCEPT !.timer = FALSE, !.late = {}], m)
<1>1. /\ [m EXCEPT !.finalized = b] \in Memory /\ [m EXCEPT !.usageTimer = b] \in Memory
      /\ [m EXCEPT !.claimed = b] \in Memory /\ [m EXCEPT !.timer = FALSE, !.late = {}] \in Memory
  BY Zenon DEF Memory
<1> QED
  BY <1>1 DEF Alike, Memory, SameBarriers, SameEars

LEMMA CountMemory ==
    ASSUME NEW m \in Memory, NEW k \in 0 .. MaxRejections
    PROVE  Alike([m EXCEPT !.rejections = k], m)
<1>1. [m EXCEPT !.rejections = k] \in Memory
  BY Zenon DEF Memory
<1> QED
  BY <1>1 DEF Alike, Memory, SameBarriers, SameEars

LEMMA OlderMemory ==
    ASSUME NEW m \in Memory, NEW b \in BOOLEAN, NEW W \in SUBSET Tasks
    PROVE  Alike([m EXCEPT !.older = W], m) /\ Alike([m EXCEPT !.claimed = b, !.older = W], m)
<1>1. [m EXCEPT !.older = W] \in Memory /\ [m EXCEPT !.claimed = b, !.older = W] \in Memory
  BY Zenon DEF Memory
<1> QED
  BY <1>1 DEF Alike, Memory, SameBarriers, SameEars

LEMMA UnsavedMemory ==
    ASSUME NEW m \in Memory
    PROVE  LET n == [m EXCEPT !.unsaved = TRUE] IN
           n \in Memory /\ SameBarriers(n, m) /\ SameEars(n, m) /\ n.owner = m.owner
<1>1. [m EXCEPT !.unsaved = TRUE] \in Memory
  BY Zenon DEF Memory
<1> QED
  BY <1>1 DEF Memory, SameBarriers, SameEars

LEMMA ReboundMemory ==
    ASSUME NEW m \in Memory
    PROVE  /\ Alike(Rebound(m), m)
           /\ LET n == Claimed(m) IN
              /\ n \in Memory /\ SameBarriers(n, m) /\ n.owner = m.owner /\ n.unsaved = m.unsaved
              /\ n.listening = m.listening /\ n.firing = m.firing
              /\ m.deferred = "no" => n.deferred = "no"
<1>1. \A b \in BOOLEAN : [m EXCEPT !.bound = b] \in Memory
  BY Zenon DEF Memory
<1>2. (m.deferred # "no") \in BOOLEAN
  BY Zenon
<1>3. Rebound(m) \in Memory
  BY <1>1, <1>2, Zenon DEF Rebound
<1>4. Alike(Rebound(m), m)
  BY <1>3 DEF Alike, Rebound, Memory, SameBarriers, SameEars
<1>5. \A k \in Memory : \A d \in {"no", "claimed"} :
         [k EXCEPT !.deferred = d, !.rejections = 0] \in Memory
  <2>1. 0 \in 0 .. MaxRejections
    BY GoalAssumption
  <2> QED
    BY <2>1, Zenon DEF Memory
<1>6. PICK d \in {"no", "claimed"} :
         /\ Claimed(m) = [Rebound(m) EXCEPT !.deferred = d, !.rejections = 0]
         /\ m.deferred = "no" => d = "no"
  <2>1. Rebound(m).deferred = m.deferred
    BY <1>4 DEF Alike, SameEars
  <2> QED
    BY <2>1 DEF Claimed
<1>7. Claimed(m) \in Memory
  BY <1>3, <1>5, <1>6
<1> HIDE DEF Rebound
<1> DEFINE q == Rebound(m)
<1>8. LET n == [q EXCEPT !.deferred = d, !.rejections = 0] IN
      /\ SameBarriers(n, q) /\ n.owner = q.owner /\ n.unsaved = q.unsaved
      /\ n.listening = q.listening /\ n.firing = q.firing /\ n.deferred = d
  BY <1>3 DEF Memory, SameBarriers
<1> QED
  BY <1>4, <1>6, <1>7, <1>8 DEF Alike, SameBarriers, SameEars

\* scheduleDeferredManualResume, and what Defer leaves.
LEMMA DeferralMemory ==
    ASSUME NEW m \in Memory, NEW d \in {"no", "claimed", "waiting", "armed"}, NEW b \in BOOLEAN
    PROVE  /\ LET n == [m EXCEPT !.deferred = d] IN
              /\ n \in Memory /\ SameBarriers(n, m) /\ n.owner = m.owner /\ n.unsaved = m.unsaved
              /\ n.listening = m.listening /\ n.firing = m.firing /\ n.deferred = d
           /\ LET n == [m EXCEPT !.restores = b, !.bound = TRUE, !.deferred = d] IN
              /\ n \in Memory /\ SameBarriers(n, m) /\ n.owner = m.owner /\ n.unsaved = m.unsaved
              /\ n.listening = m.listening /\ n.firing = m.firing
<1>1. /\ [m EXCEPT !.deferred = d] \in Memory
      /\ [m EXCEPT !.restores = b, !.bound = TRUE, !.deferred = d] \in Memory
  BY Zenon DEF Memory
<1> QED
  BY <1>1 DEF Memory, SameBarriers

LEMMA StopSessionMemory ==
    ASSUME NEW m \in Memory
    PROVE  LET n == stopSession(m) IN
           /\ n \in Memory /\ n.persisting = {} /\ n.completing = {} /\ n.owner = "none"
           /\ ~n.unsaved /\ ~n.listening /\ n.firing = None /\ n.deferred = m.deferred
  BY DetachedMemory, DisownedMemory DEF stopSession, SameEars

LEMMA AttachMemory ==
    ASSUME NEW m \in Memory, hydrated \in BOOLEAN
    PROVE  LET n == attachListener(m) IN
           /\ n \in Memory /\ SameBarriers(n, m) /\ n.owner = m.owner /\ n.unsaved = m.unsaved
           /\ n.deferred = m.deferred /\ n.firing = m.firing
<1>1. m.listening \in BOOLEAN
  BY DEF Memory
<1>2. (m.listening \/ hydrated) \in BOOLEAN
  BY <1>1, Zenon
<1> QED
  BY <1>2, ListeningMemory DEF attachListener

-----------------------------------------------------------------------------
(* Tasks *)

\* What an operation can be at, and what it writes.
Proper(r) ==
    /\ r.op = "none" <=> r.at = "end"
    /\ r.at \in {"write", "wrote", "failed"} => r.put \in Statuses \cup {"delete"}
    /\ r.op = "final" /\ r.at \in {"get", "limit"} => r.put \in Verdicts
    /\ r.op = "final" /\ r.at = "limit" => r.put \in {"active", "usageLimited"}
    /\ r.op = "clear" => r.at \in {"barrier", "write", "wrote", "failed"}
    /\ r.op = "clear" /\ r.at # "barrier" => r.put = "delete"
    /\ r.op = "pause" => r.at \in {"barrier", "get", "write", "wrote", "failed"}
    /\ r.op = "pause" /\ r.at \in {"write", "wrote", "failed"} => r.put = "paused"
    /\ r.op = "set" => r.at \in {"barrier", "get"}
    /\ r.op = "set" /\ r.owns => r.at = "get"
    /\ r.op \in {"boot", "idle"} => r.at = "get"

ProperTask == {r \in Task : Proper(r)}

LEMMA IdleTask == Idle \in ProperTask /\ Idle.op = "none" /\ Idle.at = "end" /\ ~Idle.cut
<1>1. 0 \in 0 .. MaxTurns /\ 0 \in 0 .. MaxRejections /\ 0 \in 0 .. MaxCalls
  BY GoalAssumption
<1>2. Idle \in Task
  BY <1>1, Zenon DEF Idle, Task, Operations, Points, Statuses
<1> QED
  BY <1>2 DEF Idle, ProperTask, Proper

LEMMA NewTask ==
    ASSUME NEW op \in Operations, NEW at \in Points
    PROVE  /\ New(op, at) \in Task /\ New(op, at).op = op /\ New(op, at).at = at
           /\ New(op, at).cur /\ ~New(op, at).owns /\ ~New(op, at).cut
           /\ New(op, at).put = "active"
<1>1. Idle \in Task
  BY IdleTask DEF ProperTask
<1>2. New(op, at) \in Task
  BY <1>1, Zenon DEF New, Task
<1> QED
  BY <1>1, <1>2 DEF New, Idle, Task

LEMMA ToTask ==
    ASSUME NEW t \in Tasks, task \in [Tasks -> Task], NEW at \in Points
    PROVE  /\ To(t, at) \in Task /\ To(t, at).at = at /\ To(t, at).op = task[t].op
           /\ To(t, at).cur = task[t].cur /\ To(t, at).owns = task[t].owns
           /\ To(t, at).cut = task[t].cut /\ To(t, at).put = task[t].put
           /\ To(t, at).objective = task[t].objective
<1>1. task[t] \in Task
  OBVIOUS
<1>2. To(t, at) \in Task
  BY <1>1, Zenon DEF To, Task
<1> QED
  BY <1>1, <1>2 DEF To, Task

LEMMA WritingTask ==
    ASSUME NEW r \in Task, NEW status \in Statuses \cup Verdicts \cup {"delete"}
    PROVE  LET w == Writing(r, status) IN
           /\ w \in Task /\ w.at = "write" /\ w.put = status /\ w.op = r.op /\ w.cur = r.cur
           /\ w.owns = r.owns /\ w.cut = r.cut
<1>1. Writing(r, status) \in Task
  BY Zenon DEF Writing, Task, Points
<1> QED
  BY <1>1 DEF Writing, Task

-----------------------------------------------------------------------------
(* A step of a task, and what it does to the others and to the queue *)

\* What another task keeps.
SameWork(q, r) ==
    /\ q.op = r.op /\ q.at = r.at /\ q.put = r.put /\ q.owns = r.owns
    /\ q.used = r.used /\ q.objective = r.objective
    /\ q.cur => r.cur
    /\ r.cut => q.cut

LEMMA OtherTask ==
    ASSUME NEW r \in Task, NEW a \in BOOLEAN, NEW b \in BOOLEAN
    PROVE  LET q == [r EXCEPT !.cur = @ /\ a, !.cut = @ \/ b] IN
           /\ q \in Task /\ SameWork(q, r)
           /\ (a => q.cur = r.cur) /\ (~a => ~q.cur)
           /\ ~q.cut => ~b
<1>1. r.cur \in BOOLEAN /\ r.cut \in BOOLEAN
  BY DEF Task
<1>2. \A c, d \in BOOLEAN : LET q == [r EXCEPT !.cur = c, !.cut = d] IN
         /\ q \in Task /\ q.op = r.op /\ q.at = r.at /\ q.put = r.put /\ q.owns = r.owns
         /\ q.used = r.used /\ q.objective = r.objective /\ q.cur = c /\ q.cut = d
  <2> TAKE c, d \in BOOLEAN
  <2>1. [r EXCEPT !.cur = c, !.cut = d] \in Task
    BY Zenon DEF Task
  <2> QED
    BY <2>1 DEF Task
<1>3. (r.cur /\ a) \in BOOLEAN /\ (r.cut \/ b) \in BOOLEAN
  BY <1>1, Zenon
<1> DEFINE q == [r EXCEPT !.cur = @ /\ a, !.cut = @ \/ b]
<1>4. /\ q \in Task /\ q.op = r.op /\ q.at = r.at /\ q.put = r.put /\ q.owns = r.owns
      /\ q.used = r.used /\ q.objective = r.objective
      /\ q.cur = (r.cur /\ a) /\ q.cut = (r.cut \/ b)
  BY <1>2, <1>3, Zenon
<1> HIDE DEF q
<1>5. SameWork(q, r) /\ (a => q.cur = r.cur) /\ (~a => ~q.cur) /\ (~q.cut => ~b)
  BY <1>1, <1>4, Zenon DEF SameWork
<1> QED
  BY <1>4, <1>5 DEF q

LEMMA OthersStep ==
    ASSUME task \in [Tasks -> Task], NEW t \in Tasks, NEW m, NEW r, NEW losers,
           Step(t, m, r, losers)
    PROVE  /\ r \in Task => task' \in [Tasks -> Task]
           /\ task'[t] = r
           /\ \A u \in Tasks \ {t} :
                 /\ SameWork(task'[u], task[u])
                 /\ task[u].op \in losers => ~task'[u].cur
                 /\ task[u].op \notin losers => task'[u].cur = task[u].cur
                 /\ ~task'[u].cut => ~Cut(u, t, m)
<1> DEFINE q(u) == [task[u] EXCEPT !.cur = @ /\ task[u].op \notin losers,
                                    !.cut = @ \/ Cut(u, t, m)]
<1>1. task' = [u \in Tasks |-> IF u = t THEN r ELSE q(u)]
  BY DEF Step, Others
<1>2. ASSUME NEW u \in Tasks
      PROVE  /\ q(u) \in Task /\ SameWork(q(u), task[u])
             /\ task[u].op \in losers => ~q(u).cur
             /\ task[u].op \notin losers => q(u).cur = task[u].cur
             /\ ~q(u).cut => ~Cut(u, t, m)
  <2>1. (task[u].op \notin losers) \in BOOLEAN /\ Cut(u, t, m) \in BOOLEAN
    BY Zenon DEF Cut
  <2>2. task[u] \in Task
    OBVIOUS
  <2> QED
    BY <2>1, <2>2, OtherTask, Zenon
<1> HIDE DEF q
<1>3. task'[t] = r /\ \A u \in Tasks \ {t} : task'[u] = q(u)
  BY <1>1
<1>4. r \in Task => task' \in [Tasks -> Task]
  BY <1>1, <1>2
<1> QED
  BY <1>2, <1>3, <1>4

LEMMA KeepOthers ==
    ASSUME task \in [Tasks -> Task], NEW t \in Tasks, NEW m, NEW r \in Task, Keep(t, m, r)
    PROVE  /\ task' \in [Tasks -> Task] /\ task'[t] = r
           /\ \A u \in Tasks \ {t} : SameWork(task'[u], task[u]) /\ task'[u].cur = task[u].cur
<1>1. ASSUME NEW losers, Step(t, m, r, losers)
      PROVE  /\ task' \in [Tasks -> Task] /\ task'[t] = r
             /\ \A u \in Tasks \ {t} : SameWork(task'[u], task[u])
             /\ \A u \in Tasks \ {t} : task[u].op \notin losers => task'[u].cur = task[u].cur
  BY <1>1, OthersStep
<1>2. Step(t, m, r, {})
  BY DEF Keep
<1>3. /\ task' \in [Tasks -> Task] /\ task'[t] = r
      /\ \A u \in Tasks \ {t} : SameWork(task'[u], task[u])
      /\ \A u \in Tasks \ {t} : task[u].op \notin {} => task'[u].cur = task[u].cur
  BY <1>1, <1>2
<1> QED
  BY <1>3

Storing == {"get", "write", "wrote"}

\* The storage's answers come in the order of its calls, one per task.
Queued ==
    /\ queue \in Seq(Tasks)
    /\ \A i, j \in DOMAIN queue : queue[i] = queue[j] => i = j
    /\ \A t \in Tasks : task[t].at \in Storing <=> \E i \in DOMAIN queue : queue[i] = t

Before(u, v) == \E i, j \in DOMAIN queue : i < j /\ queue[i] = u /\ queue[j] = v

LEMMA AnsweredFirst ==
    ASSUME Queued, NEW t \in Tasks, Answered(t)
    PROVE  \A v \in Tasks \ {t} : task[v].at \in Storing => Before(t, v)
<1> SUFFICES ASSUME NEW v \in Tasks \ {t}, task[v].at \in Storing PROVE Before(t, v)
  OBVIOUS
<1>1. 1 \in DOMAIN queue /\ queue[1] = t
  BY DEF Answered, Queued
<1>2. PICK j \in DOMAIN queue : queue[j] = v
  BY DEF Queued
<1> QED
  BY <1>1, <1>2 DEF Before, Queued

LEMMA ServedQueue ==
    ASSUME Queued, NEW t \in Tasks, task[t].at \in Storing => Answered(t)
    PROVE  /\ Served(t) \in Seq(Tasks)
           /\ \E d \in {0, 1} :
                 /\ Len(queue) = Len(Served(t)) + d
                 /\ \A i \in 1 .. Len(Served(t)) : Served(t)[i] = queue[i + d] /\ Served(t)[i] # t
                 /\ d = 1 => queue[1] = t
                 /\ d = 0 => \A i \in 1 .. Len(queue) : queue[i] # t
<1>1. CASE Answered(t)
  <2>1. queue # <<>> /\ queue[1] = t /\ Served(t) = Tail(queue)
    BY <1>1 DEF Answered, Served, Queued
  <2>2. /\ Tail(queue) \in Seq(Tasks) /\ Len(queue) = Len(Tail(queue)) + 1
        /\ \A i \in 1 .. Len(Tail(queue)) : Tail(queue)[i] = queue[i + 1]
    BY <2>1 DEF Queued
  <2>3. \A i \in 1 .. Len(Tail(queue)) : queue[i + 1] # t
    BY <2>1, <2>2 DEF Queued
  <2>4. /\ Served(t) \in Seq(Tasks) /\ Len(queue) = Len(Served(t)) + 1
        /\ \A i \in 1 .. Len(Served(t)) : Served(t)[i] = queue[i + 1] /\ Served(t)[i] # t
    BY <2>1, <2>2, <2>3
  <2>5. 1 \in {0, 1} /\ 1 # 0
    OBVIOUS
  <2> QED
    BY <2>1, <2>4, <2>5, Zenon
<1>2. CASE ~Answered(t)
  <2>1. Served(t) = queue /\ \A i \in 1 .. Len(queue) : queue[i] # t
    BY <1>2 DEF Served, Queued
  <2> QED
    BY <2>1 DEF Queued
<1> QED
  BY <1>1, <1>2

LEMMA QueueStep ==
    ASSUME Queued, task \in [Tasks -> Task], NEW t \in Tasks, NEW m, NEW r \in Task, NEW losers,
           Step(t, m, r, losers), task[t].at \in Storing => Answered(t)
    PROVE  /\ Queued'
           /\ \A u, v \in Tasks : Before(u, v)' => u # t /\ (v = t \/ Before(u, v))
<1> DEFINE s == Served(t)
<1>1. PICK d \in {0, 1} :
         /\ s \in Seq(Tasks) /\ Len(queue) = Len(s) + d
         /\ \A i \in 1 .. Len(s) : s[i] = queue[i + d] /\ s[i] # t
         /\ d = 1 => queue[1] = t
         /\ d = 0 => \A i \in 1 .. Len(queue) : queue[i] # t
  BY ServedQueue
<1>2. queue' = IF r.at \in Storing THEN Append(s, t) ELSE s
  BY DEF Step, Storing
<1>3. /\ task'[t] = r
      /\ \A u \in Tasks \ {t} : task'[u].at = task[u].at
  <2>1. task'[t] = r /\ \A u \in Tasks \ {t} : SameWork(task'[u], task[u])
    BY OthersStep, Zenon
  <2> QED
    BY <2>1 DEF SameWork
<1> HIDE DEF s
<1>0. /\ Len(s) \in Nat /\ DOMAIN queue = 1 .. Len(queue)
      /\ \A i \in 1 .. Len(s) : i + d \in DOMAIN queue /\ queue[i + d] = s[i]
  BY <1>1 DEF Queued
<1>4. ASSUME NEW i \in 1 .. Len(s), NEW j \in 1 .. Len(s), s[i] = s[j] PROVE i = j
  <2>1. i + d = j + d
    BY <1>0, <1>4 DEF Queued
  <2> QED
    BY <1>0, <1>1, <2>1
<1>5. \A u \in Tasks \ {t} : task[u].at \in Storing <=> \E i \in 1 .. Len(s) : s[i] = u
  <2> TAKE u \in Tasks \ {t}
  <2>1. task[u].at \in Storing <=> \E i \in 1 .. Len(queue) : queue[i] = u
    BY DEF Queued
  <2>2. ASSUME NEW i \in 1 .. Len(queue), queue[i] = u PROVE \E j \in 1 .. Len(s) : s[j] = u
    <3>1. i - d \in 1 .. Len(s)
      BY <1>1, <2>2 DEF Queued
    <3>2. s[i - d] = queue[(i - d) + d] /\ (i - d) + d = i
      BY <1>1, <3>1
    <3> QED
      BY <2>2, <3>1, <3>2
  <2>3. ASSUME NEW j \in 1 .. Len(s), s[j] = u PROVE \E i \in 1 .. Len(queue) : queue[i] = u
    <3>1. j + d \in 1 .. Len(queue)
      BY <1>1 DEF Queued
    <3> QED
      BY <1>1, <2>3, <3>1
  <2> QED
    BY <2>1, <2>2, <2>3
<1>6. Queued'
  <2>1. CASE r.at \in Storing
    <3>1. /\ queue' \in Seq(Tasks) /\ Len(queue') = Len(s) + 1 /\ DOMAIN queue' = 1 .. Len(s) + 1
          /\ queue'[Len(s) + 1] = t /\ \A i \in 1 .. Len(s) : queue'[i] = s[i]
      BY <1>1, <1>2, <2>1
    <3>2. \A i, j \in DOMAIN queue' : queue'[i] = queue'[j] => i = j
      BY <1>1, <1>4, <3>1
    <3>3. \A u \in Tasks : task'[u].at \in Storing <=> \E i \in DOMAIN queue' : queue'[i] = u
      <4>1. ASSUME NEW u \in Tasks \ {t}
            PROVE  task'[u].at \in Storing <=> \E i \in DOMAIN queue' : queue'[i] = u
        <5>1. (\E i \in DOMAIN queue' : queue'[i] = u) <=> \E i \in 1 .. Len(s) : s[i] = u
          <6>1. \A i \in DOMAIN queue' : queue'[i] = u => i \in 1 .. Len(s)
            BY <1>0, <3>1
          <6>2. \A i \in 1 .. Len(s) : i \in DOMAIN queue' /\ queue'[i] = s[i]
            BY <1>0, <3>1
          <6> QED
            BY <6>1, <6>2, Zenon
        <5> QED
          BY <1>3, <1>5, <5>1
      <4>2. task'[t].at \in Storing /\ Len(s) + 1 \in DOMAIN queue'
        BY <1>0, <1>3, <2>1, <3>1
      <4> QED
        BY <3>1, <4>1, <4>2
    <3> QED
      BY <3>1, <3>2, <3>3 DEF Queued
  <2>2. CASE r.at \notin Storing
    <3>1. queue' = s /\ DOMAIN s = 1 .. Len(s)
      BY <1>1, <1>2, <2>2
    <3> QED
      BY <1>1, <1>3, <1>4, <1>5, <2>2, <3>1 DEF Queued
  <2> QED
    BY <2>1, <2>2
<1>7. ASSUME NEW u \in Tasks, NEW v \in Tasks, Before(u, v)' PROVE u # t /\ (v = t \/ Before(u, v))
  <2>1. PICK i, j \in DOMAIN queue' : i < j /\ queue'[i] = u /\ queue'[j] = v
    BY <1>7 DEF Before
  <2>2. /\ i \in 1 .. Len(s) /\ s[i] = u
        /\ v = t \/ (j \in 1 .. Len(s) /\ s[j] = v)
    BY <1>1, <1>2, <2>1
  <2>3. ASSUME j \in 1 .. Len(s), s[j] = v PROVE Before(u, v)
    <3>1. /\ i + d \in DOMAIN queue /\ j + d \in DOMAIN queue /\ i + d < j + d
          /\ queue[i + d] = u /\ queue[j + d] = v
      BY <1>0, <1>1, <2>1, <2>2, <2>3
    <3> QED
      BY <3>1 DEF Before
  <2> QED
    BY <1>1, <2>2, <2>3
<1> QED
  BY <1>6, <1>7

-----------------------------------------------------------------------------
(* Types *)

Dispatching == {"hydrate", "prepare", "gate"}

\* A dispatch that has not been cut off is the one the session knows of.
CutOrFiring ==
    \A t \in Tasks : task[t].op = "fire" /\ task[t].at \in Dispatching /\ ~task[t].cut
                        => mem.firing = t

Written == {"write", "wrote", "failed"}
Kinds ==
    /\ mem \in Memory /\ task \in [Tasks -> Task] /\ \A t \in Tasks : Proper(task[t])
    /\ Queued /\ CutOrFiring
    /\ \A t \in mem.persisting : task[t].at \in Written
    /\ \A t \in mem.completing : task[t].op = "final" /\ task[t].at \in {"record"} \cup Written

\* m and r are what a step of t may lead to.
Fits(t, m, r) ==
    /\ m \in Memory /\ r \in ProperTask
    /\ m.persisting \subseteq mem.persisting \cup {t}
    /\ t \in m.persisting => r.at \in Written
    /\ m.completing \subseteq mem.completing \cup {t}
    /\ t \in m.completing => r.op = "final" /\ r.at \in {"record"} \cup Written
    /\ r.op = "fire" /\ r.at \in Dispatching /\ ~r.cut => m.firing = t

LEMMA StepMemory ==
    ASSUME NEW t \in Tasks, NEW m \in Memory, NEW r, NEW losers, Step(t, m, r, losers)
    PROVE  Alike(mem', m)
<1>1. PICK W : mem' = [m EXCEPT !.late = @ \cap W, !.older = @ \cap W]
  BY Zenon DEF Step
<1>2. m.late \cap W \in SUBSET Tasks /\ m.older \cap W \in SUBSET Tasks
  BY DEF Memory
<1>3. mem' \in Memory
  BY <1>1, <1>2, Zenon DEF Memory
<1> QED
  BY <1>1, <1>3 DEF Alike, Memory, SameBarriers, SameEars

LEMMA StepKinds ==
    ASSUME Kinds, NEW t \in Tasks, NEW m, NEW r, NEW losers, Step(t, m, r, losers),
           task[t].at \in Storing => Answered(t), Fits(t, m, r)
    PROVE  Kinds'
<1>1. m \in Memory /\ r \in Task /\ Proper(r)
  BY DEF Fits, ProperTask
<1>2. Alike(mem', m)
  BY <1>1, StepMemory
<1>3. /\ task' \in [Tasks -> Task] /\ task'[t] = r
      /\ \A u \in Tasks \ {t} : /\ SameWork(task'[u], task[u])
                                /\ ~task'[u].cut => ~Cut(u, t, m)
  BY <1>1, OthersStep DEF Kinds
<1>4. Queued'
  BY <1>1, QueueStep DEF Kinds
<1>5. \A u \in Tasks : Proper(task'[u])
  BY <1>1, <1>3 DEF Kinds, SameWork, Proper
<1>6. /\ \A u \in mem'.persisting : task'[u].at \in Written
      /\ \A u \in mem'.completing : task'[u].op = "final" /\ task'[u].at \in {"record"} \cup Written
  <2>1. mem'.persisting = m.persisting /\ mem'.completing = m.completing
    BY <1>2 DEF Alike, SameBarriers
  <2>2. m.persisting \subseteq Tasks /\ m.completing \subseteq Tasks
    BY <1>1 DEF Memory
  <2>3. \A u \in Tasks \ {t} : task'[u].op = task[u].op /\ task'[u].at = task[u].at
    BY <1>3 DEF SameWork
  <2> QED
    BY <1>3, <2>1, <2>2, <2>3 DEF Kinds, Fits
<1>7. CutOrFiring'
  <2> SUFFICES ASSUME NEW u \in Tasks, task'[u].op = "fire", task'[u].at \in Dispatching,
                      ~task'[u].cut
               PROVE  m.firing = u
    BY <1>2 DEF CutOrFiring, Alike, SameEars
  <2>1. CASE u = t
    BY <1>3, <2>1 DEF Fits
  <2>2. CASE u # t
    <3>1. task[u].op = "fire" /\ task[u].at \in Dispatching /\ ~task[u].cut /\ ~Cut(u, t, m)
      BY <1>3, <2>2 DEF SameWork
    <3>2. mem.firing = u
      BY <3>1 DEF Kinds, CutOrFiring
    <3> QED
      BY <2>2, <3>1, <3>2 DEF Cut, Dispatching
  <2> QED
    BY <2>1, <2>2
<1> QED
  BY <1>2, <1>3, <1>4, <1>5, <1>6, <1>7 DEF Kinds, Alike

Ready(t) == task[t].at \in Storing => Answered(t)
Free(t) == task[t].at \notin {"record"} \cup Written

Steps(t, m, r) == Keep(t, m, r) \/ Renew(t, m, r) \/ Replace(t, m, r)

Within(P, C, m) == m \in Memory /\ m.persisting \subseteq P /\ m.completing \subseteq C

LEMMA StepsKinds ==
    ASSUME Kinds, NEW t \in Tasks, NEW m, NEW r, Steps(t, m, r), Ready(t), Fits(t, m, r)
    PROVE  Kinds'
<1> DEFINE n == [m EXCEPT !.finalized = FALSE]
<1>1. Alike(n, m)
  BY FlagMemory DEF Fits
<1>2. Fits(t, n, r)
  BY <1>1 DEF Fits, Alike, SameBarriers, SameEars
<1> HIDE DEF n
<1>3. PICK losers : Step(t, m, r, losers) \/ Step(t, n, r, losers)
  BY DEF Steps, Keep, Renew, Replace, n
<1> QED
  BY <1>2, <1>3, StepKinds DEF Ready

\* t has nothing to write,
LEMMA FreeStep ==
    ASSUME Kinds, NEW t \in Tasks, NEW m, NEW r, Steps(t, m, r), Ready(t), Free(t),
           Within(mem.persisting, mem.completing, m), r \in ProperTask,
           r.op = "fire" /\ r.at \in Dispatching => r.cut \/ m.firing = t
    PROVE  Kinds'
<1>1. t \notin mem.persisting /\ t \notin mem.completing
  BY DEF Kinds, Free
<1>2. Fits(t, m, r)
  BY <1>1 DEF Within, Fits
<1> QED
  BY <1>2, StepsKinds

\* it begins to write,
LEMMA WritingStep ==
    ASSUME Kinds, NEW t \in Tasks, NEW m, NEW r, Steps(t, m, r), Ready(t), Free(t),
           Within(mem.persisting \cup {t}, mem.completing, m), r \in ProperTask, r.at = "write"
    PROVE  Kinds'
<1>1. t \notin mem.persisting /\ t \notin mem.completing
  BY DEF Kinds, Free
<1>2. Fits(t, m, r)
  BY <1>1 DEF Within, Fits, Written, Dispatching
<1> QED
  BY <1>2, StepsKinds

\* or its write has settled.
LEMMA SettledStep ==
    ASSUME Kinds, NEW t \in Tasks, NEW m, NEW r, Steps(t, m, r), Ready(t),
           Within(mem.persisting \ {t}, mem.completing \ {t}, m), r \in ProperTask,
           r.op = "fire" => r.at \notin Dispatching
    PROVE  Kinds'
<1>1. Fits(t, m, r)
  BY DEF Within, Fits
<1> QED
  BY <1>1, StepsKinds

LEMMA MemWithin ==
    ASSUME Kinds, NEW t \in Tasks
    PROVE  /\ Within(mem.persisting, mem.completing, mem)
           /\ Within(mem.persisting \ {t}, mem.completing \ {t}, Settled(t))
  BY SettledMemory DEF Within, Kinds

LEMMA WithinOps ==
    ASSUME NEW P, NEW C, NEW m, Within(P, C, m)
    PROVE  /\ Within(P, C, Owned(m, "live")) /\ Within(P, C, Owned(m, "cancelled"))
           /\ Within(P, C, Disowned(m)) /\ Within(P, C, Detached(m))
           /\ Within(P, C, Armed(m)) /\ Within(P, C, stopSession(m))
           /\ Within(P, C, CancelDeferred(m)) /\ Within(P, C, RestoreDeferred(m))
           /\ Within(P, C, Rebound(m)) /\ Within(P, C, Claimed(m))
           /\ Within(P, C, [m EXCEPT !.usageTimer = FALSE])
           /\ Within(P, C, [m EXCEPT !.claimed = FALSE])
           /\ Within(P, C, [m EXCEPT !.listening = TRUE])
<1> m \in Memory
  BY DEF Within
<1>1. /\ Within(P, C, Owned(m, "live")) /\ Within(P, C, Owned(m, "cancelled"))
      /\ Within(P, C, Disowned(m)) /\ Within(P, C, Detached(m))
  BY OwnedMemory, DisownedMemory, DetachedMemory DEF Within, SameBarriers, Owners
<1>2. Within(P, C, Armed(m)) /\ Within(P, C, stopSession(m)) /\ Within(P, C, Rebound(m))
  BY ArmedMemory, StopSessionMemory, ReboundMemory DEF Within, Alike, SameBarriers
<1>3. /\ Within(P, C, CancelDeferred(m)) /\ Within(P, C, RestoreDeferred(m))
      /\ Within(P, C, Claimed(m))
  BY DeferredMemory, ReboundMemory DEF Within, SameBarriers
<1>4. /\ Within(P, C, [m EXCEPT !.usageTimer = FALSE])
      /\ Within(P, C, [m EXCEPT !.claimed = FALSE])
      /\ Within(P, C, [m EXCEPT !.listening = TRUE])
  BY FlagMemory, ListeningMemory DEF Within, Alike, SameBarriers
<1> QED
  BY <1>1, <1>2, <1>3, <1>4

LEMMA WithinTaskOps ==
    ASSUME NEW P, NEW C, NEW m, Within(P, C, m), NEW t \in Tasks
    PROVE  Within(P, C, Finished(t, m)) /\ Within(P \cup {t}, C, Persisting(t, m))
  BY FinishedMemory, PersistingMemory DEF Within, SameBarriers

LEMMA WithinAttach ==
    ASSUME NEW P, NEW C, NEW m, Within(P, C, m), hydrated \in BOOLEAN
    PROVE  Within(P, C, attachListener(m))
  BY AttachMemory DEF Within, SameBarriers

LEMMA WithinAlike ==
    ASSUME NEW P, NEW C, NEW m, Within(P, C, m), NEW n, Alike(n, m) PROVE Within(P, C, n)
  BY DEF Within, Alike, SameBarriers

LEMMA AtReady ==
    ASSUME NEW t \in Tasks, NEW op, NEW at, At(t, op, at)
    PROVE  task[t].op = op /\ task[t].at = at /\ Ready(t)
  BY DEF At, Ready, Storing

LEMMA IdleReady ==
    ASSUME Kinds, NEW t \in Tasks, task[t].op = "none"
    PROVE  Ready(t) /\ Free(t) /\ task[t].at = "end"
  BY DEF Kinds, Proper, Ready, Storing, Free, Written

LEMMA NewProper ==
    /\ \A op \in {"pause", "clear", "resume", "reauto"} : New(op, "barrier") \in ProperTask
    /\ \A op \in {"fire", "open", "auto", "idle", "boot", "set"} : New(op, "get") \in ProperTask
<1>1. ASSUME NEW op \in {"pause", "clear", "resume", "reauto"}
      PROVE  New(op, "barrier") \in ProperTask
  <2>1. op \in Operations /\ "barrier" \in Points
    BY DEF Operations, Points
  <2> QED
    BY <2>1, NewTask DEF ProperTask, Proper
<1>2. ASSUME NEW op \in {"fire", "open", "auto", "idle", "boot", "set"}
      PROVE  New(op, "get") \in ProperTask
  <2>1. op \in Operations /\ "get" \in Points
    BY DEF Operations, Points
  <2> QED
    BY <2>1, NewTask DEF ProperTask, Proper
<1> QED
  BY <1>1, <1>2

-----------------------------------------------------------------------------
(* Every action keeps the types of the controller and its tasks *)

LEMMA EndStep ==
    ASSUME Kinds, NEW t \in Tasks, NEW m, Within(mem.persisting, mem.completing, m), End(t, m),
           Ready(t), Free(t)
    PROVE  Kinds'
<1>1. Keep(t, Finished(t, m), Idle)
  BY DEF End
<1>2. Within(mem.persisting, mem.completing, Finished(t, m))
  BY WithinTaskOps
<1> QED
  BY <1>1, <1>2, IdleTask, FreeStep DEF Steps

LEMMA EndSettledStep ==
    ASSUME Kinds, NEW t \in Tasks, End(t, Settled(t)), Ready(t)
    PROVE  Kinds'
<1>1. Keep(t, Finished(t, Settled(t)), Idle)
  BY DEF End
<1>2. Within(mem.persisting \ {t}, mem.completing \ {t}, Finished(t, Settled(t)))
  BY MemWithin, WithinTaskOps
<1> QED
  BY <1>1, <1>2, IdleTask, SettledStep DEF Steps

LEMMA IdleStep ==
    ASSUME Kinds, NEW t \in Tasks, NEW m, Steps(t, m, Idle), Ready(t),
           \/ Free(t) /\ Within(mem.persisting, mem.completing, m)
           \/ Within(mem.persisting \ {t}, mem.completing \ {t}, m)
    PROVE  Kinds'
  BY IdleTask, FreeStep, SettledStep

\* A step on to a point where nothing is written.
LEMMA ToStep ==
    ASSUME Kinds, NEW t \in Tasks, NEW m, NEW at \in Points, Steps(t, m, To(t, at)),
           Ready(t), Free(t), Within(mem.persisting, mem.completing, m), Proper(To(t, at)),
           task[t].op = "fire" /\ at \in Dispatching => task[t].cut \/ m.firing = t
    PROVE  Kinds'
  BY ToTask, FreeStep DEF Kinds, ProperTask

LEMMA PersistStep ==
    ASSUME Kinds, NEW t \in Tasks, NEW m, NEW status \in Statuses,
           Within(mem.persisting, mem.completing, m), Persist(t, m, status), Ready(t), Free(t),
           task[t].op \notin {"none", "set", "clear", "pause", "boot", "idle"}
    PROVE  Kinds'
<1>1. Keep(t, Persisting(t, m), Writing(task[t], status))
  BY DEF Persist
<1>2. Within(mem.persisting \cup {t}, mem.completing, Persisting(t, m))
  BY WithinTaskOps
<1>3. Writing(task[t], status) \in ProperTask /\ Writing(task[t], status).at = "write"
  BY WritingTask DEF Kinds, ProperTask, Proper
<1> QED
  BY <1>1, <1>2, <1>3, WritingStep DEF Steps

LEMMA SupersededKinds ==
    ASSUME Kinds, NEW t \in Tasks, Superseded(t) PROVE Kinds'
<1>1. Ready(t) /\ Free(t) /\ End(t, mem)
  BY AtReady DEF Superseded, Free, Written
<1> QED
  BY <1>1, MemWithin, EndStep

LEMMA WriteKinds ==
    ASSUME Kinds, NEW t \in Tasks, Write(t) \/ WriteFails(t) PROVE Kinds'
<1>1. PICK at \in {"wrote", "failed"} : Keep(t, mem, To(t, at))
  BY DEF Write, WriteFails
<1>2. Ready(t) /\ task[t].at = "write"
  BY AtReady DEF Write, WriteFails
<1>3. To(t, at) \in ProperTask /\ To(t, at).at = at /\ To(t, at).op = task[t].op
  BY <1>2, ToTask DEF Kinds, Proper, ProperTask, Points
<1>4. Fits(t, mem, To(t, at))
  BY <1>3 DEF Kinds, Fits, Written, Dispatching
<1> QED
  BY <1>1, <1>2, <1>4, StepsKinds DEF Steps

LEMMA EndingKinds ==
    ASSUME Kinds, NEW t \in Tasks, BlockSettled(t) \/ LateSettled(t) PROVE Kinds'
<1>1. Ready(t)
  BY AtReady DEF BlockSettled, LateSettled
<1>2. CASE End(t, Settled(t))
  BY <1>1, <1>2, EndSettledStep
<1> DEFINE m == Owned(Detached(Settled(t)), "cancelled")
<1>3. CASE Replace(t, stopSession(Settled(t)), Idle)
  BY <1>1, <1>3, MemWithin, WithinOps, IdleStep DEF Steps
<1>4. CASE Replace(t, [m EXCEPT !.unsaved = TRUE], Idle)
  <2>1. Within(mem.persisting \ {t}, mem.completing \ {t}, Detached(Settled(t)))
    BY MemWithin, WithinOps
  <2>2. Within(mem.persisting \ {t}, mem.completing \ {t}, m)
    BY <2>1, WithinOps
  <2>3. Within(mem.persisting \ {t}, mem.completing \ {t}, [m EXCEPT !.unsaved = TRUE])
    BY <2>2, UnsavedMemory DEF Within, SameBarriers
  <2> QED
    BY <1>1, <1>4, <2>3, IdleStep DEF Steps
<1> QED
  BY <1>2, <1>3, <1>4 DEF BlockSettled, LateSettled

LEMMA TakeOverKinds ==
    ASSUME Kinds, NEW t \in Tasks, calls \in 0 .. MaxCalls, pauseGoal(t) \/ clearGoal(t)
    PROVE  Kinds'
<1> DEFINE m1 == CancelDeferred(Detached(mem))
           m == [Owned(m1, "cancelled") EXCEPT !.usageTimer = FALSE]
<1>1. PICK op \in {"pause", "clear"} :
         Replace(t, m, [New(op, "barrier") EXCEPT !.objective = calls])
  BY DEF pauseGoal, clearGoal, TakeOver
<1>2. Ready(t) /\ Free(t)
  BY IdleReady DEF pauseGoal, clearGoal, Call
<1>3. Within(mem.persisting, mem.completing, m)
  <2>1. Within(mem.persisting, mem.completing, Detached(mem))
    BY MemWithin, WithinOps
  <2>2. Within(mem.persisting, mem.completing, m1)
    BY <2>1, WithinOps
  <2>3. Within(mem.persisting, mem.completing, Owned(m1, "cancelled"))
    BY <2>2, WithinOps
  <2> QED
    BY <2>3, WithinOps
<1> DEFINE r == [New(op, "barrier") EXCEPT !.objective = calls]
<1>4. r \in ProperTask /\ r.op = op
  <2>1. New(op, "barrier") \in ProperTask /\ New(op, "barrier").op = op
    BY NewProper, NewTask DEF Operations, Points
  <2>2. New(op, "barrier") \in Task
    BY <2>1 DEF ProperTask
  <2>3. r \in Task
    BY <2>2, Zenon DEF Task
  <2> QED
    BY <2>1, <2>3 DEF ProperTask, Proper, Task
<1> QED
  BY <1>1, <1>2, <1>3, <1>4, FreeStep DEF Steps

LEMMA StoppingKinds ==
    ASSUME Kinds, NEW t \in Tasks, Stopping(t) PROVE Kinds'
<1>1. CASE PauseReady(t)
  <2>1. Ready(t) /\ Free(t) /\ task[t].op = "pause"
    BY <1>1, AtReady DEF PauseReady, Waited, Resumed, Free, Written
  <2>2. Proper(To(t, "get"))
    BY <2>1, ToTask DEF Kinds, Proper, Points
  <2> QED
    BY <1>1, <2>1, <2>2, MemWithin, ToStep DEF PauseReady, Steps, Points
<1>2. CASE PauseRead(t)
  <2>1. Ready(t) /\ Free(t) /\ task[t].op = "pause"
    BY <1>2, AtReady DEF PauseRead, Resumed, Free, Written
  <2>2. CASE End(t, mem)
    BY <2>1, <2>2, MemWithin, EndStep
  <2>3. CASE Persist(t, mem, "paused")
    <3>1. Keep(t, Persisting(t, mem), Writing(task[t], "paused"))
      BY <2>3 DEF Persist
    <3>2. Writing(task[t], "paused") \in ProperTask /\ Writing(task[t], "paused").at = "write"
      BY <2>1, WritingTask DEF Kinds, ProperTask, Proper, Statuses
    <3> QED
      BY <2>1, <3>1, <3>2, MemWithin, WithinTaskOps, WritingStep DEF Steps
  <2> QED
    BY <1>2, <2>2, <2>3 DEF PauseRead
<1>3. CASE ClearReady(t)
  <2>1. Ready(t) /\ Free(t) /\ task[t].op = "clear"
    BY <1>3, AtReady DEF ClearReady, Waited, Resumed, Free, Written
  <2>2. Keep(t, Persisting(t, mem), Writing(task[t], "delete"))
    BY <1>3 DEF ClearReady, Persist
  <2>3. Writing(task[t], "delete") \in ProperTask /\ Writing(task[t], "delete").at = "write"
    BY <2>1, WritingTask DEF Kinds, ProperTask, Proper
  <2> QED
    BY <2>1, <2>2, <2>3, MemWithin, WithinTaskOps, WritingStep DEF Steps
<1>4. CASE StopSettled(t)
  <2>1. Ready(t)
    BY <1>4, AtReady DEF StopSettled, Owns
  <2>2. CASE End(t, Settled(t))
    BY <2>1, <2>2, EndSettledStep
  <2>3. CASE Replace(t, Disowned(Settled(t)), Idle)
    BY <2>1, <2>3, MemWithin, WithinOps, IdleStep DEF Steps
  <2> QED
    BY <1>4, <2>2, <2>3 DEF StopSettled
<1> QED
  BY <1>1, <1>2, <1>3, <1>4 DEF Stopping

LEMMA setGoalKinds ==
    ASSUME Kinds, NEW t \in Tasks, setGoal(t), calls \in 0 .. MaxCalls PROVE Kinds'
<1> DEFINE takes == mem.rejections > 0 /\ mem.owner # "none"
           m1 == CancelDeferred(mem)
           m2 == Owned(Detached(m1), "cancelled")
           m == IF takes THEN m2 ELSE m1
           r == [New("set", "get") EXCEPT !.objective = calls + 1,
                    !.retry = IF takes THEN mem.rejections ELSE 0,
                    !.hadTurn = takes /\ mem.claimed]
           b == mem.owner # "none"
           c == mem.owner = "none"
<1>1. Ready(t) /\ Free(t)
  BY IdleReady DEF setGoal, Call
<1>2. /\ Within(mem.persisting, mem.completing, m)
      /\ Within(mem.persisting, mem.completing, Owned(Detached(m), "live"))
  <2>1. Within(mem.persisting, mem.completing, m1)
    BY MemWithin, WithinOps
  <2>2. Within(mem.persisting, mem.completing, Detached(m1))
    BY <2>1, WithinOps
  <2>3. Within(mem.persisting, mem.completing, m2)
    BY <2>2, WithinOps
  <2>4. Within(mem.persisting, mem.completing, m)
    BY <2>1, <2>3
  <2> HIDE DEF m
  <2>5. Within(mem.persisting, mem.completing, Detached(m))
    BY <2>4, WithinOps
  <2> QED
    BY <2>4, <2>5, WithinOps
<1>3. /\ r \in Task /\ r.op = "set" /\ r.at = "get" /\ r.put = "active"
      /\ ~r.owns
  <2>1. /\ New("set", "get") \in Task /\ New("set", "get").op = "set"
        /\ New("set", "get").at = "get" /\ New("set", "get").put = "active"
        /\ ~New("set", "get").owns
    BY NewTask DEF Operations, Points
  <2>2. calls + 1 \in 0 .. MaxCalls
    BY GoalAssumption DEF setGoal, Call
  <2>3. (IF takes THEN mem.rejections ELSE 0) \in 0 .. MaxRejections
    BY GoalAssumption DEF Kinds, Memory
  <2>4. (takes /\ mem.claimed) \in BOOLEAN
    <3>1. mem.claimed \in BOOLEAN
      BY DEF Kinds, Memory
    <3> QED
      BY <3>1, Zenon
  <2> HIDE DEF takes
  <2>5. \A x \in 0 .. MaxCalls, y \in 0 .. MaxRejections, z \in BOOLEAN :
           [New("set", "get") EXCEPT !.objective = x, !.retry = y, !.hadTurn = z] \in Task
    BY <2>1, Zenon DEF Task
  <2>6. r \in Task
    BY <2>2, <2>3, <2>4, <2>5
  <2> QED
    BY <2>1, <2>6 DEF Task
<1>4. /\ r \in ProperTask
      /\ [r EXCEPT !.at = "barrier"] \in ProperTask /\ [r EXCEPT !.at = "barrier"].op = "set"
      /\ [r EXCEPT !.cur = b, !.owns = c] \in ProperTask /\ [r EXCEPT !.cur = b, !.owns = c].op = "set"
  <2> HIDE DEF r
  <2>1. b \in BOOLEAN /\ c \in BOOLEAN
    BY Zenon
  <2> HIDE DEF b, c
  <2>2. [r EXCEPT !.at = "barrier"] \in Task /\ [r EXCEPT !.cur = b, !.owns = c] \in Task
    BY <1>3, <2>1, Zenon DEF Task, Points
  <2>3. /\ [r EXCEPT !.at = "barrier"].op = "set" /\ [r EXCEPT !.at = "barrier"].at = "barrier"
        /\ ~[r EXCEPT !.at = "barrier"].owns
        /\ [r EXCEPT !.cur = b, !.owns = c].op = "set" /\ [r EXCEPT !.cur = b, !.owns = c].at = "get"
    BY <1>3 DEF Task
  <2> QED
    BY <1>3, <2>2, <2>3 DEF ProperTask, Proper, Written
<1>5. \/ Steps(t, Owned(Detached(m), "live"), [r EXCEPT !.at = "barrier"])
      \/ Steps(t, m, r)
      \/ Steps(t, m, [r EXCEPT !.cur = b, !.owns = c])
  BY DEF setGoal, Steps
<1> HIDE DEF m, r, b, c
<1> QED
  BY <1>1, <1>2, <1>3, <1>4, <1>5, FreeStep

LEMMA SettingKinds ==
    ASSUME Kinds, NEW t \in Tasks, Setting(t), hydrated \in BOOLEAN PROVE Kinds'
<1>1. CASE SetReady(t)
  <2>1. Ready(t) /\ Free(t) /\ task[t].op = "set" /\ task[t].at = "barrier"
    BY <1>1, AtReady DEF SetReady, Waited, Resumed, Free, Written
  <2>2. Proper(To(t, "get"))
    BY <2>1, ToTask DEF Kinds, Proper, Points
  <2> QED
    BY <1>1, <2>1, <2>2, MemWithin, ToStep DEF SetReady, Steps, Points
<1>2. CASE SetRead(t)
  <2> DEFINE r == [To(t, "hydrate") EXCEPT !.cur = TRUE, !.owns = FALSE]
  <2>1. Ready(t) /\ Free(t) /\ task[t].op = "set"
    BY <1>2, AtReady DEF SetRead, Resumed, Free, Written
  <2>2. \A op \in {"create", "edit"} :
           [r EXCEPT !.op = op] \in ProperTask /\ [r EXCEPT !.op = op].op = op
    <3> TAKE op \in {"create", "edit"}
    <3>1. To(t, "hydrate") \in Task /\ To(t, "hydrate").at = "hydrate"
      BY ToTask DEF Kinds, Points
    <3>2. r \in Task
      BY <3>1, Zenon DEF Task
    <3>3. r.at = "hydrate"
      BY <3>1 DEF Task
    <3> HIDE DEF r
    <3>4. [r EXCEPT !.op = op] \in Task
      BY <3>2, Zenon DEF Task, Operations
    <3>5. [r EXCEPT !.op = op].at = "hydrate" /\ [r EXCEPT !.op = op].op = op
      BY <3>2, <3>3 DEF Task
    <3> QED
      BY <3>4, <3>5 DEF ProperTask, Proper
  <2>3. /\ Within(mem.persisting, mem.completing, mem)
        /\ Within(mem.persisting, mem.completing, Owned(Detached(mem), "live"))
        /\ Within(mem.persisting, mem.completing, Owned(mem, "live"))
    BY MemWithin, WithinOps
  <2>4. \/ Steps(t, Owned(Detached(mem), "live"), [r EXCEPT !.op = "create"])
        \/ Steps(t, Owned(mem, "live"), [r EXCEPT !.op = "edit"])
        \/ Steps(t, mem, [r EXCEPT !.op = "edit"])
    BY <1>2 DEF SetRead, Steps
  <2> HIDE DEF r
  <2> QED
    BY <2>1, <2>2, <2>3, <2>4, FreeStep
<1>3. CASE EditHydrated(t) \/ CreateHydrated(t)
  <2>1. Ready(t) /\ Free(t) /\ task[t].op \in {"edit", "create"}
    <3>1. At(t, "edit", "hydrate") \/ At(t, "create", "hydrate")
      BY <1>3 DEF EditHydrated, CreateHydrated, Resumed
    <3> QED
      BY <3>1, AtReady DEF Free, Written
  <2>2. CASE End(t, mem)
    BY <2>1, <2>2, MemWithin, EndStep
  <2>3. Proper(To(t, "barrier"))
    BY <2>1, ToTask DEF Kinds, Proper, Points
  <2>4. /\ Within(mem.persisting, mem.completing, mem)
        /\ Within(mem.persisting, mem.completing, Owned(Detached(mem), "live"))
    BY MemWithin, WithinOps
  <2>5. CASE \/ Steps(t, Owned(Detached(mem), "live"), To(t, "barrier"))
             \/ Steps(t, mem, To(t, "barrier"))
    BY <2>1, <2>3, <2>4, <2>5, ToStep DEF Points
  <2> QED
    BY <1>3, <2>2, <2>5 DEF EditHydrated, CreateHydrated, Steps
<1>4. CASE SetWrites(t)
  <2>1. Ready(t) /\ Free(t) /\ task[t].op \in {"edit", "create"}
    BY <1>4, AtReady DEF SetWrites, Waited, Resumed, Free, Written
  <2>2. /\ Within(mem.persisting, mem.completing, mem)
        /\ Within(mem.persisting, mem.completing, [mem EXCEPT !.usageTimer = FALSE])
    BY MemWithin, WithinOps
  <2> QED
    BY <1>4, <2>1, <2>2, PersistStep DEF SetWrites, Statuses
<1>5. CASE SetSettled(t)
  <2>1. Ready(t)
    BY <1>5, AtReady DEF SetSettled, Owns
  <2>2. CASE Steps(t, Disowned(Settled(t)), Idle)
    BY <2>1, <2>2, MemWithin, WithinOps, IdleStep
  <2>3. CASE Steps(t, attachListener(Settled(t)), New("fire", "get"))
    <3>1. New("fire", "get") \in ProperTask /\ New("fire", "get").at = "get"
      BY NewProper, NewTask DEF Operations, Points
    <3> QED
      BY <2>1, <2>3, <3>1, MemWithin, WithinAttach, SettledStep DEF Dispatching
  <2> QED
    BY <1>5, <2>2, <2>3 DEF SetSettled, Steps
<1>6. CASE SetGivenUp(t)
  <2>1. Ready(t)
    BY <1>6, AtReady DEF SetGivenUp, Owns
  <2>2. CASE Steps(t, Disowned(Settled(t)), Idle)
    BY <2>1, <2>2, MemWithin, WithinOps, IdleStep
  <2> DEFINE m == Armed(attachListener(Settled(t)))
  <2>3. CASE \E n \in {0, task[t].retry} : Steps(t, [m EXCEPT !.rejections = n], Idle)
    <3>1. PICK n \in {0, task[t].retry} : Steps(t, [m EXCEPT !.rejections = n], Idle)
      BY <2>3
    <3>2. n \in 0 .. MaxRejections
      BY GoalAssumption DEF Kinds, Task
    <3>3. Within(mem.persisting \ {t}, mem.completing \ {t}, attachListener(Settled(t)))
      BY MemWithin, WithinAttach
    <3>4. Within(mem.persisting \ {t}, mem.completing \ {t}, m)
      BY <3>3, WithinOps
    <3>5. Within(mem.persisting \ {t}, mem.completing \ {t}, [m EXCEPT !.rejections = n])
      BY <3>2, <3>4, CountMemory, WithinAlike DEF Within
    <3> QED
      BY <2>1, <3>1, <3>5, IdleStep
  <2> QED
    BY <1>6, <2>2, <2>3 DEF SetGivenUp, Steps
<1> QED
  BY <1>1, <1>2, <1>3, <1>4, <1>5, <1>6 DEF Setting

\* resumeGoal, or a resume that was deferred, begins.
LEMMA BeginKinds ==
    ASSUME Kinds, NEW t \in Tasks, NEW m, Within(mem.persisting, mem.completing, m),
           task[t].op = "none", BeginResume(t, m)
    PROVE  Kinds'
<1> DEFINE r == [New("resume", "barrier") EXCEPT !.owns = TRUE]
<1>1. Ready(t) /\ Free(t)
  BY IdleReady
<1>2. /\ New("resume", "barrier") \in Task /\ New("resume", "barrier").op = "resume"
      /\ New("resume", "barrier").at = "barrier" /\ New("resume", "barrier") \in ProperTask
  BY NewTask, NewProper DEF Operations, Points
<1>3. r \in ProperTask /\ r.op = "resume"
  <2>1. r \in Task
    BY <1>2, Zenon DEF Task
  <2> QED
    BY <1>2, <2>1 DEF ProperTask, Proper, Task, Written
<1>4. /\ Within(mem.persisting, mem.completing, Rebound(m))
      /\ Within(mem.persisting, mem.completing, Rebound(Owned(m, "live")))
  BY WithinOps
<1>5. \/ Steps(t, m, New("resume", "barrier"))
      \/ Steps(t, Rebound(m), New("resume", "barrier"))
      \/ Steps(t, Rebound(Owned(m, "live")), r)
  BY DEF BeginResume, Steps
<1> HIDE DEF r
<1> QED
  BY <1>1, <1>2, <1>3, <1>4, <1>5, FreeStep

LEMMA DeferKinds ==
    ASSUME Kinds, NEW t \in Tasks, NEW limited \in BOOLEAN, Defer(t, limited), Ready(t), Free(t)
    PROVE  Kinds'
<1> DEFINE m == IF mem.owner = "live" THEN Owned(Detached(mem), "cancelled") ELSE mem
           e == IF ~isBusy(m) \/ m.deferred = "armed" THEN "armed" ELSE "waiting"
           d == [m EXCEPT !.restores = limited, !.bound = TRUE, !.deferred = e]
<1>1. Within(mem.persisting, mem.completing, m)
  <2>1. Within(mem.persisting, mem.completing, Detached(mem))
    BY MemWithin, WithinOps
  <2> QED
    BY <2>1, MemWithin, WithinOps
<1>2. Steps(t, d, Idle)
  BY DEF Defer, Steps
<1> HIDE DEF m
<1>4. e \in {"no", "claimed", "waiting", "armed"} /\ m \in Memory
  BY <1>1 DEF Within
<1> HIDE DEF e
<1>3. Within(mem.persisting, mem.completing, d)
  <2>1. d \in Memory /\ SameBarriers(d, m)
    BY <1>4, DeferralMemory
  <2> HIDE DEF d
  <2> QED
    BY <1>1, <2>1 DEF Within, SameBarriers
<1> HIDE DEF d
<1> QED
  BY <1>2, <1>3, IdleStep

LEMMA ProceedsKinds ==
    ASSUME Kinds, NEW t \in Tasks, NEW m, Within(mem.persisting, mem.completing, m),
           NEW r \in ProperTask, r.op \in ResumeOps, row # None,
           Steps(t, Proceeds(t, m, r)[1], Proceeds(t, m, r)[2]), Ready(t), Free(t)
    PROVE  Kinds'
<1>1. CASE exceedsGoalBudget(row)
  <2>1. Steps(t, Persisting(t, m), Writing(r, "active"))
    BY <1>1 DEF Proceeds
  <2>2. Writing(r, "active") \in ProperTask /\ Writing(r, "active").at = "write"
    BY WritingTask DEF ProperTask, Proper, Statuses, ResumeOps
  <2> QED
    BY <2>1, <2>2, WithinTaskOps, WritingStep
<1>2. CASE ~exceedsGoalBudget(row)
  <2> DEFINE l == Limited(row)
             q == [r EXCEPT !.at = "hydrate", !.resets = l]
  <2>1. Steps(t, m, q)
    BY <1>2 DEF Proceeds
  <2>2. l \in BOOLEAN
    BY Zenon DEF Limited
  <2> HIDE DEF l
  <2>3. q \in Task
    BY <2>2, Zenon DEF ProperTask, Task, Points
  <2>4. q.at = "hydrate" /\ q.op = r.op
    BY DEF ProperTask, Task
  <2>5. q \in ProperTask
    BY <2>3, <2>4 DEF ProperTask, Proper, Written, ResumeOps
  <2> HIDE DEF q
  <2> QED
    BY <2>1, <2>4, <2>5, FreeStep DEF ResumeOps
<1> QED
  BY <1>1, <1>2

LEMMA GiveUpResumeKinds ==
    ASSUME Kinds, NEW t \in Tasks, NEW owns, GiveUpResume(t, owns), Ready(t)
    PROVE  Kinds'
<1>1. /\ Within(mem.persisting \ {t}, mem.completing \ {t}, Settled(t))
      /\ Within(mem.persisting \ {t}, mem.completing \ {t}, RestoreDeferred(Settled(t)))
  BY MemWithin, WithinOps
<1>2. PICK m \in {Settled(t), RestoreDeferred(Settled(t))} :
         Steps(t, Disowned(m), Idle) \/ Steps(t, m, Idle)
  BY DEF GiveUpResume, Steps
<1>3. /\ Within(mem.persisting \ {t}, mem.completing \ {t}, m)
      /\ Within(mem.persisting \ {t}, mem.completing \ {t}, Disowned(m))
  BY <1>1, <1>2, WithinOps
<1> QED
  BY <1>2, <1>3, IdleStep

LEMMA ResumingKinds ==
    ASSUME Kinds, NEW t \in Tasks, Resuming(t), hydrated \in BOOLEAN PROVE Kinds'
<1>1. CASE ResumeReady(t)
  <2>1. Ready(t) /\ Free(t) /\ task[t].op \in ResumeOps
    <3>1. At(t, "resume", "barrier") \/ At(t, "reauto", "barrier")
      BY <1>1 DEF ResumeReady, Waited, Resumed
    <3> QED
      BY <3>1, AtReady DEF Free, Written, ResumeOps
  <2>2. Proper(To(t, "get"))
    BY <2>1, ToTask DEF Kinds, Proper, Points, ResumeOps
  <2> QED
    BY <1>1, <2>1, <2>2, MemWithin, ToStep DEF ResumeReady, Steps, Points, ResumeOps
<1>2. CASE ResumeRead(t)
  <2>1. Ready(t) /\ Free(t) /\ task[t].op = "resume" /\ task[t].at = "get"
    BY <1>2, AtReady DEF ResumeRead, Resumed, Free, Written
  <2>2. /\ Within(mem.persisting, mem.completing, CancelDeferred(mem))
        /\ Within(mem.persisting, mem.completing, Disowned(CancelDeferred(mem)))
        /\ Within(mem.persisting, mem.completing, Claimed(mem))
        /\ Within(mem.persisting, mem.completing, Claimed(Owned(Disowned(mem), "live")))
    <3>1. /\ Within(mem.persisting, mem.completing, CancelDeferred(mem))
          /\ Within(mem.persisting, mem.completing, Claimed(mem))
          /\ Within(mem.persisting, mem.completing, Disowned(mem))
      BY MemWithin, WithinOps
    <3>2. Within(mem.persisting, mem.completing, Owned(Disowned(mem), "live"))
      BY <3>1, WithinOps
    <3> QED
      BY <3>1, <3>2, WithinOps
  <2>3. CASE Steps(t, Disowned(CancelDeferred(mem)), Idle) \/ Steps(t, CancelDeferred(mem), Idle)
    BY <2>1, <2>2, <2>3, IdleStep
  <2>4. CASE Resumable(row) /\ Defer(t, Limited(row))
    <3>1. Limited(row) \in BOOLEAN
      BY Zenon DEF Limited
    <3> QED
      BY <2>1, <2>4, <3>1, DeferKinds
  <2> DEFINE n == Claimed(Owned(Disowned(mem), "live"))
             q == [task[t] EXCEPT !.owns = TRUE]
  <2>5. CASE Resumable(row) /\ Steps(t, Proceeds(t, n, q)[1], Proceeds(t, n, q)[2])
    <3>1. task[t] \in Task
      BY DEF Kinds
    <3>2. q \in Task
      BY <3>1, Zenon DEF Task
    <3>3. q \in ProperTask /\ q.op = "resume"
      BY <2>1, <3>1, <3>2 DEF ProperTask, Proper, Task, Written
    <3> HIDE DEF q, n
    <3> QED
      BY <2>1, <2>2, <2>5, <3>3, ProceedsKinds DEF ResumeOps, Resumable, n
  <2>6. CASE Resumable(row) /\ Steps(t, Proceeds(t, Claimed(mem), task[t])[1],
                                     Proceeds(t, Claimed(mem), task[t])[2])
    <3>1. task[t] \in ProperTask
      BY DEF Kinds, ProperTask
    <3> QED
      BY <2>1, <2>2, <2>6, <3>1, ProceedsKinds DEF ResumeOps, Resumable
  <2> QED
    BY <1>2, <2>3, <2>4, <2>5, <2>6 DEF ResumeRead, Steps
<1>3. CASE ReautoRead(t)
  <2>1. Ready(t) /\ Free(t) /\ task[t].op = "reauto"
    BY <1>3, AtReady DEF ReautoRead, Resumed, Free, Written
  <2>2. CASE Steps(t, Disowned(mem), Idle)
    BY <2>1, <2>2, MemWithin, WithinOps, IdleStep
  <2>3. CASE Resumable(row) /\ Steps(t, Proceeds(t, mem, task[t])[1], Proceeds(t, mem, task[t])[2])
    <3>1. task[t] \in ProperTask
      BY DEF Kinds, ProperTask
    <3> QED
      BY <2>1, <2>3, <3>1, MemWithin, ProceedsKinds DEF ResumeOps, Resumable
  <2> QED
    BY <1>3, <2>2, <2>3 DEF ReautoRead, Steps
<1>4. CASE ResumeHydrated(t)
  <2>1. Ready(t) /\ Free(t) /\ task[t].op \in ResumeOps
    <3>1. At(t, "resume", "hydrate") \/ At(t, "reauto", "hydrate")
      BY <1>4 DEF ResumeHydrated, Resumed
    <3> QED
      BY <3>1, AtReady DEF Free, Written, ResumeOps
  <2>2. CASE Defer(t, task[t].resets)
    BY <2>1, <2>2, DeferKinds DEF Kinds, Task
  <2>3. CASE Persist(t, mem, "active")
    BY <2>1, <2>3, MemWithin, PersistStep DEF Statuses, ResumeOps
  <2> QED
    BY <1>4, <2>2, <2>3 DEF ResumeHydrated
<1>5. CASE ResumeSettled(t)
  <2> DEFINE c == IF task[t].op = "resume" THEN CancelDeferred(Settled(t)) ELSE Settled(t)
             u == [c EXCEPT !.usageTimer = FALSE]
             m == attachListener(Owned(u, "live"))
  <2>1. Ready(t)
    BY <1>5, AtReady DEF ResumeSettled, Owns
  <2>2. Within(mem.persisting \ {t}, mem.completing \ {t}, m)
    <3>1. Within(mem.persisting \ {t}, mem.completing \ {t}, c)
      BY MemWithin, WithinOps
    <3> HIDE DEF c
    <3>2. Within(mem.persisting \ {t}, mem.completing \ {t}, u)
      BY <3>1, WithinOps
    <3> HIDE DEF u
    <3>3. Within(mem.persisting \ {t}, mem.completing \ {t}, Owned(u, "live"))
      BY <3>2, WithinOps
    <3> QED
      BY <3>3, WithinAttach
  <2>3. New("fire", "get") \in ProperTask /\ New("fire", "get").at = "get"
    BY NewProper, NewTask DEF Operations, Points
  <2>4. Steps(t, m, Idle) \/ Steps(t, m, New("fire", "get"))
    BY <1>5 DEF ResumeSettled, Steps
  <2> HIDE DEF m
  <2> QED
    BY <2>1, <2>2, <2>3, <2>4, IdleStep, SettledStep DEF Dispatching
<1>6. CASE ResumeGivenUp(t)
  <2>1. Ready(t)
    <3>1. (\E op \in ResumeOps : At(t, op, "wrote")) \/ task[t].at = "failed"
      BY <1>6 DEF ResumeGivenUp, Owns
    <3> QED
      BY <3>1, AtReady DEF Ready, Storing
  <2> QED
    BY <1>6, <2>1, GiveUpResumeKinds DEF ResumeGivenUp
<1>7. CASE ResumeFails(t)
  <2>1. Ready(t)
    BY <1>7, AtReady DEF ResumeFails
  <2> QED
    BY <1>7, <2>1, GiveUpResumeKinds DEF ResumeFails
<1>8. CASE Unhydrated(t)
  <2> DEFINE u == [CancelDeferred(mem) EXCEPT !.usageTimer = FALSE]
  <2>1. /\ Ready(t) /\ Free(t)
        /\ task[t].op \in {"resume", "edit", "open"}
    <3>1. \E op \in {"resume", "edit", "open"} : At(t, op, "hydrate")
      BY <1>8 DEF Unhydrated, Resumed
    <3> QED
      BY <3>1, AtReady DEF Free, Written
  <2>2. Within(mem.persisting, mem.completing, u)
    <3>1. Within(mem.persisting, mem.completing, CancelDeferred(mem))
      BY MemWithin, WithinOps
    <3> QED
      BY <3>1, WithinOps
  <2>3. Persist(t, u, "blocked") \/ Persist(t, mem, "blocked")
    BY <1>8 DEF Unhydrated
  <2> HIDE DEF u
  <2> QED
    BY <2>1, <2>2, <2>3, MemWithin, PersistStep DEF Statuses
<1>9. CASE AutoRead(t) \/ AutoHydrated(t) \/ AutoNoticed(t)
  <2>1. Ready(t) /\ Free(t) /\ task[t].op = "auto"
    <3>1. \E at \in {"get", "hydrate", "notice"} : At(t, "auto", at)
      BY <1>9 DEF AutoRead, AutoHydrated, AutoNoticed, Resumed
    <3> QED
      BY <3>1, AtReady DEF Free, Written
  <2>2. CASE Steps(t, Disowned(mem), Idle)
    BY <2>1, <2>2, MemWithin, WithinOps, IdleStep
  <2>3. CASE Steps(t, mem, New("reauto", "barrier"))
    <3>1. New("reauto", "barrier") \in ProperTask /\ New("reauto", "barrier").at = "barrier"
      BY NewProper, NewTask DEF Operations, Points
    <3> QED
      BY <2>1, <2>3, <3>1, MemWithin, FreeStep DEF Dispatching
  <2>4. CASE \E at \in {"hydrate", "notice"} : Steps(t, mem, To(t, at))
    <3>1. PICK at \in {"hydrate", "notice"} : Steps(t, mem, To(t, at))
      BY <2>4
    <3>2. Proper(To(t, at))
      BY <2>1, ToTask DEF Kinds, Proper, Points
    <3> QED
      BY <2>1, <3>1, <3>2, MemWithin, ToStep DEF Points
  <2> QED
    BY <1>9, <2>2, <2>3, <2>4 DEF AutoRead, AutoHydrated, AutoNoticed, Steps
<1>10. CASE OwnerGivenUp(t)
  <2>1. Ready(t) /\ Free(t)
    <3>1. \E op, at : at \in {"get", "hydrate"} /\ At(t, op, at)
      BY <1>10 DEF OwnerGivenUp, Resumed
    <3> QED
      BY <3>1, AtReady DEF Free, Written
  <2> QED
    BY <1>10, <2>1, MemWithin, WithinOps, IdleStep DEF OwnerGivenUp, Steps
<1> QED
  BY <1>1, <1>2, <1>3, <1>4, <1>5, <1>6, <1>7, <1>8, <1>9, <1>10 DEF Resuming

LEMMA ReadFailsKinds ==
    ASSUME Kinds, NEW t \in Tasks, ReadFails(t) PROVE Kinds'
<1>1. Ready(t) /\ Free(t)
  BY AtReady DEF ReadFails, Free, Written
<1> QED
  BY <1>1, MemWithin, IdleStep DEF ReadFails, Steps

LEMMA TimersKinds ==
    ASSUME Kinds, NEW t \in Tasks, Timers(t) PROVE Kinds'
<1>1. task[t].op = "none" /\ Ready(t) /\ Free(t)
  BY IdleReady DEF Timers, ContinuationFires, DeferredResumeFires, autoResumeFromUsageLimit
<1>2. CASE ContinuationFires(t)
  <2> DEFINE m == [mem EXCEPT !.timer = FALSE, !.late = {}]
  <2>1. Within(mem.persisting, mem.completing, m)
    BY MemWithin, FlagMemory, WithinAlike DEF Kinds
  <2>2. New("fire", "get") \in ProperTask /\ New("fire", "get").at = "get"
    BY NewProper, NewTask DEF Operations, Points
  <2>3. Steps(t, m, Idle) \/ Steps(t, m, New("fire", "get"))
    BY <1>2 DEF ContinuationFires, Steps
  <2> HIDE DEF m
  <2> QED
    BY <1>1, <2>1, <2>2, <2>3, IdleStep, FreeStep DEF Dispatching
<1>3. CASE DeferredResumeFires(t)
  <2> DEFINE m == [mem EXCEPT !.deferred = "waiting"]
  <2>1. m \in Memory /\ SameBarriers(m, mem)
    BY DeferralMemory DEF Kinds
  <2>2. BeginResume(t, m)
    BY <1>3 DEF DeferredResumeFires
  <2> HIDE DEF m
  <2>3. Within(mem.persisting, mem.completing, m)
    BY <2>1 DEF Within, SameBarriers
  <2> QED
    BY <1>1, <2>2, <2>3, BeginKinds
<1>4. CASE autoResumeFromUsageLimit(t)
  <2> DEFINE m == [mem EXCEPT !.usageTimer = FALSE]
  <2>1. Within(mem.persisting, mem.completing, m)
    BY MemWithin, WithinOps
  <2>2. New("auto", "get") \in ProperTask /\ New("auto", "get").at = "get"
    BY NewProper, NewTask DEF Operations, Points
  <2>3. Steps(t, m, Idle) \/ Steps(t, Owned(m, "live"), New("auto", "get"))
    BY <1>4 DEF autoResumeFromUsageLimit, Steps
  <2> HIDE DEF m
  <2>4. Within(mem.persisting, mem.completing, Owned(m, "live"))
    BY <2>1, WithinOps
  <2> QED
    BY <1>1, <2>1, <2>2, <2>3, <2>4, IdleStep, FreeStep DEF Dispatching
<1> QED
  BY <1>2, <1>3, <1>4 DEF Timers

LEMMA resumeOnOpenKinds ==
    ASSUME Kinds, NEW t \in Tasks, resumeOnOpen(t) PROVE Kinds'
<1>1. task[t].op = "none" /\ Ready(t) /\ Free(t)
  BY IdleReady DEF resumeOnOpen, Call
<1>2. /\ New("open", "get") \in ProperTask /\ New("open", "get").at = "get"
      /\ New("open", "get").op = "open"
  BY NewProper, NewTask DEF Operations, Points
<1>3. CASE Steps(t, Persisting(t, mem), Writing(New("open", "get"), "blocked"))
  <2>1. /\ Writing(New("open", "get"), "blocked") \in ProperTask
        /\ Writing(New("open", "get"), "blocked").at = "write"
    BY <1>2, WritingTask DEF ProperTask, Proper, Statuses
  <2> QED
    BY <1>1, <1>3, <2>1, MemWithin, WithinTaskOps, WritingStep
<1>4. CASE Steps(t, Owned(mem, "live"), New("open", "get"))
  BY <1>1, <1>2, <1>4, MemWithin, WithinOps, FreeStep DEF Dispatching
<1> QED
  BY <1>3, <1>4 DEF resumeOnOpen, Steps

LEMMA OpeningKinds ==
    ASSUME Kinds, NEW t \in Tasks, Opening(t), hydrated \in BOOLEAN PROVE Kinds'
<1>1. /\ New("fire", "get") \in ProperTask /\ New("fire", "get").at = "get"
      /\ New("idle", "get") \in ProperTask /\ New("idle", "get").at = "get"
      /\ Within(mem.persisting, mem.completing, mem)
  <2>1. New("fire", "get") \in ProperTask /\ New("idle", "get") \in ProperTask
    BY NewProper
  <2>2. New("fire", "get").at = "get" /\ New("idle", "get").at = "get"
    BY NewTask DEF Operations, Points
  <2> QED
    BY <2>1, <2>2, MemWithin
<1>2. CASE OpenRead(t)
  <2>1. Ready(t) /\ Free(t) /\ task[t].op = "open"
    BY <1>2, AtReady DEF OpenRead, Resumed, Free, Written
  <2>2. Proper(To(t, "hydrate"))
    BY <2>1, ToTask DEF Kinds, Proper, Points
  <2>3. Steps(t, mem, To(t, "hydrate")) \/ Steps(t, Disowned(mem), Idle)
    BY <1>2 DEF OpenRead, Steps
  <2> QED
    BY <1>1, <2>1, <2>2, <2>3, WithinOps, ToStep, IdleStep DEF Points
<1>3. CASE OpenHydrated(t)
  <2> DEFINE m == [mem EXCEPT !.listening = TRUE]
  <2>1. Ready(t) /\ Free(t)
    BY <1>3, AtReady DEF OpenHydrated, Resumed, Free, Written
  <2>2. Within(mem.persisting, mem.completing, m)
    BY MemWithin, WithinOps
  <2>3. Steps(t, m, Idle) \/ Steps(t, m, New("fire", "get"))
    BY <1>3 DEF OpenHydrated, Steps
  <2> HIDE DEF m
  <2> QED
    BY <1>1, <2>1, <2>2, <2>3, IdleStep, FreeStep DEF Dispatching
<1>4. CASE resumeActiveGoals(t)
  <2> DEFINE m == attachListener(Owned(mem, "live"))
             b == mem.usageTimer \/ (row # None /\ Limited(row))
             n == [mem EXCEPT !.usageTimer = @ \/ (row # None /\ Limited(row))]
  <2>1. Ready(t) /\ Free(t)
    BY <1>4, AtReady DEF resumeActiveGoals, Free, Written
  <2>2. Within(mem.persisting, mem.completing, m)
    <3>1. Within(mem.persisting, mem.completing, Owned(mem, "live"))
      BY MemWithin, WithinOps
    <3> QED
      BY <3>1, WithinAttach
  <2>3. b \in BOOLEAN
    BY Zenon DEF Limited, Kinds, Memory
  <2>4. Within(mem.persisting, mem.completing, n)
    <3>1. Alike([mem EXCEPT !.usageTimer = b], mem)
      BY <2>3, FlagMemory DEF Kinds
    <3> QED
      BY <1>1, <3>1, WithinAlike
  <2>5. Steps(t, m, Idle) \/ Steps(t, m, New("fire", "get")) \/ Steps(t, n, Idle)
    BY <1>4 DEF resumeActiveGoals, Steps
  <2> HIDE DEF m, n
  <2> QED
    BY <1>1, <2>1, <2>2, <2>4, <2>5, IdleStep, FreeStep DEF Dispatching
<1>5. CASE IdleObserved(t)
  <2> DEFINE m == [mem EXCEPT !.deferred = "armed"]
  <2>1. Ready(t) /\ Free(t)
    BY <1>5, IdleReady DEF IdleObserved
  <2>2. m \in Memory /\ SameBarriers(m, mem)
    BY DeferralMemory DEF Kinds
  <2>3. Steps(t, m, Idle) \/ Steps(t, mem, Idle) \/ Steps(t, mem, New("idle", "get"))
    BY <1>5 DEF IdleObserved, Steps
  <2> HIDE DEF m
  <2>4. Within(mem.persisting, mem.completing, m)
    BY <2>2 DEF Within, SameBarriers
  <2> QED
    BY <1>1, <2>1, <2>3, <2>4, IdleStep, FreeStep DEF Dispatching
<1>6. CASE maybeContinueActiveGoal(t)
  <2>1. Ready(t) /\ Free(t)
    BY <1>6, AtReady DEF maybeContinueActiveGoal, Free, Written
  <2>2. Steps(t, mem, Idle) \/ Steps(t, Armed(mem), Idle)
    BY <1>6 DEF maybeContinueActiveGoal, Steps
  <2> QED
    BY <1>1, <2>1, <2>2, WithinOps, IdleStep
<1> QED
  BY <1>2, <1>3, <1>4, <1>5, <1>6 DEF Opening

LEMMA FiringKinds ==
    ASSUME Kinds, NEW t \in Tasks, Firing(t) PROVE Kinds'
<1>1. Within(mem.persisting, mem.completing, mem)
  BY MemWithin
<1>2. \A at \in {"hydrate", "prepare", "gate", "sent"} : task[t].op = "fire" => Proper(To(t, at))
  BY ToTask DEF Kinds, Proper, Points
<1>3. task[t].op = "fire" /\ task[t].at \in Dispatching => task[t].cut \/ mem.firing = t
  BY DEF Kinds, CutOrFiring
<1>4. CASE FireRead(t)
  <2>1. Ready(t) /\ Free(t) /\ task[t].op = "fire"
    BY <1>4, AtReady DEF FireRead, Resumed, Free, Written
  <2>2. CASE End(t, mem)
    BY <1>1, <2>1, <2>2, EndStep
  <2>3. CASE Persist(t, mem, "budgetLimited")
    BY <1>1, <2>1, <2>3, PersistStep DEF Statuses
  <2>4. CASE Steps(t, mem, Idle) \/ Steps(t, Armed(mem), Idle)
    BY <1>1, <2>1, <2>4, WithinOps, IdleStep
  <2>5. CASE Steps(t, [mem EXCEPT !.firing = t], To(t, "hydrate"))
    <3> DEFINE m == [mem EXCEPT !.firing = t]
    <3>1. m \in Memory /\ SameBarriers(m, mem) /\ m.firing = t
      BY FiringMemory DEF Kinds
    <3> HIDE DEF m
    <3>2. Within(mem.persisting, mem.completing, m)
      BY <3>1 DEF Within, SameBarriers
    <3> QED
      BY <1>2, <2>1, <2>5, <3>1, <3>2, ToStep DEF Points, m
  <2> QED
    BY <1>4, <2>2, <2>3, <2>4, <2>5 DEF FireRead, Steps
<1>5. CASE FireHydrated(t) \/ FirePrepared(t)
  <2>1. Ready(t) /\ Free(t) /\ task[t].op = "fire" /\ task[t].at \in Dispatching
    <3>1. At(t, "fire", "hydrate") \/ At(t, "fire", "prepare")
      BY <1>5 DEF FireHydrated, FirePrepared, Resumed
    <3> QED
      BY <3>1, AtReady DEF Free, Written, Dispatching
  <2>2. PICK at \in {"prepare", "gate"} : Steps(t, mem, To(t, at))
    BY <1>5 DEF FireHydrated, FirePrepared, Steps
  <2> QED
    BY <1>1, <1>2, <1>3, <2>1, <2>2, ToStep DEF Points
<1>6. CASE onDispatching(t)
  <2> DEFINE b == mem.claimed \/ task[t].cur
             m == [mem EXCEPT !.claimed = @ \/ task[t].cur, !.older = Waiting]
  <2>1. Ready(t) /\ Free(t) /\ task[t].op = "fire"
    BY <1>6, AtReady DEF onDispatching, Free, Written
  <2>2. b \in BOOLEAN
    <3>1. mem.claimed \in BOOLEAN /\ task[t].cur \in BOOLEAN
      BY DEF Kinds, Memory, Task
    <3> QED
      BY <3>1, Zenon
  <2>3. Waiting \in SUBSET Tasks
    BY DEF Waiting
  <2>4. Alike([mem EXCEPT !.claimed = b, !.older = Waiting], mem)
    BY <2>2, <2>3, OlderMemory DEF Kinds
  <2>5. Within(mem.persisting, mem.completing, m)
    BY <1>1, <2>4, WithinAlike
  <2>6. Steps(t, m, To(t, "sent"))
    BY <1>6 DEF onDispatching, Steps
  <2> HIDE DEF m
  <2> QED
    BY <1>2, <2>1, <2>5, <2>6, ToStep DEF Points, Dispatching
<1>7. CASE NotAccepted(t)
  <2> DEFINE m == IF task[t].cur THEN [Armed(mem) EXCEPT !.claimed = FALSE] ELSE mem
  <2>1. Ready(t) /\ Free(t)
    BY <1>7, AtReady DEF NotAccepted, Free, Written
  <2>2. Within(mem.persisting, mem.completing, m)
    <3>1. Within(mem.persisting, mem.completing, Armed(mem))
      BY <1>1, WithinOps
    <3> QED
      BY <1>1, <3>1, WithinOps
  <2>3. End(t, m)
    BY <1>7 DEF NotAccepted
  <2> HIDE DEF m
  <2> QED
    BY <2>1, <2>2, <2>3, EndStep
<1>8. CASE ProviderRejects(t)
  <2> DEFINE n == mem.rejections + 1
             m == [mem EXCEPT !.claimed = FALSE]
             k == [Armed(m) EXCEPT !.rejections = n]
  <2>1. Ready(t) /\ Free(t) /\ task[t].op = "fire"
    BY <1>8, AtReady DEF ProviderRejects, Free, Written
  <2>2. Within(mem.persisting, mem.completing, m)
    BY <1>1, WithinOps
  <2>3. \/ End(t, mem) \/ Persist(t, m, "blocked")
        \/ n < MaxRejections /\ End(t, k)
    BY <1>8 DEF ProviderRejects
  <2> HIDE DEF m
  <2>4. CASE n < MaxRejections /\ End(t, k)
    <3>1. n \in 0 .. MaxRejections
      BY <2>4, GoalAssumption DEF Kinds, Memory
    <3> HIDE DEF n
    <3>2. Within(mem.persisting, mem.completing, Armed(m))
      BY <2>2, WithinOps
    <3>3. Within(mem.persisting, mem.completing, k)
      BY <3>1, <3>2, CountMemory, WithinAlike DEF Within
    <3> QED
      BY <2>1, <2>4, <3>3, EndStep
  <2> QED
    BY <1>1, <2>1, <2>2, <2>3, <2>4, EndStep, PersistStep DEF Statuses
<1>9. CASE Accepted(t)
  <2> DEFINE m == IF task[t].cur THEN [mem EXCEPT !.rejections = 0] ELSE mem
  <2>1. Ready(t) /\ Free(t)
    BY <1>9, AtReady DEF Accepted, Free, Written
  <2>2. Within(mem.persisting, mem.completing, m)
    <3>1. Alike([mem EXCEPT !.rejections = 0], mem)
      BY CountMemory, GoalAssumption DEF Kinds
    <3> QED
      BY <1>1, <3>1, WithinAlike
  <2>3. End(t, m)
    BY <1>9 DEF Accepted
  <2> HIDE DEF m
  <2> QED
    BY <2>1, <2>2, <2>3, EndStep
<1>10. CASE FireFails(t)
  <2> DEFINE b == mem.claimed /\ task[t].at = "get"
             m == [mem EXCEPT !.claimed = @ /\ task[t].at = "get"]
  <2>1. Ready(t) /\ Free(t) /\ task[t].op = "fire"
    BY <1>10, AtReady DEF FireFails, Free, Written
  <2>2. b \in BOOLEAN
    BY Zenon DEF Kinds, Memory
  <2>3. Within(mem.persisting, mem.completing, m)
    <3>1. Alike([mem EXCEPT !.claimed = b], mem)
      BY <2>2, FlagMemory DEF Kinds
    <3> QED
      BY <1>1, <3>1, WithinAlike
  <2>4. Persist(t, m, "blocked") \/ End(t, mem)
    BY <1>10 DEF FireFails
  <2> HIDE DEF m
  <2> QED
    BY <1>1, <2>1, <2>3, <2>4, PersistStep, EndStep DEF Statuses
<1>11. CASE BudgetSettled(t)
  <2>1. Ready(t)
    BY <1>11, AtReady DEF BudgetSettled, Owns
  <2>2. CASE Steps(t, stopSession(Settled(t)), Idle)
    BY <2>1, <2>2, MemWithin, WithinOps, IdleStep
  <2>3. CASE End(t, Settled(t))
    BY <2>1, <2>3, EndSettledStep
  <2> QED
    BY <1>11, <2>2, <2>3 DEF BudgetSettled, Steps
<1> QED
  BY <1>4, <1>5, <1>6, <1>7, <1>8, <1>9, <1>10, <1>11 DEF Firing

LEMMA FinalReadKinds ==
    ASSUME Kinds, NEW t \in Tasks, FinalRead(t), row \in Row \cup {None} PROVE Kinds'
<1>1. /\ Ready(t) /\ Free(t) /\ task[t].op = "final" /\ task[t].at = "get"
      /\ task[t].put \in Verdicts
  <2>1. Ready(t) /\ Free(t) /\ task[t].op = "final" /\ task[t].at = "get"
    BY AtReady DEF FinalRead, Resumed, Free, Written
  <2> QED
    BY <2>1 DEF Kinds, Proper
<1>2. Within(mem.persisting, mem.completing, mem)
  BY MemWithin
<1>3. CASE Steps(t, stopSession(mem), Idle)
  BY <1>1, <1>2, <1>3, WithinOps, IdleStep
<1>4. CASE row # None /\ ~Steps(t, stopSession(mem), Idle)
  <2> DEFINE d == Decision(task[t].put)
             r == [task[t] EXCEPT !.put = d.status, !.used = d.used,
                                  !.objective = row.objective]
  <2>1. row \in Row
    BY <1>4
  <2>2. /\ d.status \in Statuses \cup {"complete"} /\ d.used \in 0 .. MaxTurns
    <3>1. row.used \in 0 .. MaxTurns
      BY <2>1 DEF Row
    <3>2. d.used \in 0 .. MaxTurns
      BY <3>1, GoalAssumption DEF Decision
    <3>3. d.status \in Statuses \cup {"complete"}
      BY <1>1 DEF Decision, Verdicts, Statuses
    <3> QED
      BY <3>2, <3>3
  <2> HIDE DEF d
  <2>3. \A a \in BOOLEAN : [r EXCEPT !.resets = a] \in Task
    <3>1. row.objective \in 0 .. MaxCalls /\ task[t] \in Task
      BY <2>1 DEF Row, Kinds
    <3> QED
      BY <2>2, <3>1, Zenon DEF Task, Verdicts
  <2>4. r \in Task /\ r.op = "final" /\ r.put = d.status /\ r.cur = task[t].cur
    <3>1. row.objective \in 0 .. MaxCalls /\ task[t] \in Task
      BY <2>1 DEF Row, Kinds
    <3>2. r \in Task
      BY <2>2, <3>1, Zenon DEF Task, Verdicts
    <3> QED
      BY <1>1, <3>1, <3>2 DEF Task
  <2>5. /\ [r EXCEPT !.resets = TRUE] \in Task /\ [r EXCEPT !.resets = TRUE].op = "final"
    BY <2>3, <2>4 DEF Task
  <2>6. /\ [r EXCEPT !.at = "record"] \in Task /\ [r EXCEPT !.at = "record"].at = "record"
        /\ [r EXCEPT !.at = "record"].op = "final"
        /\ [r EXCEPT !.at = "limit"] \in Task /\ [r EXCEPT !.at = "limit"].at = "limit"
        /\ [r EXCEPT !.at = "limit"].op = "final" /\ [r EXCEPT !.at = "limit"].put = d.status
    <3>1. \A at \in Points : [r EXCEPT !.at = at] \in Task
      BY <2>4, Zenon DEF Task
    <3> HIDE DEF r
    <3> QED
      BY <2>4, <3>1 DEF Task, Points
  <2>7. \/ d.status = "complete" /\ Keep(t, [mem EXCEPT !.completing = @ \cup {t}], [r EXCEPT !.at = "record"])
        \/ d.status \in {"active", "usageLimited"} /\ Keep(t, mem, [r EXCEPT !.at = "limit"])
        \/ d.status # "complete" /\ Keep(t, Persisting(t, mem), Writing([r EXCEPT !.resets = TRUE], d.status))
        \/ d.status # "complete" /\ Keep(t, Persisting(t, mem), Writing(r, d.status))
    BY <1>4 DEF FinalRead, Steps, d
  <2> HIDE DEF r
  <2>8. CASE d.status = "complete" /\ Keep(t, [mem EXCEPT !.completing = @ \cup {t}], [r EXCEPT !.at = "record"])
    <3> DEFINE m == [mem EXCEPT !.completing = @ \cup {t}]
               q == [r EXCEPT !.at = "record"]
    <3>1. /\ m \in Memory /\ m.completing = mem.completing \cup {t}
          /\ m.persisting = mem.persisting
      BY CompletingMemory DEF Kinds
    <3>2. q \in ProperTask /\ q.op = "final" /\ q.at = "record"
      BY <2>6 DEF ProperTask, Proper
    <3>3. Steps(t, m, q)
      BY <2>8 DEF Steps
    <3> HIDE DEF m, q
    <3>4. Fits(t, m, q)
      BY <1>1, <3>1, <3>2 DEF Kinds, Fits, Written
    <3> QED
      BY <1>1, <3>3, <3>4, StepsKinds
  <2>9. CASE d.status \in {"active", "usageLimited"} /\ Keep(t, mem, [r EXCEPT !.at = "limit"])
    <3> DEFINE q == [r EXCEPT !.at = "limit"]
    <3>1. q \in ProperTask /\ q.op = "final"
      BY <2>6, <2>9 DEF ProperTask, Proper, Verdicts
    <3>2. Steps(t, mem, q)
      BY <2>9 DEF Steps
    <3> HIDE DEF q
    <3> QED
      BY <1>1, <1>2, <3>1, <3>2, FreeStep
  <2>10. ASSUME d.status # "complete", NEW q \in Task, q.op = "final",
                Keep(t, Persisting(t, mem), Writing(q, d.status))
         PROVE  Kinds'
    <3>1. Writing(q, d.status) \in ProperTask /\ Writing(q, d.status).at = "write"
      BY <2>2, <2>10, WritingTask DEF ProperTask, Proper
    <3> QED
      BY <1>1, <1>2, <2>10, <3>1, WithinTaskOps, WritingStep DEF Steps
  <2> QED
    BY <2>4, <2>5, <2>7, <2>8, <2>9, <2>10
<1> QED
  <2>1. row = None => Steps(t, stopSession(mem), Idle)
    BY DEF FinalRead, Steps
  <2> QED
    BY <1>3, <1>4, <2>1

LEMMA FinalizingKinds ==
    ASSUME Kinds, NEW t \in Tasks, Finalizing(t), row \in Row \cup {None} PROVE Kinds'
<1>1. CASE FinalLimited(t)
  <2>1. Ready(t) /\ Free(t) /\ task[t].op = "final" /\ task[t] \in Task
    BY <1>1, AtReady DEF FinalLimited, Resumed, Free, Written, Kinds
  <2>2. PICK resets \in BOOLEAN, status \in {"usageLimited", "active"} :
           Keep(t, Persisting(t, mem), Writing([task[t] EXCEPT !.resets = resets], status))
    BY <1>1 DEF FinalLimited
  <2> DEFINE q == [task[t] EXCEPT !.resets = resets]
  <2>3. q \in Task
    BY <2>1, Zenon DEF Task
  <2>4. q.op = "final"
    BY <2>1 DEF Task
  <2> HIDE DEF q
  <2>5. Writing(q, status) \in ProperTask /\ Writing(q, status).at = "write"
    BY <2>3, <2>4, WritingTask DEF ProperTask, Proper, Statuses
  <2>6. Steps(t, Persisting(t, mem), Writing(q, status))
    BY <2>2 DEF q, Steps
  <2> QED
    BY <2>1, <2>5, <2>6, MemWithin, WithinTaskOps, WritingStep
<1>2. CASE FinalRecorded(t)
  <2>1. Ready(t) /\ task[t].op = "final" /\ task[t].at = "record" /\ task[t] \in Task
    BY <1>2, AtReady DEF FinalRecorded, Kinds
  <2>2. /\ Writing(task[t], "delete") \in ProperTask /\ Writing(task[t], "delete").at = "write"
        /\ Writing(task[t], "delete").op = "final"
    BY <2>1, WritingTask DEF ProperTask, Proper
  <2>3. Fits(t, mem, Writing(task[t], "delete"))
    BY <2>2 DEF Kinds, Fits, Written
  <2> QED
    BY <1>2, <2>1, <2>3, StepsKinds DEF FinalRecorded, Steps
<1>3. CASE FinalSettled(t)
  <2> DEFINE m == stopSession(Settled(t))
             b == IF task[t].put = "usageLimited" THEN task[t].resets ELSE m.usageTimer
             n == [m EXCEPT !.usageTimer = b]
  <2>1. Ready(t)
    BY <1>3, AtReady DEF FinalSettled, Owns
  <2>2. \/ End(t, Settled(t)) \/ Steps(t, Armed(Settled(t)), Idle) \/ Steps(t, n, Idle)
    BY <1>3 DEF FinalSettled, Steps
  <2>3. Within(mem.persisting \ {t}, mem.completing \ {t}, m)
    BY MemWithin, WithinOps
  <2>4. Within(mem.persisting \ {t}, mem.completing \ {t}, Armed(Settled(t)))
    BY MemWithin, WithinOps
  <2>5. b \in BOOLEAN
    <3>1. m.usageTimer \in BOOLEAN /\ task[t].resets \in BOOLEAN
      BY <2>3 DEF Within, Memory, Kinds, Task
    <3> QED
      BY <3>1
  <2> HIDE DEF m, b
  <2>6. Within(mem.persisting \ {t}, mem.completing \ {t}, n)
    <3>1. Alike(n, m)
      BY <2>3, <2>5, FlagMemory DEF Within
    <3> QED
      BY <2>3, <3>1, WithinAlike
  <2> HIDE DEF n
  <2> QED
    BY <2>1, <2>2, <2>4, <2>6, EndSettledStep, IdleStep
<1> QED
  BY <1>1, <1>2, <1>3, FinalReadKinds DEF Finalizing

LEMMA TurnEndsKinds ==
    ASSUME Kinds, NEW t \in Tasks, NEW verdict \in Verdicts, TurnEnds(t, verdict)
    PROVE  Kinds'
<1> DEFINE b == mem.claimed /\ session # "goal"
           m == [mem EXCEPT !.claimed = @ /\ session # "goal"]
           r == [New("final", "get") EXCEPT !.put = verdict]
<1>1. Ready(t) /\ Free(t)
  BY IdleReady DEF TurnEnds
<1>2. Within(mem.persisting, mem.completing, m)
  <2>1. b \in BOOLEAN
    BY Zenon DEF Kinds, Memory
  <2>2. Alike([mem EXCEPT !.claimed = b], mem)
    BY <2>1, FlagMemory DEF Kinds
  <2> QED
    BY <2>2, MemWithin, WithinAlike
<1>3. r \in ProperTask /\ r.op = "final"
  <2>1. New("final", "get") \in Task /\ New("final", "get").op = "final" /\ New("final", "get").at = "get"
    BY NewTask DEF Operations, Points
  <2>2. r \in Task
    BY <2>1, Zenon DEF Task
  <2> QED
    BY <2>1, <2>2 DEF Task, ProperTask, Proper
<1> HIDE DEF m, r
<1>4. \/ UNCHANGED <<mem, task, queue>> \/ Steps(t, m, Idle)
      \/ Steps(t, [m EXCEPT !.finalized = TRUE], r)
      \/ Steps(t, [Owned(m, "live") EXCEPT !.finalized = TRUE], r)
  BY DEF TurnEnds, Steps, m, r
<1>5. /\ Within(mem.persisting, mem.completing, [m EXCEPT !.finalized = TRUE])
      /\ Within(mem.persisting, mem.completing, [Owned(m, "live") EXCEPT !.finalized = TRUE])
  <2>1. \A k : Within(mem.persisting, mem.completing, k)
            => Within(mem.persisting, mem.completing, [k EXCEPT !.finalized = TRUE])
    BY FlagMemory, WithinAlike DEF Within
  <2>2. Within(mem.persisting, mem.completing, Owned(m, "live"))
    BY <1>2, WithinOps
  <2> QED
    BY <1>2, <2>1, <2>2
<1>6. CASE UNCHANGED <<mem, task, queue>>
  BY <1>6 DEF Kinds, Queued, CutOrFiring
<1> QED
  BY <1>1, <1>2, <1>3, <1>4, <1>5, <1>6, IdleStep, FreeStep

LEMMA SessionKinds ==
    ASSUME Kinds, UserTurn \/ TurnAccepted PROVE Kinds'
<1>1. Alike(mem', mem)
  <2>1. Waiting \in SUBSET Tasks
    BY DEF Waiting
  <2>2. Alike(mem, mem) /\ Alike([mem EXCEPT !.older = Waiting], mem)
    BY <2>1, OlderMemory DEF Kinds, Alike, SameBarriers, SameEars
  <2> QED
    BY <2>2 DEF UserTurn, TurnAccepted
<1>2. UNCHANGED <<task, queue>>
  BY DEF UserTurn, TurnAccepted
<1> QED
  BY <1>1, <1>2 DEF Kinds, Queued, CutOrFiring, Alike, SameBarriers, SameEars

-----------------------------------------------------------------------------
(* Every action keeps the types of what surrounds the controller *)

Surroundings ==
    /\ row \in Row \cup {None}
    /\ session \in {"idle", "dispatching", "goal", "user", "settling"}
    /\ hydrated \in BOOLEAN /\ stopped \in BOOLEAN /\ lapses \subseteq Lapses
    /\ calls \in 0 .. MaxCalls /\ faults \in 0 .. MaxFaults

LEMMA AppliedRow ==
    ASSUME Kinds, row \in Row \cup {None}, NEW t \in Tasks, task[t].at = "write"
    PROVE  Applied(t) \in Row \cup {None}
<1> DEFINE r == task[t]
           ends == r.op = "final"
           status == IF ends /\ r.put = "active" THEN row.status ELSE r.put
           used == IF ends THEN r.used ELSE row.used
           resets == IF ends THEN r.put = "usageLimited" /\ r.resets
                     ELSE row.resets /\ r.put \in {"blocked", "budgetLimited"}
           objective == IF r.op = "edit" /\ r.put = "active" THEN r.objective ELSE row.objective
<1>1. /\ r.put \in Statuses \cup {"delete"} /\ r.used \in 0 .. MaxTurns
      /\ r.resets \in BOOLEAN /\ r.objective \in 0 .. MaxCalls
  BY DEF Kinds, Proper, Task
<1>2. CASE r.put # "delete" /\ r.op = "create"
  <2>1. "active" \in Statuses /\ 0 \in 0 .. MaxTurns
    BY GoalAssumption DEF Statuses
  <2>2. Applied(t) = [status |-> "active", used |-> 0, resets |-> FALSE, objective |-> r.objective]
    BY <1>2 DEF Applied
  <2> QED
    BY <1>1, <2>1, <2>2 DEF Row
<1>3. CASE r.put # "delete" /\ r.op # "create" /\ row # None
  <2>1. /\ row.status \in Statuses /\ row.used \in 0 .. MaxTurns /\ row.resets \in BOOLEAN
        /\ row.objective \in 0 .. MaxCalls
    BY <1>3 DEF Row
  <2>2. status \in Statuses /\ used \in 0 .. MaxTurns /\ objective \in 0 .. MaxCalls
    BY <1>1, <1>3, <2>1
  <2>3. resets \in BOOLEAN
    BY <1>1, <2>1, Zenon
  <2>4. Applied(t) = [status |-> status, used |-> used, resets |-> resets, objective |-> objective]
    BY <1>3, Zenon DEF Applied
  <2> HIDE DEF status, used, resets, objective
  <2> QED
    BY <2>2, <2>3, <2>4 DEF Row
<1> QED
  BY <1>2, <1>3 DEF Applied

LEMMA SurroundingsStep ==
    ASSUME Surroundings, Kinds, [Next]_vars PROVE Surroundings'
<1>0. calls \in 0 .. MaxCalls /\ (calls < MaxCalls => calls + 1 \in 0 .. MaxCalls)
  BY GoalAssumption DEF Surroundings
<1>1. CASE UNCHANGED vars
  BY <1>1 DEF Surroundings, vars
<1>2. CASE UserTurn \/ TurnAccepted
  <2>1. /\ UNCHANGED <<row, stopped, lapses, faults>> /\ session' \in {"user", "goal"}
        /\ (hydrated' = TRUE /\ calls < MaxCalls /\ calls' = calls + 1) \/ UNCHANGED <<hydrated, calls>>
    BY <1>2 DEF UserTurn, TurnAccepted
  <2> QED
    BY <1>0, <2>1 DEF Surroundings
<1>3. ASSUME NEW t \in Tasks, NEW v \in Verdicts, TurnEnds(t, v) PROVE Surroundings'
  BY <1>3 DEF Surroundings, TurnEnds
<1>4. ASSUME NEW t \in Tasks, EnvUnchanged \/ Ensured PROVE Surroundings'
  BY <1>4 DEF Surroundings, EnvUnchanged, Ensured
<1>5. ASSUME Fault PROVE Surroundings'
  BY <1>5, GoalAssumption DEF Surroundings, Fault
<1>6. ASSUME NEW t \in Tasks, Commands(t) PROVE Surroundings'
  <2>1. calls < MaxCalls /\ calls' = calls + 1 /\ UNCHANGED <<row, session, hydrated, faults>>
    BY <1>6 DEF Commands, pauseGoal, clearGoal, setGoal, resumeGoal, resumeOnOpen, Call, CallUnchanged
  <2>2. stopped' \in {TRUE, FALSE, stopped} /\ lapses' \subseteq Lapses
    BY <1>6 DEF Surroundings, Lapses, Commands, pauseGoal, clearGoal, setGoal, resumeGoal,
                resumeOnOpen, CallUnchanged, Crossed
  <2> QED
    BY <1>0, <2>1, <2>2 DEF Surroundings
<1>7. ASSUME NEW t \in Tasks, Storage(t) PROVE Surroundings'
  <2>1. CASE Write(t) \/ WriteFails(t)
    <3>1. task[t].at = "write"
      BY <2>1, AtReady DEF Write, WriteFails
    <3>2. Applied(t) \in Row \cup {None}
      BY <3>1, AppliedRow DEF Surroundings
    <3> QED
      BY <2>1, <3>2, GoalAssumption DEF Surroundings, Write, WriteFails
  <2> QED
    BY <1>5, <1>7, <2>1 DEF Storage, ReadFails
<1>8. ASSUME NEW t \in Tasks, Stopping(t) \/ Finalizing(t) PROVE Surroundings'
  BY <1>4, <1>8 DEF Stopping, PauseReady, PauseRead, ClearReady, StopSettled,
                    Finalizing, FinalRead, FinalLimited, FinalRecorded, FinalSettled
<1>9. ASSUME NEW t \in Tasks, Setting(t) PROVE Surroundings'
  <2>1. CASE EditHydrated(t)
    BY <2>1 DEF Surroundings, EditHydrated, Lapses
  <2> QED
    BY <1>4, <1>9, <2>1 DEF Setting, SetReady, SetRead, CreateHydrated, SetWrites, SetSettled, SetGivenUp
<1>10. ASSUME NEW t \in Tasks, Resuming(t) PROVE Surroundings'
  <2>1. CASE ResumeSettled(t) \/ ResumeRead(t) \/ ResumeHydrated(t)
    BY <2>1 DEF Surroundings, ResumeSettled, ResumeRead, ResumeHydrated, Crossed, Lapses
  <2> QED
    BY <1>4, <1>5, <1>10, <2>1 DEF Resuming, ResumeReady, ReautoRead, ResumeGivenUp, ResumeFails, Unhydrated, AutoRead, AutoHydrated, AutoNoticed, OwnerGivenUp
<1>11. ASSUME NEW t \in Tasks, Timers(t) PROVE Surroundings'
  <2>1. CASE autoResumeFromUsageLimit(t)
    BY <2>1 DEF Surroundings, autoResumeFromUsageLimit, Lapses
  <2> QED
    BY <1>4, <1>11, <2>1 DEF Timers, ContinuationFires, DeferredResumeFires
<1>12. ASSUME NEW t \in Tasks, Opening(t) PROVE Surroundings'
  <2>1. CASE IdleObserved(t)
    BY <2>1 DEF Surroundings, IdleObserved
  <2> QED
    BY <1>4, <1>12, <2>1 DEF Opening, OpenRead, OpenHydrated, resumeActiveGoals, maybeContinueActiveGoal
<1>13. ASSUME NEW t \in Tasks, Firing(t) PROVE Surroundings'
  <2>1. CASE onDispatching(t) \/ ProviderRejects(t) \/ FireFails(t)
    BY <2>1, GoalAssumption DEF Surroundings, onDispatching, ProviderRejects, FireFails
  <2> QED
    BY <1>4, <1>13, <2>1 DEF Firing, FireRead, FireHydrated, FirePrepared, NotAccepted, Accepted, BudgetSettled
<1>14. ASSUME NEW t \in Tasks, Ending(t) PROVE Surroundings'
  <2>1. CASE BlockSettled(t)
    BY <2>1 DEF Surroundings, BlockSettled, Lapses
  <2> QED
    BY <1>4, <1>14, <2>1 DEF Ending, Superseded, LateSettled
<1> QED
  BY <1>1, <1>2, <1>3, <1>6, <1>7, <1>8, <1>9, <1>10, <1>11, <1>12, <1>13, <1>14 DEF Next

LEMMA KindsStep ==
    ASSUME Surroundings, Kinds, [Next]_vars PROVE Kinds'
<1>1. /\ row \in Row \cup {None} /\ hydrated \in BOOLEAN /\ calls \in 0 .. MaxCalls
  BY DEF Surroundings
<1>2. CASE UNCHANGED vars
  BY <1>2 DEF Kinds, Queued, CutOrFiring, vars
<1>3. ASSUME NEW t \in Tasks, Commands(t) PROVE Kinds'
  <2>1. ASSUME resumeGoal(t) PROVE Kinds'
    <3>1. task[t].op = "none" /\ BeginResume(t, mem)
      BY <2>1 DEF resumeGoal, Call
    <3> QED
      BY <3>1, MemWithin, BeginKinds
  <2> QED
    BY <1>1, <1>3, <2>1, TakeOverKinds, setGoalKinds, resumeOnOpenKinds DEF Commands
<1>4. ASSUME NEW t \in Tasks,
             \/ Storage(t) \/ Stopping(t) \/ Setting(t) \/ Resuming(t) \/ Timers(t)
             \/ Opening(t) \/ Firing(t) \/ Finalizing(t) \/ Ending(t)
      PROVE  Kinds'
  BY <1>1, <1>4, WriteKinds, ReadFailsKinds, StoppingKinds, SettingKinds, ResumingKinds,
     TimersKinds, OpeningKinds, FiringKinds, FinalizingKinds, SupersededKinds, EndingKinds
     DEF Storage, Ending
<1> QED
  BY <1>2, <1>3, <1>4, TurnEndsKinds, SessionKinds DEF Next

LEMMA InitKinds ==
    ASSUME Init PROVE Kinds /\ Surroundings
<1>1. PICK t \in Tasks : /\ task = [[u \in Tasks |-> Idle] EXCEPT ![t] = New("boot", "get")]
                         /\ queue = <<t>>
  BY DEF Init
<1>2. /\ New("boot", "get") \in ProperTask /\ New("boot", "get").at = "get"
      /\ New("boot", "get").op = "boot"
  BY NewProper, NewTask DEF Operations, Points
<1>3. /\ task[t] = New("boot", "get") /\ \A u \in Tasks \ {t} : task[u] = Idle
      /\ task \in [Tasks -> Task] /\ \A u \in Tasks : Proper(task[u])
  BY <1>1, <1>2, IdleTask DEF ProperTask
<1>4. Queued
  <2>1. /\ queue \in Seq(Tasks) /\ DOMAIN queue = {1} /\ queue[1] = t
    BY <1>1
  <2> QED
    BY <1>2, <1>3, <2>1, IdleTask DEF Queued, Storing
<1>5. CutOrFiring
  BY <1>2, <1>3, IdleTask DEF CutOrFiring
<1>6. mem \in Memory /\ mem.persisting = {} /\ mem.completing = {}
  <2>1. 0 \in 0 .. MaxRejections
    BY GoalAssumption
  <2> QED
    BY <2>1 DEF Init, NoMemory, Memory
<1>7. Surroundings
  <2>1. 0 \in 0 .. MaxCalls /\ 0 \in 0 .. MaxFaults /\ 0 \in 0 .. MaxTurns
    BY GoalAssumption
  <2>2. row \in Row \cup {None}
    BY <2>1 DEF Init, Row, Statuses
  <2> QED
    BY <2>1, <2>2 DEF Init, Surroundings
<1> QED
  BY <1>3, <1>4, <1>5, <1>6, <1>7 DEF Kinds

LEMMA KindsInvariant == Spec => [](Kinds /\ Surroundings)
<1>1. Init => Kinds /\ Surroundings
  BY InitKinds
<1>2. Kinds /\ Surroundings /\ [Next]_vars => (Kinds /\ Surroundings)'
  BY KindsStep, SurroundingsStep
<1> QED
  BY <1>1, <1>2, PTL DEF Spec

\* The fields of the controller, its tasks, the storage's queue and the row keep
\* their types, and whoever waits for a write waits for one that was issued and
\* has not settled: pendingPersistence and pendingCompletion of the turns object.
THEOREM TypeCorrect == Spec => []TypeOK
<1>1. Kinds /\ Surroundings => TypeOK
  BY DEF Kinds, Queued, Surroundings, TypeOK, Storing, Written
<1> QED
  BY <1>1, KindsInvariant, PTL

-----------------------------------------------------------------------------
(* After Stop or Clear *)

\* What makes a row active, and a setGoal that no owner would stop.
Reviving(r) == r.at = "write" /\ (r.op = "create" \/ r.put \in {"active", "usageLimited"})
SetOwns(r) == r.op = "set" /\ r.at = "get" /\ r.owns
Risky(r) == Reviving(r) \/ SetOwns(r)
NoRisk == \A t \in Tasks : ~Risky(task[t])

\* A Stop or Clear that waits for the storage: what revives a row is answered before it.
Stopper(r) == /\ r.cur
              /\ \/ r.op = "pause" /\ r.at \in {"get", "write"}
                 \/ r.op = "clear" /\ r.at = "write"
Fifo == \A u, v \in Tasks : Stopper(task[u]) /\ Before(u, v) => ~Risky(task[v])

Dead == row = None \/ row.status \notin {"active", "usageLimited"}
Gone == row = None /\ NoRisk
Lasting == Dead /\ NoRisk

\* It has yet to be carried out.
Pending(r) == r.cur /\ r.op \in {"pause", "clear"} /\ r.at \in {"barrier", "get", "write"}

\* The cancelled owner of a Stop or Clear fences everything else off.
FencedTask(r) == r.cur => r.op \in {"none", "boot", "idle", "pause", "clear"}
Fenced ==
    /\ mem.owner = "cancelled" /\ ~mem.unsaved
    /\ \A t \in Tasks : FencedTask(task[t])
    /\ \A t \in Tasks : task[t].cur /\ task[t].op = "clear" /\ task[t].at = "wrote" => Gone
    /\ \A t \in Tasks : task[t].cur /\ task[t].op = "pause" /\ task[t].at = "wrote" => Lasting
    /\ faults = 0 => Lasting \/ \E t \in Tasks : Pending(task[t])

\* Clear has dropped its owner: operations may start again and find no goal.
RetiredTask(r) ==
    r.cur => \/ r.op \in {"none", "boot", "idle"}
             \/ r.op \in {"open", "auto", "fire"} /\ r.at = "get"
             \/ r.op \in {"open", "fire"} /\ r.at \in Written /\ r.put = "blocked"
Retired == Gone /\ \A t \in Tasks : RetiredTask(task[t])

\* No event, no resume and no dispatch under way starts a turn.
Deaf(m) == ~m.listening /\ m.deferred = "no" /\ m.firing = None

Stopped == Deaf(mem) /\ Fifo /\ (Fenced \/ Retired)
StopInv == stopped => Stopped

LEMMA CurrentTask ==
    ASSUME Kinds, Stopped, NEW t \in Tasks
    PROVE  /\ Current(t) <=> task[t].cur
           /\ task[t].cur => task[t].op \in {"none", "boot", "idle", "pause", "clear", "open", "auto", "fire"}
           /\ Fenced => FencedTask(task[t])
           /\ Retired => RetiredTask(task[t])
<1>1. task[t].cur => task[t].op \in {"none", "boot", "idle", "pause", "clear", "open", "auto", "fire"}
  BY DEF Stopped, Fenced, Retired, FencedTask, RetiredTask
<1>2. task[t].op = "set" /\ task[t].owns => mem.owner # "none"
  BY DEF Stopped, Fenced, Retired, Gone, NoRisk, Risky, SetOwns, Kinds, Proper
<1> QED
  BY <1>1, <1>2 DEF Current, Fenced, Retired

LEMMA RiskStep ==
    ASSUME Kinds, NEW t \in Tasks, NEW m, NEW r \in Task, NEW losers, Step(t, m, r, losers),
           Ready(t), ~Risky(r)
    PROVE  (NoRisk => NoRisk') /\ (Fifo => Fifo')
<1>1. /\ task'[t] = r
      /\ \A u \in Tasks \ {t} : SameWork(task'[u], task[u])
  BY OthersStep DEF Kinds
<1>2. \A u \in Tasks : Risky(task'[u]) => u # t /\ Risky(task[u])
  BY <1>1 DEF SameWork, Risky, Reviving, SetOwns
<1>3. \A u, v \in Tasks : Before(u, v)' => u # t /\ (v = t \/ Before(u, v))
  BY QueueStep DEF Kinds, Ready
<1>4. \A u \in Tasks \ {t} : Stopper(task'[u]) => Stopper(task[u])
  BY <1>1 DEF SameWork, Stopper
<1> QED
  BY <1>2, <1>3, <1>4 DEF NoRisk, Fifo

LEMMA FencedStep ==
    ASSUME Kinds, Fifo, Fenced, NEW t \in Tasks, NEW m \in Memory, NEW r \in Task,
           Keep(t, m, r), Ready(t), Deaf(m), m.owner = mem.owner, m.unsaved = mem.unsaved,
           ~Risky(r), FencedTask(r),
           Gone => row' = None, Lasting => Dead',
           r.cur /\ r.op = "clear" /\ r.at = "wrote" => Gone',
           r.cur /\ r.op = "pause" /\ r.at = "wrote" => Lasting',
           faults' = 0 => faults = 0 /\ (Pending(task[t]) => Pending(r) \/ Lasting')
    PROVE  Stopped'
<1>1. /\ task'[t] = r
      /\ \A u \in Tasks \ {t} : SameWork(task'[u], task[u]) /\ task'[u].cur = task[u].cur
  BY KeepOthers DEF Kinds
<1>2. Alike(mem', m)
  BY StepMemory DEF Keep
<1>3. (NoRisk => NoRisk') /\ Fifo'
  BY RiskStep DEF Keep
<1>4. (Gone => Gone') /\ (Lasting => Lasting')
  BY <1>3 DEF Gone, Lasting
<1>5. Deaf(mem') /\ mem'.owner = "cancelled" /\ ~mem'.unsaved
  BY <1>2 DEF Deaf, Alike, SameEars, Fenced
<1>6. \A u \in Tasks : FencedTask(task'[u])
  BY <1>1 DEF Fenced, FencedTask, SameWork
<1>7. /\ \A u \in Tasks : task'[u].cur /\ task'[u].op = "clear" /\ task'[u].at = "wrote" => Gone'
      /\ \A u \in Tasks : task'[u].cur /\ task'[u].op = "pause" /\ task'[u].at = "wrote" => Lasting'
  BY <1>1, <1>4 DEF Fenced, SameWork
<1>8. faults' = 0 => Lasting' \/ \E u \in Tasks : Pending(task'[u])
  <2>1. \A u \in Tasks \ {t} : Pending(task[u]) => Pending(task'[u])
    BY <1>1 DEF SameWork, Pending
  <2> QED
    BY <1>1, <1>4, <2>1 DEF Fenced
<1> QED
  BY <1>3, <1>5, <1>6, <1>7, <1>8 DEF Stopped, Fenced

LEMMA RetiredStep ==
    ASSUME Kinds, Retired, NEW t \in Tasks, NEW m \in Memory, NEW r \in Task,
           NEW losers, Step(t, m, r, losers), Ready(t), Deaf(m), ~Risky(r), RetiredTask(r), row' = None
    PROVE  Stopped'
<1>1. /\ task'[t] = r
      /\ \A u \in Tasks \ {t} : SameWork(task'[u], task[u])
  BY OthersStep DEF Kinds
<1>2. Alike(mem', m)
  BY StepMemory
<1>3. NoRisk'
  BY RiskStep DEF Retired, Gone
<1>4. Deaf(mem')
  BY <1>2 DEF Deaf, Alike, SameEars
<1>5. \A u \in Tasks : RetiredTask(task'[u])
  BY <1>1 DEF Retired, RetiredTask, SameWork
<1> QED
  BY <1>3, <1>4, <1>5 DEF Stopped, Fifo, NoRisk, Retired, Gone

\* A step of a task without an owner, or that ends, in either case.
LEMMA CalmStep ==
    ASSUME Kinds, Stopped, NEW t \in Tasks, NEW m \in Memory, NEW r \in Task,
           Keep(t, m, r), Ready(t), Deaf(m), m.owner = mem.owner, m.unsaved = mem.unsaved,
           ~Risky(r), ~r.cur, row' = row, faults' = 0 => faults = 0 /\ ~Pending(task[t])
    PROVE  Stopped'
<1>1. Lasting => Dead'
  BY DEF Lasting, Dead
<1>2. CASE Fenced
  BY <1>1, <1>2, FencedStep DEF Gone, FencedTask, Stopped
<1>3. CASE Retired
  BY <1>3, RetiredStep DEF Keep, Retired, Gone, RetiredTask
<1> QED
  BY <1>2, <1>3 DEF Stopped

LEMMA IdleCalm == Idle \in Task /\ ~Risky(Idle) /\ ~Idle.cur /\ Idle.op = "none"
  BY IdleTask DEF Idle, ProperTask, Risky, Reviving, SetOwns

\* m hears nothing and has the owner of the controller.
Still(m) == m \in Memory /\ Deaf(m) /\ m.owner = mem.owner /\ m.unsaved = mem.unsaved

LEMMA StillOps ==
    ASSUME Kinds, Stopped, NEW t \in Tasks
    PROVE  /\ Still(mem) /\ Still(Settled(t)) /\ Still(Armed(mem))
           /\ Still(RestoreDeferred(Settled(t)))
           /\ \A m : Still(m) => Still(Finished(t, m))
<1>1. Still(mem)
  BY DEF Kinds, Stopped, Still
<1>2. Still(Settled(t))
  BY <1>1, SettledMemory DEF Still, Deaf, SameEars
<1>3. Still(Armed(mem))
  BY <1>1, ArmedMemory DEF Still, Deaf, Alike, SameEars
<1>4. Still(RestoreDeferred(Settled(t)))
  BY <1>2, DeferredMemory DEF Still, Deaf
<1>5. \A m : Still(m) => Still(Finished(t, m))
  BY FinishedMemory DEF Still, Deaf
<1> QED
  BY <1>1, <1>2, <1>3, <1>4, <1>5

LEMMA StillAlike ==
    ASSUME NEW m, Still(m), NEW n, Alike(n, m) PROVE Still(n)
  BY DEF Still, Alike, Deaf, SameEars

LEMMA EndCalm ==
    ASSUME Kinds, Stopped, NEW t \in Tasks, NEW m, Still(m), Keep(t, m, Idle) \/ End(t, m),
           Ready(t), row' = row, faults' = 0 => faults = 0 /\ ~Pending(task[t])
    PROVE  Stopped'
<1>1. ASSUME NEW n, Still(n), Keep(t, n, Idle) PROVE Stopped'
  BY <1>1, IdleCalm, CalmStep DEF Still
<1> QED
  BY <1>1, StillOps DEF End

LEMMA RetiredIdle ==
    ASSUME Kinds, Retired, NEW t \in Tasks, NEW m \in Memory, Deaf(m),
           Keep(t, m, Idle) \/ Replace(t, m, Idle), Ready(t), row' = row
    PROVE  Stopped'
  BY IdleCalm, RetiredStep DEF Keep, Replace, Retired, Gone, RetiredTask

LEMMA EndingStopped ==
    ASSUME Kinds, Stopped, NEW t \in Tasks, Ending(t) PROVE Stopped'
<1>1. CASE Superseded(t)
  <2>1. Ready(t) /\ End(t, mem) /\ row' = row /\ faults' = faults /\ ~task[t].cur
    BY <1>1, AtReady, CurrentTask DEF Superseded, EnvUnchanged
  <2> QED
    BY <2>1, StillOps, EndCalm DEF Pending
<1>2. CASE BlockSettled(t) \/ LateSettled(t)
  <2>1. Ready(t) /\ row' = row /\ faults' = faults /\ task[t].at \in {"wrote", "failed"}
    BY <1>2, AtReady DEF BlockSettled, LateSettled, EnvUnchanged
  <2>2. CASE End(t, Settled(t))
    BY <2>1, <2>2, StillOps, EndCalm DEF Pending
  <2>3. CASE BlockSettled(t) /\ task[t].cur
    <3>1. Retired
      BY <2>1, <2>3, CurrentTask DEF BlockSettled, Blocks, Stopped, FencedTask, Kinds, Proper
    <3> DEFINE m == Owned(Detached(Settled(t)), "cancelled")
    <3>2. Settled(t) \in Memory /\ Deaf(Settled(t))
      BY StillOps DEF Still
    <3>3. stopSession(Settled(t)) \in Memory /\ Deaf(stopSession(Settled(t)))
      BY <3>2, StopSessionMemory DEF Deaf
    <3>4. m \in Memory /\ Deaf(m)
      <4>1. Detached(Settled(t)) \in Memory /\ Deaf(Detached(Settled(t)))
        BY <3>2, DetachedMemory DEF Deaf
      <4> QED
        BY <4>1, OwnedMemory DEF Deaf, SameEars, Owners
    <3>5. \/ Replace(t, stopSession(Settled(t)), Idle)
          \/ Replace(t, [m EXCEPT !.unsaved = TRUE], Idle)
      BY <2>3 DEF BlockSettled
    <3> HIDE DEF m
    <3>6. [m EXCEPT !.unsaved = TRUE] \in Memory /\ Deaf([m EXCEPT !.unsaved = TRUE])
      BY <3>4, UnsavedMemory DEF Deaf, SameEars
    <3> QED
      BY <2>1, <3>1, <3>3, <3>5, <3>6, RetiredIdle
  <2> QED
    BY <1>2, <2>2, <2>3 DEF BlockSettled, LateSettled
<1> QED
  BY <1>1, <1>2 DEF Ending

LEMMA AppliedDead ==
    ASSUME Kinds, NEW t \in Tasks, task[t].at = "write", ~Reviving(task[t])
    PROVE  /\ row = None => Applied(t) = None
           /\ Dead => \/ Applied(t) = None
                      \/ Applied(t).status \notin {"active", "usageLimited"}
           /\ task[t].put = "delete" => Applied(t) = None
           /\ task[t].op = "pause" => \/ Applied(t) = None
                                      \/ Applied(t).status \notin {"active", "usageLimited"}
  BY DEF Applied, Reviving, Dead, Kinds, Proper

LEMMA StorageStopped ==
    ASSUME Kinds, Stopped, faults \in Nat, NEW t \in Tasks, Storage(t) PROVE Stopped'
<1>1. CASE ReadFails(t)
  <2>1. Ready(t) /\ Keep(t, mem, Idle) /\ row' = row /\ faults' # 0
    BY <1>1, AtReady DEF ReadFails, Fault
  <2> QED
    BY <2>1, StillOps, EndCalm
<1>2. CASE Write(t) \/ WriteFails(t)
  <2>1. PICK at \in {"wrote", "failed"} :
           /\ Keep(t, mem, To(t, at))
           /\ row' = Applied(t) \/ (at = "failed" /\ row' = row)
           /\ IF at = "wrote" THEN faults' = faults ELSE faults' # 0
    BY <1>2 DEF Write, WriteFails
  <2>2. Ready(t) /\ task[t].at = "write"
    BY <1>2, AtReady DEF Write, WriteFails
  <2> DEFINE r == To(t, at)
  <2>3. /\ r \in Task /\ r.at = at /\ r.op = task[t].op /\ r.cur = task[t].cur /\ r.put = task[t].put
    BY ToTask DEF Kinds, Points
  <2> HIDE DEF r
  <2>4. Still(mem) /\ ~Risky(r)
    BY <2>3, StillOps DEF Risky, Reviving, SetOwns
  <2>5. (Gone => row' = None) /\ (Lasting => Dead')
    BY <2>1, <2>2, AppliedDead DEF Gone, Lasting, NoRisk, Risky, Dead
  <2>6. CASE Retired
    <3>1. RetiredTask(r)
      BY <2>2, <2>3, <2>6 DEF Retired, RetiredTask, Written, Kinds, Proper
    <3> QED
      BY <2>1, <2>2, <2>3, <2>4, <2>5, <2>6, <3>1, RetiredStep DEF Retired, Keep, Still, r
  <2>7. CASE Fenced
    <3>1. FencedTask(r)
      BY <2>3, <2>7 DEF Fenced, FencedTask
    <3>2. ASSUME task[t].cur, at = "wrote", task[t].op \in {"pause", "clear"}
          PROVE  /\ r.op = "clear" => Gone'
                 /\ Lasting'
      <4>1. Stopper(task[t]) /\ ~Risky(task[t])
        BY <2>2, <3>2 DEF Stopper, Risky, Reviving, SetOwns, Kinds, Proper
      <4>2. NoRisk
        <5>1. \A v \in Tasks \ {t} : task[v].at \in Storing => Before(t, v)
          BY <2>2, AnsweredFirst DEF Kinds, Ready, Storing
        <5> QED
          BY <4>1, <5>1 DEF Stopped, Fifo, NoRisk, Risky, Reviving, SetOwns, Storing
      <4>3. NoRisk'
        BY <2>1, <2>2, <2>3, <2>4, <4>2, RiskStep DEF Keep, r
      <4>4. r.op = "clear" => row' = None
        BY <2>1, <2>2, <2>3, <3>2, <4>1, AppliedDead DEF Risky, Kinds, Proper
      <4>5. Dead'
        BY <2>1, <2>2, <2>3, <3>2, <4>1, <4>4, AppliedDead DEF Risky, Dead
      <4> QED
        BY <4>3, <4>4, <4>5 DEF Gone, Lasting
    <3>3. /\ r.cur /\ r.op = "clear" /\ r.at = "wrote" => Gone'
          /\ r.cur /\ r.op = "pause" /\ r.at = "wrote" => Lasting'
          /\ faults' = 0 => faults = 0 /\ (Pending(task[t]) => Lasting')
      BY <2>1, <2>3, <3>2 DEF Pending
    <3> QED
      BY <2>1, <2>2, <2>3, <2>4, <2>5, <2>7, <3>1, <3>3, FencedStep DEF Stopped, Still, r
  <2> QED
    BY <2>6, <2>7 DEF Stopped
<1> QED
  BY <1>1, <1>2 DEF Storage

\* A Stop or Clear fences everything else off at once, whatever is under way.
LEMMA TakeOverStopped ==
    ASSUME Kinds, calls \in 0 .. MaxCalls, NEW t \in Tasks, pauseGoal(t) \/ clearGoal(t)
    PROVE  Stopped'
<1> DEFINE m1 == CancelDeferred(Detached(mem))
           m2 == Owned(m1, "cancelled")
           m == [m2 EXCEPT !.usageTimer = FALSE]
<1>1. PICK op \in {"pause", "clear"} :
         Replace(t, m, [New(op, "barrier") EXCEPT !.objective = calls])
  BY DEF pauseGoal, clearGoal, TakeOver
<1> DEFINE r == [New(op, "barrier") EXCEPT !.objective = calls]
<1>2. /\ r \in Task /\ r.op = op /\ r.at = "barrier" /\ r.cur
  <2>1. /\ New(op, "barrier") \in Task /\ New(op, "barrier").op = op
        /\ New(op, "barrier").at = "barrier" /\ New(op, "barrier").cur
    BY NewTask DEF Operations, Points
  <2>2. r \in Task
    BY <2>1, Zenon DEF Task
  <2> QED
    BY <2>1, <2>2 DEF Task
<1>3. m \in Memory /\ Deaf(m) /\ m.owner = "cancelled" /\ ~m.unsaved
  <2>1. /\ Detached(mem) \in Memory /\ ~Detached(mem).unsaved
        /\ ~Detached(mem).listening /\ Detached(mem).firing = None
    BY DetachedMemory DEF Kinds
  <2>2. m1 \in Memory /\ Deaf(m1) /\ ~m1.unsaved
    BY <2>1, DeferredMemory DEF Deaf
  <2> HIDE DEF m1
  <2>3. m2 \in Memory /\ Deaf(m2) /\ ~m2.unsaved /\ m2.owner = "cancelled"
    BY <2>2, OwnedMemory DEF Owners, Deaf, SameEars
  <2> HIDE DEF m2
  <2>4. Alike(m, m2)
    BY <2>3, FlagMemory
  <2> QED
    BY <2>3, <2>4 DEF Alike, SameEars, Deaf
<1> HIDE DEF m, r
<1>4. Step(t, m, r, Operations)
  BY <1>1 DEF Replace, m, r
<1>5. /\ task' \in [Tasks -> Task] /\ task'[t] = r
      /\ \A u \in Tasks \ {t} : ~task'[u].cur
  <2>1. \A u \in Tasks : task[u].op \in Operations
    BY DEF Kinds, Task
  <2> QED
    BY <1>2, <1>4, <2>1, OthersStep DEF Kinds
<1>6. Alike(mem', m)
  BY <1>3, <1>4, StepMemory
<1>7. Deaf(mem') /\ mem'.owner = "cancelled" /\ ~mem'.unsaved
  BY <1>3, <1>6 DEF Deaf, Alike, SameEars
<1>8. Fifo'
  BY <1>2, <1>5 DEF Fifo, Stopper
<1>9. Fenced'
  <2>1. Pending(task'[t])
    BY <1>2, <1>5 DEF Pending
  <2>2. \A u \in Tasks : FencedTask(task'[u])
    BY <1>2, <1>5 DEF FencedTask
  <2> QED
    BY <1>2, <1>5, <1>7, <2>1, <2>2 DEF Fenced
<1> QED
  BY <1>7, <1>8, <1>9 DEF Stopped

\* The chat is opened: only after a Clear that is over does it start anything.
LEMMA resumeOnOpenStopped ==
    ASSUME Kinds, Stopped, NEW t \in Tasks, resumeOnOpen(t) PROVE Stopped'
<1>1. Ready(t) /\ row' = row
  BY IdleReady DEF resumeOnOpen, Call, CallUnchanged
<1>2. Retired
  BY DEF resumeOnOpen, Stopped, Fenced
<1>3. /\ New("open", "get") \in Task /\ New("open", "get").op = "open" /\ New("open", "get").at = "get"
      /\ New("open", "get").put = "active"
  BY NewTask DEF Operations, Points
<1>4. mem \in Memory /\ Deaf(mem)
  BY DEF Kinds, Stopped
<1>5. CASE Keep(t, Persisting(t, mem), Writing(New("open", "get"), "blocked"))
  <2> DEFINE r == Writing(New("open", "get"), "blocked")
  <2>1. r \in Task /\ r.op = "open" /\ r.at = "write" /\ r.put = "blocked"
    BY <1>3, WritingTask DEF Statuses
  <2> HIDE DEF r
  <2>2. ~Risky(r) /\ RetiredTask(r)
    BY <2>1 DEF Risky, Reviving, SetOwns, RetiredTask, Written
  <2>3. Persisting(t, mem) \in Memory /\ Deaf(Persisting(t, mem))
    BY <1>4, PersistingMemory DEF Deaf, SameEars
  <2> QED
    BY <1>1, <1>2, <1>5, <2>1, <2>2, <2>3, RetiredStep DEF Keep, Retired, Gone, r
<1>6. CASE Replace(t, Owned(mem, "live"), New("open", "get"))
  <2>1. Owned(mem, "live") \in Memory /\ Deaf(Owned(mem, "live"))
    BY <1>4, OwnedMemory DEF Owners, Deaf, SameEars
  <2>2. ~Risky(New("open", "get")) /\ RetiredTask(New("open", "get"))
    BY <1>3 DEF Risky, Reviving, SetOwns, RetiredTask
  <2> QED
    BY <1>1, <1>2, <1>3, <1>6, <2>1, <2>2, RetiredStep DEF Replace, Retired, Gone
<1> QED
  BY <1>5, <1>6 DEF resumeOnOpen

LEMMA StoppingStopped ==
    ASSUME Kinds, Stopped, NEW t \in Tasks, Stopping(t) PROVE Stopped'
<1>1. Ready(t) /\ row' = row /\ faults' = faults
  BY AtReady DEF Stopping, PauseReady, PauseRead, ClearReady, StopSettled, Waited, Resumed, Owns, EnvUnchanged
<1>2. task[t].cur /\ task[t].op \in {"pause", "clear"} /\ FencedTask(task[t]) /\ Fenced
  <2>1. task[t].cur /\ task[t].op \in {"pause", "clear"}
    BY AtReady, CurrentTask DEF Stopping, PauseReady, PauseRead, ClearReady, StopSettled, Waited, Resumed, Owns
  <2>2. ~Retired
    BY <2>1, CurrentTask DEF RetiredTask
  <2> QED
    BY <2>1, <2>2, CurrentTask DEF Stopped
<1>3. (Gone => row' = None) /\ (Lasting => Dead') /\ Fifo
  BY <1>1 DEF Gone, Lasting, Dead, Stopped
<1>4. Still(mem) /\ task[t] \in Task
  BY StillOps DEF Kinds
<1>5. CASE PauseReady(t)
  <2> DEFINE r == To(t, "get")
  <2>1. Keep(t, mem, r) /\ task[t].op = "pause"
    BY <1>5, AtReady DEF PauseReady, Waited, Resumed
  <2>2. r \in Task /\ r.at = "get" /\ r.op = "pause" /\ r.cur
    BY <1>2, <2>1, ToTask DEF Kinds, Points
  <2> HIDE DEF r
  <2>3. ~Risky(r) /\ FencedTask(r) /\ Pending(r)
    BY <2>2 DEF Risky, Reviving, SetOwns, FencedTask, Pending
  <2> QED
    BY <1>1, <1>2, <1>3, <1>4, <2>1, <2>2, <2>3, FencedStep DEF Still
<1>6. ASSUME NEW status, Persist(t, mem, status),
             \/ task[t].op = "pause" /\ status = "paused"
             \/ task[t].op = "clear" /\ status = "delete"
      PROVE  Stopped'
  <2> DEFINE r == Writing(task[t], status)
             m == Persisting(t, mem)
  <2>1. /\ r \in Task /\ r.at = "write" /\ r.op = task[t].op /\ r.cur /\ r.put = status
    BY <1>2, <1>4, <1>6, WritingTask DEF Statuses
  <2>2. Keep(t, m, r)
    BY <1>6 DEF Persist
  <2>3. m \in Memory /\ Deaf(m) /\ m.owner = mem.owner /\ m.unsaved = mem.unsaved
    BY <1>4, PersistingMemory DEF Deaf, SameEars, Still
  <2> HIDE DEF r, m
  <2>4. ~Risky(r) /\ FencedTask(r) /\ Pending(r)
    BY <1>2, <1>6, <2>1 DEF Risky, Reviving, SetOwns, FencedTask, Pending
  <2> QED
    BY <1>1, <1>2, <1>3, <2>1, <2>2, <2>3, <2>4, FencedStep
<1>7. CASE PauseRead(t)
  <2>1. task[t].op = "pause" /\ task[t].at = "get"
    BY <1>7, AtReady DEF PauseRead, Resumed
  <2>2. CASE Persist(t, mem, "paused")
    BY <1>6, <2>1, <2>2
  <2>3. CASE Dead /\ End(t, mem)
    <3>1. Stopper(task[t]) /\ ~Risky(task[t])
      BY <1>2, <2>1 DEF Stopper, Risky, Reviving, SetOwns
    <3>2. NoRisk
      <4>1. \A v \in Tasks \ {t} : task[v].at \in Storing => Before(t, v)
        BY <1>1, <2>1, AnsweredFirst DEF Kinds, Ready, Storing
      <4> QED
        BY <3>1, <4>1 DEF Stopped, Fifo, NoRisk, Risky, Reviving, SetOwns, Storing
    <3>3. Keep(t, Finished(t, mem), Idle) /\ Still(Finished(t, mem))
      BY <1>4, <2>3, StillOps DEF End
    <3>4. Lasting'
      <4>1. NoRisk'
        BY <1>1, <3>2, <3>3, IdleCalm, RiskStep DEF Keep
      <4> QED
        BY <1>1, <2>3, <4>1 DEF Lasting, Dead
    <3>5. FencedTask(Idle)
      BY IdleCalm DEF FencedTask
    <3> QED
      BY <1>1, <1>2, <1>3, <3>3, <3>4, <3>5, IdleCalm, FencedStep DEF Still
  <2> QED
    BY <1>7, <2>2, <2>3 DEF PauseRead, Dead
<1>8. CASE ClearReady(t)
  <2>1. task[t].op = "clear" /\ Persist(t, mem, "delete")
    BY <1>8, AtReady DEF ClearReady, Waited, Resumed
  <2> QED
    BY <1>6, <2>1
<1>9. CASE StopSettled(t)
  <2>1. task[t].at \in {"wrote", "failed"}
    BY <1>9, AtReady DEF StopSettled, Owns
  <2>2. CASE End(t, Settled(t))
    BY <1>1, <2>1, <2>2, StillOps, EndCalm DEF Pending
  <2>3. CASE Owns(t, "clear", "wrote") /\ Replace(t, Disowned(Settled(t)), Idle)
    <3>1. Gone
      BY <1>2, <2>3, AtReady DEF Fenced, Owns
    <3> DEFINE m == Disowned(Settled(t))
    <3>2. m \in Memory /\ Deaf(m)
      <4>1. Settled(t) \in Memory /\ Deaf(Settled(t))
        BY StillOps DEF Still
      <4> QED
        BY <4>1, DisownedMemory DEF Deaf, SameEars
    <3> HIDE DEF m
    <3>3. Step(t, m, Idle, Operations)
      BY <2>3 DEF Replace, m
    <3>4. /\ task'[t] = Idle
          /\ \A u \in Tasks \ {t} : ~task'[u].cur
      <4>1. \A u \in Tasks : task[u].op \in Operations
        BY DEF Kinds, Task
      <4> QED
        BY <3>3, <4>1, IdleCalm, OthersStep DEF Kinds
    <3>5. NoRisk'
      BY <1>1, <3>1, <3>3, IdleCalm, RiskStep DEF Gone
    <3>6. Deaf(mem')
      BY <3>2, <3>3, StepMemory DEF Deaf, Alike, SameEars
    <3>7. Retired'
      BY <1>1, <3>1, <3>4, <3>5, IdleCalm DEF Retired, Gone, RetiredTask
    <3> QED
      BY <3>5, <3>6, <3>7 DEF Stopped, Fifo, NoRisk
  <2> QED
    BY <1>9, <2>2, <2>3 DEF StopSettled
<1> QED
  BY <1>5, <1>7, <1>8, <1>9 DEF Stopping

\* A resume, an edit, a finalizer: none of them has an owner any more.
LEMMA NotCurrent ==
    ASSUME Kinds, Stopped, NEW t \in Tasks
    PROVE  /\ \A at : ~Resumed(t, "set", at) /\ ~Resumed(t, "edit", at) /\ ~Resumed(t, "create", at)
           /\ \A at : ~Resumed(t, "resume", at) /\ ~Resumed(t, "reauto", at) /\ ~Resumed(t, "final", at)
           /\ \A at : ~Owns(t, "edit", at) /\ ~Owns(t, "create", at) /\ ~Owns(t, "final", at)
           /\ \A at : ~Owns(t, "resume", at) /\ ~Owns(t, "reauto", at)
           /\ \A op \in {"open", "auto", "fire"}, at \in Dispatching \cup {"notice"} : ~Resumed(t, op, at)
           /\ ~Owns(t, "fire", "wrote") /\ ~Owns(t, "fire", "failed")
<1>1. /\ \A op, at : Resumed(t, op, at) => task[t].cur /\ task[t].op = op /\ task[t].at = at
      /\ \A op, at : Owns(t, op, at) => /\ task[t].cur /\ task[t].op = op /\ task[t].at = at
                                        /\ ~(op # "final" /\ task[t].put = "blocked")
  BY CurrentTask DEF Resumed, Owns, At, Blocks
<1>2. task[t].cur => task[t].op \in {"none", "boot", "idle", "pause", "clear", "open", "auto", "fire"}
  BY CurrentTask
<1>3. task[t].cur /\ task[t].op \in {"open", "auto", "fire"}
        => task[t].at \in {"get"} \cup Written /\ (task[t].at \in Written => task[t].put = "blocked")
  BY CurrentTask DEF Stopped, FencedTask, RetiredTask, Written
<1> QED
  BY <1>1, <1>2, <1>3 DEF Dispatching, Written

LEMMA SettingStopped ==
    ASSUME Kinds, Stopped, NEW t \in Tasks, Setting(t) PROVE Stopped'
  BY NotCurrent DEF Setting, SetReady, SetRead, EditHydrated, CreateHydrated, SetWrites, SetSettled,
                    SetGivenUp, Waited

LEMMA ResumingStopped ==
    ASSUME Kinds, Stopped, faults \in Nat, NEW t \in Tasks, Resuming(t) PROVE Stopped'
<1>1. Still(mem) /\ Still(RestoreDeferred(Settled(t)))
  BY StillOps
<1>2. ASSUME NEW owns, GiveUpResume(t, owns), task[t].op = "resume", Ready(t), row' = row,
             faults' = 0 => faults = 0
      PROVE  Stopped'
  <2>1. ~task[t].cur
    BY <1>2, CurrentTask
  <2>2. mem.deferred = "no"
    BY DEF Stopped, Deaf
  <2>3. Keep(t, RestoreDeferred(Settled(t)), Idle)
    BY <1>2, <2>1, <2>2 DEF GiveUpResume
  <2> QED
    BY <1>1, <1>2, <2>1, <2>3, EndCalm DEF Pending
<1>3. CASE ResumeGivenUp(t)
  <2>1. /\ task[t].op \in ResumeOps /\ task[t].at = "failed" /\ (task[t].cur \/ task[t].op = "resume")
        /\ row' = row /\ faults' = faults
        /\ GiveUpResume(t, task[t].owns \/ task[t].op = "reauto")
    BY <1>3, NotCurrent DEF ResumeGivenUp, EnvUnchanged, ResumeOps
  <2>2. task[t].op = "resume"
    BY <2>1, CurrentTask DEF ResumeOps
  <2> QED
    BY <1>2, <2>1, <2>2 DEF Ready, Storing
<1>4. CASE ResumeFails(t)
  <2>1. /\ task[t].op = "resume" /\ Ready(t) /\ row' = row /\ (faults' = 0 => faults = 0)
        /\ GiveUpResume(t, task[t].owns \/ task[t].at = "hydrate")
    BY <1>4, AtReady DEF ResumeFails, Fault
  <2> QED
    BY <1>2, <2>1
<1>5. CASE AutoRead(t) \/ OwnerGivenUp(t)
  <2>1. Ready(t) /\ row' = row /\ \E op \in {"auto", "open"} : Resumed(t, op, "get")
    BY <1>5, AtReady, NotCurrent DEF AutoRead, OwnerGivenUp, Resumed, EnvUnchanged, Fault, Dispatching
  <2>2. Retired
    <3>1. task[t].cur /\ task[t].op \in {"auto", "open"}
      BY <2>1, AtReady, CurrentTask DEF Resumed
    <3> QED
      BY <3>1, CurrentTask DEF Stopped, FencedTask
  <2>3. Replace(t, Disowned(mem), Idle)
    BY <1>5, <2>2 DEF AutoRead, OwnerGivenUp, Retired, Gone
  <2>4. Disowned(mem) \in Memory /\ Deaf(Disowned(mem))
    BY <1>1, DisownedMemory DEF Still, Deaf, SameEars
  <2> QED
    BY <2>1, <2>2, <2>3, <2>4, RetiredIdle
<1> QED
  BY <1>3, <1>4, <1>5, NotCurrent DEF Resuming, ResumeReady, ResumeRead, ReautoRead, ResumeHydrated,
     ResumeSettled, Unhydrated, AutoHydrated, AutoNoticed, Waited, ResumeOps, Dispatching

LEMMA TimersStopped ==
    ASSUME Kinds, Stopped, NEW t \in Tasks, Timers(t) PROVE Stopped'
<1>1. Ready(t) /\ row' = row /\ faults' = faults /\ task[t].op = "none" /\ ~Pending(task[t])
  BY IdleReady DEF Timers, ContinuationFires, DeferredResumeFires, autoResumeFromUsageLimit,
                   EnvUnchanged, Pending
<1>2. Still(mem)
  BY StillOps
<1>3. ASSUME NEW r, NEW m, Still(m), Keep(t, m, r) \/ Replace(t, m, r), Retired,
             r \in Task, ~Risky(r), r.op \in {"fire", "auto"}, r.at = "get"
      PROVE  Stopped'
  BY <1>1, <1>3, RetiredStep DEF Still, Keep, Replace, Retired, Gone, RetiredTask
<1>4. /\ New("fire", "get") \in Task /\ ~Risky(New("fire", "get"))
      /\ New("fire", "get").op = "fire" /\ New("fire", "get").at = "get"
  BY NewTask DEF Operations, Points, Risky, Reviving, SetOwns
<1>5. /\ New("auto", "get") \in Task /\ ~Risky(New("auto", "get"))
      /\ New("auto", "get").op = "auto" /\ New("auto", "get").at = "get"
  BY NewTask DEF Operations, Points, Risky, Reviving, SetOwns
<1>6. CASE ContinuationFires(t)
  <2> DEFINE m == [mem EXCEPT !.timer = FALSE, !.late = {}]
  <2>1. Still(m)
    <3>1. FALSE \in BOOLEAN /\ Alike(m, mem)
      BY FlagMemory DEF Kinds
    <3> QED
      BY <1>2, <3>1, StillAlike
  <2>2. Keep(t, m, IF mem.owner = "live" THEN New("fire", "get") ELSE Idle)
    BY <1>6 DEF ContinuationFires
  <2> HIDE DEF m
  <2>3. CASE mem.owner = "live"
    BY <1>3, <1>4, <2>1, <2>2, <2>3 DEF Stopped, Fenced
  <2>4. CASE mem.owner # "live"
    BY <1>1, <2>1, <2>2, <2>4, EndCalm
  <2> QED
    BY <2>3, <2>4
<1>7. CASE autoResumeFromUsageLimit(t)
  <2> DEFINE m == [mem EXCEPT !.usageTimer = FALSE]
  <2>1. Still(m)
    <3>1. Alike(m, mem)
      BY FlagMemory DEF Kinds
    <3> QED
      BY <1>2, <3>1, StillAlike
  <2>2. \/ Keep(t, m, Idle)
        \/ mem.owner = "none" /\ Replace(t, Owned(m, "live"), New("auto", "get"))
    BY <1>7 DEF autoResumeFromUsageLimit
  <2> HIDE DEF m
  <2>3. CASE Keep(t, m, Idle)
    BY <1>1, <2>1, <2>3, EndCalm
  <2>4. CASE mem.owner = "none" /\ Replace(t, Owned(m, "live"), New("auto", "get"))
    <3>1. Retired
      BY <2>4 DEF Stopped, Fenced
    <3>2. Owned(m, "live") \in Memory /\ Deaf(Owned(m, "live"))
      BY <2>1, OwnedMemory DEF Still, Deaf, SameEars, Owners
    <3> QED
      BY <1>1, <1>5, <2>4, <3>1, <3>2, RetiredStep DEF Replace, Retired, Gone, RetiredTask
  <2> QED
    BY <2>2, <2>3, <2>4
<1>8. ~DeferredResumeFires(t)
  BY DEF DeferredResumeFires, Stopped, Deaf
<1> QED
  BY <1>6, <1>7, <1>8 DEF Timers

LEMMA OpeningStopped ==
    ASSUME Kinds, Stopped, NEW t \in Tasks, Opening(t) PROVE Stopped'
<1>1. Still(mem)
  BY StillOps
<1>2. CASE OpenRead(t)
  <2>1. /\ Ready(t) /\ row' = row /\ task[t].cur /\ task[t].op = "open"
    BY <1>2, AtReady, CurrentTask DEF OpenRead, Resumed, EnvUnchanged
  <2>2. Retired
    BY <2>1, CurrentTask DEF Stopped, FencedTask
  <2>3. Replace(t, Disowned(mem), Idle)
    BY <1>2, <2>2 DEF OpenRead, Retired, Gone
  <2>4. Disowned(mem) \in Memory /\ Deaf(Disowned(mem))
    BY <1>1, DisownedMemory DEF Still, Deaf, SameEars
  <2> QED
    BY <2>1, <2>2, <2>3, <2>4, RetiredIdle
<1>3. ~OpenHydrated(t)
  BY NotCurrent DEF OpenHydrated, Dispatching
<1>4. CASE resumeActiveGoals(t)
  <2> DEFINE b == mem.usageTimer \/ (row # None /\ Limited(row))
             m == [mem EXCEPT !.usageTimer = @ \/ (row # None /\ Limited(row))]
  <2>1. Ready(t) /\ row' = row /\ faults' = faults /\ task[t].op = "boot"
    BY <1>4, AtReady DEF resumeActiveGoals, EnvUnchanged
  <2>2. ~(row # None /\ row.status = "active" /\ mem.owner = "none" /\ hydrated)
    BY DEF Stopped, Fenced, Retired, Gone
  <2>3. Keep(t, m, Idle)
    BY <1>4, <2>2 DEF resumeActiveGoals
  <2>4. b \in BOOLEAN
    BY Zenon DEF Limited, Kinds, Memory
  <2>5. Alike([mem EXCEPT !.usageTimer = b], mem)
    BY <2>4, FlagMemory DEF Kinds
  <2>6. Still(m)
    BY <1>1, <2>5, StillAlike
  <2> HIDE DEF m
  <2> QED
    BY <2>1, <2>3, <2>6, EndCalm DEF Pending
<1>5. CASE IdleObserved(t)
  <2>1. Ready(t) /\ row' = row /\ faults' = faults /\ task[t].op = "none"
    BY <1>5, IdleReady DEF IdleObserved
  <2>2. Keep(t, mem, Idle)
    BY <1>5 DEF IdleObserved, Stopped, Deaf
  <2> QED
    BY <1>1, <2>1, <2>2, EndCalm DEF Pending
<1>6. CASE maybeContinueActiveGoal(t)
  <2>1. Ready(t) /\ row' = row /\ faults' = faults /\ task[t].op = "idle"
    BY <1>6, AtReady DEF maybeContinueActiveGoal, EnvUnchanged
  <2>2. Keep(t, mem, Idle) \/ Keep(t, Armed(mem), Idle)
    BY <1>6 DEF maybeContinueActiveGoal
  <2> QED
    BY <2>1, <2>2, StillOps, EndCalm DEF Pending
<1> QED
  BY <1>2, <1>3, <1>4, <1>5, <1>6 DEF Opening

\* The one step that hands a turn to the agent cannot be taken.
LEMMA NoDispatch ==
    ASSUME Kinds, Stopped, NEW t \in Tasks PROVE ~onDispatching(t)
<1>1. SUFFICES ASSUME onDispatching(t) PROVE FALSE
  OBVIOUS
<1>2. task[t].op = "fire" /\ task[t].at = "gate" /\ ~task[t].cut
  BY <1>1, AtReady DEF onDispatching
<1>3. mem.firing = t /\ mem.firing = None
  BY <1>2 DEF Kinds, CutOrFiring, Dispatching, Stopped, Deaf
<1> QED
  BY <1>3, GoalAssumption

LEMMA FiringStopped ==
    ASSUME Kinds, Stopped, faults \in Nat, NEW t \in Tasks, Firing(t) PROVE Stopped'
<1>1. Still(mem)
  BY StillOps
<1>2. CASE FireRead(t)
  <2>1. /\ Ready(t) /\ row' = row /\ faults' = faults /\ task[t].cur /\ task[t].op = "fire"
    BY <1>2, AtReady, CurrentTask DEF FireRead, Resumed, EnvUnchanged
  <2>2. Retired
    BY <2>1, CurrentTask DEF Stopped, FencedTask
  <2>3. End(t, mem)
    BY <1>2, <2>2 DEF FireRead, Retired, Gone
  <2> QED
    BY <1>1, <2>1, <2>3, EndCalm DEF Pending
<1>3. ASSUME NEW at \in {"gate", "sent"}, At(t, "fire", at) PROVE ~task[t].cur /\ Ready(t)
  <2>1. task[t].op = "fire" /\ task[t].at = at /\ Ready(t)
    BY <1>3, AtReady
  <2> QED
    BY <2>1, CurrentTask DEF Stopped, FencedTask, RetiredTask, Written
<1>4. CASE NotAccepted(t) \/ ProviderRejects(t) \/ Accepted(t)
  <2>1. ~task[t].cur /\ Ready(t) /\ row' = row /\ faults' = faults
    BY <1>3, <1>4 DEF NotAccepted, ProviderRejects, Accepted, EnvUnchanged
  <2>2. End(t, mem)
    BY <1>4, <2>1 DEF NotAccepted, ProviderRejects, Accepted
  <2> QED
    BY <1>1, <2>1, <2>2, EndCalm DEF Pending
<1>5. CASE FireFails(t)
  <2>1. Ready(t) /\ row' = row /\ faults' # 0 /\ task[t].op = "fire"
    BY <1>5, AtReady DEF FireFails
  <2>2. CASE ~task[t].cur
    <3>1. End(t, mem)
      BY <1>5, <2>2 DEF FireFails
    <3> QED
      BY <1>1, <2>1, <3>1, EndCalm
  <2>3. CASE task[t].cur
    <3> DEFINE b == mem.claimed /\ task[t].at = "get"
               m == [mem EXCEPT !.claimed = @ /\ task[t].at = "get"]
               r == Writing(task[t], "blocked")
    <3>1. Retired
      BY <2>1, <2>3, CurrentTask DEF Stopped, FencedTask
    <3>2. Still(m)
      <4>1. b \in BOOLEAN
        BY Zenon DEF Kinds, Memory
      <4>2. Alike([mem EXCEPT !.claimed = b], mem)
        BY <4>1, FlagMemory DEF Kinds
      <4> QED
        BY <1>1, <4>2, StillAlike
    <3>3. r \in Task /\ r.at = "write" /\ r.put = "blocked" /\ r.op = "fire"
      BY <2>1, WritingTask DEF Kinds, Statuses
    <3>4. Keep(t, Persisting(t, m), r)
      BY <1>5, <2>3 DEF FireFails, Persist
    <3> HIDE DEF m, r
    <3>5. Persisting(t, m) \in Memory /\ Deaf(Persisting(t, m))
      BY <3>2, PersistingMemory DEF Still, Deaf, SameEars
    <3>6. ~Risky(r) /\ RetiredTask(r)
      BY <3>3 DEF Risky, Reviving, SetOwns, RetiredTask, Written
    <3> QED
      BY <2>1, <3>1, <3>3, <3>4, <3>5, <3>6, RetiredStep DEF Keep, Retired, Gone
  <2> QED
    BY <2>2, <2>3
<1> QED
  BY <1>2, <1>4, <1>5, NotCurrent, NoDispatch
     DEF Firing, FireHydrated, FirePrepared, BudgetSettled, Dispatching

LEMMA FinalizingStopped ==
    ASSUME Kinds, Stopped, NEW t \in Tasks, Finalizing(t) PROVE Stopped'
<1>1. CASE FinalRecorded(t)
  <2> DEFINE r == Writing(task[t], "delete")
  <2>1. /\ Ready(t) /\ row' = row /\ faults' = faults /\ task[t].op = "final" /\ task[t] \in Task
        /\ Keep(t, mem, r)
    BY <1>1, AtReady DEF FinalRecorded, EnvUnchanged, Kinds
  <2>2. ~task[t].cur
    BY <2>1, CurrentTask
  <2>3. r \in Task /\ r.op = "final" /\ r.at = "write" /\ r.put = "delete" /\ ~r.cur
    BY <2>1, <2>2, WritingTask
  <2> HIDE DEF r
  <2>4. ~Risky(r)
    BY <2>3 DEF Risky, Reviving, SetOwns
  <2> QED
    BY <2>1, <2>2, <2>3, <2>4, StillOps, CalmStep DEF Still, Pending
<1> QED
  BY <1>1, NotCurrent DEF Finalizing, FinalRead, FinalLimited, FinalSettled

\* The agent session's own steps leave the controller alone, which hears no event.
LEMMA SessionStopped ==
    ASSUME Kinds, Stopped,
           \/ UNCHANGED vars \/ UserTurn \/ TurnAccepted
           \/ \E t \in Tasks, v \in Verdicts : TurnEnds(t, v)
    PROVE  Stopped'
<1>1. Alike(mem', mem)
  <2>1. Waiting \in SUBSET Tasks
    BY DEF Waiting
  <2>2. Alike(mem, mem) /\ Alike([mem EXCEPT !.older = Waiting], mem)
    BY <2>1, OlderMemory DEF Kinds, Alike, SameBarriers, SameEars
  <2>3. ~mem.listening
    BY DEF Stopped, Deaf
  <2> QED
    BY <2>2, <2>3 DEF UserTurn, TurnAccepted, TurnEnds, vars
<1>2. UNCHANGED <<task, queue, row, faults>>
  <2>1. ~mem.listening
    BY DEF Stopped, Deaf
  <2> QED
    BY <2>1 DEF UserTurn, TurnAccepted, TurnEnds, vars
<1>3. /\ mem'.owner = mem.owner /\ mem'.unsaved = mem.unsaved /\ (Deaf(mem) => Deaf(mem'))
  BY <1>1 DEF Alike, SameEars, Deaf
<1> QED
  BY <1>2, <1>3 DEF Stopped, Fifo, Before, Fenced, Retired, Gone, Lasting, Dead, NoRisk

LEMMA StopStep ==
    ASSUME Kinds, Surroundings, StopInv, [Next]_vars PROVE StopInv'
<1>1. SUFFICES ASSUME stopped' PROVE Stopped'
  BY DEF StopInv
<1>2. calls \in 0 .. MaxCalls /\ faults \in Nat
  BY GoalAssumption DEF Surroundings
<1>3. ASSUME NEW t \in Tasks, pauseGoal(t) \/ clearGoal(t) PROVE Stopped'
  BY <1>2, <1>3, TakeOverStopped
<1>4. ASSUME NEW t \in Tasks, setGoal(t) \/ resumeGoal(t) PROVE FALSE
  BY <1>1, <1>4 DEF setGoal, resumeGoal
<1>5. stopped => Stopped
  BY DEF StopInv
<1>6. ASSUME NEW t \in Tasks, resumeOnOpen(t) PROVE Stopped'
  BY <1>1, <1>5, <1>6, resumeOnOpenStopped DEF resumeOnOpen
<1>7. ASSUME NEW t \in Tasks,
             \/ Storage(t) \/ Stopping(t) \/ Setting(t) \/ Resuming(t) \/ Timers(t)
             \/ Opening(t) \/ Firing(t) \/ Finalizing(t) \/ Ending(t)
      PROVE  Stopped'
  <2>1. stopped' = stopped
    BY <1>7 DEF EnvUnchanged, Ensured, Fault, Storage, Write, WriteFails, ReadFails,
       Stopping, PauseReady, PauseRead, ClearReady, StopSettled,
       Setting, SetReady, SetRead, EditHydrated, CreateHydrated, SetWrites, SetSettled, SetGivenUp,
       Resuming, ResumeReady, ResumeRead, ReautoRead, ResumeHydrated, ResumeSettled, ResumeGivenUp,
       ResumeFails, Unhydrated, AutoRead, AutoHydrated, AutoNoticed, OwnerGivenUp,
       Timers, ContinuationFires, DeferredResumeFires, autoResumeFromUsageLimit,
       Opening, OpenRead, OpenHydrated, resumeActiveGoals, IdleObserved, maybeContinueActiveGoal,
       Firing, FireRead, FireHydrated, FirePrepared, onDispatching, NotAccepted, ProviderRejects,
       Accepted, FireFails, BudgetSettled,
       Finalizing, FinalRead, FinalLimited, FinalRecorded, FinalSettled,
       Ending, Superseded, BlockSettled, LateSettled
  <2> QED
    BY <1>1, <1>2, <1>5, <1>7, <2>1, StorageStopped, StoppingStopped, SettingStopped,
       ResumingStopped, TimersStopped, OpeningStopped, FiringStopped, FinalizingStopped, EndingStopped
<1>8. ASSUME \/ UNCHANGED vars \/ UserTurn \/ TurnAccepted
             \/ \E t \in Tasks, v \in Verdicts : TurnEnds(t, v)
      PROVE  Stopped'
  <2>1. stopped' = stopped
    BY <1>8 DEF vars, UserTurn, TurnAccepted, TurnEnds
  <2> QED
    BY <1>1, <1>5, <1>8, <2>1, SessionStopped
<1> QED
  BY <1>3, <1>4, <1>6, <1>7, <1>8 DEF Next, Commands

LEMMA StopInvariant == Spec => [](Kinds /\ Surroundings /\ StopInv)
<1>1. Init => Kinds /\ Surroundings /\ StopInv
  BY InitKinds DEF Init, StopInv
<1>2. Kinds /\ Surroundings /\ StopInv /\ [Next]_vars => (Kinds /\ Surroundings /\ StopInv)'
  BY KindsStep, SurroundingsStep, StopStep
<1> QED
  BY <1>1, <1>2, PTL DEF Spec

LEMMA OnlyOnDispatching ==
    ASSUME [Next]_vars, session = "idle", session' = "dispatching"
    PROVE  \E t \in Tasks : onDispatching(t)
<1>1. session' # session
  OBVIOUS
<1>2. ASSUME NEW t \in Tasks, Commands(t) \/ Storage(t) \/ Stopping(t) \/ Setting(t) \/ Ending(t)
      PROVE  FALSE
  BY <1>1, <1>2 DEF EnvUnchanged, Ensured, Fault, Storage, Write, WriteFails, ReadFails,
     Commands, pauseGoal, clearGoal, setGoal, resumeGoal, resumeOnOpen, CallUnchanged,
     Stopping, PauseReady, PauseRead, ClearReady, StopSettled,
     Setting, SetReady, SetRead, EditHydrated, CreateHydrated, SetWrites, SetSettled, SetGivenUp,
     Ending, Superseded, BlockSettled, LateSettled
<1>3. ASSUME NEW t \in Tasks, Resuming(t) \/ Timers(t) \/ Opening(t) \/ Finalizing(t)
      PROVE  FALSE
  BY <1>1, <1>3 DEF EnvUnchanged, Ensured, Fault,
     Resuming, ResumeReady, ResumeRead, ReautoRead, ResumeHydrated, ResumeSettled, ResumeGivenUp,
     ResumeFails, Unhydrated, AutoRead, AutoHydrated, AutoNoticed, OwnerGivenUp,
     Timers, ContinuationFires, DeferredResumeFires, autoResumeFromUsageLimit,
     Opening, OpenRead, OpenHydrated, resumeActiveGoals, IdleObserved, maybeContinueActiveGoal,
     Finalizing, FinalRead, FinalLimited, FinalRecorded, FinalSettled
<1>4. ASSUME NEW t \in Tasks, Firing(t) PROVE onDispatching(t)
  BY <1>1, <1>4 DEF EnvUnchanged, Ensured, Firing, FireRead, FireHydrated, FirePrepared, NotAccepted,
     ProviderRejects, Accepted, FireFails, BudgetSettled
<1>5. /\ ~UserTurn /\ ~TurnAccepted /\ ~UNCHANGED vars
      /\ \A t \in Tasks, v \in Verdicts : ~TurnEnds(t, v)
  BY <1>1 DEF UserTurn, TurnAccepted, TurnEnds, vars
<1> QED
  BY <1>2, <1>3, <1>4, <1>5 DEF Next

\* Once the user has said Stop or Clear (pauseGoal, clearGoal), no turn of the
\* goal reaches the agent before he sets or resumes a goal, whatever timers,
\* resumes, dispatches and finalizers were under way.
THEOREM StopHolds == Spec => StopSticks
<1>1. Kinds /\ Surroundings /\ StopInv /\ [Next]_vars
        => (session = "idle" /\ session' = "dispatching" => ~stopped)
  BY OnlyOnDispatching, NoDispatch DEF StopInv
<1> QED
  BY <1>1, StopInvariant, PTL DEF Spec, StopSticks

\* A Stop that has been carried out stays stored (pauseGoal, clearGoal): when
\* every operation is over and no storage call failed, the row is not active and
\* waits for no limit, so that no restart and no late write revives the goal.
THEOREM StopIsStored == Spec => []StopPersists
<1>1. StopInv => StopPersists
  <2> SUFFICES ASSUME Stopped, Quiet, faults = 0, row # None
               PROVE  row.status \notin {"active", "usageLimited"}
    BY DEF StopInv, StopPersists
  <2>1. Fenced
    BY DEF Stopped, Retired, Gone
  <2>2. \A t \in Tasks : ~Pending(task[t])
    BY DEF Quiet, Pending
  <2> QED
    BY <2>1, <2>2 DEF Fenced, Lasting, Dead
<1> QED
  BY <1>1, StopInvariant, PTL

-----------------------------------------------------------------------------
(* No turn beyond the budget *)

\* A dispatch that may still reach the agent,
Uncut(r) == r.op = "fire" /\ r.at \in Dispatching /\ ~r.cut
\* and a finalizer that leaves turns to be used.
Harmless(r) == r.op = "final" => IF r.at = "get" THEN r.put = "other" ELSE r.used < MaxTurns

\* The turn before is settled in every respect, or was the user's own.
BudgetInv ==
    /\ \A t \in Tasks : task[t].op = "final" => session = "settling"
    /\ \A t \in Tasks : Uncut(task[t]) =>
          /\ session \notin {"dispatching", "goal"}
          /\ row # None => row.used < MaxTurns
          /\ \A u \in Tasks : Harmless(task[u])

\* t goes on at r, the others stay where they are.
Goes(t, r) == task'[t] = r /\ \A u \in Tasks \ {t} : SameWork(task'[u], task[u])

LEMMA StepGoes ==
    ASSUME Kinds, NEW t \in Tasks, NEW m, NEW r, Steps(t, m, r) \/ (r = Idle /\ End(t, m))
    PROVE  Goes(t, r)
<1>1. ASSUME NEW n, NEW losers, Step(t, n, r, losers) PROVE Goes(t, r)
  <2>1. task \in [Tasks -> Task]
    BY DEF Kinds
  <2>2. task'[t] = r /\ \A u \in Tasks \ {t} : SameWork(task'[u], task[u])
    BY <1>1, <2>1, OthersStep
  <2> QED
    BY <2>2 DEF Goes
<1> QED
  BY <1>1 DEF Steps, End, Keep, Renew, Replace

\* r is neither the end of a turn nor the beginning of one.
Plain(r) == r.op # "final" /\ (r.op = "fire" => r.at \notin Dispatching)

LEMMA PlainTasks ==
    /\ Plain(Idle)
    /\ \A op \in Operations \ {"final"}, at \in {"barrier", "get"} : Plain(New(op, at))
<1>1. ASSUME NEW op \in Operations \ {"final"}, NEW at \in {"barrier", "get"}
      PROVE  Plain(New(op, at))
  <2>1. op \in Operations /\ at \in Points
    BY DEF Points
  <2> QED
    BY <2>1, NewTask DEF Plain, Dispatching
<1> QED
  BY <1>1, IdleTask DEF Plain

\* An operation other than a dispatch or a finalizer goes on, or one writes a status.
LEMMA PlainSteps ==
    ASSUME Kinds, NEW t \in Tasks
    PROVE  /\ \A at \in Points : task[t].op \notin {"fire", "final"} => Plain(To(t, at))
           /\ \A at \in Points \ Dispatching : task[t].op # "final" => Plain(To(t, at))
           /\ \A s \in Statuses \cup {"delete"} : task[t].op # "final" => Plain(Writing(task[t], s))
<1>1. \A at \in Points : To(t, at).op = task[t].op /\ To(t, at).at = at
  BY ToTask DEF Kinds
<1>2. \A s \in Statuses \cup {"delete"} :
         Writing(task[t], s).op = task[t].op /\ Writing(task[t], s).at = "write"
  BY WritingTask DEF Kinds
<1> QED
  BY <1>1, <1>2 DEF Plain, Dispatching

\* A step that neither begins nor ends a turn.
LEMMA PlainBudget ==
    ASSUME BudgetInv, NEW t \in Tasks, NEW r, Goes(t, r), Plain(r), row' = row, session' = session
    PROVE  BudgetInv'
<1>1. \A u \in Tasks : /\ task'[u].op = "final" => u # t /\ task[u].op = "final"
                       /\ Uncut(task'[u]) => u # t /\ Uncut(task[u])
                       /\ u # t => (Harmless(task[u]) => Harmless(task'[u]))
  BY DEF Goes, Plain, SameWork, Uncut, Harmless
<1>2. Harmless(task'[t])
  BY DEF Goes, Plain, Harmless
<1> QED
  BY <1>1, <1>2 DEF BudgetInv

PlainStep(t) == Goes(t, task'[t]) /\ Plain(task'[t])

LEMMA StepPlain ==
    ASSUME Kinds, NEW t \in Tasks, NEW m, NEW r, Steps(t, m, r) \/ (r = Idle /\ End(t, m)), Plain(r)
    PROVE  PlainStep(t)
<1>1. Goes(t, r)
  BY StepGoes
<1> QED
  BY <1>1 DEF PlainStep, Goes

LEMMA IdlePlain ==
    ASSUME Kinds, NEW t \in Tasks, NEW m, Steps(t, m, Idle) \/ End(t, m)
    PROVE  PlainStep(t)
  BY PlainTasks, StepPlain

LEMMA ToPlain ==
    ASSUME Kinds, NEW t \in Tasks, NEW m, NEW at \in Points, Steps(t, m, To(t, at)),
           task[t].op # "final", task[t].op = "fire" => at \notin Dispatching
    PROVE  PlainStep(t)
<1>1. Plain(To(t, at))
  BY PlainSteps
<1> QED
  BY <1>1, StepPlain

LEMMA PersistPlain ==
    ASSUME Kinds, NEW t \in Tasks, NEW m, NEW s \in Statuses \cup {"delete"}, Persist(t, m, s),
           task[t].op # "final"
    PROVE  PlainStep(t)
<1>1. Plain(Writing(task[t], s)) /\ Steps(t, Persisting(t, m), Writing(task[t], s))
  BY PlainSteps DEF Persist, Steps
<1> QED
  BY <1>1, StepPlain

LEMMA NewPlain ==
    ASSUME Kinds, NEW t \in Tasks, NEW m, NEW op \in Operations \ {"final"}, NEW at \in {"barrier", "get"},
           Steps(t, m, New(op, at))
    PROVE  PlainStep(t)
  BY PlainTasks, StepPlain

LEMMA EndingPlain ==
    ASSUME Kinds, NEW t \in Tasks, Ending(t) PROVE PlainStep(t)
<1>1. \E m : Steps(t, m, Idle) \/ End(t, m)
  BY DEF Ending, Superseded, BlockSettled, LateSettled, Steps
<1> QED
  BY <1>1, IdlePlain

LEMMA StoppingPlain ==
    ASSUME Kinds, NEW t \in Tasks, Stopping(t) PROVE PlainStep(t)
<1>1. task[t].op \in {"pause", "clear"}
  BY AtReady DEF Stopping, PauseReady, PauseRead, ClearReady, StopSettled, Waited, Resumed, Owns
<1>2. CASE PauseReady(t)
  <2>1. Steps(t, mem, To(t, "get")) /\ "get" \in Points
    BY <1>2 DEF PauseReady, Steps, Points
  <2> QED
    BY <1>1, <2>1, ToPlain
<1>3. CASE PauseRead(t)
  <2>1. Persist(t, mem, "paused") \/ End(t, mem)
    BY <1>3 DEF PauseRead
  <2> QED
    BY <1>1, <2>1, PersistPlain, IdlePlain DEF Statuses
<1>4. CASE ClearReady(t)
  BY <1>1, <1>4, PersistPlain DEF ClearReady
<1>5. CASE StopSettled(t)
  <2>1. \E m : Steps(t, m, Idle) \/ End(t, m)
    BY <1>5 DEF StopSettled, Steps
  <2> QED
    BY <2>1, IdlePlain
<1> QED
  BY <1>2, <1>3, <1>4, <1>5 DEF Stopping

LEMMA BeginPlain ==
    ASSUME Kinds, NEW t \in Tasks, NEW m, BeginResume(t, m) PROVE PlainStep(t)
<1> DEFINE r == [New("resume", "barrier") EXCEPT !.owns = TRUE]
<1>1. New("resume", "barrier") \in Task /\ New("resume", "barrier").op = "resume"
  BY NewTask DEF Operations, Points
<1>2. r.op = "resume"
  BY <1>1 DEF Task
<1>3. \E n : Steps(t, n, New("resume", "barrier")) \/ Steps(t, n, r)
  BY DEF BeginResume, Steps
<1> HIDE DEF r
<1> QED
  BY <1>1, <1>2, <1>3, StepPlain DEF Plain

LEMMA CommandsPlain ==
    ASSUME Kinds, calls \in 0 .. MaxCalls, NEW t \in Tasks, Commands(t) PROVE PlainStep(t)
<1>1. ASSUME NEW op \in {"pause", "clear"}, TakeOver(t, op) PROVE PlainStep(t)
  <2> DEFINE r == [New(op, "barrier") EXCEPT !.objective = calls]
  <2>1. New(op, "barrier") \in Task /\ New(op, "barrier").op = op
    BY NewTask DEF Operations, Points
  <2>2. r.op = op
    BY <2>1 DEF Task
  <2>3. \E m : Steps(t, m, r)
    BY <1>1 DEF TakeOver, Steps
  <2> HIDE DEF r
  <2> QED
    BY <2>2, <2>3, StepPlain DEF Plain
<1>2. CASE setGoal(t)
  <2> DEFINE takes == mem.rejections > 0 /\ mem.owner # "none"
             r == [New("set", "get") EXCEPT !.objective = calls + 1,
                 !.retry = IF takes THEN mem.rejections ELSE 0,
                 !.hadTurn = takes /\ mem.claimed]
  <2>1. New("set", "get") \in Task /\ New("set", "get").op = "set"
    BY NewTask DEF Operations, Points
  <2>2. /\ r.op = "set" /\ [r EXCEPT !.at = "barrier"].op = "set"
        /\ [r EXCEPT !.cur = mem.owner # "none", !.owns = mem.owner = "none"].op = "set"
    BY <2>1 DEF Task
  <2>3. \E m : \/ Steps(t, m, [r EXCEPT !.at = "barrier"]) \/ Steps(t, m, r)
              \/ Steps(t, m, [r EXCEPT !.cur = mem.owner # "none", !.owns = mem.owner = "none"])
    BY <1>2, Zenon DEF setGoal, Steps
  <2> HIDE DEF r
  <2> QED
    BY <2>2, <2>3, StepPlain DEF Plain
<1>3. CASE resumeOnOpen(t)
  <2>1. New("open", "get") \in Task /\ New("open", "get").op = "open"
    BY NewTask DEF Operations, Points
  <2>2. Writing(New("open", "get"), "blocked").op = "open"
    BY <2>1, WritingTask DEF Statuses
  <2>3. \E m : Steps(t, m, Writing(New("open", "get"), "blocked")) \/ Steps(t, m, New("open", "get"))
    BY <1>3 DEF resumeOnOpen, Steps
  <2> QED
    BY <2>1, <2>2, <2>3, StepPlain DEF Plain
<1> QED
  BY <1>1, <1>2, <1>3, BeginPlain DEF Commands, pauseGoal, clearGoal, resumeGoal

LEMMA SettingPlain ==
    ASSUME Kinds, NEW t \in Tasks, Setting(t) PROVE PlainStep(t)
<1>1. task[t].op \in {"set", "edit", "create"}
  BY AtReady DEF Setting, SetReady, SetRead, EditHydrated, CreateHydrated, SetWrites, SetSettled,
     SetGivenUp, Waited, Resumed, Owns
<1>2. CASE SetRead(t)
  <2> DEFINE r == [To(t, "hydrate") EXCEPT !.cur = TRUE, !.owns = FALSE]
  <2>1. To(t, "hydrate") \in Task /\ To(t, "hydrate").op = task[t].op
    BY ToTask DEF Kinds, Points
  <2>2. [r EXCEPT !.op = "create"].op = "create" /\ [r EXCEPT !.op = "edit"].op = "edit"
    BY <2>1 DEF Task
  <2>3. \E m : Steps(t, m, [r EXCEPT !.op = "create"]) \/ Steps(t, m, [r EXCEPT !.op = "edit"])
    BY <1>2, Zenon DEF SetRead, Steps
  <2> HIDE DEF r
  <2> QED
    BY <2>2, <2>3, StepPlain DEF Plain
<1>3. CASE SetReady(t) \/ EditHydrated(t) \/ CreateHydrated(t)
  <2>1. \E m : \/ Steps(t, m, To(t, "get")) \/ Steps(t, m, To(t, "barrier")) \/ End(t, m)
    BY <1>3 DEF SetReady, EditHydrated, CreateHydrated, Steps
  <2> QED
    BY <1>1, <2>1, ToPlain, IdlePlain DEF Points
<1>4. CASE SetWrites(t)
  <2>1. \E m : Persist(t, m, "active")
    BY <1>4 DEF SetWrites
  <2> QED
    BY <1>1, <2>1, PersistPlain DEF Statuses
<1>5. CASE SetSettled(t) \/ SetGivenUp(t)
  <2>1. \E m : Steps(t, m, Idle) \/ Steps(t, m, New("fire", "get"))
    BY <1>5 DEF SetSettled, SetGivenUp, Steps
  <2> QED
    BY <2>1, IdlePlain, NewPlain DEF Operations
<1> QED
  BY <1>2, <1>3, <1>4, <1>5 DEF Setting

LEMMA ResumingPlain ==
    ASSUME Kinds, NEW t \in Tasks, Resuming(t) PROVE PlainStep(t)
<1>1. task[t].op \in {"resume", "reauto", "auto", "open", "edit", "create"} /\ task[t] \in Task
  BY AtReady DEF Resuming, ResumeReady, ResumeRead, ReautoRead, ResumeHydrated, ResumeSettled,
     ResumeGivenUp, ResumeFails, Unhydrated, AutoRead, AutoHydrated, AutoNoticed, OwnerGivenUp,
     Waited, Resumed, Owns, ResumeOps, Kinds
<1>2. ASSUME NEW m, NEW r, r.op \in {"resume", "reauto"}, r \in Task,
             Steps(t, Proceeds(t, m, r)[1], Proceeds(t, m, r)[2])
      PROVE  PlainStep(t)
  <2>1. Writing(r, "active").op = r.op
    BY <1>2, WritingTask DEF Statuses
  <2>2. [r EXCEPT !.at = "hydrate", !.resets = Limited(row)].op = r.op
    BY <1>2 DEF Task
  <2>3. Proceeds(t, m, r)[2].op = r.op
    BY <2>1, <2>2 DEF Proceeds
  <2> QED
    BY <1>2, <2>3, StepPlain DEF Plain
<1>3. ASSUME NEW limited, Defer(t, limited) PROVE PlainStep(t)
  <2>1. \E m : Steps(t, m, Idle)
    BY <1>3 DEF Defer, Steps
  <2> QED
    BY <2>1, IdlePlain
<1>4. ASSUME NEW owns, GiveUpResume(t, owns) PROVE PlainStep(t)
  <2>1. \E m : Steps(t, m, Idle)
    BY <1>4 DEF GiveUpResume, Steps
  <2> QED
    BY <2>1, IdlePlain
<1>5. CASE ResumeRead(t)
  <2> DEFINE q == [task[t] EXCEPT !.owns = TRUE]
  <2>1. task[t].op = "resume"
    BY <1>5, AtReady DEF ResumeRead, Resumed
  <2>2. q \in Task
    BY <1>1, Zenon DEF Task
  <2>3. q.op = "resume"
    BY <1>1, <2>1 DEF Task
  <2>4. \/ \E m : Steps(t, m, Idle)
        \/ Defer(t, Limited(row))
        \/ \E m : Steps(t, Proceeds(t, m, q)[1], Proceeds(t, m, q)[2])
        \/ \E m : Steps(t, Proceeds(t, m, task[t])[1], Proceeds(t, m, task[t])[2])
    BY <1>5, Zenon DEF ResumeRead, Steps
  <2> HIDE DEF q
  <2> QED
    BY <1>1, <1>2, <1>3, <2>1, <2>2, <2>3, <2>4, IdlePlain
<1>6. CASE ReautoRead(t)
  <2>1. task[t].op = "reauto"
    BY <1>6, AtReady DEF ReautoRead, Resumed
  <2>2. \/ \E m : Steps(t, m, Idle)
        \/ \E m : Steps(t, Proceeds(t, m, task[t])[1], Proceeds(t, m, task[t])[2])
    BY <1>6 DEF ReautoRead, Steps
  <2> QED
    BY <1>1, <1>2, <2>1, <2>2, IdlePlain
<1>7. CASE ResumeHydrated(t) \/ Unhydrated(t)
  <2>1. \/ Defer(t, task[t].resets)
        \/ \E m, s : s \in {"active", "blocked"} /\ Persist(t, m, s)
    BY <1>7 DEF ResumeHydrated, Unhydrated
  <2> QED
    BY <1>1, <1>3, <2>1, PersistPlain DEF Statuses
<1>8. CASE ResumeReady(t) \/ AutoRead(t) \/ AutoHydrated(t) \/ AutoNoticed(t)
  <2>1. \E m : \/ Steps(t, m, Idle) \/ Steps(t, m, New("reauto", "barrier"))
              \/ Steps(t, m, To(t, "get")) \/ Steps(t, m, To(t, "hydrate")) \/ Steps(t, m, To(t, "notice"))
    BY <1>8 DEF ResumeReady, AutoRead, AutoHydrated, AutoNoticed, Steps
  <2> QED
    BY <1>1, <2>1, IdlePlain, NewPlain, ToPlain DEF Operations, Points
<1>9. CASE ResumeSettled(t) \/ OwnerGivenUp(t)
  <2>1. \E m : Steps(t, m, Idle) \/ Steps(t, m, New("fire", "get"))
    BY <1>9 DEF ResumeSettled, OwnerGivenUp, Steps
  <2> QED
    BY <2>1, IdlePlain, NewPlain DEF Operations
<1> QED
  BY <1>4, <1>5, <1>6, <1>7, <1>8, <1>9 DEF Resuming, ResumeGivenUp, ResumeFails

LEMMA TimersPlain ==
    ASSUME Kinds, NEW t \in Tasks, Timers(t) PROVE PlainStep(t)
<1>1. CASE ContinuationFires(t) \/ autoResumeFromUsageLimit(t)
  <2>1. \E m : Steps(t, m, Idle) \/ Steps(t, m, New("fire", "get")) \/ Steps(t, m, New("auto", "get"))
    BY <1>1 DEF ContinuationFires, autoResumeFromUsageLimit, Steps
  <2> QED
    BY <2>1, IdlePlain, NewPlain DEF Operations
<1> QED
  BY <1>1, BeginPlain DEF Timers, DeferredResumeFires

LEMMA OpeningPlain ==
    ASSUME Kinds, NEW t \in Tasks, Opening(t) PROVE PlainStep(t)
<1>1. CASE OpenRead(t)
  <2>1. /\ task[t].op = "open"
        /\ \E m : Steps(t, m, Idle) \/ Steps(t, m, To(t, "hydrate"))
    BY <1>1, AtReady DEF OpenRead, Resumed, Steps
  <2> QED
    BY <2>1, IdlePlain, ToPlain DEF Points
<1>2. CASE ~OpenRead(t)
  <2>1. \E m : Steps(t, m, Idle) \/ Steps(t, m, New("fire", "get")) \/ Steps(t, m, New("idle", "get"))
    BY <1>2 DEF Opening, OpenHydrated, resumeActiveGoals, IdleObserved, maybeContinueActiveGoal, Steps
  <2> QED
    BY <2>1, IdlePlain, NewPlain DEF Operations
<1> QED
  BY <1>1, <1>2

LEMMA ReadFailsPlain ==
    ASSUME Kinds, NEW t \in Tasks, ReadFails(t) PROVE PlainStep(t)
  BY IdlePlain DEF ReadFails, Steps

\* The statement of a finalizer adds no turn that a pending dispatch has not.
LEMMA WriteBudget ==
    ASSUME Kinds, BudgetInv, NEW t \in Tasks, Write(t) \/ WriteFails(t) PROVE BudgetInv'
<1>1. task[t].at = "write" /\ session' = session /\ row' \in {row, Applied(t)}
  BY AtReady DEF Write, WriteFails
<1>2. PICK at \in {"wrote", "failed"} : Steps(t, mem, To(t, at))
  BY DEF Write, WriteFails, Steps
<1>3. /\ Goes(t, To(t, at)) /\ To(t, at).op = task[t].op /\ To(t, at).at = at
      /\ To(t, at).used = task[t].used
  <2>1. task[t] \in Task
    BY DEF Kinds
  <2>2. To(t, at).used = task[t].used
    BY <2>1 DEF To, Task
  <2> QED
    BY <1>2, <2>2, StepGoes, ToTask DEF Kinds, Points
<1>4. \A u \in Tasks : /\ task'[u].op = task[u].op
                       /\ Uncut(task'[u]) => Uncut(task[u])
                       /\ Harmless(task[u]) => Harmless(task'[u])
  BY <1>1, <1>3 DEF Goes, SameWork, Uncut, Harmless, Dispatching
<1>5. ASSUME Harmless(task[t]), row # None => row.used < MaxTurns, row' # None
      PROVE  row'.used < MaxTurns
  <2>1. MaxTurns > 0
    BY GoalAssumption
  <2> QED
    BY <1>1, <1>5, <2>1 DEF Applied, Harmless
<1> QED
  BY <1>1, <1>4, <1>5 DEF BudgetInv

\* A dispatch begins when the session is idle, hence no turn is being counted.
LEMMA FiringBudget ==
    ASSUME Kinds, BudgetInv, row \in Row \cup {None}, NEW t \in Tasks, Firing(t) PROVE BudgetInv'
<1>1. task[t].op = "fire"
  BY AtReady DEF Firing, FireRead, FireHydrated, FirePrepared, onDispatching, NotAccepted,
     ProviderRejects, Accepted, FireFails, BudgetSettled, Resumed, Owns
<1>2. \A u \in Tasks : Uncut(task[u]) => mem.firing = u
  BY DEF Kinds, CutOrFiring, Uncut
<1>3. ASSUME PlainStep(t), row' = row, session' = session PROVE BudgetInv'
  BY <1>3, PlainBudget DEF PlainStep
<1>4. ASSUME \A u \in Tasks : task[u].op # "final", NEW r, Goes(t, r), r.op = "fire",
             \A u \in Tasks \ {t} : ~Uncut(task[u]), row' = row,
             Uncut(r) => session' \notin {"dispatching", "goal"} /\ (row # None => row.used < MaxTurns)
      PROVE  BudgetInv'
  <2>1. \A u \in Tasks : task'[u].op # "final"
    BY <1>4 DEF Goes, SameWork
  <2>2. \A u \in Tasks \ {t} : ~Uncut(task'[u])
    BY <1>4 DEF Goes, SameWork, Uncut
  <2>3. task'[t] = r
    BY <1>4 DEF Goes
  <2> QED
    BY <1>4, <2>1, <2>2, <2>3 DEF BudgetInv, Harmless
<1>5. CASE FireRead(t)
  <2>1. CASE \E m : Steps(t, m, Idle) \/ End(t, m) \/ Persist(t, m, "budgetLimited")
    BY <1>1, <1>3, <1>5, <2>1, IdlePlain, PersistPlain DEF FireRead, EnvUnchanged, Statuses
  <2>2. CASE ~exceedsGoalBudget(row) /\ ~isBusy(mem) /\ \E m : Steps(t, m, To(t, "hydrate"))
    <3>1. \A u \in Tasks : task[u].op # "final" /\ ~Uncut(task[u])
      BY <1>2, <2>2, GoalAssumption DEF isBusy, BudgetInv
    <3>2. session' = "idle" /\ row' = row
      BY <1>5, <2>2 DEF FireRead, EnvUnchanged, isBusy
    <3>3. row # None => row.used < MaxTurns
      BY <2>2, GoalAssumption DEF exceedsGoalBudget, Row
    <3>4. Goes(t, To(t, "hydrate")) /\ To(t, "hydrate").op = "fire"
      BY <1>1, <2>2, StepGoes, ToTask DEF Kinds, Points
    <3> QED
      BY <1>4, <3>1, <3>2, <3>3, <3>4
  <2> QED
    BY <1>5, <2>1, <2>2 DEF FireRead, Steps
<1>6. CASE FireHydrated(t) \/ FirePrepared(t)
  <2>1. PICK at \in {"prepare", "gate"} : \E m : Steps(t, m, To(t, at))
    BY <1>6 DEF FireHydrated, FirePrepared, Steps
  <2>2. task[t].at \in {"hydrate", "prepare"}
    BY <1>6, AtReady DEF FireHydrated, FirePrepared, Resumed
  <2>3. /\ Goes(t, To(t, at)) /\ To(t, at).op = "fire" /\ To(t, at).cut = task[t].cut
    BY <1>1, <2>1, StepGoes, ToTask DEF Kinds, Points
  <2>4. row' = row /\ session' = session
    BY <1>6 DEF FireHydrated, FirePrepared, EnvUnchanged, Ensured
  <2>5. \A u \in Tasks : /\ task'[u].op = "final" => task[u].op = "final"
                         /\ Uncut(task'[u]) => Uncut(task[u])
                         /\ Harmless(task[u]) => Harmless(task'[u])
    BY <1>1, <2>2, <2>3 DEF Goes, SameWork, Uncut, Harmless, Dispatching
  <2> QED
    BY <2>4, <2>5 DEF BudgetInv
<1>7. CASE onDispatching(t)
  <2>1. task[t].at = "gate" /\ ~task[t].cut /\ session = "idle" /\ row' = row
    BY <1>7, AtReady DEF onDispatching
  <2>2. \A u \in Tasks : task[u].op # "final" /\ (u # t => ~Uncut(task[u]))
    <3>1. Uncut(task[t])
      BY <1>1, <2>1 DEF Uncut, Dispatching
    <3> QED
      BY <1>2, <2>1, <3>1 DEF BudgetInv
  <2>3. \E m : Steps(t, m, To(t, "sent"))
    BY <1>7 DEF onDispatching, Steps
  <2>4. Goes(t, To(t, "sent")) /\ To(t, "sent").op = "fire" /\ To(t, "sent").at = "sent"
    BY <1>1, <2>3, StepGoes, ToTask DEF Kinds, Points
  <2> QED
    BY <1>4, <2>1, <2>2, <2>4 DEF Uncut, Dispatching
<1>8. CASE NotAccepted(t) \/ Accepted(t) \/ BudgetSettled(t)
  <2>1. \E m : Steps(t, m, Idle) \/ End(t, m)
    BY <1>8 DEF NotAccepted, Accepted, BudgetSettled, Steps
  <2> QED
    BY <1>3, <1>8, <2>1, IdlePlain DEF NotAccepted, Accepted, BudgetSettled, EnvUnchanged
<1>9. CASE ProviderRejects(t) \/ FireFails(t)
  <2>1. \E m : End(t, m) \/ Persist(t, m, "blocked")
    BY <1>9 DEF ProviderRejects, FireFails
  <2>2. PlainStep(t) /\ row' = row
    BY <1>1, <1>9, <2>1, IdlePlain, PersistPlain DEF Statuses, ProviderRejects, FireFails
  <2>3. session' = session \/ (session = "dispatching" /\ session' = "idle")
    BY <1>9 DEF ProviderRejects, FireFails
  <2>4. CASE session = "dispatching" /\ session' = "idle"
    <3>1. \A u \in Tasks : task[u].op # "final" /\ ~Uncut(task[u])
      BY <2>4 DEF BudgetInv
    <3>2. \A u \in Tasks : task'[u].op # "final" /\ ~Uncut(task'[u])
      BY <2>2, <3>1 DEF PlainStep, Goes, Plain, SameWork, Uncut
    <3> QED
      BY <3>2 DEF BudgetInv
  <2> QED
    BY <1>3, <2>2, <2>3, <2>4
<1> QED
  BY <1>5, <1>6, <1>7, <1>8, <1>9 DEF Firing

\* While a dispatch is pending, the turn that is being counted was the user's own.
LEMMA FinalizingBudget ==
    ASSUME Kinds, BudgetInv, row \in Row \cup {None}, NEW t \in Tasks, Finalizing(t)
    PROVE  BudgetInv'
<1>1. task[t].op = "final" /\ session = "settling" /\ task[t] \in Task
  BY AtReady DEF Finalizing, FinalRead, FinalLimited, FinalRecorded, FinalSettled, Resumed, Owns,
     BudgetInv, Kinds
<1>2. row' = row /\ session' = session
  BY DEF Finalizing, FinalRead, FinalLimited, FinalRecorded, FinalSettled, EnvUnchanged
<1>3. ASSUME PlainStep(t) PROVE BudgetInv'
  BY <1>2, <1>3, PlainBudget DEF PlainStep
<1>4. ASSUME NEW r, Goes(t, r), r.op = "final",
             Harmless(task[t]) /\ (row # None => row.used < MaxTurns) => Harmless(r)
      PROVE  BudgetInv'
  <2>1. \A u \in Tasks : /\ Uncut(task'[u]) => Uncut(task[u])
                         /\ u # t => (Harmless(task[u]) => Harmless(task'[u]))
    BY <1>4 DEF Goes, SameWork, Uncut, Harmless
  <2>2. task'[t] = r
    BY <1>4 DEF Goes
  <2> QED
    BY <1>1, <1>2, <1>4, <2>1, <2>2 DEF BudgetInv
<1>5. CASE FinalRead(t)
  <2> DEFINE d == Decision(task[t].put)
             r == [task[t] EXCEPT !.put = d.status, !.used = d.used, !.objective = row.objective]
  <2>1. task[t].at = "get"
    BY <1>5, AtReady DEF FinalRead, Resumed
  <2>2. CASE row = None \/ row.status # "active"
    <3>1. \E m : Steps(t, m, Idle)
      BY <1>5, <2>2 DEF FinalRead, Steps
    <3> QED
      BY <1>3, <3>1, IdlePlain
  <2>3. CASE row # None /\ row.status = "active"
    <3>1. \/ \E m : Steps(t, m, [r EXCEPT !.at = "record"])
          \/ \E m : Steps(t, m, [r EXCEPT !.at = "limit"])
          \/ \E m : Steps(t, m, Writing([r EXCEPT !.resets = TRUE], d.status))
          \/ \E m : Steps(t, m, Writing(r, d.status))
      BY <1>5, <2>3, Zenon DEF FinalRead, Steps
    <3>2. Harmless(task[t]) /\ row.used < MaxTurns => d.used < MaxTurns
      BY <1>1, <2>1 DEF Harmless, Decision
    <3> HIDE DEF d
    <3>3. \A q \in {[r EXCEPT !.at = "record"], [r EXCEPT !.at = "limit"],
                    Writing([r EXCEPT !.resets = TRUE], d.status), Writing(r, d.status)} :
             q.op = "final" /\ q.used = d.used /\ q.at # "get"
      BY <1>1 DEF Writing, Task
    <3> HIDE DEF r
    <3>4. PICK q \in {[r EXCEPT !.at = "record"], [r EXCEPT !.at = "limit"],
                     Writing([r EXCEPT !.resets = TRUE], d.status), Writing(r, d.status)} :
             \E m : Steps(t, m, q)
      BY <3>1
    <3>5. Harmless(task[t]) /\ (row # None => row.used < MaxTurns) => Harmless(q)
      BY <2>3, <3>2, <3>3 DEF Harmless
    <3> QED
      BY <1>4, <3>3, <3>4, <3>5, StepGoes
  <2> QED
    BY <2>2, <2>3
<1>6. CASE FinalLimited(t)
  <2>1. PICK resets \in BOOLEAN, s \in {"usageLimited", "active"} :
           \E m : Steps(t, m, Writing([task[t] EXCEPT !.resets = resets], s))
    BY <1>6 DEF FinalLimited, Steps
  <2> DEFINE q == Writing([task[t] EXCEPT !.resets = resets], s)
  <2>2. q.op = "final" /\ q.used = task[t].used /\ q.at = "write"
    BY <1>1 DEF Writing, Task
  <2>3. task[t].at = "limit"
    BY <1>6, AtReady DEF FinalLimited, Resumed
  <2> HIDE DEF q
  <2>4. Goes(t, q)
    BY <2>1, StepGoes DEF q
  <2> QED
    BY <1>1, <1>4, <2>2, <2>3, <2>4 DEF Harmless
<1>7. CASE FinalRecorded(t)
  <2> DEFINE q == Writing(task[t], "delete")
  <2>1. q.op = "final" /\ q.used = task[t].used /\ q.at = "write"
    BY <1>1 DEF Writing, Task
  <2>2. task[t].at = "record" /\ \E m : Steps(t, m, q)
    BY <1>7, AtReady DEF FinalRecorded, Steps
  <2> HIDE DEF q
  <2> QED
    BY <1>1, <1>4, <2>1, <2>2, StepGoes DEF Harmless
<1>8. CASE FinalSettled(t)
  <2>1. \E m : Steps(t, m, Idle) \/ End(t, m)
    BY <1>8 DEF FinalSettled, Steps
  <2> QED
    BY <1>3, <2>1, IdlePlain
<1> QED
  BY <1>5, <1>6, <1>7, <1>8 DEF Finalizing

\* No dispatch is pending when a turn of the goal ends.
LEMMA TurnEndsBudget ==
    ASSUME Kinds, BudgetInv, NEW t \in Tasks, NEW verdict \in Verdicts, TurnEnds(t, verdict)
    PROVE  BudgetInv'
<1> DEFINE r == [New("final", "get") EXCEPT !.put = verdict]
<1>1. /\ session \in {"goal", "user"} /\ session' = "settling" /\ row' = row
      /\ (verdict = "other") = (session = "user")
  BY DEF TurnEnds
<1>2. /\ \A u \in Tasks : task[u].op # "final"
      /\ \A u \in Tasks : Uncut(task[u]) => /\ session = "user"
                                            /\ (row # None => row.used < MaxTurns)
  BY <1>1 DEF BudgetInv
<1>3. r.op = "final" /\ r.at = "get" /\ r.put = verdict
  <2>1. New("final", "get") \in Task /\ New("final", "get").op = "final" /\ New("final", "get").at = "get"
    BY NewTask DEF Operations, Points
  <2> QED
    BY <2>1 DEF Task
<1> HIDE DEF r
<1>4. \/ UNCHANGED task
      \/ \E m : Steps(t, m, Idle)
      \/ \E m : Steps(t, m, r)
  BY Zenon DEF TurnEnds, Steps, r
<1>5. UNCHANGED task \/ Goes(t, Idle) \/ Goes(t, r)
  BY <1>4, StepGoes
<1>6. \A u \in Tasks : /\ Uncut(task'[u]) => Uncut(task[u])
                       /\ session = "user" => Harmless(task'[u])
  BY <1>1, <1>2, <1>3, <1>5, IdleTask DEF Goes, SameWork, Uncut, Harmless
<1> QED
  BY <1>1, <1>2, <1>6 DEF BudgetInv

\* The fallback continuation waits for the finalizer of the turn: the timer of
\* notifyGoalIdleAfterTurnSettled is later than the answers the finalizer needs.
LEMMA BudgetStep ==
    ASSUME Prompt, Kinds, Surroundings, BudgetInv, [Next]_vars PROVE BudgetInv'
<1>1. row \in Row \cup {None} /\ calls \in 0 .. MaxCalls
  BY DEF Surroundings
<1>2. ASSUME NEW t \in Tasks, PlainStep(t), row' = row, session' = session PROVE BudgetInv'
  BY <1>2, PlainBudget DEF PlainStep
<1>3. ASSUME NEW t \in Tasks, Commands(t) \/ Stopping(t) \/ Setting(t) \/ ReadFails(t)
      PROVE  BudgetInv'
  <2>1. PlainStep(t)
    BY <1>1, <1>3, CommandsPlain, StoppingPlain, SettingPlain, ReadFailsPlain
  <2>2. row' = row /\ session' = session
    BY <1>3 DEF EnvUnchanged, Ensured, Fault, ReadFails,
       Commands, pauseGoal, clearGoal, setGoal, resumeGoal, resumeOnOpen, CallUnchanged,
       Stopping, PauseReady, PauseRead, ClearReady, StopSettled,
       Setting, SetReady, SetRead, EditHydrated, CreateHydrated, SetWrites, SetSettled, SetGivenUp
  <2> QED
    BY <1>2, <2>1, <2>2
<1>4. ASSUME NEW t \in Tasks, Resuming(t) \/ Timers(t) \/ Ending(t) PROVE BudgetInv'
  <2>1. PlainStep(t)
    BY <1>4, ResumingPlain, TimersPlain, EndingPlain
  <2>2. row' = row /\ session' = session
    BY <1>4 DEF EnvUnchanged, Ensured, Fault,
       Resuming, ResumeReady, ResumeRead, ReautoRead, ResumeHydrated, ResumeSettled, ResumeGivenUp,
       ResumeFails, Unhydrated, AutoRead, AutoHydrated, AutoNoticed, OwnerGivenUp,
       Timers, ContinuationFires, DeferredResumeFires, autoResumeFromUsageLimit,
       Ending, Superseded, BlockSettled, LateSettled
  <2> QED
    BY <1>2, <2>1, <2>2
<1>5. ASSUME NEW t \in Tasks, Opening(t) PROVE BudgetInv'
  <2>1. PlainStep(t)
    BY <1>5, OpeningPlain
  <2>2. CASE IdleObserved(t)
    <3>1. session' = "idle" /\ row' = row /\ \A u \in Tasks : task[u].op # "final"
      BY <2>2 DEF IdleObserved
    <3>2. \A u \in Tasks : task'[u].op # "final" /\ (Uncut(task'[u]) => Uncut(task[u]))
      BY <2>1, <3>1 DEF PlainStep, Goes, Plain, SameWork, Uncut
    <3> QED
      BY <3>1, <3>2 DEF BudgetInv, Harmless
  <2>3. CASE ~IdleObserved(t)
    <3>1. row' = row /\ session' = session
      BY <1>5, <2>3 DEF EnvUnchanged, Ensured, Opening, OpenRead, OpenHydrated, resumeActiveGoals,
         maybeContinueActiveGoal
    <3> QED
      BY <1>2, <2>1, <3>1
  <2> QED
    BY <2>2, <2>3
<1>6. CASE UNCHANGED vars
  BY <1>6 DEF vars, BudgetInv
<1>7. CASE UserTurn \/ TurnAccepted
  <2>1. row' = row /\ task' = task
    BY <1>7 DEF UserTurn, TurnAccepted
  <2>2. \/ session = "idle" /\ session' = "user"
        \/ session = "dispatching" /\ session' = "goal"
    BY <1>7 DEF UserTurn, TurnAccepted
  <2> QED
    BY <2>1, <2>2 DEF BudgetInv
<1> QED
  BY <1>1, <1>3, <1>4, <1>5, <1>6, <1>7, WriteBudget, FiringBudget, FinalizingBudget, TurnEndsBudget
     DEF Next, Storage

\* No turn is handed to the agent (onDispatching) once the stored goal has used
\* maxTurns, however finalizers, retries and resumes overlap: a dispatch that read
\* the budget before another turn was counted is cut off or refused.
THEOREM BudgetHolds == ASSUME Prompt PROVE Spec => WithinBudget
<1>1. Init => Kinds /\ Surroundings /\ BudgetInv
  <2> SUFFICES ASSUME Init PROVE BudgetInv
    BY InitKinds
  <2>1. \A u \in Tasks : task[u].op \in {"boot", "none"}
    BY NewTask, IdleTask DEF Init, Operations, Points
  <2> QED
    BY <2>1 DEF BudgetInv, Uncut
<1>2. Kinds /\ Surroundings /\ BudgetInv /\ [Next]_vars => (Kinds /\ Surroundings /\ BudgetInv)'
  BY KindsStep, SurroundingsStep, BudgetStep
<1>3. Kinds /\ Surroundings /\ BudgetInv /\ [Next]_vars
        => (session = "idle" /\ session' = "dispatching" => row = None \/ row.used < MaxTurns)
  <2> SUFFICES ASSUME BudgetInv, NEW t \in Tasks, onDispatching(t)
               PROVE  row = None \/ row.used < MaxTurns
    BY OnlyOnDispatching
  <2>1. Uncut(task[t])
    BY AtReady DEF onDispatching, Uncut, Dispatching
  <2> QED
    BY <2>1 DEF BudgetInv
<1> QED
  BY <1>1, <1>2, <1>3, PTL DEF Spec, WithinBudget
-----------------------------------------------------------------------------
(* The objectives in the order the user gave them *)

\* Operations that give the goal an objective or take it away.
Carrier(r) == r.op \in {"set", "edit", "create", "clear"}
Setter(r) == r.op \in {"set", "edit", "create"}

\* Statements that write an objective, and that of clearGoal.
SetWrite(r) == r.at = "write" /\ (r.op = "create" \/ (r.op = "edit" /\ r.put = "active"))
ClearWrite(r) == r.op = "clear" /\ r.at = "write"

\* An operation that comes to its statement unless its owner is replaced, and one
\* that has replaced the owners of all the others.
Early(r) == r.at \notin Written /\ (r.cur \/ SetOwns(r))
Committed(r) == \/ r.op = "create" /\ r.at \in {"hydrate", "barrier", "write"}
                \/ r.op = "edit" /\ r.at = "barrier"
                \/ SetWrite(r)

\* Nothing after objective n is stored or bound to be.
Newest(n) ==
    /\ row # None => row.objective <= n
    /\ \A u \in Tasks : Committed(task[u]) => task[u].objective <= n

OrderInv ==
    /\ row # None => row.objective <= calls
    /\ \A t \in Tasks : Carrier(task[t]) => task[t].objective <= calls
    /\ \A t \in Tasks : Carrier(task[t]) /\ Early(task[t]) => Newest(task[t].objective)
    \* A setGoal that found no owner is overtaken by a later one only at the storage.
    /\ \A u, v \in Tasks :
          SetOwns(task[v]) /\ Setter(task[u]) /\ task[u].objective > task[v].objective
             => task[u].op = "set" /\ (task[u].at = "get" => Before(v, u))
    /\ \A t \in Tasks : (SetWrite(task[t]) \/ ClearWrite(task[t])) /\ row # None
                           => row.objective <= task[t].objective
    /\ \A u, v \in Tasks :
          SetWrite(task[u]) /\ (SetWrite(task[v]) \/ ClearWrite(task[v])) /\ Before(u, v)
             => task[u].objective <= task[v].objective

\* The others stay in their order, and t is last if it calls the storage.
LEMMA QueueKeeps ==
    ASSUME Queued, task \in [Tasks -> Task], NEW t \in Tasks, NEW m, NEW r \in Task, NEW losers,
           Step(t, m, r, losers), Ready(t)
    PROVE  /\ \A u, v \in Tasks \ {t} : Before(u, v) => Before(u, v)'
           /\ r.at \in Storing => \A u \in Tasks \ {t} : task[u].at \in Storing => Before(u, t)'
<1> DEFINE s == Served(t)
<1>1. PICK d \in {0, 1} :
         /\ s \in Seq(Tasks) /\ Len(queue) = Len(s) + d
         /\ \A i \in 1 .. Len(s) : s[i] = queue[i + d] /\ s[i] # t
         /\ d = 1 => queue[1] = t
         /\ d = 0 => \A i \in 1 .. Len(queue) : queue[i] # t
  BY ServedQueue DEF Ready
<1>2. queue' = IF r.at \in Storing THEN Append(s, t) ELSE s
  BY DEF Step, Storing
<1> HIDE DEF s
<1>3. /\ \A i \in 1 .. Len(s) : i \in DOMAIN queue' /\ queue'[i] = s[i]
      /\ r.at \in Storing => Len(s) + 1 \in DOMAIN queue' /\ queue'[Len(s) + 1] = t
  BY <1>1, <1>2
<1>4. \A i \in DOMAIN queue : queue[i] # t => i - d \in 1 .. Len(s) /\ s[i - d] = queue[i]
  <2> SUFFICES ASSUME NEW i \in DOMAIN queue, queue[i] # t
               PROVE  i - d \in 1 .. Len(s) /\ s[i - d] = queue[i]
    OBVIOUS
  <2>1. i \in 1 .. Len(queue) /\ Len(queue) \in Nat /\ Len(s) \in Nat
    BY <1>1 DEF Queued
  <2>2. i - d \in 1 .. Len(s) /\ (i - d) + d = i
    BY <1>1, <2>1
  <2> QED
    BY <1>1, <2>2
<1>5. ASSUME NEW u \in Tasks \ {t}, NEW v \in Tasks \ {t}, Before(u, v) PROVE Before(u, v)'
  <2>1. PICK i, j \in DOMAIN queue : i < j /\ queue[i] = u /\ queue[j] = v
    BY <1>5 DEF Before
  <2>2. /\ i - d \in 1 .. Len(s) /\ s[i - d] = u /\ j - d \in 1 .. Len(s) /\ s[j - d] = v
        /\ i - d < j - d
    BY <1>4, <2>1 DEF Queued
  <2> QED
    BY <1>3, <2>2 DEF Before
<1>6. ASSUME r.at \in Storing, NEW u \in Tasks \ {t}, task[u].at \in Storing PROVE Before(u, t)'
  <2>1. PICK i \in DOMAIN queue : queue[i] = u
    BY <1>6 DEF Queued
  <2>2. i - d \in 1 .. Len(s) /\ s[i - d] = u
    BY <1>4, <2>1
  <2>3. i - d < Len(s) + 1
    BY <1>1, <2>2
  <2> QED
    BY <1>3, <1>6, <2>2, <2>3 DEF Before
<1> QED
  BY <1>5, <1>6

LEMMA AnsweredNotAfter ==
    ASSUME Queued, NEW t \in Tasks, NEW u \in Tasks, Answered(t) PROVE ~Before(u, t)
<1>1. 1 \in DOMAIN queue /\ queue[1] = t
  BY DEF Answered, Queued
<1> QED
  BY <1>1 DEF Before, Queued

\* A step of t, and what it does to the order of the storage's answers.
Moves(t) ==
    /\ task' \in [Tasks -> Task]
    /\ \A u \in Tasks \ {t} : SameWork(task'[u], task[u])
    /\ \A u, v \in Tasks : Before(u, v)' => u # t /\ (v = t \/ Before(u, v))
    /\ \A u, v \in Tasks \ {t} : Before(u, v) => Before(u, v)'
    /\ task'[t].at \in Storing => \A u \in Tasks \ {t} : task[u].at \in Storing => Before(u, t)'

LEMMA StepsMove ==
    ASSUME Kinds, Kinds', NEW t \in Tasks, NEW m, NEW r, Steps(t, m, r), Ready(t)
    PROVE  Moves(t) /\ task'[t] = r
<1>1. PICK n, losers : Step(t, n, r, losers)
  BY DEF Steps, Keep, Renew, Replace
<1>2. task'[t] = r /\ \A u \in Tasks \ {t} : SameWork(task'[u], task[u])
  BY <1>1, OthersStep DEF Kinds
<1>3. r \in Task /\ task' \in [Tasks -> Task]
  BY <1>2 DEF Kinds
<1>4. \A u, v \in Tasks : Before(u, v)' => u # t /\ (v = t \/ Before(u, v))
  BY <1>1, <1>3, QueueStep DEF Kinds, Ready
<1>5. /\ \A u, v \in Tasks \ {t} : Before(u, v) => Before(u, v)'
      /\ r.at \in Storing => \A u \in Tasks \ {t} : task[u].at \in Storing => Before(u, t)'
  BY <1>1, <1>3, QueueKeeps DEF Kinds
<1> QED
  BY <1>2, <1>3, <1>4, <1>5 DEF Moves

\* What holds of a step that leaves the row alone.
LEMMA OrderStep ==
    ASSUME Kinds, Surroundings, Surroundings', OrderInv, NEW t \in Tasks, Moves(t),
           row' = row, calls <= calls',
           LET r == task'[t] IN
           /\ Carrier(r) => r.objective <= calls'
           /\ Carrier(r) /\ (Early(r) \/ SetWrite(r) \/ ClearWrite(r)) => Newest(r.objective)
           /\ SetOwns(r) => \A u \in Tasks : Setter(task[u]) => task[u].objective <= r.objective
           /\ Setter(r) /\ (\E v \in Tasks : SetOwns(task[v]) /\ r.objective > task[v].objective)
                 => r.op = "set"
           /\ Committed(r) => \A v \in Tasks \ {t} : Carrier(task[v]) /\ Early(task'[v])
                                  => r.objective <= task[v].objective
    PROVE  OrderInv'
<1> DEFINE r == task'[t]
<1>1. /\ \A u \in Tasks : task[u].objective \in Nat /\ task'[u].objective \in Nat
      /\ calls \in Nat /\ calls' \in Nat /\ (row # None => row.objective \in Nat)
  <2>1. 0 .. MaxCalls \subseteq Nat
    BY GoalAssumption
  <2> QED
    BY <2>1 DEF Kinds, Surroundings, Moves, Task, Row
<1>2. \A u \in Tasks \ {t} :
         /\ task'[u].objective = task[u].objective /\ task'[u].op = task[u].op /\ task'[u].at = task[u].at
         /\ (Carrier(task'[u]) = Carrier(task[u])) /\ (Setter(task'[u]) = Setter(task[u]))
         /\ (SetWrite(task'[u]) = SetWrite(task[u])) /\ (ClearWrite(task'[u]) = ClearWrite(task[u]))
         /\ (SetOwns(task'[u]) = SetOwns(task[u])) /\ (Committed(task'[u]) = Committed(task[u]))
         /\ (Early(task'[u]) => Early(task[u]))
  <2> TAKE u \in Tasks \ {t}
  <2>1. SameWork(task'[u], task[u])
    BY DEF Moves
  <2> QED
    BY <2>1 DEF SameWork, Carrier, Setter, SetWrite, ClearWrite, SetOwns, Committed, Early
<1>3. \A q : /\ SetWrite(q) => Committed(q) /\ Setter(q)
             /\ SetOwns(q) => q.at = "get" /\ q.op = "set"
             /\ Setter(q) => Carrier(q)
  BY DEF SetWrite, Committed, Setter, SetOwns, Carrier
<1>4. \A u \in Tasks \ {t} : Carrier(task'[u]) /\ Early(task'[u]) => Newest(task[u].objective)'
  <2> SUFFICES ASSUME NEW u \in Tasks \ {t}, Carrier(task'[u]), Early(task'[u])
               PROVE  Newest(task[u].objective)'
    OBVIOUS
  <2>1. Newest(task[u].objective) /\ Carrier(task[u])
    BY <1>2 DEF OrderInv
  <2>2. Committed(task'[t]) => task'[t].objective <= task[u].objective
    BY <2>1
  <2> QED
    BY <1>2, <2>1, <2>2 DEF Newest
<1>5. Newest(r.objective) => Newest(task[t].objective)'
  BY <1>1, <1>2 DEF Newest
<1>6. \A u, v \in Tasks :
         SetOwns(task'[v]) /\ Setter(task'[u]) /\ task'[u].objective > task'[v].objective
            => task'[u].op = "set" /\ (task'[u].at = "get" => Before(v, u)')
  <2> SUFFICES ASSUME NEW u \in Tasks, NEW v \in Tasks, SetOwns(task'[v]), Setter(task'[u]),
                      task'[u].objective > task'[v].objective
               PROVE  task'[u].op = "set" /\ (task'[u].at = "get" => Before(v, u)')
    OBVIOUS
  <2>1. u # v
    BY <1>1
  <2>2. CASE v = t
    BY <1>1, <1>2, <2>1, <2>2
  <2>3. CASE u = t
    <3>1. v \in Tasks \ {t} /\ SetOwns(task[v]) /\ r.objective > task[v].objective
      BY <1>2, <2>1, <2>3
    <3>2. r.op = "set"
      BY <2>3, <3>1
    <3>3. task[v].at \in Storing
      BY <1>3, <3>1 DEF Storing
    <3> QED
      BY <2>3, <3>1, <3>2, <3>3 DEF Moves, Storing
  <2>4. CASE u # t /\ v # t
    BY <1>2, <2>4 DEF OrderInv, Moves
  <2> QED
    BY <2>2, <2>3, <2>4
<1>7. \A u \in Tasks : (SetWrite(task'[u]) \/ ClearWrite(task'[u])) /\ row # None
                          => row.objective <= task'[u].objective
  BY <1>2, <1>3 DEF OrderInv, Newest, ClearWrite, Carrier
<1>8. \A u, v \in Tasks :
         SetWrite(task'[u]) /\ (SetWrite(task'[v]) \/ ClearWrite(task'[v])) /\ Before(u, v)'
            => task'[u].objective <= task'[v].objective
  <2> SUFFICES ASSUME NEW u \in Tasks, NEW v \in Tasks, SetWrite(task'[u]),
                      SetWrite(task'[v]) \/ ClearWrite(task'[v]), Before(u, v)'
               PROVE  task'[u].objective <= task'[v].objective
    OBVIOUS
  <2>1. u # t /\ (v = t \/ Before(u, v))
    BY DEF Moves
  <2>2. SetWrite(task[u]) /\ Committed(task[u]) /\ task'[u].objective = task[u].objective
    BY <1>2, <1>3, <2>1
  <2>3. CASE v = t
    <3>1. Carrier(r) /\ (SetWrite(r) \/ ClearWrite(r))
      BY <1>3, <2>3 DEF ClearWrite, Carrier
    <3> QED
      BY <2>2, <2>3, <3>1 DEF Newest
  <2>4. CASE v # t
    BY <1>2, <2>1, <2>2, <2>4 DEF OrderInv
  <2> QED
    BY <2>3, <2>4
<1>9. /\ row # None => row.objective <= calls'
      /\ \A u \in Tasks : Carrier(task'[u]) => task'[u].objective <= calls'
  BY <1>1, <1>2 DEF OrderInv
<1>10. \A u \in Tasks : Carrier(task'[u]) /\ Early(task'[u]) => Newest(task[u].objective)'
  BY <1>4, <1>5
<1> QED
  BY <1>6, <1>7, <1>8, <1>9, <1>10 DEF OrderInv

\* A step of t that neither gives an objective nor takes one away.
Foreign(t) == Ready(t) /\ \E m, r : Steps(t, m, r) /\ ~Carrier(r)

LEMMA ForeignOrder ==
    ASSUME Kinds, Kinds', Surroundings, Surroundings', OrderInv, NEW t \in Tasks, Foreign(t),
           row' = row, calls <= calls'
    PROVE  OrderInv'
<1>1. PICK m, r : Steps(t, m, r) /\ ~Carrier(r)
  BY DEF Foreign
<1>2. Moves(t) /\ task'[t] = r
  BY <1>1, StepsMove DEF Foreign
<1>3. /\ ~Committed(r) /\ ~SetOwns(r) /\ ~Setter(r)
  BY <1>1 DEF Committed, SetWrite, SetOwns, Setter, Carrier
<1> QED
  BY <1>1, <1>2, <1>3, OrderStep

LEMMA ForeignTasks ==
    ASSUME Kinds, NEW t \in Tasks
    PROVE  /\ ~Carrier(Idle)
           /\ \A op \in Operations \ {"set", "edit", "create", "clear"}, at \in Points : ~Carrier(New(op, at))
           /\ ~Carrier(task[t]) => /\ \A at \in Points : ~Carrier(To(t, at))
                                   /\ \A s \in Statuses \cup {"delete"} : ~Carrier(Writing(task[t], s))
<1>1. ~Carrier(Idle)
  BY IdleTask DEF Carrier
<1>2. \A op \in Operations, at \in Points : New(op, at).op = op
  BY NewTask
<1>3. \A at \in Points : To(t, at).op = task[t].op
  BY ToTask DEF Kinds
<1>4. \A s \in Statuses \cup {"delete"} : Writing(task[t], s).op = task[t].op
  BY WritingTask DEF Kinds
<1> QED
  BY <1>1, <1>2, <1>3, <1>4 DEF Carrier

LEMMA ForeignIdle ==
    ASSUME Kinds, NEW t \in Tasks, NEW m, Steps(t, m, Idle) \/ End(t, m), Ready(t)
    PROVE  Foreign(t)
<1>1. \E n : Steps(t, n, Idle)
  BY DEF End, Steps
<1> QED
  BY <1>1, ForeignTasks DEF Foreign

LEMMA ForeignNew ==
    ASSUME Kinds, NEW t \in Tasks, NEW m, NEW op \in Operations \ {"set", "edit", "create", "clear"},
           NEW at \in Points, Steps(t, m, New(op, at)), Ready(t)
    PROVE  Foreign(t)
  BY ForeignTasks DEF Foreign

LEMMA ForeignTo ==
    ASSUME Kinds, NEW t \in Tasks, NEW m, NEW at \in Points, Steps(t, m, To(t, at)), Ready(t),
           ~Carrier(task[t])
    PROVE  Foreign(t)
  BY ForeignTasks DEF Foreign

LEMMA ForeignPersist ==
    ASSUME Kinds, NEW t \in Tasks, NEW m, NEW s \in Statuses \cup {"delete"}, Persist(t, m, s), Ready(t),
           ~Carrier(task[t])
    PROVE  Foreign(t)
  BY ForeignTasks DEF Foreign, Persist, Steps

LEMMA EndingForeign ==
    ASSUME Kinds, NEW t \in Tasks, Ending(t) PROVE Foreign(t)
<1>1. \E m : Steps(t, m, Idle) \/ End(t, m)
  BY DEF Ending, Superseded, BlockSettled, LateSettled, Steps
<1>2. Ready(t)
  BY AtReady DEF Ending, Superseded, BlockSettled, LateSettled
<1> QED
  BY <1>1, <1>2, ForeignIdle

LEMMA StoppingForeign ==
    ASSUME Kinds, NEW t \in Tasks, Stopping(t), ~ClearReady(t) PROVE Foreign(t)
<1>1. CASE PauseReady(t) \/ PauseRead(t)
  <2>1. task[t].op = "pause" /\ Ready(t)
    BY <1>1, AtReady DEF PauseReady, PauseRead, Waited, Resumed
  <2>2. ~Carrier(task[t])
    BY <2>1 DEF Carrier
  <2>3. Steps(t, mem, To(t, "get")) \/ Persist(t, mem, "paused") \/ End(t, mem)
    BY <1>1 DEF PauseReady, PauseRead, Steps
  <2> QED
    BY <2>1, <2>2, <2>3, ForeignTo, ForeignPersist, ForeignIdle DEF Points, Statuses
<1>2. CASE StopSettled(t)
  <2>1. Ready(t) /\ \E m : Steps(t, m, Idle) \/ End(t, m)
    BY <1>2, AtReady DEF StopSettled, Owns, Steps
  <2> QED
    BY <2>1, ForeignIdle
<1> QED
  BY <1>1, <1>2 DEF Stopping

LEMMA BeginForeign ==
    ASSUME Kinds, NEW t \in Tasks, NEW m, BeginResume(t, m), task[t].op = "none" PROVE Foreign(t)
<1> DEFINE r == [New("resume", "barrier") EXCEPT !.owns = TRUE]
<1>1. New("resume", "barrier") \in Task /\ New("resume", "barrier").op = "resume"
  BY NewTask DEF Operations, Points
<1>2. r.op = "resume"
  BY <1>1 DEF Task
<1>3. \E n : Steps(t, n, New("resume", "barrier")) \/ Steps(t, n, r)
  BY DEF BeginResume, Steps
<1> HIDE DEF r
<1> QED
  BY <1>1, <1>2, <1>3, IdleReady DEF Foreign, Carrier

LEMMA CommandsForeign ==
    ASSUME Kinds, Surroundings, NEW t \in Tasks, pauseGoal(t) \/ resumeGoal(t) \/ resumeOnOpen(t)
    PROVE  Foreign(t)
<1>1. Ready(t) /\ task[t].op = "none"
  BY IdleReady DEF pauseGoal, resumeGoal, resumeOnOpen, Call
<1>2. CASE pauseGoal(t)
  <2> DEFINE r == [New("pause", "barrier") EXCEPT !.objective = calls]
  <2>1. New("pause", "barrier") \in Task /\ New("pause", "barrier").op = "pause"
    BY NewTask DEF Operations, Points
  <2>2. r.op = "pause"
    BY <2>1 DEF Task
  <2>3. \E m : Steps(t, m, r)
    BY <1>2 DEF pauseGoal, TakeOver, Steps
  <2> HIDE DEF r
  <2> QED
    BY <1>1, <2>2, <2>3 DEF Foreign, Carrier
<1>3. CASE resumeOnOpen(t)
  <2>1. New("open", "get") \in Task /\ New("open", "get").op = "open"
    BY NewTask DEF Operations, Points
  <2>2. Writing(New("open", "get"), "blocked").op = "open"
    BY <2>1, WritingTask DEF Statuses
  <2>3. \E m : Steps(t, m, Writing(New("open", "get"), "blocked")) \/ Steps(t, m, New("open", "get"))
    BY <1>3 DEF resumeOnOpen, Steps
  <2> QED
    BY <1>1, <2>1, <2>2, <2>3 DEF Foreign, Carrier
<1> QED
  BY <1>1, <1>2, <1>3, BeginForeign DEF resumeGoal

LEMMA ResumingForeign ==
    ASSUME Kinds, NEW t \in Tasks, Resuming(t),
           Unhydrated(t) => task[t].op # "edit"
    PROVE  Foreign(t)
<1>1. task[t].op \in {"resume", "reauto", "auto", "open", "edit", "create"} /\ task[t] \in Task /\ Ready(t)
  <2>1. CASE ResumeGivenUp(t) /\ task[t].at = "failed"
    <3>1. task[t].op \in ResumeOps
      BY <2>1 DEF ResumeGivenUp, Owns, At
    <3> QED
      BY <2>1, <3>1 DEF ResumeOps, Kinds, Ready, Storing
  <2>2. CASE ~(ResumeGivenUp(t) /\ task[t].at = "failed")
    BY <2>2, AtReady DEF Resuming, ResumeReady, ResumeRead, ReautoRead, ResumeHydrated, ResumeSettled,
       ResumeGivenUp, ResumeFails, Unhydrated, AutoRead, AutoHydrated, AutoNoticed, OwnerGivenUp,
       Waited, Resumed, Owns, ResumeOps, Kinds
  <2> QED
    BY <2>1, <2>2
<1>2. ASSUME NEW m, NEW r, r.op \in {"resume", "reauto"}, r \in Task,
             Steps(t, Proceeds(t, m, r)[1], Proceeds(t, m, r)[2])
      PROVE  Foreign(t)
  <2>1. Writing(r, "active").op = r.op
    BY <1>2, WritingTask DEF Statuses
  <2>2. [r EXCEPT !.at = "hydrate", !.resets = Limited(row)].op = r.op
    BY <1>2 DEF Task
  <2>3. Proceeds(t, m, r)[2].op = r.op
    BY <2>1, <2>2 DEF Proceeds
  <2> QED
    BY <1>1, <1>2, <2>3 DEF Foreign, Carrier
<1>3. ASSUME NEW limited, Defer(t, limited) PROVE Foreign(t)
  <2>1. \E m : Steps(t, m, Idle)
    BY <1>3 DEF Defer, Steps
  <2> QED
    BY <1>1, <2>1, ForeignIdle
<1>4. ASSUME NEW owns, GiveUpResume(t, owns) PROVE Foreign(t)
  <2>1. \E m : Steps(t, m, Idle)
    BY <1>4 DEF GiveUpResume, Steps
  <2> QED
    BY <1>1, <2>1, ForeignIdle
<1>5. CASE ResumeRead(t)
  <2> DEFINE q == [task[t] EXCEPT !.owns = TRUE]
  <2>1. task[t].op = "resume"
    BY <1>5, AtReady DEF ResumeRead, Resumed
  <2>2. q \in Task
    BY <1>1, Zenon DEF Task
  <2>3. q.op = "resume"
    BY <1>1, <2>1 DEF Task
  <2>4. \/ \E m : Steps(t, m, Idle)
        \/ Defer(t, Limited(row))
        \/ \E m : Steps(t, Proceeds(t, m, q)[1], Proceeds(t, m, q)[2])
        \/ \E m : Steps(t, Proceeds(t, m, task[t])[1], Proceeds(t, m, task[t])[2])
    BY <1>5, Zenon DEF ResumeRead, Steps
  <2> HIDE DEF q
  <2> QED
    BY <1>1, <1>2, <1>3, <2>1, <2>2, <2>3, <2>4, ForeignIdle
<1>6. CASE ReautoRead(t)
  <2>1. task[t].op = "reauto"
    BY <1>6, AtReady DEF ReautoRead, Resumed
  <2>2. \/ \E m : Steps(t, m, Idle)
        \/ \E m : Steps(t, Proceeds(t, m, task[t])[1], Proceeds(t, m, task[t])[2])
    BY <1>6 DEF ReautoRead, Steps
  <2> QED
    BY <1>1, <1>2, <2>1, <2>2, ForeignIdle
<1>7. CASE ResumeHydrated(t) \/ Unhydrated(t)
  <2>1. \/ Defer(t, task[t].resets)
        \/ \E m, s : s \in {"active", "blocked"} /\ Persist(t, m, s)
    BY <1>7 DEF ResumeHydrated, Unhydrated
  <2>2. ~Carrier(task[t])
    BY <1>7, AtReady DEF ResumeHydrated, Unhydrated, Resumed, Carrier
  <2> QED
    BY <1>1, <1>3, <2>1, <2>2, ForeignPersist DEF Statuses
<1>8. CASE ResumeReady(t) \/ AutoRead(t) \/ AutoHydrated(t) \/ AutoNoticed(t)
  <2>1. \E m : \/ Steps(t, m, Idle) \/ Steps(t, m, New("reauto", "barrier"))
              \/ Steps(t, m, To(t, "get")) \/ Steps(t, m, To(t, "hydrate")) \/ Steps(t, m, To(t, "notice"))
    BY <1>8 DEF ResumeReady, AutoRead, AutoHydrated, AutoNoticed, Steps
  <2>2. ~Carrier(task[t])
    BY <1>8, AtReady DEF ResumeReady, AutoRead, AutoHydrated, AutoNoticed, Waited, Resumed, Carrier
  <2> QED
    BY <1>1, <2>1, <2>2, ForeignIdle, ForeignNew, ForeignTo DEF Operations, Points
<1>9. CASE ResumeSettled(t) \/ OwnerGivenUp(t)
  <2>1. \E m : Steps(t, m, Idle) \/ Steps(t, m, New("fire", "get"))
    BY <1>9 DEF ResumeSettled, OwnerGivenUp, Steps
  <2> QED
    BY <1>1, <2>1, ForeignIdle, ForeignNew DEF Operations, Points
<1> QED
  BY <1>4, <1>5, <1>6, <1>7, <1>8, <1>9 DEF Resuming, ResumeGivenUp, ResumeFails

LEMMA TimersForeign ==
    ASSUME Kinds, NEW t \in Tasks, Timers(t) PROVE Foreign(t)
<1>1. Ready(t) /\ task[t].op = "none"
  BY IdleReady DEF Timers, ContinuationFires, DeferredResumeFires, autoResumeFromUsageLimit
<1>2. CASE ContinuationFires(t) \/ autoResumeFromUsageLimit(t)
  <2>1. \E m : Steps(t, m, Idle) \/ Steps(t, m, New("fire", "get")) \/ Steps(t, m, New("auto", "get"))
    BY <1>2 DEF ContinuationFires, autoResumeFromUsageLimit, Steps
  <2> QED
    BY <1>1, <2>1, ForeignIdle, ForeignNew DEF Operations, Points
<1> QED
  BY <1>1, <1>2, BeginForeign DEF Timers, DeferredResumeFires

LEMMA OpeningForeign ==
    ASSUME Kinds, NEW t \in Tasks, Opening(t) PROVE Foreign(t)
<1>1. Ready(t)
  BY AtReady, IdleReady DEF Opening, OpenRead, OpenHydrated, resumeActiveGoals, IdleObserved,
     maybeContinueActiveGoal, Resumed
<1>2. CASE OpenRead(t)
  <2>1. /\ task[t].op = "open"
        /\ \E m : Steps(t, m, Idle) \/ Steps(t, m, To(t, "hydrate"))
    BY <1>2, AtReady DEF OpenRead, Resumed, Steps
  <2> QED
    BY <1>1, <2>1, ForeignIdle, ForeignTo DEF Points, Carrier
<1>3. CASE ~OpenRead(t)
  <2>1. \E m : Steps(t, m, Idle) \/ Steps(t, m, New("fire", "get")) \/ Steps(t, m, New("idle", "get"))
    BY <1>3 DEF Opening, OpenHydrated, resumeActiveGoals, IdleObserved, maybeContinueActiveGoal, Steps
  <2> QED
    BY <1>1, <2>1, ForeignIdle, ForeignNew DEF Operations, Points
<1> QED
  BY <1>2, <1>3

LEMMA FiringForeign ==
    ASSUME Kinds, NEW t \in Tasks, Firing(t) PROVE Foreign(t)
<1>1. Ready(t) /\ ~Carrier(task[t])
  BY AtReady DEF Firing, FireRead, FireHydrated, FirePrepared, onDispatching, NotAccepted,
     ProviderRejects, Accepted, FireFails, BudgetSettled, Resumed, Owns, Carrier
<1>2. \E m : \/ Steps(t, m, Idle) \/ End(t, m)
            \/ \E s \in {"budgetLimited", "blocked"} : Persist(t, m, s)
            \/ \E at \in {"hydrate", "prepare", "gate", "sent"} : Steps(t, m, To(t, at))
  BY DEF Firing, FireRead, FireHydrated, FirePrepared, onDispatching, NotAccepted,
     ProviderRejects, Accepted, FireFails, BudgetSettled, Steps
<1> QED
  BY <1>1, <1>2, ForeignIdle, ForeignPersist, ForeignTo DEF Points, Statuses

LEMMA FinalizingForeign ==
    ASSUME Kinds, NEW t \in Tasks, Finalizing(t) PROVE Foreign(t)
<1>1. Ready(t) /\ task[t].op = "final" /\ task[t] \in Task
  BY AtReady DEF Finalizing, FinalRead, FinalLimited, FinalRecorded, FinalSettled, Resumed, Owns, Kinds
<1>2. ASSUME NEW m, NEW q, Steps(t, m, q), q.op = "final" PROVE Foreign(t)
  BY <1>1, <1>2 DEF Foreign, Carrier
<1>3. CASE FinalRead(t)
  <2> DEFINE d == Decision(task[t].put)
             r == [task[t] EXCEPT !.put = d.status, !.used = d.used, !.objective = row.objective]
  <2>1. \/ \E m : Steps(t, m, Idle)
        \/ \E m : Steps(t, m, [r EXCEPT !.at = "record"])
        \/ \E m : Steps(t, m, [r EXCEPT !.at = "limit"])
        \/ \E m : Steps(t, m, Writing([r EXCEPT !.resets = TRUE], d.status))
        \/ \E m : Steps(t, m, Writing(r, d.status))
    BY <1>3, Zenon DEF FinalRead, Steps
  <2> HIDE DEF d
  <2>2. \A q \in {[r EXCEPT !.at = "record"], [r EXCEPT !.at = "limit"],
                  Writing([r EXCEPT !.resets = TRUE], d.status), Writing(r, d.status)} : q.op = "final"
    BY <1>1 DEF Writing, Task
  <2> HIDE DEF r
  <2> QED
    BY <1>1, <1>2, <2>1, <2>2, ForeignIdle
<1>4. CASE FinalLimited(t)
  <2>1. PICK resets \in BOOLEAN, s \in {"usageLimited", "active"} :
           \E m : Steps(t, m, Writing([task[t] EXCEPT !.resets = resets], s))
    BY <1>4 DEF FinalLimited, Steps
  <2>2. Writing([task[t] EXCEPT !.resets = resets], s).op = "final"
    BY <1>1 DEF Writing, Task
  <2> QED
    BY <1>2, <2>1, <2>2
<1>5. CASE FinalRecorded(t)
  <2>1. Writing(task[t], "delete").op = "final"
    BY <1>1, WritingTask
  <2> QED
    BY <1>2, <1>5, <2>1 DEF FinalRecorded, Steps
<1>6. CASE FinalSettled(t)
  <2>1. \E m : Steps(t, m, Idle) \/ End(t, m)
    BY <1>6 DEF FinalSettled, Steps
  <2> QED
    BY <1>1, <2>1, ForeignIdle
<1> QED
  BY <1>3, <1>4, <1>5, <1>6 DEF Finalizing

LEMMA TurnEndsForeign ==
    ASSUME Kinds, NEW t \in Tasks, NEW verdict \in Verdicts, TurnEnds(t, verdict)
    PROVE  UNCHANGED <<task, queue>> \/ Foreign(t)
<1> DEFINE r == [New("final", "get") EXCEPT !.put = verdict]
<1>1. New("final", "get") \in Task /\ New("final", "get").op = "final"
  BY NewTask DEF Operations, Points
<1>2. ~Carrier(r)
  BY <1>1 DEF Task, Carrier
<1>3. Ready(t)
  BY IdleReady DEF TurnEnds
<1> HIDE DEF r
<1>4. UNCHANGED <<task, queue>> \/ (\E m : Steps(t, m, Idle)) \/ (\E m : Steps(t, m, r))
  BY Zenon DEF TurnEnds, Steps, r
<1> QED
  BY <1>2, <1>3, <1>4, ForeignIdle DEF Foreign

\* A statement settles the order of what was given before it.
LEMMA WriteOrder ==
    ASSUME Kinds, Kinds', Surroundings, Surroundings', OrderInv, NEW t \in Tasks,
           Write(t) \/ WriteFails(t)
    PROVE  OrderInv'
<1>1. task[t].at = "write" /\ Ready(t) /\ calls' = calls /\ row' \in {row, Applied(t)} /\ Answered(t)
  BY AtReady DEF Write, WriteFails, At
<1>2. PICK at \in {"wrote", "failed"} : Steps(t, mem, To(t, at))
  BY DEF Write, WriteFails, Steps
<1>3. Moves(t) /\ task'[t] = To(t, at)
  BY <1>1, <1>2, StepsMove
<1>4. /\ task'[t].at \in {"wrote", "failed"} /\ task'[t].op = task[t].op
      /\ task'[t].objective = task[t].objective
  BY <1>3, ToTask DEF Kinds, Points
<1>5. /\ \A u \in Tasks : task[u].objective \in Nat
      /\ calls \in Nat /\ (row # None => row.objective \in Nat)
  <2>1. 0 .. MaxCalls \subseteq Nat
    BY GoalAssumption
  <2> QED
    BY <2>1 DEF Kinds, Surroundings, Task, Row
<1>6. \A u \in Tasks :
         /\ task'[u].objective = task[u].objective /\ task'[u].op = task[u].op
         /\ u # t => task'[u].at = task[u].at
         /\ (Carrier(task'[u]) = Carrier(task[u])) /\ (Setter(task'[u]) = Setter(task[u]))
         /\ (SetWrite(task'[u]) => u # t /\ SetWrite(task[u]))
         /\ (ClearWrite(task'[u]) => u # t /\ ClearWrite(task[u]))
         /\ (SetOwns(task'[u]) => u # t /\ SetOwns(task[u]))
         /\ (Committed(task'[u]) => u # t /\ Committed(task[u]))
         /\ (Early(task'[u]) => u # t /\ Early(task[u]))
  <2> TAKE u \in Tasks
  <2>1. u # t => SameWork(task'[u], task[u])
    BY <1>3 DEF Moves
  <2> QED
    BY <1>4, <2>1 DEF SameWork, Carrier, Setter, SetWrite, ClearWrite, SetOwns, Committed, Early, Written
<1>7. row' # None => \/ row # None /\ row'.objective = row.objective
                     \/ SetWrite(task[t]) /\ row'.objective = task[t].objective
  <2>1. CASE row' = Applied(t)
    BY <1>1, <2>1 DEF Applied, SetWrite
  <2> QED
    BY <1>1, <2>1
<1>8. SetWrite(task[t]) => Committed(task[t]) /\ Carrier(task[t])
  BY DEF SetWrite, Committed, Carrier
<1>9. \A u \in Tasks : Carrier(task'[u]) /\ Early(task'[u]) => Newest(task[u].objective)'
  <2> SUFFICES ASSUME NEW u \in Tasks, Carrier(task'[u]), Early(task'[u])
               PROVE  Newest(task[u].objective)'
    OBVIOUS
  <2>1. Newest(task[u].objective)
    BY <1>6 DEF OrderInv
  <2>2. \A v \in Tasks : Committed(task'[v]) => task'[v].objective <= task[u].objective
    BY <1>6, <2>1 DEF Newest
  <2>3. row' # None => row'.objective <= task[u].objective
    BY <1>7, <1>8, <2>1 DEF Newest
  <2> QED
    BY <1>6, <2>2, <2>3 DEF Newest
<1>10. \A u \in Tasks : (SetWrite(task'[u]) \/ ClearWrite(task'[u])) /\ row' # None
                           => row'.objective <= task'[u].objective
  <2> SUFFICES ASSUME NEW u \in Tasks, SetWrite(task'[u]) \/ ClearWrite(task'[u]), row' # None
               PROVE  row'.objective <= task[u].objective
    BY <1>6
  <2>1. u # t /\ (SetWrite(task[u]) \/ ClearWrite(task[u]))
    BY <1>6
  <2>2. task[u].at \in Storing
    BY <2>1 DEF SetWrite, ClearWrite, Storing
  <2>3. Before(t, u)
    BY <1>1, <2>1, <2>2, AnsweredFirst DEF Kinds
  <2> QED
    BY <1>7, <2>1, <2>3 DEF OrderInv
<1>11. \A u, v \in Tasks : Before(u, v)' => u # t
  BY <1>3 DEF Moves
<1>12. \A u, v \in Tasks :
          SetWrite(task'[u]) /\ (SetWrite(task'[v]) \/ ClearWrite(task'[v])) /\ Before(u, v)'
             => task'[u].objective <= task'[v].objective
  BY <1>3, <1>6 DEF OrderInv, Moves
<1>13. \A u, v \in Tasks :
          SetOwns(task'[v]) /\ Setter(task'[u]) /\ task'[u].objective > task'[v].objective
             => task'[u].op = "set" /\ (task'[u].at = "get" => Before(v, u)')
  <2> SUFFICES ASSUME NEW u \in Tasks, NEW v \in Tasks, SetOwns(task'[v]), Setter(task'[u]),
                      task'[u].objective > task'[v].objective
               PROVE  task'[u].op = "set" /\ (task'[u].at = "get" => Before(v, u)')
    OBVIOUS
  <2>1. task[u].op = "set" /\ (task[u].at = "get" => Before(v, u)) /\ v # t
    BY <1>6 DEF OrderInv
  <2>2. u # t
    BY <1>1, <2>1 DEF Kinds, Proper
  <2> QED
    BY <1>3, <1>6, <2>1, <2>2 DEF Moves
<1>14. /\ row' # None => row'.objective <= calls'
       /\ \A u \in Tasks : Carrier(task'[u]) => task'[u].objective <= calls'
  BY <1>1, <1>6, <1>7, <1>8 DEF OrderInv
<1> QED
  BY <1>9, <1>10, <1>12, <1>13, <1>14 DEF OrderInv

\* A setGoal or clearGoal begins: its objective is the newest.
LEMMA BeginOrder ==
    ASSUME Kinds, Kinds', Surroundings, Surroundings', OrderInv, NEW t \in Tasks,
           setGoal(t) \/ clearGoal(t)
    PROVE  OrderInv'
<1>1. Ready(t) /\ row' = row /\ calls' = calls + 1 /\ calls \in Nat
  BY IdleReady, GoalAssumption DEF setGoal, clearGoal, Call, CallUnchanged, Surroundings
<1>2. \A n \in {calls, calls + 1} : Newest(n)
  <2>1. /\ \A u \in Tasks : task[u].objective \in Nat
        /\ row # None => row.objective \in Nat
    <3>1. 0 .. MaxCalls \subseteq Nat
      BY GoalAssumption
    <3> QED
      BY <3>1 DEF Kinds, Surroundings, Task, Row
  <2>2. \A u \in Tasks : Committed(task[u]) => Carrier(task[u])
    BY DEF Committed, SetWrite, Carrier
  <2> QED
    BY <1>1, <2>1, <2>2 DEF Newest, OrderInv
<1>3. ASSUME NEW m, NEW r, Steps(t, m, r), r.objective \in {calls, calls + 1}, ~Committed(r),
             SetOwns(r) => r.objective = calls + 1, Setter(r) => r.op = "set"
      PROVE  OrderInv'
  <2>1. Moves(t) /\ task'[t] = r
    BY <1>1, <1>3, StepsMove
  <2>2. \A u \in Tasks : Setter(task[u]) => task[u].objective <= calls
    BY DEF OrderInv, Setter, Carrier
  <2>3. SetOwns(r) => \A u \in Tasks : Setter(task[u]) => task[u].objective <= r.objective
    <3>1. \A u \in Tasks : task[u].objective \in Nat
      BY GoalAssumption DEF Kinds, Task
    <3> QED
      BY <1>1, <1>3, <2>2, <3>1
  <2> QED
    BY <1>1, <1>2, <1>3, <2>1, <2>3, OrderStep
<1>4. CASE clearGoal(t)
  <2> DEFINE r == [New("clear", "barrier") EXCEPT !.objective = calls]
  <2>1. New("clear", "barrier") \in Task /\ New("clear", "barrier").op = "clear"
        /\ New("clear", "barrier").at = "barrier"
    BY NewTask DEF Operations, Points
  <2>2. r.op = "clear" /\ r.at = "barrier" /\ r.objective = calls
    BY <2>1 DEF Task
  <2>3. \E m : Steps(t, m, r)
    BY <1>4 DEF clearGoal, TakeOver, Steps
  <2> HIDE DEF r
  <2> QED
    BY <1>3, <2>2, <2>3 DEF Committed, SetWrite, SetOwns, Setter
<1>5. CASE setGoal(t)
  <2> DEFINE takes == mem.rejections > 0 /\ mem.owner # "none"
             r == [New("set", "get") EXCEPT !.objective = calls + 1,
                 !.retry = IF takes THEN mem.rejections ELSE 0,
                 !.hadTurn = takes /\ mem.claimed]
             R == {r, [r EXCEPT !.at = "barrier"],
                   [r EXCEPT !.cur = mem.owner # "none", !.owns = mem.owner = "none"]}
  <2>1. New("set", "get") \in Task /\ New("set", "get").op = "set"
    BY NewTask DEF Operations, Points
  <2>2. \A q \in R : q.op = "set" /\ q.objective = calls + 1
    BY <2>1 DEF Task
  <2>3. \E q \in R : \E m : Steps(t, m, q)
    BY <1>5, Zenon DEF setGoal, Steps
  <2> HIDE DEF R
  <2> QED
    BY <1>3, <2>2, <2>3 DEF Committed, SetWrite
<1> QED
  BY <1>4, <1>5

\* An operation that has its owner goes on with its objective.
LEMMA GoesOnOrder ==
    ASSUME Kinds, Surroundings, Surroundings', OrderInv, NEW t \in Tasks, Moves(t),
           row' = row, calls' = calls, Carrier(task[t]), Early(task[t]),
           LET r == task'[t] IN
           /\ r.objective = task[t].objective /\ ~SetOwns(r)
           /\ \/ r.op = task[t].op
              \/ \A v \in Tasks \ {t} : SetOwns(task[v]) => r.objective <= task[v].objective
           /\ Committed(r) /\ ~Committed(task[t]) =>
                 \A v \in Tasks \ {t} :
                    /\ ~task'[v].cur
                    /\ SetOwns(task[v]) => r.objective <= task[v].objective
    PROVE  OrderInv'
<1> DEFINE r == task'[t]
<1>1. /\ \A u \in Tasks : task[u].objective \in Nat
      /\ calls \in Nat
  <2>1. 0 .. MaxCalls \subseteq Nat
    BY GoalAssumption
  <2> QED
    BY <2>1 DEF Kinds, Surroundings, Task
<1>2. Newest(r.objective) /\ r.objective <= calls
  BY DEF OrderInv
<1>3. Setter(r) /\ (\E v \in Tasks : SetOwns(task[v]) /\ r.objective > task[v].objective) => r.op = "set"
  <2> SUFFICES ASSUME Setter(r), NEW v \in Tasks, SetOwns(task[v]), r.objective > task[v].objective
               PROVE  r.op = "set"
    OBVIOUS
  <2>1. v # t
    BY <1>1
  <2>2. r.op = task[t].op
    BY <1>1, <2>1
  <2>3. Setter(task[t])
    BY <2>2 DEF Setter
  <2> QED
    BY <2>2, <2>3 DEF OrderInv
<1>4. Committed(r) => \A v \in Tasks \ {t} : Carrier(task[v]) /\ Early(task'[v])
                         => r.objective <= task[v].objective
  <2> SUFFICES ASSUME Committed(r), NEW v \in Tasks \ {t}, Carrier(task[v]), Early(task'[v])
               PROVE  r.objective <= task[v].objective
    OBVIOUS
  <2>1. Early(task[v]) /\ (~task'[v].cur => SetOwns(task[v]))
    BY DEF Moves, SameWork, Early, SetOwns
  <2>2. CASE Committed(task[t])
    BY <2>1, <2>2 DEF OrderInv, Newest
  <2>3. CASE ~Committed(task[t])
    BY <2>1, <2>3
  <2> QED
    BY <2>2, <2>3
<1> QED
  BY <1>1, <1>2, <1>3, <1>4, OrderStep

\* The operations that carry an objective, as far as they go on.
LEMMA CarriersOrder ==
    ASSUME Kinds, Kinds', Surroundings, Surroundings', OrderInv, NEW t \in Tasks,
           \/ ClearReady(t) \/ SetReady(t) \/ CreateHydrated(t) \/ SetWrites(t)
           \/ Unhydrated(t) /\ task[t].op = "edit"
    PROVE  OrderInv'
<1>1. /\ row' = row /\ calls' = calls /\ Ready(t) /\ task[t] \in Task
      /\ task[t].op \in {"clear", "set", "create", "edit"} /\ task[t].at \in {"barrier", "hydrate"}
      /\ task[t].cur
  <2>1. row' = row /\ calls' = calls /\ task[t] \in Task
    BY DEF ClearReady, SetReady, CreateHydrated, SetWrites, Unhydrated, EnvUnchanged, Ensured, Fault, Kinds
  <2>2. \E op \in {"clear", "set", "create", "edit"}, at \in {"barrier", "hydrate"} : Resumed(t, op, at)
    BY AtReady DEF ClearReady, SetReady, CreateHydrated, SetWrites, Unhydrated, Waited, Resumed
  <2>3. task[t].op = "set" => ~task[t].owns \/ task[t].at = "get"
    BY DEF Kinds, Proper
  <2> QED
    BY <2>1, <2>2, <2>3, AtReady DEF Resumed, Current
<1>2. Carrier(task[t]) /\ Early(task[t])
  BY <1>1 DEF Carrier, Early, Written
<1>3. ASSUME NEW m, NEW r, Steps(t, m, r), r.op = task[t].op, r.objective = task[t].objective,
             ~SetOwns(r), Committed(r) => Committed(task[t])
      PROVE  OrderInv'
  <2>1. Moves(t) /\ task'[t] = r
    BY <1>1, <1>3, StepsMove
  <2> QED
    BY <1>1, <1>2, <1>3, <2>1, GoesOnOrder
<1>4. \A s \in Statuses \cup {"delete"} :
         LET q == Writing(task[t], s) IN
         q.op = task[t].op /\ q.objective = task[t].objective /\ q.at = "write" /\ q.put = s
  BY <1>1, WritingTask DEF Writing, Task
<1>5. CASE SetReady(t)
  <2>1. Steps(t, mem, To(t, "get")) /\ task[t].op = "set" /\ task[t].at = "barrier"
    BY <1>5, AtReady DEF SetReady, Waited, Resumed, Steps
  <2>2. To(t, "get").op = "set" /\ To(t, "get").objective = task[t].objective /\ ~To(t, "get").owns
    BY <2>1, ToTask DEF Kinds, Points, Proper
  <2> QED
    BY <1>3, <2>1, <2>2 DEF SetOwns, Committed, SetWrite
<1>6. CASE CreateHydrated(t)
  <2>1. Steps(t, mem, To(t, "barrier")) /\ task[t].op = "create" /\ task[t].at = "hydrate"
    BY <1>6, AtReady DEF CreateHydrated, Resumed, Steps
  <2>2. To(t, "barrier").op = "create" /\ To(t, "barrier").objective = task[t].objective
    BY <2>1, ToTask DEF Kinds, Points
  <2> QED
    BY <1>3, <2>1, <2>2 DEF SetOwns, Committed
<1>7. CASE SetWrites(t)
  <2>1. task[t].op \in {"create", "edit"} /\ task[t].at = "barrier"
    BY <1>7, AtReady DEF SetWrites, Waited, Resumed
  <2>2. \E m : Steps(t, m, Writing(task[t], "active"))
    BY <1>7 DEF SetWrites, Persist, Steps
  <2> QED
    BY <1>3, <1>4, <2>1, <2>2 DEF SetOwns, Committed, Statuses
<1>8. CASE ClearReady(t)
  <2>1. task[t].op = "clear" /\ Steps(t, Persisting(t, mem), Writing(task[t], "delete"))
    BY <1>8, AtReady DEF ClearReady, Waited, Resumed, Persist, Steps
  <2> QED
    BY <1>3, <1>4, <2>1 DEF SetOwns, Committed, SetWrite
<1>9. CASE Unhydrated(t) /\ task[t].op = "edit"
  <2>1. \E m : Steps(t, m, Writing(task[t], "blocked"))
    BY <1>9 DEF Unhydrated, Persist, Steps
  <2> QED
    BY <1>3, <1>4, <1>9, <2>1 DEF SetOwns, Committed, SetWrite, Statuses
<1> QED
  BY <1>5, <1>6, <1>7, <1>8, <1>9

\* Another owner: the others are given up.
LEMMA ReplacedOthers ==
    ASSUME Kinds, NEW t \in Tasks, NEW m, NEW r, Replace(t, m, r)
    PROVE  \A u \in Tasks \ {t} : ~task'[u].cur
<1>1. Step(t, m, r, Operations) /\ task \in [Tasks -> Task]
  BY DEF Replace, Kinds
<1>2. \A u \in Tasks \ {t} : task[u].op \in Operations => ~task'[u].cur
  BY <1>1, OthersStep
<1> QED
  BY <1>1, <1>2 DEF Task

LEMMA EditHydratedOrder ==
    ASSUME Kinds, Kinds', Surroundings, Surroundings', OrderInv, NEW t \in Tasks, EditHydrated(t)
    PROVE  OrderInv'
<1>1. /\ row' = row /\ calls' = calls /\ Ready(t) /\ calls \in Nat
      /\ task[t].op = "edit" /\ task[t].at = "hydrate" /\ task[t].cur
  <2>1. calls \in Nat
    BY GoalAssumption DEF Surroundings
  <2>2. task[t].op = "edit" /\ task[t].at = "hydrate" /\ Ready(t) /\ Current(t)
    BY AtReady DEF EditHydrated, Resumed
  <2> QED
    BY <2>1, <2>2 DEF EditHydrated, Current
<1>2. CASE End(t, mem)
  <2>1. Foreign(t)
    BY <1>1, <1>2, ForeignIdle
  <2> QED
    BY <1>1, <2>1, ForeignOrder
<1>3. CASE Replace(t, Owned(Detached(mem), "live"), To(t, "barrier"))
  <2>1. Moves(t) /\ task'[t] = To(t, "barrier")
    BY <1>1, <1>3, StepsMove DEF Steps
  <2>2. To(t, "barrier").op = "edit" /\ To(t, "barrier").objective = task[t].objective
    BY <1>1, ToTask DEF Kinds, Points
  <2>3. \A v \in Tasks \ {t} : ~task'[v].cur
    BY <1>3, ReplacedOthers
  <2>4. \A v \in Tasks : SetOwns(task[v]) => task[t].objective <= task[v].objective
    <3>1. \A v \in Tasks : task[v].objective \in Nat
      BY GoalAssumption DEF Kinds, Task
    <3> QED
      BY <1>1, <3>1 DEF OrderInv, Setter
  <2>5. Carrier(task[t]) /\ Early(task[t])
    BY <1>1 DEF Carrier, Early, Written
  <2> QED
    BY <1>1, <2>1, <2>2, <2>3, <2>4, <2>5, GoesOnOrder DEF SetOwns
<1> QED
  BY <1>2, <1>3 DEF EditHydrated

LEMMA SetReadOrder ==
    ASSUME Kinds, Kinds', Surroundings, Surroundings', OrderInv, NEW t \in Tasks, SetRead(t)
    PROVE  OrderInv'
<1> DEFINE r == [To(t, "hydrate") EXCEPT !.cur = TRUE, !.owns = FALSE]
<1>1. /\ row' = row /\ calls' = calls /\ Ready(t) /\ Answered(t)
      /\ task[t].op = "set" /\ task[t].at = "get" /\ (task[t].cur \/ task[t].owns)
  BY AtReady DEF SetRead, Resumed, Current, EnvUnchanged, At
<1>2. To(t, "hydrate") \in Task /\ To(t, "hydrate").objective = task[t].objective
      /\ To(t, "hydrate").at = "hydrate"
  BY ToTask DEF Kinds, Points
<1>3. /\ [r EXCEPT !.op = "create"].op = "create" /\ [r EXCEPT !.op = "edit"].op = "edit"
      /\ \A q \in {[r EXCEPT !.op = "create"], [r EXCEPT !.op = "edit"]} :
            q.objective = task[t].objective /\ q.at = "hydrate"
  BY <1>2 DEF Task
<1>4. \/ \E m : Replace(t, m, [r EXCEPT !.op = "create"])
      \/ \E m : Steps(t, m, [r EXCEPT !.op = "edit"])
  BY Zenon DEF SetRead, Steps
<1> HIDE DEF r
<1>5. PICK q \in {[r EXCEPT !.op = "create"], [r EXCEPT !.op = "edit"]} :
         /\ \E m : Steps(t, m, q)
         /\ q.op = "create" => \E m : Replace(t, m, q)
  BY <1>3, <1>4 DEF Steps
<1>6. Moves(t) /\ task'[t] = q
  BY <1>1, <1>5, StepsMove
<1>7. \A v \in Tasks : SetOwns(task[v]) => task[t].objective <= task[v].objective
  <2> SUFFICES ASSUME NEW v \in Tasks, SetOwns(task[v]) PROVE task[t].objective <= task[v].objective
    OBVIOUS
  <2>1. ~Before(v, t)
    BY <1>1, AnsweredNotAfter DEF Kinds
  <2>2. task[t].objective \in Nat /\ task[v].objective \in Nat
    BY GoalAssumption DEF Kinds, Task
  <2> QED
    BY <1>1, <2>1, <2>2 DEF OrderInv, Setter
<1>8. Committed(q) => \A v \in Tasks \ {t} : ~task'[v].cur
  <2>1. Committed(q) => q.op = "create"
    BY <1>3, <1>5 DEF Committed, SetWrite
  <2> QED
    BY <1>5, <2>1, ReplacedOthers
<1>9. Carrier(task[t]) /\ Early(task[t])
  BY <1>1 DEF Carrier, Early, SetOwns, Written
<1> QED
  BY <1>1, <1>3, <1>5, <1>6, <1>7, <1>8, <1>9, GoesOnOrder DEF SetOwns

\* Only a statement changes the row, and only the user's calls count.
LEMMA RowAndCalls ==
    ASSUME Surroundings, [Next]_vars
    PROVE  /\ row' = row \/ \E t \in Tasks : Write(t) \/ WriteFails(t)
           /\ calls <= calls'
<1> DEFINE Kept == row' = row /\ calls' \in {calls, calls + 1}
<1>1. ASSUME NEW t \in Tasks, Commands(t) PROVE Kept
  BY <1>1 DEF Commands, pauseGoal, clearGoal, setGoal, resumeGoal, resumeOnOpen, Call, CallUnchanged
<1>2. ASSUME NEW t \in Tasks, ReadFails(t) \/ Stopping(t) \/ Setting(t) PROVE Kept
  BY <1>2 DEF EnvUnchanged, Ensured, Fault, ReadFails,
     Stopping, PauseReady, PauseRead, ClearReady, StopSettled,
     Setting, SetReady, SetRead, EditHydrated, CreateHydrated, SetWrites, SetSettled, SetGivenUp
<1>3. ASSUME NEW t \in Tasks, Resuming(t) \/ Timers(t) \/ Ending(t) PROVE Kept
  BY <1>3 DEF EnvUnchanged, Ensured, Fault,
     Resuming, ResumeReady, ResumeRead, ReautoRead, ResumeHydrated, ResumeSettled, ResumeGivenUp,
     ResumeFails, Unhydrated, AutoRead, AutoHydrated, AutoNoticed, OwnerGivenUp,
     Timers, ContinuationFires, DeferredResumeFires, autoResumeFromUsageLimit,
     Ending, Superseded, BlockSettled, LateSettled
<1>4. ASSUME NEW t \in Tasks, Opening(t) \/ Firing(t) \/ Finalizing(t) PROVE Kept
  BY <1>4 DEF EnvUnchanged, Ensured, Opening, OpenRead, OpenHydrated, resumeActiveGoals, IdleObserved,
     maybeContinueActiveGoal, Firing, FireRead, FireHydrated, FirePrepared, onDispatching, NotAccepted,
     ProviderRejects, Accepted, FireFails, BudgetSettled,
     Finalizing, FinalRead, FinalLimited, FinalRecorded, FinalSettled
<1>5. ASSUME NEW t \in Tasks, NEW v \in Verdicts, TurnEnds(t, v) PROVE Kept
  BY <1>5 DEF TurnEnds
<1>6. ASSUME UserTurn \/ TurnAccepted \/ UNCHANGED vars PROVE Kept
  BY <1>6 DEF UserTurn, TurnAccepted, vars
<1>7. ASSUME NEW t \in Tasks, Write(t) \/ WriteFails(t) PROVE calls' = calls
  BY <1>7 DEF Write, WriteFails
<1>8. calls \in Nat
  BY GoalAssumption DEF Surroundings
<1>9. Kept => row' = row /\ calls <= calls'
  BY <1>8
<1> HIDE DEF Kept
<1>10. Kept \/ \E t \in Tasks : Write(t) \/ WriteFails(t)
  BY <1>1, <1>2, <1>3, <1>4, <1>5, <1>6 DEF Next, Storage
<1> QED
  BY <1>7, <1>8, <1>9, <1>10

LEMMA OrderInvStep ==
    ASSUME Kinds, Surroundings, OrderInv, [Next]_vars PROVE OrderInv'
<1>1. Kinds' /\ Surroundings' /\ calls <= calls'
  BY KindsStep, SurroundingsStep, RowAndCalls
<1>2. ASSUME NEW t \in Tasks, Foreign(t), ~(Write(t) \/ WriteFails(t)), row' = row PROVE OrderInv'
  BY <1>1, <1>2, ForeignOrder
<1>3. CASE UNCHANGED <<task, queue>> /\ row' = row
  <2>1. calls \in Nat /\ calls' \in Nat /\ \A u \in Tasks : task[u].objective \in Nat
    BY <1>1, GoalAssumption DEF Kinds, Surroundings, Task
  <2>2. row # None => row.objective \in Nat
    BY GoalAssumption DEF Surroundings, Row
  <2> QED
    BY <1>1, <1>3, <2>1, <2>2 DEF OrderInv, Newest, Before
<1>4. ASSUME NEW t \in Tasks, ReadFails(t) \/ SetSettled(t) \/ SetGivenUp(t) PROVE Foreign(t) /\ row' = row
  <2>1. Ready(t) /\ \E m : Steps(t, m, Idle) \/ Steps(t, m, New("fire", "get"))
    BY <1>4, AtReady DEF ReadFails, SetSettled, SetGivenUp, Owns, Steps
  <2>2. row' = row
    BY <1>4 DEF ReadFails, SetSettled, SetGivenUp, EnvUnchanged, Fault
  <2> QED
    BY <2>1, <2>2, ForeignIdle, ForeignNew DEF Operations, Points
<1>5. CASE \E t \in Tasks : Write(t) \/ WriteFails(t)
  BY <1>1, <1>5, WriteOrder
<1>6. CASE ~\E t \in Tasks : Write(t) \/ WriteFails(t)
  <2>1. row' = row
    BY <1>6, RowAndCalls
  <2>2. ASSUME NEW t \in Tasks, Foreign(t) PROVE OrderInv'
    BY <1>2, <1>6, <2>1, <2>2
  <2>3. ASSUME NEW t \in Tasks, Commands(t) PROVE OrderInv'
    BY <1>1, <2>2, <2>3, CommandsForeign, BeginOrder DEF Commands
  <2>4. ASSUME NEW t \in Tasks, Stopping(t) \/ Setting(t) \/ Resuming(t) PROVE OrderInv'
    <3>1. CASE \/ ClearReady(t) \/ SetReady(t) \/ CreateHydrated(t) \/ SetWrites(t)
               \/ Unhydrated(t) /\ task[t].op = "edit"
      BY <1>1, <3>1, CarriersOrder
    <3>2. CASE EditHydrated(t) \/ SetRead(t)
      BY <1>1, <3>2, EditHydratedOrder, SetReadOrder
    <3>3. CASE Stopping(t) /\ ~ClearReady(t)
      BY <2>2, <3>3, StoppingForeign
    <3>4. CASE Resuming(t) /\ (Unhydrated(t) => task[t].op # "edit")
      BY <2>2, <3>4, ResumingForeign
    <3>5. CASE SetSettled(t) \/ SetGivenUp(t)
      BY <1>4, <2>2, <3>5
    <3> QED
      BY <2>4, <3>1, <3>2, <3>3, <3>4, <3>5 DEF Setting
  <2>5. ASSUME NEW t \in Tasks,
               ReadFails(t) \/ Timers(t) \/ Opening(t) \/ Firing(t) \/ Finalizing(t) \/ Ending(t)
        PROVE  OrderInv'
    BY <1>4, <2>2, <2>5, TimersForeign, OpeningForeign, FiringForeign, FinalizingForeign, EndingForeign
  <2>6. ASSUME NEW t \in Tasks, NEW v \in Verdicts, TurnEnds(t, v) PROVE OrderInv'
    BY <1>3, <2>1, <2>2, <2>6, TurnEndsForeign
  <2>7. CASE UserTurn \/ TurnAccepted \/ UNCHANGED vars
    <3>1. UNCHANGED <<task, queue>>
      BY <2>7 DEF UserTurn, TurnAccepted, vars
    <3> QED
      BY <1>3, <2>1, <3>1
  <2> QED
    BY <1>6, <2>3, <2>4, <2>5, <2>6, <2>7 DEF Next, Storage
<1> QED
  BY <1>5, <1>6

\* However edits, replacements and clears overlap, and however late their
\* statements come, the stored objective never goes back to an older one, and
\* clearGoal deletes none that was set after it (setGoal, clearGoal, trackPersistence).
THEOREM ObjectivesAreOrdered == Spec => EditsInOrder
<1> DEFINE Ordered ==
              \A t \in Tasks : row # None /\ task[t].at = "write" /\ task'[t].at # "write" =>
                 /\ row' # None => row'.objective >= row.objective
                 /\ row' = None /\ task[t].op = "clear" => task[t].objective >= row.objective
<1>1. Init => Kinds /\ Surroundings /\ OrderInv
  <2> SUFFICES ASSUME Init PROVE OrderInv
    BY InitKinds
  <2>1. \A u \in Tasks : task[u].op \in {"boot", "none"}
    BY NewTask, IdleTask DEF Init, Operations, Points
  <2>2. calls = 0 /\ (row # None => row.objective = 0)
    BY DEF Init
  <2> QED
    BY <2>1, <2>2 DEF OrderInv, Carrier, Setter, SetWrite, ClearWrite, SetOwns
<1>2. Kinds /\ Surroundings /\ OrderInv /\ [Next]_vars => (Kinds /\ Surroundings /\ OrderInv)'
  BY KindsStep, SurroundingsStep, OrderInvStep
<1>3. Kinds /\ Surroundings /\ OrderInv /\ [Next]_vars => Ordered
  <2> SUFFICES ASSUME Kinds, Surroundings, OrderInv, [Next]_vars, NEW t \in Tasks,
                      row # None, task[t].at = "write", task'[t].at # "write"
               PROVE  /\ row' # None => row'.objective >= row.objective
                      /\ row' = None /\ task[t].op = "clear" => task[t].objective >= row.objective
    OBVIOUS
  <2>1. row.objective \in Nat /\ task[t].objective \in Nat
    BY GoalAssumption DEF Surroundings, Kinds, Row, Task
  <2>2. CASE row' = row
    BY <2>1, <2>2
  <2>3. CASE row' # row
    <3>1. PICK u \in Tasks : Write(u) \/ WriteFails(u)
      BY <2>3, RowAndCalls
    <3>2. \E at : Steps(u, mem, To(u, at))
      BY <3>1 DEF Write, WriteFails, Steps
    <3>3. u = t
      BY <3>2, StepGoes DEF Goes, SameWork
    <3>4. row' = Applied(t)
      BY <2>3, <3>1, <3>3 DEF Write, WriteFails
    <3>5. row' # None => \/ row'.objective = row.objective
                         \/ SetWrite(task[t]) /\ row'.objective = task[t].objective
      BY <2>3, <3>4 DEF Applied, SetWrite
    <3>6. SetWrite(task[t]) \/ task[t].op = "clear" => task[t].objective >= row.objective
      BY <2>1 DEF OrderInv, ClearWrite
    <3> QED
      BY <2>1, <3>5, <3>6
  <2> QED
    BY <2>2, <2>3
<1> QED
  BY <1>1, <1>2, <1>3, PTL DEF Spec, EditsInOrder
=============================================================================
