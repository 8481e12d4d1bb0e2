-------------------------- MODULE CrossProcessLock --------------------------
(***************************************************************************)
(* withCrossProcessLock (apps/desktop device-link/crossProcessLock.ts) for *)
(* one lock path: several processes exclude each other through a file that *)
(* only one of them can create.  A lock whose owner died is taken over by  *)
(* renaming it away, and whoever renames first wins a gate, an election    *)
(* among the files of the directory <lockPath>.reclaim.d.                  *)
(*                                                                         *)
(* An action is one file system call together with the code up to the next *)
(* one.  A wait that may end by its deadline may end at any time.          *)
(*                                                                         *)
(* A definition whose comment begins "Fault:" is a faulty variant of the   *)
(* one after it, which no action uses.                                     *)
(***************************************************************************)
EXTENDS Naturals, FiniteSets

CONSTANTS
    Processes,     \* pids; a process that restarts gets another one
    Callers,       \* concurrent calls of withCrossProcessLock
    ProcOf,        \* the process of a caller
    MaxTakeovers,  \* MAX_TAKEOVERS
    SlowWriters,   \* TRUE: a write may take longer than LOCK_STALE_MS
    MaxIds,        \* files and gates of one process at a time
    MaxFaults,     \* file system calls that fail
    MaxCrashes,    \* processes that die
    None

\* A lock file stands for its inode, its nonce and the process that made it.
Files == Processes \X (1 .. MaxIds)
Gates == Processes \X (1 .. MaxIds)
Owner(f) == f[1]

\* An AdvisoryStaleCandidate: the inode and whether it had a size, and the
\* record that was read.
Candidate == [file : Files, sized : BOOLEAN, record : Files \cup {None}]

ASSUME CrossProcessAssumption ==
    /\ ProcOf \in [Callers -> Processes]
    /\ SlowWriters \in BOOLEAN
    /\ {MaxTakeovers, MaxIds, MaxFaults, MaxCrashes} \subseteq Nat
    /\ None \notin Files /\ None \notin Gates /\ None \notin Candidate

VARIABLES
    lockPath,  \* the file at lockPath
    written,   \* the lock files whose record is complete
    dir,       \* the gate directory exists
    gates,     \* its gate files
    stamped,   \* those whose record is complete
    earlier,   \* the gates whose startedAt precedes that of a gate
    released,  \* the gates with a release marker
    alive,     \* the processes that run
    pendingAdvisoryRecovery,  \* per process
    pendingOwnGateCleanup,    \* per process
    call,      \* where a caller stands, with its local variables
    faults, crashes

fileVars == <<lockPath, written>>
gateVars == <<dir, gates, stamped, earlier, released>>
procVars == <<alive, pendingAdvisoryRecovery>>
boundVars == <<faults, crashes>>
vars == <<fileVars, gateVars, procVars, pendingOwnGateCleanup, call, boundVars>>

Points == {"idle", "recover", "readdir", "entry", "publish", "write", "task",
           "lstat", "read", "mkdir", "open", "stamp", "relstat", "reread",
           "rename", "inspect", "readOwn", "renameOwn", "readMoved",
           "leave", "forfeit"}

\* scan: what findActiveReclaimGate is called for; then: what follows the gate.
Local == [pc : Points, then : {"idle", "loop", "retry", "check"},
          scan : {"before", "after", "elect"}, file : Files \cup {None},
          gate : Gates \cup {None}, todo : SUBSET Gates, seen : SUBSET Gates,
          cand : Candidate \cup {None}, moved : Files \cup {None}, takeovers : Nat]

Idle == [pc |-> "idle", then |-> "idle", scan |-> "before", file |-> None,
         gate |-> None, todo |-> {}, seen |-> {}, cand |-> None, moved |-> None,
         takeovers |-> 0]

Init ==
    /\ lockPath = None /\ written = {}
    /\ dir = FALSE /\ gates = {} /\ stamped = {} /\ released = {}
    /\ earlier = [g \in Gates |-> {}]
    /\ alive = Processes
    /\ pendingAdvisoryRecovery = [p \in Processes |-> None]
    /\ pendingOwnGateCleanup = [p \in Processes |-> {}]
    /\ call = [c \in Callers |-> Idle]
    /\ faults = 0 /\ crashes = 0

-----------------------------------------------------------------------------
(* Helpers *)

At(c, point) == call[c].pc = point /\ ProcOf[c] \in alive
Pending(c) == pendingAdvisoryRecovery[ProcOf[c]]

\* The caller's next state.
Goto(c, l) == call' = [call EXCEPT ![c] = l]

MayFail == faults < MaxFaults /\ faults' = faults + 1 /\ UNCHANGED crashes

\* The top of the loop, f being the pending record of the process.
Loop(c, f) ==
    LET l == [Idle EXCEPT !.takeovers = call[c].takeovers]
    IN  IF f = None THEN [l EXCEPT !.pc = "readdir"]
        ELSE [l EXCEPT !.pc = "recover", !.file = f]

\* Past the deadline the task runs without the lock; before it, once more.
Retry(c) == {Loop(c, Pending(c)), Idle}

\* Release c's lock: through the gate, whatever happens to it.
Release(l, then) == [l EXCEPT !.pc = "mkdir", !.then = then, !.cand = None]

\* The process of c learns what became of the record it had to release.
Remember(c, f) ==
    pendingAdvisoryRecovery' = [pendingAdvisoryRecovery EXCEPT ![ProcOf[c]] = f]

\* Where a caller goes once its gate is gone.
Resume(c, f) ==
    CASE call[c].then = "loop"  -> {Loop(c, f)}
      [] call[c].then = "retry" -> {Loop(c, f), Idle}
      [] call[c].then = "check" ->
            {[Idle EXCEPT !.pc = "readdir", !.takeovers = call[c].takeovers]}
      [] OTHER -> {Idle}

\* Ids that nothing refers to any more.
FreeFiles(p) ==
    {f \in Files : /\ Owner(f) = p /\ f # lockPath
                   /\ f # pendingAdvisoryRecovery[p]
                   /\ \A c \in Callers :
                        /\ f \notin {call[c].file, call[c].moved}
                        /\ call[c].cand # None =>
                             f \notin {call[c].cand.file, call[c].cand.record}}
FreeGates(p) ==
    {g \in Gates \ (gates \cup pendingOwnGateCleanup[p]) :
        /\ Owner(g) = p
        /\ \A c \in Callers : g \notin call[c].todo \cup call[c].seen \cup {call[c].gate}}

\* Fault: the marker of a gate outlives it.
WithoutMarkers(S) ==
    /\ gates' = gates \ S /\ stamped' = stamped \ S
    /\ UNCHANGED <<earlier, released>>

\* Gate files are deleted, each before its marker.
Without(S) ==
    /\ gates' = gates \ S /\ stamped' = stamped \ S /\ released' = released \ S
    /\ UNCHANGED earlier

-----------------------------------------------------------------------------
(* findActiveReclaimGate *)

\* Fault: it is enough to be among them.
WonAny(l) == l.gate \in l.seen

\* The caller's gate is the first of the active ones, by startedAt and nonce.
Won(l) == l.gate \in l.seen /\ earlier[l.gate] \cap l.seen = {}

\* The listing is read, l.seen are the active gates: what the callers of
\* findActiveReclaimGate do with it.
Found(c, l) ==
    LET k == [l EXCEPT !.todo = {}, !.seen = {}]
    IN  CASE l.scan = "before" ->
               IF l.seen = {} THEN {[k EXCEPT !.pc = "publish"]} ELSE Retry(c)
          [] l.scan = "after" ->
               IF l.seen = {} THEN {[k EXCEPT !.pc = "task"]} ELSE {Release(k, "retry")}
          [] l.scan = "elect" ->
               IF Won(l)
               THEN {[k EXCEPT !.pc = IF l.cand = None THEN "readOwn" ELSE "relstat"]}
               ELSE {[k EXCEPT !.pc = "forfeit"]}
                    \cup (IF l.cand = None THEN {[k EXCEPT !.pc = "readdir"]} ELSE {})

\* ordinaryReclaimInProgress first deletes what the process left behind; an
\* election does not.
Leftover(c) ==
    IF call[c].scan = "elect" THEN {} ELSE pendingOwnGateCleanup[ProcOf[c]]

readdir(c) ==
    /\ At(c, "readdir")
    /\ Without(Leftover(c))
    /\ pendingOwnGateCleanup' = [pendingOwnGateCleanup EXCEPT ![ProcOf[c]] = @ \ Leftover(c)]
    /\ LET todo == gates \ Leftover(c)
           l    == [call[c] EXCEPT !.pc = "entry", !.todo = todo]
       IN  IF todo = {} THEN \E k \in Found(c, l) : Goto(c, k) ELSE Goto(c, l)
    /\ UNCHANGED <<dir, fileVars, procVars, boundVars>>

\* One entry of the listing: on to the next one, or to the result.
Skip(c, g, seen) ==
    LET l == [call[c] EXCEPT !.todo = @ \ {g}, !.seen = seen]
    IN  IF l.todo = {} THEN \E k \in Found(c, l) : Goto(c, k) ELSE Goto(c, l)

\* Fault: a gate needs a marker to be removed.
RemovableMarked(g) == g \in released

\* It is gone, or a release marker or a dead owner allows its removal.
Removable(g) == g \in released \/ Owner(g) \notin alive

expired(c, g) ==
    /\ At(c, "entry") /\ g \in call[c].todo
    /\ g \in gates => Removable(g)
    /\ Without({g}) /\ Skip(c, g, call[c].seen)
    /\ UNCHANGED <<dir, fileVars, procVars, pendingOwnGateCleanup, boundVars>>

\* It counts: its owner lives, or it is younger than LOCK_STALE_MS.  One whose
\* record is incomplete is returned at once.
active(c, g) ==
    /\ At(c, "entry") /\ g \in call[c].todo
    /\ g \in gates /\ g \notin released
    /\ IF g \in stamped THEN Skip(c, g, call[c].seen \cup {g})
       ELSE \E k \in Found(c, [call[c] EXCEPT !.seen = {g}]) : Goto(c, k)
    /\ UNCHANGED <<fileVars, gateVars, procVars, pendingOwnGateCleanup, boundVars>>

-----------------------------------------------------------------------------
(* Acquisition *)

begin(c) ==
    /\ At(c, "idle") /\ Goto(c, Loop(c, Pending(c)))
    /\ UNCHANGED <<fileVars, gateVars, procVars, pendingOwnGateCleanup, boundVars>>

\* recoverPendingAdvisoryLock, with the nonce it found before it read the file.
recover(c) ==
    /\ At(c, "recover")
    /\ IF lockPath = call[c].file
       THEN Goto(c, Release(call[c], "check")) /\ UNCHANGED procVars
       ELSE /\ Goto(c, [call[c] EXCEPT !.pc = "readdir", !.file = None])
            /\ Remember(c, None) /\ UNCHANGED alive
    /\ UNCHANGED <<fileVars, gateVars, pendingOwnGateCleanup, boundVars>>

\* Somebody else's file: look whether it is stale, or wait.
Contended(c) ==
    IF call[c].takeovers < MaxTakeovers THEN {[call[c] EXCEPT !.pc = "lstat", !.file = None]}
    ELSE Retry(c)

\* publishAdvisoryLock: open with O_EXCL
publish(c) ==
    /\ At(c, "publish")
    /\ IF lockPath # None
       THEN (\E k \in Contended(c) : Goto(c, k)) /\ UNCHANGED fileVars
       ELSE LET f == CHOOSE f \in FreeFiles(ProcOf[c]) : TRUE
            IN  /\ FreeFiles(ProcOf[c]) # {}
                /\ lockPath' = f /\ written' = written \ {f}
                /\ Goto(c, [call[c] EXCEPT !.pc = "write", !.file = f])
    /\ UNCHANGED <<gateVars, procVars, pendingOwnGateCleanup, boundVars>>

write(c) ==
    /\ At(c, "write")
    /\ written' = written \cup {call[c].file}
    /\ Goto(c, [call[c] EXCEPT !.pc = "readdir", !.scan = "after"])
    /\ UNCHANGED <<lockPath, gateVars, procVars, pendingOwnGateCleanup, boundVars>>

\* The write fails: whatever is at lockPath is removed, by its name.
writeFails(c) ==
    /\ At(c, "write") /\ MayFail
    /\ lockPath' = None
    /\ \E k \in {Idle} \cup Contended(c) : Goto(c, k)
    /\ UNCHANGED <<written, gateVars, procVars, pendingOwnGateCleanup>>

endTask(c) ==
    /\ At(c, "task") /\ Goto(c, Release(call[c], "idle"))
    /\ UNCHANGED <<fileVars, gateVars, procVars, pendingOwnGateCleanup, boundVars>>

-----------------------------------------------------------------------------
(* Takeover of a stale lock *)

\* Fault: the age is not looked at.
MayBeStaleAtOnce(f) == TRUE

\* mtime may be older than LOCK_STALE_MS: the heartbeat keeps a record young.
MayBeStale(f) == Owner(f) \notin alive \/ f \in written \/ SlowWriters

\* The record at lockPath: None when it is missing or incomplete.
Record == IF lockPath \in written THEN lockPath ELSE None

\* Fault: a record that was not refreshed for a while counts as dead.
LivesByHeartbeat(f) == FALSE

\* kill(pid, 0)
Lives(f) == f # None /\ Owner(f) \in alive

lstat(c) ==
    /\ At(c, "lstat")
    /\ \/ /\ lockPath # None /\ MayBeStale(lockPath)
          /\ Goto(c, [call[c] EXCEPT !.pc = "read",
                                     !.cand = [file |-> lockPath,
                                               sized |-> lockPath \in written,
                                               record |-> None]])
       \/ /\ \E k \in Retry(c) : Goto(c, k)
    /\ UNCHANGED <<fileVars, gateVars, procVars, pendingOwnGateCleanup, boundVars>>

read(c) ==
    /\ At(c, "read")
    /\ IF Lives(Record) THEN \E k \in Retry(c) : Goto(c, k)
       ELSE Goto(c, [call[c] EXCEPT !.pc = "mkdir", !.cand.record = Record,
                                    !.takeovers = @ + 1])
    /\ UNCHANGED <<fileVars, gateVars, procVars, pendingOwnGateCleanup, boundVars>>

\* Leave the transaction: its gate goes, then the caller does as `then` says.
Leave(c, then) == Goto(c, [call[c] EXCEPT !.pc = "leave", !.then = then])

\* quarantineAdvisoryLock: the candidate is inspected again under the gate.
relstat(c) ==
    /\ At(c, "relstat")
    /\ IF lockPath = call[c].cand.file /\ (lockPath \in written) = call[c].cand.sized
       THEN Goto(c, [call[c] EXCEPT !.pc = "reread"])
       ELSE Leave(c, "loop")
    /\ UNCHANGED <<fileVars, gateVars, procVars, pendingOwnGateCleanup, boundVars>>

reread(c) ==
    /\ At(c, "reread")
    /\ IF Record = call[c].cand.record /\ ~Lives(Record)
       THEN Goto(c, [call[c] EXCEPT !.pc = "rename"])
       ELSE Leave(c, "loop")
    /\ UNCHANGED <<fileVars, gateVars, procVars, pendingOwnGateCleanup, boundVars>>

rename(c) ==
    /\ At(c, "rename")
    /\ IF lockPath = None THEN Leave(c, "loop")
       ELSE Goto(c, [call[c] EXCEPT !.pc = "inspect", !.moved = lockPath])
    /\ lockPath' = None
    /\ UNCHANGED <<written, gateVars, procVars, pendingOwnGateCleanup, boundVars>>

renameFails(c) ==
    /\ At(c, "rename") /\ MayFail /\ Leave(c, "idle")
    /\ UNCHANGED <<fileVars, gateVars, procVars, pendingOwnGateCleanup>>

\* restoreMovedPathSafely: a link never replaces a file.
Restored(f) == lockPath' = IF lockPath = None THEN f ELSE lockPath

\* inspectAdvisoryCandidate of the moved file: it is removed, or restored when it
\* is not the candidate.
inspect(c) ==
    /\ At(c, "inspect")
    /\ LET m == call[c].moved
           record == IF m \in written THEN m ELSE None
       IN  IF call[c].cand = [file |-> m, sized |-> m \in written, record |-> record]
           THEN Leave(c, "loop") /\ written' = written \ {m} /\ UNCHANGED lockPath
           ELSE Leave(c, "idle") /\ Restored(m) /\ UNCHANGED written
    /\ UNCHANGED <<gateVars, procVars, pendingOwnGateCleanup, boundVars>>

-----------------------------------------------------------------------------
(* Release *)

\* releaseAdvisoryLock under the gate: the nonce is the token.
readOwn(c) ==
    /\ At(c, "readOwn")
    /\ IF Record = call[c].file THEN Goto(c, [call[c] EXCEPT !.pc = "renameOwn"])
       ELSE Leave(c, call[c].then)
    /\ UNCHANGED <<fileVars, gateVars, procVars, pendingOwnGateCleanup, boundVars>>

renameOwn(c) ==
    /\ At(c, "renameOwn")
    /\ IF lockPath = None
       THEN Remember(c, call[c].file) /\ Leave(c, call[c].then)
       ELSE /\ Goto(c, [call[c] EXCEPT !.pc = "readMoved", !.moved = lockPath])
            /\ UNCHANGED pendingAdvisoryRecovery
    /\ lockPath' = None
    /\ UNCHANGED <<written, gateVars, alive, pendingOwnGateCleanup, boundVars>>

renameOwnFails(c) ==
    /\ At(c, "renameOwn") /\ MayFail
    /\ Remember(c, call[c].file) /\ Leave(c, call[c].then)
    /\ UNCHANGED <<fileVars, gateVars, alive, pendingOwnGateCleanup>>

readMoved(c) ==
    /\ At(c, "readMoved")
    /\ LET m == call[c].moved
       IN  IF m = call[c].file /\ m \in written
           THEN Remember(c, None) /\ written' = written \ {m} /\ UNCHANGED lockPath
           ELSE Restored(m) /\ UNCHANGED <<pendingAdvisoryRecovery, written>>
    /\ Leave(c, call[c].then)
    /\ UNCHANGED <<gateVars, alive, pendingOwnGateCleanup, boundVars>>

-----------------------------------------------------------------------------
(* The gate *)

\* acquireAdvisoryReclaimGate deletes the process's leftovers, then mkdir.
mkdir(c) ==
    /\ At(c, "mkdir")
    /\ Without(pendingOwnGateCleanup[ProcOf[c]])
    /\ pendingOwnGateCleanup' = [pendingOwnGateCleanup EXCEPT ![ProcOf[c]] = {}]
    /\ dir' = TRUE
    /\ Goto(c, [call[c] EXCEPT !.pc = "open"])
    /\ UNCHANGED <<fileVars, procVars, boundVars>>

\* Fault: a release that finds no gate is given up too.
NoGateForgets(c) == UNCHANGED procVars /\ \E k \in Resume(c, Pending(c)) : Goto(c, k)

\* Without a gate a takeover is given up, and a release is left for later.
NoGate(c) ==
    IF call[c].cand # None THEN Goto(c, Idle) /\ UNCHANGED procVars
    ELSE /\ Remember(c, call[c].file) /\ UNCHANGED alive
         /\ \E k \in Resume(c, call[c].file) : Goto(c, k)

\* Another process may have removed the empty directory after mkdir.
open(c) ==
    /\ At(c, "open")
    /\ IF dir
       THEN LET g == CHOOSE g \in FreeGates(ProcOf[c]) : TRUE
            IN  /\ FreeGates(ProcOf[c]) # {}
                /\ gates' = gates \cup {g}
                /\ earlier' = [h \in Gates |-> IF h = g THEN {} ELSE earlier[h] \ {g}]
                /\ Goto(c, [call[c] EXCEPT !.pc = "stamp", !.gate = g])
                /\ UNCHANGED procVars
       ELSE NoGate(c) /\ UNCHANGED <<gates, earlier>>
    /\ UNCHANGED <<dir, stamped, released, fileVars, pendingOwnGateCleanup, boundVars>>

stamp(c) ==
    /\ At(c, "stamp")
    /\ stamped' = stamped \cup {call[c].gate}
    /\ earlier' = [earlier EXCEPT ![call[c].gate] = stamped]
    /\ Goto(c, [call[c] EXCEPT !.pc = "readdir", !.scan = "elect"])
    /\ UNCHANGED <<dir, gates, released, fileVars, procVars, pendingOwnGateCleanup, boundVars>>

\* The gate file cannot be written: it is deleted again.
stampFails(c) ==
    /\ At(c, "stamp") /\ MayFail
    /\ Without({call[c].gate}) /\ NoGate(c)
    /\ UNCHANGED <<dir, fileVars, pendingOwnGateCleanup>>

\* releaseAdvisoryReclaimGate: the gate and, when it is empty, the directory.
Close(c) ==
    /\ Without({call[c].gate})
    /\ dir' = (gates # {call[c].gate})
    /\ UNCHANGED <<pendingOwnGateCleanup, boundVars>>

\* Fault: the process relies on the marker.
CloseFailsForgets(c) ==
    /\ MayFail
    /\ \E mark \in SUBSET {call[c].gate} : released' = released \cup mark
    /\ UNCHANGED <<pendingOwnGateCleanup, dir, gates, stamped, earlier>>

\* The gate cannot be deleted: a marker, unless that fails too, says that it is
\* released, and the process will try again.
CloseFails(c) ==
    /\ MayFail
    /\ \E mark \in SUBSET {call[c].gate} : released' = released \cup mark
    /\ pendingOwnGateCleanup' =
          [pendingOwnGateCleanup EXCEPT ![ProcOf[c]] = @ \cup {call[c].gate}]
    /\ UNCHANGED <<dir, gates, stamped, earlier>>

leave(c) ==
    /\ At(c, "leave") /\ (Close(c) \/ CloseFails(c))
    /\ \E k \in Resume(c, Pending(c)) : Goto(c, k)
    /\ UNCHANGED <<fileVars, procVars>>

\* The election is lost, or takes too long.
forfeit(c) ==
    /\ At(c, "forfeit") /\ (Close(c) \/ CloseFails(c))
    /\ NoGate(c)
    /\ UNCHANGED fileVars

-----------------------------------------------------------------------------
\* A process dies between two of its steps; what it wrote remains.
crash(p) ==
    /\ p \in alive /\ crashes < MaxCrashes /\ crashes' = crashes + 1
    /\ alive' = alive \ {p}
    /\ call' = [c \in Callers |-> IF ProcOf[c] = p THEN Idle ELSE call[c]]
    /\ pendingAdvisoryRecovery' = [pendingAdvisoryRecovery EXCEPT ![p] = None]
    /\ pendingOwnGateCleanup' = [pendingOwnGateCleanup EXCEPT ![p] = {}]
    /\ UNCHANGED <<fileVars, gateVars, faults>>

Step(c) ==
    \/ recover(c) \/ readdir(c) \/ publish(c) \/ write(c) \/ endTask(c)
    \/ lstat(c) \/ read(c) \/ relstat(c) \/ reread(c) \/ rename(c) \/ inspect(c)
    \/ readOwn(c) \/ renameOwn(c) \/ readMoved(c)
    \/ mkdir(c) \/ open(c) \/ stamp(c) \/ leave(c) \/ forfeit(c)
    \/ \E g \in call[c].todo : expired(c, g) \/ active(c, g)

Fails(c) == writeFails(c) \/ renameFails(c) \/ renameOwnFails(c) \/ stampFails(c)

Next == \/ \E c \in Callers : begin(c) \/ Step(c) \/ Fails(c)
        \/ \E p \in Processes : crash(p)

Spec == Init /\ [][Next]_vars

\* A live caller goes on, a caller that returned may call again, a wait ends by
\* its deadline, and what a dead process left grows older than LOCK_STALE_MS.
Fairness ==
    \A c \in Callers :
        /\ WF_vars(Step(c)) /\ WF_vars(begin(c))
        /\ SF_vars(Step(c) /\ call'[c] = Idle)
        /\ SF_vars(lstat(c) /\ call'[c].pc = "read")
        /\ SF_vars(\E g \in Gates : expired(c, g))

-----------------------------------------------------------------------------
(* Properties *)

\* Every variable has its type, and what is known of a gate is about a gate
\* that exists: no marker outlives its gate to vouch for another one.
TypeOK ==
    /\ lockPath \in Files \cup {None} /\ written \subseteq Files
    /\ dir \in BOOLEAN /\ gates \subseteq Gates
    /\ stamped \subseteq gates /\ released \subseteq gates
    /\ earlier \in [Gates -> SUBSET Gates]
    /\ alive \subseteq Processes
    /\ pendingAdvisoryRecovery \in [Processes -> Files \cup {None}]
    /\ pendingOwnGateCleanup \in [Processes -> SUBSET Gates]
    /\ call \in [Callers -> Local]
    /\ \A c \in Callers : /\ call[c].pc = "read" => call[c].cand # None
                          /\ call[c].pc = "write" => call[c].file # None
    /\ faults \in Nat /\ crashes \in Nat

\* "it provides real mutual exclusion": two live callers never run their tasks
\* under the lock at once, whoever died before.
Holding(c) == call[c].pc = "task"
MutualExclusion == \A c, d \in Callers : Holding(c) /\ Holding(d) => c = d

\* A holder's record stays at lockPath as long as its task runs: no takeover,
\* release, restoration or failed write of somebody else removes it.
HolderOwnsPath == \A c \in Callers : Holding(c) => lockPath = call[c].file

\* The election admits one process at a time to the steps that look at the
\* lock, rename it away and look again.
InTransaction(c) ==
    call[c].pc \in {"relstat", "reread", "rename", "inspect", "readOwn", "renameOwn",
                    "readMoved"}
OneTransaction ==
    \A c, d \in Callers : InTransaction(c) /\ InTransaction(d) => c = d

\* "leaving a recoverable owner record": the record of a live process, which
\* nobody may take over, belongs to a call that will release it or is known to
\* the process's next call.
NoForgottenLock ==
    lockPath # None /\ Owner(lockPath) \in alive =>
        \/ pendingAdvisoryRecovery[Owner(lockPath)] = lockPath
        \/ \E c \in Callers : call[c].file = lockPath

\* The gate of a live process, which blocks every acquisition, belongs to a
\* call that will delete it or is known to the process's next call.
NoForgottenGate ==
    \A g \in gates : Owner(g) \in alive =>
        g \in pendingOwnGateCleanup[Owner(g)] \/ \E c \in Callers : call[c].gate = g

\* What a dead process left, its lock or its gate, whole or half written, does
\* not keep the lock for good from a process that calls again and again and is
\* the only one left.
DeadOwner == lockPath # None /\ Owner(lockPath) \notin alive
Lone == \A c, d \in Callers : ProcOf[c] \in alive /\ ProcOf[d] \in alive => c = d
DeadOwnerReplaced ==
    DeadOwner /\ Lone /\ (\E c \in Callers : ProcOf[c] \in alive) ~> ~DeadOwner
=============================================================================
