---------------------- MODULE CrossProcessRecordProofs ----------------------
(***************************************************************************)
(* What a live process owes the others is never forgotten: the gate file   *)
(* it could not delete and the lock file it could not release are known to *)
(* one of its calls or to the process.                                     *)
(*                                                                         *)
(* The gate: NoForgottenGate is inductive on top of GateInv, since only    *)
(* open creates a gate and a caller drops its own only by deleting it or   *)
(* by leaving it to the process.                                           *)
(*                                                                         *)
(* The lock file: RecordInv says what a call and its process account for   *)
(* together.  It needs one call per process, because a process has room    *)
(* for one record: a second call that fails to release overwrites it.      *)
(***************************************************************************)
EXTENDS CrossProcessLockProofs

-----------------------------------------------------------------------------
(* The gate *)

\* A step of c that forgets none of the gates it leaves.
KeepsTrack(c) ==
    /\ alive' = alive /\ \A d \in Callers \ {c} : call'[d] = call[d]
    /\ \A g \in gates' :
          \/ g \in pendingOwnGateCleanup'[Owner(g)]
          \/ g = call'[c].gate
          \/ /\ g \in gates /\ g # call[c].gate
             /\ g \in pendingOwnGateCleanup[Owner(g)] => g \in pendingOwnGateCleanup'[Owner(g)]

LEMMA TrackedStep ==
    ASSUME NoForgottenGate, NEW c \in Callers, KeepsTrack(c)
    PROVE  NoForgottenGate'
<1> SUFFICES ASSUME NEW g \in gates', Owner(g) \in alive
             PROVE  \/ g \in pendingOwnGateCleanup'[Owner(g)]
                    \/ \E d \in Callers : call'[d].gate = g
  BY DEF NoForgottenGate, KeepsTrack
<1>1. CASE /\ g \in gates /\ g # call[c].gate
           /\ g \in pendingOwnGateCleanup[Owner(g)] => g \in pendingOwnGateCleanup'[Owner(g)]
  BY <1>1 DEF NoForgottenGate, KeepsTrack
<1> QED
  BY <1>1 DEF KeepsTrack

\* Gates are only deleted, together with what the process remembers of them,
\* and c keeps its own or has none.
LEMMA DeletingTracks ==
    ASSUME GateInv, NEW c \in Callers, NEW l, Goto(c, l), alive' = alive,
           l.gate = call[c].gate \/ call[c].gate \in {None} \cup (Gates \ gates'),
           gates' \subseteq gates,
           \A g \in gates' : \A p \in Processes :
              g \in pendingOwnGateCleanup[p] => g \in pendingOwnGateCleanup'[p]
    PROVE  KeepsTrack(c)
<1>1. call'[c] = l /\ \A d \in Callers \ {c} : call'[d] = call[d]
  BY DEF GateInv, TypeOK, Goto
<1>2. \A g \in gates' : g # None /\ Owner(g) \in Processes
  BY CrossProcessAssumption DEF GateInv, TypeOK, Gates, Owner
<1>3. \A g \in gates' : g = call[c].gate => g = call'[c].gate
  BY <1>1, <1>2
<1> QED
  BY <1>1, <1>2, <1>3 DEF KeepsTrack

LEMMA FoundTracks ==
    ASSUME GateInv, NEW c \in Callers, NEW l \in Local, NEW k \in Found(c, l),
           call[c].pc \in {"readdir", "entry"}, l.scan = call[c].scan, l.gate = call[c].gate
    PROVE  k.gate = call[c].gate
<1>1. TypeOK /\ (call[c].gate # None <=> l.scan = "elect")
  BY DEF GateInv, GateAtItsPoints, HasGate, InTransaction, Electing
<1> QED
  BY <1>1, FoundFields DEF Fresh

LEMMA SkipTracks ==
    ASSUME GateInv, NEW c \in Callers, NEW g, NEW S \in SUBSET Gates, Skip(c, g, S),
           call[c].pc = "entry"
    PROVE  \E l : Goto(c, l) /\ l.gate = call[c].gate
<1> DEFINE l == [call[c] EXCEPT !.todo = @ \ {g}, !.seen = S]
<1>0. call[c] \in Local
  BY DEF GateInv, TypeOK
<1>1. l \in Local /\ l.scan = call[c].scan /\ l.gate = call[c].gate
  BY <1>0 DEF Local
<1> HIDE DEF l
<1>2. CASE l.todo = {}
  <2>1. PICK k \in Found(c, l) : Goto(c, k)
    BY <1>2 DEF Skip, l
  <2> QED
    BY <1>1, <2>1, FoundTracks
<1>3. CASE l.todo # {}
  BY <1>1, <1>3 DEF Skip, l
<1> QED
  BY <1>2, <1>3

LEMMA scanTracks ==
    ASSUME GateInv, NEW c \in Callers,
           readdir(c) \/ \E g \in call[c].todo : expired(c, g) \/ active(c, g)
    PROVE  KeepsTrack(c)
<1>1. call[c] \in Local /\ TypeOK /\ call[c].seen \in SUBSET Gates /\ ProcOf[c] \in Processes
  BY CrossProcessAssumption DEF GateInv, TypeOK, Local
<1>2. CASE readdir(c)
  <2> DEFINE todo == gates \ Leftover(c)
             l    == [call[c] EXCEPT !.pc = "entry", !.todo = todo]
  <2>1. /\ l \in Local /\ l.scan = call[c].scan /\ l.gate = call[c].gate
    BY <1>1 DEF Local, Points, TypeOK
  <2> HIDE DEF l
  <2>2. PICK k : Goto(c, k) /\ k.gate = call[c].gate
    <3>1. CASE todo = {}
      BY <1>2, <2>1, <3>1, FoundTracks DEF readdir, At, l
    <3>2. CASE todo # {}
      BY <1>2, <2>1, <3>2 DEF readdir, l
    <3> QED
      BY <3>1, <3>2
  <2>3. /\ gates' = gates \ Leftover(c) /\ alive' = alive
        /\ \A p \in Processes : pendingOwnGateCleanup'[p] =
              IF p = ProcOf[c] THEN pendingOwnGateCleanup[p] \ Leftover(c)
              ELSE pendingOwnGateCleanup[p]
    BY <1>1, <1>2 DEF readdir, Without, procVars, TypeOK
  <2> QED
    BY <2>2, <2>3, DeletingTracks
<1>3. CASE \E g \in call[c].todo : expired(c, g) \/ active(c, g)
  <2>1. PICK g \in call[c].todo : expired(c, g) \/ active(c, g)
    BY <1>3
  <2>2. g \in Gates
    BY <1>1, <2>1 DEF Local
  <2>3. PICK k : Goto(c, k) /\ k.gate = call[c].gate
    <3>1. CASE expired(c, g)
      BY <1>1, <3>1, SkipTracks DEF expired, At
    <3>2. CASE active(c, g) /\ g \in stamped
      BY <1>1, <2>2, <3>2, SkipTracks DEF active, At
    <3>3. CASE active(c, g) /\ g \notin stamped
      <4> DEFINE l == [call[c] EXCEPT !.seen = {g}]
      <4>1. l \in Local /\ l.scan = call[c].scan /\ l.gate = call[c].gate
        BY <1>1, <2>2 DEF Local
      <4>2. PICK k \in Found(c, l) : Goto(c, k)
        BY <3>3 DEF active
      <4> HIDE DEF l
      <4> QED
        BY <3>3, <4>1, <4>2, FoundTracks DEF active, At
    <3> QED
      BY <2>1, <3>1, <3>2, <3>3
  <2>4. gates' \subseteq gates /\ alive' = alive /\ pendingOwnGateCleanup' = pendingOwnGateCleanup
    BY <2>1 DEF expired, active, Without, procVars, gateVars
  <2> QED
    BY <2>3, <2>4, DeletingTracks
<1> QED
  BY <1>2, <1>3

\* c has no gate after the step, and none before that still exists.
LEMMA FreshTracks ==
    ASSUME GateInv, NEW c \in Callers, NEW l, Goto(c, l), alive' = alive,
           pendingOwnGateCleanup' = pendingOwnGateCleanup, gates' \subseteq gates,
           call[c].gate \in {None} \cup (Gates \ gates')
    PROVE  KeepsTrack(c)
  BY DeletingTracks

LEMMA outsideTracks ==
    ASSUME GateInv, NEW c \in Callers,
           \/ begin(c) \/ recover(c) \/ publish(c) \/ write(c) \/ writeFails(c)
           \/ endTask(c) \/ lstat(c) \/ read(c) \/ mkdir(c)
    PROVE  KeepsTrack(c)
<1>1. call[c].gate = None
  BY DEF begin, recover, publish, write, writeFails, endTask, lstat, read, mkdir, At,
     GateInv, GateAtItsPoints, HasGate, InTransaction, Electing, RecoveryScansFirst
<1>2. \E l : Goto(c, l)
  BY DEF begin, recover, publish, write, writeFails, endTask, lstat, read, mkdir
<1>3. alive' = alive
  BY DEF begin, recover, publish, write, writeFails, endTask, lstat, read, mkdir, procVars
<1>4. CASE mkdir(c)
  <2>1. /\ gates' = gates \ pendingOwnGateCleanup[ProcOf[c]]
        /\ \A p \in Processes : pendingOwnGateCleanup'[p] =
              IF p = ProcOf[c] THEN {} ELSE pendingOwnGateCleanup[p]
    BY <1>4, CrossProcessAssumption DEF mkdir, Without, GateInv, TypeOK
  <2> QED
    BY <1>1, <1>2, <1>3, <2>1, DeletingTracks
<1>5. CASE UNCHANGED <<gateVars, pendingOwnGateCleanup>>
  BY <1>1, <1>2, <1>3, <1>5, FreshTracks DEF gateVars
<1> QED
  BY <1>4, <1>5 DEF begin, recover, publish, write, writeFails, endTask, lstat, read

LEMMA insideTracks ==
    ASSUME GateInv, NEW c \in Callers,
           \/ relstat(c) \/ reread(c) \/ rename(c) \/ renameFails(c) \/ inspect(c)
           \/ readOwn(c) \/ renameOwn(c) \/ renameOwnFails(c) \/ readMoved(c)
    PROVE  KeepsTrack(c)
<1>1. call[c] \in Local
  BY DEF GateInv, TypeOK
<1>2. UNCHANGED <<gateVars, pendingOwnGateCleanup, alive>>
  BY DEF relstat, reread, rename, renameFails, inspect, readOwn, renameOwn,
     renameOwnFails, readMoved, procVars
<1> DEFINE Same(l) == l.gate = call[c].gate
<1>3. \A point, then, f : /\ Same([call[c] EXCEPT !.pc = point])
                          /\ Same([call[c] EXCEPT !.pc = point, !.then = then])
                          /\ Same([call[c] EXCEPT !.pc = point, !.moved = f])
  BY <1>1 DEF Local
<1> HIDE DEF Same
<1>4. PICK l : Goto(c, l) /\ Same(l)
  BY <1>3 DEF relstat, reread, rename, renameFails, inspect, readOwn, renameOwn,
     renameOwnFails, readMoved, Leave
<1> QED
  BY <1>2, <1>4, DeletingTracks DEF gateVars, Same

LEMMA gateActionsTrack ==
    ASSUME GateInv, NEW c \in Callers,
           open(c) \/ stamp(c) \/ stampFails(c) \/ leave(c) \/ forfeit(c)
    PROVE  KeepsTrack(c)
<1>1. call[c] \in Local /\ TypeOK /\ ProcOf[c] \in Processes
  BY CrossProcessAssumption DEF GateInv, TypeOK
<1>2. CASE open(c)
  <2>1. CASE dir
    <3>1. PICK g \in FreeGates(ProcOf[c]) :
             /\ gates' = gates \cup {g}
             /\ Goto(c, [call[c] EXCEPT !.pc = "stamp", !.gate = g])
             /\ UNCHANGED procVars
      BY <1>2, <2>1 DEF open
    <3>2. call'[c].gate = g /\ \A d \in Callers \ {c} : call'[d] = call[d]
      BY <1>1, <3>1 DEF Goto, TypeOK, Local
    <3>3. call[c].gate = None
      BY <1>2 DEF open, At, GateInv, GateAtItsPoints, HasGate, InTransaction, Electing
    <3>4. \A h \in gates : h # None
      BY <1>1, CrossProcessAssumption DEF TypeOK
    <3>5. pendingOwnGateCleanup' = pendingOwnGateCleanup
      BY <1>2 DEF open
    <3> QED
      BY <3>1, <3>2, <3>3, <3>4, <3>5 DEF KeepsTrack, procVars
  <2>2. CASE ~dir
    <3>1. NoGate(c) /\ UNCHANGED <<gates, pendingOwnGateCleanup>>
      BY <1>2, <2>2 DEF open
    <3>2. call[c].gate = None
      BY <1>2 DEF open, At, GateInv, GateAtItsPoints, HasGate, InTransaction, Electing
    <3> QED
      BY <1>1, <3>1, <3>2, NoGateFresh, FreshTracks
  <2> QED
    BY <2>1, <2>2
<1>3. CASE stamp(c)
  <2> DEFINE l == [call[c] EXCEPT !.pc = "readdir", !.scan = "elect"]
  <2>1. Goto(c, l) /\ l.gate = call[c].gate
    BY <1>1, <1>3 DEF stamp, Local
  <2>2. UNCHANGED <<gates, alive, pendingOwnGateCleanup>>
    BY <1>3 DEF stamp, procVars
  <2> QED
    BY <2>1, <2>2, DeletingTracks
<1>4. ASSUME stampFails(c) \/ leave(c) \/ forfeit(c)
      PROVE  HasGate(c) /\ call[c].gate \in gates /\ call[c].gate \in Gates
             /\ Owner(call[c].gate) = ProcOf[c]
  BY <1>1, <1>4 DEF stampFails, leave, forfeit, At, GateInv, GateAtItsPoints, GateIsKept,
     HasGate, TypeOK
<1>5. CASE stampFails(c)
  <2>1. gates' = gates \ {call[c].gate} /\ pendingOwnGateCleanup' = pendingOwnGateCleanup
    BY <1>5 DEF stampFails, Without
  <2>2. \E l : alive' = alive /\ Goto(c, l)
    BY <1>1, <1>5, NoGateFresh DEF stampFails
  <2> QED
    BY <1>4, <1>5, <2>1, <2>2, FreshTracks
<1>6. CASE leave(c) \/ forfeit(c)
  <2>1. PICK l : alive' = alive /\ Goto(c, l)
    BY <1>1, <1>6, NoGateFresh DEF leave, forfeit, procVars
  <2>2. CASE Close(c)
    <3>1. gates' = gates \ {call[c].gate} /\ pendingOwnGateCleanup' = pendingOwnGateCleanup
      BY <2>2 DEF Close, Without
    <3> QED
      BY <1>4, <1>6, <2>1, <3>1, FreshTracks
  <2>3. CASE CloseFails(c)
    <3>1. /\ gates' = gates
          /\ \A p \in Processes : pendingOwnGateCleanup'[p] =
                IF p = ProcOf[c] THEN pendingOwnGateCleanup[p] \cup {call[c].gate}
                ELSE pendingOwnGateCleanup[p]
      BY <1>1, <2>3 DEF CloseFails, TypeOK
    <3>2. \A g \in gates : Owner(g) \in Processes
      BY <1>1 DEF TypeOK, Gates, Owner
    <3>3. \A d \in Callers \ {c} : call'[d] = call[d]
      BY <1>1, <2>1 DEF Goto, TypeOK
    <3> QED
      BY <1>4, <1>6, <2>1, <3>1, <3>2, <3>3 DEF KeepsTrack
  <2> QED
    BY <1>6, <2>2, <2>3 DEF leave, forfeit
<1> QED
  BY <1>2, <1>3, <1>5, <1>6

LEMMA crashTracks ==
    ASSUME GateInv, NoForgottenGate, NEW p \in Processes, crash(p) PROVE NoForgottenGate'
<1> SUFFICES ASSUME NEW g \in gates', Owner(g) \in alive'
             PROVE  \/ g \in pendingOwnGateCleanup'[Owner(g)]
                    \/ \E d \in Callers : call'[d].gate = g
  BY DEF NoForgottenGate
<1>1. g \in gates /\ Owner(g) \in alive /\ Owner(g) # p /\ g \in Gates /\ Owner(g) \in Processes
  BY DEF crash, gateVars, GateInv, TypeOK, Gates, Owner
<1>2. CASE g \in pendingOwnGateCleanup[Owner(g)]
  BY <1>1, <1>2 DEF crash, GateInv, TypeOK
<1>3. CASE \E d \in Callers : call[d].gate = g
  <2>1. PICK d \in Callers : call[d].gate = g
    BY <1>3
  <2>2. Owner(g) = ProcOf[d]
    BY <1>1, <2>1, CrossProcessAssumption DEF GateInv, GateIsKept, HasGate
  <2> QED
    BY <1>1, <2>1, <2>2 DEF crash
<1> QED
  BY <1>1, <1>2, <1>3 DEF NoForgottenGate

\* The gate of a live process, which blocks every acquisition, belongs to a call
\* that will delete it or is known to the process's next call
\* (releaseAdvisoryReclaimGate), whoever died and whatever failed.
THEOREM GatesAreRemembered == Spec => []NoForgottenGate
<1>1. Init => GateInv /\ NoForgottenGate
  BY GateInit DEF Init, NoForgottenGate
<1>2. GateInv /\ NoForgottenGate /\ [Next]_vars => NoForgottenGate'
  <2> SUFFICES ASSUME GateInv, NoForgottenGate, [Next]_vars PROVE NoForgottenGate'
    OBVIOUS
  <2>1. ASSUME NEW c \in Callers, begin(c) \/ Step(c) \/ Fails(c) PROVE KeepsTrack(c)
    BY <2>1, scanTracks, outsideTracks, insideTracks, gateActionsTrack DEF Step, Fails
  <2>2. CASE UNCHANGED vars
    BY <2>2 DEF vars, gateVars, procVars, NoForgottenGate
  <2> QED
    BY <2>1, <2>2, TrackedStep, crashTracks DEF Next
<1> QED
  BY <1>1, <1>2, GateNext, PTL DEF Spec

-----------------------------------------------------------------------------
(* The record *)

\* Where a caller has no lock file: between its calls and before it publishes one,
\* and while it looks at somebody else's.
Before(l) == \/ l.pc \in {"idle", "publish"}
             \/ l.pc \in {"readdir", "entry"} /\ l.scan = "before"
Fileless(l) == Before(l) \/ l.pc \in {"lstat", "read"} \/ l.cand # None
Tidy(l) == (Fileless(l) => l.file = None) /\ (Before(l) => l.cand = None)

\* What a caller of process p, in the local state l, and the record f that p
\* has to release account for, with path at lockPath:
Accounted(p, l, f, path, complete, live) ==
    LET holds == path # None /\ Owner(path) = p
    IN  \* a file of p that is there is one of the two, complete unless the
        \* caller still writes it,
        /\ holds => f = path \/ l.file = path
        /\ holds /\ f = path => path \in complete
        /\ l.file # None /\ l.file = path /\ l.pc # "write" => path \in complete
        \* a caller with a file knows of no other one, or is done with its own,
        /\ Tidy(l)
        /\ holds /\ l.file # None => IF l.pc = "leave" THEN f = path ELSE l.file = path
        /\ l.pc = "recover" => l.file = f
        \* and what it renamed away is a dead owner's, or its own complete one.
        /\ l.pc = "inspect" => l.file = None /\ Owner(l.moved) \notin live
        /\ l.pc = "readMoved" => l.moved = l.file /\ l.file \in complete

RecordInv ==
    /\ \A c \in Callers : ProcOf[c] \in alive =>
          Accounted(ProcOf[c], call[c], Pending(c), lockPath, written, alive)
    /\ lockPath # None /\ Owner(lockPath) \in alive =>
          \E c \in Callers : ProcOf[c] = Owner(lockPath)

\* A process acquires the lock by one call at a time.
OneCallPerProcess == \A c, d \in Callers : ProcOf[c] = ProcOf[d] => c = d

\* p's file, when it is at lockPath, is the record f, which is complete.
Settled(p, f, path, complete) ==
    path # None /\ Owner(path) = p => f = path /\ path \in complete

LEMMA SettledIsAccounted ==
    ASSUME NEW p, NEW l, NEW f, NEW path, NEW complete, NEW live, Fresh(l, f),
           f # None => Owner(f) = p, Settled(p, f, path, complete)
    PROVE  Accounted(p, l, f, path, complete, live)
  BY DEF Fresh, Tidy, Fileless, Before, Settled, Accounted

LEMMA FilelessIsSettled ==
    ASSUME RecordInv, NEW c \in Callers, ProcOf[c] \in alive,
           call[c].file = None \/ call[c].pc = "leave"
    PROVE  Settled(ProcOf[c], Pending(c), lockPath, written)
  BY DEF RecordInv, Accounted, Settled

\* A step of c that leaves the records of the other processes alone.
LEMMA AccountStep ==
    ASSUME OneCallPerProcess, IInv, RecordInv, NEW c \in Callers, NEW l, NEW f, Goto(c, l),
           ProcOf[c] \in alive, alive' = alive, Remember(c, f),
           Accounted(ProcOf[c], l, f, lockPath', written', alive),
           \/ lockPath' \in {None, lockPath} \/ Owner(lockPath') = ProcOf[c]
           \/ Owner(lockPath') \notin alive,
           lockPath \in written => lockPath \in written',
           \A d \in Callers \ {c} : call[d].pc = "readMoved" /\ call[d].file \in written =>
               call[d].file \in written'
    PROVE  RecordInv'
<1>1. call'[c] = l /\ \A d \in Callers \ {c} : call'[d] = call[d]
  BY DEF Goto, IInv, GateInv, TypeOK
<1>2. ProcOf[c] \in Processes /\ ProcOf \in [Callers -> Processes]
  BY CrossProcessAssumption
<1>3. Pending(c)' = f /\ \A d \in Callers \ {c} : Pending(d)' = Pending(d)
  BY <1>2 DEF Remember, Pending, IInv, GateInv, TypeOK, OneCallPerProcess
<1>4. ASSUME NEW d \in Callers, d # c, ProcOf[d] \in alive
      PROVE  Accounted(ProcOf[d], call[d], Pending(d), lockPath', written', alive)
  <2>1. Accounted(ProcOf[d], call[d], Pending(d), lockPath, written, alive)
    BY <1>4 DEF RecordInv
  <2>2. ProcOf[d] # ProcOf[c] /\ (call[d].file # None => Owner(call[d].file) = ProcOf[d])
    BY <1>4 DEF OneCallPerProcess, IInv, PathInv, FilesAreOwn
  <2>3. call[d].pc = "readMoved" => call[d].file \in written'
    BY <1>4, <2>1 DEF Accounted
  <2>4. CASE lockPath' = lockPath
    BY <2>1, <2>3, <2>4 DEF Accounted
  <2>5. CASE lockPath' = None \/ Owner(lockPath') # ProcOf[d]
    BY <2>1, <2>2, <2>3, <2>5 DEF Accounted
  <2> QED
    BY <1>4, <2>2, <2>4, <2>5
<1>5. ASSUME NEW d \in Callers, ProcOf[d] \in alive
      PROVE  Accounted(ProcOf[d], call'[d], Pending(d)', lockPath', written', alive')
  BY <1>1, <1>3, <1>4, <1>5
<1>6. lockPath' # None /\ Owner(lockPath') \in alive =>
         \E d \in Callers : ProcOf[d] = Owner(lockPath')
  BY DEF RecordInv
<1> QED
  BY <1>5, <1>6 DEF RecordInv

LEMMA UnchangedRecord ==
    ASSUME TypeOK, NEW c \in Callers, UNCHANGED pendingAdvisoryRecovery
    PROVE  Remember(c, Pending(c))
  BY CrossProcessAssumption DEF TypeOK, Remember, Pending

\* A step that looks at the files at most.
LEMMA QuietAccount ==
    ASSUME OneCallPerProcess, IInv, RecordInv, NEW c \in Callers, NEW l, Goto(c, l),
           ProcOf[c] \in alive, PathQuiet,
           Accounted(ProcOf[c], l, Pending(c), lockPath, written, alive)
    PROVE  RecordInv'
<1>1. Remember(c, Pending(c)) /\ UNCHANGED <<lockPath, written, alive>>
  BY UnchangedRecord DEF IInv, GateInv, PathQuiet, fileVars, procVars
<1>2. Accounted(ProcOf[c], l, Pending(c), lockPath', written', alive)
  BY <1>1
<1> HIDE DEF Pending
<1> QED
  BY <1>1, <1>2, AccountStep

\* The caller keeps its file and is not done with it.
LEMMA KeptAccount ==
    ASSUME OneCallPerProcess, IInv, RecordInv, NEW c \in Callers, NEW l, Goto(c, l),
           ProcOf[c] \in alive, PathQuiet, l.file = call[c].file,
           l.pc \notin {"leave", "inspect", "readMoved", "recover"},
           call[c].pc \notin {"leave", "write"}, Tidy(l)
    PROVE  RecordInv'
<1>1. Accounted(ProcOf[c], call[c], Pending(c), lockPath, written, alive)
  BY DEF RecordInv
<1>2. Accounted(ProcOf[c], l, Pending(c), lockPath, written, alive)
  BY <1>1 DEF Accounted
<1> QED
  BY <1>2, QuietAccount

\* The caller leaves the transaction; a file of its own is not at lockPath.
LEMMA LeavingAccount ==
    ASSUME OneCallPerProcess, IInv, RecordInv, NEW c \in Callers, NEW l, Goto(c, l),
           ProcOf[c] \in alive, PathQuiet, l.file = call[c].file, l.pc = "leave",
           l.cand = call[c].cand, call[c].pc \notin {"leave", "write"},
           call[c].file = None \/ lockPath # call[c].file
    PROVE  RecordInv'
<1>1. Accounted(ProcOf[c], call[c], Pending(c), lockPath, written, alive)
  BY DEF RecordInv
<1>2. Accounted(ProcOf[c], l, Pending(c), lockPath, written, alive)
  BY <1>1 DEF Accounted, Tidy, Fileless, Before
<1> QED
  BY <1>2, QuietAccount

\* The caller starts afresh, without a file or done with it.
LEMMA FreshAccount ==
    ASSUME OneCallPerProcess, IInv, RecordInv, NEW c \in Callers, NEW l, Goto(c, l),
           ProcOf[c] \in alive, PathQuiet, Fresh(l, Pending(c)),
           call[c].file = None \/ call[c].pc = "leave"
    PROVE  RecordInv'
<1>1. Pending(c) # None => Owner(Pending(c)) = ProcOf[c]
  BY CrossProcessAssumption DEF IInv, PathInv, FilesAreOwn, Pending
<1>2. Accounted(ProcOf[c], l, Pending(c), lockPath, written, alive)
  BY <1>1, FilelessIsSettled, SettledIsAccounted
<1> QED
  BY <1>2, QuietAccount

LEMMA FoundAccount ==
    ASSUME OneCallPerProcess, IInv, RecordInv, NEW c \in Callers, NEW l \in Local,
           NEW k \in Found(c, l), Goto(c, k), ProcOf[c] \in alive, PathQuiet,
           call[c].pc \in {"readdir", "entry"}, l.scan = call[c].scan,
           l.file = call[c].file, l.cand = call[c].cand
    PROVE  RecordInv'
<1>1. TypeOK /\ Tidy(call[c])
  BY DEF IInv, GateInv, RecordInv, Accounted
<1>2. CASE l.scan = "before" /\ Fresh(k, Pending(c))
  <2>1. call[c].file = None
    BY <1>1, <1>2 DEF Tidy, Fileless, Before
  <2> QED
    BY <1>2, <2>1, FreshAccount
<1>3. CASE ~(l.scan = "before" /\ Fresh(k, Pending(c)))
  <2>1. /\ k.file = l.file /\ k.scan = l.scan
        /\ k.pc \in {"publish", "task", "mkdir", "readOwn", "relstat", "forfeit", "readdir"}
        /\ k.pc = "publish" => l.scan = "before"
        /\ k.pc = "readdir" => l.scan = "elect"
        /\ k.cand # None => l.cand # None
    BY <1>1, <1>3, FoundFields
  <2>2. Tidy(k)
    BY <1>1, <2>1 DEF Tidy, Fileless, Before
  <2> QED
    BY <2>1, <2>2, KeptAccount
<1> QED
  BY <1>2, <1>3

LEMMA SkipAccount ==
    ASSUME OneCallPerProcess, IInv, RecordInv, NEW c \in Callers, NEW g,
           NEW S \in SUBSET Gates, Skip(c, g, S), ProcOf[c] \in alive, PathQuiet,
           call[c].pc = "entry"
    PROVE  RecordInv'
<1> DEFINE l == [call[c] EXCEPT !.todo = @ \ {g}, !.seen = S]
<1>0. call[c] \in Local /\ Tidy(call[c])
  BY DEF IInv, GateInv, TypeOK, RecordInv, Accounted
<1>1. /\ l \in Local /\ l.scan = call[c].scan /\ l.file = call[c].file /\ l.pc = "entry"
      /\ l.cand = call[c].cand
  BY <1>0 DEF Local
<1> HIDE DEF l
<1>2. CASE l.todo = {}
  <2>1. PICK k \in Found(c, l) : Goto(c, k)
    BY <1>2 DEF Skip, l
  <2> QED
    BY <1>1, <2>1, FoundAccount
<1>3. CASE l.todo # {}
  <2>1. Goto(c, l)
    BY <1>3 DEF Skip, l
  <2>2. Tidy(l)
    BY <1>0, <1>1 DEF Tidy, Fileless, Before
  <2> QED
    BY <1>1, <2>1, <2>2, KeptAccount
<1> QED
  BY <1>2, <1>3

LEMMA scanAccount ==
    ASSUME OneCallPerProcess, IInv, RecordInv, NEW c \in Callers,
           readdir(c) \/ \E g \in call[c].todo : expired(c, g) \/ active(c, g)
    PROVE  RecordInv'
<1>1. /\ call[c] \in Local /\ TypeOK /\ call[c].seen \in SUBSET Gates /\ ProcOf[c] \in alive
      /\ PathQuiet
  BY DEF IInv, GateInv, TypeOK, Local, readdir, expired, active, At, PathQuiet
<1>2. CASE readdir(c)
  <2> DEFINE todo == gates \ Leftover(c)
             l    == [call[c] EXCEPT !.pc = "entry", !.todo = todo]
  <2>1. call[c].pc = "readdir" /\ Tidy(call[c])
    BY <1>1, <1>2 DEF readdir, At, RecordInv, Accounted
  <2>2. /\ l \in Local /\ l.scan = call[c].scan /\ l.file = call[c].file /\ l.pc = "entry"
        /\ l.cand = call[c].cand
    BY <1>1 DEF Local, Points, TypeOK
  <2> HIDE DEF l
  <2>3. CASE todo = {}
    <3>1. PICK k \in Found(c, l) : Goto(c, k)
      BY <1>2, <2>3 DEF readdir, l
    <3> QED
      BY <1>1, <2>1, <2>2, <3>1, FoundAccount
  <2>4. CASE todo # {}
    <3>1. Goto(c, l)
      BY <1>2, <2>4 DEF readdir, l
    <3>2. Tidy(l)
      BY <2>1, <2>2 DEF Tidy, Fileless, Before
    <3> QED
      BY <1>1, <2>1, <2>2, <3>1, <3>2, KeptAccount
  <2> QED
    BY <2>3, <2>4
<1>3. CASE \E g \in call[c].todo : expired(c, g) \/ active(c, g)
  <2>1. PICK g \in call[c].todo : expired(c, g) \/ active(c, g)
    BY <1>3
  <2>2. call[c].pc = "entry"
    BY <2>1 DEF expired, active, At
  <2>3. CASE expired(c, g)
    BY <1>1, <2>2, <2>3, SkipAccount DEF expired
  <2>4. CASE active(c, g)
    <3>1. g \in Gates
      BY <1>1, <2>4 DEF active, TypeOK
    <3>2. CASE g \in stamped
      BY <1>1, <2>2, <2>4, <3>1, <3>2, SkipAccount DEF active
    <3>3. CASE g \notin stamped
      <4> DEFINE l == [call[c] EXCEPT !.seen = {g}]
      <4>1. /\ l \in Local /\ l.scan = call[c].scan /\ l.file = call[c].file
            /\ l.cand = call[c].cand
        BY <1>1, <3>1 DEF Local
      <4>2. PICK k \in Found(c, l) : Goto(c, k)
        BY <2>4, <3>3 DEF active
      <4> HIDE DEF l
      <4> QED
        BY <1>1, <2>2, <4>1, <4>2, FoundAccount
    <3> QED
      BY <3>2, <3>3
  <2> QED
    BY <2>1, <2>3, <2>4
<1> QED
  BY <1>2, <1>3

\* What a caller without a gate does: a takeover is given up, a record that is
\* not released becomes the process's.
LEMMA NoGateAccount ==
    ASSUME OneCallPerProcess, IInv, RecordInv, NEW c \in Callers, NoGate(c),
           ProcOf[c] \in alive, UNCHANGED fileVars,
           call[c].pc \in {"open", "stamp", "forfeit"}
    PROVE  RecordInv'
<1>1. /\ call[c].file \in Files \cup {None} /\ TypeOK
      /\ Accounted(ProcOf[c], call[c], Pending(c), lockPath, written, alive)
      /\ Sound(call[c])
  BY DEF IInv, GateInv, TypeOK, Local, RecordInv, PathInv
<1>2. CASE call[c].cand # None
  <2>1. Goto(c, Idle) /\ PathQuiet /\ call[c].file = None
    BY <1>1, <1>2 DEF NoGate, PathQuiet, Accounted, Tidy, Fileless, Before
  <2> QED
    BY <2>1, IdleFresh, FreshAccount
<1>3. CASE call[c].cand = None
  <2>1. PICK k \in Resume(c, call[c].file) : Goto(c, k)
    BY <1>3 DEF NoGate
  <2>2. Fresh(k, call[c].file)
    BY <1>1, <2>1, ResumeFresh
  <2>3. call[c].file # None /\ Owner(call[c].file) = ProcOf[c]
    BY <1>1, <1>3 DEF Sound, ReleaseHasFile, IInv, PathInv, FilesAreOwn
  <2>4. Settled(ProcOf[c], call[c].file, lockPath, written)
    BY <1>1, <2>3 DEF Accounted, Settled
  <2>5. Remember(c, call[c].file) /\ UNCHANGED <<lockPath, written, alive>>
    BY <1>3 DEF NoGate, fileVars
  <2>6. Accounted(ProcOf[c], k, call[c].file, lockPath', written', alive)
    BY <2>2, <2>3, <2>4, <2>5, SettledIsAccounted
  <2> QED
    BY <2>1, <2>5, <2>6, AccountStep
<1> QED
  BY <1>2, <1>3

LEMMA gateActionsAccount ==
    ASSUME OneCallPerProcess, IInv, RecordInv, NEW c \in Callers,
           mkdir(c) \/ open(c) \/ stamp(c) \/ stampFails(c) \/ leave(c) \/ forfeit(c)
    PROVE  RecordInv'
<1>1. /\ call[c] \in Local /\ TypeOK /\ ProcOf[c] \in alive /\ Pending(c) \in Files \cup {None}
      /\ Accounted(ProcOf[c], call[c], Pending(c), lockPath, written, alive)
  BY PendingType DEF IInv, GateInv, TypeOK, RecordInv, mkdir, open, stamp, stampFails, leave,
     forfeit, At
<1>2. CASE stampFails(c) \/ forfeit(c) \/ (open(c) /\ ~dir)
  <2>1. NoGate(c) /\ UNCHANGED fileVars /\ call[c].pc \in {"open", "stamp", "forfeit"}
    BY <1>2 DEF stampFails, forfeit, open, At
  <2> QED
    BY <1>1, <2>1, NoGateAccount
<1>3. CASE leave(c)
  <2>1. PICK k \in Resume(c, Pending(c)) : Goto(c, k)
    BY <1>3 DEF leave
  <2>2. Fresh(k, Pending(c)) /\ PathQuiet /\ call[c].pc = "leave"
    BY <1>1, <1>3, <2>1, ResumeFresh DEF leave, At, PathQuiet
  <2> QED
    BY <1>1, <2>1, <2>2, FreshAccount
<1>4. ASSUME NEW l, Goto(c, l), l.file = call[c].file, l.cand = call[c].cand, PathQuiet,
             l.pc \in {"open", "stamp"} \/ (l.pc = "readdir" /\ l.scan = "elect"),
             call[c].pc \in {"mkdir", "open", "stamp"}
      PROVE  RecordInv'
  <2>1. Tidy(l)
    BY <1>1, <1>4 DEF Tidy, Fileless, Before, Accounted
  <2> QED
    BY <1>1, <1>4, <2>1, KeptAccount
<1>5. CASE mkdir(c)
  <2> DEFINE l == [call[c] EXCEPT !.pc = "open"]
  <2>1. Goto(c, l) /\ PathQuiet /\ call[c].pc = "mkdir"
    BY <1>5 DEF mkdir, At, PathQuiet
  <2>2. l.pc = "open" /\ l.file = call[c].file /\ l.cand = call[c].cand
    BY <1>1 DEF Local
  <2> HIDE DEF l
  <2> QED
    BY <1>4, <2>1, <2>2
<1>6. ASSUME open(c), dir PROVE RecordInv'
  <2>1. PICK g \in FreeGates(ProcOf[c]) :
           /\ gates' = gates \cup {g}
           /\ Goto(c, [call[c] EXCEPT !.pc = "stamp", !.gate = g])
           /\ UNCHANGED procVars
    BY <1>6 DEF open
  <2> DEFINE l == [call[c] EXCEPT !.pc = "stamp", !.gate = g]
  <2>2. PathQuiet /\ call[c].pc = "open"
    BY <1>6, <2>1 DEF open, At, PathQuiet
  <2>3. l.pc = "stamp" /\ l.file = call[c].file /\ l.cand = call[c].cand
    BY <1>1 DEF Local
  <2>4. Goto(c, l)
    BY <2>1
  <2> HIDE DEF l
  <2> QED
    BY <1>4, <2>2, <2>3, <2>4
<1>7. CASE stamp(c)
  <2> DEFINE l == [call[c] EXCEPT !.pc = "readdir", !.scan = "elect"]
  <2>1. Goto(c, l) /\ PathQuiet /\ call[c].pc = "stamp"
    BY <1>7 DEF stamp, At, PathQuiet
  <2>2. /\ l.pc = "readdir" /\ l.scan = "elect" /\ l.file = call[c].file
        /\ l.cand = call[c].cand
    BY <1>1 DEF Local
  <2> QED
    BY <1>4, <2>1, <2>2
<1>8. CASE open(c)
  <2>1. CASE dir
    BY <1>6, <1>8, <2>1
  <2>2. CASE ~dir
    BY <1>2, <1>8, <2>2
  <2> QED
    BY <2>1, <2>2
<1> QED
  BY <1>2, <1>3, <1>5, <1>7, <1>8

LEMMA acquireAccount ==
    ASSUME OneCallPerProcess, IInv, RecordInv, NEW c \in Callers,
           \/ begin(c) \/ recover(c) \/ endTask(c) \/ (publish(c) /\ lockPath # None)
           \/ lstat(c) \/ read(c)
    PROVE  RecordInv'
<1>1. /\ call[c] \in Local /\ TypeOK /\ ProcOf[c] \in alive /\ Pending(c) \in Files \cup {None}
      /\ Accounted(ProcOf[c], call[c], Pending(c), lockPath, written, alive)
      /\ Sound(call[c])
  BY PendingType DEF IInv, GateInv, PathInv, TypeOK, RecordInv, begin, recover, endTask,
     publish, lstat, read, At
<1>2. CASE begin(c)
  <2>1. Goto(c, Loop(c, Pending(c))) /\ PathQuiet /\ call[c].file = None
    BY <1>1, <1>2 DEF begin, At, PathQuiet, Accounted, Tidy, Fileless, Before
  <2> QED
    BY <1>1, <2>1, LoopFresh, FreshAccount
<1>3. CASE recover(c)
  <2> DEFINE l == Release(call[c], "check")
             k == [call[c] EXCEPT !.pc = "readdir", !.file = None]
  <2>1. /\ call[c].pc = "recover" /\ call[c].file # None /\ call[c].file = Pending(c)
        /\ call[c].cand = None
    BY <1>1, <1>3 DEF recover, At, Sound, ReleaseHasFile, Accounted, Tidy, Fileless, Before
  <2>2. CASE lockPath = call[c].file
    <3>1. Goto(c, l) /\ PathQuiet
      BY <1>3, <2>2 DEF recover, PathQuiet
    <3>2. l.pc = "mkdir" /\ l.file = call[c].file /\ l.cand = None
      BY <1>1 DEF Release, Local
    <3> HIDE DEF l
    <3>3. Tidy(l)
      BY <3>2 DEF Tidy, Fileless, Before
    <3> QED
      BY <1>1, <2>1, <3>1, <3>2, <3>3, KeptAccount
  <2>3. CASE lockPath # call[c].file
    <3>1. Goto(c, k) /\ UNCHANGED <<lockPath, written, alive>> /\ Remember(c, None)
      BY <1>3, <2>3 DEF recover, fileVars
    <3>2. k.pc = "readdir" /\ k.file = None /\ k.cand = None
      BY <1>1, <2>1 DEF Local
    <3> HIDE DEF k
    <3>3. Accounted(ProcOf[c], k, None, lockPath', written', alive)
      BY <1>1, <2>1, <2>3, <3>1, <3>2 DEF Accounted, Tidy, Fileless, Before
    <3> QED
      BY <1>1, <3>1, <3>3, AccountStep
  <2> QED
    BY <2>2, <2>3
<1>4. CASE endTask(c)
  <2> DEFINE l == Release(call[c], "idle")
  <2>1. Goto(c, l) /\ PathQuiet /\ call[c].pc = "task"
    BY <1>4 DEF endTask, At, PathQuiet
  <2>2. l.pc = "mkdir" /\ l.file = call[c].file /\ l.cand = None
    BY <1>1 DEF Release, Local
  <2> HIDE DEF l
  <2>3. Tidy(l)
    BY <2>2 DEF Tidy, Fileless, Before
  <2> QED
    BY <1>1, <2>1, <2>2, <2>3, KeptAccount
<1>5. ASSUME NEW k \in Retry(c), Goto(c, k), PathQuiet, Fileless(call[c]) PROVE RecordInv'
  <2>1. call[c].file = None
    BY <1>1, <1>5 DEF Accounted, Tidy
  <2> QED
    BY <1>1, <1>5, <2>1, RetryFresh, FreshAccount
<1>6. CASE publish(c) /\ lockPath # None
  <2> DEFINE l == [call[c] EXCEPT !.pc = "lstat", !.file = None]
  <2>1. PathQuiet /\ call[c].pc = "publish" /\ \E k \in Contended(c) : Goto(c, k)
    BY <1>6 DEF publish, At, PathQuiet
  <2>2. Fileless(call[c]) /\ call[c].file = None
    BY <1>1, <2>1 DEF Tidy, Fileless, Before, Accounted
  <2>3. l.pc = "lstat" /\ l.file = None
    BY <1>1 DEF Local
  <2> HIDE DEF l
  <2>4. Contended(c) \subseteq Retry(c) \cup {l}
    BY DEF Contended, l
  <2>6. Tidy(l)
    BY <2>3 DEF Tidy, Fileless, Before
  <2>5. CASE Goto(c, l)
    BY <1>1, <2>1, <2>2, <2>3, <2>5, <2>6, KeptAccount
  <2> QED
    BY <1>5, <2>1, <2>2, <2>4, <2>5
<1>7. CASE lstat(c)
  <2>1. PathQuiet /\ Fileless(call[c]) /\ call[c].file = None /\ call[c].pc = "lstat"
    BY <1>1, <1>7 DEF lstat, At, PathQuiet, Tidy, Fileless, Before, Accounted
  <2>2. CASE \E k \in Retry(c) : Goto(c, k)
    BY <1>5, <2>1, <2>2
  <2>3. CASE ~ \E k \in Retry(c) : Goto(c, k)
    <3> DEFINE n == [file |-> lockPath, sized |-> lockPath \in written, record |-> None]
               l == [call[c] EXCEPT !.pc = "read", !.cand = n]
    <3>1. Goto(c, l)
      BY <1>7, <2>3 DEF lstat
    <3>2. l.pc = "read" /\ l.file = call[c].file
      BY <1>1 DEF Local
    <3> HIDE DEF l
    <3>3. Tidy(l)
      BY <2>1, <3>2 DEF Tidy, Before
    <3> QED
      BY <1>1, <2>1, <3>1, <3>2, <3>3, KeptAccount
  <2> QED
    BY <2>2, <2>3
<1>8. CASE read(c)
  <2>1. PathQuiet /\ Fileless(call[c]) /\ call[c].file = None /\ call[c].pc = "read"
    BY <1>1, <1>8 DEF read, At, PathQuiet, Tidy, Fileless, Before, Accounted
  <2>2. CASE \E k \in Retry(c) : Goto(c, k)
    BY <1>5, <2>1, <2>2
  <2>3. CASE ~ \E k \in Retry(c) : Goto(c, k)
    <3> DEFINE l == [call[c] EXCEPT !.pc = "mkdir", !.cand.record = Record, !.takeovers = @ + 1]
    <3>1. Goto(c, l)
      BY <1>8, <2>3 DEF read
    <3>2. l.pc = "mkdir" /\ l.file = call[c].file
      BY <1>1 DEF Local
    <3> HIDE DEF l
    <3>3. Tidy(l)
      BY <2>1, <3>2 DEF Tidy, Before
    <3> QED
      BY <1>1, <2>1, <3>1, <3>2, <3>3, KeptAccount
  <2> QED
    BY <2>2, <2>3
<1> QED
  BY <1>2, <1>3, <1>4, <1>6, <1>7, <1>8

LEMMA transactionAccount ==
    ASSUME OneCallPerProcess, IInv, RecordInv, NEW c \in Callers,
           relstat(c) \/ reread(c) \/ renameFails(c) \/ readOwn(c) \/ renameOwnFails(c)
    PROVE  RecordInv'
<1>1. /\ call[c] \in Local /\ TypeOK /\ Sound(call[c]) /\ ProcOf[c] \in alive
      /\ Accounted(ProcOf[c], call[c], Pending(c), lockPath, written, alive)
      /\ call[c].pc \in {"relstat", "reread", "rename", "readOwn", "renameOwn"}
      /\ UNCHANGED fileVars /\ alive' = alive
  BY DEF IInv, GateInv, TypeOK, PathInv, RecordInv, relstat, reread, renameFails, readOwn,
     renameOwnFails, At, procVars
<1> DEFINE To(point) == [call[c] EXCEPT !.pc = point]
           Left(then) == [call[c] EXCEPT !.pc = "leave", !.then = then]
<1>2. /\ \A point : /\ To(point).pc = point /\ To(point).file = call[c].file
                    /\ To(point).cand = call[c].cand
      /\ \A then : /\ Left(then).pc = "leave" /\ Left(then).file = call[c].file
                   /\ Left(then).cand = call[c].cand
  BY <1>1 DEF Local
<1>8. ASSUME relstat(c) \/ reread(c) \/ renameFails(c)
      PROVE  \/ Goto(c, Left("loop")) \/ Goto(c, Left("idle"))
             \/ (relstat(c) \/ reread(c)) /\ (Goto(c, To("reread")) \/ Goto(c, To("rename")))
  <2>1. CASE relstat(c)
    BY <2>1 DEF relstat, Leave
  <2>2. CASE reread(c)
    BY <2>2 DEF reread, Leave
  <2>3. CASE renameFails(c)
    BY <2>3 DEF renameFails, Leave
  <2> QED
    BY <1>8, <2>1, <2>2, <2>3
<1>9. ASSUME readOwn(c)
      PROVE  \/ Record = call[c].file /\ Goto(c, To("renameOwn"))
             \/ Record # call[c].file /\ Goto(c, Left(call[c].then))
  BY <1>9 DEF readOwn, Leave
<1>10. renameOwnFails(c) => Goto(c, Left(call[c].then))
  BY DEF renameOwnFails, Leave
<1> HIDE DEF To, Left
<1>3. CASE /\ relstat(c) \/ reread(c) \/ readOwn(c)
           /\ \E point \in {"reread", "rename", "renameOwn"} : Goto(c, To(point))
  <2>1. PICK point \in {"reread", "rename", "renameOwn"} : Goto(c, To(point))
    BY <1>3
  <2>2. PathQuiet
    BY <1>3 DEF relstat, reread, readOwn, PathQuiet
  <2>3. Tidy(To(point))
    BY <1>1, <1>2, <2>1 DEF Tidy, Fileless, Before, Accounted
  <2> QED
    BY <1>1, <1>2, <2>1, <2>2, <2>3, KeptAccount
<1>4. CASE /\ PathQuiet
           /\ call[c].file = None \/ lockPath # call[c].file
           /\ \E then : Goto(c, Left(then))
  BY <1>1, <1>2, <1>4, LeavingAccount
<1>5. CASE relstat(c) \/ reread(c) \/ renameFails(c)
  <2>1. call[c].file = None
    BY <1>1, <1>5 DEF Sound, CandidateIsDead, Accounted, Tidy, Fileless, Before, relstat, reread,
       renameFails, At
  <2>2. PathQuiet
    BY <1>5 DEF relstat, reread, renameFails, PathQuiet
  <2> QED
    BY <1>3, <1>4, <1>5, <1>8, <2>1, <2>2
<1>6. CASE readOwn(c)
  <2>1. CASE Record = call[c].file
    BY <1>3, <1>6, <1>9, <2>1
  <2>2. CASE Record # call[c].file
    <3>1. call[c].file # None /\ lockPath # call[c].file
      BY <1>1, <1>6, <2>2 DEF readOwn, At, Sound, ReleaseHasFile, Accounted, Record
    <3> QED
      BY <1>4, <1>6, <1>9, <2>2, <3>1 DEF readOwn, PathQuiet
  <2> QED
    BY <2>1, <2>2
<1>7. CASE renameOwnFails(c)
  <2>1. /\ Remember(c, call[c].file) /\ Goto(c, Left(call[c].then))
        /\ UNCHANGED <<lockPath, written, alive>> /\ call[c].pc = "renameOwn"
    BY <1>7, <1>10 DEF renameOwnFails, At, fileVars
  <2>2. lockPath = call[c].file /\ call[c].file # None
    BY <1>1, <2>1 DEF Sound, TakeoverIsSafe, ReleaseHasFile
  <2> DEFINE l == Left(call[c].then)
  <2>3. l.pc = "leave" /\ l.file = call[c].file /\ l.cand = call[c].cand
    BY <1>2
  <2> HIDE DEF l
  <2>4. Accounted(ProcOf[c], l, call[c].file, lockPath', written', alive)
    BY <1>1, <2>1, <2>2, <2>3 DEF Accounted, Tidy, Fileless, Before
  <2> QED
    BY <1>1, <2>1, <2>4, AccountStep DEF l
<1> QED
  BY <1>5, <1>6, <1>7

LEMMA renameAccount ==
    ASSUME OneCallPerProcess, IInv, RecordInv, NEW c \in Callers, rename(c) \/ renameOwn(c)
    PROVE  RecordInv'
<1>1. /\ call[c] \in Local /\ TypeOK /\ Sound(call[c]) /\ ProcOf[c] \in alive
      /\ Accounted(ProcOf[c], call[c], Pending(c), lockPath, written, alive)
      /\ lockPath' = None /\ written' = written /\ alive' = alive
  BY DEF IInv, GateInv, TypeOK, PathInv, RecordInv, rename, renameOwn, At, procVars
<1> DEFINE Left(then) == [call[c] EXCEPT !.pc = "leave", !.then = then]
           Away(point) == [call[c] EXCEPT !.pc = point, !.moved = lockPath]
<1>2. /\ \A then : /\ Left(then).pc = "leave" /\ Left(then).file = call[c].file
                   /\ Left(then).cand = call[c].cand
      /\ \A point : /\ Away(point).pc = point /\ Away(point).file = call[c].file
                    /\ Away(point).cand = call[c].cand /\ Away(point).moved = lockPath
  BY <1>1 DEF Local
<1>3. CASE rename(c)
  <2>1. Goto(c, Left("loop")) \/ Goto(c, Away("inspect"))
    BY <1>3 DEF rename, Leave
  <2> HIDE DEF Left, Away
  <2>2. PICK l : /\ Goto(c, l) /\ l.file = call[c].file /\ l.cand = call[c].cand
                 /\ l.pc \in {"leave", "inspect"} /\ (l.pc = "inspect" => l.moved = lockPath)
    BY <1>2, <2>1
  <2>3. call[c].cand # None /\ Owner(lockPath) \notin alive /\ call[c].file = None
    BY <1>1, <1>3 DEF rename, At, Sound, CandidateIsDead, TakeoverIsSafe, Accounted, Tidy,
       Fileless
  <2>4. Remember(c, Pending(c))
    BY <1>1, <1>3, UnchangedRecord DEF rename, procVars
  <2>5. Accounted(ProcOf[c], l, Pending(c), lockPath', written', alive)
    BY <1>1, <2>2, <2>3 DEF Accounted, Tidy, Before
  <2> HIDE DEF Pending
  <2> QED
    BY <1>1, <2>2, <2>4, <2>5, AccountStep
<1>4. CASE renameOwn(c)
  <2>1. call[c].pc = "renameOwn" /\ lockPath = call[c].file /\ call[c].file # None
    BY <1>1, <1>4 DEF renameOwn, At, Sound, TakeoverIsSafe, ReleaseHasFile
  <2>2. Goto(c, Away("readMoved")) /\ UNCHANGED pendingAdvisoryRecovery
    BY <1>4, <2>1 DEF renameOwn
  <2> DEFINE l == Away("readMoved")
  <2>3. l.pc = "readMoved" /\ l.file = call[c].file /\ l.moved = lockPath
        /\ l.cand = call[c].cand
    BY <1>2
  <2> HIDE DEF Away, l
  <2>4. Accounted(ProcOf[c], l, Pending(c), lockPath', written', alive)
    BY <1>1, <2>1, <2>3 DEF Accounted, Tidy, Fileless, Before
  <2>5. Remember(c, Pending(c))
    BY <1>1, <2>2, UnchangedRecord
  <2>6. Goto(c, l)
    BY <2>2 DEF l
  <2> HIDE DEF Pending
  <2> QED
    BY <1>1, <2>4, <2>5, <2>6, AccountStep
<1> QED
  BY <1>3, <1>4

LEMMA movedAccount ==
    ASSUME OneCallPerProcess, IInv, RecordInv, NEW c \in Callers, inspect(c) \/ readMoved(c)
    PROVE  RecordInv'
<1>1. /\ call[c] \in Local /\ TypeOK /\ Sound(call[c]) /\ ProcOf[c] \in alive
      /\ Accounted(ProcOf[c], call[c], Pending(c), lockPath, written, alive)
      /\ alive' = alive /\ call[c].pc \in {"inspect", "readMoved"}
  BY DEF IInv, GateInv, TypeOK, PathInv, RecordInv, inspect, readMoved, At, procVars
<1>2. call[c].moved # None /\ call[c].moved # lockPath
  BY <1>1 DEF Sound, MovedIsAway
<1>3. \A d \in Callers \ {c} : call[d].pc # "readMoved"
  BY <1>1 DEF IInv, GateInv, GateAtItsPoints, InTransaction, Stamped, StampsAreOrdered,
     WinnerIsFirst
<1> DEFINE Left(then) == [call[c] EXCEPT !.pc = "leave", !.then = then]
<1>4. \A then : /\ Left(then).pc = "leave" /\ Left(then).file = call[c].file
                /\ Left(then).cand = call[c].cand
  BY <1>1 DEF Local
<1>5. \E then : Goto(c, Left(then))
  BY DEF inspect, readMoved, Leave
<1> HIDE DEF Left
<1>6. PICK l : Goto(c, l) /\ l.pc = "leave" /\ l.file = call[c].file /\ l.cand = call[c].cand
  BY <1>4, <1>5
<1>7. CASE inspect(c)
  <2>1. /\ Owner(call[c].moved) \notin alive /\ call[c].pc = "inspect"
        /\ call[c].file = None
    BY <1>1, <1>7 DEF inspect, At, Accounted
  <2>2. /\ lockPath' = lockPath \/ lockPath' = call[c].moved
        /\ lockPath \in written => lockPath \in written'
        /\ UNCHANGED pendingAdvisoryRecovery
    BY <1>2, <1>7 DEF inspect, Restored, procVars
  <2>3. Accounted(ProcOf[c], l, Pending(c), lockPath', written', alive)
    BY <1>1, <1>6, <2>1, <2>2 DEF Accounted, Tidy, Fileless, Before
  <2>4. Remember(c, Pending(c))
    BY <1>1, <2>2, UnchangedRecord
  <2> HIDE DEF Pending
  <2> QED
    BY <1>1, <1>3, <1>6, <2>1, <2>2, <2>3, <2>4, AccountStep
<1>8. CASE readMoved(c)
  <2>1. call[c].pc = "readMoved" /\ call[c].moved = call[c].file /\ call[c].file \in written
    BY <1>1, <1>8 DEF readMoved, At, Accounted
  <2>2. /\ Remember(c, None) /\ written' = written \ {call[c].file}
        /\ lockPath' = lockPath
    BY <1>8, <2>1 DEF readMoved
  <2>3. Accounted(ProcOf[c], l, None, lockPath', written', alive)
    BY <1>1, <1>2, <1>6, <2>1, <2>2 DEF Accounted, Tidy, Fileless, Before
  <2>4. lockPath \in written => lockPath \in written'
    BY <1>2, <2>1, <2>2
  <2> QED
    BY <1>1, <1>3, <1>6, <2>2, <2>3, <2>4, AccountStep
<1> QED
  BY <1>7, <1>8

LEMMA writeAccount ==
    ASSUME OneCallPerProcess, IInv, RecordInv, NEW c \in Callers, write(c) \/ writeFails(c)
    PROVE  RecordInv'
<1>1. /\ call[c] \in Local /\ TypeOK /\ ProcOf[c] \in alive
      /\ Accounted(ProcOf[c], call[c], Pending(c), lockPath, written, alive)
      /\ Pending(c) \in Files \cup {None}
      /\ call[c].pc = "write" /\ alive' = alive /\ Remember(c, Pending(c))
  BY PendingType, UnchangedRecord DEF IInv, GateInv, TypeOK, RecordInv, write, writeFails, At,
     procVars
<1>2. /\ call[c].file # None /\ lockPath = call[c].file
      /\ Owner(lockPath) = ProcOf[c] /\ Pending(c) # lockPath
  BY <1>1, CrossProcessAssumption DEF IInv, PathInv, OwnerIsAtPath, FilesAreOwn, Owning, Pending
<1>3. call[c].cand = None
  BY <1>1, <1>2 DEF Accounted, Tidy, Fileless, Before
<1>4. CASE write(c)
  <2> DEFINE l == [call[c] EXCEPT !.pc = "readdir", !.scan = "after"]
  <2>1. /\ l.pc = "readdir" /\ l.scan = "after" /\ l.file = call[c].file
        /\ l.cand = call[c].cand
    BY <1>1 DEF Local
  <2>2. Goto(c, l) /\ lockPath' = lockPath /\ written' = written \cup {call[c].file}
    BY <1>4 DEF write
  <2> HIDE DEF l
  <2>3. Accounted(ProcOf[c], l, Pending(c), lockPath', written', alive)
    BY <1>1, <1>2, <1>3, <2>1, <2>2 DEF Accounted, Tidy, Fileless, Before
  <2> HIDE DEF Pending
  <2> QED
    BY <1>1, <2>2, <2>3, AccountStep
<1>5. CASE writeFails(c)
  <2> DEFINE k == [call[c] EXCEPT !.pc = "lstat", !.file = None]
  <2>1. PICK l \in {Idle} \cup Contended(c) : Goto(c, l)
    BY <1>5 DEF writeFails
  <2>2. k.pc = "lstat" /\ k.file = None /\ k.cand = call[c].cand
    BY <1>1 DEF Local
  <2>3. Fresh(l, Pending(c)) \/ l = k
    BY <1>1, <2>1, IdleFresh, RetryFresh DEF Contended
  <2> HIDE DEF k
  <2>4. lockPath' = None /\ written' = written
    BY <1>5 DEF writeFails
  <2>5. Accounted(ProcOf[c], l, Pending(c), lockPath', written', alive)
    <3>1. CASE Fresh(l, Pending(c))
      BY <1>1, <2>4, <3>1 DEF Accounted, Fresh, Tidy, Fileless, Before
    <3>2. CASE l = k
      BY <1>1, <2>2, <2>4, <3>2 DEF Accounted, Tidy, Fileless, Before
    <3> QED
      BY <2>3, <3>1, <3>2
  <2> HIDE DEF Pending
  <2> QED
    BY <1>1, <2>1, <2>4, <2>5, AccountStep
<1> QED
  BY <1>4, <1>5

LEMMA publishAccount ==
    ASSUME OneCallPerProcess, IInv, RecordInv, NEW c \in Callers, publish(c), lockPath = None
    PROVE  RecordInv'
<1>1. /\ call[c] \in Local /\ TypeOK /\ ProcOf[c] \in alive /\ ProcOf[c] \in Processes
      /\ Accounted(ProcOf[c], call[c], Pending(c), lockPath, written, alive)
      /\ call[c].pc = "publish" /\ alive' = alive /\ Remember(c, Pending(c))
  BY CrossProcessAssumption, UnchangedRecord DEF IInv, GateInv, TypeOK, RecordInv, publish, At,
     procVars
<1>2. PICK f \in FreeFiles(ProcOf[c]) :
         /\ lockPath' = f /\ written' = written \ {f}
         /\ Goto(c, [call[c] EXCEPT !.pc = "write", !.file = f])
  BY DEF publish
<1>3. /\ f \in Files /\ f # None /\ Owner(f) = ProcOf[c] /\ f # Pending(c) /\ f # lockPath
      /\ \A d \in Callers : f # call[d].file
  BY <1>2, CrossProcessAssumption DEF FreeFiles, Pending
<1> DEFINE l == [call[c] EXCEPT !.pc = "write", !.file = f]
<1>4. l.pc = "write" /\ l.file = f /\ l.cand = call[c].cand /\ l.moved = call[c].moved
  BY <1>1 DEF Local
<1> HIDE DEF l
<1>5. Goto(c, l)
  BY <1>2 DEF l
<1>6. \A d \in Callers \ {c} : call[d].file \in written => call[d].file \in written'
  BY <1>2, <1>3
<1>7. Accounted(ProcOf[c], l, Pending(c), lockPath', written', alive)
  BY <1>1, <1>2, <1>3, <1>4 DEF Accounted, Tidy, Fileless, Before
<1>8. lockPath \in written => lockPath \in written'
  BY <1>2, <1>3
<1> HIDE DEF Pending
<1> QED
  BY <1>1, <1>2, <1>3, <1>5, <1>6, <1>7, <1>8, AccountStep

LEMMA crashAccount ==
    ASSUME OneCallPerProcess, IInv, RecordInv, NEW p \in Processes, crash(p) PROVE RecordInv'
<1>1. /\ alive' = alive \ {p} /\ UNCHANGED <<lockPath, written>>
      /\ \A c \in Callers : ProcOf[c] # p => call'[c] = call[c] /\ Pending(c)' = Pending(c)
  BY CrossProcessAssumption DEF crash, fileVars, Pending, IInv, GateInv, TypeOK
<1>2. ASSUME NEW c \in Callers, ProcOf[c] \in alive'
      PROVE  Accounted(ProcOf[c], call'[c], Pending(c)', lockPath', written', alive')
  <2>1. Accounted(ProcOf[c], call[c], Pending(c), lockPath, written, alive)
    BY <1>1, <1>2 DEF RecordInv
  <2>2. Accounted(ProcOf[c], call[c], Pending(c), lockPath, written, alive')
    BY <1>1, <2>1 DEF Accounted
  <2> QED
    BY <1>1, <1>2, <2>2
<1>3. lockPath' # None /\ Owner(lockPath') \in alive' =>
         \E d \in Callers : ProcOf[d] = Owner(lockPath')
  BY <1>1 DEF RecordInv
<1> QED
  BY <1>2, <1>3 DEF RecordInv

LEMMA RecordInit == Init => RecordInv
<1> SUFFICES ASSUME Init PROVE RecordInv
  OBVIOUS
<1>1. /\ lockPath = None /\ \A c \in Callers : call[c] = Idle /\ Pending(c) = None
      /\ Idle.file = None /\ Idle.cand = None /\ Idle.pc = "idle"
  BY CrossProcessAssumption DEF Init, Idle, Pending
<1> QED
  BY <1>1 DEF RecordInv, Accounted, Tidy, Fileless, Before

LEMMA RecordNext ==
    OneCallPerProcess /\ IInv /\ RecordInv /\ [Next]_vars => RecordInv'
<1> SUFFICES ASSUME OneCallPerProcess, IInv, RecordInv, [Next]_vars PROVE RecordInv'
  OBVIOUS
<1>1. ASSUME NEW c \in Callers, begin(c) \/ Step(c) \/ Fails(c) PROVE RecordInv'
  <2>1. CASE publish(c) /\ lockPath = None
    BY <2>1, publishAccount
  <2>2. CASE \/ begin(c) \/ recover(c) \/ endTask(c) \/ (publish(c) /\ lockPath # None)
             \/ lstat(c) \/ read(c)
    BY <2>2, acquireAccount
  <2>3. CASE relstat(c) \/ reread(c) \/ renameFails(c) \/ readOwn(c) \/ renameOwnFails(c)
    BY <2>3, transactionAccount
  <2>4. CASE mkdir(c) \/ open(c) \/ stamp(c) \/ stampFails(c) \/ leave(c) \/ forfeit(c)
    BY <2>4, gateActionsAccount
  <2>5. CASE inspect(c) \/ readMoved(c)
    BY <2>5, movedAccount
  <2>6. CASE rename(c) \/ renameOwn(c)
    BY <2>6, renameAccount
  <2>7. CASE write(c) \/ writeFails(c)
    BY <2>7, writeAccount
  <2>8. CASE readdir(c) \/ \E g \in call[c].todo : expired(c, g) \/ active(c, g)
    BY <2>8, scanAccount
  <2> QED
    BY <1>1, <2>1, <2>2, <2>3, <2>4, <2>5, <2>6, <2>7, <2>8 DEF Step, Fails
<1>2. CASE UNCHANGED vars
  <2>1. UNCHANGED <<lockPath, written, alive, call, pendingAdvisoryRecovery>>
    BY <1>2 DEF vars, fileVars, procVars
  <2>2. \A c \in Callers : Pending(c)' = Pending(c)
    BY <2>1 DEF Pending
  <2> QED
    BY <2>1, <2>2 DEF RecordInv
<1> QED
  BY <1>1, <1>2, crashAccount DEF Next

\* "leaving a recoverable owner record": when every process acquires the lock by
\* one call at a time, and no write takes longer than LOCK_STALE_MS, the record
\* of a live process, which nobody may take over, belongs to a call that will
\* release it or is known to the process's next call.
THEOREM RecordsAreRemembered ==
    ASSUME ~SlowWriters, OneCallPerProcess PROVE Spec => []NoForgottenLock
<1>1. RecordInv => NoForgottenLock
  <2> SUFFICES ASSUME RecordInv, lockPath # None, Owner(lockPath) \in alive
               PROVE  \/ pendingAdvisoryRecovery[Owner(lockPath)] = lockPath
                      \/ \E c \in Callers : call[c].file = lockPath
    BY DEF NoForgottenLock
  <2> QED
    BY DEF RecordInv, Accounted, Pending
<1>2. Init => RecordInv
  BY RecordInit
<1>3. IInv /\ RecordInv /\ [Next]_vars => RecordInv'
  BY RecordNext
<1> QED
  BY <1>1, <1>2, <1>3, Inductive, PTL DEF Spec
=============================================================================
