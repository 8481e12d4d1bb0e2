----------------------- MODULE CrossProcessLockProofs -----------------------
(***************************************************************************)
(* The cross-process lock excludes, for any processes, callers, crashes    *)
(* and failing calls, as long as no write takes longer than LOCK_STALE_MS. *)
(*                                                                         *)
(* Two invariants, the second on top of the first.  GateInv: the election  *)
(* admits one caller.  A gate is stamped after it exists, so of two gates  *)
(* the one stamped later has listed the other, which its live owner keeps. *)
(* PathInv: a file under lockPath whose owner lives is renamed away by its *)
(* owner only, because a takeover has looked twice, the second time behind *)
(* the gate.                                                               *)
(***************************************************************************)
EXTENDS CrossProcessLock, TLAPS

-----------------------------------------------------------------------------
(* The invariants *)

Electing(c) == call[c].pc \in {"readdir", "entry"} /\ call[c].scan = "elect"

\* c has a gate, and its record is complete.
HasGate(c) == call[c].gate # None
Stamped(c) == HasGate(c) /\ call[c].pc # "stamp"

DeadAreIdle == \A c \in Callers : ProcOf[c] \notin alive => call[c] = Idle

GateAtItsPoints ==
    \A c \in Callers :
        HasGate(c) <=> \/ InTransaction(c) \/ Electing(c)
                       \/ call[c].pc \in {"stamp", "leave", "forfeit"}

RecoveryScansFirst == \A c \in Callers : call[c].pc = "recover" => call[c].scan = "before"

\* A caller's gate exists, and nobody else may delete it.
GateIsKept ==
    \A c \in Callers : HasGate(c) =>
        /\ call[c].gate \in gates /\ call[c].gate \notin released
        /\ Owner(call[c].gate) = ProcOf[c]
        /\ \A p \in Processes : call[c].gate \notin pendingOwnGateCleanup[p]
        /\ call[c].gate \in stamped <=> call[c].pc # "stamp"

GatesDiffer ==
    \A c, d \in Callers : c # d /\ HasGate(c) => call[c].gate # call[d].gate

CleanupIsOwn ==
    \A p \in Processes : \A g \in pendingOwnGateCleanup[p] : Owner(g) = p

\* The stamps order the gates: an unstamped one is before none, of two others
\* one is before the other.
UnstampedIsLast ==
    \A c \in Callers : call[c].pc = "stamp" =>
        \A g \in Gates : call[c].gate \notin earlier[g]
StampsAreOrdered ==
    \A c, d \in Callers : c # d /\ Stamped(c) /\ Stamped(d) =>
        call[c].gate \in earlier[call[d].gate] \/ call[d].gate \in earlier[call[c].gate]

\* An election misses no gate that precedes the caller's, and who won it is
\* preceded by none.
ListingIsComplete ==
    \A c, d \in Callers :
        /\ c # d /\ call[c].pc = "entry" /\ Electing(c) /\ Stamped(d)
        /\ call[d].gate \in earlier[call[c].gate]
        => call[d].gate \in call[c].todo \cup call[c].seen
WinnerIsFirst ==
    \A c, d \in Callers : c # d /\ InTransaction(c) /\ Stamped(d) =>
        call[d].gate \notin earlier[call[c].gate]

GateInv == /\ TypeOK /\ DeadAreIdle /\ RecoveryScansFirst /\ GateAtItsPoints /\ GateIsKept /\ GatesDiffer
           /\ CleanupIsOwn /\ UnstampedIsLast /\ StampsAreOrdered
           /\ ListingIsComplete /\ WinnerIsFirst

\* From the creation of its file to the end of its task.
Owning(l) == \/ l.pc \in {"write", "task"}
             \/ l.pc \in {"readdir", "entry"} /\ l.scan = "after"

FilesAreOwn ==
    /\ \A c \in Callers : call[c].file # None => Owner(call[c].file) = ProcOf[c]
    /\ \A p \in Processes : pendingAdvisoryRecovery[p] # None =>
           Owner(pendingAdvisoryRecovery[p]) = p

OwnerIsAtPath ==
    \A c \in Callers : Owning(call[c]) =>
        /\ call[c].file # None /\ lockPath = call[c].file
        /\ lockPath \in written <=> call[c].pc # "write"
        /\ \A p \in Processes : pendingAdvisoryRecovery[p] # lockPath
        /\ \A d \in Callers : c # d => call[d].file # lockPath

\* What holds of a caller's local state l.  A caller that will release a lock
\* knows its file;
ReleaseHasFile(l) ==
    /\ l.pc \in {"recover", "readOwn", "renameOwn", "readMoved"} => l.file # None
    /\ l.pc \in {"mkdir", "open", "stamp", "forfeit"} => l.cand # None \/ l.file # None
    /\ l.pc \in {"readdir", "entry"} /\ l.scan = "elect" => l.cand # None \/ l.file # None

\* a candidate without a record is one whose owner died before writing it;
CandidateIsDead(l) ==
    /\ l.cand # None /\ ~l.cand.sized => Owner(l.cand.file) \notin alive
    /\ l.pc \in {"relstat", "reread", "rename"} => l.cand # None

\* what is about to be renamed is a dead owner's, or the caller's own;
TakeoverIsSafe(l) ==
    /\ l.pc \in {"reread", "rename"} =>
          /\ lockPath = l.cand.file
          /\ lockPath \notin written => Owner(lockPath) \notin alive
    /\ l.pc = "rename" => Owner(lockPath) \notin alive
    /\ l.pc = "renameOwn" => lockPath = l.file

\* and what was renamed is not at lockPath any more.
MovedIsAway(l) ==
    l.pc \in {"inspect", "readMoved"} => l.moved # None /\ l.moved # lockPath

Sound(l) ==
    /\ ReleaseHasFile(l) /\ CandidateIsDead(l) /\ TakeoverIsSafe(l) /\ MovedIsAway(l)

PathInv == FilesAreOwn /\ OwnerIsAtPath /\ \A c \in Callers : Sound(call[c])

IInv == GateInv /\ PathInv

-----------------------------------------------------------------------------
(* Local states *)

Proper(l) == /\ l \in Local
             /\ l.pc = "read" => l.cand # None
             /\ l.pc = "write" => l.file # None
CallsProper == call \in [Callers -> Local] /\ \A c \in Callers : Proper(call[c])

\* A caller's local state at the top of the loop, or after its return.
Fresh(l, f) ==
    /\ l \in Local /\ l.gate = None /\ l.cand = None /\ l.moved = None
    /\ l.scan = "before" /\ l.todo = {} /\ l.seen = {}
    /\ \/ l.pc \in {"idle", "readdir"} /\ l.file = None
       \/ l.pc = "recover" /\ l.file = f /\ f # None

LEMMA IdleFresh == ASSUME NEW f PROVE Fresh(Idle, f)
  BY CrossProcessAssumption DEF Fresh, Idle, Local, Points

LEMMA LoopFresh ==
    ASSUME TypeOK, NEW c \in Callers, NEW f \in Files \cup {None}
    PROVE  Fresh(Loop(c, f), f)
<1>1. call[c] \in Local
  BY DEF TypeOK
<1> QED
  BY <1>1 DEF Fresh, Loop, Idle, Local, Points

LEMMA ResumeFresh ==
    ASSUME TypeOK, NEW c \in Callers, NEW f \in Files \cup {None}, NEW k \in Resume(c, f)
    PROVE  Fresh(k, f)
<1>1. call[c] \in Local
  BY DEF TypeOK
<1>2. Fresh([Idle EXCEPT !.pc = "readdir", !.takeovers = call[c].takeovers], f)
  BY <1>1 DEF Fresh, Idle, Local, Points
<1> QED
  BY <1>2, IdleFresh, LoopFresh DEF Resume

LEMMA PendingType ==
    ASSUME TypeOK, NEW c \in Callers PROVE Pending(c) \in Files \cup {None}
  BY CrossProcessAssumption DEF TypeOK, Pending

LEMMA RetryFresh ==
    ASSUME TypeOK, NEW c \in Callers, NEW k \in Retry(c) PROVE Fresh(k, Pending(c))
  BY IdleFresh, LoopFresh, PendingType DEF Retry

\* What follows a listing whose active gates are l.seen.
LEMMA FoundCases ==
    ASSUME TypeOK, NEW c \in Callers, NEW l \in Local, NEW k \in Found(c, l)
    PROVE  \/ l.scan = "before" /\ k = [l EXCEPT !.todo = {}, !.seen = {}, !.pc = "publish"]
           \/ l.scan = "before" /\ Fresh(k, Pending(c))
           \/ l.scan = "after" /\ k = [l EXCEPT !.todo = {}, !.seen = {}, !.pc = "task"]
           \/ /\ l.scan = "after"
              /\ k = [l EXCEPT !.todo = {}, !.seen = {}, !.pc = "mkdir",
                               !.then = "retry", !.cand = None]
           \/ /\ l.scan = "elect" /\ Won(l) /\ l.cand = None
              /\ k = [l EXCEPT !.todo = {}, !.seen = {}, !.pc = "readOwn"]
           \/ /\ l.scan = "elect" /\ Won(l) /\ l.cand # None
              /\ k = [l EXCEPT !.todo = {}, !.seen = {}, !.pc = "relstat"]
           \/ l.scan = "elect" /\ k = [l EXCEPT !.todo = {}, !.seen = {}, !.pc = "forfeit"]
           \/ /\ l.scan = "elect" /\ l.cand = None
              /\ k = [l EXCEPT !.todo = {}, !.seen = {}, !.pc = "readdir"]
<1> l.scan \in {"before", "after", "elect"}
  BY DEF Local
<1>1. CASE l.scan = "before"
  BY <1>1, RetryFresh DEF Found, Local
<1>2. CASE l.scan = "after"
  BY <1>2 DEF Found, Release, Local
<1>3. CASE l.scan = "elect"
  BY <1>3 DEF Found, Local
<1> QED
  BY <1>1, <1>2, <1>3

LEMMA FoundFields ==
    ASSUME TypeOK, NEW c \in Callers, NEW l \in Local, NEW k \in Found(c, l)
    PROVE  \/ l.scan = "before" /\ Fresh(k, Pending(c))
           \/ /\ k.gate = l.gate /\ k.scan = l.scan /\ k.file = l.file /\ k.moved = l.moved
              /\ k.todo = {} /\ k.seen = {}
              /\ \/ l.scan = "before" /\ k.pc = "publish" /\ k.cand = l.cand
                 \/ l.scan = "after" /\ k.pc = "task" /\ k.cand = l.cand
                 \/ l.scan = "after" /\ k.pc = "mkdir" /\ k.cand = None
                 \/ /\ l.scan = "elect" /\ k.cand = l.cand
                    /\ \/ Won(l) /\ l.cand = None /\ k.pc = "readOwn"
                       \/ Won(l) /\ l.cand # None /\ k.pc = "relstat"
                       \/ k.pc = "forfeit"
                       \/ k.pc = "readdir" /\ l.cand = None
<1> DEFINE K(point) == [l EXCEPT !.todo = {}, !.seen = {}, !.pc = point]
           M == [l EXCEPT !.todo = {}, !.seen = {}, !.pc = "mkdir", !.then = "retry", !.cand = None]
<1>1. \A point : /\ K(point).gate = l.gate /\ K(point).scan = l.scan /\ K(point).file = l.file
                 /\ K(point).moved = l.moved /\ K(point).todo = {} /\ K(point).seen = {}
                 /\ K(point).pc = point /\ K(point).cand = l.cand
  BY DEF Local
<1>2. /\ M.gate = l.gate /\ M.scan = l.scan /\ M.file = l.file /\ M.moved = l.moved
      /\ M.todo = {} /\ M.seen = {} /\ M.pc = "mkdir" /\ M.cand = None
  BY DEF Local
<1>3. \/ l.scan = "before" /\ (k = K("publish") \/ Fresh(k, Pending(c)))
      \/ l.scan = "after" /\ (k = K("task") \/ k = M)
      \/ /\ l.scan = "elect"
         /\ \/ Won(l) /\ l.cand = None /\ k = K("readOwn")
            \/ Won(l) /\ l.cand # None /\ k = K("relstat")
            \/ k = K("forfeit")
            \/ l.cand = None /\ k = K("readdir")
  BY FoundCases
<1> HIDE DEF K, M
<1> QED
  BY <1>1, <1>2, <1>3

\* Steps to another point, and what a step may change besides.
LEMMA MoveProper ==
    ASSUME NEW l \in Local, NEW point \in Points \ {"read", "write"}
    PROVE  /\ Proper([l EXCEPT !.pc = point])
           /\ \A then \in {"idle", "loop", "retry", "check"} :
                 Proper([l EXCEPT !.pc = point, !.then = then])
           /\ \A f \in Files : Proper([l EXCEPT !.pc = point, !.moved = f])
<1>1. Proper([l EXCEPT !.pc = point])
  BY DEF Proper, Local
<1>2. ASSUME NEW then \in {"idle", "loop", "retry", "check"}
      PROVE  Proper([l EXCEPT !.pc = point, !.then = then])
  BY DEF Proper, Local
<1>3. ASSUME NEW f \in Files PROVE Proper([l EXCEPT !.pc = point, !.moved = f])
  BY DEF Proper, Local
<1> QED
  BY <1>1, <1>2, <1>3

LEMMA FoundType ==
    ASSUME TypeOK, NEW c \in Callers, NEW l \in Local, NEW k \in Found(c, l)
    PROVE  Proper(k)
<1> DEFINE K(point) == [l EXCEPT !.todo = {}, !.seen = {}, !.pc = point]
<1>1. \A point \in Points \ {"read", "write"} : Proper(K(point))
  BY DEF Local, Proper
<1>2. Proper([l EXCEPT !.todo = {}, !.seen = {}, !.pc = "mkdir", !.then = "retry",
                       !.cand = None])
  BY DEF Proper, Local, Points
<1>3. {"publish", "task", "readOwn", "relstat", "forfeit", "readdir"} \subseteq Points \ {"read", "write"}
  BY DEF Points
<1>4. /\ Proper(K("publish")) /\ Proper(K("task")) /\ Proper(K("readOwn"))
      /\ Proper(K("relstat")) /\ Proper(K("forfeit")) /\ Proper(K("readdir"))
  BY <1>1, <1>3
<1>5. Fresh(k, Pending(c)) => Proper(k)
  BY DEF Fresh, Proper
<1> HIDE DEF K
<1> QED
  BY <1>2, <1>4, <1>5, FoundCases DEF K

-----------------------------------------------------------------------------
(* Types *)

LEMMA GotoType ==
    ASSUME TypeOK, NEW c \in Callers, NEW l, Proper(l), Goto(c, l)
    PROVE  CallsProper'
  BY DEF TypeOK, Goto, Proper, CallsProper

LEMMA ContendedType ==
    ASSUME TypeOK, NEW c \in Callers, NEW k \in Contended(c) PROVE Proper(k)
<1>1. call[c] \in Local
  BY DEF TypeOK
<1>2. Proper([call[c] EXCEPT !.pc = "lstat", !.file = None])
  BY <1>1 DEF Proper, Local, Points
<1> QED
  BY <1>2, RetryFresh DEF Contended, Fresh, Proper

LEMMA SkipType ==
    ASSUME TypeOK, NEW c \in Callers, NEW g, NEW S \in SUBSET Gates, Skip(c, g, S)
    PROVE  CallsProper'
<1> DEFINE l == [call[c] EXCEPT !.todo = @ \ {g}, !.seen = S]
<1>1. l \in Local /\ Proper(l)
  BY DEF TypeOK, Local, Proper
<1>2. CASE l.todo = {}
  BY <1>1, <1>2, FoundType, GotoType DEF Skip
<1>3. CASE l.todo # {}
  BY <1>1, <1>3, GotoType DEF Skip
<1> QED
  BY <1>2, <1>3

LEMMA NoGateType ==
    ASSUME TypeOK, NEW c \in Callers, NoGate(c)
    PROVE  /\ CallsProper'
           /\ pendingAdvisoryRecovery' \in [Processes -> Files \cup {None}]
           /\ alive' = alive
<1>1. call[c].file \in Files \cup {None} /\ ProcOf[c] \in Processes
  BY CrossProcessAssumption DEF TypeOK, Local
<1>2. CASE call[c].cand # None
  BY <1>2, IdleFresh, GotoType DEF NoGate, Fresh, Proper, TypeOK, procVars
<1>3. CASE call[c].cand = None
  <2>1. PICK k \in Resume(c, call[c].file) : Goto(c, k)
    BY <1>3 DEF NoGate
  <2>2. Proper(k)
    BY <1>1, <2>1, ResumeFresh DEF Fresh, Proper
  <2>3. Remember(c, call[c].file) /\ alive' = alive
    BY <1>3 DEF NoGate
  <2> QED
    BY <1>1, <2>1, <2>2, <2>3, GotoType DEF Remember, TypeOK
<1> QED
  BY <1>2, <1>3

\* Every step of a caller that is not one of the gate's keeps the gate's types.
GateTypes ==
    /\ dir \in BOOLEAN /\ gates \subseteq Gates
    /\ stamped \subseteq gates /\ released \subseteq gates
    /\ earlier \in [Gates -> SUBSET Gates]

LEMMA WithoutTypes ==
    ASSUME GateTypes, NEW S, Without(S), dir' \in BOOLEAN PROVE GateTypes'
  BY DEF GateTypes, Without

LEMMA TypeStep ==
    ASSUME TypeOK, GateIsKept, GateAtItsPoints, NEW c \in Callers, begin(c) \/ Step(c) \/ Fails(c)
    PROVE  TypeOK'
<1> DEFINE L == call[c]
<1> /\ L \in Local /\ ProcOf[c] \in Processes
    /\ L.file \in Files \cup {None} /\ L.gate \in Gates \cup {None}
    /\ L.moved \in Files \cup {None} /\ L.seen \in SUBSET Gates
    /\ L.then \in {"idle", "loop", "retry", "check"} /\ L.cand \in Candidate \cup {None}
  BY CrossProcessAssumption DEF TypeOK, Local
<1> HIDE DEF L
<1> Pending(c) \in Files \cup {None}
  BY PendingType
<1> USE DEF fileVars, gateVars, procVars, boundVars
<1>1. CASE begin(c)
  <2> Proper(Loop(c, Pending(c)))
    BY LoopFresh DEF Fresh, Proper
  <2> QED
    BY <1>1, GotoType DEF begin, TypeOK, CallsProper, Proper
<1>2. CASE recover(c)
  <2> /\ Proper(Release(L, "check")) /\ Proper([L EXCEPT !.pc = "readdir", !.file = None])
    BY DEF Proper, Local, Release, Points
  <2> QED
    BY <1>2, GotoType DEF recover, TypeOK, CallsProper, Proper, Remember, L
<1>3. CASE readdir(c)
  <2> DEFINE l == [L EXCEPT !.pc = "entry", !.todo = gates \ Leftover(c)]
  <2>1. l \in Local /\ Proper(l)
    BY DEF Local, Points, TypeOK, Proper
  <2>2. CallsProper'
    BY <1>3, <2>1, FoundType, GotoType DEF readdir, L
  <2>3. GateTypes'
    BY <1>3, WithoutTypes DEF readdir, TypeOK, GateTypes
  <2> QED
    BY <1>3, <2>2, <2>3 DEF readdir, TypeOK, CallsProper, Proper, GateTypes
<1>4. CASE publish(c)
  <2>1. CASE lockPath # None
    BY <1>4, <2>1, ContendedType, GotoType DEF publish, TypeOK, CallsProper, Proper
  <2>2. CASE lockPath = None
    <3>1. PICK f \in FreeFiles(ProcOf[c]) :
             /\ lockPath' = f /\ written' = written \ {f}
             /\ Goto(c, [L EXCEPT !.pc = "write", !.file = f])
      BY <1>4, <2>2 DEF publish, L
    <3>2. f \in Files
      BY DEF FreeFiles
    <3>3. Proper([L EXCEPT !.pc = "write", !.file = f])
      <4>1. [L EXCEPT !.pc = "write", !.file = f] \in Local
        BY <3>2 DEF Local, Points
      <4>2. f # None
        BY <3>2, CrossProcessAssumption
      <4> QED
        BY <4>1, <4>2 DEF Proper, Local
    <3> QED
      BY <1>4, <3>1, <3>2, <3>3, GotoType DEF publish, TypeOK, CallsProper, Proper
  <2> QED
    BY <2>1, <2>2
<1>5. CASE write(c)
  <2>1. Proper([L EXCEPT !.pc = "readdir", !.scan = "after"])
    BY DEF Proper, Local, Points
  <2>2. L.file # None
    BY <1>5 DEF write, At, TypeOK, L
  <2>3. Goto(c, [L EXCEPT !.pc = "readdir", !.scan = "after"]) /\ written' = written \cup {L.file}
    BY <1>5 DEF write, L
  <2> QED
    BY <1>5, <2>1, <2>2, <2>3, GotoType DEF write, TypeOK, CallsProper, Proper
<1>6. CASE writeFails(c)
  <2>1. PICK k \in {Idle} \cup Contended(c) : Goto(c, k)
    BY <1>6 DEF writeFails
  <2>2. Proper(k)
    BY IdleFresh, ContendedType DEF Fresh, Proper
  <2> QED
    BY <1>6, <2>1, <2>2, GotoType DEF writeFails, MayFail, TypeOK, CallsProper, Proper
<1>7. CASE endTask(c)
  <2> Proper(Release(L, "idle"))
    BY DEF Proper, Local, Release, Points
  <2> QED
    BY <1>7, GotoType DEF endTask, TypeOK, CallsProper, Proper, L
<1>8. CASE lstat(c)
  <2>1. CASE \E k \in Retry(c) : Goto(c, k)
    BY <1>8, <2>1, RetryFresh, GotoType DEF lstat, TypeOK, CallsProper, Fresh, Proper
  <2>2. CASE ~ \E k \in Retry(c) : Goto(c, k)
    <3> DEFINE n == [file |-> lockPath, sized |-> lockPath \in written, record |-> None]
    <3>1. lockPath # None /\ Goto(c, [L EXCEPT !.pc = "read", !.cand = n])
      BY <1>8, <2>2 DEF lstat, L
    <3>2. n \in Candidate
      BY <3>1 DEF Candidate, TypeOK
    <3>3. Proper([L EXCEPT !.pc = "read", !.cand = n])
      BY <3>2, CrossProcessAssumption DEF Proper, Local, Points
    <3> QED
      BY <1>8, <3>1, <3>3, GotoType DEF lstat, TypeOK, CallsProper, Proper
  <2> QED
    BY <2>1, <2>2
<1>9. CASE read(c)
  <2>1. CASE \E k \in Retry(c) : Goto(c, k)
    BY <1>9, <2>1, RetryFresh, GotoType DEF read, TypeOK, CallsProper, Fresh, Proper
  <2>2. CASE ~ \E k \in Retry(c) : Goto(c, k)
    <3> DEFINE l == [L EXCEPT !.pc = "mkdir", !.cand.record = Record, !.takeovers = @ + 1]
    <3>1. Goto(c, l)
      BY <1>9, <2>2 DEF read, L
    <3>2. Record \in Files \cup {None}
      BY DEF Record, TypeOK
    <3>3. L.cand \in Candidate
      BY <1>9 DEF read, At, L, TypeOK, Local
    <3>4. [L.cand EXCEPT !.record = Record] \in Candidate
      BY <3>2, <3>3 DEF Candidate
    <3>5. ASSUME NEW n \in Candidate
          PROVE  Proper([L EXCEPT !.pc = "mkdir", !.cand = n, !.takeovers = L.takeovers + 1])
      <4> DEFINE m == [L EXCEPT !.pc = "mkdir", !.cand = n, !.takeovers = L.takeovers + 1]
      <4>0. L.takeovers + 1 \in Nat
        BY DEF Local
      <4>1. m \in Local
        BY <4>0 DEF Local, Points
      <4>2. m.pc = "mkdir"
        BY DEF Local
      <4> HIDE DEF m
      <4>3. Proper(m)
        BY <4>1, <4>2 DEF Proper
      <4> QED
        BY <4>3 DEF m
    <3>6. l = [L EXCEPT !.pc = "mkdir", !.cand = [L.cand EXCEPT !.record = Record],
                        !.takeovers = L.takeovers + 1]
      BY DEF Local
    <3>7. Proper(l)
      <4> HIDE DEF l
      <4> QED
        BY <3>4, <3>5, <3>6
    <3> QED
      BY <1>9, <3>1, <3>7, GotoType DEF read, TypeOK, CallsProper, Proper
  <2> QED
    BY <2>1, <2>2
<1>10. CASE \E g \in call[c].todo : expired(c, g) \/ active(c, g)
  <2>1. PICK g \in call[c].todo : expired(c, g) \/ active(c, g)
    BY <1>10
  <2>2. CASE expired(c, g)
    <3>1. CallsProper'
      BY <2>2, SkipType DEF expired, L
    <3>2. GateTypes'
      BY <2>2, WithoutTypes DEF expired, TypeOK, GateTypes
    <3> QED
      BY <2>2, <3>1, <3>2 DEF expired, TypeOK, CallsProper, Proper, GateTypes
  <2>3. CASE active(c, g)
    <3>1. g \in Gates
      BY <2>3 DEF active, TypeOK
    <3>2. [L EXCEPT !.seen = {g}] \in Local
      BY <3>1 DEF Local
    <3>3. CallsProper'
      BY <2>3, <3>1, <3>2, SkipType, FoundType, GotoType DEF active, L
    <3> QED
      BY <2>3, <3>3 DEF active, TypeOK, CallsProper, Proper
  <2> QED
    BY <2>1, <2>2, <2>3
<1>11. CASE relstat(c) \/ reread(c) \/ renameFails(c) \/ readOwn(c)
  <2> /\ Proper([L EXCEPT !.pc = "reread"]) /\ Proper([L EXCEPT !.pc = "rename"])
      /\ Proper([L EXCEPT !.pc = "renameOwn"])
      /\ Proper([L EXCEPT !.pc = "leave", !.then = "loop"])
      /\ Proper([L EXCEPT !.pc = "leave", !.then = "idle"])
      /\ Proper([L EXCEPT !.pc = "leave", !.then = L.then])
    BY MoveProper DEF Points
  <2> DEFINE outcomes == {[L EXCEPT !.pc = "reread"], [L EXCEPT !.pc = "rename"],
                          [L EXCEPT !.pc = "renameOwn"],
                          [L EXCEPT !.pc = "leave", !.then = "loop"],
                          [L EXCEPT !.pc = "leave", !.then = "idle"],
                          [L EXCEPT !.pc = "leave", !.then = L.then]}
  <2>0. \E k \in outcomes : Goto(c, k)
    BY <1>11 DEF relstat, reread, renameFails, readOwn, Leave, L
  <2>1. CallsProper'
    <3> HIDE DEF Proper
    <3>1. \A k \in outcomes : Proper(k)
      OBVIOUS
    <3> QED
      BY <2>0, <3>1, GotoType
  <2>3. CASE renameFails(c)
    BY <2>1, <2>3 DEF renameFails, MayFail, TypeOK, CallsProper, Proper
  <2>4. CASE relstat(c) \/ reread(c) \/ readOwn(c)
    BY <2>1, <2>4 DEF relstat, reread, readOwn, TypeOK, CallsProper, Proper
  <2> QED
    BY <1>11, <2>3, <2>4
<1>12. CASE rename(c) \/ inspect(c)
  <2> /\ Proper([L EXCEPT !.pc = "leave", !.then = "loop"])
      /\ Proper([L EXCEPT !.pc = "leave", !.then = "idle"])
      /\ lockPath # None => Proper([L EXCEPT !.pc = "inspect", !.moved = lockPath])
    BY MoveProper DEF Points, TypeOK
  <2>1. CallsProper'
    BY <1>12, GotoType DEF rename, inspect, Leave, L
  <2> QED
    <3>1. CASE rename(c)
      BY <2>1, <3>1 DEF rename, TypeOK, CallsProper, Proper
    <3>2. CASE inspect(c)
      <4>1. L.moved \in Files \cup {None}
        BY DEF Local
      <4>2. lockPath' \in Files \cup {None} /\ written' \subseteq Files
        BY <3>2, <4>1 DEF inspect, Restored, TypeOK, L
      <4> QED
        BY <2>1, <3>2, <4>2 DEF inspect, TypeOK, CallsProper, Proper
    <3> QED
      BY <1>12, <3>1, <3>2
<1>13. CASE renameOwn(c) \/ renameOwnFails(c) \/ readMoved(c)
  <2> /\ Proper([L EXCEPT !.pc = "leave", !.then = L.then])
      /\ lockPath # None => Proper([L EXCEPT !.pc = "readMoved", !.moved = lockPath])
    BY MoveProper DEF Points, TypeOK
  <2>1. CallsProper'
    BY <1>13, GotoType DEF renameOwn, renameOwnFails, readMoved, Leave, L
  <2>2. pendingAdvisoryRecovery' \in [Processes -> Files \cup {None}]
    BY <1>13 DEF renameOwn, renameOwnFails, readMoved, Remember, TypeOK, L
  <2> QED
    <3>1. L.moved \in Files \cup {None}
      BY DEF Local
    <3>2. lockPath' \in Files \cup {None} /\ written' \subseteq Files
      BY <1>13, <3>1 DEF renameOwn, renameOwnFails, readMoved, Restored, TypeOK, L
    <3> QED
      BY <1>13, <2>1, <2>2, <3>2 DEF renameOwn, renameOwnFails, readMoved, MayFail, TypeOK,
           CallsProper, Proper
<1>14. CASE mkdir(c)
  <2> Proper([L EXCEPT !.pc = "open"])
    BY DEF Proper, Local, Points
  <2>1. CallsProper'
    BY <1>14, GotoType DEF mkdir, L
  <2>2. GateTypes'
    BY <1>14, WithoutTypes DEF mkdir, TypeOK, GateTypes
  <2> QED
    BY <1>14, <2>1, <2>2 DEF mkdir, TypeOK, CallsProper, Proper, GateTypes
<1>15. CASE open(c)
  <2>1. CASE dir
    <3>1. PICK g \in FreeGates(ProcOf[c]) :
             /\ gates' = gates \cup {g}
             /\ earlier' = [h \in Gates |-> IF h = g THEN {} ELSE earlier[h] \ {g}]
             /\ Goto(c, [L EXCEPT !.pc = "stamp", !.gate = g])
             /\ UNCHANGED procVars
      BY <1>15, <2>1 DEF open, L
    <3>2. g \in Gates
      BY DEF FreeGates
    <3>3. Proper([L EXCEPT !.pc = "stamp", !.gate = g])
      BY <3>2 DEF Proper, Local, Points
    <3>4. CallsProper'
      BY <3>1, <3>3, GotoType
    <3>5. earlier' \in [Gates -> SUBSET Gates]
      BY <3>1 DEF TypeOK
    <3> QED
      BY <1>15, <3>1, <3>2, <3>4, <3>5 DEF open, TypeOK, CallsProper, Proper
  <2>2. CASE ~dir
    BY <1>15, <2>2, NoGateType DEF open, TypeOK, CallsProper, Proper
  <2> QED
    BY <2>1, <2>2
<1>16. CASE stamp(c)
  <2>1. L.gate \in gates /\ L.gate # None
    BY <1>16 DEF stamp, At, GateAtItsPoints, GateIsKept, HasGate, L
  <2>2. Proper([L EXCEPT !.pc = "readdir", !.scan = "elect"])
    BY DEF Proper, Local, Points
  <2>3. CallsProper'
    BY <1>16, <2>2, GotoType DEF stamp, L
  <2>4. earlier' \in [Gates -> SUBSET Gates]
    BY <1>16 DEF stamp, TypeOK
  <2>5. stamped' \subseteq gates
    BY <1>16, <2>1 DEF stamp, TypeOK, L
  <2> QED
    BY <1>16, <2>3, <2>4, <2>5 DEF stamp, TypeOK, CallsProper, Proper
<1>17. CASE stampFails(c)
  <2>1. GateTypes'
    BY <1>17, WithoutTypes DEF stampFails, TypeOK, GateTypes
  <2> QED
    BY <1>17, <2>1, NoGateType DEF stampFails, MayFail, TypeOK, CallsProper, Proper, GateTypes
<1>18. ASSUME Close(c) \/ CloseFails(c), L.gate \in gates
       PROVE  /\ GateTypes' /\ pendingOwnGateCleanup' \in [Processes -> SUBSET Gates]
              /\ faults' \in Nat /\ crashes' \in Nat
  <2>1. CASE Close(c)
    BY <2>1, WithoutTypes DEF Close, TypeOK, GateTypes
  <2>2. CASE CloseFails(c)
    <3>1. pendingOwnGateCleanup' \in [Processes -> SUBSET Gates]
      BY <1>18, <2>2 DEF CloseFails, TypeOK, L
    <3> QED
      BY <1>18, <2>2, <3>1 DEF CloseFails, MayFail, TypeOK, GateTypes, L
  <2> QED
    BY <1>18, <2>1, <2>2
<1>19. CASE leave(c)
  <2>1. L.gate \in gates
    BY <1>19 DEF leave, At, GateAtItsPoints, GateIsKept, HasGate, L
  <2>2. PICK k \in Resume(c, Pending(c)) : Goto(c, k)
    BY <1>19 DEF leave
  <2>3. CallsProper'
    BY <2>2, ResumeFresh, GotoType DEF Fresh, Proper
  <2> QED
    BY <1>18, <1>19, <2>1, <2>3 DEF leave, TypeOK, CallsProper, Proper, GateTypes
<1>20. CASE forfeit(c)
  <2>1. L.gate \in gates
    BY <1>20 DEF forfeit, At, GateAtItsPoints, GateIsKept, HasGate, L
  <2> QED
    BY <1>18, <1>20, <2>1, NoGateType DEF forfeit, TypeOK, CallsProper, Proper, GateTypes
<1> QED
  BY <1>1, <1>2, <1>3, <1>4, <1>5, <1>6, <1>7, <1>8, <1>9, <1>10, <1>11, <1>12, <1>13,
     <1>14, <1>15, <1>16, <1>17, <1>19, <1>20 DEF Step, Fails

-----------------------------------------------------------------------------
(* The election *)

\* The points of a caller with a gate, and those of one without.
Gated(l) == \/ l.pc \in {"relstat", "reread", "rename", "inspect", "readOwn",
                         "renameOwn", "readMoved", "stamp", "leave", "forfeit"}
            \/ l.pc \in {"readdir", "entry"} /\ l.scan = "elect"
Fits(l) == /\ l.gate # None <=> Gated(l)
           /\ l.pc = "recover" => l.scan = "before"

\* A step that leaves the gate g of a caller as it is.
Keeps(g) ==
    /\ g \in gates' /\ g \notin released'
    /\ g \in stamped' <=> g \in stamped
    /\ \A p \in Processes : g \notin pendingOwnGateCleanup'[p]

\* c steps to l, which creates and stamps no gate.
GateMove(c, l) ==
    /\ Goto(c, l) /\ earlier' = earlier /\ alive' = alive /\ ProcOf[c] \in alive
    /\ Fits(l) /\ l.pc # "stamp"
    /\ l.gate # None => l.gate = call[c].gate /\ call[c].pc # "stamp"
    /\ \A d \in Callers : HasGate(d) /\ (d # c \/ l.gate # None) => Keeps(call[d].gate)
    /\ CleanupIsOwn'
    /\ \A d \in Callers : c # d /\ Stamped(d) /\ l.gate # None
                          /\ call[d].gate \in earlier[l.gate] =>
         /\ l.pc = "entry" => call[d].gate \in l.todo \cup l.seen
         /\ l.pc \in {"readdir", "entry", "leave", "forfeit"}

LEMMA GateStep ==
    ASSUME GateInv, TypeOK', NEW c \in Callers, NEW l, GateMove(c, l) PROVE GateInv'
<1>1. /\ call'[c] = l /\ \A d \in Callers \ {c} : call'[d] = call[d]
      /\ \A d \in Callers \ {c} : /\ HasGate(d)' <=> HasGate(d)
                                 /\ Stamped(d)' <=> Stamped(d)
  BY DEF GateMove, Goto, GateInv, TypeOK, HasGate, Stamped
<1>2. HasGate(c)' => HasGate(c) /\ Stamped(c) /\ l.gate = call[c].gate /\ Stamped(c)'
  BY <1>1 DEF GateMove, HasGate, Stamped
<1>3. \A d \in Callers : HasGate(d)' => HasGate(d) /\ call'[d].gate = call[d].gate
  BY <1>1, <1>2 DEF HasGate
<1>4. \A d \in Callers : Stamped(d)' => Stamped(d)
  BY <1>1, <1>2 DEF Stamped, HasGate
<1>5. DeadAreIdle'
  BY <1>1 DEF GateInv, DeadAreIdle, GateMove
<1>6. GateAtItsPoints' /\ RecoveryScansFirst'
  BY <1>1 DEF GateInv, GateAtItsPoints, RecoveryScansFirst, GateMove, Fits, Gated, HasGate,
       InTransaction, Electing
<1>7. GateIsKept'
  <2> SUFFICES ASSUME NEW d \in Callers, HasGate(d)'
               PROVE  /\ Keeps(call[d].gate) /\ call'[d].gate = call[d].gate
                      /\ Owner(call[d].gate) = ProcOf[d]
                      /\ (call[d].gate \in stamped) = (call'[d].pc # "stamp")
    <3> HIDE <1>1, <1>2, <1>3
    <3> QED
      BY DEF GateIsKept, Keeps, HasGate
  <2>1. HasGate(d) /\ call'[d].gate = call[d].gate
    BY <1>3
  <2>2. Keeps(call[d].gate)
    BY <1>1, <2>1 DEF GateMove, HasGate
  <2>3. CASE d = c
    BY <1>1, <1>2, <2>1, <2>2, <2>3 DEF GateInv, GateIsKept, GateMove, Stamped
  <2>4. CASE d # c
    BY <1>1, <2>1, <2>2, <2>4 DEF GateInv, GateIsKept
  <2> QED
    BY <2>3, <2>4
<1>8. GatesDiffer'
  <2> SUFFICES ASSUME NEW d \in Callers, NEW e \in Callers, d # e, HasGate(d)'
               PROVE  call'[d].gate # call'[e].gate
    BY DEF GatesDiffer
  <2>1. CASE HasGate(e)'
    BY <1>3, <2>1 DEF GateInv, GatesDiffer
  <2>2. CASE ~HasGate(e)'
    BY <2>2 DEF HasGate
  <2> QED
    BY <2>1, <2>2
<1>9. UnstampedIsLast'
  BY <1>1 DEF GateInv, UnstampedIsLast, GateMove
<1>10. StampsAreOrdered'
  BY <1>3, <1>4 DEF GateInv, StampsAreOrdered, GateMove, Stamped
<1>11. ListingIsComplete'
  <2> SUFFICES ASSUME NEW d \in Callers, NEW e \in Callers,
                      d # e, call'[d].pc = "entry", Electing(d)', Stamped(e)',
                      call'[e].gate \in earlier'[call'[d].gate]
               PROVE  call'[e].gate \in call'[d].todo \cup call'[d].seen
    BY DEF ListingIsComplete
  <2>1. Stamped(e) /\ call'[e].gate = call[e].gate
    BY <1>3, <1>4 DEF Stamped
  <2>2. CASE d = c
    <3>1. l.gate # None
      BY <1>1, <2>2 DEF GateMove, Fits, Gated, Electing
    <3> QED
      BY <1>1, <2>1, <2>2, <3>1 DEF GateMove
  <2>3. CASE d # c
    BY <1>1, <2>1, <2>3 DEF GateInv, ListingIsComplete, Electing, GateMove
  <2> QED
    BY <2>2, <2>3
<1>12. WinnerIsFirst'
  <2> SUFFICES ASSUME NEW d \in Callers, NEW e \in Callers,
                      d # e, InTransaction(d)', Stamped(e)',
                      call'[e].gate \in earlier'[call'[d].gate]
               PROVE  FALSE
    BY DEF WinnerIsFirst
  <2>1. Stamped(e) /\ call'[e].gate = call[e].gate
    BY <1>3, <1>4 DEF Stamped
  <2>2. CASE d = c
    <3>1. l.gate # None
      BY <1>1, <2>2 DEF GateMove, Fits, Gated, InTransaction
    <3> QED
      BY <1>1, <2>1, <2>2, <3>1 DEF GateMove, InTransaction
  <2>3. CASE d # c
    BY <1>1, <2>1, <2>3 DEF GateInv, WinnerIsFirst, InTransaction, GateMove
  <2> QED
    BY <2>2, <2>3
<1> QED
  BY <1>5, <1>6, <1>7, <1>8, <1>9, <1>10, <1>11, <1>12 DEF GateInv, GateMove

\* The steps that touch no gate: outside, and inside the transaction.
Quiet == UNCHANGED <<gateVars, alive, pendingOwnGateCleanup>>

LEMMA KeptWhenQuiet ==
    ASSUME GateInv, Quiet
    PROVE  /\ \A d \in Callers : HasGate(d) => Keeps(call[d].gate)
           /\ CleanupIsOwn'
  BY DEF GateInv, GateIsKept, CleanupIsOwn, Keeps, Quiet, gateVars

LEMMA OutsideStep ==
    ASSUME GateInv, TypeOK', NEW c \in Callers, NEW l, ProcOf[c] \in alive, Goto(c, l),
           Quiet, l.gate = None, Fits(l)
    PROVE  GateInv'
<1>1. l.pc # "stamp"
  BY DEF Fits, Gated
<1>2. GateMove(c, l)
  BY <1>1, KeptWhenQuiet DEF GateMove, Quiet, gateVars
<1> QED
  BY <1>2, GateStep

LEMMA InsideStep ==
    ASSUME GateInv, TypeOK', NEW c \in Callers, NEW l, ProcOf[c] \in alive, Goto(c, l),
           Quiet, InTransaction(c), l.gate = call[c].gate,
           l.pc \in {"reread", "rename", "inspect", "renameOwn", "readMoved", "leave"}
    PROVE  GateInv'
<1>1. HasGate(c) /\ Fits(l) /\ call[c].pc # "stamp"
  BY DEF GateInv, GateAtItsPoints, HasGate, Fits, Gated, InTransaction
<1>2. \A d \in Callers : c # d /\ Stamped(d) => call[d].gate \notin earlier[l.gate]
  BY DEF GateInv, WinnerIsFirst
<1>3. GateMove(c, l)
  BY <1>1, <1>2, KeptWhenQuiet DEF GateMove, Quiet, gateVars
<1> QED
  BY <1>3, GateStep

LEMMA FreshFits == ASSUME NEW l, NEW f, Fresh(l, f) PROVE l.gate = None /\ Fits(l)
  BY DEF Fresh, Fits, Gated

\* What every step of c that keeps the gates of all callers has in common.
AllKept(c) ==
    /\ earlier' = earlier /\ alive' = alive /\ ProcOf[c] \in alive
    /\ CleanupIsOwn' /\ \A d \in Callers : HasGate(d) => Keeps(call[d].gate)

LEMMA WithoutKeeps ==
    ASSUME GateInv, NEW c \in Callers, ProcOf[c] \in alive, NEW S, Without(S),
           alive' = alive,
           \A p \in Processes : pendingOwnGateCleanup'[p] \subseteq pendingOwnGateCleanup[p],
           \A d \in Callers : HasGate(d) => call[d].gate \notin S
    PROVE  AllKept(c)
  BY DEF GateInv, GateIsKept, CleanupIsOwn, AllKept, Keeps, Without

\* A gate that may be removed is nobody's.
LEMMA RemovableIsNobodys ==
    ASSUME GateInv, NEW g, g \in gates => Removable(g), NEW d \in Callers, HasGate(d)
    PROVE  call[d].gate # g
<1>1. ProcOf[d] \in alive
  BY DEF GateInv, DeadAreIdle, HasGate, Idle
<1> QED
  BY <1>1 DEF GateInv, GateIsKept, Removable

LEMMA FoundMove ==
    ASSUME GateInv, NEW c \in Callers, NEW l \in Local, NEW k \in Found(c, l), Goto(c, k),
           AllKept(c), call[c].pc \in {"readdir", "entry"}, l.scan = call[c].scan,
           l.gate = call[c].gate,
           Won(l) => \A d \in Callers : c # d /\ Stamped(d) =>
                         call[d].gate \notin earlier[l.gate]
    PROVE  GateMove(c, k)
<1>1. l.gate # None <=> l.scan = "elect"
  BY DEF GateInv, GateAtItsPoints, HasGate, InTransaction, Electing
<1>2. call[c].pc # "stamp"
  OBVIOUS
<1>3. CASE Fresh(k, Pending(c))
  <2>1. k.gate = None /\ Fits(k) /\ k.pc # "stamp"
    BY <1>3, FreshFits DEF Fresh
  <2> QED
    BY <2>1 DEF GateMove, AllKept
<1>4. CASE l.scan # "elect" /\ k.gate = l.gate /\ k.scan = l.scan /\ k.pc \in {"publish", "task", "mkdir"}
  BY <1>1, <1>2, <1>4 DEF GateMove, AllKept, Fits, Gated
<1>5. CASE l.scan = "elect" /\ k.gate = l.gate /\ k.pc \in {"readOwn", "relstat"} /\ Won(l)
  BY <1>1, <1>2, <1>5 DEF GateMove, AllKept, Fits, Gated
<1>6. CASE /\ l.scan = "elect" /\ k.gate = l.gate /\ k.scan = l.scan
           /\ k.pc \in {"forfeit", "readdir"}
  BY <1>1, <1>2, <1>6 DEF GateMove, AllKept, Fits, Gated
<1> QED
  <2>1. TypeOK
    BY DEF GateInv
  <2> QED
    BY <1>3, <1>4, <1>5, <1>6, <2>1, FoundFields

LEMMA SkipMove ==
    ASSUME GateInv, TypeOK', NEW c \in Callers, NEW g, NEW S \in SUBSET Gates, Skip(c, g, S),
           AllKept(c), call[c].pc = "entry",
           \A d \in Callers : c # d /\ Stamped(d) /\ Electing(c)
                              /\ call[d].gate \in earlier[call[c].gate] =>
               call[d].gate \in (call[c].todo \ {g}) \cup S
    PROVE  GateInv'
<1> DEFINE l == [call[c] EXCEPT !.todo = @ \ {g}, !.seen = S]
<1>0. call[c] \in Local
  BY DEF GateInv, TypeOK
<1>1. /\ l \in Local /\ l.scan = call[c].scan /\ l.gate = call[c].gate /\ l.pc = "entry"
      /\ l.todo = call[c].todo \ {g} /\ l.seen = S
  BY <1>0 DEF Local
<1>2. HasGate(c) <=> Electing(c)
  BY DEF GateInv, GateAtItsPoints, InTransaction
<1> HIDE DEF l
<1>3. CASE l.todo = {}
  <2>1. PICK k \in Found(c, l) : Goto(c, k)
    BY <1>3 DEF Skip, l
  <2>2. ASSUME Won(l), NEW d \in Callers, c # d, Stamped(d)
        PROVE  call[d].gate \notin earlier[l.gate]
    <3>1. l.gate \in S /\ S \subseteq Gates
      BY <1>1, <2>2 DEF Won
    <3>2. Electing(c)
      BY <1>1, <1>2, <3>1, CrossProcessAssumption DEF HasGate
    <3> QED
      BY <1>1, <1>3, <2>2, <3>2 DEF Won
  <2>3. GateMove(c, k)
    BY <1>1, <2>1, <2>2, FoundMove
  <2> QED
    BY <2>3, GateStep
<1>4. CASE l.todo # {}
  <2>1. Goto(c, l)
    BY <1>4 DEF Skip, l
  <2>2. Fits(l) /\ (l.gate # None <=> Electing(c))
    BY <1>1, <1>2 DEF Fits, Gated, Electing, HasGate
  <2>3. GateMove(c, l)
    BY <1>1, <2>1, <2>2 DEF GateMove, AllKept
  <2> QED
    BY <2>3, GateStep
<1> QED
  BY <1>3, <1>4

\* c gives its gate up, or has none.
LEMMA GivingUp ==
    ASSUME GateInv, TypeOK', NEW c \in Callers, NEW l, NEW f, Goto(c, l), Fresh(l, f),
           ProcOf[c] \in alive, earlier' = earlier, alive' = alive, CleanupIsOwn',
           \A d \in Callers : HasGate(d) /\ d # c => Keeps(call[d].gate)
    PROVE  GateInv'
<1>1. l.gate = None /\ Fits(l) /\ l.pc # "stamp"
  BY FreshFits DEF Fresh
<1>2. GateMove(c, l)
  BY <1>1 DEF GateMove
<1> QED
  BY <1>2, GateStep

LEMMA NoGateFresh ==
    ASSUME TypeOK, NEW c \in Callers, NoGate(c)
    PROVE  alive' = alive /\ \E l, f : Goto(c, l) /\ Fresh(l, f)
<1>1. call[c].file \in Files \cup {None}
  BY DEF TypeOK, Local
<1>2. CASE call[c].cand # None
  BY <1>2, IdleFresh DEF NoGate, procVars
<1>3. CASE call[c].cand = None
  <2>1. PICK k \in Resume(c, call[c].file) : Goto(c, k)
    BY <1>3 DEF NoGate
  <2>2. Fresh(k, call[c].file)
    BY <1>1, <2>1, ResumeFresh
  <2> QED
    BY <1>3, <2>1, <2>2 DEF NoGate
<1> QED
  BY <1>2, <1>3

-----------------------------------------------------------------------------
(* GateInv is inductive *)

LEMMA readdirGate ==
    ASSUME GateInv, TypeOK', NEW c \in Callers, readdir(c) PROVE GateInv'
<1> DEFINE todo == gates \ Leftover(c)
           l    == [call[c] EXCEPT !.pc = "entry", !.todo = todo]
<1>1. /\ call[c] \in Local /\ call[c].pc = "readdir" /\ ProcOf[c] \in alive
      /\ ProcOf[c] \in Processes
  BY CrossProcessAssumption DEF readdir, At, GateInv, TypeOK
<1>2. /\ l \in Local /\ l.scan = call[c].scan /\ l.gate = call[c].gate /\ l.pc = "entry"
      /\ l.todo = todo /\ l.seen = call[c].seen
  BY <1>1 DEF Local, Points, GateInv, TypeOK
<1>3. \A d \in Callers : HasGate(d) => call[d].gate \in todo
  BY <1>1 DEF GateInv, GateIsKept, Leftover
<1>4. AllKept(c)
  <2>1. Without(Leftover(c)) /\ alive' = alive
    BY DEF readdir, procVars
  <2>2. \A p \in Processes : pendingOwnGateCleanup'[p] \subseteq pendingOwnGateCleanup[p]
    BY DEF readdir, GateInv, TypeOK
  <2> QED
    BY <1>1, <1>3, <2>1, <2>2, WithoutKeeps
<1>5. HasGate(c) <=> Electing(c)
  BY <1>1 DEF GateInv, GateAtItsPoints, InTransaction
<1> HIDE DEF l
<1>6. CASE todo = {}
  <2>1. PICK k \in Found(c, l) : Goto(c, k)
    BY <1>6 DEF readdir, l
  <2>2. \A d \in Callers : ~HasGate(d)
    BY <1>3, <1>6
  <2>3. GateMove(c, k)
    BY <1>1, <1>2, <1>4, <2>1, <2>2, FoundMove DEF Stamped
  <2> QED
    BY <2>3, GateStep
<1>7. CASE todo # {}
  <2>1. Goto(c, l)
    BY <1>7 DEF readdir, l
  <2>2. Fits(l) /\ (l.gate # None <=> Electing(c))
    BY <1>1, <1>2, <1>5 DEF Fits, Gated, Electing, HasGate
  <2>3. GateMove(c, l)
    BY <1>1, <1>2, <1>3, <1>4, <2>1, <2>2 DEF GateMove, AllKept, Stamped
  <2> QED
    BY <2>3, GateStep
<1> QED
  BY <1>6, <1>7

LEMMA entryGate ==
    ASSUME GateInv, TypeOK', NEW c \in Callers, NEW g \in call[c].todo,
           expired(c, g) \/ active(c, g)
    PROVE  GateInv'
<1>1. /\ call[c] \in Local /\ call[c].pc = "entry" /\ ProcOf[c] \in alive
      /\ call[c].seen \in SUBSET Gates /\ TypeOK
  BY DEF expired, active, At, GateInv, TypeOK, Local
<1>2. \A d \in Callers : /\ c # d /\ Stamped(d) /\ Electing(c)
                         /\ call[d].gate \in earlier[call[c].gate]
                         => call[d].gate \in call[c].todo \cup call[c].seen
  BY <1>1 DEF GateInv, ListingIsComplete
<1>3. CASE expired(c, g)
  <2>1. \A d \in Callers : HasGate(d) => call[d].gate # g
    BY <1>3, RemovableIsNobodys DEF expired
  <2>2. Without({g}) /\ alive' = alive /\ pendingOwnGateCleanup' = pendingOwnGateCleanup
    BY <1>3 DEF expired, procVars
  <2>3. AllKept(c)
    BY <1>1, <2>1, <2>2, WithoutKeeps
  <2>4. Skip(c, g, call[c].seen)
    BY <1>3 DEF expired
  <2> QED
    BY <1>1, <1>2, <2>1, <2>3, <2>4, SkipMove DEF Stamped
<1>4. CASE active(c, g)
  <2>1. AllKept(c) /\ g \in gates /\ g \in Gates
    BY <1>1, <1>4, KeptWhenQuiet DEF active, AllKept, Quiet, gateVars, procVars, TypeOK
  <2>2. CASE g \in stamped
    <3>1. Skip(c, g, call[c].seen \cup {g})
      BY <1>4, <2>2 DEF active
    <3> QED
      BY <1>1, <1>2, <2>1, <3>1, SkipMove
  <2>3. CASE g \notin stamped
    <3> DEFINE l == [call[c] EXCEPT !.seen = {g}]
    <3>1. /\ l \in Local /\ l.scan = call[c].scan /\ l.gate = call[c].gate /\ l.seen = {g}
      BY <1>1, <2>1 DEF Local
    <3>2. PICK k \in Found(c, l) : Goto(c, k)
      BY <1>4, <2>3 DEF active
    <3> HIDE DEF l
    <3>3. ~Won(l)
      <4> SUFFICES ASSUME l.gate = g PROVE FALSE
        BY <3>1 DEF Won
      <4>1. HasGate(c)
        BY <2>1, <3>1, CrossProcessAssumption DEF HasGate
      <4> QED
        BY <1>1, <2>3, <3>1, <4>1 DEF GateInv, GateIsKept
    <3>4. GateMove(c, k)
      BY <1>1, <2>1, <3>1, <3>2, <3>3, FoundMove
    <3> QED
      BY <3>4, GateStep
  <2> QED
    BY <2>2, <2>3
<1> QED
  BY <1>3, <1>4

LEMMA openGate ==
    ASSUME GateInv, TypeOK', NEW c \in Callers, open(c) PROVE GateInv'
<1>1. /\ call[c] \in Local /\ call[c].pc = "open" /\ ProcOf[c] \in alive /\ TypeOK
      /\ ProcOf[c] \in Processes /\ ~HasGate(c)
  BY CrossProcessAssumption
     DEF open, At, GateInv, TypeOK, GateAtItsPoints, InTransaction, Electing
<1>2. CASE ~dir
  <2>1. NoGate(c) /\ UNCHANGED <<gateVars, pendingOwnGateCleanup>>
    BY <1>2 DEF open, gateVars
  <2>2. PICK l, f : alive' = alive /\ Goto(c, l) /\ Fresh(l, f)
    BY <1>1, <2>1, NoGateFresh
  <2>3. Quiet
    BY <2>1, <2>2 DEF Quiet
  <2> QED
    BY <1>1, <2>2, <2>3, FreshFits, OutsideStep
<1>3. CASE dir
  <2>1. PICK g \in FreeGates(ProcOf[c]) :
           /\ gates' = gates \cup {g}
           /\ earlier' = [h \in Gates |-> IF h = g THEN {} ELSE earlier[h] \ {g}]
           /\ Goto(c, [call[c] EXCEPT !.pc = "stamp", !.gate = g])
           /\ UNCHANGED procVars
    BY <1>3 DEF open
  <2>2. /\ UNCHANGED <<stamped, released, alive, pendingOwnGateCleanup>>
        /\ g \in Gates /\ g # None /\ Owner(g) = ProcOf[c] /\ g \notin gates
        /\ g \notin released /\ g \notin stamped
        /\ \A d \in Callers : call[d].gate # g
        /\ \A p \in Processes : g \notin pendingOwnGateCleanup[p]
    BY <1>1, <2>1, CrossProcessAssumption
       DEF open, FreeGates, procVars, TypeOK, GateInv, CleanupIsOwn
  <2> DEFINE l == [call[c] EXCEPT !.pc = "stamp", !.gate = g]
  <2>3. /\ l.pc = "stamp" /\ l.gate = g /\ call'[c] = l
        /\ \A d \in Callers \ {c} : call'[d] = call[d]
    BY <1>1, <2>1 DEF Local, Goto, TypeOK
  <2> HIDE DEF l
  <2>4. /\ \A d \in Callers : d # c => (HasGate(d)' <=> HasGate(d)) /\ (Stamped(d)' <=> Stamped(d))
        /\ HasGate(c)' /\ ~Stamped(c)'
    BY <2>2, <2>3 DEF HasGate, Stamped
  <2>5. \A d \in Callers : Stamped(d)' =>
           d # c /\ Stamped(d) /\ call'[d].gate = call[d].gate /\ call[d].gate \in Gates
    BY <1>1, <2>3, <2>4 DEF Stamped, HasGate, TypeOK, Local
  <2>6. DeadAreIdle' /\ GateAtItsPoints' /\ RecoveryScansFirst'
    BY <1>1, <2>2, <2>3 DEF GateInv, DeadAreIdle, GateAtItsPoints, RecoveryScansFirst, HasGate,
         InTransaction, Electing
  <2>7. GateIsKept'
    BY <1>1, <2>1, <2>2, <2>3 DEF GateInv, GateIsKept, HasGate
  <2>8. GatesDiffer' /\ CleanupIsOwn'
    BY <2>2, <2>3 DEF GateInv, GatesDiffer, CleanupIsOwn, HasGate
  <2>9. UnstampedIsLast'
    <3> SUFFICES ASSUME NEW d \in Callers, call'[d].pc = "stamp", NEW h \in Gates
                 PROVE  call'[d].gate \notin earlier'[h]
      BY DEF UnstampedIsLast
    <3> QED
      BY <1>1, <2>1, <2>2, <2>3 DEF GateInv, UnstampedIsLast
  <2>10. \A h \in Gates : h # g => earlier'[h] = earlier[h] \ {g}
    BY <2>1
  <2>11. StampsAreOrdered'
    BY <2>2, <2>5, <2>10 DEF GateInv, StampsAreOrdered
  <2>12. ListingIsComplete'
    <3> SUFFICES ASSUME NEW d \in Callers, NEW e \in Callers,
                        d # e, call'[d].pc = "entry", Electing(d)', Stamped(e)',
                        call'[e].gate \in earlier'[call'[d].gate]
                 PROVE  call'[e].gate \in call'[d].todo \cup call'[d].seen
      BY DEF ListingIsComplete
    <3>1. d # c /\ call'[d] = call[d] /\ Electing(d)
      BY <2>3 DEF Electing
    <3>2. HasGate(d) /\ call[d].gate \in Gates
      BY <1>1, <3>1 DEF GateInv, GateAtItsPoints, HasGate, TypeOK, Local
    <3> QED
      BY <2>2, <2>5, <2>10, <3>1, <3>2 DEF GateInv, ListingIsComplete
  <2>13. WinnerIsFirst'
    <3> SUFFICES ASSUME NEW d \in Callers, NEW e \in Callers,
                        d # e, InTransaction(d)', Stamped(e)',
                        call'[e].gate \in earlier'[call'[d].gate]
                 PROVE  FALSE
      BY DEF WinnerIsFirst
    <3>1. d # c /\ call'[d] = call[d] /\ InTransaction(d)
      BY <2>3 DEF InTransaction
    <3>2. HasGate(d) /\ call[d].gate \in Gates
      BY <1>1, <3>1 DEF GateInv, GateAtItsPoints, HasGate, TypeOK, Local
    <3> QED
      BY <2>2, <2>5, <2>10, <3>1, <3>2 DEF GateInv, WinnerIsFirst
  <2> QED
    BY <2>6, <2>7, <2>8, <2>9, <2>11, <2>12, <2>13 DEF GateInv
<1> QED
  BY <1>2, <1>3

LEMMA stampGate ==
    ASSUME GateInv, TypeOK', NEW c \in Callers, stamp(c) PROVE GateInv'
<1> DEFINE g == call[c].gate
           l == [call[c] EXCEPT !.pc = "readdir", !.scan = "elect"]
<1>1. /\ call[c] \in Local /\ call[c].pc = "stamp" /\ ProcOf[c] \in alive /\ TypeOK
      /\ HasGate(c) /\ g \in Gates
  BY DEF stamp, At, GateInv, TypeOK, GateAtItsPoints, HasGate, Local
<1>2. /\ l.pc = "readdir" /\ l.scan = "elect" /\ l.gate = g /\ call'[c] = l
      /\ \A d \in Callers \ {c} : call'[d] = call[d]
  BY <1>1 DEF Local, Goto, TypeOK, stamp
<1>3. /\ stamped' = stamped \cup {g} /\ earlier'[g] = stamped
      /\ \A h \in Gates : h # g => earlier'[h] = earlier[h]
      /\ UNCHANGED <<gates, released, alive, pendingOwnGateCleanup>>
  BY <1>1 DEF stamp, procVars, TypeOK
<1>4. /\ \A d \in Callers : HasGate(d)' => HasGate(d) /\ call'[d].gate = call[d].gate
                                             /\ call[d].gate \in Gates
      /\ \A d \in Callers : d # c /\ HasGate(d) => call[d].gate # g
  <2>1. \A d \in Callers : HasGate(d) => call[d].gate \in Gates
    BY <1>1 DEF HasGate, TypeOK, Local
  <2>2. \A d \in Callers : d # c /\ HasGate(d) => call[d].gate # g
    BY DEF GateInv, GatesDiffer
  <2>3. \A d \in Callers : HasGate(d)' => HasGate(d) /\ call'[d].gate = call[d].gate
    BY <1>1, <1>2 DEF HasGate
  <2> QED
    BY <2>1, <2>2, <2>3
<1>5. \A d \in Callers : d # c /\ Stamped(d)' => Stamped(d) /\ call[d].gate \in stamped
  BY <1>2 DEF HasGate, Stamped, GateInv, GateIsKept
<1>6. Stamped(c)' /\ \A h \in Gates : g \notin earlier[h]
  BY <1>1, <1>2 DEF Stamped, HasGate, GateInv, UnstampedIsLast
<1> HIDE DEF l
<1>7. DeadAreIdle' /\ GateAtItsPoints' /\ RecoveryScansFirst'
  BY <1>1, <1>2, <1>3 DEF GateInv, DeadAreIdle, GateAtItsPoints, RecoveryScansFirst, HasGate,
       InTransaction, Electing
<1>8. GateIsKept'
  BY <1>1, <1>2, <1>3, <1>4 DEF GateInv, GateIsKept, HasGate
<1>9. GatesDiffer' /\ CleanupIsOwn'
  BY <1>2, <1>3 DEF GateInv, GatesDiffer, CleanupIsOwn, HasGate
<1>10. UnstampedIsLast'
  <2> SUFFICES ASSUME NEW d \in Callers, call'[d].pc = "stamp", NEW h \in Gates
               PROVE  call'[d].gate \notin earlier'[h]
    BY DEF UnstampedIsLast
  <2>1. d # c /\ call'[d] = call[d] /\ HasGate(d)
    BY <1>2 DEF GateInv, GateAtItsPoints
  <2>2. call[d].gate \notin stamped /\ call[d].gate \notin earlier[h]
    BY <2>1 DEF GateInv, GateIsKept, UnstampedIsLast
  <2> QED
    BY <1>3, <2>1, <2>2
<1>11. StampsAreOrdered'
  <2> SUFFICES ASSUME NEW d \in Callers, NEW e \in Callers, d # e, Stamped(d)', Stamped(e)'
               PROVE  \/ call'[d].gate \in earlier'[call'[e].gate]
                      \/ call'[e].gate \in earlier'[call'[d].gate]
    BY DEF StampsAreOrdered
  <2>1. /\ call'[d].gate = call[d].gate /\ call'[e].gate = call[e].gate
        /\ call[d].gate \in Gates /\ call[e].gate \in Gates
    BY <1>4 DEF Stamped
  <2>2. CASE d = c
    BY <1>3, <1>5, <2>1, <2>2
  <2>3. CASE e = c
    BY <1>3, <1>5, <2>1, <2>3
  <2>4. CASE d # c /\ e # c
    BY <1>3, <1>4, <1>5, <2>1, <2>4 DEF GateInv, StampsAreOrdered, Stamped
  <2> QED
    BY <2>2, <2>3, <2>4
<1>12. ListingIsComplete'
  <2> SUFFICES ASSUME NEW d \in Callers, NEW e \in Callers,
                      d # e, call'[d].pc = "entry", Electing(d)', Stamped(e)',
                      call'[e].gate \in earlier'[call'[d].gate]
               PROVE  call'[e].gate \in call'[d].todo \cup call'[d].seen
    BY DEF ListingIsComplete
  <2>1. d # c /\ call'[d] = call[d] /\ Electing(d)
    BY <1>2 DEF Electing
  <2>2. HasGate(d) /\ call[d].gate \in Gates /\ call[d].gate # g
    BY <1>1, <1>4, <2>1 DEF GateInv, GateAtItsPoints, HasGate, TypeOK, Local
  <2>3. earlier'[call'[d].gate] = earlier[call[d].gate]
    BY <1>3, <2>1, <2>2
  <2>4. e # c
    BY <1>2, <1>6, <2>2, <2>3
  <2> QED
    BY <1>2, <1>5, <2>1, <2>3, <2>4 DEF GateInv, ListingIsComplete
<1>13. WinnerIsFirst'
  <2> SUFFICES ASSUME NEW d \in Callers, NEW e \in Callers,
                      d # e, InTransaction(d)', Stamped(e)',
                      call'[e].gate \in earlier'[call'[d].gate]
               PROVE  FALSE
    BY DEF WinnerIsFirst
  <2>1. d # c /\ call'[d] = call[d] /\ InTransaction(d)
    BY <1>2 DEF InTransaction
  <2>2. HasGate(d) /\ call[d].gate \in Gates /\ call[d].gate # g
    BY <1>1, <1>4, <2>1 DEF GateInv, GateAtItsPoints, HasGate, TypeOK, Local
  <2>3. earlier'[call'[d].gate] = earlier[call[d].gate]
    BY <1>3, <2>1, <2>2
  <2>4. e # c
    BY <1>2, <1>6, <2>2, <2>3
  <2> QED
    BY <1>2, <1>5, <2>1, <2>3, <2>4 DEF GateInv, WinnerIsFirst
<1> QED
  BY <1>7, <1>8, <1>9, <1>10, <1>11, <1>12, <1>13 DEF GateInv

\* c deletes its gate or, when that fails, marks it and leaves it for later.
LEMMA CloseKeepsOthers ==
    ASSUME GateInv, NEW c \in Callers, HasGate(c), Close(c) \/ CloseFails(c)
    PROVE  /\ earlier' = earlier /\ CleanupIsOwn'
           /\ \A d \in Callers : HasGate(d) /\ d # c => Keeps(call[d].gate)
<1>1. \A d \in Callers : HasGate(d) /\ d # c => call[d].gate # call[c].gate
  BY DEF GateInv, GatesDiffer
<1>2. ProcOf[c] \in Processes /\ Owner(call[c].gate) = ProcOf[c]
  BY CrossProcessAssumption DEF GateInv, GateIsKept
<1>3. CASE Close(c)
  BY <1>1, <1>3 DEF Close, Without, GateInv, GateIsKept, CleanupIsOwn, Keeps
<1>4. CASE CloseFails(c)
  <2>1. \A p \in Processes : pendingOwnGateCleanup'[p] =
           IF p = ProcOf[c] THEN pendingOwnGateCleanup[p] \cup {call[c].gate}
           ELSE pendingOwnGateCleanup[p]
    BY <1>4 DEF CloseFails, GateInv, TypeOK
  <2>2. released' \subseteq released \cup {call[c].gate} /\ UNCHANGED <<earlier, gates, stamped>>
    BY <1>4 DEF CloseFails
  <2>3. CleanupIsOwn'
    BY <1>2, <2>1 DEF GateInv, CleanupIsOwn
  <2>4. ASSUME NEW d \in Callers, HasGate(d), d # c PROVE Keeps(call[d].gate)
    <3>1. /\ call[d].gate \in gates /\ call[d].gate \notin released
          /\ \A p \in Processes : call[d].gate \notin pendingOwnGateCleanup[p]
      BY <2>4 DEF GateInv, GateIsKept
    <3> QED
      BY <1>1, <2>1, <2>2, <2>4, <3>1 DEF Keeps
  <2> QED
    BY <2>2, <2>3, <2>4
<1> QED
  BY <1>3, <1>4

LEMMA gateActionsGate ==
    ASSUME GateInv, TypeOK', NEW c \in Callers,
           mkdir(c) \/ stampFails(c) \/ leave(c) \/ forfeit(c)
    PROVE  GateInv'
<1>1. /\ call[c] \in Local /\ ProcOf[c] \in alive /\ TypeOK
      /\ Pending(c) \in Files \cup {None}
  BY PendingType DEF mkdir, stampFails, leave, forfeit, At, GateInv, TypeOK
<1>2. CASE mkdir(c)
  <2> DEFINE l == [call[c] EXCEPT !.pc = "open"]
  <2>1. l.pc = "open" /\ l.gate = call[c].gate
    BY <1>1 DEF Local
  <2>2. l.gate = None /\ Fits(l)
    BY <1>2, <2>1 DEF mkdir, At, Fits, Gated, GateInv, GateAtItsPoints, HasGate,
       InTransaction, Electing
  <2>3. \A d \in Callers : HasGate(d) => call[d].gate \notin pendingOwnGateCleanup[ProcOf[c]]
    BY CrossProcessAssumption DEF GateInv, GateIsKept
  <2>4. AllKept(c)
    <3>1. \A p \in Processes : pendingOwnGateCleanup'[p] \subseteq pendingOwnGateCleanup[p]
      BY <1>2 DEF mkdir, GateInv, TypeOK
    <3>2. Without(pendingOwnGateCleanup[ProcOf[c]]) /\ alive' = alive
      BY <1>2 DEF mkdir, procVars
    <3> QED
      BY <1>1, <2>3, <3>1, <3>2, WithoutKeeps
  <2>5. Goto(c, l)
    BY <1>2 DEF mkdir
  <2> HIDE DEF l
  <2>6. GateMove(c, l)
    BY <2>1, <2>2, <2>4, <2>5 DEF GateMove, AllKept
  <2> QED
    BY <2>6, GateStep
<1>3. CASE stampFails(c)
  <2>1. PICK l, f : alive' = alive /\ Goto(c, l) /\ Fresh(l, f)
    BY <1>1, <1>3, NoGateFresh DEF stampFails
  <2>2. HasGate(c)
    BY <1>3 DEF stampFails, At, GateInv, GateAtItsPoints
  <2>3. \A d \in Callers : HasGate(d) /\ d # c => call[d].gate # call[c].gate
    BY DEF GateInv, GatesDiffer
  <2>4. /\ earlier' = earlier /\ CleanupIsOwn'
        /\ \A d \in Callers : HasGate(d) /\ d # c => Keeps(call[d].gate)
    BY <1>3, <2>3 DEF stampFails, Without, GateInv, GateIsKept, CleanupIsOwn, Keeps
  <2> QED
    BY <1>1, <2>1, <2>4, GivingUp
<1>4. CASE leave(c)
  <2>1. PICK k \in Resume(c, Pending(c)) : Goto(c, k)
    BY <1>4 DEF leave
  <2>2. Fresh(k, Pending(c)) /\ alive' = alive
    BY <1>1, <1>4, <2>1, ResumeFresh DEF leave, procVars
  <2>3. HasGate(c) /\ (Close(c) \/ CloseFails(c))
    BY <1>4 DEF leave, At, GateInv, GateAtItsPoints
  <2> QED
    BY <1>1, <2>1, <2>2, <2>3, CloseKeepsOthers, GivingUp
<1>5. CASE forfeit(c)
  <2>1. PICK l, f : alive' = alive /\ Goto(c, l) /\ Fresh(l, f)
    BY <1>1, <1>5, NoGateFresh DEF forfeit
  <2>2. HasGate(c) /\ (Close(c) \/ CloseFails(c))
    BY <1>5 DEF forfeit, At, GateInv, GateAtItsPoints
  <2> QED
    BY <1>1, <2>1, <2>2, CloseKeepsOthers, GivingUp
<1> QED
  BY <1>2, <1>3, <1>4, <1>5

LEMMA outsideGate ==
    ASSUME GateInv, TypeOK', NEW c \in Callers,
           \/ begin(c) \/ recover(c) \/ publish(c) \/ write(c) \/ writeFails(c)
           \/ endTask(c) \/ lstat(c) \/ read(c)
    PROVE  GateInv'
<1>1. /\ call[c] \in Local /\ TypeOK /\ ProcOf[c] \in alive
      /\ Pending(c) \in Files \cup {None}
  BY PendingType DEF GateInv, TypeOK, begin, recover, publish, write, writeFails, endTask,
     lstat, read, At
<1>2. Quiet
  BY DEF begin, recover, publish, write, writeFails, endTask, lstat, read, Quiet, procVars
<1>3. call[c].gate = None /\ (call[c].pc = "recover" => call[c].scan = "before")
  BY DEF begin, recover, publish, write, writeFails, endTask, lstat, read, At,
     GateInv, GateAtItsPoints, HasGate, InTransaction, Electing, RecoveryScansFirst
<1>4. ASSUME NEW l, NEW f, Fresh(l, f) PROVE l.gate = None /\ Fits(l)
  BY <1>4, FreshFits
<1> DEFINE outcomes == Retry(c) \cup {Idle, Loop(c, Pending(c)), Release(call[c], "check"),
              [call[c] EXCEPT !.pc = "lstat", !.file = None],
              [call[c] EXCEPT !.pc = "readdir", !.scan = "after"],
              Release(call[c], "idle")}
<1>5. ASSUME NEW l \in outcomes PROVE l.gate = None /\ Fits(l)
  <2>1. CASE l \in Retry(c) \cup {Idle, Loop(c, Pending(c))}
    BY <1>1, <1>4, <2>1, RetryFresh, IdleFresh, LoopFresh
  <2>2. CASE l \in {Release(call[c], "check"), Release(call[c], "idle")}
    BY <1>1, <1>3, <2>2 DEF Release, Local, Fits, Gated
  <2>3. CASE l = [call[c] EXCEPT !.pc = "lstat", !.file = None]
    BY <1>1, <1>3, <2>3 DEF Local, Fits, Gated
  <2>4. CASE l = [call[c] EXCEPT !.pc = "readdir", !.scan = "after"]
    BY <1>1, <1>3, <2>4 DEF Local, Fits, Gated
  <2> QED
    BY <1>5, <2>1, <2>2, <2>3, <2>4
<1>6. CASE \E l \in outcomes : Goto(c, l)
  BY <1>1, <1>2, <1>5, <1>6, OutsideStep
<1> HIDE DEF outcomes
<1>7. CASE \E f : Goto(c, [call[c] EXCEPT !.pc = "write", !.file = f])
  <2>1. PICK f : Goto(c, [call[c] EXCEPT !.pc = "write", !.file = f])
    BY <1>7
  <2> DEFINE l == [call[c] EXCEPT !.pc = "write", !.file = f]
  <2>2. l.gate = None /\ Fits(l)
    BY <1>1, <1>3 DEF Local, Fits, Gated
  <2> QED
    BY <1>1, <1>2, <2>1, <2>2, OutsideStep
<1>8. CASE \E n : Goto(c, [call[c] EXCEPT !.pc = "read", !.cand = n])
  <2>1. PICK n : Goto(c, [call[c] EXCEPT !.pc = "read", !.cand = n])
    BY <1>8
  <2> DEFINE l == [call[c] EXCEPT !.pc = "read", !.cand = n]
  <2>2. l.gate = None /\ Fits(l)
    BY <1>1, <1>3 DEF Local, Fits, Gated
  <2> QED
    BY <1>1, <1>2, <2>1, <2>2, OutsideStep
<1>9. CASE Goto(c, [call[c] EXCEPT !.pc = "mkdir", !.cand.record = Record, !.takeovers = @ + 1])
  <2> DEFINE l == [call[c] EXCEPT !.pc = "mkdir", !.cand.record = Record, !.takeovers = @ + 1]
  <2>2. l.gate = None /\ Fits(l)
    BY <1>1, <1>3 DEF Local, Fits, Gated
  <2> QED
    BY <1>1, <1>2, <1>9, <2>2, OutsideStep
<1>10. CASE Goto(c, [call[c] EXCEPT !.pc = "readdir", !.file = None]) /\ recover(c)
  <2> DEFINE l == [call[c] EXCEPT !.pc = "readdir", !.file = None]
  <2>2. l.gate = None /\ Fits(l)
    BY <1>1, <1>3, <1>10 DEF Local, Fits, Gated, recover, At
  <2> QED
    BY <1>1, <1>2, <1>10, <2>2, OutsideStep
<1> QED
  <2>1. CASE begin(c) \/ endTask(c) \/ write(c)
    BY <1>6, <2>1 DEF begin, endTask, write, outcomes
  <2>2. CASE recover(c)
    BY <1>6, <1>10, <2>2 DEF recover, outcomes
  <2>3. Contended(c) \subseteq outcomes
    BY DEF Contended, outcomes
  <2>4. CASE publish(c)
    BY <1>6, <1>7, <2>3, <2>4 DEF publish
  <2>5. CASE writeFails(c)
    BY <1>6, <2>3, <2>5 DEF writeFails, outcomes
  <2>6. CASE lstat(c)
    BY <1>6, <1>8, <2>6 DEF lstat, outcomes
  <2>7. CASE read(c)
    BY <1>6, <1>9, <2>7 DEF read, outcomes
  <2> QED
    BY <2>1, <2>2, <2>4, <2>5, <2>6, <2>7

LEMMA insideGate ==
    ASSUME GateInv, TypeOK', NEW c \in Callers,
           \/ relstat(c) \/ reread(c) \/ rename(c) \/ renameFails(c) \/ inspect(c)
           \/ readOwn(c) \/ renameOwn(c) \/ renameOwnFails(c) \/ readMoved(c)
    PROVE  GateInv'
<1>1. call[c] \in Local /\ TypeOK /\ ProcOf[c] \in alive /\ InTransaction(c) /\ Quiet
  BY DEF relstat, reread, rename, renameFails, inspect, readOwn, renameOwn,
     renameOwnFails, readMoved, At, InTransaction, Quiet, procVars, GateInv, TypeOK
<1> DEFINE points == {"reread", "rename", "inspect", "renameOwn", "readMoved", "leave"}
           Inside(l) == l.pc \in points /\ l.gate = call[c].gate
<1>2. /\ \A point \in points : \A then : /\ Inside([call[c] EXCEPT !.pc = point])
                                     /\ Inside([call[c] EXCEPT !.pc = point, !.then = then])
      /\ \A point \in points : \A f : Inside([call[c] EXCEPT !.pc = point, !.moved = f])
  BY <1>1 DEF Local
<1> HIDE DEF Inside
<1>3. PICK l : Goto(c, l) /\ Inside(l)
  BY <1>2 DEF relstat, reread, rename, renameFails, inspect, readOwn, renameOwn,
     renameOwnFails, readMoved, Leave
<1> QED
  BY <1>1, <1>3, InsideStep DEF Inside

LEMMA crashGate ==
    ASSUME GateInv, NEW p \in Processes, crash(p) PROVE GateInv'
<1>1. Idle \in Local /\ Idle.pc = "idle" /\ Idle.gate = None
  BY IdleFresh DEF Fresh, Idle
<1>2. \A c \in Callers : call'[c] = IF ProcOf[c] = p THEN Idle ELSE call[c]
  BY DEF crash
<1>3. /\ UNCHANGED <<lockPath, written, dir, gates, stamped, earlier, released, faults>>
      /\ alive' = alive \ {p} /\ crashes' = crashes + 1
  BY DEF crash, fileVars, gateVars
<1>4. /\ \A q \in Processes : pendingOwnGateCleanup'[q] \subseteq pendingOwnGateCleanup[q]
      /\ pendingOwnGateCleanup' \in [Processes -> SUBSET Gates]
      /\ pendingAdvisoryRecovery' \in [Processes -> Files \cup {None}]
  BY DEF crash, GateInv, TypeOK
<1>5. TypeOK'
  <2>1. call' \in [Callers -> Local]
    BY <1>1 DEF crash, GateInv, TypeOK
  <2> QED
    BY <1>1, <1>2, <1>3, <1>4, <2>1 DEF GateInv, TypeOK
<1>6. /\ \A c \in Callers : HasGate(c)' => call'[c] = call[c] /\ HasGate(c)
      /\ \A c \in Callers : Stamped(c)' => Stamped(c)
      /\ \A c \in Callers : InTransaction(c)' => call'[c] = call[c] /\ InTransaction(c)
      /\ \A c \in Callers : Electing(c)' => call'[c] = call[c] /\ Electing(c)
  BY <1>1, <1>2 DEF HasGate, Stamped, InTransaction, Electing
<1>7. DeadAreIdle' /\ GateAtItsPoints' /\ RecoveryScansFirst'
  BY <1>1, <1>2, <1>3 DEF GateInv, DeadAreIdle, GateAtItsPoints, RecoveryScansFirst, HasGate,
     InTransaction, Electing
<1>8. GateIsKept' /\ GatesDiffer' /\ CleanupIsOwn'
  <2>1. GateIsKept'
    BY <1>3, <1>4, <1>6 DEF GateInv, GateIsKept
  <2>2. GatesDiffer'
    BY <1>1, <1>2, <1>6 DEF GateInv, GatesDiffer, HasGate
  <2>3. CleanupIsOwn'
    BY <1>4 DEF GateInv, CleanupIsOwn
  <2> QED
    BY <2>1, <2>2, <2>3
<1>9. UnstampedIsLast' /\ StampsAreOrdered' /\ ListingIsComplete' /\ WinnerIsFirst'
  <2>1. UnstampedIsLast'
    BY <1>1, <1>2, <1>3 DEF GateInv, UnstampedIsLast
  <2>2. \A c \in Callers : Stamped(c)' => Stamped(c) /\ call'[c] = call[c]
    BY <1>6 DEF Stamped
  <2>3. StampsAreOrdered'
    BY <1>3, <2>2 DEF GateInv, StampsAreOrdered
  <2>4. ListingIsComplete'
    BY <1>3, <1>6, <2>2 DEF GateInv, ListingIsComplete
  <2>5. WinnerIsFirst'
    BY <1>3, <1>6, <2>2 DEF GateInv, WinnerIsFirst
  <2> QED
    BY <2>1, <2>3, <2>4, <2>5
<1> QED
  BY <1>5, <1>7, <1>8, <1>9 DEF GateInv

LEMMA GateInit == Init => GateInv
<1> SUFFICES ASSUME Init PROVE GateInv
  OBVIOUS
<1>1. Idle \in Local /\ Idle.pc = "idle" /\ Idle.gate = None /\ Idle.scan = "before"
  BY IdleFresh DEF Fresh, Idle
<1>2. \A c \in Callers : call[c] = Idle
  BY DEF Init
<1>3. TypeOK
  BY <1>1, <1>2 DEF Init, TypeOK
<1>4. \A c \in Callers : ~HasGate(c) /\ ~InTransaction(c) /\ ~Electing(c) /\ ~Stamped(c)
  BY <1>1, <1>2 DEF HasGate, InTransaction, Electing, Stamped
<1> QED
  BY <1>1, <1>2, <1>3, <1>4 DEF GateInv, Init, DeadAreIdle, RecoveryScansFirst,
     GateAtItsPoints, GateIsKept, GatesDiffer, CleanupIsOwn, UnstampedIsLast,
     StampsAreOrdered, ListingIsComplete, WinnerIsFirst

LEMMA GateNext == GateInv /\ [Next]_vars => GateInv'
<1> SUFFICES ASSUME GateInv, [Next]_vars PROVE GateInv'
  OBVIOUS
<1>1. ASSUME NEW c \in Callers, begin(c) \/ Step(c) \/ Fails(c) PROVE GateInv'
  <2>1. TypeOK'
    BY <1>1, TypeStep DEF GateInv
  <2>2. CASE \/ begin(c) \/ recover(c) \/ publish(c) \/ write(c) \/ writeFails(c)
             \/ endTask(c) \/ lstat(c) \/ read(c)
    BY <2>1, <2>2, outsideGate
  <2>3. CASE \/ relstat(c) \/ reread(c) \/ rename(c) \/ renameFails(c) \/ inspect(c)
             \/ readOwn(c) \/ renameOwn(c) \/ renameOwnFails(c) \/ readMoved(c)
    BY <2>1, <2>3, insideGate
  <2>4. CASE mkdir(c) \/ stampFails(c) \/ leave(c) \/ forfeit(c)
    BY <2>1, <2>4, gateActionsGate
  <2>5. CASE readdir(c) \/ open(c) \/ stamp(c)
    BY <2>1, <2>5, readdirGate, openGate, stampGate
  <2>6. CASE \E g \in call[c].todo : expired(c, g) \/ active(c, g)
    BY <2>1, <2>6, entryGate
  <2> QED
    BY <1>1, <2>2, <2>3, <2>4, <2>5, <2>6 DEF Step, Fails
<1>2. CASE UNCHANGED vars
  BY <1>2 DEF vars, fileVars, gateVars, procVars, boundVars, GateInv, TypeOK, DeadAreIdle,
     RecoveryScansFirst, GateAtItsPoints, GateIsKept, GatesDiffer, CleanupIsOwn,
     UnstampedIsLast, StampsAreOrdered, ListingIsComplete, WinnerIsFirst, HasGate, Stamped,
     InTransaction, Electing
<1> QED
  BY <1>1, <1>2, crashGate DEF Next

\* Every reachable state is well typed, and no marker outlives its gate.
THEOREM TypeCorrect == Spec => []TypeOK
<1>1. GateInv => TypeOK
  BY DEF GateInv
<1> QED
  BY <1>1, GateInit, GateNext, PTL DEF Spec

\* The election among the gate files admits one caller at a time to the steps
\* that rename the lock away (acquireAdvisoryReclaimGate), whoever died before.
THEOREM OneTransactionAtATime == Spec => []OneTransaction
<1>1. GateInv => OneTransaction
  <2> SUFFICES ASSUME GateInv, NEW c \in Callers, NEW d \in Callers, c # d,
                      InTransaction(c), InTransaction(d)
               PROVE  FALSE
    BY DEF OneTransaction
  <2>1. Stamped(c) /\ Stamped(d)
    BY DEF GateInv, GateAtItsPoints, InTransaction, Stamped
  <2> QED
    BY <2>1 DEF GateInv, StampsAreOrdered, WinnerIsFirst
<1> QED
  BY <1>1, GateInit, GateNext, PTL DEF Spec

-----------------------------------------------------------------------------
(* The path *)

LEMMA FreshSound ==
    ASSUME NEW l, NEW f, Fresh(l, f)
    PROVE  Sound(l) /\ ~Owning(l) /\ l.file \in {None, f}
  BY DEF Fresh, Sound, Owning, ReleaseHasFile, CandidateIsDead, TakeoverIsSafe, MovedIsAway

\* What c may do to the records it has to release.
RemembersOwn(c) ==
    \A p \in Processes : \/ pendingAdvisoryRecovery'[p] \in {None, pendingAdvisoryRecovery[p]}
                         \/ /\ p = ProcOf[c] /\ ~Owning(call[c])
                            /\ pendingAdvisoryRecovery'[p] = call[c].file

\* Each caller's file is its process's own, whatever c does.
LEMMA FilesStep ==
    ASSUME GateInv, FilesAreOwn, NEW c \in Callers, NEW l, Goto(c, l),
           l.file # None => \/ l.file \in {call[c].file, Pending(c)}
                            \/ Owner(l.file) = ProcOf[c],
           RemembersOwn(c)
    PROVE  FilesAreOwn'
<1>1. /\ call'[c] = l /\ \A d \in Callers \ {c} : call'[d] = call[d]
      /\ ProcOf[c] \in Processes
  BY CrossProcessAssumption DEF Goto, GateInv, TypeOK
<1>2. call[c].file # None => Owner(call[c].file) = ProcOf[c]
  BY DEF FilesAreOwn
<1>3. Pending(c) # None => Owner(Pending(c)) = ProcOf[c]
  BY <1>1 DEF FilesAreOwn, Pending
<1> QED
  BY <1>1, <1>2, <1>3 DEF FilesAreOwn, RemembersOwn

\* Steps that leave what is at lockPath as it is.
LEMMA PathStep ==
    ASSUME GateInv, PathInv, NEW c \in Callers, NEW l, Goto(c, l), Sound(l),
           lockPath' = lockPath, lockPath \in written' <=> lockPath \in written,
           alive' = alive, l.file \in {None, call[c].file, Pending(c)}, RemembersOwn(c),
           Owning(l) => /\ Owning(call[c]) /\ l.file = call[c].file
                        /\ l.pc = "write" <=> call[c].pc = "write"
    PROVE  PathInv'
<1>1. call'[c] = l /\ \A d \in Callers \ {c} : call'[d] = call[d]
  BY DEF Goto, GateInv, TypeOK
<1>2. FilesAreOwn'
  BY FilesStep DEF PathInv
<1>3. OwnerIsAtPath'
  <2> SUFFICES ASSUME NEW d \in Callers, Owning(call'[d])
               PROVE  /\ call'[d].file # None /\ lockPath = call'[d].file
                      /\ (lockPath \in written) = (call'[d].pc # "write")
                      /\ \A p \in Processes : pendingAdvisoryRecovery'[p] # lockPath
                      /\ \A e \in Callers : d # e => call'[e].file # lockPath
    BY DEF OwnerIsAtPath, Owning
  <2>1. /\ Owning(call[d]) /\ call'[d].file = call[d].file
        /\ call'[d].pc = "write" <=> call[d].pc = "write"
    BY <1>1
  <2>2. /\ call[d].file # None /\ lockPath = call[d].file
        /\ lockPath \in written <=> call[d].pc # "write"
        /\ \A p \in Processes : pendingAdvisoryRecovery[p] # lockPath
        /\ \A e \in Callers : d # e => call[e].file # lockPath
    BY <2>1 DEF PathInv, OwnerIsAtPath
  <2>3. ProcOf[c] \in Processes
    BY CrossProcessAssumption
  <2>4. \A p \in Processes : pendingAdvisoryRecovery'[p] # lockPath
    BY <2>1, <2>2 DEF RemembersOwn
  <2>5. \A e \in Callers : d # e => call'[e].file # lockPath
    BY <1>1, <2>2, <2>3 DEF Pending
  <2> QED
    BY <2>1, <2>2, <2>4, <2>5
<1>4. ASSUME NEW d \in Callers PROVE Sound(call[d])'
  <2>1. Sound(call'[d])
    BY <1>1 DEF PathInv
  <2> DEFINE k == call'[d]
  <2>2. k = call'[d] /\ Sound(k)
    BY <2>1
  <2> QED
    BY <2>2 DEF Sound, ReleaseHasFile, CandidateIsDead, TakeoverIsSafe, MovedIsAway
<1> QED
  BY <1>2, <1>3, <1>4 DEF PathInv

\* The same for a caller that goes on afresh.
LEMMA FreshStep ==
    ASSUME GateInv, PathInv, NEW c \in Callers, NEW l, NEW f \in {Pending(c), call[c].file},
           Goto(c, l), Fresh(l, f), lockPath' = lockPath,
           lockPath \in written' <=> lockPath \in written,
           alive' = alive, RemembersOwn(c)
    PROVE  PathInv'
  BY FreshSound, PathStep

\* What a step that is not about the lock's file leaves alone.
PathQuiet == UNCHANGED <<fileVars, procVars>>

LEMMA PathQuietFacts ==
    ASSUME PathQuiet, NEW c
    PROVE  /\ lockPath' = lockPath /\ alive' = alive /\ RemembersOwn(c)
           /\ lockPath \in written' <=> lockPath \in written
  BY DEF PathQuiet, fileVars, procVars, RemembersOwn

LEMMA NoGatePath ==
    ASSUME GateInv, PathInv, NEW c \in Callers, NoGate(c), UNCHANGED fileVars,
           ~Owning(call[c])
    PROVE  PathInv'
<1>1. call[c].file \in Files \cup {None} /\ TypeOK
  BY DEF GateInv, TypeOK, Local
<1>2. CASE call[c].cand # None
  <2>1. Goto(c, Idle) /\ PathQuiet
    BY <1>2 DEF NoGate, PathQuiet
  <2>2. Fresh(Idle, Pending(c))
    BY IdleFresh
  <2> QED
    BY <2>1, <2>2, PathQuietFacts, FreshStep
<1>3. CASE call[c].cand = None
  <2>1. PICK k \in Resume(c, call[c].file) : Goto(c, k)
    BY <1>3 DEF NoGate
  <2>2. Fresh(k, call[c].file)
    BY <1>1, <2>1, ResumeFresh
  <2>3. alive' = alive /\ RemembersOwn(c)
    BY <1>3 DEF NoGate, Remember, RemembersOwn, GateInv, TypeOK
  <2> QED
    BY <2>1, <2>2, <2>3, FreshStep DEF fileVars
<1> QED
  BY <1>2, <1>3

LEMMA FoundPath ==
    ASSUME GateInv, PathInv, NEW c \in Callers, NEW l \in Local, NEW k \in Found(c, l),
           Goto(c, k), PathQuiet, call[c].pc \in {"readdir", "entry"},
           l.scan = call[c].scan, l.file = call[c].file, l.cand = call[c].cand
    PROVE  PathInv'
<1>1. TypeOK
  BY DEF GateInv
<1>2. CASE Fresh(k, Pending(c))
  BY <1>2, PathQuietFacts, FreshStep
<1>3. CASE ~Fresh(k, Pending(c))
  <2>1. /\ k.scan = l.scan /\ k.file = l.file
        /\ \/ l.scan = "before" /\ k.pc = "publish" /\ k.cand = l.cand
           \/ l.scan = "after" /\ k.pc = "task" /\ k.cand = l.cand
           \/ l.scan = "after" /\ k.pc = "mkdir" /\ k.cand = None
           \/ /\ l.scan = "elect" /\ k.cand = l.cand
              /\ \/ l.cand = None /\ k.pc = "readOwn"
                 \/ l.cand # None /\ k.pc = "relstat"
                 \/ k.pc \in {"forfeit", "readdir"}
    BY <1>1, <1>3, FoundFields
  <2>2. /\ Sound(call[c])
        /\ l.scan = "after" => Owning(call[c]) /\ l.file # None
    BY DEF PathInv, OwnerIsAtPath, Owning
  <2>3. ReleaseHasFile(k)
    BY <2>1, <2>2 DEF Sound, ReleaseHasFile
  <2>4. CandidateIsDead(k)
    BY <2>1, <2>2 DEF Sound, CandidateIsDead
  <2>5. TakeoverIsSafe(k) /\ MovedIsAway(k)
    BY <2>1 DEF TakeoverIsSafe, MovedIsAway
  <2>6. Owning(k) => Owning(call[c]) /\ k.pc # "write" /\ call[c].pc # "write"
    BY <2>1, <2>2 DEF Owning
  <2>7. Sound(k)
    BY <2>3, <2>4, <2>5 DEF Sound
  <2> QED
    BY <2>1, <2>6, <2>7, PathQuietFacts, PathStep
<1> QED
  BY <1>2, <1>3

LEMMA SkipPath ==
    ASSUME GateInv, PathInv, NEW c \in Callers, NEW g, NEW S \in SUBSET Gates, Skip(c, g, S),
           PathQuiet, call[c].pc = "entry"
    PROVE  PathInv'
<1> DEFINE l == [call[c] EXCEPT !.todo = @ \ {g}, !.seen = S]
<1>0. call[c] \in Local
  BY DEF GateInv, TypeOK
<1>1. /\ l \in Local /\ l.scan = call[c].scan /\ l.file = call[c].file /\ l.pc = "entry"
      /\ l.cand = call[c].cand
  BY <1>0 DEF Local
<1> HIDE DEF l
<1>2. CASE l.todo = {}
  <2>1. PICK k \in Found(c, l) : Goto(c, k)
    BY <1>2 DEF Skip, l
  <2> QED
    BY <1>1, <2>1, FoundPath
<1>3. CASE l.todo # {}
  <2>1. Goto(c, l)
    BY <1>3 DEF Skip, l
  <2>2. Sound(l) /\ (Owning(l) => Owning(call[c]))
    BY <1>1 DEF PathInv, Sound, Owning, ReleaseHasFile, CandidateIsDead, TakeoverIsSafe,
       MovedIsAway
  <2> QED
    BY <1>1, <2>1, <2>2, PathQuietFacts, PathStep
<1> QED
  BY <1>2, <1>3

LEMMA scanPath ==
    ASSUME GateInv, PathInv, NEW c \in Callers,
           readdir(c) \/ \E g \in call[c].todo : expired(c, g) \/ active(c, g)
    PROVE  PathInv'
<1>1. call[c] \in Local /\ TypeOK /\ call[c].seen \in SUBSET Gates
  BY DEF GateInv, TypeOK, Local
<1>2. CASE readdir(c)
  <2> DEFINE todo == gates \ Leftover(c)
             l    == [call[c] EXCEPT !.pc = "entry", !.todo = todo]
  <2>1. PathQuiet /\ call[c].pc = "readdir"
    BY <1>2 DEF readdir, At, PathQuiet
  <2>2. /\ l \in Local /\ l.scan = call[c].scan /\ l.file = call[c].file /\ l.pc = "entry"
        /\ l.cand = call[c].cand
    BY <1>1 DEF Local, Points, TypeOK
  <2> HIDE DEF l
  <2>3. CASE todo = {}
    <3>1. PICK k \in Found(c, l) : Goto(c, k)
      BY <1>2, <2>3 DEF readdir, l
    <3> QED
      BY <2>1, <2>2, <3>1, FoundPath
  <2>4. CASE todo # {}
    <3>1. Goto(c, l)
      BY <1>2, <2>4 DEF readdir, l
    <3>2. Sound(l) /\ (Owning(l) => Owning(call[c]))
      BY <2>1, <2>2 DEF PathInv, Sound, Owning, ReleaseHasFile, CandidateIsDead,
         TakeoverIsSafe, MovedIsAway
    <3> QED
      BY <2>1, <2>2, <3>1, <3>2, PathQuietFacts, PathStep
  <2> QED
    BY <2>3, <2>4
<1>3. CASE \E g \in call[c].todo : expired(c, g) \/ active(c, g)
  <2>1. PICK g \in call[c].todo : expired(c, g) \/ active(c, g)
    BY <1>3
  <2>2. PathQuiet /\ call[c].pc = "entry"
    BY <2>1 DEF expired, active, At, PathQuiet
  <2>3. CASE expired(c, g)
    BY <1>1, <2>2, <2>3, SkipPath DEF expired
  <2>4. CASE active(c, g)
    <3>1. g \in Gates
      BY <1>1, <2>4 DEF active, TypeOK
    <3>2. CASE g \in stamped
      BY <1>1, <2>2, <2>4, <3>1, <3>2, SkipPath DEF active
    <3>3. CASE g \notin stamped
      <4> DEFINE l == [call[c] EXCEPT !.seen = {g}]
      <4>1. /\ l \in Local /\ l.scan = call[c].scan /\ l.file = call[c].file
            /\ l.cand = call[c].cand
        BY <1>1, <3>1 DEF Local
      <4>2. PICK k \in Found(c, l) : Goto(c, k)
        BY <2>4, <3>3 DEF active
      <4> HIDE DEF l
      <4> QED
        BY <2>2, <4>1, <4>2, FoundPath
    <3> QED
      BY <3>2, <3>3
  <2> QED
    BY <2>1, <2>3, <2>4
<1> QED
  BY <1>2, <1>3

LEMMA RetryPath ==
    ASSUME GateInv, PathInv, NEW c \in Callers, NEW k \in Retry(c), Goto(c, k), PathQuiet
    PROVE  PathInv'
<1>1. Fresh(k, Pending(c))
  BY RetryFresh DEF GateInv
<1> QED
  BY <1>1, PathQuietFacts, FreshStep

\* A step to l that looks at nothing but the caller's local state.
LEMMA LocalPath ==
    ASSUME GateInv, PathInv, NEW c \in Callers, NEW l, Goto(c, l), PathQuiet, Sound(l),
           ~Owning(l), l.file \in {None, call[c].file}
    PROVE  PathInv'
  BY PathQuietFacts, PathStep

LEMMA acquirePath ==
    ASSUME ~SlowWriters, GateInv, PathInv, NEW c \in Callers,
           \/ begin(c) \/ recover(c) \/ endTask(c) \/ (publish(c) /\ lockPath # None)
           \/ lstat(c) \/ read(c)
    PROVE  PathInv'
<1>1. call[c] \in Local /\ TypeOK /\ Pending(c) \in Files \cup {None} /\ Sound(call[c])
  BY PendingType DEF GateInv, TypeOK, PathInv
<1>2. CASE begin(c)
  <2>1. Goto(c, Loop(c, Pending(c))) /\ PathQuiet
    BY <1>2 DEF begin, PathQuiet
  <2> QED
    BY <1>1, <2>1, LoopFresh, PathQuietFacts, FreshStep
<1>3. CASE recover(c)
  <2> DEFINE l == Release(call[c], "check")
             k == [call[c] EXCEPT !.pc = "readdir", !.file = None]
  <2>1. call[c].file # None /\ call[c].pc = "recover" /\ call[c].scan = "before"
    BY <1>1, <1>3 DEF recover, At, Sound, ReleaseHasFile, GateInv, RecoveryScansFirst
  <2>2. CASE lockPath = call[c].file
    <3>1. Goto(c, l) /\ PathQuiet
      BY <1>3, <2>2 DEF recover, PathQuiet
    <3>2. l.pc = "mkdir" /\ l.file = call[c].file /\ l.cand = None
      BY <1>1 DEF Release, Local
    <3> HIDE DEF l
    <3>3. Sound(l) /\ ~Owning(l)
      BY <2>1, <3>2 DEF Sound, Owning, ReleaseHasFile, CandidateIsDead, TakeoverIsSafe,
         MovedIsAway
    <3> QED
      BY <3>1, <3>2, <3>3, LocalPath
  <2>3. CASE lockPath # call[c].file
    <3>1. Goto(c, k) /\ UNCHANGED fileVars /\ alive' = alive /\ Remember(c, None)
      BY <1>3, <2>3 DEF recover
    <3>2. RemembersOwn(c)
      BY <1>1, <3>1 DEF Remember, RemembersOwn, TypeOK
    <3>3. k.pc = "readdir" /\ k.file = None /\ k.scan = "before" /\ k.cand = call[c].cand
      BY <1>1, <2>1 DEF Local
    <3> HIDE DEF k
    <3>4. Sound(k) /\ ~Owning(k)
      BY <1>1, <3>3 DEF Sound, Owning, ReleaseHasFile, CandidateIsDead, TakeoverIsSafe,
         MovedIsAway
    <3> QED
      BY <3>1, <3>2, <3>3, <3>4, PathStep DEF fileVars
  <2> QED
    BY <2>2, <2>3
<1>4. CASE endTask(c)
  <2> DEFINE l == Release(call[c], "idle")
  <2>1. Goto(c, l) /\ PathQuiet /\ call[c].pc = "task"
    BY <1>4 DEF endTask, At, PathQuiet
  <2>2. l.pc = "mkdir" /\ l.file = call[c].file /\ l.cand = None
    BY <1>1 DEF Release, Local
  <2>3. call[c].file # None
    BY <2>1 DEF PathInv, OwnerIsAtPath, Owning
  <2> HIDE DEF l
  <2>4. Sound(l) /\ ~Owning(l)
    BY <2>2, <2>3 DEF Sound, Owning, ReleaseHasFile, CandidateIsDead, TakeoverIsSafe,
       MovedIsAway
  <2> QED
    BY <2>1, <2>2, <2>4, LocalPath
<1>5. CASE publish(c) /\ lockPath # None
  <2> DEFINE l == [call[c] EXCEPT !.pc = "lstat", !.file = None]
  <2>1. PathQuiet /\ \E k \in Contended(c) : Goto(c, k)
    BY <1>5 DEF publish, PathQuiet
  <2>2. l.pc = "lstat" /\ l.file = None /\ l.cand = call[c].cand
    BY <1>1 DEF Local
  <2> HIDE DEF l
  <2>3. Sound(l) /\ ~Owning(l)
    BY <1>1, <2>2 DEF Sound, Owning, ReleaseHasFile, CandidateIsDead, TakeoverIsSafe,
       MovedIsAway
  <2>4. Contended(c) \subseteq Retry(c) \cup {l}
    BY DEF Contended, l
  <2> QED
    BY <2>1, <2>2, <2>3, <2>4, RetryPath, LocalPath
<1>6. CASE lstat(c)
  <2>1. PathQuiet
    BY <1>6 DEF lstat, PathQuiet
  <2>2. CASE \E k \in Retry(c) : Goto(c, k)
    BY <2>1, <2>2, RetryPath
  <2>3. CASE ~ \E k \in Retry(c) : Goto(c, k)
    <3> DEFINE n == [file |-> lockPath, sized |-> lockPath \in written, record |-> None]
               l == [call[c] EXCEPT !.pc = "read", !.cand = n]
    <3>1. Goto(c, l) /\ MayBeStale(lockPath)
      BY <1>6, <2>3 DEF lstat
    <3>2. ~n.sized => Owner(n.file) \notin alive
      BY <3>1 DEF MayBeStale
    <3>3. l.pc = "read" /\ l.file = call[c].file /\ l.cand = n
      BY <1>1 DEF Local
    <3> HIDE DEF l, n
    <3>4. Sound(l) /\ ~Owning(l)
      BY <3>2, <3>3 DEF Sound, Owning, ReleaseHasFile, CandidateIsDead, TakeoverIsSafe,
         MovedIsAway
    <3> QED
      BY <2>1, <3>1, <3>3, <3>4, LocalPath
  <2> QED
    BY <2>2, <2>3
<1>7. CASE read(c)
  <2>1. PathQuiet /\ call[c].cand \in Candidate
    BY <1>1, <1>7 DEF read, At, PathQuiet, TypeOK, Local
  <2>2. CASE \E k \in Retry(c) : Goto(c, k)
    BY <2>1, <2>2, RetryPath
  <2>3. CASE ~ \E k \in Retry(c) : Goto(c, k)
    <3> DEFINE l == [call[c] EXCEPT !.pc = "mkdir", !.cand.record = Record, !.takeovers = @ + 1]
    <3>1. Goto(c, l)
      BY <1>7, <2>3 DEF read
    <3>2. /\ l.pc = "mkdir" /\ l.file = call[c].file
          /\ l.cand = [call[c].cand EXCEPT !.record = Record]
      BY <1>1 DEF Local
    <3> HIDE DEF l
    <3>3. l.cand \in Candidate /\ l.cand.sized = call[c].cand.sized
          /\ l.cand.file = call[c].cand.file
      BY <1>1, <2>1, <3>2 DEF Candidate, Record, TypeOK
    <3>4. l.cand # None /\ call[c].cand # None
      BY <2>1, <3>3, CrossProcessAssumption
    <3>5. Sound(l) /\ ~Owning(l)
      BY <1>1, <3>2, <3>3, <3>4 DEF Sound, Owning, ReleaseHasFile, CandidateIsDead,
         TakeoverIsSafe, MovedIsAway
    <3> QED
      BY <2>1, <3>1, <3>2, <3>5, LocalPath
  <2> QED
    BY <2>2, <2>3
<1> QED
  BY <1>2, <1>3, <1>4, <1>5, <1>6, <1>7

LEMMA transactionPath ==
    ASSUME GateInv, PathInv, NEW c \in Callers,
           relstat(c) \/ reread(c) \/ renameFails(c) \/ readOwn(c) \/ renameOwnFails(c)
    PROVE  PathInv'
<1>1. /\ call[c] \in Local /\ TypeOK /\ Sound(call[c]) /\ ~Owning(call[c])
      /\ UNCHANGED fileVars /\ alive' = alive
  BY DEF GateInv, TypeOK, PathInv, Owning, relstat, reread, renameFails, readOwn,
     renameOwnFails, At, procVars
<1>2. RemembersOwn(c)
  BY <1>1 DEF relstat, reread, renameFails, readOwn, renameOwnFails, procVars, RemembersOwn,
     Remember, TypeOK
<1> DEFINE To(point) == [call[c] EXCEPT !.pc = point]
           Left(then) == [call[c] EXCEPT !.pc = "leave", !.then = then]
<1>3. /\ \A point : /\ To(point).pc = point /\ To(point).file = call[c].file
                    /\ To(point).cand = call[c].cand
      /\ \A then : /\ Left(then).pc = "leave" /\ Left(then).file = call[c].file
                   /\ Left(then).cand = call[c].cand
  BY <1>1 DEF Local
<1>4. \/ \E then : Goto(c, Left(then))
      \/ relstat(c) /\ Goto(c, To("reread")) /\ lockPath = call[c].cand.file
         /\ (lockPath \in written) = call[c].cand.sized
      \/ reread(c) /\ Goto(c, To("rename")) /\ ~Lives(Record)
      \/ readOwn(c) /\ Goto(c, To("renameOwn")) /\ Record = call[c].file
  BY DEF relstat, reread, renameFails, readOwn, renameOwnFails, Leave
<1> HIDE DEF To, Left
<1>5. ASSUME NEW l, Goto(c, l), l.file = call[c].file, l.cand = call[c].cand,
             l.pc \in {"leave", "reread", "rename", "renameOwn"},
             l.pc # "leave" => TakeoverIsSafe(l), l.pc = "renameOwn" => l.file # None,
             l.pc \in {"reread", "rename"} => l.cand # None
      PROVE  PathInv'
  <2>1. CandidateIsDead(l) /\ ReleaseHasFile(l) /\ MovedIsAway(l)
    BY <1>1, <1>5 DEF Sound, ReleaseHasFile, CandidateIsDead, MovedIsAway
  <2>2. TakeoverIsSafe(l)
    BY <1>5 DEF TakeoverIsSafe
  <2>3. ~Owning(l)
    BY <1>5 DEF Owning
  <2> QED
    BY <1>1, <1>2, <1>5, <2>1, <2>2, <2>3, PathStep DEF fileVars, Sound
<1>6. CASE \E then : Goto(c, Left(then))
  BY <1>3, <1>5, <1>6
<1>7. CASE relstat(c) /\ Goto(c, To("reread")) /\ lockPath = call[c].cand.file
         /\ (lockPath \in written) = call[c].cand.sized
  <2>1. call[c].cand # None /\ (~call[c].cand.sized => Owner(lockPath) \notin alive)
    BY <1>1, <1>7 DEF relstat, At, Sound, CandidateIsDead
  <2>2. TakeoverIsSafe(To("reread"))
    <3>1. call[c].cand.sized \in BOOLEAN
      BY <1>1, <2>1 DEF Local, Candidate
    <3>2. lockPath \notin written => Owner(lockPath) \notin alive
      BY <1>7, <2>1, <3>1
    <3> QED
      BY <1>3, <1>7, <3>2 DEF TakeoverIsSafe
  <2> QED
    BY <1>3, <1>5, <1>7, <2>1, <2>2
<1>8. CASE reread(c) /\ Goto(c, To("rename")) /\ ~Lives(Record)
  <2>1. /\ call[c].cand # None /\ lockPath = call[c].cand.file
        /\ lockPath \notin written => Owner(lockPath) \notin alive
    BY <1>1, <1>8 DEF reread, At, Sound, CandidateIsDead, TakeoverIsSafe
  <2>2. Owner(lockPath) \notin alive
    BY <1>1, <1>8, <2>1, CrossProcessAssumption DEF Lives, Record, TypeOK
  <2>3. TakeoverIsSafe(To("rename"))
    BY <1>3, <2>1, <2>2 DEF TakeoverIsSafe
  <2> QED
    BY <1>3, <1>5, <1>8, <2>1, <2>3
<1>9. CASE readOwn(c) /\ Goto(c, To("renameOwn")) /\ Record = call[c].file
  <2>1. call[c].file # None
    BY <1>1, <1>9 DEF readOwn, At, Sound, ReleaseHasFile
  <2>2. TakeoverIsSafe(To("renameOwn"))
    BY <1>3, <1>9, <2>1 DEF TakeoverIsSafe, Record
  <2> QED
    BY <1>3, <1>5, <1>9, <2>1, <2>2
<1> QED
  BY <1>4, <1>6, <1>7, <1>8, <1>9

LEMMA gateActionsPath ==
    ASSUME GateInv, PathInv, NEW c \in Callers,
           mkdir(c) \/ open(c) \/ stamp(c) \/ stampFails(c) \/ leave(c) \/ forfeit(c)
    PROVE  PathInv'
<1>1. /\ call[c] \in Local /\ TypeOK /\ Sound(call[c]) /\ ~Owning(call[c])
      /\ Pending(c) \in Files \cup {None}
  BY PendingType DEF GateInv, TypeOK, PathInv, Owning, mkdir, open, stamp, stampFails, leave,
     forfeit, At
<1>2. CASE stampFails(c) \/ forfeit(c) \/ (open(c) /\ ~dir)
  <2>1. NoGate(c) /\ UNCHANGED fileVars
    BY <1>2 DEF stampFails, forfeit, open
  <2> QED
    BY <1>1, <2>1, NoGatePath
<1>3. CASE leave(c)
  <2>1. PICK k \in Resume(c, Pending(c)) : Goto(c, k)
    BY <1>3 DEF leave
  <2>2. Fresh(k, Pending(c)) /\ PathQuiet
    BY <1>1, <1>3, <2>1, ResumeFresh DEF leave, PathQuiet
  <2> QED
    BY <2>1, <2>2, PathQuietFacts, FreshStep
<1>4. ASSUME NEW l, Goto(c, l), l.file = call[c].file, l.cand = call[c].cand, PathQuiet,
             l.pc \in {"open", "stamp"} \/ (l.pc = "readdir" /\ l.scan = "elect"),
             call[c].pc \in {"mkdir", "open", "stamp"}
      PROVE  PathInv'
  <2>1. Sound(l)
    BY <1>1, <1>4 DEF Sound, ReleaseHasFile, CandidateIsDead, TakeoverIsSafe, MovedIsAway
  <2>2. ~Owning(l)
    BY <1>4 DEF Owning
  <2> QED
    BY <1>4, <2>1, <2>2, LocalPath
<1>5. CASE mkdir(c)
  <2> DEFINE l == [call[c] EXCEPT !.pc = "open"]
  <2>1. Goto(c, l) /\ PathQuiet /\ call[c].pc = "mkdir"
    BY <1>5 DEF mkdir, At, PathQuiet
  <2>2. l.pc = "open" /\ l.file = call[c].file /\ l.cand = call[c].cand
    BY <1>1 DEF Local
  <2> QED
    BY <1>4, <2>1, <2>2
<1>6. CASE open(c) /\ dir
  <2>1. PICK g : Goto(c, [call[c] EXCEPT !.pc = "stamp", !.gate = g])
    BY <1>6 DEF open
  <2> DEFINE l == [call[c] EXCEPT !.pc = "stamp", !.gate = g]
  <2>2. PathQuiet /\ call[c].pc = "open"
    BY <1>6 DEF open, At, PathQuiet
  <2>3. l.pc = "stamp" /\ l.file = call[c].file /\ l.cand = call[c].cand
    BY <1>1 DEF Local
  <2> QED
    BY <1>4, <2>1, <2>2, <2>3
<1>7. CASE stamp(c)
  <2> DEFINE l == [call[c] EXCEPT !.pc = "readdir", !.scan = "elect"]
  <2>1. Goto(c, l) /\ PathQuiet /\ call[c].pc = "stamp"
    BY <1>7 DEF stamp, At, PathQuiet
  <2>2. /\ l.pc = "readdir" /\ l.scan = "elect" /\ l.file = call[c].file
        /\ l.cand = call[c].cand
    BY <1>1 DEF Local
  <2> QED
    BY <1>4, <2>1, <2>2
<1>8. CASE open(c)
  <2>1. CASE dir
    BY <1>6, <1>8, <2>1
  <2>2. CASE ~dir
    BY <1>2, <1>8, <2>2
  <2> QED
    BY <2>1, <2>2
<1>9. CASE stampFails(c) \/ forfeit(c)
  BY <1>2, <1>9
<1> QED
  BY <1>3, <1>5, <1>7, <1>8, <1>9

\* c inspects, and deletes or restores, what it renamed.
LEMMA movedPath ==
    ASSUME GateInv, PathInv, NEW c \in Callers, inspect(c) \/ readMoved(c)
    PROVE  PathInv'
<1>1. /\ call[c] \in Local /\ TypeOK /\ Sound(call[c]) /\ ~Owning(call[c])
      /\ alive' = alive /\ call[c].pc \in {"inspect", "readMoved"}
  BY DEF GateInv, TypeOK, PathInv, Owning, inspect, readMoved, At, procVars
<1>2. call[c].moved # None /\ call[c].moved # lockPath
  BY <1>1 DEF Sound, MovedIsAway
<1>3. \/ lockPath' = lockPath
      \/ lockPath = None /\ lockPath' = call[c].moved /\ written' = written
           /\ pendingAdvisoryRecovery' = pendingAdvisoryRecovery
  BY DEF inspect, readMoved, Restored, procVars
<1>4. RemembersOwn(c)
  BY <1>1 DEF inspect, readMoved, procVars, RemembersOwn, Remember, TypeOK
<1> DEFINE Left(then) == [call[c] EXCEPT !.pc = "leave", !.then = then]
<1>5. \A then : /\ Left(then).pc = "leave" /\ Left(then).file = call[c].file
                /\ Left(then).cand = call[c].cand
  BY <1>1 DEF Local
<1>6. \E then : Goto(c, Left(then))
  BY DEF inspect, readMoved, Leave
<1> HIDE DEF Left
<1>7. PICK l : /\ Goto(c, l) /\ l.pc = "leave" /\ l.file = call[c].file
               /\ l.cand = call[c].cand
  BY <1>5, <1>6
<1>8. Sound(l) /\ ~Owning(l)
  BY <1>1, <1>7 DEF Sound, Owning, ReleaseHasFile, CandidateIsDead, TakeoverIsSafe, MovedIsAway
<1>9. CASE lockPath' = lockPath
  <2>1. lockPath \in written' <=> lockPath \in written
    BY <1>2 DEF inspect, readMoved
  <2> QED
    BY <1>1, <1>4, <1>7, <1>8, <1>9, <2>1, PathStep
<1>10. CASE /\ lockPath = None /\ lockPath' = call[c].moved /\ written' = written
            /\ pendingAdvisoryRecovery' = pendingAdvisoryRecovery
  <2>1. call'[c] = l /\ \A d \in Callers \ {c} : call'[d] = call[d]
    BY <1>1, <1>7 DEF Goto, TypeOK
  <2>2. \A d \in Callers \ {c} : ~InTransaction(d)
    <3>1. InTransaction(c)
      BY <1>1 DEF InTransaction
    <3> QED
      BY <3>1 DEF GateInv, GateAtItsPoints, InTransaction, Stamped, StampsAreOrdered,
         WinnerIsFirst
  <2>3. \A d \in Callers : ~Owning(call'[d])
    BY <1>8, <1>10, <2>1 DEF PathInv, OwnerIsAtPath
  <2>4. FilesAreOwn'
    BY <1>1, <1>7, <1>10, <2>1 DEF PathInv, FilesAreOwn
  <2>5. OwnerIsAtPath'
    BY <2>3 DEF OwnerIsAtPath, Owning
  <2>6. ASSUME NEW d \in Callers PROVE Sound(call[d])'
    <3>1. CASE d = c
      BY <1>1, <1>7, <1>8, <2>1, <3>1 DEF Sound, ReleaseHasFile, CandidateIsDead, TakeoverIsSafe,
         MovedIsAway
    <3>2. CASE d # c
      BY <1>1, <1>10, <2>1, <2>2, <3>2 DEF PathInv, InTransaction, Sound, ReleaseHasFile,
         CandidateIsDead, TakeoverIsSafe, MovedIsAway
    <3> QED
      BY <3>1, <3>2
  <2> QED
    BY <2>4, <2>5, <2>6 DEF PathInv
<1> QED
  BY <1>3, <1>9, <1>10

\* Nobody owns what a caller is about to rename, and nobody else looks at it.
LEMMA RenamedIsNobodys ==
    ASSUME GateInv, PathInv, NEW c \in Callers, call[c].pc \in {"rename", "renameOwn"},
           NEW d \in Callers, d # c
    PROVE  ~Owning(call[d]) /\ ~InTransaction(d)
<1>1. InTransaction(c) /\ Sound(call[c])
  BY DEF InTransaction, PathInv
<1>2. ~InTransaction(d)
  BY <1>1 DEF GateInv, GateAtItsPoints, InTransaction, Stamped, StampsAreOrdered, WinnerIsFirst
<1>3. ASSUME Owning(call[d]) PROVE FALSE
  <2>1. /\ call[d].file # None /\ lockPath = call[d].file /\ call[c].file # lockPath
        /\ Owner(lockPath) = ProcOf[d]
    BY <1>3 DEF PathInv, OwnerIsAtPath, FilesAreOwn
  <2>2. ProcOf[d] \in alive
    BY <1>3 DEF GateInv, DeadAreIdle, Owning, Idle
  <2> QED
    BY <1>1, <2>1, <2>2 DEF Sound, TakeoverIsSafe
<1> QED
  BY <1>2, <1>3

\* A step of c after which lockPath is empty.
LEMMA EmptiedStep ==
    ASSUME GateInv, PathInv, NEW c \in Callers, NEW l, Goto(c, l), lockPath' = None,
           alive' = alive, RemembersOwn(c), ~Owning(l),
           l.file \in {None, call[c].file, Pending(c)},
           ReleaseHasFile(l), CandidateIsDead(l), l.pc \notin {"reread", "rename", "renameOwn"},
           l.pc \in {"inspect", "readMoved"} => l.moved # None,
           \A d \in Callers : d # c =>
              ~Owning(call[d]) /\ call[d].pc \notin {"reread", "rename", "renameOwn"}
    PROVE  PathInv'
<1>1. call'[c] = l /\ \A d \in Callers \ {c} : call'[d] = call[d]
  BY DEF Goto, GateInv, TypeOK
<1>2. FilesAreOwn'
  BY FilesStep DEF PathInv
<1>3. \A d \in Callers : ~Owning(call'[d])
  BY <1>1
<1>4. OwnerIsAtPath'
  BY <1>3 DEF OwnerIsAtPath, Owning
<1>5. ASSUME NEW d \in Callers PROVE Sound(call[d])'
  <2> DEFINE k == call'[d]
  <2>1. /\ ReleaseHasFile(k) /\ CandidateIsDead(k)
        /\ k.pc \notin {"reread", "rename", "renameOwn"}
        /\ k.pc \in {"inspect", "readMoved"} => k.moved # None
    BY <1>1 DEF PathInv, Sound, MovedIsAway
  <2> QED
    BY <2>1 DEF Sound, ReleaseHasFile, CandidateIsDead, TakeoverIsSafe, MovedIsAway
<1> QED
  BY <1>2, <1>4, <1>5 DEF PathInv

LEMMA renamePath ==
    ASSUME GateInv, PathInv, NEW c \in Callers, rename(c) \/ renameOwn(c) PROVE PathInv'
<1>1. /\ call[c] \in Local /\ TypeOK /\ Sound(call[c]) /\ lockPath' = None /\ alive' = alive
      /\ call[c].pc \in {"rename", "renameOwn"}
  BY DEF GateInv, TypeOK, PathInv, rename, renameOwn, At, procVars
<1>2. RemembersOwn(c)
  BY <1>1 DEF rename, renameOwn, procVars, RemembersOwn, Remember, TypeOK, Owning
<1>3. \A d \in Callers : d # c =>
         ~Owning(call[d]) /\ call[d].pc \notin {"reread", "rename", "renameOwn"}
  BY <1>1, RenamedIsNobodys DEF InTransaction
<1> DEFINE Left(then) == [call[c] EXCEPT !.pc = "leave", !.then = then]
           Away(point) == [call[c] EXCEPT !.pc = point, !.moved = lockPath]
<1>4. /\ \A then : /\ Left(then).pc = "leave" /\ Left(then).file = call[c].file
                   /\ Left(then).cand = call[c].cand
      /\ \A point : /\ Away(point).pc = point /\ Away(point).file = call[c].file
                    /\ Away(point).cand = call[c].cand /\ Away(point).moved = lockPath
  BY <1>1 DEF Local
<1>5. \/ \E then : Goto(c, Left(then))
      \/ lockPath # None /\ Goto(c, Away("inspect"))
      \/ lockPath # None /\ call[c].pc = "renameOwn" /\ Goto(c, Away("readMoved"))
  BY DEF rename, renameOwn, Leave, At
<1> HIDE DEF Left, Away
<1>6. PICK l : /\ Goto(c, l) /\ l.pc \in {"leave", "inspect", "readMoved"}
               /\ l.pc # "leave" => l.moved # None
               /\ l.pc = "readMoved" => call[c].pc = "renameOwn"
               /\ l.file = call[c].file /\ l.cand = call[c].cand
  BY <1>4, <1>5
<1>7. ~Owning(l) /\ ReleaseHasFile(l) /\ CandidateIsDead(l)
  BY <1>1, <1>6 DEF Sound, Owning, ReleaseHasFile, CandidateIsDead
<1> QED
  BY <1>1, <1>2, <1>3, <1>6, <1>7, EmptiedStep

LEMMA writePath ==
    ASSUME GateInv, PathInv, NEW c \in Callers, write(c) \/ writeFails(c) PROVE PathInv'
<1>1. /\ call[c] \in Local /\ TypeOK /\ Sound(call[c]) /\ PathInv /\ Owning(call[c])
      /\ call[c].pc = "write" /\ UNCHANGED procVars
  BY DEF GateInv, TypeOK, PathInv, Owning, write, writeFails, At
<1>2. /\ call[c].file # None /\ lockPath = call[c].file /\ lockPath \notin written
      /\ \A p \in Processes : pendingAdvisoryRecovery[p] # lockPath
      /\ \A d \in Callers : c # d => call[d].file # lockPath
      /\ Owner(lockPath) = ProcOf[c] /\ ProcOf[c] \in alive
  BY <1>1 DEF PathInv, OwnerIsAtPath, FilesAreOwn, write, writeFails, At
<1>3. \A d \in Callers : c # d =>
         ~Owning(call[d]) /\ call[d].pc \notin {"reread", "rename", "renameOwn"}
  <2>1. \A d \in Callers : c # d => ~Owning(call[d])
    BY <1>2 DEF PathInv, OwnerIsAtPath
  <2>2. \A d \in Callers : c # d => call[d].pc \notin {"reread", "rename", "renameOwn"}
    BY <1>2 DEF PathInv, Sound, TakeoverIsSafe
  <2> QED
    BY <2>1, <2>2
<1>4. CASE write(c)
  <2> DEFINE l == [call[c] EXCEPT !.pc = "readdir", !.scan = "after"]
  <2>1. /\ l.pc = "readdir" /\ l.scan = "after" /\ l.file = call[c].file
        /\ l.cand = call[c].cand
    BY <1>1 DEF Local
  <2>2. /\ call'[c] = l /\ \A d \in Callers \ {c} : call'[d] = call[d]
        /\ lockPath' = lockPath /\ lockPath \in written'
        /\ UNCHANGED <<alive, pendingAdvisoryRecovery>>
    BY <1>1, <1>2, <1>4 DEF write, Goto, TypeOK, procVars
  <2> HIDE DEF l
  <2>3. FilesAreOwn'
    BY <2>1, <2>2 DEF PathInv, FilesAreOwn
  <2>4. OwnerIsAtPath'
    <3> SUFFICES ASSUME NEW d \in Callers, Owning(call'[d])
                 PROVE  /\ call'[d].file # None /\ lockPath = call'[d].file
                        /\ call'[d].pc # "write"
                        /\ \A p \in Processes : pendingAdvisoryRecovery[p] # lockPath
                        /\ \A e \in Callers : d # e => call'[e].file # lockPath
      BY <2>2 DEF OwnerIsAtPath, Owning
    <3>1. d = c
      BY <1>3, <2>2
    <3> QED
      BY <1>2, <2>1, <2>2, <3>1
  <2>5. ASSUME NEW d \in Callers PROVE Sound(call[d])'
    <3>1. CASE d = c
      BY <1>1, <2>1, <2>2, <3>1 DEF Sound, ReleaseHasFile, CandidateIsDead, TakeoverIsSafe,
         MovedIsAway
    <3>2. CASE d # c
      BY <2>2, <3>2 DEF PathInv, Sound, ReleaseHasFile, CandidateIsDead, TakeoverIsSafe,
         MovedIsAway
    <3> QED
      BY <3>1, <3>2
  <2> QED
    BY <2>3, <2>4, <2>5 DEF PathInv
<1>5. CASE writeFails(c)
  <2> DEFINE k == [call[c] EXCEPT !.pc = "lstat", !.file = None]
  <2>1. PICK l \in {Idle} \cup Contended(c) : Goto(c, l)
    BY <1>5 DEF writeFails
  <2>2. k.pc = "lstat" /\ k.file = None /\ k.cand = call[c].cand
    BY <1>1 DEF Local
  <2>3. Fresh(l, Pending(c)) \/ l = k
    BY <1>1, <2>1, IdleFresh, RetryFresh DEF Contended
  <2> HIDE DEF k
  <2>4. /\ ~Owning(l) /\ l.file \in {None, Pending(c)} /\ ReleaseHasFile(l)
        /\ CandidateIsDead(l)
        /\ l.pc \notin {"reread", "rename", "renameOwn", "inspect", "readMoved"}
    <3>1. CASE Fresh(l, Pending(c))
      BY <3>1, FreshSound DEF Sound, Fresh
    <3>2. CASE l = k
      BY <1>1, <2>2, <3>2 DEF Owning, Sound, ReleaseHasFile, CandidateIsDead
    <3> QED
      BY <2>3, <3>1, <3>2
  <2>5. lockPath' = None /\ alive' = alive /\ RemembersOwn(c)
    BY <1>1, <1>5 DEF writeFails, procVars, RemembersOwn
  <2> QED
    BY <1>3, <2>1, <2>4, <2>5, EmptiedStep
<1> QED
  BY <1>4, <1>5

LEMMA publishPath ==
    ASSUME GateInv, PathInv, NEW c \in Callers, publish(c), lockPath = None PROVE PathInv'
<1>1. call[c] \in Local /\ TypeOK /\ Sound(call[c]) /\ ProcOf[c] \in Processes
  BY CrossProcessAssumption DEF GateInv, TypeOK, PathInv
<1>2. PICK f \in FreeFiles(ProcOf[c]) :
         /\ lockPath' = f /\ written' = written \ {f}
         /\ Goto(c, [call[c] EXCEPT !.pc = "write", !.file = f])
  BY DEF publish
<1> DEFINE l == [call[c] EXCEPT !.pc = "write", !.file = f]
<1>3. l.pc = "write" /\ l.file = f /\ l.cand = call[c].cand
  BY <1>1 DEF Local
<1>4. /\ call'[c] = l /\ \A d \in Callers \ {c} : call'[d] = call[d]
      /\ UNCHANGED <<alive, pendingAdvisoryRecovery>>
  BY <1>1, <1>2 DEF publish, Goto, TypeOK, procVars
<1> HIDE DEF l
<1>5. /\ f \in Files /\ f # None /\ Owner(f) = ProcOf[c]
      /\ f # pendingAdvisoryRecovery[ProcOf[c]]
      /\ \A d \in Callers : f # call[d].file /\ f # call[d].moved
  BY <1>2, CrossProcessAssumption DEF FreeFiles
<1>6. \A p \in Processes : pendingAdvisoryRecovery[p] # f
  <2>1. \A p \in Processes : pendingAdvisoryRecovery[p] # None =>
           Owner(pendingAdvisoryRecovery[p]) = p
    BY DEF PathInv, FilesAreOwn
  <2> QED
    BY <1>1, <1>5, <2>1
<1>7. \A d \in Callers : ~Owning(call[d]) /\ call[d].pc \notin {"reread", "rename", "renameOwn"}
  <2>1. \A d \in Callers : ~Owning(call[d])
    BY DEF PathInv, OwnerIsAtPath
  <2>2. ASSUME NEW d \in Callers, call[d].pc \in {"reread", "rename", "renameOwn"}
        PROVE  FALSE
    <3>1. Sound(call[d]) /\ call[d] \in Local
      BY <1>1 DEF PathInv, TypeOK
    <3>2. CASE call[d].pc = "renameOwn"
      BY <3>1, <3>2 DEF Sound, TakeoverIsSafe, ReleaseHasFile
    <3>3. CASE call[d].pc \in {"reread", "rename"}
      <4>1. call[d].cand \in Candidate /\ call[d].cand.file = None
        BY <3>1, <3>3 DEF Sound, TakeoverIsSafe, CandidateIsDead, Local
      <4> QED
        BY <4>1, CrossProcessAssumption DEF Candidate
    <3> QED
      BY <2>2, <3>2, <3>3
  <2> QED
    BY <2>1, <2>2
<1>8. FilesAreOwn'
  BY <1>3, <1>4, <1>5 DEF PathInv, FilesAreOwn
<1>9. OwnerIsAtPath'
  <2> SUFFICES ASSUME NEW d \in Callers, Owning(call'[d])
               PROVE  /\ call'[d].file # None /\ f = call'[d].file
                      /\ call'[d].pc = "write" /\ f \notin written'
                      /\ \A p \in Processes : pendingAdvisoryRecovery[p] # f
                      /\ \A e \in Callers : d # e => call'[e].file # f
    BY <1>2, <1>4 DEF OwnerIsAtPath, Owning
  <2>1. d = c
    BY <1>4, <1>7
  <2> QED
    BY <1>2, <1>3, <1>4, <1>5, <1>6, <2>1
<1>10. ASSUME NEW d \in Callers PROVE Sound(call[d])'
  <2>1. CASE d = c
    BY <1>1, <1>3, <1>4, <2>1 DEF Sound, ReleaseHasFile, CandidateIsDead, TakeoverIsSafe,
       MovedIsAway
  <2>2. CASE d # c
    BY <1>2, <1>4, <1>5, <1>7, <2>2 DEF PathInv, Sound, ReleaseHasFile, CandidateIsDead,
       TakeoverIsSafe, MovedIsAway
  <2> QED
    BY <2>1, <2>2
<1> QED
  BY <1>8, <1>9, <1>10 DEF PathInv

LEMMA crashPath ==
    ASSUME GateInv, PathInv, NEW p \in Processes, crash(p) PROVE PathInv'
<1>1. Idle.pc = "idle" /\ Idle.file = None /\ Idle.cand = None
  BY DEF Idle
<1>2. /\ \A c \in Callers : call'[c] = IF ProcOf[c] = p THEN Idle ELSE call[c]
      /\ lockPath' = lockPath /\ written' = written /\ alive' \subseteq alive
      /\ \A q \in Processes : pendingAdvisoryRecovery'[q] \in {None, pendingAdvisoryRecovery[q]}
  BY DEF crash, fileVars, GateInv, TypeOK
<1>3. FilesAreOwn'
  BY <1>1, <1>2 DEF PathInv, FilesAreOwn
<1>4. OwnerIsAtPath'
  <2> SUFFICES ASSUME NEW d \in Callers, Owning(call'[d])
               PROVE  /\ call'[d].file # None /\ lockPath = call'[d].file
                      /\ (lockPath \in written) = (call'[d].pc # "write")
                      /\ \A q \in Processes : pendingAdvisoryRecovery'[q] # lockPath
                      /\ \A e \in Callers : d # e => call'[e].file # lockPath
    BY <1>2 DEF OwnerIsAtPath, Owning
  <2>1. Owning(call[d]) /\ call'[d] = call[d]
    BY <1>1, <1>2 DEF Owning
  <2> QED
    BY <1>1, <1>2, <2>1 DEF PathInv, OwnerIsAtPath
<1>5. ASSUME NEW d \in Callers PROVE Sound(call[d])'
  <2>1. CASE call'[d] = Idle
    BY <1>1, <2>1 DEF Sound, ReleaseHasFile, CandidateIsDead, TakeoverIsSafe, MovedIsAway
  <2>2. CASE call'[d] = call[d]
    <3> DEFINE k == call[d]
    <3>1. Sound(k) /\ call'[d] = k
      BY <2>2 DEF PathInv
    <3> QED
      BY <1>2, <3>1 DEF Sound, ReleaseHasFile, CandidateIsDead, TakeoverIsSafe, MovedIsAway
  <2> QED
    BY <1>2, <2>1, <2>2
<1> QED
  BY <1>3, <1>4, <1>5 DEF PathInv

LEMMA PathInit == Init => PathInv
<1> SUFFICES ASSUME Init PROVE PathInv
  OBVIOUS
<1>1. /\ Idle.pc = "idle" /\ Idle.file = None /\ Idle.cand = None
      /\ \A c \in Callers : call[c] = Idle
      /\ \A p \in Processes : pendingAdvisoryRecovery[p] = None
  BY DEF Idle, Init
<1> QED
  BY <1>1 DEF PathInv, FilesAreOwn, OwnerIsAtPath, Owning, Sound, ReleaseHasFile,
     CandidateIsDead, TakeoverIsSafe, MovedIsAway

LEMMA PathNext == ~SlowWriters /\ GateInv /\ PathInv /\ [Next]_vars => PathInv'
<1> SUFFICES ASSUME ~SlowWriters, GateInv, PathInv, [Next]_vars PROVE PathInv'
  OBVIOUS
<1>1. ASSUME NEW c \in Callers, begin(c) \/ Step(c) \/ Fails(c) PROVE PathInv'
  <2>1. CASE publish(c) /\ lockPath = None
    BY <2>1, publishPath
  <2>2. CASE \/ begin(c) \/ recover(c) \/ endTask(c) \/ (publish(c) /\ lockPath # None)
             \/ lstat(c) \/ read(c)
    BY <2>2, acquirePath
  <2>3. CASE relstat(c) \/ reread(c) \/ renameFails(c) \/ readOwn(c) \/ renameOwnFails(c)
    BY <2>3, transactionPath
  <2>4. CASE mkdir(c) \/ open(c) \/ stamp(c) \/ stampFails(c) \/ leave(c) \/ forfeit(c)
    BY <2>4, gateActionsPath
  <2>5. CASE inspect(c) \/ readMoved(c)
    BY <2>5, movedPath
  <2>6. CASE rename(c) \/ renameOwn(c)
    BY <2>6, renamePath
  <2>7. CASE write(c) \/ writeFails(c)
    BY <2>7, writePath
  <2>9. CASE readdir(c) \/ \E g \in call[c].todo : expired(c, g) \/ active(c, g)
    BY <2>9, scanPath
  <2> QED
    BY <1>1, <2>1, <2>2, <2>3, <2>4, <2>5, <2>6, <2>7, <2>9 DEF Step, Fails
<1>2. CASE UNCHANGED vars
  BY <1>2 DEF vars, fileVars, procVars, PathInv, FilesAreOwn, OwnerIsAtPath, Owning, Sound,
     ReleaseHasFile, CandidateIsDead, TakeoverIsSafe, MovedIsAway
<1> QED
  BY <1>1, <1>2, crashPath DEF Next

\* IInv is inductive when no write takes longer than LOCK_STALE_MS.
LEMMA Inductive ==
    ASSUME ~SlowWriters PROVE Spec => []IInv
<1>1. Init => IInv
  BY GateInit, PathInit DEF IInv
<1>2. IInv /\ [Next]_vars => IInv'
  BY GateNext, PathNext DEF IInv
<1> QED
  BY <1>1, <1>2, PTL DEF Spec

\* The record of a holder stays at lockPath while its task runs, whatever
\* takeovers, releases, failed writes and crashes of others there are, when no
\* write takes longer than LOCK_STALE_MS.
THEOREM HolderOwnsThePath == ASSUME ~SlowWriters PROVE Spec => []HolderOwnsPath
<1>1. IInv => HolderOwnsPath
  BY DEF IInv, PathInv, OwnerIsAtPath, HolderOwnsPath, Holding, Owning
<1> QED
  BY <1>1, Inductive, PTL

\* "it provides real mutual exclusion": under the same condition no two callers
\* run their tasks under the lock at once.
THEOREM Exclusion == ASSUME ~SlowWriters PROVE Spec => []MutualExclusion
<1>1. IInv => MutualExclusion
  BY DEF IInv, PathInv, OwnerIsAtPath, MutualExclusion, Holding, Owning
<1> QED
  BY <1>1, Inductive, PTL
=============================================================================
