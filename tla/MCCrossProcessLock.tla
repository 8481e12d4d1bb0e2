------------------------- MODULE MCCrossProcessLock -------------------------
(***************************************************************************)
(* Values of the constants of CrossProcessLock for TLC.                    *)
(***************************************************************************)
EXTENDS CrossProcessLock, TLC

CONSTANTS p0, p1, p2, c1, c2

OnePerProcess == (c1 :> p1) @@ (c2 :> p2)
SameProcess   == (c1 :> p1) @@ (c2 :> p1)

\* p0 died during a call: it may have left its lock and its gate, each with or
\* without a record.
Residue == <<p0, 1>>
ResidueInit ==
    /\ lockPath \in {None, Residue} /\ written \in SUBSET ({Residue} \cap {lockPath})
    /\ gates \in SUBSET {Residue} /\ stamped \in SUBSET gates /\ released = {}
    /\ dir \in BOOLEAN /\ (gates # {} => dir)
    /\ earlier = [g \in Gates |-> {}]
    /\ alive = Processes \ {p0}
    /\ pendingAdvisoryRecovery = [p \in Processes |-> None]
    /\ pendingOwnGateCleanup = [p \in Processes |-> {}]
    /\ call = [c \in Callers |-> Idle]
    /\ faults = 0 /\ crashes = 0

FairResidue == ResidueInit /\ [][Next]_vars /\ Fairness
=============================================================================
