------------------------------ MODULE FifoLock ------------------------------
(***************************************************************************)
(* A lock that is taken in the order of arrival.  A caller that waits may  *)
(* give up its place; nobody overtakes a caller that has not.  This is what*)
(* the promise chains of the scheduler promise.                            *)
(***************************************************************************)
CONSTANT Calls

VARIABLES st,      \* where a call stands
          before   \* the calls that were made before it

lockVars == <<st, before>>

Requested == {c \in Calls : st[c] # "idle"}

Init == /\ st = [c \in Calls |-> "idle"]
        /\ before = [c \in Calls |-> {}]

Request(c) == /\ st[c] = "idle"
              /\ st' = [st EXCEPT ![c] = "waiting"]
              /\ before' = [before EXCEPT ![c] = Requested]

Acquire(c) == /\ st[c] = "waiting" /\ \A d \in before[c] : st[d] = "done"
              /\ st' = [st EXCEPT ![c] = "holding"]
              /\ UNCHANGED before

Release(c) == /\ st[c] = "holding"
              /\ st' = [st EXCEPT ![c] = "done"]
              /\ UNCHANGED before

GiveUp(c) == /\ st[c] = "waiting"
             /\ st' = [st EXCEPT ![c] = "done"]
             /\ UNCHANGED before

Next == \E c \in Calls : Request(c) \/ Acquire(c) \/ Release(c) \/ GiveUp(c)

Spec == Init /\ [][Next]_lockVars
=============================================================================
