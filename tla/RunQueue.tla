------------------------------- MODULE RunQueue -------------------------------
(***************************************************************************)
(* What the orchestrator promises of POST /runs: requests are not dropped,  *)
(* wait in the order they came, hold the one lane each in turn, and leave   *)
(* it with a result that is final.  Sandboxes, the fleet, reports and what  *)
(* may fail are in Orchestrator.                                            *)
(***************************************************************************)
EXTENDS Sequences

CONSTANTS
    Runs,       \* runs that can be requested
    None        \* no run

VARIABLES
    waiting,    \* runs that wait, the oldest first
    holder,     \* run that holds the lane, or None
    result      \* result[r]: what became of run r

vars == <<waiting, holder, result>>

Results == {"done", "timeout", "unhealthy", "failed"}

Init ==
    /\ waiting = <<>>
    /\ holder = None
    /\ result = [r \in Runs |-> "none"]

Request(r) ==
    /\ result[r] = "none"
    /\ result' = [result EXCEPT ![r] = "queued"]
    /\ waiting' = Append(waiting, r)
    /\ UNCHANGED holder

\* The oldest request gets the lane once it is free.
Grant ==
    /\ holder = None
    /\ waiting # <<>>
    /\ holder' = Head(waiting)
    /\ waiting' = Tail(waiting)
    /\ UNCHANGED result

\* The holder gives the lane up, with the only result it will have.
Resolve(how) ==
    /\ holder # None
    /\ result[holder] = "queued"
    /\ result' = [result EXCEPT ![holder] = how]
    /\ holder' = None
    /\ UNCHANGED waiting

Next ==
    \/ \E r \in Runs : Request(r)
    \/ Grant
    \/ \E how \in Results : Resolve(how)

Spec == Init /\ [][Next]_vars
=============================================================================
