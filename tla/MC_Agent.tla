------------------------------ MODULE MC_Agent ------------------------------
(* What an agent keeps in memory, for TLC: the browser sessions of its         *)
(* profiles and the batches of a session.  The two share no state, so that in  *)
(* a behaviour one of them moves.                                              *)
EXTENDS SessionManager, BatchJobs

VARIABLE moves    \* the component that moves

allVars == <<managerVars, batchVars, moves>>

Init == ManagerInit /\ BatchesInit /\ moves \in {"sessions", "batches"}

Next ==
  /\ moves' = moves
  /\ \/ moves = "sessions" /\ ManagerNext /\ UNCHANGED batchVars
     \/ moves = "batches" /\ BatchesNext /\ UNCHANGED managerVars

\* Without a batch no step of the queue is due, so that the fairness asks nothing of
\* a behaviour in which the sessions move.
Spec == Init /\ [][Next]_allVars /\ BatchFairness
=============================================================================
