----------------------------- MODULE MC_Gateway -----------------------------
(* What the gateway keeps and lets in, for TLC: the session rows, the artifacts,  *)
(* the run checkpoints, the limiter with its pairing, and a tool call.  The five  *)
(* share no state, so that in a behaviour one of them moves.                      *)
EXTENDS SessionRows, ArtifactFlow, RunCheckpoints, Admission, ToolCall

VARIABLE moves    \* the component that moves

allVars == <<rowsVars, artifactVars, runsVars, admissionVars, callVars, moves>>

Init ==
  /\ RowsInit /\ ArtifactsInit /\ RunsInit /\ AdmissionInit /\ CallInit
  /\ moves \in {"rows", "artifacts", "runs", "admission", "call"}

Next ==
  /\ moves' = moves
  /\ \/ moves = "rows" /\ RowsNext /\ UNCHANGED <<artifactVars, runsVars, admissionVars, callVars>>
     \/ moves = "artifacts" /\ ArtifactsNext /\ UNCHANGED <<rowsVars, runsVars, admissionVars, callVars>>
     \/ moves = "runs" /\ RunsNext /\ UNCHANGED <<rowsVars, artifactVars, admissionVars, callVars>>
     \/ moves = "admission" /\ AdmissionNext /\ UNCHANGED <<rowsVars, artifactVars, runsVars, callVars>>
     \/ moves = "call" /\ CallNext /\ UNCHANGED <<rowsVars, artifactVars, runsVars, admissionVars>>

Spec == Init /\ [][Next]_allVars
=============================================================================
