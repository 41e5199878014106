--------------------------- MODULE MC_ProfileLock ---------------------------
(* Instances of ProfileLock for TLC. *)
EXTENDS ProfileLock, TLC

\* Runs of the agent and process numbers differ in nothing but their names.
Interchangeable == Permutations(Process) \cup Permutations(Pid)
=============================================================================
