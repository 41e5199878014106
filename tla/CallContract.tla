---------------------------- MODULE CallContract ----------------------------
(***************************************************************************)
(* What the device channel promises of a command: the abstract counterpart *)
(* of DeviceRegistry.sendCommand and AgentConnection.onCommand.            *)
(*                                                                         *)
(* A call is refused at once or accepted; an accepted one is told exactly  *)
(* one outcome.  Its command is begun at most once, possibly after the     *)
(* caller has been told of a failure, and never for a refused call.  A     *)
(* result is told only when the execution it belongs to is over.           *)
(***************************************************************************)
CONSTANTS
  Request,       \* the calls
  Results,       \* what an execution can end with
  Refusal,       \* the failure a refused call is told
  Failures       \* the failures an accepted call can be told

VARIABLES
  accepted,      \* calls whose command was handed to a socket
  told,          \* what each caller was told
  work           \* the execution of each command
vars == <<accepted, told, work>>

Untold == "none"

Init ==
  /\ accepted = {}
  /\ told = [r \in Request |-> Untold]
  /\ work = [r \in Request |-> "none"]

Refuse(r) ==
  /\ r \notin accepted /\ told[r] = Untold
  /\ told' = [told EXCEPT ![r] = Refusal]
  /\ UNCHANGED <<accepted, work>>

Accept(r) ==
  /\ r \notin accepted /\ told[r] = Untold
  /\ accepted' = accepted \cup {r}
  /\ UNCHANGED <<told, work>>

Begin(r) ==
  /\ r \in accepted /\ work[r] = "none"
  /\ work' = [work EXCEPT ![r] = "running"]
  /\ UNCHANGED <<accepted, told>>

\* A command ends, or every running command of an agent dies with it.
End(R) ==
  /\ \A r \in R : work[r] = "running"
  /\ work' = [r \in Request |-> IF r \in R THEN "over" ELSE work[r]]
  /\ UNCHANGED <<accepted, told>>

Answer(r, k) ==
  /\ r \in accepted /\ told[r] = Untold /\ work[r] = "over"
  /\ told' = [told EXCEPT ![r] = k]
  /\ UNCHANGED <<accepted, work>>

\* Calls fail one at a time (a timer) or together (a socket that closes).
Fail(R, f) ==
  /\ \A r \in R : r \in accepted /\ told[r] = Untold
  /\ told' = [r \in Request |-> IF r \in R THEN f ELSE told[r]]
  /\ UNCHANGED <<accepted, work>>

Next ==
  \/ \E r \in Request : Refuse(r) \/ Accept(r) \/ Begin(r)
  \/ \E r \in Request, k \in Results : Answer(r, k)
  \/ \E R \in SUBSET Request : End(R) \/ \E f \in Failures : Fail(R, f)

Spec == Init /\ [][Next]_vars

\* Whatever becomes of the command, its caller is told something.
Fairness == \A r \in Request : WF_vars(\E f \in Failures : Fail({r}, f))
FairSpec == Spec /\ Fairness
=============================================================================
