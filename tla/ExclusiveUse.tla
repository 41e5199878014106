---------------------------- MODULE ExclusiveUse ----------------------------
(* What a profile lock promises: the profile directory is used by nobody or by *)
(* one process, a process takes it only while nobody has it, and gives back    *)
(* only what it has (SDD section 13, quoted at launcher.ts:359).               *)
CONSTANT Process
VARIABLE users

Init == users = {}

Take(p) == users = {} /\ users' = {p}

Give(p) == users = {p} /\ users' = {}

Next == \E p \in Process : Take(p) \/ Give(p)

Spec == Init /\ [][Next]_users
=============================================================================
