------------------------- MODULE ProfileLock_proofs -------------------------
(* Proofs about the profile lock, for any number of processes and pids and any *)
(* number of starters at work at the same time.  Two starters can break it     *)
(* (the run lock_starters); what is proved is that nothing else can: until one *)
(* of them removes the lock of a live process, or an owner falls silent, the   *)
(* lock is exclusive, through crashes, reused pids, heartbeats and releases.   *)
EXTENDS ProfileLock, TLAPS

\* A process runs exactly while the operating system lends it a number.
PidsLent == \A p \in Process : pid[p] \in Pid <=> pc[p] \in Alive

Types == TypeOK /\ PidsLent

\* Only lock payloads have kind "lock".
LEMMA LockKind ==
  ASSUME NEW f \in File, f.kind = "lock"
  PROVE  f \in [kind : {"lock"}, pid : Pid, instanceId : Process, fresh : BOOLEAN]
BY DEF File, NoFile, Garbage, Created

LEMMA InitTypes == Init => Types
BY NoPidAssumption DEF Init, Types, TypeOK, PidsLent, File, Alive, Acquiring, Beating

LEMMA NextTypes == Types /\ [Next]_vars => Types'
<1> SUFFICES ASSUME Types, [Next]_vars PROVE Types'
  OBVIOUS
<1> USE NoPidAssumption DEF Types, TypeOK, PidsLent, Goes, At
<1> DEFINE PC == Alive \cup {"unborn", "dead"}
<1>a. NoFile \in File /\ Garbage \in File /\ \A p \in Process : Created(p) \in File
  BY DEF File
<1>b. \A p \in Process, n \in Pid : Payload(p, n) \in File
  BY DEF File, Payload
<1>1. ASSUME NEW p \in Process, TryWrite(p) PROVE Types'
  BY <1>1, <1>a DEF TryWrite, Alive, Acquiring
<1>2. ASSUME NEW p \in Process, Write(p) PROVE Types'
  BY <1>2, <1>b DEF Write, Alive, Acquiring
<1>3. ASSUME NEW p \in Process, Inspect(p) PROVE Types'
  BY <1>3 DEF Inspect, Alive, Acquiring
<1>4. ASSUME NEW p \in Process, Remove(p) PROVE Types'
  BY <1>4, <1>a DEF Remove, Owners, Alive, Acquiring
<1>5. ASSUME NEW p \in Process, TryWriteAgain(p) PROVE Types'
  BY <1>5, <1>a DEF TryWriteAgain, Alive, Acquiring
<1>6. ASSUME NEW p \in Process, Beat(p) PROVE Types'
  BY <1>6 DEF Beat, Alive, Beating
<1>7. ASSUME NEW p \in Process, BeatReread(p) PROVE Types'
  BY <1>7 DEF BeatReread, Alive, Beating
<1>8. ASSUME NEW p \in Process, BeatRename(p) PROVE Types'
  <2>1. file' \in File
    <3>1. CASE seen[p].kind = "lock"
      <4>1. seen[p] \in [kind : {"lock"}, pid : Pid, instanceId : Process, fresh : BOOLEAN]
        BY <3>1, LockKind
      <4>2. file' = [seen[p] EXCEPT !.fresh = TRUE]
        BY <3>1, <1>8 DEF BeatRename
      <4> QED BY <4>1, <4>2 DEF File
    <3>2. CASE seen[p].kind # "lock"
      BY <3>2, <1>8, <1>a DEF BeatRename
    <3> QED BY <3>1, <3>2
  <2> QED BY <2>1, <1>8, <1>a DEF BeatRename, Alive, Beating
<1>9. ASSUME NEW p \in Process, Release(p) PROVE Types'
  BY <1>9 DEF Release, Alive
<1>10. ASSUME NEW p \in Process, ReleaseRemove(p) PROVE Types'
  BY <1>10, <1>a DEF ReleaseRemove, Alive
<1>11. ASSUME NEW p \in Process, Sweep(p) PROVE Types'
  BY <1>11 DEF Sweep, Alive
<1>12. ASSUME NEW p \in Process, SweepRemove(p) PROVE Types'
  BY <1>12, <1>a DEF SweepRemove, Owners, Alive
<1>13. ASSUME NEW p \in Process, Start(p) PROVE Types'
  BY <1>13 DEF Start, Alive
<1>14. ASSUME NEW p \in Process, Crash(p) PROVE Types'
  BY <1>14, <1>a DEF Crash, Live, Alive, Acquiring, Beating
<1>15. ASSUME NEW p \in Process, Hang(p) \/ Wake(p) PROVE Types'
  BY <1>15 DEF Hang, Wake
<1>16. ASSUME ProgramStarts \/ ProgramEnds PROVE Types'
  BY <1>16 DEF ProgramStarts, ProgramEnds
<1>17. ASSUME Age PROVE Types'
  <2>1. file \in [kind : {"lock"}, pid : Pid, instanceId : Process, fresh : BOOLEAN]
    BY <1>17, LockKind DEF Age
  <2>2. file' \in File
    BY <2>1, <1>17 DEF Age, File
  <2> QED BY <2>2, <1>17 DEF Age
<1>18. ASSUME UNCHANGED vars PROVE Types'
  BY <1>18 DEF vars
<1> QED
  BY <1>1, <1>2, <1>3, <1>4, <1>5, <1>6, <1>7, <1>8, <1>9, <1>10, <1>11, <1>12,
     <1>13, <1>14, <1>15, <1>16, <1>17, <1>18 DEF Next, Works

\* The variables keep their types in every instance and under every fault.
THEOREM TypeCorrect == Spec => []TypeOK
<1>1. Spec => []Types
  BY InitTypes, NextTypes, PTL DEF Spec
<1> QED BY <1>1, PTL DEF Types

-----------------------------------------------------------------------------
(* Exclusion *)

\* While somebody keeps the lock the file says so, and what a heartbeat is about
\* to put in its place says so too; a file being written is its writer's.  It is
\* inductive as long as the history is Undisturbed.
IInv ==
  /\ Types
  /\ hung = {}
  /\ \A p, q \in Live : pid[p] = pid[q] => p = q
  /\ \A p \in Keepers : file = Payload(p, pid[p])
  /\ \A p \in Process : pc[p] = "rename" => seen[p] = Payload(p, pid[p])
  /\ \A p \in Process : pc[p] = "write" => file = Created(p)

\* The lock of a process that keeps it is never taken for stale.
LEMMA KeptIsNotStale ==
  ASSUME IInv, NEW p \in Process, NEW q \in Keepers, p \in Live, p # q
  PROVE  Verdict(p) = "owner_live"
<1>1. q \in Process /\ q \in Live
  BY DEF Keepers, Users, Live, Alive, Beating
<1>2. file = Payload(q, pid[q])
  BY DEF IInv
<1>3. pid[q] # pid[p]
  BY <1>1 DEF IInv
<1>4. PidAlive(pid[q])
  BY <1>1 DEF PidAlive
<1>5. file.kind = "lock" /\ file.pid = pid[q] /\ file.fresh /\ file # NoFile
  BY <1>2 DEF Payload, NoFile
<1> QED BY <1>3, <1>4, <1>5 DEF Verdict

LEMMA OneKeeper == ASSUME IInv, NEW p \in Keepers, NEW q \in Keepers PROVE p = q
BY DEF IInv, Payload

LEMMA InitIInv == Init => IInv
BY InitTypes DEF Init, IInv, Live, Alive, Keepers, Users, Acquiring, Beating

\* A file that can be removed without robbing anybody is nobody's.
LEMMA NotRobbedIsNobodys ==
  ASSUME IInv, robbed \cup Owners = {}
  PROVE  Keepers = {} /\ \A q \in Process : pc[q] # "write"
<1>1. \A q \in Keepers : q \in Owners
  BY DEF IInv, Owners, Payload, Keepers, Users
<1>2. \A q \in Process : pc[q] = "write" => q \in Owners
  BY DEF IInv, Owners
<1> QED BY <1>1, <1>2

LEMMA NextIInv == ASSUME IInv, [Next]_vars, Undisturbed, Undisturbed' PROVE IInv'
<1> USE DEF Goes, At
<1>t. Types'
  BY NextTypes DEF IInv
<1>n. /\ pc \in [Process -> Alive \cup {"unborn", "dead"}]
      /\ pid \in [Process -> Pid \cup {NoPid}]
      /\ seen \in [Process -> File]
  BY DEF IInv, Types, TypeOK
<1>k. \A p \in Process : Created(p).kind = "empty"
        /\ NoFile.kind = "none" /\ Garbage.kind = "garbage"
        /\ \A n : Payload(p, n).kind = "lock"
  BY DEF Created, NoFile, Garbage, Payload
<1> DEFINE Rest ==
      /\ hung = {}
      /\ \A p, q \in Live : pid[p] = pid[q] => p = q
<1>r. ASSUME Live' \subseteq Live, \A p \in Live' : pid'[p] = pid[p], hung' = hung
      PROVE  Rest'
  BY <1>r DEF IInv
<1> HIDE DEF Rest
<1>1. ASSUME NEW p \in Process, TryWrite(p) \/ TryWriteAgain(p) PROVE IInv'
  <2>1. Rest'
    BY <1>1, <1>n, <1>r DEF TryWrite, TryWriteAgain, Live, Alive, Acquiring
  <2>2. Keepers' = Keepers
    BY <1>1, <1>n DEF TryWrite, TryWriteAgain, Keepers, Users, Beating
  <2>3. CASE file = NoFile
    <3>1. Keepers = {} /\ \A q \in Process : pc[q] # "write"
      BY <2>3, <1>k DEF IInv, Keepers, Users
    <3> QED
      BY <3>1, <2>1, <2>2, <2>3, <1>1, <1>n, <1>t DEF TryWrite, TryWriteAgain, IInv, Rest
  <2>4. CASE file # NoFile
    BY <2>1, <2>2, <2>4, <1>1, <1>n, <1>t DEF TryWrite, TryWriteAgain, IInv, Rest
  <2> QED BY <2>3, <2>4
<1>2. ASSUME NEW p \in Process, Write(p) PROVE IInv'
  <2>1. Keepers = {} /\ file = Created(p)
    BY <1>2, <1>k DEF Write, IInv, Keepers, Users
  <2>2. Keepers' = {p}
    BY <1>2, <2>1, <1>n DEF Write, Keepers, Users, Beating
  <2>3. \A q \in Process : pc'[q] # "write" /\ pc'[q] # "rename"
    BY <1>2, <2>1, <1>n DEF Write, IInv, Created, Keepers, Users, Beating
  <2>4. Rest'
    BY <1>2, <1>n, <1>r DEF Write, Live, Alive, Acquiring
  <2>5. file' = Payload(p, pid[p]) /\ pid' = pid /\ seen' = seen
    BY <1>2, <2>1 DEF Write
  <2> QED
    BY <2>2, <2>3, <2>4, <2>5, <1>t DEF IInv, Rest
<1>3. ASSUME NEW p \in Process, Inspect(p) \/ Sweep(p) PROVE IInv'
  <2>1. Rest'
    BY <1>3, <1>n, <1>r DEF Inspect, Sweep, Live, Alive, Acquiring
  <2>2. Keepers' = Keepers
    BY <1>3, <1>n DEF Inspect, Sweep, Keepers, Users, Beating
  <2>3. \A q \in Process : pc'[q] \in {"write", "rename"} => pc[q] = pc'[q]
    BY <1>3, <1>n DEF Inspect, Sweep
  <2> QED
    BY <2>1, <2>2, <2>3, <1>3, <1>n, <1>t DEF Inspect, Sweep, IInv, Rest
<1>4. ASSUME NEW p \in Process, Remove(p) \/ SweepRemove(p) PROVE IInv'
  <2>1. robbed \cup Owners = {}
    BY <1>4 DEF Remove, SweepRemove, Undisturbed
  <2>2. Keepers = {} /\ \A q \in Process : pc[q] # "write"
    BY <2>1, NotRobbedIsNobodys
  <2>3. Rest'
    BY <1>4, <1>n, <1>r DEF Remove, SweepRemove, Live, Alive, Acquiring
  <2>4. Keepers' = {}
    BY <2>2, <1>4, <1>n DEF Remove, SweepRemove, Keepers, Users, Beating
  <2>5. \A q \in Process : pc'[q] # "write" /\ (pc'[q] = "rename" => pc[q] = "rename")
    BY <2>2, <1>4, <1>n DEF Remove, SweepRemove
  <2> QED
    BY <2>3, <2>4, <2>5, <1>4, <1>n, <1>t DEF Remove, SweepRemove, IInv, Rest
<1>5. ASSUME NEW p \in Process, Beat(p) \/ Release(p) PROVE IInv'
  <2>1. Rest'
    BY <1>5, <1>n, <1>r DEF Beat, Release, Live, Alive, Beating
  <2>2. Keepers' \subseteq Keepers
    BY <1>5, <1>n DEF Beat, Release, Keepers, Users, Beating
  <2>3. \A q \in Process : pc'[q] \in {"write", "rename"} => pc[q] = pc'[q]
    BY <1>5, <1>n DEF Beat, Release
  <2> QED
    BY <2>1, <2>2, <2>3, <1>5, <1>n, <1>t DEF Beat, Release, IInv, Rest
<1>6. ASSUME NEW p \in Process, BeatReread(p) PROVE IInv'
  <2>1. Rest'
    BY <1>6, <1>n, <1>r DEF BeatReread, Live, Alive, Beating
  <2>2. p \in Keepers /\ Keepers' = Keepers
    BY <1>6, <1>n DEF BeatReread, Keepers, Users, Beating
  <2> QED
    BY <2>1, <2>2, <1>6, <1>n, <1>t DEF BeatReread, IInv, Rest
<1>7. ASSUME NEW p \in Process, BeatRename(p) PROVE IInv'
  <2>1. Rest'
    BY <1>7, <1>n, <1>r DEF BeatRename, Live, Alive, Beating
  <2>2. p \in Keepers /\ Keepers' = Keepers
    BY <1>7, <1>n DEF BeatRename, Keepers, Users, Beating
  <2>3. file' = Payload(p, pid[p])
    BY <1>7 DEF BeatRename, IInv, Payload
  <2>4. file = Payload(p, pid[p])
    BY <2>2 DEF IInv
  <2> QED
    BY <2>1, <2>2, <2>3, <2>4, <1>7, <1>n, <1>t DEF BeatRename, IInv, Rest
<1>8. ASSUME NEW p \in Process, ReleaseRemove(p) PROVE IInv'
  <2>1. Rest'
    BY <1>8, <1>n, <1>r DEF ReleaseRemove, Live, Alive
  <2>2. p \in Keepers /\ Keepers' = Keepers \ {p}
    BY <1>8, <1>n DEF ReleaseRemove, Keepers, Users, Beating
  <2>3. Keepers' = {}
    BY <2>2, OneKeeper
  <2>4. \A q \in Process : pc[q] # "write"
    BY <2>2, <1>k DEF IInv
  <2>5. \A q \in Process : pc'[q] # "write" /\ (pc'[q] = "rename" => pc[q] = "rename")
    BY <2>4, <1>8, <1>n DEF ReleaseRemove
  <2> QED
    BY <2>1, <2>3, <2>5, <1>8, <1>n, <1>t DEF ReleaseRemove, IInv, Rest
<1>9. ASSUME NEW p \in Process, Start(p) PROVE IInv'
  <2>1. PICK n \in Pid : ~PidAlive(n) /\ pid' = [pid EXCEPT ![p] = n]
    BY <1>9 DEF Start
  <2>2. Live' = Live \cup {p} /\ p \notin Live
    BY <1>9, <1>n DEF Start, Live, Alive, Acquiring, Beating
  <2>3. Keepers' = Keepers /\ p \notin Keepers
    BY <1>9, <1>n DEF Start, Keepers, Users, Beating
  <2>4. \A q \in Live : pid'[q] = pid[q] /\ pid[q] # n
    BY <2>1, <2>2, <1>n DEF PidAlive, Live
  <2>5. \A x, y \in Live' : pid'[x] = pid'[y] => x = y
    BY <2>1, <2>2, <2>4, <1>n DEF IInv
  <2>6. \A q \in Keepers : pid'[q] = pid[q]
    BY <2>1, <2>3, <1>n DEF Keepers, Users
  <2> QED
    BY <2>3, <2>5, <2>6, <1>9, <1>n, <1>t DEF Start, IInv, Keepers, Users
<1>10. ASSUME NEW p \in Process, Crash(p) PROVE IInv'
  <2>1. \A q \in Process : q # p => pc'[q] = pc[q] /\ pid'[q] = pid[q] /\ seen'[q] = seen[q]
    BY <1>10, <1>n DEF Crash
  <2>2. pc'[p] = "dead"
    BY <1>10, <1>n DEF Crash
  <2>3. Live' = Live \ {p} /\ Keepers' = Keepers \ {p}
    BY <2>1, <2>2 DEF Live, Alive, Keepers, Users, Acquiring, Beating
  <2>4. hung' = {}
    BY <1>10 DEF Crash, IInv
  <2>5. \A q \in Keepers' : q # p /\ q \in Process
    BY <2>3 DEF Keepers, Users
  <2>6. file' = file
    BY <1>10 DEF Crash
  <2>7. \A x, y \in Live' : pid'[x] = pid'[y] => x = y
    BY <2>1, <2>3 DEF IInv, Live
  <2>8. \A q \in Keepers' : file' = Payload(q, pid'[q])
    BY <2>1, <2>3, <2>5, <2>6 DEF IInv
  <2> QED
    BY <2>1, <2>2, <2>4, <2>6, <2>7, <2>8, <1>t DEF IInv
<1>11. ASSUME NEW p \in Process, Hang(p) \/ Wake(p) PROVE IInv'
  BY <1>11 DEF Hang, Wake, IInv, Undisturbed
<1>12. ASSUME ProgramStarts \/ ProgramEnds PROVE IInv'
  BY <1>12, <1>t DEF ProgramStarts, ProgramEnds, IInv, Live, Keepers, Users
<1>13. ASSUME Age PROVE IInv'
  <2>1. Keepers = {}
    BY <1>13 DEF Age, IInv, Payload
  <2>2. \A q \in Process : pc[q] # "write"
    BY <1>13, <1>k DEF Age, IInv
  <2> QED BY <2>1, <2>2, <1>13, <1>t DEF Age, IInv, Live, Keepers, Users
<1>14. ASSUME UNCHANGED vars PROVE IInv'
  BY <1>14, <1>t DEF vars, IInv, Live, Keepers, Users
<1> QED
  BY <1>1, <1>2, <1>3, <1>4, <1>5, <1>6, <1>7, <1>8, <1>9, <1>10, <1>11, <1>12,
     <1>13, <1>14 DEF Next, Works

\* IInv holds until the history is disturbed, and no disturbance is forgotten.
Inv == Types /\ (Undisturbed => IInv)

LEMMA HistoryIsKept == ASSUME [Next]_vars, Undisturbed' PROVE Undisturbed
BY DEF Next, Works, TryWrite, Write, Inspect, Remove, TryWriteAgain, Beat, BeatReread,
   BeatRename, Release, ReleaseRemove, Sweep, SweepRemove, Start, Crash, Hang, Wake,
   ProgramStarts, ProgramEnds, Age, vars, Undisturbed

LEMMA InvHolds == Spec => []Inv
<1>1. Init => Inv
  BY InitIInv DEF Inv, IInv
<1>2. Inv /\ [Next]_vars => Inv'
  BY NextTypes, NextIInv, HistoryIsKept DEF Inv
<1> QED BY <1>1, <1>2, PTL DEF Spec

\* However many processes start, sweep, crash and reuse numbers at the same time:
\* two of them use the profile together only after a starter removed the lock of
\* a live process at one of its two removals, or after an owner fell silent.
THEOREM OnlyRobberyBreaksTheLock == Spec => []ExclusiveUntilRobbed
<1>1. Inv => ExclusiveUntilRobbed
  BY OneKeeper DEF Inv, ExclusiveUntilRobbed, Keepers
<1> QED BY <1>1, InvHolds, PTL

\* No starter condemns the lock of a process that has the profile: a removal
\* that robs somebody acts on a verdict that was right when it was given, or on
\* a lock that was being written then.
THEOREM InspectionCondemnsNoKeeper == Spec => CondemnsNoKeeper
<1>1. ASSUME Inv, [Next]_vars PROVE [CondemnsOnlyStrays]_vars
  <2> SUFFICES ASSUME Undisturbed, NEW p \in Process, Condemns(p), NEW q \in Keepers, Next PROVE FALSE
    BY <1>1 DEF CondemnsOnlyStrays
  <2>1. IInv /\ pc \in [Process -> Alive \cup {"unborn", "dead"}]
    BY <1>1 DEF Inv, Types, TypeOK
  <2>2. p \in Live /\ p # q
    BY DEF Condemns, Live, Alive, Acquiring, Keepers, Users, Beating
  <2>3. ~Stale(p)
    BY <2>1, <2>2, KeptIsNotStale DEF Stale
  <2> QED BY <2>1, <2>3 DEF Condemns, Next, Works, TryWrite, Write, Inspect, Remove, TryWriteAgain, Beat,
             BeatReread, BeatRename, Release, ReleaseRemove, Sweep, SweepRemove, Start, Crash, Hang, Wake,
             ProgramStarts, ProgramEnds, Age, Goes, At
<1>2. Inv /\ [Next]_vars => [CondemnsOnlyStrays]_vars
  BY <1>1
<1> QED BY <1>2, InvHolds, PTL DEF Spec, CondemnsNoKeeper

\* Every step of the lock is a step of the abstract lock or leaves its users
\* alone: acquiring takes it, releasing or dying gives it back.
Taken(p) == Users = {} /\ Users' = {p}
Given(p) == Users = {p} /\ Users' = {}
LockStep == Users' = Users \/ \E p \in Process : Taken(p) \/ Given(p)

LEMMA StepOfLock ==
  ASSUME IInv, [Next]_vars PROVE LockStep
<1> USE DEF Goes, At
<1>n. pc \in [Process -> Alive \cup {"unborn", "dead"}]
  BY DEF IInv, Types, TypeOK
<1>u. \A p, q \in Users : p = q
  BY OneKeeper DEF Keepers
<1>1. ASSUME NEW p \in Process, Write(p) PROVE LockStep
  <2>1. Users = {}
    BY <1>1 DEF Write, IInv, Keepers, Created, Payload
  <2>2. Users' = {p}
    BY <2>1, <1>1, <1>n DEF Write, Users, Beating
  <2> QED BY <2>1, <2>2 DEF LockStep, Taken
<1>2. ASSUME NEW p \in Process, Release(p) \/ Crash(p) PROVE LockStep
  <2>1. Users' = Users \ {p}
    BY <1>2, <1>n DEF Release, Crash, Users, Beating
  <2>2. CASE p \in Users
    <3>1. Users = {p} /\ Users' = {}
      BY <2>1, <2>2, <1>u
    <3> QED BY <3>1 DEF LockStep, Given
  <2>3. CASE p \notin Users
    BY <2>1, <2>3 DEF LockStep
  <2> QED BY <2>2, <2>3
<1>3. ASSUME NEW p \in Process,
             \/ TryWrite(p) \/ Inspect(p) \/ Remove(p) \/ TryWriteAgain(p)
             \/ Beat(p) \/ BeatReread(p) \/ BeatRename(p)
             \/ ReleaseRemove(p) \/ Sweep(p) \/ SweepRemove(p) \/ Start(p)
      PROVE  Users' = Users
  BY <1>3, <1>n DEF TryWrite, Inspect, Remove, TryWriteAgain, Beat, BeatReread, BeatRename,
     ReleaseRemove, Sweep, SweepRemove, Start, Users, Beating
<1>4. ASSUME NEW p \in Process, Hang(p) \/ Wake(p) PROVE Users' = Users
  BY <1>4 DEF Hang, Wake, Users
<1>5. ASSUME ProgramStarts \/ ProgramEnds \/ Age \/ UNCHANGED vars PROVE Users' = Users
  BY <1>5 DEF ProgramStarts, ProgramEnds, Age, vars, Users
<1> QED BY <1>1, <1>2, <1>3, <1>4, <1>5 DEF Next, Works, LockStep

\* A disturbance of the history is giving back, and nothing follows it.
LEMMA StepOfUndisturbedUsers ==
  ASSUME Inv, [Next]_vars PROVE [UntilRobbed!Next]_UndisturbedUsers
<1>1. CASE Undisturbed'
  <2>1. Undisturbed /\ IInv
    BY <1>1, HistoryIsKept DEF Inv
  <2>2. LockStep
    BY <2>1, StepOfLock
  <2> QED BY <1>1, <2>1, <2>2
      DEF UndisturbedUsers, LockStep, Taken, Given, UntilRobbed!Next, UntilRobbed!Take, UntilRobbed!Give
<1>2. CASE ~Undisturbed'
  <2>1. UndisturbedUsers' = {}
    BY <1>2 DEF UndisturbedUsers
  <2>2. \A p \in UndisturbedUsers : p \in Process /\ UndisturbedUsers = {p}
    BY OneKeeper DEF Inv, UndisturbedUsers, Keepers, Users
  <2> QED BY <2>1, <2>2 DEF UntilRobbed!Next, UntilRobbed!Give
<1> QED BY <1>1, <1>2

\* The lock file with its heartbeats, inspections and sweeps implements
\* exclusive use up to the first removal of a live process's lock.
THEOREM LockRefinesExclusiveUseUntilRobbed == Spec => IsLockUntilRobbed
<1>1. Init => UntilRobbed!Init
  BY DEF Init, UntilRobbed!Init, UndisturbedUsers, Users, Beating
<1>2. Inv /\ [Next]_vars => [UntilRobbed!Next]_UndisturbedUsers
  BY StepOfUndisturbedUsers
<1> QED BY <1>1, <1>2, InvHolds, PTL DEF Spec, IsLockUntilRobbed, UntilRobbed!Spec
=============================================================================
