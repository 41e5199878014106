---------------------------- MODULE ProfileLock ----------------------------
(* The lock file of one browser profile directory and the processes that use  *)
(* it (packages/browser-core/src/launcher.ts). Every file operation of the     *)
(* source is a step of its own: the source is synchronous, so one process      *)
(* does nothing else in between, but any other process may.                    *)
(*                                                                             *)
(* A process is one run of the agent or of its preflight, so it is also the    *)
(* instance id that run writes into its locks; its pid is a number the         *)
(* operating system lends it and may lend again.                               *)
EXTENDS Naturals, FiniteSets

CONSTANTS
  Process,   \* runs of the agent on this host, each started at most once
  Pid,       \* process numbers of the operating system
  NoPid,     \* what a process has that does not run
  Faults,    \* what may go wrong: "crash", "hang"
  MaxBusy    \* bound: acquisitions and sweeps under way at the same time

ASSUME ProcessAssumption == IsFiniteSet(Process)
ASSUME FaultsAssumption == Faults \subseteq {"crash", "hang"}
ASSUME NoPidAssumption == NoPid \notin Pid
ASSUME MaxBusyAssumption == MaxBusy \in Nat \ {0}

VARIABLES
  file,      \* the lock file
  pc,        \* which file operation each process does next
  seen,      \* what the heartbeat of each process read the second time
  pid,       \* the number each process runs under
  programs,  \* numbers under which other programs run
  hung,      \* live processes whose timers do not fire
  silenced,  \* history: processes that have ever been hung
  robbed     \* history: processes whose lock a starter removed while it was theirs

vars == <<file, pc, seen, pid, programs, hung, silenced, robbed>>

NoFile == [kind |-> "none"]
\* Created by writeFileSync's open, its contents not yet written.
Created(p) == [kind |-> "empty", by |-> p]
\* No JSON object with a pid and a hostname.
Garbage == [kind |-> "garbage"]
\* fresh: refreshed within PROFILE_LOCK_STALE_AFTER_MS.
PayloadWithoutPid(p, n) == [kind |-> "lock", instanceId |-> p, fresh |-> TRUE]
Payload(p, n) == [kind |-> "lock", pid |-> n, instanceId |-> p, fresh |-> TRUE]

File == {NoFile, Garbage} \cup {Created(p) : p \in Process}
          \cup [kind : {"lock"}, pid : Pid, instanceId : Process, fresh : BOOLEAN]

Acquiring == {"inspect", "remove", "recreate", "write"}
Beating   == {"reread", "rename"}
Alive     == {"sweep", "idle", "sweepRemove", "held", "releaseRemove"}
               \cup Acquiring \cup Beating

Live == {p \in Process : pc[p] \in Alive}
Busy == {p \in Process : pc[p] \in Acquiring \cup {"sweepRemove"}}
\* Processes whose acquireProfileLock returned and whose release has not begun:
\* they run a browser on the profile.
Users == {p \in Process : pc[p] \in {"held"} \cup Beating}
\* Processes between taking the lock and having removed it.
Keepers == Users \cup {p \in Process : pc[p] = "releaseRemove"}
\* Processes whose lock the file is, while they write, use or release it.
Owners == {p \in Process : \/ pc[p] = "write" /\ file = Created(p)
                           \/ p \in Keepers /\ file.kind = "lock" /\ file.instanceId = p}

Init ==
  /\ file = NoFile
  /\ pc = [p \in Process |-> "unborn"]
  /\ seen = [p \in Process |-> NoFile]
  /\ pid = [p \in Process |-> NoPid]
  /\ programs \in SUBSET Pid
  /\ hung = {}
  /\ silenced = {}
  /\ robbed = {}

-----------------------------------------------------------------------------
(* Reading the lock *)

PidAliveIfOurs(n) == n \in programs

PidAlive(n) == n \in programs \/ \E q \in Process : pid[q] = n

VerdictByInstance(p) ==
  CASE file = NoFile       -> "no_lock"
    [] file.kind \in {"empty", "garbage"} -> "unreadable"
    [] file.kind = "lock"  -> IF file.instanceId = p THEN "self" ELSE "pid_reused"

VerdictByPid(p) ==
  CASE file = NoFile       -> "no_lock"
    [] file.kind \in {"empty", "garbage"} -> "unreadable"
    [] file.kind = "lock"  -> IF file.pid = pid[p] THEN "self"
                              ELSE IF PidAlive(file.pid) THEN "owner_live"
                              ELSE "owner_dead"

\* inspectProfileLock, in the order of its returns. A lock of another host is
\* not modelled: it is never stale and nothing here removes it.
Verdict(p) ==
  CASE file = NoFile       -> "no_lock"
    [] file.kind \in {"empty", "garbage"} -> "unreadable"
    [] file.kind = "lock"  -> IF file.pid = pid[p]
                              THEN IF file.instanceId = p THEN "self" ELSE "pid_reused"
                              ELSE IF ~PidAlive(file.pid) THEN "owner_dead"
                              ELSE IF ~file.fresh THEN "owner_silent"
                              ELSE "owner_live"

Stale(p) == Verdict(p) # "owner_live"

OwnsLock(p) == file.kind = "lock" /\ file.pid = pid[p] /\ file.instanceId = p

Goes(p, where) == pc' = [pc EXCEPT ![p] = where]

\* p runs: it is at that operation and its event loop is not blocked.
At(p, where) == pc[p] = where /\ p \notin hung

-----------------------------------------------------------------------------
(* acquireProfileLock *)

TryWrite(p) ==
  /\ At(p, "idle")
  /\ Cardinality(Busy) < MaxBusy
  /\ IF file = NoFile
     THEN file' = Created(p) /\ Goes(p, "write")
     ELSE file' = file /\ Goes(p, "inspect")
  /\ UNCHANGED <<seen, pid, programs, hung, silenced, robbed>>

\* The contents go into the file that p created, wherever its name is now.
Write(p) ==
  /\ At(p, "write")
  /\ file' = IF file = Created(p) THEN Payload(p, pid[p]) ELSE file
  /\ Goes(p, "held")
  /\ UNCHANGED <<seen, pid, programs, hung, silenced, robbed>>

\* A lock that is not stale is PROFILE_IN_USE.
Inspect(p) ==
  /\ At(p, "inspect")
  /\ Goes(p, IF Stale(p) THEN "remove" ELSE "idle")
  /\ UNCHANGED <<file, seen, pid, programs, hung, silenced, robbed>>

Remove(p) ==
  /\ At(p, "remove")
  /\ file' = NoFile
  /\ robbed' = robbed \cup Owners
  /\ Goes(p, "recreate")
  /\ UNCHANGED <<seen, pid, programs, hung, silenced>>

\* Somebody else's file is there again: PROFILE_IN_USE.
TryWriteAgain(p) ==
  /\ At(p, "recreate")
  /\ IF file = NoFile
     THEN file' = Created(p) /\ Goes(p, "write")
     ELSE file' = file /\ Goes(p, "idle")
  /\ UNCHANGED <<seen, pid, programs, hung, silenced, robbed>>

-----------------------------------------------------------------------------
(* The heartbeat reads twice, then renames a new file over the lock. *)

Beat(p) ==
  /\ At(p, "held")
  /\ OwnsLock(p)
  /\ Goes(p, "reread")
  /\ UNCHANGED <<file, seen, pid, programs, hung, silenced, robbed>>

\* The second read is spread into the new payload whatever it returned.
BeatReread(p) ==
  /\ At(p, "reread")
  /\ seen' = [seen EXCEPT ![p] = file]
  /\ Goes(p, "rename")
  /\ UNCHANGED <<file, pid, programs, hung, silenced, robbed>>

BeatRename(p) ==
  /\ At(p, "rename")
  /\ file' = IF seen[p].kind = "lock" THEN [seen[p] EXCEPT !.fresh = TRUE]
                                       ELSE Garbage
  /\ seen' = [seen EXCEPT ![p] = NoFile]
  /\ Goes(p, "held")
  /\ UNCHANGED <<pid, programs, hung, silenced, robbed>>

-----------------------------------------------------------------------------
(* release and the sweep at start-up *)

Release(p) ==
  /\ At(p, "held")
  /\ Goes(p, IF OwnsLock(p) THEN "releaseRemove" ELSE "idle")
  /\ UNCHANGED <<file, seen, pid, programs, hung, silenced, robbed>>

ReleaseRemove(p) ==
  /\ At(p, "releaseRemove")
  /\ file' = NoFile
  /\ Goes(p, "idle")
  /\ UNCHANGED <<seen, pid, programs, hung, silenced, robbed>>

Sweep(p) ==
  /\ At(p, "sweep")
  /\ Cardinality(Busy) < MaxBusy
  /\ Goes(p, IF Stale(p) /\ Verdict(p) \notin {"no_lock", "self"}
             THEN "sweepRemove" ELSE "idle")
  /\ UNCHANGED <<file, seen, pid, programs, hung, silenced, robbed>>

SweepRemove(p) ==
  /\ At(p, "sweepRemove")
  /\ file' = NoFile
  /\ robbed' = robbed \cup Owners
  /\ Goes(p, "idle")
  /\ UNCHANGED <<seen, pid, programs, hung, silenced>>

-----------------------------------------------------------------------------
(* The operating system and the clock *)

\* The agent sweeps before it opens anything; a preflight does not sweep.
Start(p) ==
  /\ pc[p] = "unborn"
  /\ \E n \in Pid : ~PidAlive(n) /\ pid' = [pid EXCEPT ![p] = n]
  /\ Goes(p, "sweep") \/ Goes(p, "idle")
  /\ UNCHANGED <<file, seen, programs, hung, silenced, robbed>>

Crash(p) ==
  /\ "crash" \in Faults
  /\ p \in Live
  /\ Goes(p, "dead")
  /\ pid' = [pid EXCEPT ![p] = NoPid]
  /\ seen' = [seen EXCEPT ![p] = NoFile]
  /\ hung' = hung \ {p}
  /\ UNCHANGED <<file, programs, silenced, robbed>>

\* The event loop blocks, or the machine sleeps, between two timers.
Hang(p) ==
  /\ "hang" \in Faults
  /\ At(p, "held")
  /\ hung' = hung \cup {p}
  /\ silenced' = silenced \cup {p}
  /\ UNCHANGED <<file, pc, seen, pid, programs, robbed>>

Wake(p) ==
  /\ p \in hung
  /\ hung' = hung \ {p}
  /\ UNCHANGED <<file, pc, seen, pid, programs, silenced, robbed>>

\* A program that is no agent takes a free number, or gives one back.
ProgramStarts ==
  /\ \E n \in Pid : ~PidAlive(n) /\ programs' = programs \cup {n}
  /\ UNCHANGED <<file, pc, seen, pid, hung, silenced, robbed>>

ProgramEnds ==
  /\ \E n \in programs : programs' = programs \ {n}
  /\ UNCHANGED <<file, pc, seen, pid, hung, silenced, robbed>>

\* Five minutes without a heartbeat: an owner whose event loop is not blocked
\* refreshes every thirty seconds, and removes its lock without a pause.
Age ==
  /\ file.kind = "lock" /\ file.fresh
  /\ file.instanceId \notin Keepers \ hung
  /\ file' = [file EXCEPT !.fresh = FALSE]
  /\ UNCHANGED <<pc, seen, pid, programs, hung, silenced, robbed>>

-----------------------------------------------------------------------------

Works(p) ==
  \/ Write(p) \/ Inspect(p) \/ Remove(p) \/ TryWriteAgain(p)
  \/ BeatReread(p) \/ BeatRename(p)
  \/ ReleaseRemove(p) \/ Sweep(p) \/ SweepRemove(p)

Next ==
  \/ \E p \in Process :
       \/ Works(p) \/ TryWrite(p) \/ Beat(p) \/ Release(p)
       \/ Start(p) \/ Crash(p) \/ Hang(p) \/ Wake(p)
  \/ ProgramStarts \/ ProgramEnds \/ Age

Spec == Init /\ [][Next]_vars

\* A started file operation ends, the clock runs, and a running agent is asked
\* for the profile again and again.
FairSpec ==
  /\ Spec
  /\ \A p \in Process : WF_vars(Works(p)) /\ SF_vars(TryWrite(p))
  /\ WF_vars(Age)

-----------------------------------------------------------------------------
(* Properties *)

TypeOK ==
  /\ file \in File
  /\ pc \in [Process -> Alive \cup {"unborn", "dead"}]
  /\ seen \in [Process -> File]
  /\ pid \in [Process -> Pid \cup {NoPid}]
  /\ programs \in SUBSET Pid
  /\ hung \in SUBSET Process
  /\ silenced \in SUBSET Process
  /\ robbed \in SUBSET Process

\* "exactly one browser process may own the profile directory" (launcher.ts:359):
\* until an owner falls silent, which the code gives up on by design, no two
\* processes use the profile together.
Exclusive == silenced = {} => \A p, q \in Users : p = q

\* acquireProfileLock and release together are a lock: whatever the crashes,
\* reused numbers and sweeps, the users change only as ExclusiveUse allows, up
\* to the moment an owner falls silent and has, for the lock, given back.
CertainUsers == IF silenced = {} THEN Users ELSE {}
Lock == INSTANCE ExclusiveUse WITH users <- CertainUsers
IsLock == Lock!Spec

\* Starters race each other (the run lock_starters), and what breaks the lock
\* then is one of their two removals and nothing else: as long as none of them
\* took a lock its owner was writing, using or releasing, heartbeats, releases,
\* crashes and reused numbers leave one user at most.
Undisturbed == silenced = {} /\ robbed = {}
ExclusiveUntilRobbed == Undisturbed => \A p, q \in Users : p = q

\* And the users change as ExclusiveUse allows up to that removal.
UndisturbedUsers == IF Undisturbed THEN Users ELSE {}
UntilRobbed == INSTANCE ExclusiveUse WITH users <- UndisturbedUsers
IsLockUntilRobbed == UntilRobbed!Spec

\* The inspection before such a removal is not what errs: it never condemns the
\* lock of a process that has the profile, so that a lock is taken from its user
\* only if it was not there yet, or not written yet, when it was inspected.
Condemns(p) == pc[p] \in {"sweep", "inspect"} /\ pc'[p] \in {"remove", "sweepRemove"}
CondemnsOnlyStrays == Undisturbed /\ (\E p \in Process : Condemns(p)) => Owners \cap Keepers = {}
CondemnsNoKeeper == [][CondemnsOnlyStrays]_vars

\* A lock does not outlive its process: while some agent that does not have the
\* profile runs and asks for it, the lock of a dead process is replaced or
\* removed, whatever program has its number by now (launcher.ts:362-369).
Asking == Live \ (hung \cup Keepers)
NamesDead(p) == pc[p] = "dead" /\ file.kind = "lock" /\ file.instanceId = p
DeadOwnerIsReplaced ==
  \A p \in Process : NamesDead(p) ~> (~NamesDead(p) \/ Asking = {})
=============================================================================
