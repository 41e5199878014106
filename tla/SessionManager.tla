--------------------------- MODULE SessionManager ---------------------------
(* The browser sessions of one agent (apps/windows-agent/src/                 *)
(* sessionManager.ts): opening a profile takes its lock, launches Chrome and  *)
(* fills the profile's slot, with an await between each two of these; Chrome   *)
(* may die at any point; shutting down closes the slots one by one. The lock   *)
(* is the one of ProfileLock, here by what it promises.                        *)
EXTENDS Naturals, FiniteSets

CONSTANTS
  Profile,       \* profile names
  Browser,       \* Chrome instances, an instance that is gone may run again
  None,          \* no browser
  MaxLaunches,   \* CRASH_LOOP_MAX_LAUNCHES
  BrowserFaults         \* what may go wrong: "crash", "launch", "create", "inUse"

ASSUME BrowserAssumption == None \notin Browser
ASSUME MaxLaunchesAssumption == MaxLaunches \in Nat \ {0}
ASSUME BrowserFaultsAssumption == BrowserFaults \subseteq {"crash", "launch", "create", "inUse"}

VARIABLES
  slot,      \* SessionManager.slots: the browser of each profile's session
  opening,   \* SessionManager.opening: how far the launch of a profile is
  browser,   \* each Chrome instance, with the profile directory it runs on
  holder,    \* who has each profile's lock
  launches,  \* launches inside the crash-loop window
  degraded,  \* SessionManager.degraded
  closing,   \* sessions close() has taken out of the slots and not closed yet
  phase      \* the agent process

lifecycle == <<phase, closing>>
managerVars == <<slot, opening, browser, holder, launches, degraded, closing, phase>>

\* A Chrome instance is "up" until its session listens for its close event,
\* then "served"; "down" and "closed" are the same two after Chrome has gone and
\* before the event is delivered.
Absent == [state |-> "absent"]
Runs(f, s) == [state |-> s, profile |-> f]
Idle == [stage |-> "idle"]

RunsOn(f) == {b \in Browser : browser[b].state \in {"up", "served"} /\ browser[b].profile = f}
Opening(f) == opening[f].stage # "idle"
Creates(f, b) == opening[f].stage = "creating" /\ opening[f].browser = b

ManagerInit ==
  /\ slot = [f \in Profile |-> None]
  /\ opening = [f \in Profile |-> Idle]
  /\ browser = [b \in Browser |-> Absent]
  /\ holder = [f \in Profile |-> "nobody"]
  /\ launches = 0
  /\ degraded = FALSE
  /\ closing = {}
  /\ phase = "serving"

-----------------------------------------------------------------------------
(* Locks and slots *)

\* acquireProfileLock takes a lock that this process already has once more.
AcquireLock(f) ==
  /\ holder[f] # "other"
  /\ holder' = [holder EXCEPT ![f] = "agent"]

\* release removes the lock file if this process owns it, by whichever handle.
ReleaseLock(f) ==
  holder' = IF holder[f] = "agent" THEN [holder EXCEPT ![f] = "nobody"] ELSE holder

Forget(f) ==
  IF slot[f] = None THEN UNCHANGED <<slot, holder>>
  ELSE slot' = [slot EXCEPT ![f] = None] /\ ReleaseLock(f)

RecordLaunch ==
  /\ launches' = launches + 1
  /\ degraded' = (degraded \/ launches + 1 > MaxLaunches)

-----------------------------------------------------------------------------
(* open: an open session is reused and a launch under way is joined, which     *)
(* changes nothing; otherwise launch runs up to its first await.               *)

Open(f) ==
  /\ phase # "exited"
  /\ slot[f] = None /\ ~Opening(f)
  /\ ~degraded
  /\ AcquireLock(f)
  /\ RecordLaunch
  /\ opening' = [opening EXCEPT ![f] = [stage |-> "launching"]]
  /\ UNCHANGED <<slot, browser, lifecycle>>

\* Chrome does not run twice on one profile directory.
Launched(f) ==
  /\ opening[f].stage = "launching"
  /\ RunsOn(f) = {}
  /\ \E b \in Browser \ {x.browser : x \in closing} :
       /\ browser[b] = Absent
       /\ browser' = [browser EXCEPT ![b] = Runs(f, "up")]
       /\ opening' = [opening EXCEPT ![f] = [stage |-> "creating", browser |-> b]]
  /\ UNCHANGED <<slot, holder, launches, degraded, lifecycle>>

LaunchFailureKeepsLock(f) ==
  /\ opening[f].stage = "launching"
  /\ "launch" \in BrowserFaults \/ RunsOn(f) # {}
  /\ opening' = [opening EXCEPT ![f] = Idle]
  /\ UNCHANGED <<slot, browser, holder, launches, degraded, lifecycle>>

LaunchFails(f) ==
  /\ opening[f].stage = "launching"
  /\ "launch" \in BrowserFaults \/ RunsOn(f) # {}
  /\ opening' = [opening EXCEPT ![f] = Idle]
  /\ ReleaseLock(f)
  /\ UNCHANGED <<slot, browser, launches, degraded, lifecycle>>

\* BrowserSessionRuntime.create returns and the slot is filled.
SessionCreated(f) ==
  \E b \in Browser :
    /\ Creates(f, b)
    /\ browser' = [browser EXCEPT ![b].state = IF @ = "up" THEN "served" ELSE "closed"]
    /\ slot' = [slot EXCEPT ![f] = b]
    /\ opening' = [opening EXCEPT ![f] = Idle]
    /\ UNCHANGED <<holder, launches, degraded, lifecycle>>

\* create throws: the lock is released, the context stays as it is.
CreateFails(f) ==
  \E b \in Browser :
    /\ Creates(f, b)
    /\ "create" \in BrowserFaults \/ browser[b].state = "down"
    /\ browser' = [browser EXCEPT ![b] = IF @.state = "down" THEN Absent ELSE @]
    /\ opening' = [opening EXCEPT ![f] = Idle]
    /\ ReleaseLock(f)
    /\ UNCHANGED <<slot, launches, degraded, lifecycle>>

-----------------------------------------------------------------------------
(* A browser dies; its close event is delivered later. *)

Gone(b) ==
  CASE browser[b].state = "served" -> Runs(browser[b].profile, "closed")
    [] browser[b].state = "up"     -> IF \E f \in Profile : Creates(f, b)
                                      THEN Runs(browser[b].profile, "down") ELSE Absent

Dies(b) ==
  /\ "crash" \in BrowserFaults
  /\ browser[b].state \in {"up", "served"}
  /\ browser' = [browser EXCEPT ![b] = Gone(b)]
  /\ UNCHANGED <<slot, opening, holder, launches, degraded, lifecycle>>

OnContextClosed(b) ==
  /\ browser[b].state = "closed"
  /\ Forget(browser[b].profile)
  /\ browser' = [browser EXCEPT ![b] = Absent]
  /\ UNCHANGED <<opening, launches, degraded, lifecycle>>

-----------------------------------------------------------------------------
(* Shutting down and starting again *)

\* stop() of the connection ends no command: open may still be called.
Close ==
  /\ phase = "serving"
  /\ phase' = "closing"
  /\ closing' = {[profile |-> f, browser |-> slot[f]] : f \in {g \in Profile : slot[g] # None}}
  /\ slot' = [f \in Profile |-> None]
  /\ UNCHANGED <<opening, browser, holder, launches, degraded>>

\* session.close, for one session after another.
CloseContext(x) ==
  /\ x \in closing
  /\ \A y \in closing \ {x} : browser[y.browser].state = "served"
  /\ browser[x.browser].state = "served"
  /\ browser' = [browser EXCEPT ![x.browser] = Gone(x.browser)]
  /\ UNCHANGED <<slot, opening, holder, launches, degraded, lifecycle>>

CloseReturns(x) ==
  /\ x \in closing
  /\ browser[x.browser].state = "absent"
  /\ closing' = closing \ {x}
  /\ ReleaseLock(x.profile)
  /\ UNCHANGED <<slot, opening, browser, launches, degraded, phase>>

\* The process ends, and with it every Chrome it launched. A lock it still had
\* stays behind as a lock of a dead process.
Exit ==
  /\ phase = "closing" /\ closing = {}
  /\ phase' = "exited"
  /\ browser' = [b \in Browser |-> Absent]
  /\ opening' = [f \in Profile |-> Idle]
  /\ slot' = [f \in Profile |-> None]
  /\ UNCHANGED <<holder, launches, degraded, closing>>

\* A new process sweeps the locks of dead ones before it does anything else.
Restart ==
  /\ phase = "exited"
  /\ phase' = "serving"
  /\ holder' = [f \in Profile |-> IF holder[f] = "agent" THEN "nobody" ELSE holder[f]]
  /\ launches' = 0 /\ degraded' = FALSE
  /\ UNCHANGED <<slot, opening, browser, closing>>

\* Another process, such as a preflight, takes and gives back a profile's lock.
Elsewhere(f) ==
  /\ "inUse" \in BrowserFaults
  /\ \/ holder[f] = "nobody" /\ holder' = [holder EXCEPT ![f] = "other"]
     \/ holder[f] = "other" /\ holder' = [holder EXCEPT ![f] = "nobody"]
  /\ UNCHANGED <<slot, opening, browser, launches, degraded, lifecycle>>

\* The oldest launch leaves the crash-loop window.
WindowPasses ==
  /\ launches > 0
  /\ launches' = launches - 1
  /\ UNCHANGED <<slot, opening, browser, holder, degraded, lifecycle>>

-----------------------------------------------------------------------------

Continues(f) == Launched(f) \/ LaunchFails(f) \/ SessionCreated(f) \/ CreateFails(f)
Shutdown == (\E x \in closing : CloseContext(x) \/ CloseReturns(x)) \/ Exit

ManagerNext ==
  \/ \E f \in Profile : Open(f) \/ Continues(f) \/ Elsewhere(f)
  \/ \E b \in Browser : Dies(b) \/ OnContextClosed(b)
  \/ Close \/ Shutdown \/ Restart \/ WindowPasses

ManagerSpec == ManagerInit /\ [][ManagerNext]_managerVars

-----------------------------------------------------------------------------
(* Properties *)

\* While the agent serves it has the lock of exactly the profiles that have a
\* session or are being opened: no lock leaks through a failed launch or a lost
\* browser (sessionManager.ts:252-257, 344-347), and none is missing.
LockFollowsSession ==
  phase = "serving" =>
    \A f \in Profile : holder[f] = "agent" <=> slot[f] # None \/ Opening(f)

\* Chrome runs on a profile directory only while the agent has its lock
\* (sessionManager.ts:13-14: each profile name owns its Chrome instance and lock).
BrowserHasLock ==
  phase = "serving" =>
    \A f \in Profile : RunsOn(f) # {} => holder[f] = "agent"

\* A session in a slot is the profile's own, and its browser either runs or has
\* its close event on the way: a handle never resolves to a browser that is gone
\* for good, or to another profile's (sessionManager.ts:234-240).
SlotsAreAlive ==
  phase = "serving" =>
    \A f \in Profile : slot[f] # None =>
      browser[slot[f]].state \in {"served", "closed"} /\ browser[slot[f]].profile = f

\* Slots, locks and browsers agree, whenever Chrome dies or a launch fails.
SessionsOwnTheirBrowsers == LockFollowsSession /\ BrowserHasLock /\ SlotsAreAlive
=============================================================================
