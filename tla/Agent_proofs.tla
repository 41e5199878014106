---------------------------- MODULE Agent_proofs ----------------------------
(***************************************************************************)
(* Proofs about what an agent keeps in memory: its browser sessions        *)
(* (SessionManager) and its batches (BatchJobs).                           *)
(***************************************************************************)
EXTENDS SessionManager, BatchJobs, FiniteSetTheorems, SequenceTheorems, TLAPS

-----------------------------------------------------------------------------
(* Browser sessions                                                         *)

IdleLaunch == [stage : {"idle"}]
Launching == [stage : {"launching"}]
Creating == [stage : {"creating"}, browser : Browser]
LaunchState == IdleLaunch \cup Launching \cup Creating
NoBrowser == [state : {"absent"}]
BrowserOn == [state : {"up", "served", "down", "closed"}, profile : Profile]
BrowserState == NoBrowser \cup BrowserOn

ManagerTypes ==
  /\ slot \in [Profile -> Browser \cup {None}]
  /\ opening \in [Profile -> LaunchState]
  /\ browser \in [Browser -> BrowserState]
  /\ holder \in [Profile -> {"nobody", "agent", "other"}]
  /\ closing \subseteq [profile : Profile, browser : Browser]
  /\ phase \in {"serving", "closing", "exited"}

\* The Chrome of a launch has no session yet and runs on the launch's profile.
Launches ==
  \A f \in Profile, b \in Browser : Creates(f, b) =>
    browser[b].state \in {"up", "down"} /\ browser[b].profile = f

\* While the agent serves, a profile has a session or is being opened or
\* neither, has the lock in the first two cases, and each Chrome that runs or
\* has just gone is the one of its profile's session or launch.
Serving ==
  /\ closing = {}
  /\ \A f \in Profile :
       /\ holder[f] = "agent" <=> slot[f] # None \/ Opening(f)
       /\ slot[f] # None =>
            /\ ~Opening(f)
            /\ browser[slot[f]].state \in {"served", "closed"} /\ browser[slot[f]].profile = f
  /\ \A b \in Browser :
       /\ browser[b].state \in {"served", "closed"} => \E f \in Profile : slot[f] = b
       /\ browser[b].state \in {"up", "down"} => \E f \in Profile : Creates(f, b)

\* A process that has exited has left nothing but the locks of a dead process.
Ended ==
  /\ closing = {}
  /\ \A f \in Profile : slot[f] = None /\ opening[f] = Idle
  /\ \A b \in Browser : browser[b] = Absent

ManagerInv ==
  /\ ManagerTypes /\ Launches
  /\ phase = "serving" => Serving
  /\ phase = "exited" => Ended

LEMMA BrowserRecords ==
  /\ Absent \in NoBrowser /\ \A f \in Profile : \A s \in {"up", "served", "down", "closed"} : Runs(f, s) \in BrowserOn
  /\ \A x \in NoBrowser : x = Absent /\ x.state = "absent"
  /\ \A x \in BrowserOn : x.state \in {"up", "served", "down", "closed"} /\ x.profile \in Profile
  /\ \A f, s : Runs(f, s).state = s /\ Runs(f, s).profile = f
  /\ Absent.state = "absent"
BY DEF Absent, NoBrowser, BrowserOn, Runs

LEMMA LaunchRecords ==
  /\ Idle \in IdleLaunch /\ [stage |-> "launching"] \in Launching
  /\ \A b \in Browser : [stage |-> "creating", browser |-> b] \in Creating
  /\ \A x \in IdleLaunch : x = Idle /\ x.stage = "idle"
  /\ \A x \in Launching : x.stage = "launching"
  /\ \A x \in Creating : x.stage = "creating" /\ x.browser \in Browser
  /\ Idle.stage = "idle"
BY DEF Idle, IdleLaunch, Launching, Creating

\* One entry of a table of records changes.
LEMMA BrowserSet ==
  ASSUME ManagerTypes, NEW b \in Browser, NEW x \in BrowserState, browser' = [browser EXCEPT ![b] = x]
  PROVE  /\ browser' \in [Browser -> BrowserState]
         /\ browser'[b] = x /\ \A c \in Browser : c # b => browser'[c] = browser[c]
BY DEF ManagerTypes

LEMMA OpeningSet ==
  ASSUME ManagerTypes, NEW f \in Profile, NEW x \in LaunchState, opening' = [opening EXCEPT ![f] = x]
  PROVE  /\ opening' \in [Profile -> LaunchState]
         /\ opening'[f] = x /\ \A g \in Profile : g # f => opening'[g] = opening[g]
BY DEF ManagerTypes

LEMMA SlotSet ==
  ASSUME ManagerTypes, NEW f \in Profile, NEW x \in Browser \cup {None}, slot' = [slot EXCEPT ![f] = x]
  PROVE  /\ slot' \in [Profile -> Browser \cup {None}]
         /\ slot'[f] = x /\ \A g \in Profile : g # f => slot'[g] = slot[g]
BY DEF ManagerTypes

LEMMA LockReleased ==
  ASSUME ManagerTypes, NEW f \in Profile, ReleaseLock(f)
  PROVE  /\ holder' \in [Profile -> {"nobody", "agent", "other"}] /\ holder'[f] # "agent"
         /\ \A g \in Profile : g # f => holder'[g] = holder[g]
BY DEF ManagerTypes, ReleaseLock

LEMMA LockAcquired ==
  ASSUME ManagerTypes, NEW f \in Profile, AcquireLock(f)
  PROVE  /\ holder' \in [Profile -> {"nobody", "agent", "other"}] /\ holder'[f] = "agent"
         /\ \A g \in Profile : g # f => holder'[g] = holder[g]
BY DEF ManagerTypes, AcquireLock

\* What Chrome's going leaves of its entry.
LEMMA GoneType ==
  ASSUME ManagerTypes, NEW b \in Browser, browser[b].state \in {"up", "served"}
  PROVE  /\ Gone(b) \in BrowserState
         /\ browser[b].state = "served" => Gone(b) = Runs(browser[b].profile, "closed")
         /\ browser[b].state = "up" /\ (\E f \in Profile : Creates(f, b)) => Gone(b) = Runs(browser[b].profile, "down")
<1>1. browser[b] \in BrowserState
  BY DEF ManagerTypes
<1>2. browser[b] \in BrowserOn /\ browser[b].profile \in Profile
  BY <1>1, BrowserRecords DEF BrowserState
<1> QED
  BY <1>2, BrowserRecords DEF Gone, BrowserState

\* The browser of a launch that succeeds, whether Chrome still runs or not.
LEMMA CreatedBrowser ==
  ASSUME ManagerTypes, Launches, NEW f \in Profile, NEW b \in Browser, Creates(f, b),
         browser' = [browser EXCEPT ![b].state = IF @ = "up" THEN "served" ELSE "closed"]
  PROVE  /\ browser' \in [Browser -> BrowserState]
         /\ browser'[b] = Runs(f, IF browser[b].state = "up" THEN "served" ELSE "closed")
         /\ \A c \in Browser : c # b => browser'[c] = browser[c]
<1> DEFINE s == IF browser[b].state = "up" THEN "served" ELSE "closed"
           x == [browser[b] EXCEPT !.state = s]
<1>1. browser[b].state \in {"up", "down"} /\ browser[b].profile = f /\ browser[b] \in BrowserState
  BY DEF Launches, ManagerTypes
<1>2. browser[b] \in BrowserOn
  BY <1>1, BrowserRecords DEF BrowserState
<1>3. browser[b] = [state |-> browser[b].state, profile |-> f]
  BY <1>1, <1>2 DEF BrowserOn
<1>4. x = Runs(f, s)
  BY <1>3 DEF Runs
<1>5. browser' = [browser EXCEPT ![b] = x]
  OBVIOUS
<1>6. x \in BrowserState
  BY <1>4, BrowserRecords DEF BrowserState
<1> HIDE DEF x
<1> QED
  BY <1>4, <1>5, <1>6, BrowserSet

LEMMA ManagerTypesStep ==
  ManagerTypes /\ Launches /\ ManagerNext => ManagerTypes'
<1> SUFFICES ASSUME ManagerTypes, Launches, ManagerNext PROVE ManagerTypes'
  OBVIOUS
<1> USE BrowserAssumption DEF lifecycle
\* A launch ends: its entry is Idle again.
<1>0. ASSUME NEW f \in Profile, opening' = [opening EXCEPT ![f] = Idle]
      PROVE  opening' \in [Profile -> LaunchState]
  BY <1>0, OpeningSet, LaunchRecords DEF LaunchState
<1>1. ASSUME NEW f \in Profile, Open(f) PROVE ManagerTypes'
  <2>1. [stage |-> "launching"] \in LaunchState
    BY LaunchRecords DEF LaunchState
  <2>2. opening' \in [Profile -> LaunchState]
    BY <1>1, <2>1, OpeningSet DEF Open
  <2>3. holder' \in [Profile -> {"nobody", "agent", "other"}]
    BY <1>1, LockAcquired DEF Open
  <2> QED
    BY <1>1, <2>2, <2>3 DEF Open, ManagerTypes
<1>2. ASSUME NEW f \in Profile, Launched(f) PROVE ManagerTypes'
  <2>1. PICK b \in Browser : /\ browser' = [browser EXCEPT ![b] = Runs(f, "up")]
                             /\ opening' = [opening EXCEPT ![f] = [stage |-> "creating", browser |-> b]]
    BY <1>2 DEF Launched
  <2>2. Runs(f, "up") \in BrowserState /\ [stage |-> "creating", browser |-> b] \in LaunchState
    BY BrowserRecords, LaunchRecords DEF BrowserState, LaunchState
  <2>3. browser' \in [Browser -> BrowserState]
    BY <2>1, <2>2, BrowserSet
  <2>4. opening' \in [Profile -> LaunchState]
    BY <2>1, <2>2, OpeningSet
  <2> QED
    BY <1>2, <2>3, <2>4 DEF Launched, ManagerTypes
<1>3. ASSUME NEW f \in Profile, LaunchFails(f) PROVE ManagerTypes'
  BY <1>0, <1>3, LockReleased DEF LaunchFails, ManagerTypes
<1>4. ASSUME NEW f \in Profile, SessionCreated(f) PROVE ManagerTypes'
  <2>1. PICK b \in Browser : /\ Creates(f, b)
                             /\ browser' = [browser EXCEPT ![b].state = IF @ = "up" THEN "served" ELSE "closed"]
                             /\ slot' = [slot EXCEPT ![f] = b]
                             /\ opening' = [opening EXCEPT ![f] = Idle]
    BY <1>4 DEF SessionCreated
  <2>2. browser' \in [Browser -> BrowserState]
    BY <2>1, CreatedBrowser
  <2> QED
    BY <1>0, <1>4, <2>1, <2>2 DEF SessionCreated, ManagerTypes
<1>5. ASSUME NEW f \in Profile, CreateFails(f) PROVE ManagerTypes'
  <2>1. PICK b \in Browser : /\ browser' = [browser EXCEPT ![b] = IF @.state = "down" THEN Absent ELSE @]
                             /\ opening' = [opening EXCEPT ![f] = Idle]
    BY <1>5 DEF CreateFails
  <2>2. browser' \in [Browser -> BrowserState]
    BY <2>1, BrowserRecords DEF BrowserState, ManagerTypes
  <2>3. ReleaseLock(f) /\ UNCHANGED <<slot, closing, phase>>
    BY <1>5 DEF CreateFails
  <2> QED
    BY <1>0, <2>1, <2>2, <2>3, LockReleased DEF ManagerTypes
<1>6. ASSUME NEW f \in Profile, Elsewhere(f) PROVE ManagerTypes'
  BY <1>6 DEF Elsewhere, ManagerTypes
<1>7. ASSUME NEW b \in Browser, browser[b].state \in {"up", "served"}, browser' = [browser EXCEPT ![b] = Gone(b)],
             UNCHANGED <<slot, opening, holder, lifecycle>>
      PROVE  ManagerTypes'
  <2>1. browser' \in [Browser -> BrowserState]
    BY <1>7, GoneType, BrowserSet
  <2> QED
    BY <1>7, <2>1 DEF ManagerTypes
<1>8. ASSUME NEW b \in Browser, Dies(b) PROVE ManagerTypes'
  BY <1>7, <1>8 DEF Dies
<1>9. ASSUME NEW b \in Browser, OnContextClosed(b) PROVE ManagerTypes'
  <2>1. browser[b] \in BrowserState /\ browser[b].state = "closed"
    BY <1>9 DEF OnContextClosed, ManagerTypes
  <2>2. PICK f \in Profile : f = browser[b].profile
    BY <2>1, BrowserRecords DEF BrowserState
  <2>3. Absent \in BrowserState
    BY BrowserRecords DEF BrowserState
  <2>4. browser' \in [Browser -> BrowserState]
    BY <1>9, <2>3, BrowserSet DEF OnContextClosed
  <2>5. UNCHANGED <<slot, holder>> \/ (slot' = [slot EXCEPT ![f] = None] /\ ReleaseLock(f))
    BY <1>9, <2>2 DEF OnContextClosed, Forget
  <2>6. slot' \in [Profile -> Browser \cup {None}] /\ holder' \in [Profile -> {"nobody", "agent", "other"}]
    BY <2>5, SlotSet, LockReleased DEF ManagerTypes
  <2> QED
    BY <1>9, <2>4, <2>6 DEF OnContextClosed, ManagerTypes
<1>10. CASE Close
  <2>1. closing' \subseteq [profile : Profile, browser : Browser]
    BY <1>10 DEF Close, ManagerTypes
  <2> QED
    BY <1>10, <2>1 DEF Close, ManagerTypes
<1>11. ASSUME NEW x \in closing, CloseContext(x) PROVE ManagerTypes'
  <2>1. x.browser \in Browser
    BY DEF ManagerTypes
  <2> QED
    BY <1>7, <1>11, <2>1 DEF CloseContext
<1>12. ASSUME NEW x \in closing, CloseReturns(x) PROVE ManagerTypes'
  <2>1. x.profile \in Profile
    BY DEF ManagerTypes
  <2>2. holder' \in [Profile -> {"nobody", "agent", "other"}]
    BY <1>12, <2>1, LockReleased DEF CloseReturns
  <2> QED
    BY <1>12, <2>2 DEF CloseReturns, ManagerTypes
<1>13. CASE Exit
  <2>1. Absent \in BrowserState /\ Idle \in LaunchState
    BY BrowserRecords, LaunchRecords DEF BrowserState, LaunchState
  <2> QED
    BY <1>13, <2>1 DEF Exit, ManagerTypes
<1>14. CASE Restart
  BY <1>14 DEF Restart, ManagerTypes
<1>15. CASE WindowPasses
  BY <1>15 DEF WindowPasses, ManagerTypes
<1> QED
  BY <1>1, <1>2, <1>3, <1>4, <1>5, <1>6, <1>8, <1>9, <1>10, <1>11, <1>12, <1>13, <1>14, <1>15
     DEF ManagerNext, Continues, Shutdown
LEMMA LaunchesStep ==
  ManagerTypes /\ Launches /\ ManagerNext => Launches'
<1> SUFFICES ASSUME ManagerTypes, Launches, ManagerNext PROVE Launches'
  OBVIOUS
<1> USE BrowserAssumption DEF lifecycle
<1>0. \A x \in LaunchState : x = Idle \/ x.stage = "idle" => x.stage # "creating"
  BY LaunchRecords DEF LaunchState
\* A launch that ends leaves the others; a Chrome that no launch has may change.
<1>1. ASSUME NEW f \in Profile, UNCHANGED browser, opening' = [opening EXCEPT ![f] = Idle] PROVE Launches'
  BY <1>1, OpeningSet, LaunchRecords DEF Launches, Creates, LaunchState
<1>2. ASSUME UNCHANGED <<opening, browser>> PROVE Launches'
  BY <1>2 DEF Launches, Creates
<1>3. ASSUME NEW b \in Browser, NEW x \in BrowserState, UNCHANGED opening, browser' = [browser EXCEPT ![b] = x],
             \A f \in Profile : Creates(f, b) => x.state \in {"up", "down"} /\ x.profile = f
      PROVE  Launches'
  <2>1. browser'[b] = x /\ \A c \in Browser : c # b => browser'[c] = browser[c]
    BY <1>3, BrowserSet
  <2> QED
    BY <1>3, <2>1 DEF Launches, Creates
<1>4. ASSUME NEW f \in Profile, Open(f) PROVE Launches'
  <2>1. [stage |-> "launching"] \in LaunchState /\ [stage |-> "launching"].stage # "creating"
    BY LaunchRecords DEF LaunchState
  <2>2. browser' = browser /\ opening' = [opening EXCEPT ![f] = [stage |-> "launching"]]
    BY <1>4 DEF Open
  <2> QED
    BY <2>1, <2>2, OpeningSet DEF Launches, Creates
<1>5. ASSUME NEW f \in Profile, Launched(f) PROVE Launches'
  <2>1. PICK b \in Browser : /\ browser[b] = Absent
                             /\ browser' = [browser EXCEPT ![b] = Runs(f, "up")]
                             /\ opening' = [opening EXCEPT ![f] = [stage |-> "creating", browser |-> b]]
    BY <1>5 DEF Launched
  <2> DEFINE x == [stage |-> "creating", browser |-> b]
  <2>2. Runs(f, "up") \in BrowserState /\ x \in LaunchState /\ x.browser = b
    BY BrowserRecords, LaunchRecords DEF BrowserState, LaunchState
  <2>3. browser'[b] = Runs(f, "up") /\ \A c \in Browser : c # b => browser'[c] = browser[c]
    BY <2>1, <2>2, BrowserSet
  <2>4. opening'[f] = x /\ \A g \in Profile : g # f => opening'[g] = opening[g]
    BY <2>1, <2>2, OpeningSet
  <2>5. \A g \in Profile : ~Creates(g, b)
    BY <2>1, BrowserRecords DEF Launches
  <2> HIDE DEF x
  <2>6. \A g \in Profile, c \in Browser : Creates(g, c)' => (g = f /\ c = b) \/ (c # b /\ Creates(g, c))
    BY <2>2, <2>4, <2>5 DEF Creates
  <2> QED
    BY <2>3, <2>6, BrowserRecords DEF Launches
<1>6. ASSUME NEW f \in Profile, LaunchFails(f) PROVE Launches'
  BY <1>1, <1>6 DEF LaunchFails
<1>7. ASSUME NEW f \in Profile, NEW b \in Browser, Creates(f, b), opening' = [opening EXCEPT ![f] = Idle],
             \A c \in Browser : c # b => browser'[c] = browser[c]
      PROVE  Launches'
  <2>1. opening'[f] = Idle /\ \A g \in Profile : g # f => opening'[g] = opening[g]
    BY <1>7, OpeningSet, LaunchRecords DEF LaunchState
  <2>2. \A g \in Profile, c \in Browser : Creates(g, c)' => g # f /\ Creates(g, c)
    BY <2>1, LaunchRecords DEF Creates
  <2>3. \A g \in Profile : Creates(g, b) => g = f
    BY <1>7 DEF Launches
  <2>4. \A g \in Profile, c \in Browser : Creates(g, c)' => c # b /\ Creates(g, c)
    BY <2>2, <2>3
  <2> QED
    BY <1>7, <2>4 DEF Launches
<1>8. ASSUME NEW f \in Profile, SessionCreated(f) PROVE Launches'
  <2>1. PICK b \in Browser : /\ Creates(f, b)
                             /\ browser' = [browser EXCEPT ![b].state = IF @ = "up" THEN "served" ELSE "closed"]
                             /\ opening' = [opening EXCEPT ![f] = Idle]
    BY <1>8 DEF SessionCreated
  <2> QED
    BY <1>7, <2>1, CreatedBrowser
<1>9. ASSUME NEW f \in Profile, CreateFails(f) PROVE Launches'
  <2>1. PICK b \in Browser : /\ Creates(f, b)
                             /\ browser' = [browser EXCEPT ![b] = IF @.state = "down" THEN Absent ELSE @]
                             /\ opening' = [opening EXCEPT ![f] = Idle]
    BY <1>9 DEF CreateFails
  <2>2. \A c \in Browser : c # b => browser'[c] = browser[c]
    BY <2>1 DEF ManagerTypes
  <2> QED
    BY <1>7, <2>1, <2>2
<1>10. ASSUME NEW b \in Browser, browser[b].state \in {"up", "served"}, browser' = [browser EXCEPT ![b] = Gone(b)],
              UNCHANGED opening
       PROVE  Launches'
  <2>1. \A f \in Profile : Creates(f, b) => Gone(b) = Runs(f, "down")
    BY <1>10, GoneType DEF Launches
  <2>2. Gone(b) \in BrowserState
    BY <1>10, GoneType
  <2>3. \A f \in Profile : Creates(f, b) => Gone(b).state \in {"up", "down"} /\ Gone(b).profile = f
    BY <2>1, BrowserRecords
  <2> QED
    BY <1>3, <1>10, <2>2, <2>3
<1>11. ASSUME NEW b \in Browser, Dies(b) PROVE Launches'
  BY <1>10, <1>11 DEF Dies
<1>12. ASSUME NEW b \in Browser, OnContextClosed(b) PROVE Launches'
  <2>1. \A f \in Profile : ~Creates(f, b)
    BY <1>12 DEF OnContextClosed, Launches
  <2>2. Absent \in BrowserState
    BY BrowserRecords DEF BrowserState
  <2> QED
    BY <1>3, <1>12, <2>1, <2>2 DEF OnContextClosed
<1>13. ASSUME NEW x \in closing, CloseContext(x) PROVE Launches'
  <2>1. x.browser \in Browser
    BY DEF ManagerTypes
  <2> QED
    BY <1>10, <1>13, <2>1 DEF CloseContext
<1>14. CASE Exit
  <2>1. \A f \in Profile : opening'[f] = Idle
    BY <1>14 DEF Exit
  <2> QED
    BY <2>1, LaunchRecords DEF Launches, Creates
<1>15. CASE Close \/ Restart \/ WindowPasses \/ (\E f \in Profile : Elsewhere(f)) \/ (\E x \in closing : CloseReturns(x))
  BY <1>2, <1>15 DEF Close, Restart, WindowPasses, Elsewhere, CloseReturns
<1> QED
  BY <1>4, <1>5, <1>6, <1>8, <1>9, <1>11, <1>12, <1>13, <1>14, <1>15
     DEF ManagerNext, Continues, Shutdown

\* While the agent serves, slots, launches, locks and browsers stay in step,
\* if a session is never refused by a Chrome that lives.
LEMMA ServingStep ==
  ASSUME "create" \notin BrowserFaults, ManagerInv, ManagerTypes', Launches', ManagerNext, phase' = "serving"
  PROVE  Serving'
<1> USE BrowserAssumption DEF lifecycle
<1>1. ManagerTypes /\ Launches
  BY DEF ManagerInv
<1>2. CASE Restart
  <2>1. Ended /\ UNCHANGED <<slot, opening, browser, closing>> /\ \A f \in Profile : holder'[f] # "agent"
    BY <1>1, <1>2 DEF Restart, ManagerInv, ManagerTypes
  <2>2. \A f \in Profile : slot'[f] = None /\ opening'[f].stage = "idle"
    BY <2>1, LaunchRecords DEF Ended
  <2>3. \A b \in Browser : browser'[b].state = "absent"
    BY <2>1, BrowserRecords DEF Ended
  <2> QED
    BY <2>1, <2>2, <2>3 DEF Serving, Ended, Opening
<1>3. ASSUME phase = "serving" PROVE Serving'
  <2> USE <1>3 DEF ManagerInv
  <2>1. Serving /\ \A f \in Profile : holder[f] = "agent" => slot[f] # None \/ Opening(f)
    BY DEF Serving
  <2>2. ASSUME NEW f \in Profile, Open(f) PROVE Serving'
    <3> DEFINE x == [stage |-> "launching"]
    <3>1. x \in LaunchState /\ x.stage = "launching"
      BY LaunchRecords DEF LaunchState
    <3>2. opening'[f] = x /\ \A g \in Profile : g # f => opening'[g] = opening[g]
      BY <1>1, <2>2, <3>1, OpeningSet DEF Open
    <3>3. holder'[f] = "agent" /\ \A g \in Profile : g # f => holder'[g] = holder[g]
      BY <1>1, <2>2, LockAcquired DEF Open
    <3>4. UNCHANGED <<slot, browser, closing>> /\ slot[f] = None /\ ~Opening(f)
      BY <2>2 DEF Open
    <3> HIDE DEF x
    <3>5. \A g \in Profile : Opening(g)' <=> g = f \/ Opening(g)
      BY <3>1, <3>2, <3>4 DEF Opening
    <3>6. \A g \in Profile, b \in Browser : Creates(g, b) => Creates(g, b)'
      BY <3>2, <3>4 DEF Creates, Opening
    <3> QED
      BY <2>1, <3>3, <3>4, <3>5, <3>6 DEF Serving
  <2>3. ASSUME NEW f \in Profile, Launched(f) PROVE Serving'
    <3>1. PICK b \in Browser : /\ browser[b] = Absent
                               /\ browser' = [browser EXCEPT ![b] = Runs(f, "up")]
                               /\ opening' = [opening EXCEPT ![f] = [stage |-> "creating", browser |-> b]]
      BY <2>3 DEF Launched
    <3> DEFINE x == [stage |-> "creating", browser |-> b]
    <3>2. Runs(f, "up") \in BrowserState /\ x \in LaunchState /\ x.browser = b /\ x.stage = "creating"
      BY BrowserRecords, LaunchRecords DEF BrowserState, LaunchState
    <3>3. browser'[b] = Runs(f, "up") /\ \A c \in Browser : c # b => browser'[c] = browser[c]
      BY <1>1, <3>1, <3>2, BrowserSet
    <3>4. opening'[f] = x /\ \A g \in Profile : g # f => opening'[g] = opening[g]
      BY <1>1, <3>1, <3>2, OpeningSet
    <3> HIDE DEF x
    <3>5. UNCHANGED <<slot, holder, closing>> /\ opening[f].stage = "launching"
      BY <2>3 DEF Launched
    <3>6. \A g \in Profile : Opening(g)' <=> Opening(g)
      BY <3>2, <3>4, <3>5 DEF Opening
    <3>7. browser[b].state = "absent" /\ browser'[b].state = "up" /\ browser'[b].profile = f
      BY <3>1, <3>3, BrowserRecords
    <3>8. \A g \in Profile : slot[g] # None => slot[g] # b /\ slot[g] \in Browser
      BY <1>1, <2>1, <3>7 DEF Serving, ManagerTypes
    <3>9. Creates(f, b)' /\ \A g \in Profile, c \in Browser : Creates(g, c) => Creates(g, c)'
      BY <3>2, <3>4, <3>5 DEF Creates
    <3>10. \A g \in Profile :
             /\ holder'[g] = "agent" <=> slot'[g] # None \/ Opening(g)'
             /\ slot'[g] # None =>
                  /\ ~Opening(g)'
                  /\ browser'[slot'[g]].state \in {"served", "closed"} /\ browser'[slot'[g]].profile = g
      BY <2>1, <3>3, <3>5, <3>6, <3>8 DEF Serving
    <3>11. \A c \in Browser :
             /\ browser'[c].state \in {"served", "closed"} => \E g \in Profile : slot'[g] = c
             /\ browser'[c].state \in {"up", "down"} => \E g \in Profile : Creates(g, c)'
      BY <2>1, <3>3, <3>5, <3>7, <3>9 DEF Serving
    <3> QED
      BY <2>1, <3>5, <3>10, <3>11 DEF Serving
  \* A launch ends for f without a session: its lock goes with it, and its Chrome, if any.
  <2>4. ASSUME NEW f \in Profile, Opening(f), opening' = [opening EXCEPT ![f] = Idle], ReleaseLock(f),
               UNCHANGED <<slot, closing>>,
               \A c \in Browser : \/ browser'[c] = browser[c] /\ ~Creates(f, c)
                                  \/ browser'[c].state = "absent" /\ Creates(f, c)
        PROVE  Serving'
    <3>1. opening'[f] = Idle /\ \A g \in Profile : g # f => opening'[g] = opening[g]
      BY <1>1, <2>4, OpeningSet, LaunchRecords DEF LaunchState
    <3>2. holder'[f] # "agent" /\ \A g \in Profile : g # f => holder'[g] = holder[g]
      BY <1>1, <2>4, LockReleased
    <3>3. slot[f] = None
      BY <2>1, <2>4 DEF Serving
    <3>4. \A g \in Profile : Opening(g)' <=> g # f /\ Opening(g)
      BY <3>1, LaunchRecords DEF Opening
    <3>5. \A g \in Profile, c \in Browser : Creates(g, c) /\ ~Creates(f, c) => Creates(g, c)'
      BY <3>1 DEF Creates
    <3>6. \A g \in Profile : slot[g] # None => slot[g] \in Browser /\ ~Creates(f, slot[g])
      BY <1>1, <2>1 DEF Serving, ManagerTypes, Launches
    <3>7. \A g \in Profile :
             /\ holder'[g] = "agent" <=> slot'[g] # None \/ Opening(g)'
             /\ slot'[g] # None =>
                  /\ ~Opening(g)'
                  /\ browser'[slot'[g]].state \in {"served", "closed"} /\ browser'[slot'[g]].profile = g
      BY <2>1, <2>4, <3>2, <3>3, <3>4, <3>6 DEF Serving
    <3>8. \A c \in Browser :
             /\ browser'[c].state \in {"served", "closed"} => \E g \in Profile : slot'[g] = c
             /\ browser'[c].state \in {"up", "down"} => \E g \in Profile : Creates(g, c)'
      BY <2>1, <2>4, <3>5 DEF Serving
    <3> QED
      BY <2>1, <2>4, <3>7, <3>8 DEF Serving
  <2>5. ASSUME NEW f \in Profile, LaunchFails(f) PROVE Serving'
    <3>1. Opening(f) /\ \A c \in Browser : ~Creates(f, c)
      BY <2>5 DEF LaunchFails, Opening, Creates
    <3> QED
      BY <2>4, <2>5, <3>1 DEF LaunchFails
  <2>6. ASSUME NEW f \in Profile, CreateFails(f) PROVE Serving'
    <3>1. PICK b \in Browser : /\ Creates(f, b) /\ browser[b].state = "down"
                               /\ browser' = [browser EXCEPT ![b] = IF @.state = "down" THEN Absent ELSE @]
      BY <2>6 DEF CreateFails
    <3>2. browser'[b] = Absent /\ \A c \in Browser : c # b => browser'[c] = browser[c]
      BY <1>1, <3>1 DEF ManagerTypes
    <3>3. Opening(f) /\ \A c \in Browser : Creates(f, c) => c = b
      BY <3>1 DEF Opening, Creates
    <3>4. opening' = [opening EXCEPT ![f] = Idle] /\ ReleaseLock(f) /\ UNCHANGED <<slot, closing>>
      BY <2>6 DEF CreateFails
    <3>5. \A c \in Browser : \/ browser'[c] = browser[c] /\ ~Creates(f, c)
                             \/ browser'[c].state = "absent" /\ Creates(f, c)
      BY <3>1, <3>2, <3>3, BrowserRecords
    <3> QED
      BY <2>4, <3>3, <3>4, <3>5
  <2>7. ASSUME NEW f \in Profile, SessionCreated(f) PROVE Serving'
    <3>1. PICK b \in Browser : /\ Creates(f, b)
                               /\ browser' = [browser EXCEPT ![b].state = IF @ = "up" THEN "served" ELSE "closed"]
                               /\ slot' = [slot EXCEPT ![f] = b]
      BY <2>7 DEF SessionCreated
    <3>2. /\ browser'[b].state \in {"served", "closed"} /\ browser'[b].profile = f
          /\ \A c \in Browser : c # b => browser'[c] = browser[c]
      <4>1. PICK st \in {"served", "closed"} : browser'[b] = Runs(f, st)
        BY <1>1, <3>1, CreatedBrowser
      <4>2. \A c \in Browser : c # b => browser'[c] = browser[c]
        BY <1>1, <3>1, CreatedBrowser
      <4>3. Runs(f, st).state = st /\ Runs(f, st).profile = f
        BY BrowserRecords
      <4> QED
        BY <4>1, <4>2, <4>3
    <3>3. slot'[f] = b /\ \A g \in Profile : g # f => slot'[g] = slot[g]
      BY <1>1, <3>1, SlotSet
    <3>4. opening' = [opening EXCEPT ![f] = Idle] /\ UNCHANGED <<holder, closing>>
      BY <2>7 DEF SessionCreated
    <3>5. opening'[f] = Idle /\ \A g \in Profile : g # f => opening'[g] = opening[g]
      BY <1>1, <3>4, OpeningSet, LaunchRecords DEF LaunchState
    <3>6. /\ Opening(f) /\ browser[b].state \in {"up", "down"} /\ \A c \in Browser : Creates(f, c) => c = b
      BY <1>1, <3>1 DEF Opening, Creates, Launches
    <3>7. slot[f] = None /\ b # None
      BY <2>1, <3>6 DEF Serving
    <3>8. \A g \in Profile : Opening(g)' <=> g # f /\ Opening(g)
      BY <3>5, LaunchRecords DEF Opening
    <3>9. \A g \in Profile, c \in Browser : Creates(g, c) /\ c # b => Creates(g, c)'
      BY <3>5, <3>6 DEF Creates
    <3>10. \A g \in Profile : slot[g] # None => slot[g] \in Browser /\ slot[g] # b
      BY <1>1, <2>1, <3>6 DEF Serving, ManagerTypes
    <3>11. \A g \in Profile :
             /\ holder'[g] = "agent" <=> slot'[g] # None \/ Opening(g)'
             /\ slot'[g] # None =>
                  /\ ~Opening(g)'
                  /\ browser'[slot'[g]].state \in {"served", "closed"} /\ browser'[slot'[g]].profile = g
      BY <2>1, <3>2, <3>3, <3>4, <3>6, <3>7, <3>8, <3>10 DEF Serving
    <3>12. \A c \in Browser :
             /\ browser'[c].state \in {"served", "closed"} => \E g \in Profile : slot'[g] = c
             /\ browser'[c].state \in {"up", "down"} => \E g \in Profile : Creates(g, c)'
      <4>1. \A c \in Browser : browser[c].state \in {"served", "closed"} => \E g \in Profile : g # f /\ slot[g] = c
        BY <2>1, <3>7 DEF Serving
      <4> QED
        BY <2>1, <3>2, <3>3, <3>9, <4>1 DEF Serving
    <3> QED
      BY <2>1, <3>4, <3>11, <3>12 DEF Serving
  <2>8. ASSUME NEW b \in Browser, Dies(b) PROVE Serving'
    <3>1. Gone(b) \in BrowserState /\ browser'[b] = Gone(b) /\ \A c \in Browser : c # b => browser'[c] = browser[c]
      BY <1>1, <2>8, GoneType, BrowserSet DEF Dies
    <3>2. UNCHANGED <<slot, opening, holder, closing>> /\ browser[b].state \in {"up", "served"}
      BY <2>8 DEF Dies
    <3>3. /\ browser'[b].profile = browser[b].profile
          /\ browser[b].state = "served" => browser'[b].state = "closed"
          /\ browser[b].state = "up" => browser'[b].state = "down"
      BY <1>1, <2>1, <3>1, <3>2, GoneType, BrowserRecords DEF Serving
    <3>4. \A g \in Profile : slot[g] # None => slot[g] \in Browser
      BY <1>1 DEF ManagerTypes
    <3>5. \A g \in Profile : Opening(g)' <=> Opening(g)
      BY <3>2 DEF Opening
    <3>6. \A g \in Profile, c \in Browser : Creates(g, c)' <=> Creates(g, c)
      BY <3>2 DEF Creates
    <3>7. \A g \in Profile :
             /\ holder'[g] = "agent" <=> slot'[g] # None \/ Opening(g)'
             /\ slot'[g] # None =>
                  /\ ~Opening(g)'
                  /\ browser'[slot'[g]].state \in {"served", "closed"} /\ browser'[slot'[g]].profile = g
      BY <2>1, <3>1, <3>2, <3>3, <3>4, <3>5 DEF Serving
    <3>8. \A c \in Browser :
             /\ browser'[c].state \in {"served", "closed"} => \E g \in Profile : slot'[g] = c
             /\ browser'[c].state \in {"up", "down"} => \E g \in Profile : Creates(g, c)'
      BY <2>1, <3>1, <3>2, <3>3, <3>6 DEF Serving
    <3> QED
      BY <2>1, <3>2, <3>7, <3>8 DEF Serving
  <2>9. ASSUME NEW b \in Browser, OnContextClosed(b) PROVE Serving'
    <3>1. PICK f \in Profile : slot[f] = b /\ browser[b].state = "closed"
      BY <2>1, <2>9 DEF OnContextClosed, Serving
    <3>2. browser[b].profile = f /\ b # None /\ ~Opening(f)
      BY <2>1, <3>1 DEF Serving
    <3>3. /\ slot' = [slot EXCEPT ![f] = None] /\ ReleaseLock(f) /\ UNCHANGED <<opening, closing>>
          /\ browser' = [browser EXCEPT ![b] = Absent] /\ Absent \in BrowserState
      BY <2>9, <3>1, <3>2, BrowserRecords DEF OnContextClosed, Forget, BrowserState
    <3>4. slot'[f] = None /\ \A g \in Profile : g # f => slot'[g] = slot[g]
      BY <1>1, <3>3, SlotSet
    <3>5. holder'[f] # "agent" /\ \A g \in Profile : g # f => holder'[g] = holder[g]
      BY <1>1, <3>3, LockReleased
    <3>6. browser'[b].state = "absent" /\ \A c \in Browser : c # b => browser'[c] = browser[c]
      BY <1>1, <3>3, BrowserSet, BrowserRecords
    <3>7. \A g \in Profile : slot[g] # None => slot[g] \in Browser /\ (slot[g] = b => g = f)
      BY <1>1, <2>1, <3>2 DEF Serving, ManagerTypes
    <3>8. \A g \in Profile : Opening(g)' <=> Opening(g)
      BY <3>3 DEF Opening
    <3>9. \A g \in Profile, c \in Browser : Creates(g, c)' <=> Creates(g, c)
      BY <3>3 DEF Creates
    <3>10. \A g \in Profile :
             /\ holder'[g] = "agent" <=> slot'[g] # None \/ Opening(g)'
             /\ slot'[g] # None =>
                  /\ ~Opening(g)'
                  /\ browser'[slot'[g]].state \in {"served", "closed"} /\ browser'[slot'[g]].profile = g
      BY <2>1, <3>2, <3>4, <3>5, <3>6, <3>7, <3>8 DEF Serving
    <3>11. \A c \in Browser :
             /\ browser'[c].state \in {"served", "closed"} => \E g \in Profile : slot'[g] = c
             /\ browser'[c].state \in {"up", "down"} => \E g \in Profile : Creates(g, c)'
      BY <2>1, <3>1, <3>4, <3>6, <3>9 DEF Serving
    <3> QED
      BY <2>1, <3>3, <3>10, <3>11 DEF Serving
  \* Another process takes a free lock or gives its own back.
  <2>10. ASSUME UNCHANGED <<slot, opening, browser, closing>>, \A g \in Profile : (holder'[g] = "agent") <=> (holder[g] = "agent")
         PROVE  Serving'
    BY <2>1, <2>10 DEF Serving, Opening, Creates
  <2>11. ASSUME NEW f \in Profile, Elsewhere(f) PROVE Serving'
    BY <1>1, <2>10, <2>11 DEF Elsewhere, ManagerTypes
  <2>12. CASE WindowPasses
    BY <2>10, <2>12 DEF WindowPasses
  <2>13. closing = {} /\ ~Close /\ ~Exit /\ ~Restart
    BY <2>1 DEF Serving, Close, Exit, Restart
  <2> QED
    BY <2>2, <2>3, <2>5, <2>6, <2>7, <2>8, <2>9, <2>11, <2>12, <2>13 DEF ManagerNext, Continues, Shutdown
<1>4. phase = "serving" \/ Restart
  BY DEF ManagerNext, Continues, Shutdown, Open, Launched, LaunchFails, SessionCreated, CreateFails, Elsewhere,
         Dies, OnContextClosed, Close, CloseContext, CloseReturns, Exit, WindowPasses
<1> QED
  BY <1>2, <1>3, <1>4

\* A process that has exited does nothing more.
LEMMA EndedStep ==
  ASSUME ManagerInv, ManagerNext, phase' = "exited"
  PROVE  Ended'
<1> USE DEF lifecycle
<1>1. CASE Exit
  BY <1>1 DEF Exit, Ended
<1>2. CASE phase = "exited"
  <2>1. Ended
    BY <1>2 DEF ManagerInv
  <2>2. \A f \in Profile : opening[f].stage = "idle"
    BY <2>1, LaunchRecords DEF Ended
  <2>3. \A b \in Browser : browser[b].state = "absent"
    BY <2>1, BrowserRecords DEF Ended
  <2>4. \A f \in Profile : ~Open(f) /\ ~Continues(f)
    BY <1>2, <2>2 DEF Open, Continues, Launched, LaunchFails, SessionCreated, CreateFails, Creates
  <2>5. \A b \in Browser : ~Dies(b) /\ ~OnContextClosed(b)
    BY <2>3 DEF Dies, OnContextClosed
  <2>6. UNCHANGED <<slot, opening, browser, closing>>
    BY <1>2, <2>1, <2>4, <2>5 DEF ManagerNext, Shutdown, Close, Exit, Restart, WindowPasses, Elsewhere, Ended
  <2> QED
    BY <2>1, <2>6 DEF Ended
<1>3. phase = "exited" \/ Exit
  BY DEF ManagerNext, Continues, Shutdown, Open, Launched, LaunchFails, SessionCreated, CreateFails, Elsewhere,
         Dies, OnContextClosed, Close, CloseContext, CloseReturns, Restart, WindowPasses
<1> QED
  BY <1>1, <1>2, <1>3

\* SessionsOwnTheirBrowsers: while the agent serves, its locks are exactly those of the profiles
\* that have a session or are being opened, no Chrome runs on a profile without its lock, and a
\* slot holds a Chrome of its own profile that runs or whose close event is on the way
\* (sessionManager.ts launch, the close handler, close), for any number of profiles and browsers,
\* unless a session is refused by a Chrome that lives.
THEOREM SessionsOwnTheirBrowsersHolds ==
  ASSUME "create" \notin BrowserFaults
  PROVE  ManagerSpec => []SessionsOwnTheirBrowsers
<1>1. ManagerInit => ManagerInv
  <2> SUFFICES ASSUME ManagerInit PROVE ManagerInv
    OBVIOUS
  <2>1. Absent \in BrowserState /\ Idle \in LaunchState
    BY BrowserRecords, LaunchRecords DEF BrowserState, LaunchState
  <2>2. ManagerTypes
    BY <2>1 DEF ManagerInit, ManagerTypes
  <2>3. \A f \in Profile : opening[f].stage = "idle"
    BY LaunchRecords DEF ManagerInit
  <2>4. \A b \in Browser : browser[b].state = "absent"
    BY BrowserRecords DEF ManagerInit
  <2> QED
    BY <2>2, <2>3, <2>4 DEF ManagerInit, ManagerInv, Launches, Serving, Opening, Creates
<1>2. ManagerInv /\ [ManagerNext]_managerVars => ManagerInv'
  <2>1. CASE UNCHANGED managerVars
    BY <2>1 DEF managerVars, lifecycle, ManagerInv, ManagerTypes, Launches, Serving, Ended, Opening, Creates
  <2>2. ASSUME ManagerInv, ManagerNext PROVE ManagerInv'
    <3>1. ManagerTypes' /\ Launches'
      BY <2>2, ManagerTypesStep, LaunchesStep DEF ManagerInv
    <3> QED
      BY <2>2, <3>1, ServingStep, EndedStep DEF ManagerInv
  <2> QED
    BY <2>1, <2>2
<1>3. ManagerInv => SessionsOwnTheirBrowsers
  <2> SUFFICES ASSUME ManagerInv, phase = "serving" PROVE LockFollowsSession /\ BrowserHasLock /\ SlotsAreAlive
    BY DEF SessionsOwnTheirBrowsers, LockFollowsSession, BrowserHasLock, SlotsAreAlive
  <2>1. Serving /\ Launches /\ ManagerTypes
    BY DEF ManagerInv
  <2>2. LockFollowsSession /\ SlotsAreAlive
    BY <2>1 DEF Serving, LockFollowsSession, SlotsAreAlive
  <2>3. ASSUME NEW f \in Profile, NEW b \in Browser, browser[b].state \in {"up", "served"}, browser[b].profile = f
        PROVE  holder[f] = "agent"
    <3>1. CASE browser[b].state = "up"
      <4>1. Creates(f, b)
        BY <2>1, <2>3, <3>1 DEF Serving, Launches
      <4> QED
        BY <2>1, <4>1 DEF Serving, Opening, Creates
    <3>2. CASE browser[b].state = "served"
      BY <2>1, <2>3, <3>2, BrowserAssumption DEF Serving
    <3> QED
      BY <2>3, <3>1, <3>2
  <2>4. BrowserHasLock
    BY <2>3 DEF BrowserHasLock, RunsOn
  <2> QED
    BY <2>2, <2>4
<1> QED
  BY <1>1, <1>2, <1>3, PTL DEF ManagerSpec

-----------------------------------------------------------------------------
(* Batches: the URLs of one                                                 *)

\* The members of a finite set of numbers, counted from the least.
LEMMA Ranked ==
  ASSUME NEW T \in SUBSET Nat, IsFiniteSet(T)
  PROVE  LET rank(k) == Cardinality({j \in T : j <= k}) IN
         /\ \A k \in T : rank(k) \in 1 .. Cardinality(T)
         /\ \A j, k \in T : rank(j) = rank(k) => j = k
         /\ \A p \in 1 .. Cardinality(T) : \E k \in T : rank(k) = p
<1> DEFINE upTo(k) == {j \in T : j <= k}
           rank(k) == Cardinality(upTo(k))
           f == [k \in T |-> rank(k)]
           N == Cardinality(T)
<1>1. N \in Nat
  BY FS_CardinalityType
<1>2. ASSUME NEW k \in T
      PROVE  IsFiniteSet(upTo(k)) /\ rank(k) \in 1 .. N /\ k \in upTo(k)
  <2>1. upTo(k) \in SUBSET T /\ k \in upTo(k)
    OBVIOUS
  <2>2. IsFiniteSet(upTo(k)) /\ rank(k) <= N
    BY <2>1, FS_Subset
  <2>3. rank(k) \in Nat /\ rank(k) # 0
    BY <2>1, <2>2, FS_CardinalityType, FS_EmptySet
  <2> QED
    BY <1>1, <2>1, <2>2, <2>3
<1>3. ASSUME NEW j \in T, NEW k \in T, rank(j) = rank(k) PROVE j = k
  <2>1. ASSUME NEW a \in T, NEW b \in T, a <= b, rank(a) = rank(b) PROVE a = b
    <3>1. upTo(a) \in SUBSET upTo(b)
      <4>1. ASSUME NEW i \in T, i <= a PROVE i <= b
        <5>1. i \in Nat /\ a \in Nat /\ b \in Nat
          OBVIOUS
        <5> QED
          BY <2>1, <4>1, <5>1
      <4> QED
        BY <4>1
    <3>2. upTo(a) = upTo(b)
      BY <1>2, <2>1, <3>1, FS_Subset
    <3>3. b \in upTo(a)
      BY <1>2, <3>2
    <3> QED
      BY <2>1, <3>3
  <2> QED
    BY <1>3, <2>1
<1>4. f \in Injection(T, 1 .. N)
  <2>1. f \in [T -> 1 .. N]
    BY <1>2
  <2>2. \A j, k \in T : f[j] = f[k] => j = k
    BY <1>3
  <2> QED
    BY <2>1, <2>2 DEF Injection, IsInjective
<1>5. IsFiniteSet(1 .. N) /\ Cardinality(1 .. N) = N
  BY <1>1, FS_Interval
<1>6. f \in Surjection(T, 1 .. N)
  BY <1>4, <1>5, FS_Injection
<1>7. \A p \in 1 .. N : \E k \in T : rank(k) = p
  BY <1>6 DEF Surjection
<1> QED
  BY <1>2, <1>3, <1>7

LEMMA LeastOne ==
  ASSUME NEW T \in SUBSET Nat, IsFiniteSet(T), T # {}
  PROVE  \E k \in T : \A j \in T : k <= j
<1>1. Cardinality(T) \in Nat /\ Cardinality(T) # 0
  BY FS_CardinalityType, FS_EmptySet
<1>2. PICK k \in T : Cardinality({j \in T : j <= k}) = 1
  BY <1>1, Ranked
<1> DEFINE below == {j \in T : j <= k}
<1>3. IsFiniteSet(below)
  BY FS_Subset
<1>4. PICK x : below = {x}
  BY <1>2, <1>3, FS_Singleton
<1>5. k \in below
  OBVIOUS
<1>6. \A j \in T : j <= k => j = k
  BY <1>4, <1>5
<1> QED
  BY <1>6

\* Unique keeps every URL that was named, once.
LEMMA UniqueOfNamed ==
  ASSUME NEW named \in Lists
  PROVE  /\ Unique(named) \in Seq(Urls)
         /\ \A p, q \in 1 .. Len(Unique(named)) : Unique(named)[p] = Unique(named)[q] => p = q
         /\ {Unique(named)[p] : p \in 1 .. Len(Unique(named))} = {named[k] : k \in DOMAIN named}
<1> DEFINE first == {k \in DOMAIN named : \A j \in 1 .. k - 1 : named[j] # named[k]}
           place(k) == Cardinality({j \in first : j <= k})
           N == Cardinality(first)
           at(p) == CHOOSE k \in first : place(k) = p
<1>1. PICK n \in Nat : named \in [1 .. n -> Urls]
  BY BatchAssumption DEF Lists
<1>2. DOMAIN named = 1 .. n
  BY <1>1
<1>3. first \in SUBSET Nat /\ IsFiniteSet(first) /\ first \subseteq 1 .. n
  <2>1. first \in SUBSET (1 .. n) /\ IsFiniteSet(1 .. n)
    BY <1>2, FS_Interval
  <2>2. IsFiniteSet(first)
    BY <2>1, FS_Subset
  <2> QED
    BY <2>1, <2>2
<1>4. N \in Nat
  BY <1>3, FS_CardinalityType
<1>5. Unique(named) = [p \in 1 .. N |-> named[at(p)]]
  BY DEF Unique
<1>6. /\ \A k \in first : place(k) \in 1 .. N
      /\ \A j, k \in first : place(j) = place(k) => j = k
      /\ \A p \in 1 .. N : \E k \in first : place(k) = p
  BY <1>3, Ranked
<1>7. \A p \in 1 .. N : at(p) \in first /\ place(at(p)) = p
  BY <1>6
<1>8. \A k \in first : at(place(k)) = k
  BY <1>6, <1>7
<1>9. \A k \in first : k \in 1 .. n /\ named[k] \in Urls /\ \A j \in 1 .. k - 1 : named[j] # named[k]
  BY <1>1, <1>2
<1> HIDE DEF first, place, at, N
<1>10. Unique(named) \in [1 .. N -> Urls] /\ Len(Unique(named)) = N
  BY <1>4, <1>5, <1>7, <1>9
<1>11. Unique(named) \in Seq(Urls)
  BY <1>4, <1>10, SeqDef
<1>12. ASSUME NEW p \in 1 .. N, NEW q \in 1 .. N, named[at(p)] = named[at(q)] PROVE p = q
  <2>1. at(p) \in first /\ at(q) \in first
    BY <1>7
  <2>2. at(p) = at(q)
    BY <1>9, <1>12, <2>1
  <2> QED
    BY <1>7, <2>2
<1>13. ASSUME NEW k \in 1 .. n PROVE \E p \in 1 .. N : named[at(p)] = named[k]
  <2> DEFINE same == {j \in 1 .. n : named[j] = named[k]}
  <2>1. same \in SUBSET (1 .. n) /\ IsFiniteSet(1 .. n) /\ k \in same
    BY FS_Interval
  <2>2. IsFiniteSet(same) /\ same \in SUBSET Nat /\ same # {}
    BY <2>1, FS_Subset
  <2>3. \E m \in same : \A j \in same : m <= j
    <3> HIDE DEF same
    <3> QED
      BY <2>2, LeastOne
  <2>4. PICK m \in same : \A j \in same : m <= j
    BY <2>3
  <2>5. m \in first
    BY <1>2, <2>4 DEF first
  <2> QED
    BY <1>6, <1>8, <2>4, <2>5
<1>14. {Unique(named)[p] : p \in 1 .. N} = {named[k] : k \in DOMAIN named}
  <2>1. \A p \in 1 .. N : Unique(named)[p] = named[at(p)] /\ at(p) \in DOMAIN named
    BY <1>2, <1>5, <1>7, <1>9
  <2>2. \A p \in 1 .. N : \E k \in DOMAIN named : Unique(named)[p] = named[k]
    BY <2>1
  <2>3. \A k \in DOMAIN named : \E p \in 1 .. N : Unique(named)[p] = named[k]
    BY <1>2, <1>13, <2>1
  <2> QED
    BY <2>2, <2>3
<1> QED
  BY <1>5, <1>10, <1>11, <1>12, <1>14
-----------------------------------------------------------------------------
(* Batches: queues, slots and the books of one batch                        *)

SlotFault == {"NAVIGATION_FAILED", "CHALLENGE_PAGE", "LISTING_UNAVAILABLE", "none"}
\* A wall is never reported as anything else.
SlotRec == {x \in [url : Urls, fault : SlotFault, walled : BOOLEAN] : x.walled => x.fault = "CHALLENGE_PAGE"}
JobRec == [status : {"running", "completed", "partial"}, session : Sessions, startedAt : Nat,
           finishedAt : SUBSET Nat, results : Seq(SlotRec)]
BatchRec == {b \in [session : Sessions, named : Lists, urls : Seq(Urls), mode : {"inline", "job"}, expires : Nat] :
               b.urls = Unique(b.named)}
AnswerRec == [status : {"none", "REQUEST_EXPIRED", "completed", "partial"}, results : Seq(SlotRec)]
PollRec == [told : {"none", "completed", "partial", "ARTIFACT_EXPIRED"}, seen : Seq(SlotRec)]
RunRec == [pc : {"idle", "looping", "traversing"}, deadline : Nat, done : Seq(SlotRec)]
NoAnswer == [status |-> "none", results |-> <<>>]
NewPoller == [told |-> "none", seen |-> <<>>]

BatchTypes ==
  /\ now \in Nat
  /\ queue \in [Sessions -> Seq(Nat)]
  /\ run \in [Sessions -> RunRec]
  /\ batches \in Seq(BatchRec)
  /\ jobs \in Seq(JobRec \cup {NoJob}) /\ Len(jobs) = Len(batches)
  /\ inline \in Seq(AnswerRec) /\ Len(inline) = Len(batches)
  /\ poller \in Seq(PollRec) /\ Len(poller) = Len(batches)

Members(q) == {q[k] : k \in DOMAIN q}
Queued(i) == i \in Members(queue[batches[i].session])

\* What the batch that is at the front of its queue has done.
DoneIn(queues, runs, s, i) == IF queues[s] # <<>> /\ Head(queues[s]) = i THEN runs[s].done ELSE <<>>
DoneOf(i) == DoneIn(queue, run, batches[i].session, i)

\* Slots for the first URLs, and the first of some slots.
PrefixOf(slots, urls) == Len(slots) <= Len(urls) /\ \A k \in 1 .. Len(slots) : slots[k].url = urls[k]
SlotsFirst(a, b) == Len(a) <= Len(b) /\ \A k \in 1 .. Len(a) : a[k] = b[k]

EndedAs(status, slots, urls) ==
  /\ PrefixOf(slots, urls)
  /\ status = "completed" => Len(slots) = Len(urls)
  /\ status = "partial" => Len(slots) < Len(urls)

JobGoes(j, done) == j # NoJob /\ j.status = "running" /\ j.finishedAt = {} /\ j.results = done

JobOver(j, urls) ==
  j # NoJob =>
    /\ j.status \in {"completed", "partial"} /\ EndedAs(j.status, j.results, urls)
    /\ \E t \in j.finishedAt : j.finishedAt = {t} /\ (j.status = "partial" => t >= j.startedAt + JobDeadline)

PollOK(p, j, urls) ==
  /\ PrefixOf(p.seen, urls)
  /\ p.told = "completed" => Len(p.seen) = Len(urls)
  /\ j # NoJob =>
       /\ SlotsFirst(p.seen, j.results)
       /\ p.told \in {"completed", "partial"} => p.seen = j.results /\ p.told = j.status

\* The books of a batch b, with its job j, its inline answer x, its poller p, whether
\* it is in the queue, and what it has done there.
BookOK(b, j, x, p, queued, done) ==
  /\ j # NoJob => j.session = b.session
  /\ b.mode = "inline" =>
       /\ j = NoJob /\ p = NewPoller
       /\ queued => x = NoAnswer
       /\ EndedAs(x.status, x.results, b.urls)
  /\ b.mode = "job" =>
       /\ x = NoAnswer
       /\ queued => JobGoes(j, done) /\ p.told = "none" /\ SlotsFirst(p.seen, done)
       /\ ~queued => JobOver(j, b.urls) /\ PollOK(p, j, b.urls)
Book(i) == BookOK(batches[i], jobs[i], inline[i], poller[i], Queued(i), DoneOf(i))

SessionOK(s) ==
  /\ \A k \in DOMAIN queue[s] : queue[s][k] \in Ids /\ batches[queue[s][k]].session = s
  /\ \A j, k \in DOMAIN queue[s] : queue[s][j] = queue[s][k] => j = k
  /\ run[s].pc = "idle" => run[s].done = <<>>
  /\ run[s].pc # "idle" =>
       /\ queue[s] # <<>>
       /\ PrefixOf(run[s].done, batches[Front(s)].urls)
       /\ batches[Front(s)].mode = "job" => run[s].deadline = jobs[Front(s)].startedAt + JobDeadline
       /\ run[s].pc = "traversing" => Len(run[s].done) < Len(batches[Front(s)].urls)

BatchesInv ==
  /\ BatchTypes
  /\ \A s \in Sessions : SessionOK(s)
  /\ \A i \in Ids : Book(i)

\* Queues, as sets of batches without repetition.
LEMMA QueueShift ==
  ASSUME NEW q \in Seq(Nat), q # <<>>, \A j, k \in DOMAIN q : q[j] = q[k] => j = k
  PROVE  /\ Tail(q) \in Seq(Nat) /\ Head(q) \in Members(q)
         /\ Members(Tail(q)) = Members(q) \ {Head(q)}
         /\ \A j, k \in DOMAIN Tail(q) : Tail(q)[j] = Tail(q)[k] => j = k
<1>1. Tail(q) \in Seq(Nat) /\ DOMAIN q = 1 .. Len(q) /\ Len(q) \in Nat /\ Len(q) # 0 /\ Head(q) = q[1]
  OBVIOUS
<1>2. DOMAIN Tail(q) = 1 .. (Len(q) - 1) /\ \A k \in 1 .. (Len(q) - 1) : Tail(q)[k] = q[k + 1]
  <2>1. Len(Tail(q)) = Len(q) - 1 /\ \A k \in 1 .. Len(Tail(q)) : Tail(q)[k] = q[k + 1]
    BY HeadTailProperties
  <2> QED
    BY <1>1, <2>1
<1>3. \A k \in DOMAIN Tail(q) : k + 1 \in DOMAIN q /\ k + 1 # 1 /\ k \in Int
  BY <1>1, <1>2
<1>4. \A k \in DOMAIN q : k # 1 => k - 1 \in DOMAIN Tail(q) /\ Tail(q)[k - 1] = q[k]
  <2> SUFFICES ASSUME NEW k \in 1 .. Len(q), k # 1 PROVE k - 1 \in 1 .. (Len(q) - 1) /\ Tail(q)[k - 1] = q[k]
    BY <1>1, <1>2
  <2>1. k - 1 \in 1 .. (Len(q) - 1) /\ (k - 1) + 1 = k
    BY <1>1
  <2> QED
    BY <1>2, <2>1
<1>5. 1 \in DOMAIN q
  BY <1>1
<1>6. Members(Tail(q)) \subseteq Members(q) \ {Head(q)}
  BY <1>1, <1>2, <1>3, <1>5 DEF Members
<1>7. Members(q) \ {Head(q)} \subseteq Members(Tail(q))
  <2> SUFFICES ASSUME NEW k \in DOMAIN q, q[k] # Head(q) PROVE q[k] \in Members(Tail(q))
    BY DEF Members
  <2>1. k # 1
    BY <1>1
  <2>2. k - 1 \in DOMAIN Tail(q) /\ Tail(q)[k - 1] = q[k]
    BY <1>4, <2>1
  <2> QED
    BY <2>2 DEF Members
<1>8. \A j, k \in DOMAIN Tail(q) : Tail(q)[j] = Tail(q)[k] => j = k
  BY <1>2, <1>3
<1> QED
  BY <1>1, <1>5, <1>6, <1>7, <1>8 DEF Members

LEMMA QueueGrows ==
  ASSUME NEW q \in Seq(Nat), NEW i \in Nat, i \notin Members(q), \A j, k \in DOMAIN q : q[j] = q[k] => j = k
  PROVE  /\ Append(q, i) \in Seq(Nat) /\ Members(Append(q, i)) = Members(q) \cup {i}
         /\ Append(q, i) # <<>> /\ Head(Append(q, i)) = IF q = <<>> THEN i ELSE Head(q)
         /\ \A j, k \in DOMAIN Append(q, i) : Append(q, i)[j] = Append(q, i)[k] => j = k
<1>1. /\ Append(q, i) \in Seq(Nat) /\ Append(q, i) # <<>> /\ DOMAIN q = 1 .. Len(q) /\ Len(q) \in Nat
      /\ DOMAIN Append(q, i) = 1 .. (Len(q) + 1)
      /\ \A k \in 1 .. Len(q) : Append(q, i)[k] = q[k]
      /\ Append(q, i)[Len(q) + 1] = i
  <2>1. Append(q, i) \in Seq(Nat) /\ Append(q, i) # <<>> /\ Len(Append(q, i)) = Len(q) + 1
    BY AppendProperties
  <2>2. DOMAIN Append(q, i) = 1 .. Len(Append(q, i)) /\ DOMAIN q = 1 .. Len(q) /\ Len(q) \in Nat
    BY <2>1
  <2>3. \A k \in 1 .. Len(q) : Append(q, i)[k] = q[k]
    BY AppendProperties
  <2>4. Append(q, i)[Len(q) + 1] = i
    BY AppendProperties
  <2> QED
    BY <2>1, <2>2, <2>3, <2>4
<1>2. Head(Append(q, i)) = IF q = <<>> THEN i ELSE Head(q)
  BY HeadTailAppend
<1>3. \A k \in 1 .. (Len(q) + 1) : k \in DOMAIN q \/ k = Len(q) + 1
  BY <1>1
<1>4. Members(Append(q, i)) \subseteq Members(q) \cup {i}
  BY <1>1, <1>3 DEF Members
<1>5. Members(q) \cup {i} \subseteq Members(Append(q, i))
  <2>1. Len(q) + 1 \in DOMAIN Append(q, i) /\ \A k \in DOMAIN q : k \in DOMAIN Append(q, i)
    BY <1>1
  <2> QED
    BY <1>1, <2>1 DEF Members
<1>6. \A j, k \in DOMAIN Append(q, i) : Append(q, i)[j] = Append(q, i)[k] => j = k
  BY <1>1, <1>3 DEF Members
<1> QED
  BY <1>1, <1>2, <1>4, <1>5, <1>6

\* Slots that are the first of others, and what a poll adds to them.
LEMMA FirstSlots ==
  ASSUME NEW a \in Seq(SlotRec), NEW b \in Seq(SlotRec)
  PROVE  /\ SlotsFirst(a, b) <=> IsPrefix(a, b)
         /\ SlotsFirst(a, b) => a = SubSeq(b, 1, Len(a))
         /\ SlotsFirst(<<>>, b) /\ SlotsFirst(b, b)
         /\ \A urls : SlotsFirst(a, b) /\ PrefixOf(b, urls) /\ Len(urls) \in Nat => PrefixOf(a, urls)
<1>1. Len(a) \in Nat /\ Len(b) \in Nat
  OBVIOUS
<1>2. Len(a) <= Len(b) => /\ SubSeq(b, 1, Len(a)) \in Seq(SlotRec)
                          /\ Len(SubSeq(b, 1, Len(a))) = Len(a)
                          /\ \A k \in 1 .. Len(a) : SubSeq(b, 1, Len(a))[k] = b[k]
  <2> SUFFICES ASSUME Len(a) <= Len(b)
               PROVE  /\ SubSeq(b, 1, Len(a)) \in Seq(SlotRec)
                      /\ Len(SubSeq(b, 1, Len(a))) = Len(a)
                      /\ \A k \in 1 .. Len(a) : SubSeq(b, 1, Len(a))[k] = b[k]
    OBVIOUS
  <2>1. \A k \in 1 .. Len(a) : b[k] \in SlotRec
    BY <1>1
  <2> QED
    BY <1>1, <2>1, SubSeqProperties
<1>3. SlotsFirst(a, b) => a = SubSeq(b, 1, Len(a))
  BY <1>2, SeqEqual DEF SlotsFirst
<1>4. IsPrefix(a, b) => SlotsFirst(a, b)
  BY <1>2 DEF IsPrefix, SlotsFirst
<1>5. SlotsFirst(a, b) => IsPrefix(a, b)
  BY <1>3 DEF IsPrefix, SlotsFirst
<1>6. SlotsFirst(<<>>, b) /\ SlotsFirst(b, b)
  BY <1>1 DEF SlotsFirst
<1>7. ASSUME NEW urls, SlotsFirst(a, b), PrefixOf(b, urls), Len(urls) \in Nat PROVE PrefixOf(a, urls)
  BY <1>1, <1>7 DEF SlotsFirst, PrefixOf
<1>8. \A urls : SlotsFirst(a, b) /\ PrefixOf(b, urls) /\ Len(urls) \in Nat => PrefixOf(a, urls)
  BY <1>7
<1>9. SlotsFirst(a, b) <=> IsPrefix(a, b)
  BY <1>4, <1>5
<1> QED
  BY <1>3, <1>6, <1>8, <1>9

\* jobProgress and its clamp: a poller that has the first slots gets the rest.
LEMMA PollGivesTheRest ==
  ASSUME NEW a \in Seq(SlotRec), NEW job, job.results \in Seq(SlotRec), SlotsFirst(a, job.results)
  PROVE  LET answer == Progress(job, Len(a)) IN
         /\ answer.status = job.status
         /\ SubSeq(a, 1, Least(answer.from, Len(a))) \o answer.results = job.results
<1> DEFINE b == job.results
<1>1. Len(a) \in Nat /\ Len(b) \in Nat /\ Len(a) <= Len(b)
  BY DEF SlotsFirst
<1>2. Least(Len(a), Len(b)) = Len(a) /\ Least(Len(a), Len(a)) = Len(a)
  BY <1>1 DEF Least
<1>3. Progress(job, Len(a)) = [status |-> job.status, from |-> Len(a), results |-> SubSeq(b, Len(a) + 1, Len(b))]
  BY <1>2 DEF Progress
<1>4. SubSeq(a, 1, Len(a)) = SubSeq(b, 1, Len(a))
  <2>1. SubSeq(a, 1, Len(a)) = a
    BY SubSeqFull
  <2> QED
    BY <2>1, FirstSlots
<1>5. SubSeq(b, 1, Len(a)) \o SubSeq(b, Len(a) + 1, Len(b)) = SubSeq(b, 1, Len(b))
  <2>1. 1 \in 1 .. Len(b) + 1 /\ Len(a) \in (1 - 1) .. Len(b) /\ Len(b) \in Len(a) .. Len(b)
    BY <1>1
  <2> QED
    BY <2>1, ConcatAdjacentSubSeq
<1>6. SubSeq(b, 1, Len(b)) = b
  BY SubSeqFull
<1>7. /\ Progress(job, Len(a)).status = job.status /\ Progress(job, Len(a)).from = Len(a)
      /\ Progress(job, Len(a)).results = SubSeq(b, Len(a) + 1, Len(b))
  BY <1>3
<1>8. SubSeq(a, 1, Len(a)) \o SubSeq(b, Len(a) + 1, Len(b)) = b
  BY <1>4, <1>5, <1>6
<1> HIDE DEF b
<1> QED
  BY <1>2, <1>7, <1>8 DEF b

\* What the definitions of the properties mean of such slots.
LEMMA FirstUrls ==
  ASSUME NEW slots \in Seq(SlotRec), NEW urls \in Seq(Urls), PrefixOf(slots, urls)
  PROVE  IsPrefix(UrlsOf(slots), urls)
<1>1. Len(slots) \in Nat /\ Len(urls) \in Nat /\ Len(slots) <= Len(urls) /\ DOMAIN slots = 1 .. Len(slots)
  BY DEF PrefixOf
<1>2. UrlsOf(slots) = [k \in 1 .. Len(slots) |-> slots[k].url]
  BY <1>1 DEF UrlsOf
<1>3. \A k \in 1 .. Len(slots) : slots[k] \in SlotRec
  OBVIOUS
<1>4. \A k \in 1 .. Len(slots) : slots[k].url \in Urls
  BY <1>3 DEF SlotRec
<1>5. UrlsOf(slots) \in [1 .. Len(slots) -> Urls]
  BY <1>2, <1>4
<1>6. UrlsOf(slots) \in Seq(Urls) /\ Len(UrlsOf(slots)) = Len(slots)
  BY <1>1, <1>5, SeqDef
<1>7. \A k \in 1 .. Len(slots) : urls[k] \in Urls
  BY <1>1
<1>8. /\ SubSeq(urls, 1, Len(slots)) \in Seq(Urls) /\ Len(SubSeq(urls, 1, Len(slots))) = Len(slots)
      /\ \A k \in 1 .. Len(slots) : SubSeq(urls, 1, Len(slots))[k] = urls[k]
  BY <1>1, <1>7, SubSeqProperties
<1>9. \A k \in 1 .. Len(slots) : UrlsOf(slots)[k] = SubSeq(urls, 1, Len(slots))[k]
  BY <1>2, <1>8 DEF PrefixOf
<1>10. UrlsOf(slots) = SubSeq(urls, 1, Len(slots))
  BY <1>6, <1>8, <1>9, SeqEqual
<1> QED
  BY <1>1, <1>6, <1>10 DEF IsPrefix
\* What the types say of a batch, of its job, answer and poller, and of a run.
LEMMA BatchEntry ==
  ASSUME BatchTypes, NEW i \in Ids
  PROVE  /\ Len(batches) \in Nat /\ i \in Nat /\ i \in 1 .. Len(batches)
         /\ batches[i] \in BatchRec /\ batches[i].session \in Sessions /\ batches[i].named \in Lists
         /\ batches[i].urls \in Seq(Urls) /\ batches[i].urls = Unique(batches[i].named)
         /\ batches[i].mode \in {"inline", "job"} /\ batches[i].expires \in Nat
         /\ jobs[i] \in JobRec \cup {NoJob}
         /\ jobs[i] # NoJob => /\ jobs[i] \in JobRec /\ jobs[i].startedAt \in Nat /\ jobs[i].finishedAt \in SUBSET Nat
                               /\ jobs[i].results \in Seq(SlotRec) /\ jobs[i].session \in Sessions
         /\ inline[i] \in AnswerRec /\ inline[i].results \in Seq(SlotRec)
         /\ poller[i] \in PollRec /\ poller[i].seen \in Seq(SlotRec)
<1>1. Len(batches) \in Nat /\ i \in 1 .. Len(batches) /\ i \in Nat
  BY DEF BatchTypes, Ids
<1>2. batches[i] \in BatchRec
  <2>1. batches \in Seq(BatchRec)
    BY DEF BatchTypes
  <2> QED
    BY <1>1, <2>1
<1>3. /\ batches[i].session \in Sessions /\ batches[i].named \in Lists
      /\ batches[i].urls \in Seq(Urls) /\ batches[i].urls = Unique(batches[i].named)
      /\ batches[i].mode \in {"inline", "job"} /\ batches[i].expires \in Nat
  BY <1>2 DEF BatchRec
<1>4. jobs[i] \in JobRec \cup {NoJob}
  <2>1. jobs \in Seq(JobRec \cup {NoJob}) /\ Len(jobs) = Len(batches)
    BY DEF BatchTypes
  <2> QED
    BY <1>1, <2>1
<1>5. jobs[i] \in JobRec => /\ jobs[i].startedAt \in Nat /\ jobs[i].finishedAt \in SUBSET Nat
                            /\ jobs[i].results \in Seq(SlotRec) /\ jobs[i].session \in Sessions
  BY DEF JobRec
<1>6. inline[i] \in AnswerRec
  <2>1. inline \in Seq(AnswerRec) /\ Len(inline) = Len(batches)
    BY DEF BatchTypes
  <2> QED
    BY <1>1, <2>1
<1>7. inline[i].results \in Seq(SlotRec)
  BY <1>6 DEF AnswerRec
<1>8. poller[i] \in PollRec
  <2>1. poller \in Seq(PollRec) /\ Len(poller) = Len(batches)
    BY DEF BatchTypes
  <2> QED
    BY <1>1, <2>1
<1>9. poller[i].seen \in Seq(SlotRec)
  BY <1>8 DEF PollRec
<1> QED
  BY <1>1, <1>2, <1>3, <1>4, <1>5, <1>6, <1>7, <1>8, <1>9

LEMMA RunEntry ==
  ASSUME BatchTypes, NEW s \in Sessions
  PROVE  /\ queue[s] \in Seq(Nat) /\ run[s] \in RunRec
         /\ run[s].pc \in {"idle", "looping", "traversing"} /\ run[s].deadline \in Nat /\ run[s].done \in Seq(SlotRec)
<1>1. queue[s] \in Seq(Nat) /\ run[s] \in RunRec
  BY DEF BatchTypes
<1> QED
  BY <1>1 DEF RunRec

\* The batch at the front of a queue is of its session, and has done what the run says.
LEMMA FrontOf ==
  ASSUME BatchesInv, NEW s \in Sessions, queue[s] # <<>>
  PROVE  /\ Front(s) \in Ids /\ batches[Front(s)].session = s /\ Queued(Front(s))
         /\ DoneOf(Front(s)) = run[s].done
<1>1. queue[s] \in Seq(Nat) /\ SessionOK(s)
  BY RunEntry DEF BatchesInv
<1>2. 1 \in DOMAIN queue[s] /\ Head(queue[s]) = queue[s][1]
  BY <1>1
<1>3. Front(s) \in Ids /\ batches[Front(s)].session = s
  BY <1>1, <1>2 DEF SessionOK, Front
<1>4. Queued(Front(s))
  BY <1>2, <1>3 DEF Queued, Members, Front
<1>5. DoneOf(Front(s)) = run[s].done
  BY <1>3 DEF DoneOf, DoneIn, Front
<1> QED
  BY <1>3, <1>4, <1>5

\* A batch of a session that is queued stands in the queue of this one only.
LEMMA QueuedIn ==
  ASSUME BatchesInv, NEW s \in Sessions, NEW k \in DOMAIN queue[s]
  PROVE  queue[s][k] \in Ids /\ batches[queue[s][k]].session = s /\ Queued(queue[s][k])
<1>1. queue[s][k] \in Ids /\ batches[queue[s][k]].session = s
  BY DEF BatchesInv, SessionOK
<1>2. queue[s][k] \in Members(queue[s])
  BY DEF Members
<1> QED
  BY <1>1, <1>2 DEF Queued

\* prune: only a job that has ended goes.
LEMMA PruneIs ==
  ASSUME BatchesInv
  PROVE  /\ Prune(jobs) \in Seq(JobRec \cup {NoJob}) /\ Len(Prune(jobs)) = Len(jobs)
         /\ \A i \in Ids :
              /\ Prune(jobs)[i] = jobs[i] \/ (Prune(jobs)[i] = NoJob /\ ~Queued(i))
              /\ Prune(jobs)[i] # NoJob => Prune(jobs)[i] = jobs[i]
<1> DEFINE kept(i) == IF jobs[i] # NoJob /\ jobs[i].finishedAt # {} /\ \A t \in jobs[i].finishedAt : t + Retention < now
                      THEN NoJob ELSE jobs[i]
<1>1. BatchTypes
  BY DEF BatchesInv
<1>2. jobs \in Seq(JobRec \cup {NoJob}) /\ Len(jobs) = Len(batches) /\ Len(jobs) \in Nat /\ DOMAIN jobs = Ids
  BY <1>1 DEF BatchTypes, Ids
<1>3. Prune(jobs) = [i \in Ids |-> kept(i)]
  BY <1>2 DEF Prune
<1>4. \A i \in Ids : kept(i) = jobs[i] \/ (kept(i) = NoJob /\ jobs[i] # NoJob /\ jobs[i].finishedAt # {})
  OBVIOUS
<1> HIDE DEF kept
<1>5. \A i \in Ids : jobs[i] \in JobRec \cup {NoJob}
  BY <1>1, BatchEntry
<1>6. Prune(jobs) \in [1 .. Len(jobs) -> JobRec \cup {NoJob}]
  <2>1. \A i \in Ids : kept(i) \in JobRec \cup {NoJob}
    BY <1>4, <1>5
  <2> QED
    BY <1>2, <1>3, <2>1 DEF Ids
<1>7. Prune(jobs) \in Seq(JobRec \cup {NoJob}) /\ Len(Prune(jobs)) = Len(jobs)
  BY <1>2, <1>6, SeqDef
<1>8. ASSUME NEW i \in Ids, Queued(i) PROVE kept(i) = jobs[i]
  <2>1. Book(i) /\ batches[i].mode \in {"inline", "job"}
    BY <1>1, BatchEntry DEF BatchesInv
  <2>2. jobs[i] = NoJob \/ jobs[i].finishedAt = {}
    BY <1>8, <2>1 DEF Book, BookOK, JobGoes
  <2> QED
    BY <1>4, <2>2
<1>9. \A i \in Ids : Prune(jobs)[i] = kept(i)
  BY <1>3
<1> QED
  BY <1>4, <1>7, <1>8, <1>9

\* A batch's books are kept by a step that leaves what they are made of, but for the
\* job of one that is not queued, which may be dropped.
LEMMA BookKept ==
  ASSUME NEW b, NEW j, NEW j2, NEW x, NEW p, NEW queued \in BOOLEAN, NEW done, NEW done2,
         BookOK(b, j, x, p, queued, done), b.mode \in {"inline", "job"},
         j2 = j \/ (j2 = NoJob /\ ~queued), queued => done2 = done
  PROVE  BookOK(b, j2, x, p, queued, done2)
<1>1. CASE queued
  BY <1>1 DEF BookOK
<1>2. CASE ~queued
  BY <1>2 DEF BookOK, JobOver, PollOK
<1> QED
  BY <1>1, <1>2

LEMMA BookStays ==
  ASSUME BatchesInv, NEW i \in Ids,
         batches'[i] = batches[i], inline'[i] = inline[i], poller'[i] = poller[i],
         jobs'[i] = jobs[i] \/ (jobs'[i] = NoJob /\ ~Queued(i)),
         Queued(i)' <=> Queued(i), Queued(i) => DoneOf(i)' = DoneOf(i)
  PROVE  Book(i)'
<1>1. Book(i) /\ batches[i].mode \in {"inline", "job"}
  BY BatchEntry DEF BatchesInv
<1>2. Queued(i) \in BOOLEAN /\ Queued(i)' \in BOOLEAN
  BY DEF Queued
<1>3. BookOK(batches[i], jobs[i], inline[i], poller[i], Queued(i), DoneOf(i))
  BY <1>1 DEF Book
<1>4. BookOK(batches[i], jobs'[i], inline[i], poller[i], Queued(i), DoneOf(i)')
  BY <1>1, <1>2, <1>3, BookKept
<1>5. BookOK(batches'[i], jobs'[i], inline'[i], poller'[i], Queued(i)', DoneOf(i)')
  <2>1. Queued(i)' = Queued(i)
    BY <1>2
  <2> QED
    BY <1>4, <2>1
<1> QED
  BY <1>5 DEF Book

LEMMA SessionStays ==
  ASSUME BatchesInv, NEW s \in Sessions, queue'[s] = queue[s], run'[s] = run[s],
         \A i \in Ids : i \in Ids' /\ batches'[i] = batches[i]
                        /\ (batches[i].session = s /\ Queued(i) => jobs'[i] = jobs[i] \/ jobs'[i].startedAt = jobs[i].startedAt)
  PROVE  SessionOK(s)'
<1>1. SessionOK(s) /\ queue[s] \in Seq(Nat)
  BY RunEntry DEF BatchesInv
<1>2. \A k \in DOMAIN queue[s] : queue[s][k] \in Ids' /\ batches'[queue[s][k]] = batches[queue[s][k]]
  BY <1>1 DEF SessionOK
<1>3. queue[s] # <<>> => /\ batches'[Front(s)] = batches[Front(s)]
                         /\ jobs'[Front(s)] = jobs[Front(s)] \/ jobs'[Front(s)].startedAt = jobs[Front(s)].startedAt
  BY FrontOf
<1>4. Front(s)' = Front(s)
  BY DEF Front
<1>5. \A k \in DOMAIN queue'[s] : queue'[s][k] \in Ids' /\ batches'[queue'[s][k]].session = s
  BY <1>1, <1>2 DEF SessionOK
<1>6. \A j, k \in DOMAIN queue'[s] : queue'[s][j] = queue'[s][k] => j = k
  BY <1>1 DEF SessionOK
<1>7. run'[s].pc = "idle" => run'[s].done = <<>>
  BY <1>1 DEF SessionOK
<1>8. run'[s].pc # "idle" =>
       /\ queue'[s] # <<>>
       /\ PrefixOf(run'[s].done, batches'[Front(s)].urls)
       /\ batches'[Front(s)].mode = "job" => run'[s].deadline = jobs'[Front(s)].startedAt + JobDeadline
       /\ run'[s].pc = "traversing" => Len(run'[s].done) < Len(batches'[Front(s)].urls)
  BY <1>1, <1>3 DEF SessionOK
<1> QED
  BY <1>4, <1>5, <1>6, <1>7, <1>8 DEF SessionOK
\* The slots of what a batch has done so far are those of its first URLs.
LEMMA DoneIsPrefix ==
  ASSUME BatchesInv, NEW i \in Ids
  PROVE  DoneOf(i) \in Seq(SlotRec) /\ PrefixOf(DoneOf(i), batches[i].urls)
<1> DEFINE s == batches[i].session
<1>1. BatchTypes
  BY DEF BatchesInv
<1>2. s \in Sessions /\ Len(batches[i].urls) \in Nat
  BY <1>1, BatchEntry
<1>3. queue[s] \in Seq(Nat) /\ run[s].done \in Seq(SlotRec) /\ SessionOK(s)
  BY <1>1, <1>2, RunEntry DEF BatchesInv
<1>4. <<>> \in Seq(SlotRec) /\ PrefixOf(<<>>, batches[i].urls)
  BY <1>2 DEF PrefixOf
<1>5. CASE queue[s] # <<>> /\ Head(queue[s]) = i
  <2>1. DoneOf(i) = run[s].done
    BY <1>5 DEF DoneOf, DoneIn
  <2>2. CASE run[s].pc = "idle"
    BY <1>3, <1>4, <2>1, <2>2 DEF SessionOK
  <2>3. CASE run[s].pc # "idle"
    BY <1>3, <1>5, <2>1, <2>3 DEF SessionOK, Front
  <2> QED
    BY <2>2, <2>3
<1>6. CASE ~(queue[s] # <<>> /\ Head(queue[s]) = i)
  BY <1>4, <1>6 DEF DoneOf, DoneIn
<1> QED
  BY <1>5, <1>6

\* Steps that leave the queues, the runs and the batches; the store may be pruned.
LEMMA QuietStep ==
  ASSUME BatchesInv, now' \in Nat, queue' = queue, run' = run, batches' = batches, inline' = inline,
         jobs' = jobs \/ jobs' = Prune(jobs),
         poller' \in Seq(PollRec), Len(poller') = Len(poller),
         NEW n, \A i \in Ids : i # n => poller'[i] = poller[i],
         n \in Ids => poller'[n] = poller[n] \/ Book(n)'
  PROVE  BatchesInv'
<1>1. BatchTypes /\ Ids' = Ids
  BY DEF BatchesInv, Ids
<1>2. \A i \in Ids : jobs'[i] = jobs[i] \/ (jobs'[i] = NoJob /\ ~Queued(i))
  BY PruneIs
<1>3. \A i \in Ids : (Queued(i)' <=> Queued(i)) /\ DoneOf(i)' = DoneOf(i)
  BY DEF Queued, DoneOf, DoneIn
<1>4. BatchTypes'
  <2>1. jobs' \in Seq(JobRec \cup {NoJob}) /\ Len(jobs') = Len(batches')
    BY <1>1, PruneIs DEF BatchTypes
  <2> QED
    BY <1>1, <2>1 DEF BatchTypes
<1>5. ASSUME NEW s \in Sessions PROVE SessionOK(s)'
  <2>1. \A i \in Ids : i \in Ids' /\ batches'[i] = batches[i]
                       /\ (batches[i].session = s /\ Queued(i) => jobs'[i] = jobs[i])
    BY <1>1, <1>2
  <2>2. queue'[s] = queue[s] /\ run'[s] = run[s]
    OBVIOUS
  <2> QED
    BY <2>1, <2>2, SessionStays
<1>6. ASSUME NEW i \in Ids PROVE Book(i)'
  <2>1. batches'[i] = batches[i] /\ inline'[i] = inline[i]
    OBVIOUS
  <2>2. CASE poller'[i] = poller[i]
    BY <1>2, <1>3, <2>1, <2>2, BookStays
  <2>3. CASE poller'[i] # poller[i]
    BY <2>3
  <2> QED
    BY <2>2, <2>3
<1> QED
  BY <1>1, <1>4, <1>5, <1>6 DEF BatchesInv

LEMMA TickKeeps == ASSUME BatchesInv, Tick PROVE BatchesInv'
<1>1. now' = now + 1 /\ queue' = queue /\ run' = run /\ batches' = batches /\ inline' = inline /\ jobs' = jobs /\ poller' = poller
  BY DEF Tick
<1>2. now' \in Nat /\ poller' \in Seq(PollRec) /\ Len(poller') = Len(poller)
  BY <1>1 DEF BatchesInv, BatchTypes
<1> QED
  BY <1>1, <1>2, QuietStep

LEMMA SnapshotKeeps == ASSUME BatchesInv, SnapshotJobs PROVE BatchesInv'
<1>1. now' = now /\ queue' = queue /\ run' = run /\ batches' = batches /\ inline' = inline /\ jobs' = Prune(jobs) /\ poller' = poller
  BY DEF SnapshotJobs
<1>2. now' \in Nat /\ poller' \in Seq(PollRec) /\ Len(poller') = Len(poller)
  BY <1>1 DEF BatchesInv, BatchTypes
<1> QED
  BY <1>1, <1>2, QuietStep

LEMMA DeathKeeps == ASSUME BatchesInv, NEW s, SessionDies(s) PROVE BatchesInv'
<1>1. now' = now /\ queue' = queue /\ run' = run /\ batches' = batches /\ inline' = inline /\ jobs' = jobs /\ poller' = poller
  BY DEF SessionDies
<1>2. now' \in Nat /\ poller' \in Seq(PollRec) /\ Len(poller') = Len(poller)
  BY <1>1 DEF BatchesInv, BatchTypes
<1> QED
  BY <1>1, <1>2, QuietStep

LEMMA StutterKeeps == ASSUME BatchesInv, UNCHANGED batchVars PROVE BatchesInv'
<1>1. now' = now /\ queue' = queue /\ run' = run /\ batches' = batches /\ inline' = inline /\ jobs' = jobs /\ poller' = poller
  BY DEF batchVars
<1>2. now' \in Nat /\ poller' \in Seq(PollRec) /\ Len(poller') = Len(poller)
  BY <1>1 DEF BatchesInv, BatchTypes
<1> QED
  BY <1>1, <1>2, QuietStep

\* A poll gives the poller of a held job all that the job has, and tells it how the job ended.
LEMMA PollKeeps == ASSUME BatchesInv, NEW i \in Ids, NEW s \in Sessions, Poll(i, s) PROVE BatchesInv'
<1> DEFINE j == Prune(jobs)[i]
           answer == Progress(jobs[i], Len(poller[i].seen))
           given == [told |-> IF answer.status = "running" THEN "none" ELSE answer.status,
                     seen |-> SubSeq(poller[i].seen, 1, Least(answer.from, Len(poller[i].seen))) \o answer.results]
           urls == batches[i].urls
<1>1. /\ now' = now /\ queue' = queue /\ run' = run /\ batches' = batches /\ inline' = inline
      /\ jobs' = Prune(jobs) /\ batches[i].mode = "job"
  BY DEF Poll
<1>2. poller' = IF Held(Prune(jobs), i, s) THEN [poller EXCEPT ![i] = given]
                ELSE IF s = batches[i].session THEN [poller EXCEPT ![i].told = "ARTIFACT_EXPIRED"] ELSE poller
  BY DEF Poll
<1>3. BatchTypes /\ Book(i)
  BY DEF BatchesInv
<1>4. /\ poller \in Seq(PollRec) /\ Len(poller) \in Nat /\ i \in 1 .. Len(poller) /\ poller[i] \in PollRec
      /\ poller[i].seen \in Seq(SlotRec) /\ urls \in Seq(Urls) /\ now \in Nat
      /\ jobs[i] # NoJob => jobs[i] \in JobRec /\ jobs[i].results \in Seq(SlotRec)
  BY <1>3, BatchEntry DEF BatchTypes
<1>5. j # NoJob => j = jobs[i]
  BY PruneIs
<1>6. j = jobs[i] \/ (j = NoJob /\ ~Queued(i))
  BY PruneIs
<1>7. Queued(i)' <=> Queued(i)
  BY <1>1 DEF Queued
<1>8. DoneOf(i)' = DoneOf(i)
  BY <1>1 DEF DoneOf
<1>9. /\ jobs[i] # NoJob => jobs[i].session = batches[i].session
      /\ inline[i] = NoAnswer
      /\ Queued(i) => JobGoes(jobs[i], DoneOf(i)) /\ poller[i].told = "none" /\ SlotsFirst(poller[i].seen, DoneOf(i))
      /\ ~Queued(i) => JobOver(jobs[i], urls) /\ PollOK(poller[i], jobs[i], urls)
  BY <1>1, <1>3 DEF Book, BookOK
<1>10. Queued(i) \in BOOLEAN
  BY DEF Queued
<1>11. CASE Held(Prune(jobs), i, s)
  <2>1. j # NoJob /\ j = jobs[i] /\ jobs[i] # NoJob
    BY <1>5, <1>11 DEF Held
  <2>2. SlotsFirst(poller[i].seen, jobs[i].results)
    BY <1>9, <2>1 DEF JobGoes, PollOK
  <2>3. answer.status = jobs[i].status /\ given.seen = jobs[i].results
    BY <1>4, <2>1, <2>2, PollGivesTheRest
  <2>4. given.told = IF jobs[i].status = "running" THEN "none" ELSE jobs[i].status
    BY <2>3
  <2> HIDE DEF answer, given
  <2>5. SlotsFirst(jobs[i].results, jobs[i].results)
    BY <1>4, <2>1, FirstSlots
  <2>6. jobs[i].status \in {"running", "completed", "partial"}
    BY <1>4, <2>1 DEF JobRec
  <2>7. given \in PollRec
    <3>1. given = [told |-> given.told, seen |-> given.seen]
      BY DEF given
    <3>2. given.told \in {"none", "completed", "partial", "ARTIFACT_EXPIRED"} /\ given.seen \in Seq(SlotRec)
      BY <1>4, <2>1, <2>3, <2>4, <2>6
    <3> QED
      BY <3>1, <3>2 DEF PollRec
  <2>8. poller' = [poller EXCEPT ![i] = given]
    BY <1>2, <1>11
  <2>9. /\ poller' \in Seq(PollRec) /\ Len(poller') = Len(poller) /\ poller'[i] = given
        /\ \A k \in Ids : k # i => poller'[k] = poller[k]
    <3>1. DOMAIN poller = Ids
      BY <1>3, <1>4 DEF BatchTypes, Ids
    <3> QED
      BY <1>4, <2>7, <2>8, <3>1, ExceptSeq
  <2>10. Queued(i) => JobGoes(jobs[i], DoneOf(i)) /\ given.told = "none" /\ SlotsFirst(given.seen, DoneOf(i))
    BY <1>9, <2>3, <2>4, <2>5 DEF JobGoes
  <2>11. ~Queued(i) => JobOver(jobs[i], urls) /\ PollOK(given, jobs[i], urls)
    BY <1>9, <2>1, <2>3, <2>4, <2>5 DEF JobOver, EndedAs, PollOK
  <2>12. BookOK(batches[i], jobs[i], inline[i], given, Queued(i), DoneOf(i))
    BY <1>1, <1>9, <2>10, <2>11 DEF BookOK
  <2>13. Book(i)'
    BY <1>1, <1>7, <1>8, <1>10, <2>1, <2>9, <2>12 DEF Book, Queued
  <2> QED
    BY <1>1, <1>4, <2>9, <2>13, QuietStep
<1>12. CASE ~Held(Prune(jobs), i, s) /\ s = batches[i].session
  <2>1. j = NoJob
    BY <1>5, <1>9, <1>12 DEF Held
  <2> DEFINE p == [poller[i] EXCEPT !.told = "ARTIFACT_EXPIRED"]
  <2>2. p.told = "ARTIFACT_EXPIRED" /\ p.seen = poller[i].seen /\ p \in PollRec
    BY <1>4 DEF PollRec
  <2>3. poller' = [poller EXCEPT ![i] = p]
    BY <1>2, <1>12
  <2> HIDE DEF p
  <2>4. /\ poller' \in Seq(PollRec) /\ Len(poller') = Len(poller) /\ poller'[i] = p
        /\ \A k \in Ids : k # i => poller'[k] = poller[k]
    <3>1. DOMAIN poller = Ids
      BY <1>3, <1>4 DEF BatchTypes, Ids
    <3> QED
      BY <1>4, <2>2, <2>3, <3>1, ExceptSeq
  <2>5. ~Queued(i)
    BY <1>6, <1>9, <2>1 DEF JobGoes
  <2>6. PollOK(p, NoJob, urls)
    BY <1>9, <2>2, <2>5 DEF PollOK
  <2>7. JobOver(NoJob, urls)
    BY DEF JobOver
  <2>8. BookOK(batches[i], NoJob, inline[i], p, FALSE, DoneOf(i))
    BY <1>1, <1>9, <2>6, <2>7 DEF BookOK
  <2>9. Book(i)'
    <3>1. Queued(i)' = FALSE
      BY <1>7, <2>5 DEF Queued
    <3>2. jobs'[i] = NoJob /\ poller'[i] = p /\ batches'[i] = batches[i] /\ inline'[i] = inline[i]
      BY <1>1, <2>1, <2>4
    <3> QED
      BY <1>8, <2>8, <3>1, <3>2 DEF Book
  <2> QED
    BY <1>1, <1>4, <2>4, <2>9, QuietStep
<1>13. CASE ~Held(Prune(jobs), i, s) /\ s # batches[i].session
  <2>1. poller' = poller
    BY <1>2, <1>13
  <2> QED
    BY <1>1, <1>4, <2>1, QuietStep
<1> QED
  BY <1>11, <1>12, <1>13
\* The batch at the front leaves its queue: the others stay queued, and have done nothing there.
LEMMA FrontLeaves ==
  ASSUME BatchesInv, NEW s \in Sessions, queue[s] # <<>>, NEW f, f = Front(s), NEW i \in Ids, batches' = batches,
         queue' = [queue EXCEPT ![s] = Tail(queue[s])],
         run' = [run EXCEPT ![s] = run'[s]], run'[s].done = <<>>
  PROVE  /\ queue' \in [Sessions -> Seq(Nat)]
         /\ ~Queued(f)'
         /\ i # f => (Queued(i)' <=> Queued(i))
         /\ i # f => DoneIn(queue', run', batches'[i].session, i) = DoneIn(queue, run, batches[i].session, i)
         /\ \A k \in DOMAIN queue'[s] : queue'[s][k] \in Ids /\ batches[queue'[s][k]].session = s
         /\ \A j, k \in DOMAIN queue'[s] : queue'[s][j] = queue'[s][k] => j = k
<1>1. BatchTypes /\ SessionOK(s) /\ queue[s] \in Seq(Nat) /\ queue \in [Sessions -> Seq(Nat)] /\ run \in [Sessions -> RunRec]
  BY RunEntry DEF BatchesInv, BatchTypes
<1>2. f \in Ids /\ batches[f].session = s /\ f = Head(queue[s])
  BY FrontOf DEF Front
<1>3. /\ Tail(queue[s]) \in Seq(Nat) /\ Members(Tail(queue[s])) = Members(queue[s]) \ {f}
      /\ \A j, k \in DOMAIN Tail(queue[s]) : Tail(queue[s])[j] = Tail(queue[s])[k] => j = k
  BY <1>1, <1>2, QueueShift DEF SessionOK
<1>4. queue'[s] = Tail(queue[s]) /\ \A t \in Sessions : t # s => queue'[t] = queue[t] /\ run'[t] = run[t]
  BY <1>1
<1>5. queue' \in [Sessions -> Seq(Nat)]
  BY <1>1, <1>3
<1>6. ~Queued(f)'
  BY <1>2, <1>3, <1>4 DEF Queued
<1>7. ASSUME i # f PROVE (Queued(i)' <=> Queued(i)) /\ DoneOf(i)' = DoneOf(i)
  <2>1. batches[i].session \in Sessions
    BY <1>1, BatchEntry
  <2>2. CASE batches[i].session = s
    <3>1. DoneOf(i) = <<>>
      BY <1>2, <1>7, <2>2 DEF DoneOf, DoneIn
    <3>2. DoneOf(i)' = <<>>
      BY <2>2 DEF DoneOf, DoneIn
    <3>3. Queued(i)' <=> Queued(i)
      BY <1>3, <1>4, <1>7, <2>2 DEF Queued
    <3> QED
      BY <3>1, <3>2, <3>3
  <2>3. CASE batches[i].session # s
    BY <1>4, <2>1, <2>3 DEF Queued, DoneOf, DoneIn
  <2> QED
    BY <2>2, <2>3
<1>8. ASSUME NEW k \in DOMAIN queue'[s] PROVE queue'[s][k] \in Ids /\ batches[queue'[s][k]].session = s
  <2>1. queue'[s][k] \in Members(queue[s])
    BY <1>3, <1>4 DEF Members
  <2>2. PICK m \in DOMAIN queue[s] : queue[s][m] = queue'[s][k]
    BY <2>1 DEF Members
  <2> QED
    BY <1>1, <2>2 DEF SessionOK
<1>9. i # f => DoneIn(queue', run', batches'[i].session, i) = DoneIn(queue, run, batches[i].session, i)
  BY <1>7 DEF DoneOf
<1> QED
  BY <1>3, <1>4, <1>5, <1>6, <1>7, <1>8, <1>9

\* What the front of a queue holds when its batch starts or runs.
LEMMA FrontBook ==
  ASSUME BatchesInv, NEW s \in Sessions, queue[s] # <<>>
  PROVE  LET f == Front(s) IN
         /\ f \in Ids /\ batches[f].session = s /\ batches[f].mode \in {"inline", "job"}
         /\ run[s].done \in Seq(SlotRec) /\ PrefixOf(run[s].done, batches[f].urls)
         /\ batches[f].mode = "inline" => jobs[f] = NoJob /\ poller[f] = NewPoller /\ inline[f] = NoAnswer
         /\ batches[f].mode = "job" =>
              /\ inline[f] = NoAnswer /\ JobGoes(jobs[f], run[s].done) /\ jobs[f] # NoJob
              /\ jobs[f].session = s
              /\ poller[f].told = "none" /\ SlotsFirst(poller[f].seen, run[s].done)
<1> DEFINE f == Front(s)
<1>1. f \in Ids /\ batches[f].session = s /\ Queued(f) /\ DoneOf(f) = run[s].done
  BY FrontOf
<1>2. batches[f].mode \in {"inline", "job"} /\ Book(f)
  BY <1>1, BatchEntry DEF BatchesInv
<1>3. run[s].done \in Seq(SlotRec) /\ PrefixOf(run[s].done, batches[f].urls)
  BY <1>1, DoneIsPrefix
<1>4. BookOK(batches[f], jobs[f], inline[f], poller[f], TRUE, run[s].done)
  <2>1. Queued(f) = TRUE
    BY <1>1 DEF Queued
  <2> QED
    BY <1>1, <1>2, <2>1 DEF Book
<1>5. batches[f].mode = "inline" => jobs[f] = NoJob /\ poller[f] = NewPoller /\ inline[f] = NoAnswer
  BY <1>4 DEF BookOK
<1>6. batches[f].mode = "job" =>
        /\ inline[f] = NoAnswer /\ JobGoes(jobs[f], run[s].done) /\ jobs[f] # NoJob
        /\ jobs[f].session = s
        /\ poller[f].told = "none" /\ SlotsFirst(poller[f].seen, run[s].done)
  BY <1>1, <1>4 DEF BookOK, JobGoes
<1> QED
  BY <1>1, <1>2, <1>3, <1>5, <1>6

\* An inline batch that expired in the queue is refused; another starts with nothing done.
LEMMA StartBatchKeeps == ASSUME BatchesInv, NEW s \in Sessions, StartBatch(s) PROVE BatchesInv'
<1>0. PICK f : f = Front(s)
  OBVIOUS
<1> DEFINE deadline == IF IsInline(f) THEN now + Budget ELSE jobs[f].startedAt + JobDeadline
           go == [pc |-> "looping", done |-> <<>>, deadline |-> deadline]
           refused == [inline[f] EXCEPT !.status = "REQUEST_EXPIRED"]
<1>1. /\ queue[s] # <<>> /\ run[s].pc = "idle" /\ now' = now /\ jobs' = jobs /\ batches' = batches /\ poller' = poller
  BY DEF StartBatch
<1>2. BatchTypes /\ Ids' = Ids /\ SessionOK(s) /\ run[s].done = <<>>
  BY <1>1 DEF BatchesInv, Ids, SessionOK
<1>3. /\ f \in Ids /\ batches[f].session = s /\ batches[f].mode \in {"inline", "job"}
      /\ batches[f].mode = "inline" => jobs[f] = NoJob /\ poller[f] = NewPoller /\ inline[f] = NoAnswer
      /\ batches[f].mode = "job" => jobs[f] # NoJob
  BY <1>0, <1>1, FrontBook
<1>4. CASE IsInline(f) /\ batches[f].expires <= now
  <2>1. inline' = [inline EXCEPT ![f] = refused] /\ queue' = [queue EXCEPT ![s] = Tail(queue[s])] /\ run' = run
    BY <1>0, <1>4 DEF StartBatch
  <2>2. batches[f].mode = "inline" /\ refused = [status |-> "REQUEST_EXPIRED", results |-> <<>>]
    <3>1. batches[f].mode = "inline"
      BY <1>4 DEF IsInline
    <3>2. inline[f] = [status |-> "none", results |-> <<>>]
      BY <1>3, <3>1 DEF NoAnswer
    <3> QED
      BY <3>1, <3>2
  <2> HIDE DEF refused
  <2>3. refused \in AnswerRec
    BY <2>2 DEF AnswerRec
  <2>4. /\ inline' \in Seq(AnswerRec) /\ Len(inline') = Len(inline) /\ inline'[f] = refused
        /\ \A i \in Ids : i # f => inline'[i] = inline[i]
    <3>1. inline \in Seq(AnswerRec) /\ f \in 1 .. Len(inline) /\ Ids = 1 .. Len(inline)
      BY <1>2, <1>3 DEF BatchTypes, Ids
    <3> QED
      BY <2>1, <2>3, <3>1, ExceptSeq
  <2>5. run' = [run EXCEPT ![s] = run'[s]] /\ run'[s].done = <<>>
    BY <1>2, <2>1 DEF BatchTypes
  <2>6. /\ queue' \in [Sessions -> Seq(Nat)]
        /\ ~Queued(f)'
        /\ \A i \in Ids : i # f => (Queued(i)' <=> Queued(i)) /\ DoneOf(i)' = DoneOf(i)
        /\ \A k \in DOMAIN queue'[s] : queue'[s][k] \in Ids /\ batches[queue'[s][k]].session = s
        /\ \A j, k \in DOMAIN queue'[s] : queue'[s][j] = queue'[s][k] => j = k
    <3>1. queue[s] # <<>> /\ batches' = batches /\ f = Front(s) /\ queue' = [queue EXCEPT ![s] = Tail(queue[s])]
      BY <1>0, <1>1, <2>1
    <3>2. run' = [run EXCEPT ![s] = run'[s]] /\ run'[s].done = <<>>
      BY <2>5
    <3>3. queue' \in [Sessions -> Seq(Nat)]
      BY <1>3, <3>1, <3>2, FrontLeaves
    <3>4. ~Queued(f)'
      BY <1>3, <3>1, <3>2, FrontLeaves
    <3>5. \A i \in Ids : i # f => (Queued(i)' <=> Queued(i)) /\ DoneOf(i)' = DoneOf(i)
      <4> SUFFICES ASSUME NEW i \in Ids, i # f PROVE (Queued(i)' <=> Queued(i)) /\ DoneOf(i)' = DoneOf(i)
        OBVIOUS
      <4>1. Queued(i)' => Queued(i)
        BY <3>1, <3>2, FrontLeaves
      <4>2. Queued(i) => Queued(i)'
        BY ZenonT(40), <3>1, <3>2, FrontLeaves
      <4>3. i # f => DoneIn(queue', run', batches'[i].session, i) = DoneIn(queue, run, batches[i].session, i)
        BY ZenonT(40), <3>1, <3>2, FrontLeaves
      <4> QED
        BY <4>1, <4>2, <4>3 DEF DoneOf
    <3>6. \A k \in DOMAIN queue'[s] : queue'[s][k] \in Ids /\ batches[queue'[s][k]].session = s
      BY <1>3, <3>1, <3>2, FrontLeaves
    <3>7. \A j, k \in DOMAIN queue'[s] : queue'[s][j] = queue'[s][k] => j = k
      BY ZenonT(40), <1>3, <3>1, <3>2, FrontLeaves
    <3> QED
      BY <3>3, <3>4, <3>5, <3>6, <3>7
  <2>7. BatchTypes'
    BY <1>1, <1>2, <2>1, <2>4, <2>6 DEF BatchTypes
  <2>8. SessionOK(s)'
    BY <1>1, <1>2, <2>1, <2>6 DEF SessionOK
  <2>9. ASSUME NEW t \in Sessions, t # s PROVE SessionOK(t)'
    <3>1. queue'[t] = queue[t] /\ run'[t] = run[t]
      BY <1>2, <2>1, <2>9 DEF BatchTypes
    <3> QED
      BY <1>1, <1>2, <3>1, SessionStays
  <2>10. ASSUME NEW i \in Ids, i # f PROVE Book(i)'
    BY <1>1, <2>4, <2>6, <2>10, BookStays
  <2>11. Book(f)'
    <3>1. PrefixOf(<<>>, batches[f].urls)
      BY <1>2, <1>3, BatchEntry DEF PrefixOf
    <3>2. EndedAs(inline'[f].status, inline'[f].results, batches[f].urls)
      BY <2>2, <2>4, <3>1 DEF EndedAs
    <3>3. Queued(f)' = FALSE
      BY <2>6 DEF Queued
    <3>4. BookOK(batches[f], NoJob, inline'[f], NewPoller, FALSE, DoneOf(f)')
      BY <2>2, <3>2 DEF BookOK
    <3>5. batches'[f] = batches[f] /\ jobs'[f] = NoJob /\ poller'[f] = NewPoller
      BY <1>1, <1>3, <2>2
    <3> QED
      BY <3>3, <3>4, <3>5 DEF Book
  <2> QED
    BY <1>2, <2>7, <2>8, <2>9, <2>10, <2>11 DEF BatchesInv
<1>5. CASE ~(IsInline(f) /\ batches[f].expires <= now)
  <2>1. run' = [run EXCEPT ![s] = go] /\ inline' = inline /\ queue' = queue
    BY <1>0, <1>5 DEF StartBatch
  <2>2. deadline \in Nat /\ (batches[f].mode = "job" => deadline = jobs[f].startedAt + JobDeadline)
    <3>1. now \in Nat /\ Budget \in Nat /\ JobDeadline \in Nat
      BY <1>2, BatchAssumption DEF BatchTypes
    <3>2. CASE IsInline(f)
      BY <3>1, <3>2 DEF IsInline
    <3>3. CASE ~IsInline(f)
      <4>1. jobs[f] # NoJob
        BY <1>3, <3>3 DEF IsInline
      <4>2. jobs[f].startedAt \in Nat
        BY <1>2, <1>3, <4>1, BatchEntry
      <4> QED
        BY <3>1, <3>3, <4>2
    <3> QED
      BY <3>2, <3>3
  <2> HIDE DEF deadline
  <2>3. go \in RunRec
    BY <2>2 DEF RunRec
  <2>4. run' \in [Sessions -> RunRec] /\ run'[s] = go /\ \A t \in Sessions : t # s => run'[t] = run[t]
    BY <1>2, <2>1, <2>3 DEF BatchTypes
  <2>5. BatchTypes'
    BY <1>1, <1>2, <2>1, <2>4 DEF BatchTypes
  <2>6. \A t \in Sessions : run'[t].done = run[t].done
    BY <1>2, <2>4
  <2>7. SessionOK(s)'
    <3>1. PrefixOf(<<>>, batches[f].urls)
      BY <1>2, <1>3, BatchEntry DEF PrefixOf
    <3>2. Front(s)' = f
      BY <1>0, <2>1 DEF Front
    <3>3. go.pc = "looping" /\ go.done = <<>> /\ go.deadline = deadline
      OBVIOUS
    <3> HIDE DEF go
    <3>4. \A k \in DOMAIN queue'[s] : queue'[s][k] \in Ids' /\ batches'[queue'[s][k]].session = s
      BY <1>1, <1>2, <2>1 DEF SessionOK
    <3>5. \A j, k \in DOMAIN queue'[s] : queue'[s][j] = queue'[s][k] => j = k
      BY <1>2, <2>1 DEF SessionOK
    <3>6. /\ queue'[s] # <<>> /\ PrefixOf(run'[s].done, batches'[f].urls)
          /\ batches'[f].mode = "job" => run'[s].deadline = jobs'[f].startedAt + JobDeadline
          /\ run'[s].pc = "looping"
      BY <1>1, <2>1, <2>2, <2>4, <3>1, <3>3
    <3> QED
      BY <3>2, <3>4, <3>5, <3>6 DEF SessionOK
  <2>8. ASSUME NEW t \in Sessions, t # s PROVE SessionOK(t)'
    <3>1. queue'[t] = queue[t] /\ run'[t] = run[t]
      BY <2>1, <2>4, <2>8
    <3> QED
      BY <1>1, <1>2, <3>1, SessionStays
  <2>9. ASSUME NEW i \in Ids PROVE Book(i)'
    <3>1. batches[i].session \in Sessions
      BY <1>2, BatchEntry
    <3>2. DoneOf(i)' = DoneOf(i) /\ (Queued(i)' <=> Queued(i))
      BY <1>1, <2>1, <2>6, <3>1 DEF DoneOf, DoneIn, Queued
    <3> QED
      BY <1>1, <2>1, <3>2, BookStays
  <2> QED
    BY <1>2, <2>5, <2>7, <2>8, <2>9 DEF BatchesInv
<1> QED
  BY <1>4, <1>5
\* A step of the run of one session that leaves its queue: the books of the other
\* batches of this session, and those of the other sessions, stay.
LEMMA OthersStay ==
  ASSUME BatchesInv, NEW s \in Sessions, queue[s] # <<>>, NEW f, f = Front(s), NEW i \in Ids, i # f,
         queue' = queue, batches' = batches, inline' = inline, poller' = poller, jobs'[i] = jobs[i],
         \A t \in Sessions : t # s => run'[t] = run[t]
  PROVE  Book(i)'
<1>1. batches[i].session \in Sessions
  BY BatchEntry DEF BatchesInv
<1>2. batches[f].session = s /\ f = Head(queue[s])
  BY FrontOf DEF Front
<1>3. Queued(i)' <=> Queued(i)
  BY DEF Queued
<1>4. DoneOf(i)' = DoneOf(i)
  <2>1. CASE batches[i].session = s
    BY <1>2, <2>1 DEF DoneOf, DoneIn
  <2>2. CASE batches[i].session # s
    BY <1>1, <2>2 DEF DoneOf, DoneIn
  <2> QED
    BY <2>1, <2>2
<1>5. batches'[i] = batches[i] /\ inline'[i] = inline[i] /\ poller'[i] = poller[i]
  OBVIOUS
<1> QED
  BY <1>3, <1>4, <1>5, BookStays

LEMMA StartItemKeeps == ASSUME BatchesInv, NEW s \in Sessions, StartItem(s) PROVE BatchesInv'
<1> DEFINE go == [run[s] EXCEPT !.pc = "traversing"]
<1>1. /\ run[s].pc = "looping" /\ MoreUrls(s) /\ run' = [run EXCEPT ![s] = go]
      /\ now' = now /\ queue' = queue /\ jobs' = jobs /\ batches' = batches /\ inline' = inline /\ poller' = poller
  BY DEF StartItem
<1>2. BatchTypes /\ Ids' = Ids /\ SessionOK(s) /\ run[s] \in RunRec
  BY <1>1, RunEntry DEF BatchesInv, Ids
<1>3. go \in RunRec /\ go.pc = "traversing" /\ go.done = run[s].done /\ go.deadline = run[s].deadline
  BY <1>2 DEF RunRec
<1> HIDE DEF go
<1>4. run' \in [Sessions -> RunRec] /\ run'[s] = go /\ \A t \in Sessions : t # s => run'[t] = run[t]
  BY <1>1, <1>2, <1>3 DEF BatchTypes
<1>5. BatchTypes'
  BY <1>1, <1>2, <1>4 DEF BatchTypes
<1>6. SessionOK(s)'
  <2>1. Front(s)' = Front(s)
    BY <1>1 DEF Front
  <2>2. /\ queue[s] # <<>> /\ PrefixOf(run[s].done, batches[Front(s)].urls)
        /\ batches[Front(s)].mode = "job" => run[s].deadline = jobs[Front(s)].startedAt + JobDeadline
    BY <1>1, <1>2 DEF SessionOK
  <2>3. Len(run[s].done) < Len(batches[Front(s)].urls)
    BY <1>1 DEF MoreUrls
  <2>4. \A k \in DOMAIN queue'[s] : queue'[s][k] \in Ids' /\ batches'[queue'[s][k]].session = s
    BY <1>1, <1>2 DEF SessionOK
  <2>5. \A j, k \in DOMAIN queue'[s] : queue'[s][j] = queue'[s][k] => j = k
    BY <1>1, <1>2 DEF SessionOK
  <2>6. /\ queue'[s] # <<>> /\ PrefixOf(run'[s].done, batches'[Front(s)].urls)
        /\ batches'[Front(s)].mode = "job" => run'[s].deadline = jobs'[Front(s)].startedAt + JobDeadline
        /\ Len(run'[s].done) < Len(batches'[Front(s)].urls)
        /\ run'[s].pc = "traversing"
    BY <1>1, <1>3, <1>4, <2>2, <2>3
  <2> QED
    BY <2>1, <2>4, <2>5, <2>6 DEF SessionOK
<1>7. ASSUME NEW t \in Sessions, t # s PROVE SessionOK(t)'
  <2>1. queue'[t] = queue[t] /\ run'[t] = run[t]
    BY <1>1, <1>4, <1>7
  <2> QED
    BY <1>1, <1>2, <2>1, SessionStays
<1>8. ASSUME NEW i \in Ids PROVE Book(i)'
  <2>1. batches[i].session \in Sessions
    BY <1>2, BatchEntry
  <2>2. \A t \in Sessions : run'[t].done = run[t].done
    BY <1>3, <1>4
  <2>3. DoneOf(i)' = DoneOf(i) /\ (Queued(i)' <=> Queued(i))
    BY <1>1, <2>1, <2>2 DEF DoneOf, DoneIn, Queued
  <2> QED
    BY <1>1, <2>3, BookStays
<1> QED
  BY <1>2, <1>5, <1>6, <1>7, <1>8 DEF BatchesInv

\* Whatever a URL shows, its slot is one, and a wall is reported as a wall.
LEMMA SlotIs ==
  ASSUME NEW s, NEW url \in Urls, NEW entry \in Slots(s, url)
  PROVE  entry \in SlotRec /\ entry.url = url
<1>1. PICK fault, walled : entry = Slot(url, fault, walled) /\ fault \in SlotFault /\ walled \in BOOLEAN /\ (walled => fault = "CHALLENGE_PAGE")
  <2>1. CASE entry = Slot(url, "NAVIGATION_FAILED", FALSE)
    BY <2>1 DEF SlotFault
  <2>2. CASE entry # Slot(url, "NAVIGATION_FAILED", FALSE)
    <3>1. PICK page \in Pages : entry = Slot(url, Fault(url, page), "wall" \in page)
      BY <2>2 DEF Slots
    <3>2. CASE "wall" \in page
      BY <3>1, <3>2 DEF Fault, SlotFault
    <3>3. CASE "wall" \notin page
      <4>1. Fault(url, page) \in {"LISTING_UNAVAILABLE", "none"}
        <5>1. CASE IsDead(url, page)
          BY <3>3, <5>1 DEF Fault
        <5>2. CASE ~IsDead(url, page)
          BY <3>3, <5>2 DEF Fault
        <5> QED
          BY <5>1, <5>2
      <4>2. entry = Slot(url, Fault(url, page), FALSE)
        <5>1. ("wall" \in page) = FALSE
          BY <3>3
        <5> QED
          BY <3>1, <5>1
      <4>3. Fault(url, page) \in SlotFault
        BY <4>1 DEF SlotFault
      <4> QED
        BY <4>2, <4>3
    <3> QED
      BY <3>2, <3>3
  <2> QED
    BY <2>1, <2>2
<1>2. entry = [url |-> url, fault |-> fault, walled |-> walled]
  BY <1>1 DEF Slot
<1> QED
  BY <1>1, <1>2 DEF SlotRec

\* Appending a slot.
LEMMA SlotAppended ==
  ASSUME NEW a \in Seq(SlotRec), NEW entry \in SlotRec
  PROVE  /\ Append(a, entry) \in Seq(SlotRec) /\ Len(Append(a, entry)) = Len(a) + 1 /\ Len(a) \in Nat
         /\ \A p \in Seq(SlotRec) : SlotsFirst(p, a) => SlotsFirst(p, Append(a, entry))
         /\ \A urls : PrefixOf(a, urls) /\ Len(urls) \in Nat /\ Len(a) < Len(urls) /\ entry.url = urls[Len(a) + 1]
                        => PrefixOf(Append(a, entry), urls)
<1>1. /\ Append(a, entry) \in Seq(SlotRec) /\ Len(Append(a, entry)) = Len(a) + 1 /\ Len(a) \in Nat
  BY AppendProperties
<1>2. (\A k \in 1 .. Len(a) : Append(a, entry)[k] = a[k]) /\ Append(a, entry)[Len(a) + 1] = entry
  BY AppendProperties
<1>3. ASSUME NEW p \in Seq(SlotRec), SlotsFirst(p, a) PROVE SlotsFirst(p, Append(a, entry))
  <2>1. Len(p) \in Nat /\ Len(p) <= Len(a)
    BY <1>3 DEF SlotsFirst
  <2> QED
    BY <1>1, <1>2, <1>3, <2>1 DEF SlotsFirst
<1>4. ASSUME NEW urls, PrefixOf(a, urls), Len(urls) \in Nat, Len(a) < Len(urls), entry.url = urls[Len(a) + 1]
      PROVE  PrefixOf(Append(a, entry), urls)
  <2>1. Len(Append(a, entry)) <= Len(urls)
    BY <1>1, <1>4
  <2>2. ASSUME NEW k \in 1 .. Len(a) + 1 PROVE Append(a, entry)[k].url = urls[k]
    <3>1. k \in 1 .. Len(a) \/ k = Len(a) + 1
      BY <1>1
    <3> QED
      BY <1>2, <1>4, <3>1 DEF PrefixOf
  <2> QED
    BY <1>1, <2>1, <2>2 DEF PrefixOf
<1>5. \A urls : PrefixOf(a, urls) /\ Len(urls) \in Nat /\ Len(a) < Len(urls) /\ entry.url = urls[Len(a) + 1]
                  => PrefixOf(Append(a, entry), urls)
  BY <1>4
<1> QED
  BY <1>1, <1>3, <1>5

\* append: the job of the batch gets the slot; an inline batch has no job.
LEMMA AppendedIs ==
  ASSUME BatchTypes, NEW f \in Ids, NEW entry \in SlotRec
  PROVE  LET after == Appended(f, entry) IN
         /\ after \in Seq(JobRec \cup {NoJob}) /\ Len(after) = Len(jobs)
         /\ \A i \in Ids : i # f => after[i] = jobs[i]
         /\ jobs[f] = NoJob => after[f] = NoJob
         /\ jobs[f] # NoJob =>
              /\ after[f] # NoJob /\ after[f].status = jobs[f].status /\ after[f].session = jobs[f].session
              /\ after[f].startedAt = jobs[f].startedAt /\ after[f].finishedAt = jobs[f].finishedAt
              /\ after[f].results = Append(jobs[f].results, entry)
<1>1. jobs \in Seq(JobRec \cup {NoJob}) /\ f \in 1 .. Len(jobs) /\ Ids = 1 .. Len(jobs)
  BY DEF BatchTypes, Ids
<1>2. jobs[f] # NoJob => jobs[f] \in JobRec /\ jobs[f].results \in Seq(SlotRec)
  BY BatchEntry
<1>3. CASE jobs[f] = NoJob
  BY <1>1, <1>3 DEF Appended
<1>4. CASE jobs[f] # NoJob
  <2> DEFINE j == [jobs[f] EXCEPT !.results = Append(@, entry)]
  <2>1. Append(jobs[f].results, entry) \in Seq(SlotRec)
    BY <1>2, <1>4, AppendProperties
  <2>2. /\ j \in JobRec /\ j.status = jobs[f].status /\ j.session = jobs[f].session /\ j.startedAt = jobs[f].startedAt
        /\ j.finishedAt = jobs[f].finishedAt /\ j.results = Append(jobs[f].results, entry)
    BY <1>2, <1>4, <2>1 DEF JobRec
  <2>3. Appended(f, entry) = [jobs EXCEPT ![f] = j]
    BY <1>4 DEF Appended
  <2> HIDE DEF j
  <2>4. j # NoJob
    BY <2>2 DEF JobRec, NoJob
  <2>5. /\ Appended(f, entry) \in Seq(JobRec \cup {NoJob}) /\ Len(Appended(f, entry)) = Len(jobs)
        /\ \A i \in Ids : Appended(f, entry)[i] = IF i = f THEN j ELSE jobs[i]
    BY <1>1, <2>2, <2>3, ExceptSeq
  <2> QED
    BY <1>4, <2>2, <2>4, <2>5
<1> QED
  BY <1>3, <1>4
\* onItem: what the batch has done and what its job holds grow together.
LEMMA EndItemKeeps == ASSUME BatchesInv, NEW s \in Sessions, EndItem(s) PROVE BatchesInv'
<1>0. PICK f : f = Front(s)
  OBVIOUS
<1>1. run[s].pc = "traversing" /\ now' = now /\ queue' = queue /\ batches' = batches /\ inline' = inline /\ poller' = poller
  BY DEF EndItem
<1>2. PICK entry \in Slots(s, NextUrl(s)) :
        /\ run' = [run EXCEPT ![s].pc = "looping", ![s].done = Append(@, entry)]
        /\ jobs' = Appended(f, entry)
  BY <1>0 DEF EndItem
<1>3. BatchTypes /\ Ids' = Ids /\ SessionOK(s) /\ run[s] \in RunRec /\ run[s].done \in Seq(SlotRec)
  BY <1>1, RunEntry DEF BatchesInv, Ids
<1>4. /\ queue[s] # <<>> /\ Len(run[s].done) < Len(batches[f].urls)
      /\ batches[f].mode = "job" => run[s].deadline = jobs[f].startedAt + JobDeadline
  BY <1>0, <1>1, <1>3 DEF SessionOK
<1>5. /\ f \in Ids /\ batches[f].session = s /\ batches[f].mode \in {"inline", "job"}
      /\ PrefixOf(run[s].done, batches[f].urls)
      /\ batches[f].mode = "inline" => jobs[f] = NoJob /\ poller[f] = NewPoller /\ inline[f] = NoAnswer
      /\ batches[f].mode = "job" =>
           /\ inline[f] = NoAnswer /\ JobGoes(jobs[f], run[s].done) /\ jobs[f] # NoJob
           /\ jobs[f].session = s
           /\ poller[f].told = "none" /\ SlotsFirst(poller[f].seen, run[s].done)
  BY <1>0, <1>4, FrontBook
<1>6. batches[f].urls \in Seq(Urls) /\ poller[f].seen \in Seq(SlotRec)
  BY <1>3, <1>5, BatchEntry
<1>7. entry \in SlotRec /\ entry.url = batches[f].urls[Len(run[s].done) + 1]
  <2>1. NextUrl(s) = batches[f].urls[Len(run[s].done) + 1]
    BY <1>0 DEF NextUrl
  <2>2. Len(run[s].done) + 1 \in 1 .. Len(batches[f].urls)
    BY <1>3, <1>4, <1>6
  <2>3. NextUrl(s) \in Urls
    BY <1>6, <2>1, <2>2
  <2> QED
    BY <2>1, <2>3, SlotIs
<1> DEFINE done2 == Append(run[s].done, entry)
           go == [run[s] EXCEPT !.pc = "looping", !.done = done2]
<1>8. /\ done2 \in Seq(SlotRec) /\ PrefixOf(done2, batches[f].urls)
      /\ batches[f].mode = "job" => SlotsFirst(poller[f].seen, done2)
  BY SMTT(30), <1>3, <1>4, <1>5, <1>6, <1>7, SlotAppended
<1> HIDE DEF done2
<1>9. go \in RunRec /\ go.pc = "looping" /\ go.done = done2 /\ go.deadline = run[s].deadline
  BY <1>3, <1>8 DEF RunRec
<1>10. run' = [run EXCEPT ![s] = go]
  BY <1>2 DEF done2
<1> HIDE DEF go
<1>11. run' \in [Sessions -> RunRec] /\ run'[s] = go /\ \A t \in Sessions : t # s => run'[t] = run[t]
  BY <1>3, <1>9, <1>10 DEF BatchTypes
<1>12. /\ jobs' \in Seq(JobRec \cup {NoJob}) /\ Len(jobs') = Len(jobs)
       /\ \A i \in Ids : i # f => jobs'[i] = jobs[i]
       /\ jobs[f] = NoJob => jobs'[f] = NoJob
       /\ jobs[f] # NoJob =>
              /\ jobs'[f] # NoJob /\ jobs'[f].status = jobs[f].status /\ jobs'[f].session = jobs[f].session
              /\ jobs'[f].startedAt = jobs[f].startedAt /\ jobs'[f].finishedAt = jobs[f].finishedAt
              /\ jobs'[f].results = Append(jobs[f].results, entry)
  BY <1>2, <1>3, <1>5, <1>7, AppendedIs
<1>13. BatchTypes'
  BY <1>1, <1>3, <1>11, <1>12 DEF BatchTypes
<1>14. SessionOK(s)'
  <2>1. Front(s)' = f
    BY <1>0, <1>1 DEF Front
  <2>2. \A k \in DOMAIN queue'[s] : queue'[s][k] \in Ids' /\ batches'[queue'[s][k]].session = s
    BY <1>1, <1>3 DEF SessionOK
  <2>3. \A j, k \in DOMAIN queue'[s] : queue'[s][j] = queue'[s][k] => j = k
    BY <1>1, <1>3 DEF SessionOK
  <2>4. /\ queue'[s] # <<>> /\ PrefixOf(run'[s].done, batches'[f].urls)
        /\ batches'[f].mode = "job" => run'[s].deadline = jobs'[f].startedAt + JobDeadline
        /\ run'[s].pc = "looping"
    BY <1>1, <1>4, <1>5, <1>8, <1>9, <1>11, <1>12
  <2> QED
    BY <2>1, <2>2, <2>3, <2>4 DEF SessionOK
<1>15. ASSUME NEW t \in Sessions, t # s PROVE SessionOK(t)'
  <2>1. queue'[t] = queue[t] /\ run'[t] = run[t]
    BY <1>1, <1>11, <1>15
  <2>2. \A i \in Ids : batches[i].session = t => jobs'[i] = jobs[i]
    BY <1>5, <1>12, <1>15
  <2> QED
    BY <1>1, <1>3, <2>1, <2>2, SessionStays
<1>16. ASSUME NEW i \in Ids, i # f PROVE Book(i)'
  BY <1>0, <1>1, <1>4, <1>11, <1>12, <1>16, OthersStay
<1>17. Book(f)'
  <2>1. Queued(f)' = TRUE
    <3>1. Queued(f)
      BY <1>0, <1>4, FrontOf
    <3> QED
      BY <1>1, <3>1 DEF Queued
  <2>2. DoneOf(f)' = done2
    <3>1. queue'[batches'[f].session] = queue[s] /\ run'[batches'[f].session] = go /\ Head(queue[s]) = f
      BY <1>0, <1>1, <1>5, <1>11 DEF Front
    <3> QED
      BY <1>4, <1>9, <3>1 DEF DoneOf, DoneIn
  <2>3. batches[f].mode = "job" => /\ JobGoes(jobs'[f], done2) /\ jobs'[f].session = s
                                   /\ poller[f].told = "none" /\ SlotsFirst(poller[f].seen, done2)
    BY <1>5, <1>8, <1>12 DEF JobGoes, done2
  <2>4. BookOK(batches[f], jobs'[f], inline[f], poller[f], TRUE, done2)
    <3>1. CASE batches[f].mode = "inline"
      <4>1. jobs'[f] = NoJob /\ poller[f] = NewPoller /\ inline[f] = NoAnswer
        BY <1>5, <1>12, <3>1
      <4>2. EndedAs(NoAnswer.status, NoAnswer.results, batches[f].urls)
        BY <1>6 DEF NoAnswer, EndedAs, PrefixOf
      <4> QED
        BY <3>1, <4>1, <4>2 DEF BookOK
    <3>2. CASE batches[f].mode = "job"
      BY <1>5, <2>3, <3>2 DEF BookOK
    <3> QED
      BY <1>5, <3>1, <3>2
  <2> QED
    BY <1>1, <2>1, <2>2, <2>4 DEF Book
<1> QED
  BY <1>3, <1>13, <1>14, <1>15, <1>16, <1>17 DEF BatchesInv

\* finish: the job of the batch gets its outcome and the time; an inline batch has no job.
LEMMA FinishedIs ==
  ASSUME BatchTypes, NEW f \in Ids, NEW status \in {"completed", "partial"}
  PROVE  LET after == Finished(f, status) IN
         /\ after \in Seq(JobRec \cup {NoJob}) /\ Len(after) = Len(jobs)
         /\ \A i \in Ids : i # f => after[i] = jobs[i]
         /\ jobs[f] # NoJob =>
              /\ after[f] # NoJob /\ after[f].status = status /\ after[f].session = jobs[f].session
              /\ after[f].startedAt = jobs[f].startedAt /\ after[f].finishedAt = {now}
              /\ after[f].results = jobs[f].results
<1>1. jobs \in Seq(JobRec \cup {NoJob}) /\ f \in 1 .. Len(jobs) /\ Ids = 1 .. Len(jobs) /\ now \in Nat
  BY DEF BatchTypes, Ids
<1>2. jobs[f] # NoJob => jobs[f] \in JobRec
  BY BatchEntry
<1>3. CASE jobs[f] = NoJob
  BY <1>1, <1>3 DEF Finished
<1>4. CASE jobs[f] # NoJob
  <2> DEFINE j == [jobs[f] EXCEPT !.status = status, !.finishedAt = {now}]
  <2>1. {now} \in SUBSET Nat
    BY <1>1
  <2>2. /\ j \in JobRec /\ j.status = status /\ j.session = jobs[f].session /\ j.startedAt = jobs[f].startedAt
        /\ j.finishedAt = {now} /\ j.results = jobs[f].results
    BY <1>2, <1>4, <2>1 DEF JobRec
  <2>3. Finished(f, status) = [jobs EXCEPT ![f] = j]
    BY <1>4 DEF Finished
  <2> HIDE DEF j
  <2>4. j # NoJob
    BY <2>2 DEF JobRec, NoJob
  <2>5. /\ Finished(f, status) \in Seq(JobRec \cup {NoJob}) /\ Len(Finished(f, status)) = Len(jobs)
        /\ \A i \in Ids : Finished(f, status)[i] = IF i = f THEN j ELSE jobs[i]
    BY <1>1, <2>2, <2>3, ExceptSeq
  <2> QED
    BY <1>4, <2>2, <2>4, <2>5
<1> QED
  BY <1>3, <1>4
\* The loop ends: completed with a slot for every URL, or partial and past the deadline.
LEMMA EndBatchKeeps == ASSUME BatchesInv, NEW s \in Sessions, EndBatch(s) PROVE BatchesInv'
<1>0. PICK f : f = Front(s)
  OBVIOUS
<1> DEFINE status == Outcome(s)
           done == run[s].done
           urls == batches[f].urls
           answer == [status |-> status, results |-> done]
<1>1. /\ run[s].pc = "looping" /\ (~MoreUrls(s) \/ run[s].deadline <= now)
      /\ now' = now /\ batches' = batches /\ poller' = poller
      /\ queue' = [queue EXCEPT ![s] = Tail(queue[s])] /\ run' = [run EXCEPT ![s] = NoRun]
      /\ IF IsInline(f) THEN inline' = [inline EXCEPT ![f] = answer] /\ jobs' = jobs
         ELSE jobs' = Finished(f, status) /\ inline' = inline
  BY <1>0 DEF EndBatch
<1>2. BatchTypes /\ Ids' = Ids /\ SessionOK(s) /\ now \in Nat /\ run[s].done \in Seq(SlotRec)
  BY <1>1, RunEntry DEF BatchesInv, Ids, BatchTypes
<1>3. /\ queue[s] # <<>>
      /\ batches[f].mode = "job" => run[s].deadline = jobs[f].startedAt + JobDeadline
  BY <1>0, <1>1, <1>2 DEF SessionOK
<1>4. /\ f \in Ids /\ batches[f].session = s /\ batches[f].mode \in {"inline", "job"}
      /\ PrefixOf(done, urls)
      /\ batches[f].mode = "inline" => jobs[f] = NoJob /\ poller[f] = NewPoller /\ inline[f] = NoAnswer
      /\ batches[f].mode = "job" =>
           /\ inline[f] = NoAnswer /\ JobGoes(jobs[f], done) /\ jobs[f] # NoJob
           /\ jobs[f].session = s
           /\ poller[f].told = "none" /\ SlotsFirst(poller[f].seen, done)
  BY <1>0, <1>3, FrontBook
<1>5. urls \in Seq(Urls) /\ poller[f].seen \in Seq(SlotRec)
  BY <1>2, <1>4, BatchEntry
<1>6. /\ status \in {"completed", "partial"} /\ EndedAs(status, done, urls)
      /\ status = "partial" => run[s].deadline <= now
  <2>1. Len(done) \in Nat /\ Len(urls) \in Nat /\ Len(done) <= Len(urls)
    BY <1>2, <1>4, <1>5 DEF PrefixOf
  <2>2. MoreUrls(s) <=> Len(done) < Len(urls)
    BY <1>0 DEF MoreUrls
  <2>3. status = IF MoreUrls(s) THEN "partial" ELSE "completed"
    BY DEF Outcome
  <2>4. CASE MoreUrls(s)
    BY <1>1, <1>4, <2>2, <2>3, <2>4 DEF EndedAs
  <2>5. CASE ~MoreUrls(s)
    BY <1>4, <2>1, <2>2, <2>3, <2>5 DEF EndedAs
  <2> QED
    BY <2>4, <2>5
<1> HIDE DEF status
<1>7. /\ inline' \in Seq(AnswerRec) /\ Len(inline') = Len(inline)
      /\ \A i \in Ids : i # f => inline'[i] = inline[i]
      /\ IsInline(f) => inline'[f] = answer
      /\ ~IsInline(f) => inline'[f] = inline[f]
  <2>1. inline \in Seq(AnswerRec) /\ f \in 1 .. Len(inline) /\ Ids = 1 .. Len(inline)
    BY <1>2, <1>4 DEF BatchTypes, Ids
  <2>2. answer \in AnswerRec
    BY <1>2, <1>6 DEF AnswerRec
  <2> HIDE DEF answer
  <2>3. CASE IsInline(f)
    BY <1>1, <2>1, <2>2, <2>3, ExceptSeq
  <2>4. CASE ~IsInline(f)
    BY <1>1, <2>1, <2>4
  <2> QED
    BY <2>3, <2>4
<1>8. /\ jobs' \in Seq(JobRec \cup {NoJob}) /\ Len(jobs') = Len(jobs)
      /\ \A i \in Ids : i # f => jobs'[i] = jobs[i]
      /\ IsInline(f) => jobs'[f] = jobs[f]
      /\ ~IsInline(f) /\ jobs[f] # NoJob =>
            /\ jobs'[f] # NoJob /\ jobs'[f].status = status /\ jobs'[f].session = jobs[f].session
            /\ jobs'[f].startedAt = jobs[f].startedAt /\ jobs'[f].finishedAt = {now}
            /\ jobs'[f].results = jobs[f].results
  <2>1. CASE IsInline(f)
    BY <1>1, <1>2, <2>1 DEF BatchTypes
  <2>2. CASE ~IsInline(f)
    <3>1. jobs' = Finished(f, status)
      BY <1>1, <2>2
    <3> QED
      BY <1>2, <1>4, <1>6, <2>2, <3>1, FinishedIs
  <2> QED
    BY <2>1, <2>2
<1>9. NoRun \in RunRec /\ NoRun.pc = "idle" /\ NoRun.done = <<>>
  BY DEF NoRun, RunRec
<1>10. run' \in [Sessions -> RunRec] /\ run'[s] = NoRun /\ \A t \in Sessions : t # s => run'[t] = run[t]
  BY <1>1, <1>2, <1>9 DEF BatchTypes
<1>11. run' = [run EXCEPT ![s] = run'[s]] /\ run'[s].done = <<>>
  BY <1>1, <1>9, <1>10
<1>12. /\ queue' \in [Sessions -> Seq(Nat)]
       /\ ~Queued(f)'
       /\ \A k \in DOMAIN queue'[s] : queue'[s][k] \in Ids /\ batches[queue'[s][k]].session = s
       /\ \A j, k \in DOMAIN queue'[s] : queue'[s][j] = queue'[s][k] => j = k
  BY <1>0, <1>1, <1>3, <1>4, <1>11, FrontLeaves
<1>13. BatchTypes'
  BY <1>1, <1>2, <1>7, <1>8, <1>10, <1>12 DEF BatchTypes
<1>14. SessionOK(s)'
  BY <1>1, <1>2, <1>9, <1>10, <1>12 DEF SessionOK
<1>15. ASSUME NEW t \in Sessions, t # s PROVE SessionOK(t)'
  <2>1. queue'[t] = queue[t] /\ run'[t] = run[t]
    BY <1>1, <1>2, <1>10, <1>15 DEF BatchTypes
  <2>2. \A i \in Ids : batches[i].session = t => jobs'[i] = jobs[i]
    BY <1>4, <1>8, <1>15
  <2> QED
    BY <1>1, <1>2, <2>1, <2>2, SessionStays
<1>16. ASSUME NEW i \in Ids, i # f PROVE Book(i)'
  <2>0. queue[s] # <<>> /\ batches' = batches /\ f = Front(s) /\ queue' = [queue EXCEPT ![s] = Tail(queue[s])]
    BY <1>0, <1>1, <1>3
  <2>1. i # f => (Queued(i)' <=> Queued(i))
    BY <1>11, <2>0, FrontLeaves
  <2>2. i # f => DoneIn(queue', run', batches'[i].session, i) = DoneIn(queue, run, batches[i].session, i)
    BY <1>11, <1>16, <2>0, FrontLeaves, ZenonT(60)
  <2>3. DoneOf(i)' = DoneOf(i)
    BY <1>16, <2>2 DEF DoneOf
  <2>4. batches'[i] = batches[i] /\ inline'[i] = inline[i] /\ poller'[i] = poller[i] /\ jobs'[i] = jobs[i]
    BY <1>1, <1>7, <1>8, <1>16
  <2> QED
    BY <1>16, <2>1, <2>3, <2>4, BookStays
<1>17. Book(f)'
  <2>1. Queued(f)' = FALSE
    BY <1>12 DEF Queued
  <2>2. batches'[f] = batches[f] /\ poller'[f] = poller[f]
    BY <1>1
  <2>3. CASE batches[f].mode = "inline"
    <3>1. inline'[f] = answer /\ jobs'[f] = NoJob /\ poller[f] = NewPoller
      BY <1>4, <1>7, <1>8, <2>3 DEF IsInline
    <3>2. answer.status = status /\ answer.results = done
      OBVIOUS
    <3> HIDE DEF answer
    <3>3. BookOK(batches[f], NoJob, answer, NewPoller, FALSE, DoneOf(f)')
      BY <1>6, <2>3, <3>2 DEF BookOK
    <3> QED
      BY <2>1, <2>2, <3>1, <3>3 DEF Book
  <2>4. CASE batches[f].mode = "job"
    <3>1. ~IsInline(f)
      BY <2>4 DEF IsInline
    <3>2. /\ jobs'[f] # NoJob /\ jobs'[f].status = status /\ jobs'[f].session = s
          /\ jobs'[f].startedAt = jobs[f].startedAt /\ jobs'[f].finishedAt = {now}
          /\ jobs'[f].results = done /\ inline'[f] = NoAnswer
      BY <1>4, <1>7, <1>8, <2>4, <3>1 DEF JobGoes
    <3>3. status = "partial" => now >= jobs'[f].startedAt + JobDeadline
      <4>1. jobs[f].startedAt \in Nat /\ JobDeadline \in Nat
        BY <1>2, <1>4, <2>4, BatchEntry, BatchAssumption
      <4> QED
        BY <1>2, <1>3, <1>6, <2>4, <3>2, <4>1
    <3>4. JobOver(jobs'[f], urls)
      BY <1>6, <3>2, <3>3 DEF JobOver
    <3>5. PollOK(poller[f], jobs'[f], urls)
      <4>1. PrefixOf(poller[f].seen, urls)
        BY <1>2, <1>4, <1>5, <2>4, FirstSlots
      <4> QED
        BY <1>4, <2>4, <3>2, <4>1 DEF PollOK
    <3>6. BookOK(batches[f], jobs'[f], NoAnswer, poller[f], FALSE, DoneOf(f)')
      BY <1>4, <2>4, <3>2, <3>4, <3>5 DEF BookOK
    <3> QED
      BY <2>1, <2>2, <3>2, <3>6 DEF Book
  <2> QED
    BY <1>4, <2>3, <2>4
<1> QED
  BY <1>2, <1>13, <1>14, <1>15, <1>16, <1>17 DEF BatchesInv

\* A list asked for is queued behind what waits, as a batch of its own with nothing done.
LEMMA ExtractManyKeeps ==
  ASSUME BatchesInv, NEW s \in Batching, NEW named \in Lists, NEW asked \in {"auto", "inline", "job"}, ExtractMany(s, named, asked)
  PROVE  BatchesInv'
<1>0. PICK n, mode, base : n = Len(batches) + 1 /\ mode = Mode(asked, Unique(named))
                           /\ base = IF mode = "job" THEN Prune(jobs) ELSE jobs
  OBVIOUS
<1> DEFINE b == [session |-> s, named |-> named, urls |-> Unique(named), mode |-> mode, expires |-> now + Budget]
           j == IF mode = "job" THEN NewJob(s) ELSE NoJob
<1>1. /\ batches' = Append(batches, b) /\ jobs' = Append(base, j)
      /\ queue' = [queue EXCEPT ![s] = Append(queue[s], n)]
      /\ inline' = Append(inline, NoAnswer) /\ poller' = Append(poller, NewPoller)
      /\ now' = now /\ run' = run
  BY <1>0 DEF ExtractMany, NoAnswer, NewPoller
<1>2. BatchTypes /\ s \in Sessions /\ SessionOK(s) /\ now \in Nat /\ Budget \in Nat /\ Len(batches) \in Nat
  BY BatchAssumption DEF BatchesInv, BatchTypes
<1>3. Ids = 1 .. Len(batches) /\ n = Len(batches) + 1 /\ n \in Nat /\ n \notin Ids /\ n \in 1 .. n
  BY <1>0, <1>2 DEF Ids
<1>4. mode \in {"inline", "job"}
  BY <1>0 DEF Mode
<1>5. Unique(named) \in Seq(Urls)
  BY UniqueOfNamed
<1>6. b \in BatchRec /\ b.session = s /\ b.mode = mode /\ b.urls = Unique(named)
  BY <1>2, <1>4, <1>5 DEF BatchRec
<1>7. /\ j \in JobRec \cup {NoJob}
      /\ mode = "job" => j # NoJob /\ j.session = s /\ j.status = "running" /\ j.finishedAt = {} /\ j.results = <<>>
      /\ mode # "job" => j = NoJob
  <2>1. CASE mode = "job"
    <3>1. j = [status |-> "running", session |-> s, startedAt |-> now, finishedAt |-> {}, results |-> <<>>]
      BY <2>1 DEF NewJob
    <3>2. j \in JobRec
      <4>1. {} \in SUBSET Nat /\ <<>> \in Seq(SlotRec) /\ now \in Nat /\ s \in Sessions
        BY <1>2
      <4>2. [status |-> "running", session |-> s, startedAt |-> now, finishedAt |-> {}, results |-> <<>>] \in JobRec
        BY <4>1 DEF JobRec
      <4> QED
        BY <3>1, <4>2
    <3>3. j # NoJob
      BY <3>1 DEF NoJob
    <3> QED
      BY <2>1, <3>1, <3>2, <3>3
  <2>2. CASE mode # "job"
    BY <2>2
  <2> QED
    BY <2>1, <2>2
<1> HIDE DEF b, j
<1>8. /\ base \in Seq(JobRec \cup {NoJob}) /\ Len(base) = Len(batches)
      /\ \A i \in Ids : base[i] = jobs[i] \/ (base[i] = NoJob /\ ~Queued(i))
  <2>1. jobs \in Seq(JobRec \cup {NoJob}) /\ Len(jobs) = Len(batches)
    BY <1>2 DEF BatchTypes
  <2>2. CASE mode = "job"
    <3>1. base = Prune(jobs)
      BY <1>0, <2>2
    <3> QED
      BY <2>1, <3>1, PruneIs
  <2>3. CASE mode # "job"
    <3>1. base = jobs
      BY <1>0, <2>3
    <3> QED
      BY <2>1, <3>1
  <2> QED
    BY <2>2, <2>3
<1>9. /\ batches' \in Seq(BatchRec) /\ Len(batches') = n /\ batches'[n] = b
      /\ \A i \in Ids : batches'[i] = batches[i]
  <2>1. batches \in Seq(BatchRec)
    BY <1>2 DEF BatchTypes
  <2> QED
    BY <1>1, <1>3, <1>6, <2>1, AppendProperties
<1>10. /\ jobs' \in Seq(JobRec \cup {NoJob}) /\ Len(jobs') = n /\ jobs'[n] = j
       /\ \A i \in Ids : jobs'[i] = base[i]
  BY <1>1, <1>3, <1>7, <1>8, AppendProperties
<1>11. /\ inline' \in Seq(AnswerRec) /\ Len(inline') = n /\ inline'[n] = NoAnswer
       /\ \A i \in Ids : inline'[i] = inline[i]
  <2>1. inline \in Seq(AnswerRec) /\ Len(inline) = Len(batches)
    BY <1>2 DEF BatchTypes
  <2>2. NoAnswer \in AnswerRec
    BY DEF NoAnswer, AnswerRec
  <2> QED
    BY <1>1, <1>3, <2>1, <2>2, AppendProperties
<1>12. /\ poller' \in Seq(PollRec) /\ Len(poller') = n /\ poller'[n] = NewPoller
       /\ \A i \in Ids : poller'[i] = poller[i]
  <2>1. poller \in Seq(PollRec) /\ Len(poller) = Len(batches)
    BY <1>2 DEF BatchTypes
  <2>2. NewPoller \in PollRec
    BY DEF NewPoller, PollRec
  <2> QED
    BY <1>1, <1>3, <2>1, <2>2, AppendProperties
<1>13. Ids' = Ids \cup {n}
  BY <1>2, <1>3, <1>9 DEF Ids
<1>14. queue[s] \in Seq(Nat) /\ queue \in [Sessions -> Seq(Nat)] /\ n \notin Members(queue[s])
  BY <1>2, <1>3, RunEntry DEF BatchTypes, SessionOK, Members
<1>15. /\ Append(queue[s], n) \in Seq(Nat) /\ Members(Append(queue[s], n)) = Members(queue[s]) \cup {n}
       /\ Append(queue[s], n) # <<>> /\ Head(Append(queue[s], n)) = IF queue[s] = <<>> THEN n ELSE Head(queue[s])
       /\ \A m, k \in DOMAIN Append(queue[s], n) : Append(queue[s], n)[m] = Append(queue[s], n)[k] => m = k
  BY <1>2, <1>3, <1>14, QueueGrows DEF SessionOK
<1>16. /\ queue' \in [Sessions -> Seq(Nat)] /\ queue'[s] = Append(queue[s], n)
       /\ \A t \in Sessions : t # s => queue'[t] = queue[t]
  BY <1>1, <1>2, <1>14, <1>15
<1>17. BatchTypes'
  BY <1>1, <1>2, <1>9, <1>10, <1>11, <1>12, <1>16 DEF BatchTypes
<1>18. ASSUME NEW t \in Sessions, t # s PROVE SessionOK(t)'
  <2>1. \A i \in Ids : i \in Ids' /\ batches'[i] = batches[i] /\ (batches[i].session = t /\ Queued(i) => jobs'[i] = jobs[i])
    BY <1>8, <1>9, <1>10, <1>13
  <2>2. queue'[t] = queue[t] /\ run'[t] = run[t]
    BY <1>1, <1>16, <1>18
  <2> QED
    BY <2>1, <2>2, SessionStays
<1>19. SessionOK(s)'
  <2>1. ASSUME NEW k \in DOMAIN queue'[s] PROVE queue'[s][k] \in Ids' /\ batches'[queue'[s][k]].session = s
    <3>1. queue'[s][k] \in Members(queue[s]) \cup {n}
      BY <1>15, <1>16 DEF Members
    <3>2. CASE queue'[s][k] = n
      BY <1>6, <1>9, <1>13, <3>2
    <3>3. CASE queue'[s][k] \in Members(queue[s])
      <4>1. PICK m \in DOMAIN queue[s] : queue[s][m] = queue'[s][k]
        BY <3>3 DEF Members
      <4>2. queue[s][m] \in Ids /\ batches[queue[s][m]].session = s
        BY <1>2 DEF SessionOK
      <4> QED
        BY <1>9, <1>13, <4>1, <4>2
    <3> QED
      BY <3>1, <3>2, <3>3
  <2>2. \A m, k \in DOMAIN queue'[s] : queue'[s][m] = queue'[s][k] => m = k
    BY <1>15, <1>16
  <2>3. run'[s].pc = "idle" => run'[s].done = <<>>
    BY <1>1, <1>2 DEF SessionOK
  <2>4. ASSUME run'[s].pc # "idle"
        PROVE  \E f : /\ f = Head(queue'[s]) /\ queue'[s] # <<>> /\ PrefixOf(run'[s].done, batches'[f].urls)
                      /\ batches'[f].mode = "job" => run'[s].deadline = jobs'[f].startedAt + JobDeadline
                      /\ run'[s].pc = "traversing" => Len(run'[s].done) < Len(batches'[f].urls)
    <3>1. PICK f : f = Front(s)
      OBVIOUS
    <3>2. /\ queue[s] # <<>> /\ PrefixOf(run[s].done, batches[f].urls)
          /\ batches[f].mode = "job" => run[s].deadline = jobs[f].startedAt + JobDeadline
          /\ run[s].pc = "traversing" => Len(run[s].done) < Len(batches[f].urls)
      BY <1>1, <1>2, <2>4, <3>1 DEF SessionOK
    <3>3. f \in Ids /\ Queued(f)
      BY <1>2, <3>1, <3>2, FrontOf
    <3>4. batches'[f] = batches[f] /\ jobs'[f] = jobs[f]
      BY <1>8, <1>9, <1>10, <3>3
    <3>5. f = Head(queue'[s]) /\ queue'[s] # <<>>
      BY <1>15, <1>16, <3>1, <3>2 DEF Front
    <3> QED
      BY <1>1, <3>2, <3>4, <3>5
  <2> QED
    BY <2>1, <2>2, <2>3, <2>4 DEF SessionOK, Front
<1>20. ASSUME NEW i \in Ids PROVE Book(i)'
  <2>1. batches'[i] = batches[i] /\ i # n /\ batches[i].session \in Sessions
    BY <1>2, <1>3, <1>9, BatchEntry
  <2>2. Queued(i)' <=> Queued(i)
    <3>1. CASE batches[i].session = s
      BY <1>15, <1>16, <2>1, <3>1 DEF Queued
    <3>2. CASE batches[i].session # s
      BY <1>16, <2>1, <3>2 DEF Queued
    <3> QED
      BY <3>1, <3>2
  <2>3. DoneOf(i)' = DoneOf(i)
    <3>1. CASE batches[i].session = s
      BY <1>1, <1>15, <1>16, <2>1, <3>1 DEF DoneOf, DoneIn
    <3>2. CASE batches[i].session # s
      BY <1>1, <1>16, <2>1, <3>2 DEF DoneOf, DoneIn
    <3> QED
      BY <3>1, <3>2
  <2>4. jobs'[i] = jobs[i] \/ (jobs'[i] = NoJob /\ ~Queued(i))
    BY <1>8, <1>10
  <2>5. inline'[i] = inline[i] /\ poller'[i] = poller[i]
    BY <1>11, <1>12
  <2> QED
    BY <2>1, <2>2, <2>3, <2>4, <2>5, BookStays
<1>21. Book(n)'
  <2>1. Queued(n)' = TRUE
    BY <1>6, <1>9, <1>15, <1>16 DEF Queued
  <2>2. DoneOf(n)' = <<>>
    <3>1. batches'[n].session = s
      BY <1>6, <1>9
    <3>2. CASE queue[s] = <<>>
      <4>1. run[s].done = <<>>
        BY <1>2, <3>2 DEF SessionOK
      <4> QED
        BY <1>1, <3>1, <4>1 DEF DoneOf, DoneIn
    <3>3. CASE queue[s] # <<>>
      <4>1. Head(queue'[s]) # n
        <5>1. Head(queue[s]) \in Ids
          BY <1>2, <3>3, FrontOf DEF Front
        <5> QED
          BY <1>3, <1>15, <1>16, <3>3, <5>1
      <4> QED
        BY <3>1, <4>1 DEF DoneOf, DoneIn
    <3> QED
      BY <3>2, <3>3
  <2>3. b.urls \in Seq(Urls) /\ PrefixOf(<<>>, b.urls)
    BY <1>5, <1>6 DEF PrefixOf
  <2>4. BookOK(b, j, NoAnswer, NewPoller, TRUE, <<>>)
    <3>1. NoAnswer.status = "none" /\ NoAnswer.results = <<>> /\ NewPoller.told = "none" /\ NewPoller.seen = <<>>
      BY DEF NoAnswer, NewPoller
    <3>2. CASE mode = "inline"
      <4>1. EndedAs(NoAnswer.status, NoAnswer.results, b.urls)
        BY <2>3, <3>1 DEF EndedAs
      <4> QED
        BY <1>6, <1>7, <3>2, <4>1 DEF BookOK
    <3>3. CASE mode = "job"
      <4>1. JobGoes(j, <<>>)
        BY <1>7, <3>3 DEF JobGoes
      <4>2. SlotsFirst(<<>>, <<>>)
        BY DEF SlotsFirst
      <4> QED
        BY <1>6, <1>7, <3>1, <3>3, <4>1, <4>2 DEF BookOK
    <3> QED
      BY <1>4, <3>2, <3>3
  <2> QED
    BY <1>9, <1>10, <1>11, <1>12, <2>1, <2>2, <2>4 DEF Book
<1> QED
  BY <1>13, <1>17, <1>18, <1>19, <1>20, <1>21 DEF BatchesInv
\* Slots of the first URLs of a batch, with an outcome that fits, are what Whole asks for.
LEMMA WholeWhen ==
  ASSUME BatchTypes, NEW i \in Ids, NEW slots \in Seq(SlotRec), NEW status, EndedAs(status, slots, batches[i].urls)
  PROVE  Whole(i, status, slots)
<1> DEFINE urls == batches[i].urls
           named == batches[i].named
<1>1. urls \in Seq(Urls) /\ urls = Unique(named) /\ named \in Lists
  BY BatchEntry
<1>2. /\ PrefixOf(slots, urls)
      /\ status = "completed" => Len(slots) = Len(urls)
      /\ status = "partial" => Len(slots) < Len(urls)
  BY DEF EndedAs
<1>3. /\ \A p, q \in 1 .. Len(urls) : urls[p] = urls[q] => p = q
      /\ {urls[p] : p \in 1 .. Len(urls)} = {named[k] : k \in DOMAIN named}
  BY <1>1, UniqueOfNamed
<1> HIDE DEF urls, named
<1>4. /\ DOMAIN slots = 1 .. Len(slots) /\ Len(slots) \in Nat /\ Len(urls) \in Nat /\ Len(slots) <= Len(urls)
      /\ \A k \in 1 .. Len(slots) : slots[k] \in SlotRec /\ slots[k].url = urls[k]
  BY <1>1, <1>2 DEF PrefixOf
<1>5. IsPrefix(UrlsOf(slots), urls)
  BY <1>1, <1>2, FirstUrls
<1>6. ASSUME NEW j \in DOMAIN slots, NEW k \in DOMAIN slots, slots[j].url = slots[k].url PROVE j = k
  <2>1. j \in 1 .. Len(urls) /\ k \in 1 .. Len(urls) /\ urls[j] = urls[k]
    BY <1>4, <1>6
  <2> QED
    BY <1>3, <2>1
<1>7. \A k \in DOMAIN slots : slots[k].walled => slots[k].fault = "CHALLENGE_PAGE"
  BY <1>4 DEF SlotRec
<1>8. ASSUME status = "completed"
      PROVE  {slots[k].url : k \in DOMAIN slots} = {named[k] : k \in DOMAIN named}
  <2>1. DOMAIN slots = 1 .. Len(urls)
    BY <1>2, <1>4, <1>8
  <2>2. {slots[k].url : k \in DOMAIN slots} = {urls[p] : p \in 1 .. Len(urls)}
    BY <1>4, <2>1
  <2> QED
    BY <1>3, <2>2
<1>9. \A j, k \in DOMAIN slots : slots[j].url = slots[k].url => j = k
  BY <1>6
<1> QED
  BY <1>2, <1>5, <1>7, <1>8, <1>9 DEF Whole, urls, named

\* What the books say of the store while a batch waits or runs, and after.
LEMMA BooksOf ==
  ASSUME BatchesInv, NEW i \in Ids
  PROVE  /\ batches[i].mode = "inline" => jobs[i] = NoJob /\ EndedAs(inline[i].status, inline[i].results, batches[i].urls)
         /\ batches[i].mode = "job" =>
              /\ inline[i] = NoAnswer
              /\ Queued(i) => /\ JobGoes(jobs[i], DoneOf(i)) /\ poller[i].told = "none" /\ SlotsFirst(poller[i].seen, DoneOf(i))
              /\ ~Queued(i) => JobOver(jobs[i], batches[i].urls) /\ PollOK(poller[i], jobs[i], batches[i].urls)
  BY DEF BatchesInv, Book, BookOK

LEMMA BatchesAreWhole == ASSUME BatchesInv PROVE BatchesEndWhole
<1>1. BatchTypes
  BY DEF BatchesInv
<1>2. ASSUME NEW i \in Ids PROVE Whole(i, inline[i].status, inline[i].results)
  <2>1. batches[i].mode \in {"inline", "job"} /\ inline[i].results \in Seq(SlotRec) /\ Len(batches[i].urls) \in Nat
    BY <1>1, BatchEntry
  <2>2. EndedAs(inline[i].status, inline[i].results, batches[i].urls)
    <3>1. CASE batches[i].mode = "inline"
      BY <3>1, BooksOf
    <3>2. CASE batches[i].mode = "job"
      <4>1. inline[i] = NoAnswer
        BY <3>2, BooksOf
      <4> QED
        BY <2>1, <4>1 DEF NoAnswer, EndedAs, PrefixOf
    <3> QED
      BY <2>1, <3>1, <3>2
  <2> QED
    BY <1>1, <2>1, <2>2, WholeWhen
<1>3. ASSUME NEW i \in Ids, jobs[i] # NoJob
      PROVE  /\ Whole(i, jobs[i].status, jobs[i].results)
             /\ (jobs[i].status = "running") = (jobs[i].finishedAt = {})
             /\ jobs[i].status = "partial" => \A t \in jobs[i].finishedAt : t >= jobs[i].startedAt + JobDeadline
  <2>1. batches[i].mode \in {"inline", "job"} /\ jobs[i].results \in Seq(SlotRec)
    BY <1>1, <1>3, BatchEntry
  <2>2. batches[i].mode = "job"
    BY <1>3, <2>1, BooksOf
  <2>3. CASE Queued(i)
    <3>1. jobs[i].status = "running" /\ jobs[i].finishedAt = {} /\ jobs[i].results = DoneOf(i)
      BY <2>2, <2>3, BooksOf DEF JobGoes
    <3>2. EndedAs(jobs[i].status, jobs[i].results, batches[i].urls)
      BY <3>1, DoneIsPrefix DEF EndedAs
    <3>3. Whole(i, jobs[i].status, jobs[i].results)
      BY <1>1, <2>1, <3>2, WholeWhen
    <3> QED
      BY <3>1, <3>3
  <2>4. CASE ~Queued(i)
    <3>1. JobOver(jobs[i], batches[i].urls)
      BY <2>2, <2>4, BooksOf
    <3>2. jobs[i].status \in {"completed", "partial"} /\ EndedAs(jobs[i].status, jobs[i].results, batches[i].urls)
      BY <1>3, <3>1 DEF JobOver
    <3>3. PICK t \in jobs[i].finishedAt :
            jobs[i].finishedAt = {t} /\ (jobs[i].status = "partial" => t >= jobs[i].startedAt + JobDeadline)
      BY <1>3, <3>1 DEF JobOver
    <3>4. Whole(i, jobs[i].status, jobs[i].results)
      BY <1>1, <2>1, <3>2, WholeWhen
    <3>5. jobs[i].status # "running" /\ jobs[i].finishedAt # {}
      BY <3>2, <3>3
    <3> QED
      BY <3>3, <3>4, <3>5
  <2> QED
    BY <2>3, <2>4
<1> QED
  BY <1>2, <1>3 DEF BatchesEndWhole

LEMMA PollerHasThemAll == ASSUME BatchesInv PROVE PollerMissesNothing
<1> SUFFICES ASSUME NEW i \in Jobs
             PROVE  /\ IsPrefix(UrlsOf(poller[i].seen), batches[i].urls)
                    /\ jobs[i] # NoJob => IsPrefix(poller[i].seen, jobs[i].results)
                    /\ jobs[i] # NoJob /\ poller[i].told \in {"completed", "partial"} =>
                         poller[i].seen = jobs[i].results /\ poller[i].told = jobs[i].status
                    /\ poller[i].told = "completed" => Len(poller[i].seen) = Len(batches[i].urls)
                    /\ poller[i].told = "ARTIFACT_EXPIRED" =>
                         \A k \in DOMAIN queue[batches[i].session] : queue[batches[i].session][k] # i
  BY DEF PollerMissesNothing
<1> DEFINE seen == poller[i].seen
           urls == batches[i].urls
<1>1. BatchTypes /\ i \in Ids /\ batches[i].mode = "job"
  BY DEF BatchesInv, Jobs
<1>2. seen \in Seq(SlotRec) /\ urls \in Seq(Urls) /\ (jobs[i] # NoJob => jobs[i].results \in Seq(SlotRec))
  BY <1>1, BatchEntry
<1>3. CASE Queued(i)
  <2>1. JobGoes(jobs[i], DoneOf(i)) /\ poller[i].told = "none" /\ SlotsFirst(seen, DoneOf(i))
    BY <1>1, <1>3, BooksOf
  <2>2. jobs[i] # NoJob /\ jobs[i].results = DoneOf(i)
    BY <2>1 DEF JobGoes
  <2>3. DoneOf(i) \in Seq(SlotRec) /\ PrefixOf(DoneOf(i), urls)
    BY <1>1, DoneIsPrefix
  <2>4. PrefixOf(seen, urls) /\ IsPrefix(seen, DoneOf(i))
    BY <1>2, <2>1, <2>3, FirstSlots
  <2>5. IsPrefix(UrlsOf(seen), urls)
    BY <1>2, <2>4, FirstUrls
  <2> QED
    BY <2>1, <2>2, <2>4, <2>5
<1>4. CASE ~Queued(i)
  <2>1. PollOK(poller[i], jobs[i], urls)
    BY <1>1, <1>4, BooksOf
  <2>2. /\ PrefixOf(seen, urls)
        /\ poller[i].told = "completed" => Len(seen) = Len(urls)
        /\ jobs[i] # NoJob => SlotsFirst(seen, jobs[i].results)
        /\ jobs[i] # NoJob /\ poller[i].told \in {"completed", "partial"} =>
             seen = jobs[i].results /\ poller[i].told = jobs[i].status
    BY <2>1 DEF PollOK
  <2>3. IsPrefix(UrlsOf(seen), urls)
    BY <1>2, <2>2, FirstUrls
  <2>4. jobs[i] # NoJob => IsPrefix(seen, jobs[i].results)
    BY <1>2, <2>2, FirstSlots
  <2>5. \A k \in DOMAIN queue[batches[i].session] : queue[batches[i].session][k] # i
    BY <1>4 DEF Queued, Members
  <2> QED
    BY <2>2, <2>3, <2>4, <2>5
<1> QED
  BY <1>3, <1>4

LEMMA BatchesStart == BatchesInit => BatchesInv
<1> SUFFICES ASSUME BatchesInit PROVE BatchesInv
  OBVIOUS
<1>1. /\ now = 0 /\ queue = [s \in Sessions |-> <<>>] /\ run = [s \in Sessions |-> NoRun]
      /\ jobs = <<>> /\ batches = <<>> /\ inline = <<>> /\ poller = <<>>
  BY DEF BatchesInit
<1>2. NoRun \in RunRec /\ NoRun.pc = "idle" /\ NoRun.done = <<>>
  BY DEF NoRun, RunRec
<1>3. BatchTypes
  BY <1>1, <1>2 DEF BatchTypes
<1>4. \A s \in Sessions : SessionOK(s)
  BY <1>1, <1>2 DEF SessionOK
<1>5. Ids = {}
  BY <1>1 DEF Ids
<1> QED
  BY <1>3, <1>4, <1>5 DEF BatchesInv

LEMMA BatchesStep == BatchesInv /\ [BatchesNext]_batchVars => BatchesInv'
<1> SUFFICES ASSUME BatchesInv, [BatchesNext]_batchVars PROVE BatchesInv'
  OBVIOUS
<1>1. Batching \subseteq Sessions
  BY BatchAssumption
<1>2. ASSUME NEW s \in Batching, NEW named \in Lists, NEW asked \in {"auto", "inline", "job"}, ExtractMany(s, named, asked)
      PROVE  BatchesInv'
  BY <1>2, ExtractManyKeeps
<1>3. ASSUME NEW s \in Batching, AgentStep(s) PROVE BatchesInv'
  BY <1>1, <1>3, StartBatchKeeps, StartItemKeeps, EndItemKeeps, EndBatchKeeps DEF AgentStep
<1>4. ASSUME NEW s \in Batching, SessionDies(s) PROVE BatchesInv'
  BY <1>4, DeathKeeps
<1>5. ASSUME NEW i \in Ids, NEW s \in Sessions, Poll(i, s) PROVE BatchesInv'
  BY <1>5, PollKeeps
<1>6. CASE SnapshotJobs
  BY <1>6, SnapshotKeeps
<1>7. CASE Tick
  BY <1>7, TickKeeps
<1>8. CASE UNCHANGED batchVars
  BY <1>8, StutterKeeps
<1> QED
  BY <1>2, <1>3, <1>4, <1>5, <1>6, <1>7, <1>8 DEF BatchesNext

\* Whatever the sessions, the URLs named, the pages met, the bounds on batches and time, and
\* the order in which batches run, polls come, jobs age out and browsers die: every batch
\* ends whole (executeExtractMany, runBatch, traverseOne, BatchJobStore).
THEOREM BatchesEndWholeHolds == BatchesSpec => []BatchesEndWhole
<1>1. BatchesInv => BatchesEndWhole
  BY BatchesAreWhole
<1> QED
  BY <1>1, BatchesStart, BatchesStep, PTL DEF BatchesSpec

\* And a poller that follows a job has every slot once, in order, and is never told that
\* a job has expired which waits or runs (jobProgress, prune, get).
THEOREM PollerMissesNothingHolds == BatchesSpec => []PollerMissesNothing
<1>1. BatchesInv => PollerMissesNothing
  BY PollerHasThemAll
<1> QED
  BY <1>1, BatchesStart, BatchesStep, PTL DEF BatchesSpec
=============================================================================
