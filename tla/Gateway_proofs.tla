--------------------------- MODULE Gateway_proofs ---------------------------
(***************************************************************************)
(* Proofs about what the gateway keeps and lets in: SessionRows, ToolCall, *)
(* ArtifactFlow, RunCheckpoints and Admission, each for any values of its  *)
(* constants.                                                              *)
(***************************************************************************)
EXTENDS SessionRows, ArtifactFlow, RunCheckpoints, Admission, ToolCall,
        FiniteSetTheorems, TLAPS

-----------------------------------------------------------------------------
(* Session rows *)

Reports == [kind : {"report", "close"}, device : Devices, left : SUBSET Handles, marked : BOOLEAN]
Openings == [handle : Handles, device : Devices, pc : {"result", "upsert"}]
RowRecords == [device : Devices, status : {"ready", "closed"}]

RowsTypes ==
  /\ agent \in [Devices -> SUBSET Handles]
  /\ made \in [DOMAIN made -> Devices] /\ DOMAIN made \subseteq Handles
  /\ owner \in [DOMAIN owner -> Devices]
  /\ row \in [DOMAIN row -> RowRecords]
  /\ opening \subseteq Openings
  /\ task \subseteq Reports

\* Every mention of a handle, in the two processes and in the table, is of a
\* handle that was made, with the device that made it.
MadeBy(h, d) == h \in DOMAIN made /\ made[h] = d
Mentions ==
  /\ \A d \in Devices : \A h \in agent[d] : MadeBy(h, d)
  /\ \A h \in DOMAIN owner : MadeBy(h, owner[h])
  /\ \A h \in DOMAIN row : MadeBy(h, row[h].device)
  /\ \A o \in opening : MadeBy(o.handle, o.device)
  /\ \A t \in task : \A h \in t.left : MadeBy(h, t.device)

\* The row is written before the answer and never deleted.
RowsInv == RowsTypes /\ Mentions /\ answered \subseteq DOMAIN row

LEMMA MarkedRows ==
  ASSUME RowsTypes, NEW d \in Devices
  PROVE  /\ MarkClosedForDevice(d) \in [DOMAIN MarkClosedForDevice(d) -> RowRecords]
         /\ DOMAIN MarkClosedForDevice(d) = DOMAIN row
         /\ \A h \in DOMAIN row : MarkClosedForDevice(d)[h].device = row[h].device
<1>1. \A h \in DOMAIN row : row[h] \in RowRecords
  BY DEF RowsTypes
<1>2. \A h \in DOMAIN row :
        /\ [row[h] EXCEPT !.status = "closed"] \in RowRecords
        /\ [row[h] EXCEPT !.status = "closed"].device = row[h].device
  BY <1>1 DEF RowRecords
<1> QED
  BY <1>1, <1>2 DEF MarkClosedForDevice

LEMMA InitRowsInv == RowsInit => RowsInv
BY DEF RowsInit, RowsInv, RowsTypes, Mentions

\* What was made stays made, so that a mention stays right.
LEMMA RowsStepKeeps ==
  ASSUME RowsInv, RowsNext
  PROVE  RowsInv'
<1> USE DEF RowsInv
<1>1. ASSUME NEW d \in Devices, Connect(d) PROVE RowsInv'
  <2> DEFINE t == [kind |-> "report", device |-> d, left |-> agent[d], marked |-> FALSE]
  <2>1. t \in Reports /\ t.left = agent[d] /\ t.device = d
    BY <1>1 DEF RowsTypes, Reports
  <2>2. RowsTypes'
    BY <1>1, <2>1 DEF Connect, RowsTypes
  <2> QED
    BY <1>1, <2>1, <2>2 DEF Connect, Mentions, MadeBy
<1>2. ASSUME NEW d \in Devices, NEW h \in Handles, Opens(d, h) PROVE RowsInv'
  <2> DEFINE o == [handle |-> h, device |-> d, pc |-> "result"]
  <2>1. o \in Openings /\ o.handle = h /\ o.device = d
    BY DEF Openings
  <2>2. /\ made' \in [DOMAIN made' -> Devices] /\ DOMAIN made' = DOMAIN made \cup {h}
        /\ made'[h] = d /\ \A x \in DOMAIN made : made'[x] = made[x]
    <3>1. made \in [DOMAIN made -> Devices] /\ made' = Put(made, h, d) /\ h \notin DOMAIN made
      BY <1>2 DEF Opens, RowsTypes
    <3> QED
      BY <3>1 DEF Put
  <2>3. /\ agent' \in [Devices -> SUBSET Handles]
        /\ \A e \in Devices : agent'[e] = IF e = d THEN agent[d] \cup {h} ELSE agent[e]
    BY <1>2 DEF Opens, RowsTypes
  <2>4. RowsTypes'
    BY <1>2, <2>1, <2>2, <2>3 DEF Opens, RowsTypes
  <2>5. \A x, e : MadeBy(x, e) => MadeBy(x, e)'
    BY <2>2 DEF MadeBy
  <2>6. MadeBy(h, d)'
    BY <2>2 DEF MadeBy
  <2>7. UNCHANGED <<owner, row, task, answered>> /\ opening' = opening \cup {o}
    BY <1>2 DEF Opens
  <2>8. Mentions'
    BY <2>1, <2>3, <2>5, <2>6, <2>7 DEF Mentions
  <2> QED
    BY <2>4, <2>7, <2>8
<1>3. ASSUME NEW d \in Devices, BrowserCloses(d) PROVE RowsInv'
  BY <1>3 DEF BrowserCloses, RowsTypes, Mentions, MadeBy
<1>4. ASSUME NEW d \in Devices, Drop(d) PROVE RowsInv'
  <2> DEFINE t == [kind |-> "close", device |-> d, left |-> {}, marked |-> FALSE]
  <2>1. t \in Reports /\ t.left = {}
    BY DEF Reports
  <2>2. opening' \subseteq opening /\ task' = task \cup {t}
    BY <1>4 DEF Drop
  <2>3. UNCHANGED <<agent, owner, row, made, answered>>
    BY <1>4 DEF Drop
  <2> HIDE DEF t
  <2>4. RowsTypes'
    BY <2>1, <2>2, <2>3 DEF RowsTypes
  <2> QED
    BY <2>1, <2>2, <2>3, <2>4 DEF Mentions, MadeBy
<1>5. ASSUME NEW d \in Devices, Supersede(d) PROVE RowsInv'
  <2> DEFINE t == [kind |-> "report", device |-> d, left |-> agent[d], marked |-> FALSE]
  <2>1. t \in Reports /\ t.left = agent[d] /\ t.device = d
    BY <1>5 DEF RowsTypes, Reports
  <2>2. opening' \subseteq opening /\ task' = task \cup {t}
    BY <1>5 DEF Supersede
  <2>3. UNCHANGED <<agent, owner, row, made, answered>>
    BY <1>5 DEF Supersede
  <2> HIDE DEF t
  <2>4. RowsTypes'
    BY <2>1, <2>2, <2>3 DEF RowsTypes
  <2> QED
    BY <2>1, <2>2, <2>3, <2>4 DEF Mentions, MadeBy
<1>6. ASSUME NEW o \in opening, Remember(o) PROVE RowsInv'
  <2> DEFINE p == [o EXCEPT !.pc = "upsert"]
  <2>1. o \in Openings /\ MadeBy(o.handle, o.device)
    BY DEF RowsTypes, Mentions
  <2>2. p \in Openings /\ p.handle = o.handle /\ p.device = o.device
    BY <2>1 DEF Openings
  <2>3. /\ owner' \in [DOMAIN owner' -> Devices] /\ DOMAIN owner' = DOMAIN owner \cup {o.handle}
        /\ owner'[o.handle] = o.device
        /\ \A x \in DOMAIN owner : x # o.handle => owner'[x] = owner[x]
    <3>1. /\ owner \in [DOMAIN owner -> Devices] /\ owner' = Put(owner, o.handle, o.device)
          /\ o.device \in Devices
      BY <1>6, <2>1 DEF Remember, RowsTypes, Openings
    <3> QED
      BY <3>1 DEF Put
  <2>4. UNCHANGED <<agent, row, task, made, answered>> /\ opening' = (opening \ {o}) \cup {p}
    BY <1>6 DEF Remember
  <2> HIDE DEF p
  <2>5. RowsTypes'
    BY <2>2, <2>3, <2>4 DEF RowsTypes
  <2> QED
    BY <2>1, <2>2, <2>3, <2>4, <2>5 DEF Mentions, MadeBy
<1>7. ASSUME NEW o \in opening, Persist(o) PROVE RowsInv'
  <2> DEFINE r == [device |-> o.device, status |-> "ready"]
  <2>1. o \in Openings /\ MadeBy(o.handle, o.device)
    BY DEF RowsTypes, Mentions
  <2>2. r \in RowRecords /\ r.device = o.device
    BY <2>1 DEF Openings, RowRecords
  <2>3. row' = Put(row, o.handle, r)
    BY <1>7 DEF Persist
  <2> HIDE DEF r
  <2>4. /\ row' \in [DOMAIN row' -> RowRecords] /\ DOMAIN row' = DOMAIN row \cup {o.handle}
        /\ row'[o.handle] = r /\ \A x \in DOMAIN row : x # o.handle => row'[x] = row[x]
    <3>1. row \in [DOMAIN row -> RowRecords]
      BY DEF RowsTypes
    <3> QED
      BY <2>2, <2>3, <3>1 DEF Put
  <2>5. /\ UNCHANGED <<agent, owner, task, made>> /\ opening' \subseteq opening
        /\ answered' = answered \cup {o.handle}
    BY <1>7 DEF Persist
  <2>6. RowsTypes'
    BY <2>4, <2>5 DEF RowsTypes
  <2> QED
    BY <2>1, <2>2, <2>4, <2>5, <2>6 DEF Mentions, MadeBy
<1>8. ASSUME NEW o \in opening, PersistFails(o) PROVE RowsInv'
  BY <1>8 DEF PersistFails, RowsTypes, Mentions, MadeBy
<1>9. ASSUME NEW t \in task, ReportMarks(t) \/ CloseMarks(t) PROVE RowsInv'
  <2> DEFINE u == [t EXCEPT !.marked = TRUE]
  <2>1. t \in Reports /\ u \in Reports /\ u.left = t.left /\ u.device = t.device
    BY DEF RowsTypes, Reports
  <2>2. /\ row' = MarkClosedForDevice(t.device) /\ task' \subseteq task \cup {u}
        /\ UNCHANGED <<agent, owner, opening, made, answered>>
    BY <1>9 DEF ReportMarks, CloseMarks
  <2> HIDE DEF u
  <2>3. t.device \in Devices
    BY <2>1 DEF Reports
  <2>4. /\ row' \in [DOMAIN row' -> RowRecords] /\ DOMAIN row' = DOMAIN row
        /\ \A h \in DOMAIN row : row'[h].device = row[h].device
    BY <2>2, <2>3, MarkedRows
  <2>5. RowsTypes'
    BY <2>1, <2>2, <2>4 DEF RowsTypes
  <2> QED
    BY <2>1, <2>2, <2>4, <2>5 DEF Mentions, MadeBy
<1>10. ASSUME NEW t \in task, NEW h \in t.left, ReportOpens(t, h) PROVE RowsInv'
  <2> DEFINE u == [t EXCEPT !.left = @ \ {h}]
             r == [device |-> t.device, status |-> "ready"]
  <2>1. t \in Reports /\ MadeBy(h, t.device)
    BY DEF RowsTypes, Mentions
  <2>2. u \in Reports /\ u.left \subseteq t.left /\ u.device = t.device
    BY <2>1 DEF Reports
  <2>3. t.device \in Devices /\ r \in RowRecords /\ r.device = t.device
    BY <2>1 DEF Reports, RowRecords
  <2>4. /\ row' = Put(row, h, r) /\ owner' = Put(owner, h, t.device)
        /\ task' = (task \ {t}) \cup {u}
        /\ UNCHANGED <<agent, opening, made, answered>>
    BY <1>10 DEF ReportOpens
  <2> HIDE DEF u, r
  <2>5. /\ row' \in [DOMAIN row' -> RowRecords] /\ DOMAIN row' = DOMAIN row \cup {h}
        /\ row'[h] = r /\ \A x \in DOMAIN row : x # h => row'[x] = row[x]
    <3>1. row \in [DOMAIN row -> RowRecords]
      BY DEF RowsTypes
    <3> QED
      BY <2>3, <2>4, <3>1 DEF Put
  <2>6. /\ owner' \in [DOMAIN owner' -> Devices] /\ DOMAIN owner' = DOMAIN owner \cup {h}
        /\ owner'[h] = t.device /\ \A x \in DOMAIN owner : x # h => owner'[x] = owner[x]
    <3>1. owner \in [DOMAIN owner -> Devices]
      BY DEF RowsTypes
    <3> QED
      BY <2>3, <2>4, <3>1 DEF Put
  <2>7. RowsTypes'
    BY <2>2, <2>4, <2>5, <2>6 DEF RowsTypes
  <2> QED
    BY <2>1, <2>2, <2>3, <2>4, <2>5, <2>6, <2>7 DEF Mentions, MadeBy
<1>11. ASSUME NEW t \in task, ReportEnds(t) PROVE RowsInv'
  BY <1>11 DEF ReportEnds, RowsTypes, Mentions, MadeBy
<1>12. CASE GatewayCrash
  BY <1>12 DEF GatewayCrash, RowsTypes, Mentions, MadeBy
<1> QED
  BY <1>1, <1>2, <1>3, <1>4, <1>5, <1>6, <1>7, <1>8, <1>9, <1>10, <1>11, <1>12, RowsNext DEF RowsNext

\* HandleKeepsItsDevice: a handle that was answered leads to the device that
\* made it, through drops, reports and crashes: the broker remembers the owner
\* and persists the row before it answers (broker.ts:200), and no row goes.
THEOREM HandleKeepsItsDeviceHolds == RowsSpec => []HandleKeepsItsDevice
<1>1. RowsInv /\ UNCHANGED rowsVars => RowsInv'
  BY DEF RowsInv, RowsTypes, Mentions, MadeBy, rowsVars
<1>2. RowsInv => HandleKeepsItsDevice
  BY DEF RowsInv, RowsTypes, Mentions, MadeBy, HandleKeepsItsDevice, SessionOwner
<1> QED
  BY <1>1, <1>2, InitRowsInv, RowsStepKeeps, PTL DEF RowsSpec
-----------------------------------------------------------------------------
(* A tool call *)

\* How far a request has come, and what is then known of it.
Before == {"idle", "refused", "tool", "resolve"}
WithDevice == {"audit command", "audit failure", "persist", "artifacts", "audit ok", "answer"}
Steps == Before \cup WithDevice \cup {"over"}

Tools == BridgeTools \cup GatewayTools
AuditRecords == [class : {"command", "call"}, outcome : {"ok", "error", "denied"}]
CallRecords ==
  [at : Steps, tool : Tools \cup {"none"}, scopes : SUBSET Scopes,
   dashboard : DOMAIN WriteScope, artifacts : Nat]
CallTypes ==
  /\ req \in CallRecords
  /\ audit \in Seq(AuditRecords)

\* The row of the command, or its loss; and that no final row is there yet.
CommandTold == "command" \in lost \/ CommandRow \in Rows
NoFinalRow == \A r \in Rows : r.class = "command"

Stage ==
  /\ req.at \in Before =>
       /\ dispatched = "none" /\ Rows = {} /\ reply = "none"
       /\ req.at = "resolve" => req.tool \in BridgeTools /\ ScopeSatisfies(req.scopes, ToolScope(req.tool))
  /\ req.at \in WithDevice =>
       /\ req.tool \in BridgeTools /\ ScopeSatisfies(req.scopes, ToolScope(req.tool))
       /\ dispatched \in AgentOutcomes /\ reply = "none"
       /\ req.at = "audit command" => Rows = {}
       /\ req.at # "audit command" => CommandTold
       /\ req.at = "audit failure" => dispatched # "ok"
       /\ req.at \in {"persist", "artifacts", "audit ok", "answer"} => dispatched = "ok"
       /\ req.at \in {"audit failure", "persist", "artifacts", "audit ok"} => NoFinalRow
       /\ req.at = "answer" => "call" \in lost \/ FinalRow("ok") \in Rows

CallInv == CallTypes /\ Stage /\ CallsAreAccountedFor

\* A string that names a tool is of one kind of tool.
LEMMA ToolKinds ==
  /\ BridgeTools \cap GatewayTools = {}
  /\ \A t \in BridgeTools, scopes \in SUBSET Scopes : ScopeSatisfies(scopes, ToolScope(t)) =>
       /\ scopes \cap {"browser:read", "browser:interact"} # {}
       /\ t \in InteractTools => "browser:interact" \in scopes
<1>1. BridgeTools \cap GatewayTools = {}
  BY DEF BridgeTools, GatewayTools, ReadTools, InteractTools, SourceTools, DashboardReads, RunTools
<1>2. ReadTools \cap InteractTools = {}
  BY DEF ReadTools, InteractTools
<1> QED
  BY <1>1, <1>2 DEF ScopeSatisfies, ToolScope

\* What Records does to the rows.
LEMMA RowIsRecorded ==
  ASSUME CallTypes, NEW row1 \in AuditRecords, Records(row1)
  PROVE  /\ audit' \in Seq(AuditRecords)
         /\ lost \subseteq lost' /\ Rows \subseteq Rows' /\ Rows' \subseteq Rows \cup {row1}
         /\ row1.class \in lost' \/ row1 \in Rows'
<1>1. CASE audit' = Append(audit, row1) /\ lost' = lost
  <2>1. audit \in Seq(AuditRecords)
    BY DEF CallTypes
  <2>2. /\ audit' \in Seq(AuditRecords) /\ DOMAIN audit' = DOMAIN audit \cup {Len(audit) + 1}
        /\ \A i \in DOMAIN audit : audit'[i] = audit[i]
        /\ audit'[Len(audit) + 1] = row1
    BY <1>1, <2>1
  <2>3. Rows' = Rows \cup {row1}
    BY <2>1, <2>2 DEF Rows
  <2> QED
    BY <1>1, <2>2, <2>3
<1>2. CASE audit' = audit /\ lost' = lost \cup {row1.class}
  BY <1>2 DEF CallTypes, Rows
<1> QED
  BY <1>1, <1>2 DEF Records

LEMMA InitCallInv == CallInit => CallInv
<1> SUFFICES ASSUME CallInit PROVE CallInv
  OBVIOUS
<1>1. Rows = {}
  BY DEF CallInit, Rows
<1>2. audit \in Seq(AuditRecords) /\ req \in CallRecords
  BY DEF CallInit, CallRecords, Steps, Before, WriteScope
<1>3. req.at = "idle" /\ dispatched = "none" /\ reply = "none"
  BY DEF CallInit
<1>4. Stage
  BY <1>1, <1>3 DEF Stage, Before, WithDevice
<1>5. CallsAreAccountedFor
  BY <1>1, <1>3 DEF CallsAreAccountedFor, AgentOutcomes
<1> QED
  BY <1>2, <1>4, <1>5 DEF CallInv, CallTypes

LEMMA CallStepKeeps ==
  ASSUME CallInv, CallNext
  PROVE  CallInv'
<1> USE DEF CallInv
<1>1. ASSUME NEW tool \in Tools, NEW scopes \in SUBSET Scopes, NEW dash \in DOMAIN WriteScope, NEW batched \in BOOLEAN,
             Arrives(tool, scopes, dash, batched)
      PROVE  CallInv'
  <2>1. /\ req.at = "idle" /\ req'.at \in {"refused", "tool"} /\ req'.scopes = scopes /\ req'.dashboard = dash
        /\ req' \in CallRecords
        /\ UNCHANGED <<dispatched, audit, lost, reply>>
    BY <1>1 DEF Arrives, CallRecords, Steps, WithDevice, Before
  <2>2. Rows' = Rows
    BY <2>1 DEF Rows
  <2>a. CallTypes'
    BY <2>1, <2>2 DEF CallTypes
  <2>b. Stage'
    BY <2>1, <2>2 DEF CallTypes, Stage, Before, WithDevice
  <2>c. CallsAreAccountedFor'
    BY <2>1, <2>2 DEF CallTypes, Stage, Before, WithDevice, CallsAreAccountedFor, CommandTold, AgentOutcomes
  <2> QED
    BY <2>a, <2>b, <2>c
<1>2. CASE TurnedAway
  <2>1. /\ req.at \in {"idle", "refused"} /\ Goes("over") /\ reply' = "http error"
        /\ UNCHANGED <<dispatched, audit, lost>>
    BY <1>2 DEF TurnedAway, Ends
  <2>2. Rows' = Rows
    BY <2>1 DEF Rows
  <2>m. /\ req'.tool = req.tool /\ req'.scopes = req.scopes
        /\ req'.dashboard = req.dashboard /\ req' \in CallRecords
    BY <2>1 DEF Goes, CallTypes, CallRecords, Steps, WithDevice, Before
  <2>n. req'.at = "over"
    BY <2>1 DEF Goes, CallTypes, CallRecords, Steps, WithDevice, Before
  <2>a. CallTypes'
    BY <2>1, <2>2, <2>m, <2>n DEF CallTypes
  <2>b. Stage'
    BY <2>1, <2>2, <2>m, <2>n DEF CallTypes, Stage, Before, WithDevice
  <2>c. CallsAreAccountedFor'
    BY <2>1, <2>2, <2>m, <2>n DEF CallTypes, Stage, Before, WithDevice, CallsAreAccountedFor, CommandTold, AgentOutcomes
  <2> QED
    BY <2>a, <2>b, <2>c
<1>3. CASE BridgeTool
  <2>1. /\ req.at = "tool" /\ req.tool \in BridgeTools
        /\ IF ScopeSatisfies(req.scopes, ToolScope(req.tool)) THEN Goes("resolve") /\ reply' = reply
           ELSE Goes("over") /\ reply' = "error"
        /\ UNCHANGED <<dispatched, audit, lost>>
    BY <1>3 DEF BridgeTool, Ends
  <2>2. Rows' = Rows
    BY <2>1 DEF Rows
  <2>m. /\ req'.tool = req.tool /\ req'.scopes = req.scopes
        /\ req'.dashboard = req.dashboard /\ req' \in CallRecords
    BY <2>1 DEF Goes, CallTypes, CallRecords, Steps, WithDevice, Before
  <2>n. req'.at = IF ScopeSatisfies(req.scopes, ToolScope(req.tool)) THEN "resolve" ELSE "over"
    BY <2>1 DEF Goes, CallTypes, CallRecords, Steps, WithDevice, Before
  <2>a. CallTypes'
    BY <2>1, <2>2, <2>m, <2>n DEF CallTypes
  <2>b. Stage'
    BY <2>1, <2>2, <2>m, <2>n DEF CallTypes, Stage, Before, WithDevice
  <2>c. CallsAreAccountedFor'
    BY <2>1, <2>2, <2>m, <2>n DEF CallTypes, Stage, Before, WithDevice, CallsAreAccountedFor, CommandTold, AgentOutcomes
  <2> QED
    BY <2>a, <2>b, <2>c
<1>4. CASE GatewayTool
  <2>1. /\ req.at = "tool" /\ req.tool \in GatewayTools /\ Goes("over") /\ reply' \in {"ok", "error"}
        /\ UNCHANGED <<audit, lost>>
    BY <1>4 DEF GatewayTool, Ends
  <2>2. Rows' = Rows
    BY <2>1 DEF Rows
  <2>3. /\ dispatched' \in {"none", "upsert", "feed"}
        /\ dispatched' = "upsert" => WriteScope[IF req.tool \in RunTools THEN "deals" ELSE req.dashboard] \in req.scopes
    <3>1. dispatched = "none"
      BY <2>1 DEF Stage, Before
    <3>2. CASE dispatched' = dispatched
      BY <3>1, <3>2
    <3>3. CASE /\ dispatched' = DashboardAction(req.tool) /\ req.tool \notin SourceTools
               /\ Authorised(req.tool, req.scopes, IF req.tool \in RunTools THEN "deals" ELSE req.dashboard)
      BY <3>3 DEF DashboardAction, Authorised, DashboardScopeSatisfies
    <3> QED
      BY <1>4, <3>2, <3>3 DEF GatewayTool
  <2>m. /\ req'.tool = req.tool /\ req'.scopes = req.scopes
        /\ req'.dashboard = req.dashboard /\ req' \in CallRecords
    BY <2>1 DEF Goes, CallTypes, CallRecords, Steps, WithDevice, Before
  <2>n. req'.at = "over"
    BY <2>1 DEF Goes, CallTypes, CallRecords, Steps, WithDevice, Before
  <2>a. CallTypes'
    BY <2>1, <2>2, <2>3, <2>m, <2>n, ToolKinds DEF CallTypes
  <2>b. Stage'
    BY <2>1, <2>2, <2>3, <2>m, <2>n, ToolKinds DEF CallTypes, Stage, Before, WithDevice
  <2>c. CallsAreAccountedFor'
    BY <2>1, <2>2, <2>3, <2>m, <2>n, ToolKinds DEF CallTypes, Stage, Before, WithDevice, CallsAreAccountedFor, CommandTold, AgentOutcomes
  <2> QED
    BY <2>a, <2>b, <2>c
<1>5. CASE NotResolved
  <2>1. /\ req.at = "resolve" /\ Goes("over") /\ reply' = "error" /\ UNCHANGED <<dispatched, audit, lost>>
    BY <1>5 DEF NotResolved, Ends
  <2>2. Rows' = Rows
    BY <2>1 DEF Rows
  <2>m. /\ req'.tool = req.tool /\ req'.scopes = req.scopes
        /\ req'.dashboard = req.dashboard /\ req' \in CallRecords
    BY <2>1 DEF Goes, CallTypes, CallRecords, Steps, WithDevice, Before
  <2>n. req'.at = "over"
    BY <2>1 DEF Goes, CallTypes, CallRecords, Steps, WithDevice, Before
  <2>a. CallTypes'
    BY <2>1, <2>2, <2>m, <2>n DEF CallTypes
  <2>b. Stage'
    BY <2>1, <2>2, <2>m, <2>n DEF CallTypes, Stage, Before, WithDevice
  <2>c. CallsAreAccountedFor'
    BY <2>1, <2>2, <2>m, <2>n DEF CallTypes, Stage, Before, WithDevice, CallsAreAccountedFor, CommandTold, AgentOutcomes
  <2> QED
    BY <2>a, <2>b, <2>c
<1>6. ASSUME NEW outcome \in AgentOutcomes, NEW n \in 0 .. 1, Sent(outcome, n) PROVE CallInv'
  <2>1. /\ req.at = "resolve" /\ dispatched' = outcome
        /\ req'.at = "audit command" /\ req'.tool = req.tool /\ req'.scopes = req.scopes /\ req'.dashboard = req.dashboard
        /\ req' \in CallRecords
        /\ UNCHANGED <<audit, lost, reply>>
    <3>1. n \in Nat
      OBVIOUS
    <3>2. req \in CallRecords /\ "audit command" \in Steps
      BY DEF CallTypes, Steps, WithDevice
    <3> QED
      BY <1>6, <3>1, <3>2 DEF Sent, CallRecords
  <2>2. Rows' = Rows
    BY <2>1 DEF Rows
  <2>3. /\ req.scopes \cap {"browser:read", "browser:interact"} # {}
        /\ req.tool \in InteractTools => "browser:interact" \in req.scopes
    BY <2>1, ToolKinds DEF Stage, Before, CallTypes, CallRecords
  <2>a. CallTypes'
    BY <2>1, <2>2, <2>3 DEF CallTypes
  <2>b. Stage'
    BY <2>1, <2>2, <2>3 DEF CallTypes, Stage, Before, WithDevice
  <2>c. CallsAreAccountedFor'
    BY <2>1, <2>2, <2>3 DEF CallTypes, Stage, Before, WithDevice, CallsAreAccountedFor, CommandTold, AgentOutcomes
  <2> QED
    BY <2>a, <2>b, <2>c
<1>7. CASE AuditsCommand
  <2>1. CommandRow \in AuditRecords /\ CommandRow.class = "command"
    BY DEF CommandRow, AuditRecords
  <2>2. /\ req.at = "audit command" /\ Records(CommandRow)
        /\ Goes(IF dispatched = "ok" THEN "persist" ELSE "audit failure")
        /\ UNCHANGED <<dispatched, reply>>
    BY <1>7 DEF AuditsCommand
  <2>3. /\ audit' \in Seq(AuditRecords) /\ Rows' \subseteq {CommandRow}
        /\ "command" \in lost' \/ CommandRow \in Rows'
    BY <2>1, <2>2, RowIsRecorded DEF Stage, WithDevice
  <2>4. CommandRow' = CommandRow
    BY <2>2 DEF CommandRow
  <2>5. CommandTold' /\ NoFinalRow'
    BY <2>1, <2>3, <2>4 DEF CommandTold, NoFinalRow
  <2>6. FinalRow("ok") \notin Rows' /\ FinalRow("denied") \notin Rows'
    BY <2>1, <2>3 DEF FinalRow
  <2>m. /\ req'.tool = req.tool /\ req'.scopes = req.scopes
        /\ req'.dashboard = req.dashboard /\ req' \in CallRecords
    BY <2>2 DEF Goes, CallTypes, CallRecords, Steps, WithDevice, Before
  <2>n. req'.at = IF dispatched = "ok" THEN "persist" ELSE "audit failure"
    BY <2>2 DEF Goes, CallTypes, CallRecords, Steps, WithDevice, Before
  <2>a. CallTypes'
    BY <2>2, <2>3, <2>5, <2>6, <2>m, <2>n DEF CallTypes
  <2>b. Stage'
    BY <2>2, <2>3, <2>5, <2>6, <2>m, <2>n DEF CallTypes, Stage, Before, WithDevice
  <2>c. CallsAreAccountedFor'
    BY <2>2, <2>3, <2>5, <2>6, <2>m, <2>n DEF CallTypes, Stage, Before, WithDevice, CallsAreAccountedFor, CommandTold, AgentOutcomes
  <2> QED
    BY <2>a, <2>b, <2>c
<1>8. CASE AuditsFailure
  <2> DEFINE final == FinalRow(IF dispatched = "blocked" THEN "denied" ELSE "error")
  <2>1. final \in AuditRecords /\ final.class = "call" /\ final # FinalRow("ok")
        /\ (final = FinalRow("denied") => dispatched = "blocked")
    BY DEF FinalRow, AuditRecords
  <2>2. /\ req.at = "audit failure" /\ Records(final) /\ Goes("over") /\ reply' = "error" /\ dispatched' = dispatched
    BY <1>8 DEF AuditsFailure, Ends
  <2> HIDE DEF final
  <2>3. /\ audit' \in Seq(AuditRecords) /\ Rows \subseteq Rows' /\ Rows' \subseteq Rows \cup {final}
        /\ lost \subseteq lost'
    BY <2>1, <2>2, RowIsRecorded
  <2>4. CommandTold' /\ CommandRow' = CommandRow
    BY <2>2, <2>3 DEF CommandTold, CommandRow, Stage, WithDevice
  <2>5. FinalRow("ok") \notin Rows /\ FinalRow("denied") \notin Rows
    BY <2>2 DEF Stage, WithDevice, NoFinalRow, FinalRow
  <2>6. FinalRow("ok") \notin Rows' /\ (FinalRow("denied") \in Rows' => dispatched = "blocked")
    BY <2>1, <2>3, <2>5
  <2>m. /\ req'.tool = req.tool /\ req'.scopes = req.scopes
        /\ req'.dashboard = req.dashboard /\ req' \in CallRecords
    BY <2>2 DEF Goes, CallTypes, CallRecords, Steps, WithDevice, Before
  <2>n. req'.at = "over"
    BY <2>2 DEF Goes, CallTypes, CallRecords, Steps, WithDevice, Before
  <2>a. CallTypes'
    BY <2>2, <2>3, <2>4, <2>6, <2>m, <2>n DEF CallTypes
  <2>b. Stage'
    BY <2>2, <2>3, <2>4, <2>6, <2>m, <2>n DEF CallTypes, Stage, Before, WithDevice
  <2>c. CallsAreAccountedFor'
    BY <2>2, <2>3, <2>4, <2>6, <2>m, <2>n DEF CallTypes, Stage, Before, WithDevice, CallsAreAccountedFor, CommandTold, AgentOutcomes
  <2> QED
    BY <2>a, <2>b, <2>c
<1>9. CASE Persists \/ Materializes
  <2>1. /\ req.at \in {"persist", "artifacts"}
        /\ \/ reply' = reply /\ (Goes("artifacts") \/ Goes("audit ok"))
           \/ reply' = "error" /\ Goes("over")
        /\ UNCHANGED <<dispatched, audit, lost>>
    BY <1>9 DEF Persists, Materializes, Ends
  <2>2. Rows' = Rows /\ CommandRow' = CommandRow /\ CommandTold' = CommandTold /\ NoFinalRow' = NoFinalRow
    BY <2>1 DEF Rows, CommandRow, CommandTold, NoFinalRow
  <2>3. FinalRow("ok") \notin Rows /\ FinalRow("denied") \notin Rows /\ CommandTold /\ NoFinalRow
    BY <2>1 DEF Stage, WithDevice, NoFinalRow, FinalRow
  <2>m. /\ req'.tool = req.tool /\ req'.scopes = req.scopes
        /\ req'.dashboard = req.dashboard /\ req' \in CallRecords
    BY <2>1 DEF Goes, CallTypes, CallRecords, Steps, WithDevice, Before
  <2>n. \/ req'.at \in {"artifacts", "audit ok"} /\ reply' = reply
        \/ req'.at = "over" /\ reply' = "error"
    <3>1. \A step : Goes(step) => req'.at = step
      BY DEF Goes, CallTypes, CallRecords
    <3> QED
      BY <2>1, <3>1
  <2>a. CallTypes'
    BY <2>1, <2>2, <2>3, <2>m, <2>n DEF CallTypes
  <2>b. Stage'
    BY <2>1, <2>2, <2>3, <2>m, <2>n DEF CallTypes, Stage, Before, WithDevice
  <2>c. CallsAreAccountedFor'
    BY <2>1, <2>2, <2>3, <2>m, <2>n DEF CallTypes, Stage, Before, WithDevice, CallsAreAccountedFor, CommandTold, AgentOutcomes
  <2> QED
    BY <2>a, <2>b, <2>c
<1>10. CASE AuditsOk
  <2>1. FinalRow("ok") \in AuditRecords /\ FinalRow("ok").class = "call" /\ FinalRow("ok") # FinalRow("denied")
    BY DEF FinalRow, AuditRecords
  <2>2. /\ req.at = "audit ok" /\ Records(FinalRow("ok")) /\ Goes("answer") /\ UNCHANGED <<dispatched, reply>>
    BY <1>10 DEF AuditsOk
  <2>3. /\ audit' \in Seq(AuditRecords) /\ Rows \subseteq Rows' /\ Rows' \subseteq Rows \cup {FinalRow("ok")}
        /\ lost \subseteq lost' /\ ("call" \in lost' \/ FinalRow("ok") \in Rows')
    BY <2>1, <2>2, RowIsRecorded
  <2>4. CommandTold' /\ CommandRow' = CommandRow
    BY <2>2, <2>3 DEF CommandTold, CommandRow, Stage, WithDevice
  <2>5. FinalRow("denied") \notin Rows'
    BY <2>1, <2>2, <2>3 DEF Stage, WithDevice, NoFinalRow, FinalRow
  <2>m. /\ req'.tool = req.tool /\ req'.scopes = req.scopes
        /\ req'.dashboard = req.dashboard /\ req' \in CallRecords
    BY <2>2 DEF Goes, CallTypes, CallRecords, Steps, WithDevice, Before
  <2>n. req'.at = "answer"
    BY <2>2 DEF Goes, CallTypes, CallRecords, Steps, WithDevice, Before
  <2>a. CallTypes'
    BY <2>2, <2>3, <2>4, <2>5, <2>m, <2>n DEF CallTypes
  <2>b. Stage'
    BY <2>2, <2>3, <2>4, <2>5, <2>m, <2>n DEF CallTypes, Stage, Before, WithDevice
  <2>c. CallsAreAccountedFor'
    BY <2>2, <2>3, <2>4, <2>5, <2>m, <2>n DEF CallTypes, Stage, Before, WithDevice, CallsAreAccountedFor, CommandTold, AgentOutcomes
  <2> QED
    BY <2>a, <2>b, <2>c
<1>11. CASE CallAnswers
  <2>1. /\ req.at = "answer" /\ reply' \in {"ok", "schema error"} /\ Goes("over") /\ UNCHANGED <<dispatched, audit, lost>>
    BY <1>11 DEF CallAnswers, Ends
  <2>2. Rows' = Rows /\ CommandRow' = CommandRow /\ CommandTold' = CommandTold
    BY <2>1 DEF Rows, CommandRow, CommandTold
  <2>3. /\ CommandTold /\ dispatched = "ok" /\ ("call" \in lost \/ FinalRow("ok") \in Rows)
        /\ CommandRow = [class |-> "command", outcome |-> "ok"] /\ FinalRow("ok") = [class |-> "call", outcome |-> "ok"]
    BY <2>1 DEF Stage, WithDevice, CommandRow, FinalRow
  <2>m. /\ req'.tool = req.tool /\ req'.scopes = req.scopes
        /\ req'.dashboard = req.dashboard /\ req' \in CallRecords
    BY <2>1 DEF Goes, CallTypes, CallRecords, Steps, WithDevice, Before
  <2>n. req'.at = "over"
    BY <2>1 DEF Goes, CallTypes, CallRecords, Steps, WithDevice, Before
  <2>a. CallTypes'
    BY <2>1, <2>2, <2>3, <2>m, <2>n DEF CallTypes
  <2>b. Stage'
    BY <2>1, <2>2, <2>3, <2>m, <2>n DEF CallTypes, Stage, Before, WithDevice
  <2>c. CallsAreAccountedFor'
    BY <2>1, <2>2, <2>3, <2>m, <2>n DEF CallTypes, Stage, Before, WithDevice, CallsAreAccountedFor, CommandTold, AgentOutcomes
  <2> QED
    BY <2>a, <2>b, <2>c
<1> QED
  BY <1>1, <1>2, <1>3, <1>4, <1>5, <1>6, <1>7, <1>8, <1>9, <1>10, <1>11, CallNext DEF CallNext, Tools, WriteScope

\* CallsAreAccountedFor: the rows of the audit log tell what happened, whichever
\* await of the broker fails, a write to the log among them (broker.ts:332 and
\* 430 log the failure and go on), and no scope is passed over.
THEOREM CallsAreAccountedForHolds == CallSpec => []CallsAreAccountedFor
<1>1. CallInv /\ UNCHANGED callVars => CallInv'
  BY ZenonT(40) DEF CallInv, CallTypes, Stage, CallsAreAccountedFor, Rows, CommandTold, CommandRow, NoFinalRow, callVars
<1>2. CallInv => CallsAreAccountedFor
  BY DEF CallInv
<1> QED
  BY <1>1, <1>2, InitCallInv, CallStepKeeps, PTL DEF CallSpec
-----------------------------------------------------------------------------
(* Artifacts *)

Artifact == [id : Calls \X Nat, call : Calls, size : Nat]
Puts == [id : Calls \X Nat, call : Calls, size : Nat, at : {"check", "file", "row"}, by : {"agent", "broker"}]
RowType == [id : Calls \X Nat, call : Calls, size : Nat, expires : Nat]
CommandSteps == {"working", "sending", "uploading", "failed", "over"}
CallerSteps == {"pending", "next", "putting", "reading", "missing", "error", "ok"}

ArtifactTypes ==
  /\ command \in [Calls -> [at : CommandSteps, left : Seq(Artifact), done : Seq(Artifact)]]
  /\ caller \in [Calls -> [at : CallerSteps, left : Seq(Artifact), out : SUBSET (Calls \X Nat)]]
  /\ put \subseteq Puts
  /\ meta \subseteq stored /\ stored \subseteq RowType
  /\ sweep \subseteq [row : stored, at : {"rm", "row"}]
  /\ time \in Nat

\* No put and no row has the id yet.
Fresh(id) == (\A p \in put : p.id # id) /\ (\A r \in stored : r.id # id)
IsStored(id) == \E r \in stored : r.id = id

\* What a sequence of artifacts owes: small ones are still to be put, large ones are stored.
Owed(a) == IF a.size <= InlineMax THEN Fresh(a.id) ELSE IsStored(a.id)

\* The agent's artifacts are numbered as they were captured; each is put once.
AgentOf(c) ==
  LET left == command[c].left  done == command[c].done IN
  /\ \A i \in DOMAIN done : done[i].id = <<c, i>> /\ done[i].call = c /\ Owed(done[i])
  /\ \A i \in DOMAIN left : left[i].id = <<c, Len(done) + i>> /\ left[i].call = c
  /\ command[c].at = "sending" => \A i \in DOMAIN left : Fresh(left[i].id)
  /\ command[c].at = "uploading" =>
       left # <<>> /\ left[1].size > InlineMax /\ \A i \in DOMAIN left : i > 1 => Fresh(left[i].id)
  /\ command[c].at \in {"working", "failed", "over"} => left = <<>> /\ done = <<>>
  /\ command[c].at = "working" => (\A p \in put : p.call # c) /\ (\A r \in stored : r.call # c)
  /\ \A p \in put : p.call = c /\ p.by = "agent" =>
       command[c].at # "sending" /\ (command[c].at = "uploading" => p.id = left[1].id)

\* The broker's are what the agent sent, put one at a time.
BrokerOf(c) ==
  LET left == caller[c].left IN
  /\ caller[c].at \notin {"pending", "error"} => command[c].at = "over"
  /\ caller[c].at = "pending" => left = <<>>
  /\ \A i, j \in DOMAIN left : i # j => left[i].id # left[j].id
  /\ \A i \in DOMAIN left : left[i].call = c /\ left[i].id[1] = c
  /\ caller[c].at \in {"next", "reading"} => \A i \in DOMAIN left : Owed(left[i])
  /\ caller[c].at = "putting" => \A i \in DOMAIN left : i > 1 => Owed(left[i])
  /\ caller[c].at \in {"putting", "reading"} => left # <<>>
  /\ caller[c].at = "reading" => left[1].size > InlineMax
  /\ \A p \in put : p.call = c /\ p.by = "broker" => caller[c].at = "putting"
  /\ \A p, q \in put : p.call = c /\ p.by = "broker" /\ q.call = c /\ q.by = "broker" => p = q

\* What a caller misses has outlived its time.
MissesOf(c) ==
  caller[c].at = "missing" => \E r \in stored : r.id = Head(caller[c].left).id /\ r.expires <= time

\* An artifact is put once, stored once, and in the store until it has expired.
StoreSide ==
  /\ \A p \in put : p.id[1] = p.call /\ (p.at = "row" => p.id \in file)
  /\ \A r \in stored : r.id[1] = r.call
  /\ \A p, q \in put : p.id = q.id => p = q
  /\ \A p \in put, r \in stored : p.id # r.id
  /\ \A r, s \in stored : r.id = s.id => r = s
  /\ \A r \in stored : r.expires > time => r \in meta /\ r.id \in file
  /\ \A s \in sweep : s.row.expires <= time /\ (s.at = "row" => s.row.id \notin file)
  /\ \A id \in file : RowsOf(id) # {} \/ id \in leaked \/ \E p \in put : p.id = id /\ p.at = "row"

ArtifactInv ==
  /\ ArtifactTypes /\ StoreSide
  /\ \A c \in Calls : AgentOf(c) /\ BrokerOf(c) /\ MissesOf(c)

LEMMA HeadAndTail ==
  ASSUME NEW S, NEW s \in Seq(S), s # <<>>
  PROVE  /\ Head(s) = s[1] /\ Head(s) \in S /\ Tail(s) \in Seq(S) /\ 1 \in DOMAIN s
         /\ \A i \in DOMAIN Tail(s) : i + 1 \in DOMAIN s /\ Tail(s)[i] = s[i + 1] /\ i + 1 > 1 /\ i \in Nat
OBVIOUS

LEMMA Shift ==
  \A m, n, i : m \in Nat /\ i \in Nat /\ n = m + 1 => m + (i + 1) = n + i
OBVIOUS

LEMMA Appended ==
  ASSUME NEW S, NEW s \in Seq(S), NEW e \in S
  PROVE  /\ Append(s, e) \in Seq(S) /\ Len(Append(s, e)) = Len(s) + 1 /\ Len(s) \in Nat
         /\ \A i \in DOMAIN Append(s, e) :
              \/ i \in DOMAIN s /\ Append(s, e)[i] = s[i]
              \/ i = Len(s) + 1 /\ Append(s, e)[i] = e
<1>1. DOMAIN s = 1 .. Len(s) /\ Len(s) \in Nat /\ DOMAIN Append(s, e) = 1 .. Len(s) + 1
  OBVIOUS
<1>2. ASSUME NEW i \in 1 .. Len(s) PROVE Append(s, e)[i] = s[i]
  OBVIOUS
<1>3. Append(s, e)[Len(s) + 1] = e
  OBVIOUS
<1> QED
  BY <1>1, <1>2, <1>3

\* The puts of a call are those it had, and what is stored of it was being put.
SamePut(p, q) == q.id = p.id /\ q.call = p.call /\ q.by = p.by
Traced(c) ==
  /\ \A q \in put' : q.call = c => \E p \in put : SamePut(p, q)
  /\ stored \subseteq stored'
  /\ \A r \in stored' : r.call = c => r \in stored \/ \E p \in put : p.id = r.id /\ p.call = c

\* What is owed after the step.
FreshNext(id) == (\A p \in put' : p.id # id) /\ (\A r \in stored' : r.id # id)
OwedNext(a) == IF a.size <= InlineMax THEN FreshNext(a.id) ELSE \E r \in stored' : r.id = a.id

\* What is owed stays owed.
LEMMA OwedStays ==
  ASSUME StoreSide', NEW c \in Calls, Traced(c)
  PROVE  /\ \A id : id[1] = c /\ Fresh(id) => FreshNext(id)
         /\ \A a : a.id[1] = c /\ Owed(a) => OwedNext(a)
<1>1. ASSUME NEW id, id[1] = c, Fresh(id) PROVE FreshNext(id)
  <2>1. ASSUME NEW q \in put' PROVE q.id # id
    BY <1>1, <2>1 DEF StoreSide, Traced, Fresh, SamePut
  <2>2. ASSUME NEW r \in stored' PROVE r.id # id
    BY <1>1, <2>2 DEF StoreSide, Traced, Fresh
  <2> QED
    BY <2>1, <2>2 DEF FreshNext
<1>2. ASSUME NEW a, a.id[1] = c, Owed(a) PROVE OwedNext(a)
  BY <1>1, <1>2 DEF Owed, OwedNext, IsStored, Traced
<1> QED
  BY <1>1, <1>2

\* A call that does not move keeps what is said of it.
LEMMA AgentStays ==
  ASSUME ArtifactInv, StoreSide', NEW c \in Calls, Traced(c), command'[c] = command[c]
  PROVE  AgentOf(c)'
<1> DEFINE left == command[c].left
           done == command[c].done
<1>1. AgentOf(c)
  BY DEF ArtifactInv
<1>2. \A i \in DOMAIN done : OwedNext(done[i])
  BY <1>1, OwedStays DEF AgentOf
<1>3. \A i \in DOMAIN left : Fresh(left[i].id) => FreshNext(left[i].id)
  BY <1>1, OwedStays DEF AgentOf
<1> QED
  BY <1>1, <1>2, <1>3 DEF AgentOf, Traced, SamePut, Owed, OwedNext, IsStored, Fresh, FreshNext

LEMMA BrokerStays ==
  ASSUME ArtifactInv, StoreSide', NEW c \in Calls, Traced(c), caller'[c] = caller[c],
         command[c].at = "over" => command'[c].at = "over"
  PROVE  BrokerOf(c)'
<1> DEFINE left == caller[c].left
<1>1. BrokerOf(c)
  BY DEF ArtifactInv
<1>2. \A i \in DOMAIN left : Owed(left[i]) => OwedNext(left[i])
  BY <1>1, OwedStays DEF BrokerOf
<1>3. \A p, q \in put' : p.id = q.id => p = q
  BY DEF StoreSide
<1> QED
  BY <1>1, <1>2, <1>3 DEF BrokerOf, Traced, SamePut, Owed, OwedNext, IsStored, Fresh, FreshNext

LEMMA MissesStay ==
  ASSUME ArtifactInv, NEW c \in Calls, caller'[c] = caller[c], stored \subseteq stored', time' \in Nat, time <= time'
  PROVE  MissesOf(c)'
<1>1. MissesOf(c) /\ (\A r \in stored : r.expires \in Nat) /\ time \in Nat
  BY DEF ArtifactInv, ArtifactTypes, RowType
<1> QED
  BY <1>1 DEF MissesOf

\* The store does not move.
StoreRests == UNCHANGED <<put, sweep, meta, file, leaked, stored, time>>
LEMMA StoreStays ==
  ASSUME ArtifactInv, StoreRests
  PROVE  StoreSide' /\ \A c \in Calls : Traced(c)
BY DEF ArtifactInv, StoreSide, StoreRests, Traced, SamePut, RowsOf

LEMMA InitArtifactInv == ArtifactsInit => ArtifactInv
BY DEF ArtifactsInit, ArtifactInv, ArtifactTypes, StoreSide, AgentOf, BrokerOf, MissesOf, CommandSteps, CallerSteps

CommandRecord == [at : CommandSteps, left : Seq(Artifact), done : Seq(Artifact)]
CallerRecord == [at : CallerSteps, left : Seq(Artifact), out : SUBSET (Calls \X Nat)]

\* Of the agent's actions that leave the store alone.
LEMMA AgentMoves ==
  ASSUME ArtifactInv, NEW c \in Calls, StoreRests,
         command' \in [Calls -> CommandRecord], caller' \in [Calls -> CallerRecord],
         \A d \in Calls \ {c} : command'[d] = command[d] /\ caller'[d] = caller[d],
         AgentOf(c)', BrokerOf(c)', MissesOf(c)'
  PROVE  ArtifactInv'
<1>1. StoreSide' /\ \A d \in Calls : Traced(d)
  BY StoreStays
<1>2. ArtifactTypes'
  BY DEF ArtifactInv, ArtifactTypes, StoreRests, CommandRecord, CallerRecord
<1>3. time' \in Nat /\ time <= time'
  BY DEF ArtifactInv, ArtifactTypes, StoreRests
<1>4. stored \subseteq stored'
  BY DEF StoreRests
<1>5. ASSUME NEW d \in Calls \ {c} PROVE AgentOf(d)' /\ BrokerOf(d)' /\ MissesOf(d)'
  BY <1>1, <1>3, <1>4, AgentStays, BrokerStays, MissesStay
<1> QED
  BY <1>1, <1>2, <1>5 DEF ArtifactInv

LEMMA CommandStepsKeep ==
  ASSUME ArtifactInv, NEW c \in Calls, Captures(c) \/ Inline(c) \/ UploadFails(c) \/ Result(c)
  PROVE  ArtifactInv'
<1>1. /\ AgentOf(c) /\ BrokerOf(c) /\ MissesOf(c)
      /\ command \in [Calls -> CommandRecord] /\ caller \in [Calls -> CallerRecord]
      /\ command[c] \in CommandRecord /\ caller[c] \in CallerRecord
  BY DEF ArtifactInv, ArtifactTypes, CommandRecord, CallerRecord
<1>2. StoreRests
  BY DEF StoreRests, Captures, Inline, UploadFails, Result
<1>3. StoreSide /\ StoreSide' /\ Traced(c)
  BY <1>2, StoreStays DEF ArtifactInv
<1>4. \A id : Fresh(id)' = Fresh(id) /\ IsStored(id)' = IsStored(id)
  BY <1>2 DEF StoreRests, Fresh, IsStored
<1>5. ASSUME caller' = caller, command[c].at # "over" PROVE BrokerOf(c)' /\ MissesOf(c)'
  <2>1. time' \in Nat /\ time <= time' /\ stored \subseteq stored'
    BY <1>2 DEF ArtifactInv, ArtifactTypes, StoreRests
  <2> QED
    BY <1>3, <1>5, <2>1, BrokerStays, MissesStay
<1>6. CASE Captures(c)
  <2>1. PICK sizes \in SeqOf(Sizes, MaxArtifacts) :
          command' = [command EXCEPT ![c] = [at |-> "sending", done |-> <<>>,
                     left |-> [i \in DOMAIN sizes |-> [id |-> <<c, i>>, call |-> c, size |-> sizes[i]]]]]
    BY <1>6 DEF Captures
  <2> DEFINE new == [i \in DOMAIN sizes |-> [id |-> <<c, i>>, call |-> c, size |-> sizes[i]]]
  <2>2. sizes \in Seq(Nat)
    BY ArtifactsAssumption DEF SeqOf, ArtifactsAssumption
  <2>3. PICK n \in Nat : DOMAIN sizes = 1 .. n
    BY <2>2
  <2>4. ASSUME NEW i \in 1 .. n PROVE new[i] \in Artifact /\ new[i].id = <<c, i>> /\ new[i].call = c
    BY <2>2, <2>3, <2>4 DEF Artifact
  <2>5. new \in Seq(Artifact) /\ DOMAIN new = 1 .. n
    <3>1. new \in [1 .. n -> Artifact]
      BY <2>3, <2>4
    <3> QED
      BY <3>1, <2>3
  <2>6. <<>> \in Seq(Artifact) /\ Len(<<>>) = 0 /\ DOMAIN <<>> = {}
    OBVIOUS
  <2> HIDE DEF new
  <2>7. [at |-> "sending", done |-> <<>>, left |-> new] \in CommandRecord
    BY <2>5, <2>6 DEF CommandRecord, CommandSteps
  <2>8. /\ command' \in [Calls -> CommandRecord] /\ command[c].at = "working" /\ caller' = caller
        /\ command'[c] = [at |-> "sending", done |-> <<>>, left |-> new]
        /\ \A d \in Calls \ {c} : command'[d] = command[d]
    BY <1>1, <1>6, <2>1, <2>7 DEF Captures, new
  <2>9. \A i \in 1 .. n : Fresh(new[i].id)
    <3>1. (\A p \in put : p.call # c) /\ (\A r \in stored : r.call # c)
      BY <1>1, <2>8 DEF AgentOf
    <3>2. (\A p \in put : p.id[1] = p.call) /\ (\A r \in stored : r.id[1] = r.call)
      BY <1>3 DEF StoreSide
    <3> QED
      BY <2>4, <3>1, <3>2 DEF Fresh
  <2>10. AgentOf(c)'
    <3>1. \A p \in put' : p.call # c
      BY <1>1, <1>2, <2>8 DEF AgentOf, StoreRests
    <3>2. \A i \in 1 .. n : new[i].id = <<c, 0 + i>>
      BY <2>4
    <3> QED
      BY <1>4, <2>4, <2>5, <2>6, <2>8, <2>9, <3>1, <3>2 DEF AgentOf
  <2> QED
    BY <1>1, <1>2, <1>5, <2>8, <2>10, AgentMoves
<1>7. CASE Inline(c)
  <2> DEFINE left == command[c].left
             done == command[c].done
             more == Append(done, Head(left))
  <2>1. /\ command[c].at = "sending" /\ left # <<>> /\ Head(left).size <= InlineMax
        /\ command' = [command EXCEPT ![c].left = Tail(@), ![c].done = Append(@, Head(left))] /\ caller' = caller
    BY <1>7 DEF Inline
  <2>2. left \in Seq(Artifact) /\ done \in Seq(Artifact)
    BY <1>1 DEF CommandRecord
  <2>3. /\ Head(left) = left[1] /\ Head(left) \in Artifact /\ Tail(left) \in Seq(Artifact) /\ 1 \in DOMAIN left
        /\ \A i \in DOMAIN Tail(left) : i + 1 \in DOMAIN left /\ Tail(left)[i] = left[i + 1] /\ i + 1 > 1 /\ i \in Nat
    BY <2>1, <2>2, HeadAndTail
  <2>4. /\ more \in Seq(Artifact) /\ Len(more) = Len(done) + 1 /\ Len(done) \in Nat
        /\ \A i \in DOMAIN more : \/ i \in DOMAIN done /\ more[i] = done[i]
                                  \/ i = Len(done) + 1 /\ more[i] = left[1]
    BY <2>2, <2>3, Appended
  <2> HIDE DEF more
  <2>5. /\ command' \in [Calls -> CommandRecord]
        /\ command'[c].at = "sending" /\ command'[c].left = Tail(left) /\ command'[c].done = more
        /\ \A d \in Calls \ {c} : command'[d] = command[d]
    BY <1>1, <2>1, <2>3, <2>4 DEF CommandRecord, more
  <2>6. AgentOf(c)'
    <3>1. \A i \in DOMAIN more : more[i].id = <<c, i>> /\ more[i].call = c /\ Owed(more[i])
      <4>1. left[1].id = <<c, Len(done) + 1>> /\ left[1].call = c /\ Owed(left[1])
        BY <1>1, <2>1, <2>3 DEF AgentOf, Owed
      <4>2. \A i \in DOMAIN done : done[i].id = <<c, i>> /\ done[i].call = c /\ Owed(done[i])
        BY <1>1 DEF AgentOf
      <4> QED
        BY <2>4, <4>1, <4>2
    <3>2. \A i \in DOMAIN Tail(left) :
            Tail(left)[i].id = <<c, Len(more) + i>> /\ Tail(left)[i].call = c /\ Fresh(Tail(left)[i].id)
      <4> SUFFICES ASSUME NEW i \in DOMAIN Tail(left)
                   PROVE  Tail(left)[i].id = <<c, Len(more) + i>> /\ Tail(left)[i].call = c /\ Fresh(Tail(left)[i].id)
        OBVIOUS
      <4>1. left[i + 1].id = <<c, Len(done) + (i + 1)>> /\ left[i + 1].call = c /\ Fresh(left[i + 1].id)
        BY <1>1, <2>1, <2>3 DEF AgentOf
      <4>2. Len(done) + (i + 1) = Len(more) + i
        BY <2>3, <2>4, Shift
      <4>3. Tail(left)[i] = left[i + 1]
        BY <2>3
      <4> QED
        BY <4>1, <4>2, <4>3
    <3>3. \A p \in put' : p.call = c => p.by # "agent"
      BY <1>1, <1>2, <2>1 DEF AgentOf, StoreRests
    <3> QED
      BY <1>4, <2>5, <3>1, <3>2, <3>3 DEF AgentOf, Owed
  <2> QED
    BY <1>1, <1>2, <1>5, <2>1, <2>5, <2>6, AgentMoves
<1>8. CASE UploadFails(c)
  <2>1. <<>> \in Seq(Artifact) /\ DOMAIN <<>> = {}
    OBVIOUS
  <2>2. /\ command' \in [Calls -> CommandRecord] /\ caller' = caller /\ command[c].at # "over"
        /\ command'[c] = [at |-> "failed", left |-> <<>>, done |-> <<>>]
        /\ \A d \in Calls \ {c} : command'[d] = command[d]
    BY <1>1, <1>8, <2>1 DEF UploadFails, CommandRecord, CommandSteps
  <2>3. AgentOf(c)'
    BY <2>1, <2>2 DEF AgentOf
  <2> QED
    BY <1>1, <1>2, <1>5, <2>2, <2>3, AgentMoves
<1>9. CASE Result(c)
  <2>1. <<>> \in Seq(Artifact) /\ DOMAIN <<>> = {}
    OBVIOUS
  <2>2. /\ command' \in [Calls -> CommandRecord]
        /\ command'[c] = [at |-> "over", left |-> <<>>, done |-> <<>>]
        /\ \A d \in Calls \ {c} : command'[d] = command[d]
    BY <1>1, <1>9, <2>1 DEF Result, CommandRecord, CommandSteps
  <2>3. AgentOf(c)'
    BY <2>1, <2>2 DEF AgentOf
  <2>4. CASE caller' = caller
    BY <1>1, <1>2, <1>5, <1>9, <2>2, <2>3, <2>4, AgentMoves DEF Result
  <2>5. CASE caller' = [caller EXCEPT ![c].at = "error"] /\ caller[c].at = "pending"
    <3>1. /\ caller' \in [Calls -> CallerRecord] /\ caller'[c].at = "error" /\ caller'[c].left = caller[c].left
          /\ \A d \in Calls \ {c} : caller'[d] = caller[d]
      BY <1>1, <2>5 DEF CallerRecord, CallerSteps
    <3>2. BrokerOf(c)' /\ MissesOf(c)'
      BY <1>1, <1>2, <2>5, <3>1 DEF BrokerOf, MissesOf, StoreRests
    <3> QED
      BY <1>2, <2>2, <2>3, <3>1, <3>2, AgentMoves
  <2>6. CASE caller' = [caller EXCEPT ![c].at = "next", ![c].left = command[c].done] /\ caller[c].at = "pending"
    <3>1. command[c].done \in Seq(Artifact)
      BY <1>1 DEF CommandRecord
    <3>2. /\ caller' \in [Calls -> CallerRecord] /\ caller'[c].at = "next" /\ caller'[c].left = command[c].done
          /\ \A d \in Calls \ {c} : caller'[d] = caller[d]
      BY <1>1, <2>6, <3>1 DEF CallerRecord, CallerSteps
    <3>3. \A i \in DOMAIN command[c].done :
            /\ command[c].done[i].id = <<c, i>> /\ command[c].done[i].id[1] = c /\ command[c].done[i].call = c
            /\ Owed(command[c].done[i])
      BY <1>1 DEF AgentOf
    <3>4. \A i, j \in DOMAIN command[c].done : i # j => command[c].done[i].id # command[c].done[j].id
      BY <3>3
    <3>5. \A p \in put' : p.call = c => p.by # "broker"
      BY <1>1, <1>2, <2>6 DEF BrokerOf, StoreRests
    <3>6. BrokerOf(c)' /\ MissesOf(c)'
      BY <1>4, <2>2, <3>2, <3>3, <3>4, <3>5 DEF BrokerOf, MissesOf, Owed
    <3> QED
      BY <1>2, <2>2, <2>3, <3>2, <3>6, AgentMoves
  <2> QED
    BY <1>9, <2>4, <2>5, <2>6 DEF Result
<1> QED
  BY <1>6, <1>7, <1>8, <1>9

\* Of any action: one call moves at most, the others keep what is said of them.
LEMMA StoreMoves ==
  ASSUME ArtifactInv, NEW c \in Calls, ArtifactTypes', StoreSide', time <= time',
         \A d \in Calls : d # c => command'[d] = command[d] /\ caller'[d] = caller[d] /\ Traced(d),
         AgentOf(c)', BrokerOf(c)', MissesOf(c)'
  PROVE  ArtifactInv'
<1>1. ASSUME NEW d \in Calls, d # c PROVE AgentOf(d)' /\ BrokerOf(d)' /\ MissesOf(d)'
  <2>1. stored \subseteq stored' /\ time' \in Nat
    BY <1>1 DEF Traced, ArtifactTypes
  <2> QED
    BY <1>1, <2>1, AgentStays, BrokerStays, MissesStay
<1> QED
  BY <1>1 DEF ArtifactInv

LEMMA StoreOnlyMoves ==
  ASSUME ArtifactInv, ArtifactTypes', StoreSide', time <= time', UNCHANGED <<command, caller>>,
         \A d \in Calls : Traced(d)
  PROVE  ArtifactInv'
<1>1. ASSUME NEW d \in Calls PROVE AgentOf(d)' /\ BrokerOf(d)' /\ MissesOf(d)'
  <2>1. stored \subseteq stored' /\ time' \in Nat
    BY <1>1 DEF Traced, ArtifactTypes
  <2> QED
    BY <1>1, <2>1, AgentStays, BrokerStays, MissesStay
<1> QED
  BY <1>1 DEF ArtifactInv

\* What waits for a put learns how it ended.
LEMMA ToldKeeps ==
  ASSUME ArtifactInv, NEW p \in put, NEW well \in BOOLEAN, Told(p, well), put' = put \ {p},
         StoreSide', meta' \subseteq stored', stored' \subseteq RowType, sweep' = sweep, time' = time,
         stored \subseteq stored', well => \E r \in stored' : r.id = p.id,
         \A r \in stored' : r \in stored \/ (r.id = p.id /\ r.call = p.call)
  PROVE  ArtifactInv'
<1> DEFINE c == p.call
           left == command[c].left
           done == command[c].done
           given == caller[c].left
<1>1. /\ AgentOf(c) /\ BrokerOf(c) /\ MissesOf(c) /\ c \in Calls /\ p \in Puts
      /\ command \in [Calls -> CommandRecord] /\ caller \in [Calls -> CallerRecord]
      /\ command[c] \in CommandRecord /\ caller[c] \in CallerRecord
  BY DEF ArtifactInv, ArtifactTypes, CommandRecord, CallerRecord, Puts
<1>2. \A d \in Calls : Traced(d)
  BY DEF Traced, SamePut
<1>3. /\ \A id : id[1] = c /\ Fresh(id) => FreshNext(id)
      /\ \A a : a.id[1] = c /\ Owed(a) => OwedNext(a)
  BY <1>1, <1>2, OwedStays
<1>4. ASSUME command' \in [Calls -> CommandRecord], caller' \in [Calls -> CallerRecord] PROVE ArtifactTypes'
  <2>1. sweep' \subseteq [row : stored', at : {"rm", "row"}]
    BY DEF ArtifactInv, ArtifactTypes
  <2> QED
    BY <1>4, <2>1 DEF ArtifactInv, ArtifactTypes, CommandRecord, CallerRecord
<1>5. time <= time' /\ time' \in Nat
  BY DEF ArtifactInv, ArtifactTypes
<1>6. CASE command' = command /\ caller' = caller
  <2>1. ArtifactTypes'
    BY <1>1, <1>4, <1>6
  <2> QED
    BY <1>2, <1>5, <1>6, <2>1, StoreOnlyMoves
<1>7. CASE p.by = "agent" /\ command[c].at = "uploading"
  <2>1. BrokerOf(c)' /\ MissesOf(c)' /\ caller' = caller
    BY <1>1, <1>2, <1>5, <1>7, BrokerStays, MissesStay DEF Told
  <2>2. \A q \in put' : q.call = c => q.by # "agent"
    BY SMTT(30), <1>1, <1>7 DEF AgentOf, ArtifactInv, StoreSide
  <2>3. CASE ~well
    <3>1. <<>> \in Seq(Artifact) /\ DOMAIN <<>> = {}
      OBVIOUS
    <3>2. /\ command' \in [Calls -> CommandRecord]
          /\ command'[c] = [at |-> "failed", left |-> <<>>, done |-> <<>>]
          /\ \A d \in Calls \ {c} : command'[d] = command[d]
      <4>1. [at |-> "failed", left |-> <<>>, done |-> <<>>] \in CommandRecord
        BY <3>1 DEF CommandRecord, CommandSteps
      <4>2. command' = [command EXCEPT ![c] = [at |-> "failed", left |-> <<>>, done |-> <<>>]]
        BY <1>7, <2>3 DEF Told
      <4> QED
        BY <1>1, <4>1, <4>2
    <3>3. AgentOf(c)'
      BY <3>1, <3>2 DEF AgentOf
    <3>4. ArtifactTypes'
      BY <1>1, <1>4, <2>1, <3>2
    <3> QED
      BY <1>1, <1>2, <1>5, <2>1, <3>2, <3>3, <3>4, StoreMoves
  <2>4. CASE well
    <3> DEFINE more == Append(done, Head(left))
    <3>1. left \in Seq(Artifact) /\ done \in Seq(Artifact) /\ left # <<>> /\ left[1].size > InlineMax
      BY <1>1, <1>7 DEF CommandRecord, AgentOf
    <3>2. /\ Head(left) = left[1] /\ Head(left) \in Artifact /\ Tail(left) \in Seq(Artifact) /\ 1 \in DOMAIN left
          /\ \A i \in DOMAIN Tail(left) : i + 1 \in DOMAIN left /\ Tail(left)[i] = left[i + 1] /\ i + 1 > 1 /\ i \in Nat
      BY <3>1, HeadAndTail
    <3>3. /\ more \in Seq(Artifact) /\ Len(more) = Len(done) + 1 /\ Len(done) \in Nat
          /\ \A i \in DOMAIN more : \/ i \in DOMAIN done /\ more[i] = done[i]
                                    \/ i = Len(done) + 1 /\ more[i] = left[1]
      BY SMTT(30), <3>1, <3>2, Appended
    <3> HIDE DEF more
    <3>4. command' = [command EXCEPT ![c] = [at |-> "sending", left |-> Tail(@.left), done |-> Append(@.done, Head(@.left))]]
      BY <1>7, <2>4 DEF Told
    <3>5. /\ command' \in [Calls -> CommandRecord]
          /\ command'[c].at = "sending" /\ command'[c].left = Tail(left) /\ command'[c].done = more
          /\ \A d \in Calls \ {c} : command'[d] = command[d]
      <4>1. [at |-> "sending", left |-> Tail(left), done |-> more] \in CommandRecord
        BY <3>2, <3>3 DEF CommandRecord, CommandSteps
      <4> QED
        BY <1>1, <3>4, <4>1 DEF more
    <3>6. \A i \in DOMAIN more : more[i].id = <<c, i>> /\ more[i].call = c /\ OwedNext(more[i])
      <4>1. left[1].id = <<c, Len(done) + 1>> /\ left[1].call = c
        BY <1>1, <3>2 DEF AgentOf
      <4>2. ~(left[1].size <= InlineMax)
        <5>1. InlineMax \in Nat
          BY ArtifactsAssumption DEF ArtifactsAssumption
        <5>2. left[1].size \in Nat
          BY <3>2 DEF Artifact
        <5> QED
          BY <3>1, <5>1, <5>2
      <4>3. OwedNext(left[1])
        BY <1>1, <1>7, <2>4, <4>2 DEF AgentOf, OwedNext
      <4>4. \A i \in DOMAIN done : done[i].id = <<c, i>> /\ done[i].call = c /\ Owed(done[i])
        BY <1>1 DEF AgentOf
      <4>5. \A i \in DOMAIN done : OwedNext(done[i])
        BY <1>3, <4>4
      <4> QED
        BY <3>3, <4>1, <4>3, <4>4, <4>5
    <3>7. \A i \in DOMAIN Tail(left) :
            Tail(left)[i].id = <<c, Len(more) + i>> /\ Tail(left)[i].call = c /\ FreshNext(Tail(left)[i].id)
      <4> SUFFICES ASSUME NEW i \in DOMAIN Tail(left)
                   PROVE  Tail(left)[i].id = <<c, Len(more) + i>> /\ Tail(left)[i].call = c /\ FreshNext(Tail(left)[i].id)
        OBVIOUS
      <4>1. left[i + 1].id = <<c, Len(done) + (i + 1)>> /\ left[i + 1].call = c /\ Fresh(left[i + 1].id)
        BY <1>1, <1>7, <3>2 DEF AgentOf
      <4>2. Len(done) + (i + 1) = Len(more) + i
        <5>1. i \in Nat
          BY <3>2
        <5>2. \A m, n : m \in Nat /\ n = m + 1 => m + (i + 1) = n + i
          BY <5>1
        <5>3. Len(done) \in Nat /\ Len(more) = Len(done) + 1
          BY <3>3
        <5> QED
          BY <5>2, <5>3, Zenon
      <4>3. FreshNext(left[i + 1].id)
        BY <1>3, <4>1
      <4> QED
        BY <3>2, <4>1, <4>2, <4>3
    <3>8. AgentOf(c)'
      BY <2>2, <3>5, <3>6, <3>7 DEF AgentOf, Owed, OwedNext, IsStored, Fresh, FreshNext
    <3>9. ArtifactTypes'
      BY <1>1, <1>4, <2>1, <3>5
    <3> QED
      BY <1>1, <1>2, <1>5, <2>1, <3>5, <3>8, <3>9, StoreMoves
  <2> QED
    BY <2>3, <2>4
<1>8. CASE p.by = "broker"
  <2>1. AgentOf(c)' /\ command' = command
    BY <1>1, <1>2, <1>8, AgentStays DEF Told
  <2>2. /\ caller[c].at = "putting" /\ given # <<>> /\ given \in Seq(Artifact)
        /\ \A q \in put' : q.call = c => q.by # "broker"
    BY <1>1, <1>8 DEF BrokerOf, CallerRecord
  <2>3. CASE ~well
    <3>1. /\ caller' \in [Calls -> CallerRecord] /\ caller'[c].at = "error" /\ caller'[c].left = given
          /\ \A d \in Calls \ {c} : caller'[d] = caller[d]
      <4>1. caller' = [caller EXCEPT ![c].at = "error"]
        BY <1>8, <2>3 DEF Told
      <4> QED
        BY <1>1, <4>1 DEF CallerRecord, CallerSteps
    <3>2. BrokerOf(c)' /\ MissesOf(c)'
      BY <1>1, <2>2, <3>1 DEF BrokerOf, MissesOf
    <3>3. ArtifactTypes'
      BY <1>1, <1>4, <2>1, <3>1
    <3> QED
      BY <1>1, <1>2, <1>5, <2>1, <3>1, <3>2, <3>3, StoreMoves
  <2>4. CASE well
    <3>1. /\ Tail(given) \in Seq(Artifact)
          /\ \A i \in DOMAIN Tail(given) : i + 1 \in DOMAIN given /\ Tail(given)[i] = given[i + 1] /\ i + 1 > 1 /\ i \in Nat
      BY <2>2, HeadAndTail
    <3>2. /\ caller' \in [Calls -> CallerRecord] /\ caller'[c].at = "next" /\ caller'[c].left = Tail(given)
          /\ \A d \in Calls \ {c} : caller'[d] = caller[d]
      <4>1. caller' = [caller EXCEPT ![c].at = "next", ![c].left = Tail(@), ![c].out = @ \cup {p.id}]
        BY <1>8, <2>4 DEF Told
      <4>2. p.id \in Calls \X Nat
        BY <1>1 DEF Puts
      <4> QED
        BY ZenonT(40), <1>1, <3>1, <4>1, <4>2 DEF CallerRecord, CallerSteps
    <3>3. \A i \in DOMAIN Tail(given) : OwedNext(Tail(given)[i]) /\ Tail(given)[i].call = c /\ Tail(given)[i].id[1] = c
      <4> SUFFICES ASSUME NEW i \in DOMAIN Tail(given)
                   PROVE OwedNext(Tail(given)[i]) /\ Tail(given)[i].call = c /\ Tail(given)[i].id[1] = c
        OBVIOUS
      <4>1. Owed(given[i + 1]) /\ given[i + 1].call = c /\ given[i + 1].id[1] = c
        BY <1>1, <2>2, <3>1 DEF BrokerOf
      <4>2. OwedNext(given[i + 1])
        BY <1>3, <4>1
      <4> QED
        BY <3>1, <4>1, <4>2
    <3>4. \A i, j \in DOMAIN Tail(given) : i # j => Tail(given)[i].id # Tail(given)[j].id
      <4> SUFFICES ASSUME NEW i \in DOMAIN Tail(given), NEW j \in DOMAIN Tail(given), i # j
                   PROVE Tail(given)[i].id # Tail(given)[j].id
        OBVIOUS
      <4>1. i + 1 # j + 1
        BY <3>1
      <4> QED
        BY <1>1, <3>1, <4>1 DEF BrokerOf
    <3>5. command'[c].at = "over"
      BY <1>1, <2>1, <2>2 DEF BrokerOf
    <3>6. BrokerOf(c)' /\ MissesOf(c)'
      <4>1. \A a : OwedNext(a) <=> Owed(a)'
        BY DEF Owed, OwedNext, IsStored, Fresh, FreshNext
      <4>2. PICK rest : rest = Tail(given)
        OBVIOUS
      <4>3. /\ caller'[c].left = rest /\ caller'[c].at = "next"
            /\ \A i \in DOMAIN rest : OwedNext(rest[i]) /\ rest[i].call = c /\ rest[i].id[1] = c
            /\ \A i, j \in DOMAIN rest : i # j => rest[i].id # rest[j].id
        BY <3>2, <3>3, <3>4, <4>2
      <4>4. BrokerOf(c)'
        BY <2>2, <3>5, <4>1, <4>3 DEF BrokerOf
      <4> QED
        BY <4>3, <4>4 DEF MissesOf
    <3>7. ArtifactTypes'
      BY <1>1, <1>4, <2>1, <3>2
    <3> QED
      BY <1>1, <1>2, <1>5, <2>1, <3>2, <3>6, <3>7, StoreMoves
  <2> QED
    BY <2>3, <2>4
<1> QED
  BY <1>1, <1>6, <1>7, <1>8 DEF Told, Puts

\* An upload, or an inline artifact, becomes a put.
LEMMA NewPutKeeps ==
  ASSUME ArtifactInv, NEW c \in Calls, NEW a \in Artifact, NEW by \in {"agent", "broker"},
         put' = put \cup {NewPut(a, by)}, Fresh(a.id), a.call = c, a.id[1] = c,
         UNCHANGED <<sweep, meta, file, leaked, stored, time>>
  PROVE  /\ StoreSide' /\ put' \subseteq Puts /\ NewPut(a, by).id = a.id
         /\ NewPut(a, by).call = c /\ NewPut(a, by).by = by
         /\ \A d \in Calls : d # c => Traced(d)
         /\ \A id : Fresh(id) /\ id # a.id => FreshNext(id)
<1> DEFINE p == NewPut(a, by)
<1>1. p \in Puts /\ p.id = a.id /\ p.call = c /\ p.by = by /\ p.at = "check"
  BY DEF NewPut, Puts, Artifact
<1> HIDE DEF p
<1>2. StoreSide'
  BY <1>1 DEF ArtifactInv, StoreSide, Fresh, RowsOf, p
<1>3. \A d \in Calls : d # c => Traced(d)
  BY <1>1 DEF Traced, SamePut, p
<1>4. \A id : Fresh(id) /\ id # a.id => FreshNext(id)
  BY <1>1 DEF Fresh, FreshNext, p
<1> QED
  BY <1>1, <1>2, <1>3, <1>4 DEF ArtifactInv, ArtifactTypes, p

LEMMA UploadKeeps ==
  ASSUME ArtifactInv, NEW c \in Calls, Upload(c)
  PROVE  ArtifactInv'
<1> DEFINE left == command[c].left
           done == command[c].done
<1>1. /\ AgentOf(c) /\ BrokerOf(c) /\ MissesOf(c)
      /\ command \in [Calls -> CommandRecord] /\ caller \in [Calls -> CallerRecord]
      /\ command[c] \in CommandRecord /\ caller[c] \in CallerRecord
  BY DEF ArtifactInv, ArtifactTypes, CommandRecord, CallerRecord
<1>2. /\ command[c].at = "sending" /\ left # <<>> /\ Head(left).size > InlineMax
      /\ caller[c].at = "pending" /\ caller' = caller
      /\ put' = put \cup {NewPut(Head(left), "agent")}
      /\ command' = [command EXCEPT ![c].at = "uploading"]
      /\ UNCHANGED <<sweep, meta, file, leaked, stored, time>>
  BY DEF Upload
<1>3. left \in Seq(Artifact)
  BY <1>1 DEF CommandRecord
<1>4. /\ Head(left) = left[1] /\ left[1] \in Artifact /\ 1 \in DOMAIN left
  BY <1>2, <1>3, HeadAndTail
<1>5. /\ Fresh(left[1].id) /\ left[1].call = c /\ left[1].id[1] = c
      /\ left[1].id = <<c, Len(done) + 1>> /\ Len(done) \in Nat
      /\ \A i \in DOMAIN left : left[i].id = <<c, Len(done) + i>> /\ Fresh(left[i].id) /\ i \in Nat
  BY <1>1, <1>2, <1>3, <1>4 DEF AgentOf, CommandRecord
<1> DEFINE p == NewPut(left[1], "agent")
<1>6. /\ StoreSide' /\ put' \subseteq Puts /\ put' = put \cup {p}
      /\ p.id = left[1].id /\ p.call = c /\ p.by = "agent"
      /\ \A d \in Calls : d # c => Traced(d)
      /\ \A id : Fresh(id) /\ id # left[1].id => FreshNext(id)
  BY <1>2, <1>4, <1>5, NewPutKeeps
<1> HIDE DEF p
<1>7. /\ command' \in [Calls -> CommandRecord] /\ command'[c].at = "uploading"
      /\ command'[c].left = left /\ command'[c].done = done
      /\ \A d \in Calls : d # c => command'[d] = command[d]
  BY <1>1, <1>2 DEF CommandRecord, CommandSteps
<1>8. \A i \in DOMAIN left : i > 1 => FreshNext(left[i].id)
  <2> SUFFICES ASSUME NEW i \in DOMAIN left, i > 1 PROVE FreshNext(left[i].id)
    OBVIOUS
  <2>1. Len(done) + i # Len(done) + 1
    BY <1>5
  <2>2. left[i].id # left[1].id
    BY <1>5, <2>1
  <2> QED
    BY <1>5, <1>6, <2>2
<1>9. \A i \in DOMAIN done : done[i].id = <<c, i>> /\ done[i].call = c /\ OwedNext(done[i])
  <2> SUFFICES ASSUME NEW i \in DOMAIN done PROVE done[i].id = <<c, i>> /\ done[i].call = c /\ OwedNext(done[i])
    OBVIOUS
  <2>1. done[i].id = <<c, i>> /\ done[i].call = c /\ Owed(done[i])
    BY <1>1 DEF AgentOf
  <2>2. i # Len(done) + 1
    <3>1. done \in Seq(Artifact)
      BY <1>1 DEF CommandRecord
    <3> QED
      BY <3>1
  <2>3. done[i].id # left[1].id
    BY <1>5, <2>1, <2>2
  <2>4. \A r \in stored : r \in stored'
    BY <1>2
  <2> QED
    BY <1>6, <2>1, <2>3, <2>4 DEF Owed, OwedNext, IsStored
<1>10. \A q \in put' : q.call = c /\ q.by = "agent" => q.id = left[1].id
  BY <1>1, <1>2, <1>6 DEF AgentOf
<1>11. AgentOf(c)'
  <2>1. left[1].size > InlineMax
    BY <1>2, <1>4
  <2> QED
    BY <1>1, <1>2, <1>7, <1>8, <1>9, <1>10, <2>1 DEF AgentOf, Owed, OwedNext, IsStored, Fresh, FreshNext
<1>12. BrokerOf(c)' /\ MissesOf(c)'
  BY <1>1, <1>2, <1>6 DEF BrokerOf, MissesOf
<1>13. ArtifactTypes'
  BY <1>1, <1>2, <1>6, <1>7 DEF ArtifactInv, ArtifactTypes, CommandRecord, CallerRecord
<1>14. time <= time'
  BY <1>2 DEF ArtifactInv, ArtifactTypes
<1> QED
  BY <1>2, <1>6, <1>7, <1>11, <1>12, <1>13, <1>14, StoreMoves

LEMMA PutsInlineKeeps ==
  ASSUME ArtifactInv, NEW c \in Calls, PutsInline(c)
  PROVE  ArtifactInv'
<1> DEFINE left == caller[c].left
<1>1. /\ AgentOf(c) /\ BrokerOf(c) /\ MissesOf(c)
      /\ command \in [Calls -> CommandRecord] /\ caller \in [Calls -> CallerRecord]
      /\ command[c] \in CommandRecord /\ caller[c] \in CallerRecord
  BY DEF ArtifactInv, ArtifactTypes, CommandRecord, CallerRecord
<1>2. /\ caller[c].at = "next" /\ left # <<>> /\ Head(left).size <= InlineMax
      /\ put' = put \cup {NewPut(Head(left), "broker")} /\ command' = command
      /\ caller' = [caller EXCEPT ![c].at = "putting"]
      /\ UNCHANGED <<sweep, meta, file, leaked, stored, time>>
  BY DEF PutsInline
<1>3. left \in Seq(Artifact)
  BY <1>1 DEF CallerRecord
<1>4. /\ Head(left) = left[1] /\ left[1] \in Artifact /\ 1 \in DOMAIN left
  BY <1>2, <1>3, HeadAndTail
<1>5. Fresh(left[1].id) /\ left[1].call = c /\ left[1].id[1] = c
  BY <1>1, <1>2, <1>4 DEF BrokerOf, Owed
<1> DEFINE p == NewPut(left[1], "broker")
<1>6. /\ StoreSide' /\ put' \subseteq Puts /\ put' = put \cup {p}
      /\ p.id = left[1].id /\ p.call = c /\ p.by = "broker"
      /\ \A d \in Calls : d # c => Traced(d)
      /\ \A id : Fresh(id) /\ id # left[1].id => FreshNext(id)
  BY <1>2, <1>4, <1>5, NewPutKeeps
<1> HIDE DEF p
<1>7. /\ caller' \in [Calls -> CallerRecord] /\ caller'[c].at = "putting" /\ caller'[c].left = left
      /\ \A d \in Calls : d # c => caller'[d] = caller[d]
  BY <1>1, <1>2 DEF CallerRecord, CallerSteps
<1>8. \A i \in DOMAIN left : i > 1 => OwedNext(left[i])
  <2> SUFFICES ASSUME NEW i \in DOMAIN left, i > 1 PROVE OwedNext(left[i])
    OBVIOUS
  <2>1. i # 1
    BY <1>3
  <2>2. left[i].id # left[1].id /\ Owed(left[i])
    BY <1>1, <1>2, <1>4, <2>1 DEF BrokerOf
  <2>3. \A r \in stored : r \in stored'
    BY <1>2
  <2> QED
    BY <1>6, <2>2, <2>3 DEF Owed, OwedNext, IsStored
<1>9. command[c].at = "over" /\ \A q \in put : q.call = c => q.by # "broker"
  BY <1>1, <1>2 DEF BrokerOf
<1>10. BrokerOf(c)' /\ MissesOf(c)'
  BY <1>1, <1>2, <1>6, <1>7, <1>8, <1>9 DEF BrokerOf, MissesOf, Owed, OwedNext, IsStored, Fresh, FreshNext
<1>11. AgentOf(c)'
  BY <1>1, <1>2, <1>6, <1>9 DEF AgentOf
<1>12. ArtifactTypes'
  BY <1>1, <1>2, <1>6, <1>7 DEF ArtifactInv, ArtifactTypes, CommandRecord, CallerRecord
<1>13. time <= time'
  BY <1>2 DEF ArtifactInv, ArtifactTypes
<1> QED
  BY <1>2, <1>6, <1>7, <1>10, <1>11, <1>12, <1>13, StoreMoves

LEMMA CallerEndsKeep ==
  ASSUME ArtifactInv, NEW c \in Calls, Succeeds(c) \/ CallEnds(c)
  PROVE  ArtifactInv'
<1>1. /\ AgentOf(c) /\ BrokerOf(c) /\ caller[c] \in CallerRecord
      /\ command \in [Calls -> CommandRecord] /\ caller \in [Calls -> CallerRecord]
  BY DEF ArtifactInv, ArtifactTypes, CommandRecord, CallerRecord
<1>2. StoreRests /\ command' = command
  BY DEF StoreRests, Succeeds, CallEnds
<1>3. StoreSide' /\ Traced(c)
  BY <1>2, StoreStays
<1>4. /\ caller' \in [Calls -> CallerRecord] /\ caller'[c].left = caller[c].left
      /\ \/ caller'[c].at = "ok" /\ caller[c].at = "next" /\ caller[c].left = <<>>
         \/ caller'[c].at = "error" /\ caller[c].at = "pending"
      /\ \A d \in Calls \ {c} : caller'[d] = caller[d]
  <2>1. CASE Succeeds(c)
    <3>1. caller' = [caller EXCEPT ![c].at = "ok"] /\ caller[c].at = "next" /\ caller[c].left = <<>>
      BY <2>1 DEF Succeeds
    <3> QED
      BY <1>1, <3>1 DEF CallerRecord, CallerSteps
  <2>2. CASE CallEnds(c)
    <3>1. caller' = [caller EXCEPT ![c].at = "error"] /\ caller[c].at = "pending"
      BY <2>2 DEF CallEnds
    <3> QED
      BY <1>1, <3>1 DEF CallerRecord, CallerSteps
  <2> QED
    BY <2>1, <2>2
<1>5. AgentOf(c)'
  BY <1>2, <1>3, AgentStays
<1>6. BrokerOf(c)' /\ MissesOf(c)'
  BY <1>1, <1>2, <1>4 DEF BrokerOf, MissesOf, StoreRests
<1> QED
  BY <1>1, <1>2, <1>4, <1>5, <1>6, AgentMoves

\* Of a sequence of which the head has been dealt with, what the rest owes.
LEMMA RestOwes ==
  ASSUME ArtifactInv, NEW c \in Calls, StoreSide', Traced(c), caller[c].left # <<>>,
         \A i \in DOMAIN caller[c].left : i > 1 => Owed(caller[c].left[i])
  PROVE  /\ Tail(caller[c].left) \in Seq(Artifact)
         /\ \A i \in DOMAIN Tail(caller[c].left) :
              /\ OwedNext(Tail(caller[c].left)[i])
              /\ Tail(caller[c].left)[i].call = c /\ Tail(caller[c].left)[i].id[1] = c
         /\ \A i, j \in DOMAIN Tail(caller[c].left) :
              i # j => Tail(caller[c].left)[i].id # Tail(caller[c].left)[j].id
<1> DEFINE given == caller[c].left
<1>1. BrokerOf(c) /\ given \in Seq(Artifact)
  BY DEF ArtifactInv, ArtifactTypes
<1>2. /\ Tail(given) \in Seq(Artifact)
      /\ \A i \in DOMAIN Tail(given) : i + 1 \in DOMAIN given /\ Tail(given)[i] = given[i + 1] /\ i + 1 > 1 /\ i \in Nat
  BY <1>1, HeadAndTail
<1>3. ASSUME NEW i \in DOMAIN Tail(given)
      PROVE  OwedNext(Tail(given)[i]) /\ Tail(given)[i].call = c /\ Tail(given)[i].id[1] = c
  <2>1. Owed(given[i + 1]) /\ given[i + 1].call = c /\ given[i + 1].id[1] = c
    BY <1>1, <1>2 DEF BrokerOf
  <2>2. OwedNext(given[i + 1])
    BY <2>1, OwedStays
  <2> QED
    BY <1>2, <2>1, <2>2
<1>4. ASSUME NEW i \in DOMAIN Tail(given), NEW j \in DOMAIN Tail(given), i # j
      PROVE  Tail(given)[i].id # Tail(given)[j].id
  <2>1. i + 1 # j + 1
    BY <1>2, <1>4
  <2> QED
    BY <1>1, <1>2, <2>1 DEF BrokerOf
<1> QED
  BY <1>2, <1>3, <1>4

\* Expired rows found by a get or by the cleanup.
LEMMA SweepsExpired ==
  ASSUME ArtifactInv, NEW R, R \subseteq meta, \A r \in R : r.expires <= time,
         sweep' = sweep \cup {[row |-> r, at |-> "rm"] : r \in R},
         UNCHANGED <<put, meta, file, leaked, stored, time>>
  PROVE  /\ StoreSide' /\ \A d \in Calls : Traced(d)
         /\ sweep' \subseteq [row : stored', at : {"rm", "row"}]
<1>1. \A s \in sweep' : s \in sweep \/ \E r \in R : s = [row |-> r, at |-> "rm"]
  OBVIOUS
<1>2. R \subseteq stored
  BY DEF ArtifactInv, ArtifactTypes
<1>3. sweep' \subseteq [row : stored', at : {"rm", "row"}]
  BY <1>1, <1>2 DEF ArtifactInv, ArtifactTypes
<1>4. \A s \in sweep' : s.row.expires <= time' /\ (s.at = "row" => s.row.id \notin file')
  BY <1>1 DEF ArtifactInv, StoreSide
<1>5. StoreSide'
  BY <1>4 DEF ArtifactInv, StoreSide, RowsOf
<1> QED
  BY <1>3, <1>5 DEF Traced, SamePut

LEMMA GetsRowKeeps ==
  ASSUME ArtifactInv, NEW c \in Calls, GetsRow(c)
  PROVE  ArtifactInv'
<1> DEFINE left == caller[c].left
           expired == {r \in RowsOf(Head(left).id) : r.expires <= time}
<1>1. /\ AgentOf(c) /\ BrokerOf(c) /\ caller[c] \in CallerRecord
      /\ command \in [Calls -> CommandRecord] /\ caller \in [Calls -> CallerRecord]
  BY DEF ArtifactInv, ArtifactTypes, CommandRecord, CallerRecord
<1>2. /\ caller[c].at = "next" /\ left # <<>> /\ Head(left).size > InlineMax /\ command' = command
      /\ \/ caller' = [caller EXCEPT ![c].at = "missing"] /\ RowsOf(Head(left).id) \ expired = {}
         \/ caller' = [caller EXCEPT ![c].at = "reading"]
      /\ sweep' = sweep \cup {[row |-> r, at |-> "rm"] : r \in expired}
      /\ UNCHANGED <<put, meta, file, leaked, stored, time>>
  BY DEF GetsRow, Missing
<1>3. left \in Seq(Artifact)
  BY <1>1 DEF CallerRecord
<1>4. Head(left) = left[1] /\ 1 \in DOMAIN left /\ left[1] \in Artifact
  BY <1>2, <1>3, HeadAndTail
<1>5. expired \subseteq meta /\ \A r \in expired : r.expires <= time
  BY DEF RowsOf
<1>6. StoreSide' /\ (\A d \in Calls : Traced(d)) /\ sweep' \subseteq [row : stored', at : {"rm", "row"}]
  BY <1>2, <1>5, SweepsExpired
<1>7. /\ caller' \in [Calls -> CallerRecord] /\ caller'[c].left = left /\ caller'[c].at \in {"missing", "reading"}
      /\ caller'[c].at = "missing" => RowsOf(Head(left).id) \ expired = {}
      /\ \A d \in Calls : d # c => caller'[d] = caller[d]
  <2>1. PICK step \in {"missing", "reading"} :
          /\ caller' = [caller EXCEPT ![c].at = step]
          /\ step = "missing" => RowsOf(Head(left).id) \ expired = {}
    BY <1>2
  <2> QED
    BY <1>1, <2>1 DEF CallerRecord, CallerSteps
<1>8. ~(left[1].size <= InlineMax)
  <2>1. InlineMax \in Nat /\ left[1].size \in Nat
    BY <1>4, ArtifactsAssumption DEF ArtifactsAssumption, Artifact
  <2> QED
    BY <1>2, <1>4, <2>1
<1>9. IsStored(left[1].id)
  BY <1>1, <1>2, <1>4, <1>8 DEF BrokerOf, Owed
<1>10. MissesOf(c)'
  <2>1. SUFFICES ASSUME RowsOf(Head(left).id) \ expired = {} PROVE \E r \in stored : r.id = Head(left).id /\ r.expires <= time
    BY <1>2, <1>7 DEF MissesOf
  <2>2. PICK r \in stored : r.id = Head(left).id
    BY <1>4, <1>9 DEF IsStored
  <2>3. CASE r.expires > time
    BY <2>1, <2>2, <2>3 DEF ArtifactInv, StoreSide, RowsOf
  <2>4. CASE ~(r.expires > time)
    <3>1. r.expires \in Nat /\ time \in Nat
      BY DEF ArtifactInv, ArtifactTypes, RowType
    <3> QED
      BY <2>2, <2>4, <3>1
  <2> QED
    BY <2>3, <2>4
<1>11. AgentOf(c)'
  BY <1>2, <1>6, AgentStays
<1>12. BrokerOf(c)'
  <2>1. left[1].size > InlineMax
    BY <1>2, <1>4
  <2> QED
    BY <1>1, <1>2, <1>7, <2>1 DEF BrokerOf, Owed, IsStored, Fresh
<1>13. ArtifactTypes'
  BY <1>1, <1>2, <1>6, <1>7 DEF ArtifactInv, ArtifactTypes, CommandRecord, CallerRecord
<1>14. time <= time'
  BY <1>2 DEF ArtifactInv, ArtifactTypes
<1> QED
  BY <1>2, <1>6, <1>7, <1>10, <1>11, <1>12, <1>13, <1>14, StoreMoves

\* Rows are taken from the table that no live file stands for.
LEMMA RowsGo ==
  ASSUME ArtifactInv, NEW id, id \notin file, meta' = meta \ RowsOf(id),
         sweep' \subseteq sweep, UNCHANGED <<put, file, leaked, stored, time>>
  PROVE  /\ StoreSide' /\ (\A d \in Calls : Traced(d)) /\ meta' \subseteq stored'
         /\ sweep' \subseteq [row : stored', at : {"rm", "row"}]
<1>1. \A r \in stored' : r.expires > time' => r \in meta' /\ r.id \in file'
  BY DEF ArtifactInv, StoreSide, RowsOf
<1>2. \A f \in file' : RowsOf(f)' # {} \/ f \in leaked' \/ \E p \in put' : p.id = f /\ p.at = "row"
  <2> SUFFICES ASSUME NEW f \in file PROVE {r \in meta' : r.id = f} # {} \/ f \in leaked \/ \E p \in put : p.id = f /\ p.at = "row"
    BY DEF RowsOf
  <2>1. {r \in meta' : r.id = f} = RowsOf(f)
    BY DEF RowsOf
  <2> QED
    BY <2>1 DEF ArtifactInv, StoreSide
<1>3. StoreSide'
  BY <1>1, <1>2 DEF ArtifactInv, StoreSide
<1> QED
  BY <1>3 DEF ArtifactInv, ArtifactTypes, Traced, SamePut

LEMMA GetsFileKeeps ==
  ASSUME ArtifactInv, NEW c \in Calls, GetsFile(c)
  PROVE  ArtifactInv'
<1> DEFINE left == caller[c].left
           id == Head(left).id
<1>1. /\ AgentOf(c) /\ BrokerOf(c) /\ caller[c] \in CallerRecord
      /\ command \in [Calls -> CommandRecord] /\ caller \in [Calls -> CallerRecord]
  BY DEF ArtifactInv, ArtifactTypes, CommandRecord, CallerRecord
<1>2. /\ caller[c].at = "reading" /\ command' = command
      /\ UNCHANGED <<put, sweep, file, leaked, stored, time>>
  BY DEF GetsFile
<1>3. left \in Seq(Artifact) /\ left # <<>> /\ left[1].size > InlineMax
  BY <1>1, <1>2 DEF CallerRecord, BrokerOf
<1>4. Head(left) = left[1] /\ 1 \in DOMAIN left /\ left[1] \in Artifact
  BY <1>3, HeadAndTail
<1>5. time <= time' /\ time' \in Nat
  BY <1>2 DEF ArtifactInv, ArtifactTypes
<1>6. CASE id \in file
  <2>1. /\ caller' = [caller EXCEPT ![c].at = "next", ![c].left = Tail(@), ![c].out = @ \cup {id}]
        /\ meta' = meta
    BY <1>6 DEF GetsFile
  <2>2. StoreRests
    BY <1>2, <2>1 DEF StoreRests
  <2>3. StoreSide' /\ Traced(c)
    BY <2>2, StoreStays
  <2>4. \A i \in DOMAIN left : i > 1 => Owed(left[i])
    BY <1>1, <1>2 DEF BrokerOf
  <2>5. /\ Tail(left) \in Seq(Artifact)
        /\ \A i \in DOMAIN Tail(left) :
             OwedNext(Tail(left)[i]) /\ Tail(left)[i].call = c /\ Tail(left)[i].id[1] = c
        /\ \A i, j \in DOMAIN Tail(left) : i # j => Tail(left)[i].id # Tail(left)[j].id
    BY <1>3, <2>3, <2>4, RestOwes
  <2>6. id \in Calls \X Nat
    BY <1>4 DEF Artifact
  <2>7. /\ caller' \in [Calls -> CallerRecord] /\ caller'[c].at = "next" /\ caller'[c].left = Tail(left)
        /\ \A d \in Calls \ {c} : caller'[d] = caller[d]
    BY ZenonT(40), <1>1, <2>1, <2>5, <2>6 DEF CallerRecord, CallerSteps
  <2>8. AgentOf(c)'
    BY <1>2, <2>3, AgentStays
  <2>9. command[c].at = "over" /\ \A q \in put' : q.call = c => q.by # "broker"
    BY <1>1, <1>2 DEF BrokerOf
  <2>10. BrokerOf(c)' /\ MissesOf(c)'
    BY <1>2, <2>5, <2>7, <2>9 DEF BrokerOf, MissesOf, Owed, OwedNext, IsStored, Fresh, FreshNext
  <2> QED
    BY <1>1, <1>2, <2>2, <2>7, <2>8, <2>10, AgentMoves
<1>7. CASE id \notin file
  <2>1. caller' = [caller EXCEPT ![c].at = "missing"] /\ meta' = meta \ RowsOf(id)
    BY <1>7 DEF GetsFile, Missing
  <2>2. /\ StoreSide' /\ (\A d \in Calls : Traced(d)) /\ meta' \subseteq stored'
        /\ sweep' \subseteq [row : stored', at : {"rm", "row"}]
    BY <1>2, <1>7, <2>1, RowsGo
  <2>3. /\ caller' \in [Calls -> CallerRecord] /\ caller'[c].left = left /\ caller'[c].at = "missing"
        /\ \A d \in Calls : d # c => caller'[d] = caller[d]
    BY <1>1, <2>1 DEF CallerRecord, CallerSteps
  <2>4. ~(left[1].size <= InlineMax)
    <3>1. InlineMax \in Nat /\ left[1].size \in Nat
      BY <1>4, ArtifactsAssumption DEF ArtifactsAssumption, Artifact
    <3> QED
      BY <1>3, <3>1
  <2>5. IsStored(left[1].id)
    BY <1>1, <1>2, <1>4, <2>4 DEF BrokerOf, Owed
  <2>6. MissesOf(c)'
    <3>1. PICK r \in stored : r.id = id
      BY <1>4, <2>5 DEF IsStored
    <3>2. r.expires \in Nat /\ time \in Nat
      BY DEF ArtifactInv, ArtifactTypes, RowType
    <3>3. r.expires <= time
      BY <1>7, <3>1, <3>2 DEF ArtifactInv, StoreSide
    <3> QED
      BY <1>2, <2>3, <3>1, <3>3 DEF MissesOf
  <2>7. AgentOf(c)'
    BY <1>2, <2>2, AgentStays
  <2>8. BrokerOf(c)'
    BY <1>1, <1>2, <2>3 DEF BrokerOf
  <2>9. ArtifactTypes'
    BY <1>1, <1>2, <1>5, <2>2, <2>3 DEF ArtifactInv, ArtifactTypes, CommandRecord, CallerRecord
  <2> QED
    BY <1>2, <1>5, <2>2, <2>3, <2>6, <2>7, <2>8, <2>9, StoreMoves
<1> QED
  BY <1>6, <1>7

\* A put that goes on with the same artifact.
LEMMA PutGoesOn ==
  ASSUME ArtifactInv, NEW p \in put, NEW at \in {"file", "row"},
         put' = (put \ {p}) \cup {[p EXCEPT !.at = at]},
         file' = file \cup (IF at = "row" THEN {p.id} ELSE {}), p.at # "row",
         UNCHANGED <<command, caller, sweep, meta, leaked, stored, time>>
  PROVE  ArtifactInv'
<1> DEFINE q == [p EXCEPT !.at = at]
<1>1. p \in Puts /\ q \in Puts /\ q.id = p.id /\ q.call = p.call /\ q.by = p.by /\ q.at = at
  BY DEF ArtifactInv, ArtifactTypes, Puts
<1>2. put' = (put \ {p}) \cup {q}
  OBVIOUS
<1> HIDE DEF q
<1>3. \A x \in put' : \E y \in put : SamePut(y, x) /\ (x.at = "row" => x.id \in file')
  BY <1>1, <1>2 DEF ArtifactInv, StoreSide, SamePut
<1>4. \A x, y \in put' : x.id = y.id => x = y
  BY <1>1, <1>2 DEF ArtifactInv, StoreSide
<1>5. \A s \in sweep' : s.row.expires <= time' /\ (s.at = "row" => s.row.id \notin file')
  <2>1. \A s \in sweep : s.row \in stored
    BY DEF ArtifactInv, ArtifactTypes
  <2>2. \A s \in sweep : s.row.id # p.id
    BY <2>1 DEF ArtifactInv, StoreSide
  <2> QED
    BY <2>2 DEF ArtifactInv, StoreSide
<1>6. \A id \in file' : RowsOf(id)' # {} \/ id \in leaked' \/ \E x \in put' : x.id = id /\ x.at = "row"
  <2>1. \A id : RowsOf(id)' = RowsOf(id)
    BY DEF RowsOf
  <2>2. ASSUME NEW id \in file, RowsOf(id) = {}, id \notin leaked PROVE \E x \in put' : x.id = id /\ x.at = "row"
    BY <1>2, <2>2 DEF ArtifactInv, StoreSide
  <2>3. CASE at = "row"
    BY <1>1, <1>2, <2>1, <2>2, <2>3
  <2>4. CASE at # "row"
    BY <2>1, <2>2, <2>4
  <2> QED
    BY <2>3, <2>4
<1>7. StoreSide'
  <2>1. \A r \in stored' : r.expires > time' => r \in meta' /\ r.id \in file'
    BY DEF ArtifactInv, StoreSide
  <2>2. \A x \in put' : x.id[1] = x.call /\ \A r \in stored' : x.id # r.id
    BY <1>3 DEF ArtifactInv, StoreSide, SamePut
  <2>3. (\A r \in stored' : r.id[1] = r.call) /\ (\A r, s \in stored' : r.id = s.id => r = s)
    BY DEF ArtifactInv, StoreSide
  <2> QED
    BY <1>3, <1>4, <1>5, <1>6, <2>1, <2>2, <2>3 DEF StoreSide
<1>8. \A d \in Calls : Traced(d)
  BY <1>3 DEF Traced
<1>9. ArtifactTypes'
  BY <1>1, <1>2 DEF ArtifactInv, ArtifactTypes
<1> QED
  BY <1>7, <1>8, <1>9, StoreOnlyMoves DEF ArtifactInv, ArtifactTypes

\* A put that ends without a row; its file, if it has one, is left behind.
LEMMA PutGivesUp ==
  ASSUME ArtifactInv, NEW p \in put, Told(p, FALSE), put' = put \ {p},
         leaked' = IF p.at = "row" THEN leaked \cup {p.id} ELSE leaked,
         UNCHANGED <<sweep, meta, file, stored, time>>
  PROVE  ArtifactInv'
<1>1. \A id \in file' : RowsOf(id)' # {} \/ id \in leaked' \/ \E q \in put' : q.id = id /\ q.at = "row"
  BY DEF ArtifactInv, StoreSide, RowsOf
<1>2. StoreSide'
  BY <1>1 DEF ArtifactInv, StoreSide
<1>3. meta' \subseteq stored' /\ stored' \subseteq RowType
  BY DEF ArtifactInv, ArtifactTypes
<1>4. stored' = stored
  OBVIOUS
<1>5. stored \subseteq stored' /\ \A r \in stored' : r \in stored \/ (r.id = p.id /\ r.call = p.call)
  BY <1>4, Zenon
<1> QED
  BY <1>2, <1>3, <1>5, ToldKeeps

LEMMA PutInsertsKeeps ==
  ASSUME ArtifactInv, NEW p \in put, PutInserts(p)
  PROVE  ArtifactInv'
<1> DEFINE new == [id |-> p.id, call |-> p.call, size |-> p.size, expires |-> time + Lifetime]
<1>1. p \in Puts /\ p.at = "row" /\ time \in Nat /\ Lifetime \in Nat
  BY ArtifactsAssumption DEF ArtifactInv, ArtifactTypes, ArtifactsAssumption, PutInserts
<1>2. new \in RowType /\ new.id = p.id /\ new.call = p.call
  BY <1>1 DEF RowType, Puts
<1>3. /\ meta' = meta \cup {new} /\ stored' = stored \cup {new} /\ put' = put \ {p} /\ Told(p, TRUE)
      /\ UNCHANGED <<sweep, file, leaked, time>>
  BY DEF PutInserts
<1> HIDE DEF new
<1>4. p.id \in file /\ p.id[1] = p.call /\ \A r \in stored : r.id # p.id
  BY <1>1 DEF ArtifactInv, StoreSide
<1>5. /\ \A q \in put' : q.id[1] = q.call /\ (q.at = "row" => q.id \in file')
      /\ \A r \in stored' : r.id[1] = r.call
      /\ \A q, r \in put' : q.id = r.id => q = r
      /\ \A q \in put', r \in stored' : q.id # r.id
      /\ \A r, s \in stored' : r.id = s.id => r = s
      /\ \A r \in stored' : r.expires > time' => r \in meta' /\ r.id \in file'
      /\ \A s \in sweep' : s.row.expires <= time' /\ (s.at = "row" => s.row.id \notin file')
  BY <1>2, <1>3, <1>4 DEF ArtifactInv, StoreSide
<1>6. \A id \in file' : RowsOf(id)' # {} \/ id \in leaked' \/ \E q \in put' : q.id = id /\ q.at = "row"
  <2> SUFFICES ASSUME NEW id \in file PROVE {r \in meta' : r.id = id} # {} \/ id \in leaked \/ \E q \in put' : q.id = id /\ q.at = "row"
    BY <1>3 DEF RowsOf
  <2>1. CASE id = p.id
    BY <1>2, <1>3, <2>1
  <2>2. CASE id # p.id
    BY <1>3, <2>2 DEF ArtifactInv, StoreSide, RowsOf
  <2> QED
    BY <2>1, <2>2
<1>7. StoreSide'
  BY <1>5, <1>6 DEF StoreSide
<1>8. meta' \subseteq stored' /\ stored' \subseteq RowType
  BY <1>2, <1>3 DEF ArtifactInv, ArtifactTypes
<1>9. /\ stored \subseteq stored' /\ (\E r \in stored' : r.id = p.id)
      /\ \A r \in stored' : r \in stored \/ (r.id = p.id /\ r.call = p.call)
  <2>1. new \in stored' /\ stored \subseteq stored'
    BY <1>3
  <2>2. \A r \in stored' : r \in stored \/ r = new
    BY <1>3
  <2>3. \E r \in stored' : r.id = p.id
    <3>1. new.id = p.id
      BY <1>2
    <3> QED
      BY <2>1, <3>1
  <2>4. ASSUME NEW r \in stored', r \notin stored PROVE r.id = p.id /\ r.call = p.call
    <3>1. r = new
      BY <2>2, <2>4
    <3> QED
      BY <1>2, <3>1
  <2> QED
    BY <2>1, <2>3, <2>4
<1> QED
  BY <1>3, <1>7, <1>8, <1>9, ToldKeeps

LEMMA DeletesKeep ==
  ASSUME ArtifactInv, NEW s \in sweep, DeleteFile(s) \/ DeleteRow(s)
  PROVE  ArtifactInv'
<1>1. s.row \in stored /\ s.row.expires <= time
  BY DEF ArtifactInv, ArtifactTypes, StoreSide
<1>2. time' = time /\ UNCHANGED <<command, caller, stored, leaked, put>>
  BY DEF DeleteFile, DeleteRow
<1>3. time \in Nat /\ s.row.expires \in Nat
  BY <1>1 DEF ArtifactInv, ArtifactTypes, RowType
<1>4. CASE DeleteFile(s)
  <2> DEFINE q == [s EXCEPT !.at = "row"]
  <2>1. q.row = s.row /\ q.at = "row" /\ q \in [row : stored, at : {"rm", "row"}]
    BY DEF ArtifactInv, ArtifactTypes
  <2>2. /\ file' = file \ {s.row.id} /\ sweep' = (sweep \ {s}) \cup {q} /\ meta' = meta
    BY <1>4 DEF DeleteFile
  <2> HIDE DEF q
  <2>3. \A r \in stored' : r.expires > time' => r \in meta' /\ r.id \in file'
    <3> SUFFICES ASSUME NEW r \in stored, r.expires > time PROVE r \in meta /\ r.id \in file'
      BY <1>2, <2>2
    <3>1. r.expires \in Nat
      BY DEF ArtifactInv, ArtifactTypes, RowType
    <3>2. r # s.row
      BY <1>1, <1>3, <3>1
    <3>3. r.id # s.row.id
      BY <1>1, <3>2 DEF ArtifactInv, StoreSide
    <3> QED
      BY <2>2, <3>3 DEF ArtifactInv, StoreSide
  <2>4. \A x \in sweep' : x.row.expires <= time' /\ (x.at = "row" => x.row.id \notin file')
    BY <1>1, <1>2, <2>1, <2>2 DEF ArtifactInv, StoreSide
  <2>5. \A id \in file' : RowsOf(id)' # {} \/ id \in leaked' \/ \E x \in put' : x.id = id /\ x.at = "row"
    BY <1>2, <2>2 DEF ArtifactInv, StoreSide, RowsOf
  <2>6. \A p \in put' : p.id[1] = p.call /\ (p.at = "row" => p.id \in file')
    BY <1>1, <1>2, <2>2 DEF ArtifactInv, StoreSide
  <2>7. StoreSide'
    BY <1>2, <2>3, <2>4, <2>5, <2>6 DEF ArtifactInv, StoreSide
  <2>8. ArtifactTypes'
    BY <1>2, <2>1, <2>2 DEF ArtifactInv, ArtifactTypes
  <2>9. \A d \in Calls : Traced(d)
    BY <1>2 DEF Traced, SamePut
  <2> QED
    BY <1>2, <1>3, <2>7, <2>8, <2>9, StoreOnlyMoves
<1>5. CASE DeleteRow(s)
  <2>1. /\ s.row.id \notin file /\ meta' = meta \ RowsOf(s.row.id) /\ sweep' \subseteq sweep
        /\ UNCHANGED <<put, file, leaked, stored, time>>
    BY <1>5 DEF DeleteRow, ArtifactInv, StoreSide
  <2>2. /\ StoreSide' /\ (\A d \in Calls : Traced(d)) /\ meta' \subseteq stored'
        /\ sweep' \subseteq [row : stored', at : {"rm", "row"}]
    BY <2>1, RowsGo
  <2>3. ArtifactTypes'
    BY <1>2, <2>2 DEF ArtifactInv, ArtifactTypes
  <2> QED
    BY <1>2, <1>3, <2>2, <2>3, StoreOnlyMoves
<1> QED
  BY <1>4, <1>5

LEMMA CleanupListsKeeps ==
  ASSUME ArtifactInv, CleanupLists
  PROVE  ArtifactInv'
<1> DEFINE R == {r \in meta : r.expires <= time}
<1>1. /\ sweep' = sweep \cup {[row |-> r, at |-> "rm"] : r \in R}
      /\ UNCHANGED <<command, caller, put, meta, file, leaked, stored, time>>
  BY DEF CleanupLists
<1>2. R \subseteq meta /\ \A r \in R : r.expires <= time
  OBVIOUS
<1> HIDE DEF R
<1>3. StoreSide' /\ (\A d \in Calls : Traced(d)) /\ sweep' \subseteq [row : stored', at : {"rm", "row"}]
  BY <1>1, <1>2, SweepsExpired
<1>4. ArtifactTypes' /\ time <= time'
  BY <1>1, <1>3 DEF ArtifactInv, ArtifactTypes
<1> QED
  BY <1>1, <1>3, <1>4, StoreOnlyMoves

LEMMA TimePassesKeeps ==
  ASSUME ArtifactInv, TimePasses
  PROVE  ArtifactInv'
<1>1. time \in Nat /\ time' \in Nat /\ time <= time'
  BY DEF TimePasses, ArtifactInv, ArtifactTypes
<1>2. UNCHANGED <<command, caller, put, sweep, meta, file, leaked, stored>>
  BY DEF TimePasses
<1>3. \A r \in stored : r.expires \in Nat /\ (r.expires > time' => r.expires > time)
  BY <1>1 DEF ArtifactInv, ArtifactTypes, RowType, TimePasses
<1>4. \A s \in sweep : s.row.expires <= time'
  <2>1. \A s \in sweep : s.row \in stored /\ s.row.expires <= time
    BY DEF ArtifactInv, ArtifactTypes, StoreSide
  <2> QED
    BY <1>1, <1>3, <2>1
<1>5. StoreSide'
  BY <1>2, <1>3, <1>4 DEF ArtifactInv, StoreSide, RowsOf
<1>6. ArtifactTypes' /\ \A d \in Calls : Traced(d)
  BY <1>1, <1>2 DEF ArtifactInv, ArtifactTypes, Traced, SamePut
<1> QED
  BY <1>1, <1>2, <1>5, <1>6, StoreOnlyMoves

LEMMA StoreCrashKeeps ==
  ASSUME ArtifactInv, StoreCrash
  PROVE  ArtifactInv'
<1>1. /\ put' = {} /\ sweep' = {} /\ UNCHANGED <<command, meta, file, stored, time>>
      /\ leaked' = leaked \cup {p.id : p \in {p \in put : p.at = "row"}}
      /\ caller' = [c \in Calls |-> IF caller[c].at \in {"ok", "error", "missing"} THEN caller[c] ELSE [caller[c] EXCEPT !.at = "error"]]
  BY DEF StoreCrash
<1>2. time \in Nat /\ command \in [Calls -> CommandRecord] /\ caller \in [Calls -> CallerRecord]
  BY DEF ArtifactInv, ArtifactTypes, CommandRecord, CallerRecord
<1>3. \A id \in file' : RowsOf(id)' # {} \/ id \in leaked' \/ \E x \in put' : x.id = id /\ x.at = "row"
  BY <1>1 DEF ArtifactInv, StoreSide, RowsOf
<1>4. StoreSide'
  BY <1>1, <1>3 DEF ArtifactInv, StoreSide
<1>5. \A c \in Calls : Traced(c)
  BY <1>1 DEF Traced
<1>6. ASSUME NEW c \in Calls
      PROVE  /\ caller'[c] \in CallerRecord /\ caller'[c].left = caller[c].left
             /\ caller'[c] = caller[c] \/ caller'[c].at = "error"
  BY <1>1, <1>2 DEF CallerRecord, CallerSteps
<1>7. ArtifactTypes'
  <2>1. caller' \in [Calls -> CallerRecord]
    BY <1>1, <1>6
  <2> QED
    BY <1>1, <2>1 DEF ArtifactInv, ArtifactTypes, CallerRecord
<1>8. ASSUME NEW c \in Calls PROVE AgentOf(c)' /\ BrokerOf(c)' /\ MissesOf(c)'
  <2>1. AgentOf(c)'
    BY <1>1, <1>4, <1>5, AgentStays
  <2>2. CASE caller'[c] = caller[c]
    BY <1>1, <1>2, <1>4, <1>5, <2>1, <2>2, BrokerStays, MissesStay
  <2>3. CASE caller'[c].at = "error"
    <3>1. BrokerOf(c)
      BY DEF ArtifactInv
    <3>2. BrokerOf(c)'
      BY <1>1, <1>6, <2>3, <3>1 DEF BrokerOf
    <3> QED
      BY <2>1, <2>3, <3>2 DEF MissesOf
  <2> QED
    BY <1>6, <2>2, <2>3
<1> QED
  BY <1>4, <1>7, <1>8 DEF ArtifactInv

LEMMA ArtifactsStepKeeps ==
  ASSUME ArtifactInv, ArtifactsNext
  PROVE  ArtifactInv'
<1>1. ASSUME NEW c \in Calls,
             \/ Captures(c) \/ Inline(c) \/ Upload(c) \/ UploadFails(c) \/ Result(c)
             \/ PutsInline(c) \/ GetsRow(c) \/ GetsFile(c) \/ Succeeds(c) \/ CallEnds(c)
      PROVE  ArtifactInv'
  BY <1>1, CommandStepsKeep, UploadKeeps, PutsInlineKeeps, GetsRowKeeps, GetsFileKeeps, CallerEndsKeep
<1>2. ASSUME NEW p \in put, PutChecks(p) PROVE ArtifactInv'
  <2>1. /\ p.at = "check" /\ UNCHANGED <<sweep, meta, file, leaked, stored, time>>
        /\ \/ put' = put \ {p} /\ Told(p, FALSE)
           \/ put' = (put \ {p}) \cup {[p EXCEPT !.at = "file"]} /\ UNCHANGED <<command, caller>>
    BY <1>2 DEF PutChecks
  <2>2. CASE put' = put \ {p} /\ Told(p, FALSE)
    BY <2>1, <2>2, PutGivesUp
  <2>3. CASE put' = (put \ {p}) \cup {[p EXCEPT !.at = "file"]} /\ UNCHANGED <<command, caller>>
    BY <2>1, <2>3, PutGoesOn
  <2> QED
    BY <2>1, <2>2, <2>3
<1>3. ASSUME NEW p \in put, PutWritesFile(p) PROVE ArtifactInv'
  BY <1>3, PutGoesOn DEF PutWritesFile
<1>4. ASSUME NEW p \in put, PutFails(p) PROVE ArtifactInv'
  BY <1>4, PutGivesUp DEF PutFails
<1> QED
  BY <1>1, <1>2, <1>3, <1>4, PutInsertsKeeps, DeletesKeep, CleanupListsKeeps, TimePassesKeeps, StoreCrashKeeps,
     ArtifactsNext DEF ArtifactsNext

THEOREM ArtifactInvHolds == ArtifactsSpec => []ArtifactInv
<1>1. ASSUME ArtifactInv, UNCHANGED artifactVars PROVE ArtifactInv'
  <2>1. StoreRests /\ command' = command /\ caller' = caller
    BY <1>1 DEF artifactVars, StoreRests
  <2>2. ArtifactTypes /\ ArtifactTypes'
    BY <1>1, <2>1 DEF ArtifactInv, ArtifactTypes, StoreRests
  <2>3. StoreSide' /\ \A c \in Calls : Traced(c)
    BY <1>1, <2>1, StoreStays
  <2>4. time' \in Nat /\ time <= time' /\ stored \subseteq stored'
    BY <2>1, <2>2 DEF ArtifactTypes, StoreRests
  <2>5. ASSUME NEW c \in Calls PROVE AgentOf(c)' /\ BrokerOf(c)' /\ MissesOf(c)'
    BY <1>1, <2>1, <2>3, <2>4, AgentStays, BrokerStays, MissesStay
  <2> QED
    BY <2>2, <2>3, <2>5 DEF ArtifactInv
<1> QED
  BY <1>1, InitArtifactInv, ArtifactsStepKeeps, PTL DEF ArtifactsSpec

\* FilesHaveRows: put writes the file before the row and deleteRow removes it
\* before the row (store.ts), so that neither outlives the other, whatever fails or crashes in between, but for
\* the files a failed put leaves.
THEOREM FilesHaveRowsHolds == ArtifactsSpec => []FilesHaveRows
<1>1. ArtifactInv => FilesHaveRows
  <2> SUFFICES ASSUME ArtifactInv PROVE FilesHaveRows
    OBVIOUS
  <2>1. \A r \in meta : r \in stored /\ r.expires \in Nat /\ time \in Nat
    BY DEF ArtifactInv, ArtifactTypes, RowType
  <2>2. \A r \in meta : r.id \notin file => r.expires <= time
    BY <2>1 DEF ArtifactInv, StoreSide
  <2> QED
    BY <2>2 DEF ArtifactInv, StoreSide, FilesHaveRows
<1> QED
  BY <1>1, ArtifactInvHolds, PTL

\* UploadReachesCaller: an artifact that the agent uploaded before its result is
\* there when the broker looks for it, or has outlived its time.
THEOREM UploadReachesCallerHolds == ArtifactsSpec => []UploadReachesCaller
<1>1. ArtifactInv => UploadReachesCaller
  BY DEF ArtifactInv, MissesOf, UploadReachesCaller
<1> QED
  BY <1>1, ArtifactInvHolds, PTL

-----------------------------------------------------------------------------
(* Artifacts: the sum of a set of rows                                       *)

\* Induction is by the least counterexample.
LEMMA LeastOfNaturals ==
  ASSUME NEW S \in SUBSET Nat, S # {}
  PROVE  \E m \in S : \A n \in S : m <= n
<1>1. PICK m \in S : \A n \in S : ~ (<<n, m>> \in OpToRel(<, Nat))
  BY NatLessThanWellFounded, WFMin
<1>2. \A n \in S : ~ (n < m)
  BY <1>1 DEF OpToRel
<1> QED
  BY <1>2

\* The sum of a set of rows is the value of a recursive function on its subsets.
First(s) == CHOOSE x \in s : TRUE
Added(g, s) == IF s = {} THEN 0 ELSE First(s).size + g[s \ {First(s)}]
SumFcn(S) == CHOOSE g : g = [s \in SUBSET S |-> Added(g, s)]

LEMMA SumIs == \A S : SumOf(S) = SumFcn(S)[S]
<1> SUFFICES ASSUME NEW S PROVE SumOf(S) = SumFcn(S)[S]
  OBVIOUS
<1>1. SumOf(S) = MapThenFoldSet(+, 0, LAMBDA r : r.size, LAMBDA s : CHOOSE x \in s : TRUE, S)
  BY DEF SumOf, MapThenSumSet
<1>2. SumOf(S) = SumFcn(S)[S]
  BY <1>1 DEF MapThenFoldSet, SumFcn, Added, First
<1> QED
  BY <1>2

LEMMA FirstLeft ==
  ASSUME NEW s, IsFiniteSet(s), s # {}
  PROVE  /\ First(s) \in s
         /\ IsFiniteSet(s \ {First(s)}) /\ Cardinality(s) \in Nat /\ Cardinality(s \ {First(s)}) = Cardinality(s) - 1
         /\ Cardinality(s) > 0
<1>1. First(s) \in s
  BY DEF First
<1> QED
  BY <1>1, FS_RemoveElement, FS_CardinalityType, FS_EmptySet

\* It exists for a finite set: for the subsets of up to n rows, for every n.
LEMMA SumFcnExists ==
  ASSUME NEW S, IsFiniteSet(S)
  PROVE  \A s \in SUBSET S : SumFcn(S)[s] = Added(SumFcn(S), s)
<1> DEFINE Upto(g, n) == \A s \in SUBSET S : Cardinality(s) <= n => g[s] = Added(g, s)
           Bad == {n \in Nat : ~ \E g : Upto(g, n)}
<1>0. \A s \in SUBSET S : IsFiniteSet(s) /\ Cardinality(s) \in Nat /\ Cardinality(s) <= Cardinality(S)
  BY FS_Subset, FS_CardinalityType
<1>1. Bad = {}
  <2> SUFFICES ASSUME Bad # {} PROVE FALSE
    OBVIOUS
  <2>1. PICK m \in Bad : \A n \in Bad : m <= n
    BY LeastOfNaturals
  <2>2. PICK g : m > 0 => Upto(g, m - 1)
    <3>1. CASE m > 0
      <4>1. m - 1 \in Nat /\ m - 1 \notin Bad
        BY <2>1, <3>1
      <4> QED
        BY <4>1
    <3> QED
      BY <3>1, <2>1
  <2> DEFINE h == [s \in SUBSET S |-> Added(g, s)]
  <2>3. ASSUME NEW s \in SUBSET S, Cardinality(s) <= m PROVE h[s] = Added(h, s)
    <3>1. CASE s = {}
      BY <3>1 DEF Added
    <3>2. CASE s # {}
      <4> DEFINE rest == s \ {First(s)}
      <4>1. rest \in SUBSET S /\ Cardinality(rest) = Cardinality(s) - 1 /\ Cardinality(s) \in Nat /\ Cardinality(s) > 0
        BY <1>0, <3>2, FirstLeft
      <4>2. m > 0 /\ Cardinality(rest) <= m - 1
        BY <2>1, <2>3, <4>1
      <4>3. g[rest] = Added(g, rest)
        BY <2>2, <4>1, <4>2
      <4>4. h[rest] = g[rest]
        BY <4>1, <4>3
      <4>5. h[s] = First(s).size + g[rest]
        BY <3>2 DEF Added
      <4> HIDE DEF h, rest
      <4>6. h[s] = First(s).size + h[rest]
        BY <4>4, <4>5
      <4> QED
        BY <3>2, <4>6 DEF Added, rest
    <3> QED
      BY <3>1, <3>2
  <2>4. Upto(h, m)
    BY <2>3
  <2> QED
    BY <2>1, <2>4
<1>2. PICK g : Upto(g, Cardinality(S))
  BY <1>0, <1>1
<1> DEFINE h == [s \in SUBSET S |-> g[s]]
<1>3. ASSUME NEW s \in SUBSET S PROVE Added(h, s) = g[s]
  <2>1. g[s] = Added(g, s)
    BY <1>0, <1>2
  <2>2. Added(g, s) = Added(h, s)
    BY DEF Added
  <2> QED
    BY <2>1, <2>2
<1>4. h = [s \in SUBSET S |-> Added(h, s)]
  BY <1>3
<1> HIDE DEF h
<1>5. SumFcn(S) = [s \in SUBSET S |-> Added(SumFcn(S), s)]
  BY <1>4 DEF SumFcn
<1> QED
  BY <1>5

\* The functions of two sets agree on the subsets of both.
LEMMA SumFcnAgrees ==
  ASSUME NEW S, IsFiniteSet(S), NEW T \in SUBSET S
  PROVE  \A s \in SUBSET T : SumFcn(S)[s] = SumFcn(T)[s]
<1> DEFINE Bad == {n \in Nat : \E s \in SUBSET T : Cardinality(s) = n /\ SumFcn(S)[s] # SumFcn(T)[s]}
<1>1. IsFiniteSet(T) /\ \A s \in SUBSET T : s \in SUBSET S /\ IsFiniteSet(s) /\ Cardinality(s) \in Nat
  BY FS_Subset, FS_CardinalityType
<1> SUFFICES ASSUME Bad # {} PROVE FALSE
  BY <1>1
<1>2. PICK m \in Bad : \A n \in Bad : m <= n
  BY LeastOfNaturals
<1>3. PICK s \in SUBSET T : Cardinality(s) = m /\ SumFcn(S)[s] # SumFcn(T)[s]
  BY <1>2
<1>4. SumFcn(S)[s] = Added(SumFcn(S), s) /\ SumFcn(T)[s] = Added(SumFcn(T), s)
  BY <1>1, SumFcnExists
<1>5. s # {}
  BY <1>3, <1>4 DEF Added
<1> DEFINE rest == s \ {First(s)}
<1>6. rest \in SUBSET T /\ Cardinality(rest) = m - 1 /\ m - 1 \in Nat
  BY <1>1, <1>2, <1>3, <1>5, FirstLeft
<1>7. SumFcn(S)[rest] = SumFcn(T)[rest]
  <2>1. m - 1 \notin Bad
    BY <1>2, <1>6
  <2> QED
    BY <1>6, <2>1
<1> QED
  BY <1>3, <1>4, <1>5, <1>7 DEF Added

LEMMA SumOfNone == SumOf({}) = 0
<1>1. SumFcn({})[{}] = Added(SumFcn({}), {})
  BY SumFcnExists, FS_EmptySet
<1> QED
  BY <1>1, SumIs DEF Added

\* The sum of a set is that of one row and of the rest: of the row the definition
\* chooses first, and so of any.
LEMMA SumOfFirst ==
  ASSUME NEW S, IsFiniteSet(S), S # {}
  PROVE  SumOf(S) = First(S).size + SumOf(S \ {First(S)})
<1> DEFINE rest == S \ {First(S)}
<1>1. SumOf(S) = SumFcn(S)[S] /\ SumOf(rest) = SumFcn(rest)[rest]
  BY SumIs
<1>2. SumFcn(S)[S] = First(S).size + SumFcn(S)[rest]
  BY SumFcnExists DEF Added
<1>3. SumFcn(S)[rest] = SumFcn(rest)[rest]
  BY SumFcnAgrees
<1> QED
  BY <1>1, <1>2, <1>3

Weighed(S) == IsFiniteSet(S) /\ \A x \in S : x.size \in Nat

LEMMA WeighedParts ==
  ASSUME NEW S, Weighed(S)
  PROVE  /\ \A T \in SUBSET S : Weighed(T)
         /\ \A x \in S : Cardinality(S \ {x}) = Cardinality(S) - 1
         /\ Cardinality(S) \in Nat /\ (Cardinality(S) = 0 <=> S = {})
BY FS_Subset, FS_RemoveElement, FS_CardinalityType, FS_EmptySet DEF Weighed

LEMMA SumOfType == \A S : Weighed(S) => SumOf(S) \in Nat
<1> DEFINE Bad == {n \in Nat : \E S : Weighed(S) /\ Cardinality(S) = n /\ SumOf(S) \notin Nat}
<1> SUFFICES ASSUME Bad # {} PROVE FALSE
  BY WeighedParts
<1>1. PICK m \in Bad : \A n \in Bad : m <= n
  BY LeastOfNaturals
<1>2. PICK S : Weighed(S) /\ Cardinality(S) = m /\ SumOf(S) \notin Nat
  BY <1>1
<1>3. S # {}
  BY <1>2, SumOfNone
<1> DEFINE rest == S \ {First(S)}
<1>4. First(S) \in S /\ First(S).size \in Nat
  BY <1>2, <1>3 DEF First, Weighed
<1>5. Weighed(rest) /\ Cardinality(rest) = m - 1 /\ m - 1 \in Nat
  BY <1>1, <1>2, <1>3, <1>4, WeighedParts
<1>6. SumOf(rest) \in Nat
  <2>1. m - 1 \notin Bad
    BY <1>1, <1>5
  <2> QED
    BY <1>5, <2>1
<1>7. SumOf(S) = First(S).size + SumOf(rest)
  BY <1>2, <1>3, SumOfFirst DEF Weighed
<1> QED
  BY <1>2, <1>4, <1>6, <1>7

LEMMA SumOfAny ==
  \A S : Weighed(S) => \A x \in S : SumOf(S) = x.size + SumOf(S \ {x})
<1> DEFINE Bad == {n \in Nat : \E S : Weighed(S) /\ Cardinality(S) = n /\ \E x \in S : SumOf(S) # x.size + SumOf(S \ {x})}
<1> SUFFICES ASSUME Bad # {} PROVE FALSE
  BY WeighedParts
<1>1. PICK m \in Bad : \A n \in Bad : m <= n
  BY LeastOfNaturals
<1>2. PICK S : Weighed(S) /\ Cardinality(S) = m /\ \E x \in S : SumOf(S) # x.size + SumOf(S \ {x})
  BY <1>1
<1>3. PICK x \in S : SumOf(S) # x.size + SumOf(S \ {x})
  BY <1>2
<1>4. PICK y \in S : y = First(S)
  BY <1>3 DEF First
<1>5. SumOf(S) = y.size + SumOf(S \ {y})
  BY <1>2, <1>3, <1>4, SumOfFirst DEF Weighed
<1>6. x # y
  BY <1>3, <1>5
<1>7. /\ Weighed(S \ {x}) /\ Weighed(S \ {y}) /\ Weighed(S \ {x, y})
      /\ Cardinality(S \ {x}) = m - 1 /\ Cardinality(S \ {y}) = m - 1 /\ m - 1 \in Nat
      /\ x.size \in Nat /\ y.size \in Nat
  <2>1. Weighed(S \ {x}) /\ Weighed(S \ {y}) /\ Weighed(S \ {x, y})
    BY <1>2, WeighedParts
  <2>2. Cardinality(S \ {x}) = m - 1 /\ Cardinality(S \ {y}) = m - 1 /\ m - 1 \in Nat
    BY <1>1, <1>2, <1>3, WeighedParts
  <2> QED
    BY <1>2, <2>1, <2>2 DEF Weighed
<1>8. m - 1 \notin Bad
  BY <1>1, <1>7
<1>9. /\ SumOf(S \ {x}) = y.size + SumOf((S \ {x}) \ {y})
      /\ SumOf(S \ {y}) = x.size + SumOf((S \ {y}) \ {x})
  BY <1>6, <1>7, <1>8
<1>10. (S \ {x}) \ {y} = S \ {x, y} /\ (S \ {y}) \ {x} = S \ {x, y}
  OBVIOUS
<1>11. PICK z \in Nat : z = SumOf(S \ {x, y})
  BY <1>7, SumOfType
<1>12. SumOf(S \ {x}) = y.size + z /\ SumOf(S \ {y}) = x.size + z
  BY <1>9, <1>10, <1>11
<1>13. x.size + (y.size + z) = y.size + (x.size + z)
  BY <1>7
<1> QED
  BY <1>3, <1>5, <1>12, <1>13

\* A row more weighs its size more, and fewer rows weigh no more.
LEMMA SumOfOneMore ==
  ASSUME NEW S, Weighed(S), NEW x, x \notin S, x.size \in Nat
  PROVE  Weighed(S \cup {x}) /\ SumOf(S \cup {x}) = x.size + SumOf(S)
<1>1. Weighed(S \cup {x})
  BY FS_AddElement DEF Weighed
<1>2. (S \cup {x}) \ {x} = S
  OBVIOUS
<1> QED
  BY <1>1, <1>2, SumOfAny

LEMMA SumOfFewer ==
  \A S : Weighed(S) => \A T \in SUBSET S : SumOf(T) <= SumOf(S)
<1> DEFINE Bad == {n \in Nat : \E S : Weighed(S) /\ Cardinality(S) = n /\ \E T \in SUBSET S : ~ (SumOf(T) <= SumOf(S))}
<1> SUFFICES ASSUME Bad # {} PROVE FALSE
  BY WeighedParts
<1>1. PICK m \in Bad : \A n \in Bad : m <= n
  BY LeastOfNaturals
<1>2. PICK S : Weighed(S) /\ Cardinality(S) = m /\ \E T \in SUBSET S : ~ (SumOf(T) <= SumOf(S))
  BY <1>1
<1>3. PICK T \in SUBSET S : ~ (SumOf(T) <= SumOf(S))
  BY <1>2
<1>4. SumOf(S) \in Nat /\ SumOf(T) \in Nat
  BY <1>2, SumOfType, WeighedParts
<1>5. PICK x \in S : x \notin T
  <2>1. S # T
    BY <1>3, <1>4
  <2> QED
    BY <2>1
<1>6. Weighed(S \ {x}) /\ Cardinality(S \ {x}) = m - 1 /\ m - 1 \in Nat /\ T \in SUBSET (S \ {x})
  BY <1>1, <1>2, <1>5, WeighedParts
<1>7. SumOf(T) <= SumOf(S \ {x})
  <2>1. m - 1 \notin Bad
    BY <1>1, <1>6
  <2> QED
    BY <1>6, <2>1
<1>8. SumOf(S) = x.size + SumOf(S \ {x}) /\ x.size \in Nat /\ SumOf(S \ {x}) \in Nat
  BY <1>2, <1>6, SumOfAny, SumOfType DEF Weighed
<1> QED
  BY <1>3, <1>4, <1>7, <1>8

-----------------------------------------------------------------------------
(* Artifacts: the quota                                                      *)

\* A call has one put under way, the agent's while the gateway waits for its result.
OnePutEach == \A p, q \in put : p.call = q.call => p = q
EarlyUploads == \A p \in put : p.by = "agent" => caller[p.call].at \in {"pending", "error"}
PutsAreSerial == OnePutEach /\ EarlyUploads

\* A put past its check leaves room for its row.
LeavesRoom == \A p \in put : p.at # "check" => Aggregate(p.call) + p.size <= AggregateMax
QuotaInv == PutsAreSerial /\ IsFiniteSet(meta) /\ QuotaHolds /\ LeavesRoom

\* A step that begins no put keeps them serial if no caller with an upload under way
\* goes on.
LEMMA SerialKept ==
  ASSUME PutsAreSerial, \A q \in put' : \E p \in put : SamePut(p, q),
         \A p, q \in put' : p.call = q.call => p = q,
         \A p \in put : p.by = "agent" /\ caller[p.call].at \in {"pending", "error"} =>
           caller'[p.call].at \in {"pending", "error"}
  PROVE  PutsAreSerial'
<1>1. OnePutEach'
  BY DEF OnePutEach
<1>2. ASSUME NEW q \in put', q.by = "agent" PROVE caller'[q.call].at \in {"pending", "error"}
  <2>1. PICK p \in put : SamePut(p, q)
    BY <1>2
  <2>2. p.call = q.call /\ p.by = "agent"
    BY <1>2, <2>1 DEF SamePut
  <2>3. caller[p.call].at \in {"pending", "error"}
    BY <2>2 DEF PutsAreSerial, EarlyUploads
  <2> QED
    BY <2>2, <2>3
<1> QED
  BY <1>1, <1>2 DEF PutsAreSerial, EarlyUploads

\* A put that begins is the only one of its call.
LEMMA SerialBegins ==
  ASSUME PutsAreSerial, NEW p, put' = put \cup {p}, \A q \in put : q.call # p.call,
         p.by = "agent" => caller'[p.call].at \in {"pending", "error"},
         \A q \in put : caller'[q.call] = caller[q.call]
  PROVE  PutsAreSerial'
<1>1. OnePutEach'
  BY DEF PutsAreSerial, OnePutEach
<1>2. EarlyUploads'
  BY DEF PutsAreSerial, EarlyUploads
<1> QED
  BY <1>1, <1>2 DEF PutsAreSerial

LEMMA PutRecords ==
  ASSUME ArtifactInv
  PROVE  /\ \A p \in put : p \in Puts /\ p.call \in Calls /\ AgentOf(p.call) /\ BrokerOf(p.call)
         /\ caller \in [Calls -> CallerRecord] /\ command \in [Calls -> CommandRecord]
         /\ \A c \in Calls : AgentOf(c) /\ BrokerOf(c)
BY DEF ArtifactInv, ArtifactTypes, Puts, CallerRecord, CommandRecord

\* Whose caller does not wait for its result any more has no upload under way.
LEMMA NoUploads ==
  ASSUME ArtifactInv, PutsAreSerial, NEW c \in Calls,
         caller[c].at \notin {"pending", "error"} \/ command[c].at = "sending"
  PROVE  \A p \in put : p.call = c => p.by # "agent"
BY PutRecords DEF PutsAreSerial, EarlyUploads, AgentOf

LEMMA SerialStep ==
  ASSUME ArtifactInv, PutsAreSerial, ArtifactsNext
  PROVE  PutsAreSerial'
<1>0. \A p, q \in put : p.call = q.call => p = q
  BY DEF PutsAreSerial, OnePutEach
<1>1. ASSUME put' = put, \A p \in put : p.by = "agent" /\ caller[p.call].at \in {"pending", "error"} =>
                                     caller'[p.call].at \in {"pending", "error"}
      PROVE  PutsAreSerial'
  <2>1. \A q \in put' : \E p \in put : SamePut(p, q)
    BY <1>1 DEF SamePut
  <2> QED
    BY <1>0, <1>1, <2>1, SerialKept
<1>2. ASSUME put' = put, caller' = caller PROVE PutsAreSerial'
  BY <1>1, <1>2
<1>3. ASSUME NEW c \in Calls, Captures(c) \/ Inline(c) \/ UploadFails(c) PROVE PutsAreSerial'
  BY <1>2, <1>3 DEF Captures, Inline, UploadFails
<1>4. ASSUME NEW c \in Calls, Upload(c) PROVE PutsAreSerial'
  <2> DEFINE p == NewPut(Head(command[c].left), "agent")
  <2>1. /\ put' = put \cup {p} /\ caller' = caller /\ caller[c].at = "pending"
        /\ command[c].at = "sending" /\ command[c].left # <<>>
    BY <1>4 DEF Upload
  <2>2. p.call = c /\ p.by = "agent"
    <3>1. command[c].left \in Seq(Artifact) /\ AgentOf(c)
      BY PutRecords DEF CommandRecord
    <3>2. Head(command[c].left) = command[c].left[1] /\ 1 \in DOMAIN command[c].left
      BY <2>1, <3>1, HeadAndTail
    <3> QED
      BY <3>1, <3>2 DEF AgentOf, NewPut
  <2>3. \A q \in put : q.call # c
    <3>1. \A q \in put : q.call = c => q.by # "agent" /\ q.by # "broker"
      BY <2>1, PutRecords, NoUploads DEF BrokerOf
    <3> QED
      BY <3>1, PutRecords DEF Puts
  <2> HIDE DEF p
  <2> QED
    BY <2>1, <2>2, <2>3, SerialBegins
<1>5. ASSUME NEW c \in Calls, Result(c) PROVE PutsAreSerial'
  <2>1. CASE command[c].at = "failed"
    <3>1. put' = put /\ \A d \in Calls : caller'[d].at = caller[d].at \/ caller'[d].at = "error"
      BY <1>5, <2>1, PutRecords DEF Result
    <3> QED
      BY <1>1, <3>1, PutRecords
  <2>2. CASE command[c].at = "sending"
    <3>1. put' = put /\ \A d \in Calls \ {c} : caller'[d] = caller[d]
      BY <1>5, <2>2, PutRecords DEF Result
    <3>2. \A p \in put : p.call = c => p.by # "agent"
      BY <2>2, NoUploads
    <3> QED
      BY <1>1, <3>1, <3>2, PutRecords
  <2> QED
    BY <1>5, <2>1, <2>2 DEF Result
<1>6. ASSUME NEW c \in Calls, PutsInline(c) PROVE PutsAreSerial'
  <2> DEFINE p == NewPut(Head(caller[c].left), "broker")
  <2>1. /\ put' = put \cup {p} /\ caller[c].at = "next" /\ caller[c].left # <<>>
        /\ \A d \in Calls \ {c} : caller'[d] = caller[d]
    BY <1>6, PutRecords DEF PutsInline
  <2>2. p.call = c /\ p.by = "broker"
    <3>1. caller[c].left \in Seq(Artifact) /\ BrokerOf(c)
      BY PutRecords DEF CallerRecord
    <3>2. Head(caller[c].left) = caller[c].left[1] /\ 1 \in DOMAIN caller[c].left
      BY <2>1, <3>1, HeadAndTail
    <3> QED
      BY <3>1, <3>2 DEF BrokerOf, NewPut
  <2>3. \A q \in put : q.call # c
    <3>1. \A q \in put : q.call = c => q.by # "agent" /\ q.by # "broker"
      BY <2>1, PutRecords, NoUploads DEF BrokerOf
    <3> QED
      BY <3>1, PutRecords DEF Puts
  <2>4. \A q \in put : caller'[q.call] = caller[q.call]
    BY <2>1, <2>3, PutRecords
  <2> HIDE DEF p
  <2> QED
    BY <2>1, <2>2, <2>3, <2>4, SerialBegins
<1>7. ASSUME NEW c \in Calls, GetsRow(c) \/ GetsFile(c) \/ Succeeds(c) PROVE PutsAreSerial'
  <2>1. /\ put' = put /\ caller[c].at \in {"next", "reading"}
        /\ \A d \in Calls \ {c} : caller'[d] = caller[d]
    BY <1>7, PutRecords DEF GetsRow, GetsFile, Succeeds, Missing
  <2> QED
    BY <1>1, <2>1, PutRecords
<1>8. ASSUME NEW c \in Calls, CallEnds(c) PROVE PutsAreSerial'
  <2>1. put' = put /\ \A d \in Calls : caller'[d].at = caller[d].at \/ caller'[d].at = "error"
    BY <1>8, PutRecords DEF CallEnds
  <2> QED
    BY <1>1, <2>1, PutRecords
<1>9. ASSUME NEW p \in put, PutChecks(p) \/ PutWritesFile(p) \/ PutInserts(p) \/ PutFails(p) PROVE PutsAreSerial'
  <2>1. \/ put' = put \ {p}
        \/ \E at \in {"file", "row"} : put' = (put \ {p}) \cup {[p EXCEPT !.at = at]}
    BY <1>9 DEF PutChecks, PutWritesFile, PutInserts, PutFails
  <2>2. \A q \in put' : \E r \in put : SamePut(r, q)
    <3>1. \A at : SamePut(p, [p EXCEPT !.at = at])
      BY PutRecords DEF SamePut, Puts
    <3> QED
      BY <2>1, <3>1 DEF SamePut
  <2>3. \A q, r \in put' : q.call = r.call => q = r
    <3>1. \A at : [p EXCEPT !.at = at].call = p.call
      BY PutRecords DEF Puts
    <3> QED
      BY <1>0, <2>1, <3>1
  <2>4. \A r \in put : r.by = "agent" => caller'[r.call] = caller[r.call]
    <3>1. CASE p.by = "agent"
      <4>1. caller' = caller
        BY <1>9, <3>1 DEF PutChecks, PutWritesFile, PutInserts, PutFails, Told
      <4> QED
        BY <4>1
    <3>2. CASE p.by # "agent"
      <4>1. \A d \in Calls \ {p.call} : caller'[d] = caller[d]
        BY <1>9, <3>2, PutRecords DEF PutChecks, PutWritesFile, PutInserts, PutFails, Told
      <4>2. \A r \in put : r.by = "agent" => r.call # p.call
        BY <1>0, <3>2
      <4> QED
        BY <4>1, <4>2, PutRecords
    <3> QED
      BY <3>1, <3>2
  <2> QED
    BY <2>2, <2>3, <2>4, SerialKept
<1>10. CASE StoreCrash
  BY <1>10 DEF StoreCrash, PutsAreSerial, OnePutEach, EarlyUploads
<1>11. CASE TimePasses \/ CleanupLists
  BY <1>2, <1>11 DEF TimePasses, CleanupLists
<1>12. ASSUME NEW s \in sweep, DeleteFile(s) \/ DeleteRow(s) PROVE PutsAreSerial'
  BY <1>2, <1>12 DEF DeleteFile, DeleteRow
<1> QED
  BY <1>3, <1>4, <1>5, <1>6, <1>7, <1>8, <1>9, <1>10, <1>11, <1>12 DEF ArtifactsNext

RowsOfCall(rows, c) == {r \in rows : r.call = c}

LEMMA AggregateIs ==
  /\ \A c : Aggregate(c) = SumOf(RowsOfCall(meta, c))
  /\ \A c : Aggregate(c)' = SumOf(RowsOfCall(meta', c))
BY DEF Aggregate, RowsOfCall

LEMMA RowsAreWeighed ==
  ASSUME NEW rows, rows \subseteq RowType, IsFiniteSet(rows)
  PROVE  Weighed(rows) /\ \A c : Weighed(RowsOfCall(rows, c)) /\ SumOf(RowsOfCall(rows, c)) \in Nat
<1>1. Weighed(rows)
  BY DEF Weighed, RowType
<1>2. \A c : RowsOfCall(rows, c) \in SUBSET rows
  BY DEF RowsOfCall
<1>3. \A c : Weighed(RowsOfCall(rows, c))
  BY <1>1, <1>2, WeighedParts
<1> QED
  BY <1>1, <1>3, SumOfType

LEMMA MetaRows ==
  ASSUME ArtifactInv
  PROVE  meta \subseteq stored /\ meta \subseteq RowType /\ stored \subseteq RowType
BY DEF ArtifactInv, ArtifactTypes

\* Rows that go leave more room.
LEMMA QuotaShrinks ==
  ASSUME ArtifactInv, QuotaInv, PutsAreSerial', meta' \subseteq meta,
         \A q \in put' : q.at # "check" =>
           \/ \E p \in put : p.at # "check" /\ p.call = q.call /\ p.size = q.size
           \/ Aggregate(q.call) + q.size <= AggregateMax,
         \A q \in put' : q.size \in Nat
  PROVE  QuotaInv'
<1>1. IsFiniteSet(meta) /\ IsFiniteSet(meta') /\ meta \subseteq RowType
  BY MetaRows, FS_Subset DEF QuotaInv
<1>2. /\ \A c : SumOf(RowsOfCall(meta', c)) <= SumOf(RowsOfCall(meta, c))
      /\ \A c : SumOf(RowsOfCall(meta', c)) \in Nat /\ SumOf(RowsOfCall(meta, c)) \in Nat
  <2>1. \A c : RowsOfCall(meta', c) \in SUBSET RowsOfCall(meta, c)
    BY DEF RowsOfCall
  <2>2. meta' \subseteq RowType
    BY <1>1
  <2>3. \A c : Weighed(RowsOfCall(meta, c)) /\ SumOf(RowsOfCall(meta, c)) \in Nat /\ SumOf(RowsOfCall(meta', c)) \in Nat
    BY <1>1, <2>2, RowsAreWeighed
  <2> QED
    BY <2>1, <2>3, SumOfFewer
<1>3. \A c : Aggregate(c)' <= Aggregate(c) /\ Aggregate(c)' \in Nat /\ Aggregate(c) \in Nat
  BY <1>2, AggregateIs
<1>4. AggregateMax \in Nat
  BY ArtifactsAssumption
<1>5. QuotaHolds'
  <2>1. \A c \in Calls : Aggregate(c) <= AggregateMax
    BY DEF QuotaInv, QuotaHolds
  <2> SUFFICES ASSUME NEW c \in Calls PROVE Aggregate(c)' <= AggregateMax
    BY DEF QuotaHolds
  <2> QED
    BY <1>3, <1>4, <2>1
<1>6. LeavesRoom'
  <2> SUFFICES ASSUME NEW q \in put', q.at # "check" PROVE Aggregate(q.call)' + q.size <= AggregateMax
    BY DEF LeavesRoom
  <2>1. Aggregate(q.call) + q.size <= AggregateMax
    BY DEF QuotaInv, LeavesRoom
  <2> QED
    BY <1>3, <1>4, <2>1
<1> QED
  BY <1>1, <1>5, <1>6 DEF QuotaInv

\* A row more, of the call whose put made room for it.
LEMMA QuotaGrows ==
  ASSUME ArtifactInv, QuotaInv, PutsAreSerial', NEW p \in put, PutInserts(p)
  PROVE  QuotaInv'
<1> DEFINE newRow == [id |-> p.id, call |-> p.call, size |-> p.size, expires |-> time + Lifetime]
<1>1. /\ meta' = meta \cup {newRow} /\ put' = put \ {p} /\ p.at = "row"
      /\ newRow.call = p.call /\ newRow.size = p.size /\ newRow.id = p.id /\ p.size \in Nat /\ newRow \in RowType
      /\ \A q \in put : q \in Puts
  <2>1. p \in Puts /\ \A q \in put : q \in Puts
    BY PutRecords
  <2>2. time + Lifetime \in Nat
    <3>1. Lifetime \in Nat
      BY ArtifactsAssumption
    <3>2. time \in Nat
      BY DEF ArtifactInv, ArtifactTypes
    <3> QED
      BY <3>1, <3>2
  <2>3. meta' = meta \cup {newRow}
    BY DEF PutInserts
  <2>6. put' = put \ {p} /\ p.at = "row"
    BY DEF PutInserts
  <2>4. newRow.call = p.call /\ newRow.size = p.size /\ newRow.id = p.id
    OBVIOUS
  <2>5. p.size \in Nat /\ newRow \in RowType
    BY <2>1, <2>2 DEF Puts, RowType
  <2> QED
    BY <2>1, <2>3, <2>4, <2>5, <2>6
<1>2. newRow \notin meta
  BY <1>1, MetaRows DEF ArtifactInv, StoreSide
<1> HIDE DEF newRow
<1>3. IsFiniteSet(meta) /\ IsFiniteSet(meta') /\ meta \subseteq RowType /\ meta' \subseteq RowType
  BY <1>1, MetaRows, FS_AddElement DEF QuotaInv
<1>4. \A c : SumOf(RowsOfCall(meta, c)) \in Nat /\ Weighed(RowsOfCall(meta, c))
  BY <1>3, RowsAreWeighed
<1>5. ASSUME NEW c, c # p.call PROVE Aggregate(c)' = Aggregate(c)
  <2>1. RowsOfCall(meta', c) = RowsOfCall(meta, c)
    BY <1>1, <1>5 DEF RowsOfCall
  <2> QED
    BY <2>1, AggregateIs
<1>6. Aggregate(p.call)' = p.size + Aggregate(p.call) /\ Aggregate(p.call) \in Nat
  <2>1. RowsOfCall(meta', p.call) = RowsOfCall(meta, p.call) \cup {newRow} /\ newRow \notin RowsOfCall(meta, p.call)
    BY <1>1, <1>2 DEF RowsOfCall
  <2>2. SumOf(RowsOfCall(meta, p.call) \cup {newRow}) = newRow.size + SumOf(RowsOfCall(meta, p.call))
    BY <1>1, <1>4, <2>1, SumOfOneMore
  <2> QED
    BY <1>1, <1>4, <2>1, <2>2, AggregateIs
<1>7. AggregateMax \in Nat
  BY ArtifactsAssumption
<1>8. QuotaHolds'
  <2> SUFFICES ASSUME NEW c \in Calls PROVE Aggregate(c)' <= AggregateMax
    BY DEF QuotaHolds
  <2>1. CASE c # p.call
    BY <1>5, <2>1 DEF QuotaInv, QuotaHolds
  <2>2. CASE c = p.call
    <3>1. Aggregate(p.call) + p.size <= AggregateMax
      BY <1>1 DEF QuotaInv, LeavesRoom
    <3> QED
      BY <1>1, <1>6, <1>7, <2>2, <3>1
  <2> QED
    BY <2>1, <2>2
<1>9. LeavesRoom'
  <2> SUFFICES ASSUME NEW q \in put', q.at # "check" PROVE Aggregate(q.call)' + q.size <= AggregateMax
    BY DEF LeavesRoom
  <2>1. q \in put /\ q.call # p.call
    BY <1>1 DEF QuotaInv, PutsAreSerial, OnePutEach
  <2> QED
    BY <1>5, <2>1 DEF QuotaInv, LeavesRoom
<1> QED
  BY <1>3, <1>8, <1>9 DEF QuotaInv

LEMMA QuotaStep ==
  ASSUME ArtifactInv, ArtifactInv', QuotaInv, ArtifactsNext
  PROVE  QuotaInv'
<1>1. PutsAreSerial'
  BY SerialStep DEF QuotaInv
<1>2. \A q \in put' : q.size \in Nat
  BY DEF ArtifactInv, ArtifactTypes, Puts
<1>3. ASSUME meta' \subseteq meta, \A q \in put' : q \in put \/ q.at = "check" PROVE QuotaInv'
  BY <1>1, <1>2, <1>3, QuotaShrinks
<1>4. ASSUME NEW c \in Calls,
             \/ Captures(c) \/ Inline(c) \/ Upload(c) \/ UploadFails(c) \/ Result(c)
             \/ PutsInline(c) \/ GetsRow(c) \/ GetsFile(c) \/ Succeeds(c) \/ CallEnds(c)
      PROVE  QuotaInv'
  <2>1. meta' \subseteq meta
    BY <1>4 DEF Captures, Inline, Upload, UploadFails, Result, PutsInline, GetsRow, GetsFile, Succeeds, CallEnds
  <2>2. put' = put \/ \E a, by : put' = put \cup {NewPut(a, by)}
    BY <1>4 DEF Captures, Inline, Upload, UploadFails, Result, PutsInline, GetsRow, GetsFile, Succeeds, CallEnds
  <2>3. \A a, by : NewPut(a, by).at = "check"
    BY DEF NewPut
  <2> QED
    BY <1>3, <2>1, <2>2, <2>3
<1>5. ASSUME NEW p \in put, PutChecks(p) PROVE QuotaInv'
  <2>1. CASE put' = put \ {p}
    BY <1>3, <1>5, <2>1 DEF PutChecks
  <2>2. CASE put' # put \ {p}
    <3> DEFINE q == [p EXCEPT !.at = "file"]
    <3>1. /\ ~ (p.size > ArtifactMax \/ Aggregate(p.call) + p.size > AggregateMax)
          /\ put' = (put \ {p}) \cup {q} /\ meta' = meta
      BY <1>5, <2>2 DEF PutChecks
    <3>2. p.size \in Nat /\ q.call = p.call /\ q.size = p.size /\ p.call \in Calls
      BY PutRecords DEF Puts
    <3>3. Aggregate(p.call) \in Nat /\ AggregateMax \in Nat
      <4>1. SumOf(RowsOfCall(meta, p.call)) \in Nat
        BY MetaRows, RowsAreWeighed DEF QuotaInv
      <4> QED
        BY <4>1, AggregateIs, ArtifactsAssumption
    <3>4. Aggregate(p.call) + p.size <= AggregateMax
      BY <3>1, <3>2, <3>3
    <3> HIDE DEF q
    <3>5. \A r \in put' : r.at # "check" =>
            \/ \E s \in put : s.at # "check" /\ s.call = r.call /\ s.size = r.size
            \/ Aggregate(r.call) + r.size <= AggregateMax
      BY <3>1, <3>2, <3>4
    <3> QED
      BY <1>1, <1>2, <3>1, <3>5, QuotaShrinks
  <2> QED
    BY <2>1, <2>2
<1>6. ASSUME NEW p \in put, PutWritesFile(p) PROVE QuotaInv'
  <2> DEFINE q == [p EXCEPT !.at = "row"]
  <2>1. put' = (put \ {p}) \cup {q} /\ meta' = meta /\ p.at = "file"
    BY <1>6 DEF PutWritesFile
  <2>2. q.call = p.call /\ q.size = p.size
    BY PutRecords DEF Puts
  <2> HIDE DEF q
  <2>3. \A r \in put' : r.at # "check" => \E s \in put : s.at # "check" /\ s.call = r.call /\ s.size = r.size
    BY <2>1, <2>2
  <2> QED
    BY <1>1, <1>2, <2>1, <2>3, QuotaShrinks
<1>7. ASSUME NEW p \in put, PutInserts(p) PROVE QuotaInv'
  BY <1>1, <1>7, QuotaGrows
<1>8. ASSUME NEW p \in put, PutFails(p) PROVE QuotaInv'
  BY <1>3, <1>8 DEF PutFails
<1>9. CASE StoreCrash \/ TimePasses \/ CleanupLists
  BY <1>3, <1>9 DEF StoreCrash, TimePasses, CleanupLists
<1>10. ASSUME NEW s \in sweep, DeleteFile(s) \/ DeleteRow(s) PROVE QuotaInv'
  BY <1>3, <1>10 DEF DeleteFile, DeleteRow
<1> QED
  BY <1>4, <1>5, <1>6, <1>7, <1>8, <1>9, <1>10 DEF ArtifactsNext

LEMMA InitQuotaInv == ArtifactsInit => QuotaInv
<1> SUFFICES ASSUME ArtifactsInit PROVE QuotaInv
  OBVIOUS
<1>1. meta = {} /\ put = {}
  BY DEF ArtifactsInit
<1>2. \A c : Aggregate(c) = 0
  <2>1. \A c : RowsOfCall(meta, c) = {}
    BY <1>1 DEF RowsOfCall
  <2> QED
    BY <2>1, AggregateIs, SumOfNone
<1>3. 0 <= AggregateMax
  BY ArtifactsAssumption
<1>4. IsFiniteSet(meta)
  BY <1>1, FS_EmptySet
<1>5. QuotaHolds
  BY <1>2, <1>3 DEF QuotaHolds
<1> QED
  BY <1>1, <1>4, <1>5 DEF QuotaInv, PutsAreSerial, OnePutEach, EarlyUploads, LeavesRoom

\* QuotaHolds: the stored artifacts of a call never weigh more than the aggregate limit,
\* although it is checked two awaits before the row that it counts (put): no call ever
\* has two puts under way, because the agent awaits each upload and the broker stores
\* what was inline after the result and one by one.
THEOREM QuotaIsKept == ArtifactsSpec => []QuotaHolds
<1>1. QuotaInv /\ UNCHANGED artifactVars => QuotaInv'
  BY DEF QuotaInv, PutsAreSerial, OnePutEach, EarlyUploads, LeavesRoom, QuotaHolds, Aggregate, artifactVars
<1>2. QuotaInv => QuotaHolds
  BY DEF QuotaInv
<1> QED
  BY <1>1, <1>2, InitQuotaInv, QuotaStep, ArtifactInvHolds, PTL DEF ArtifactsSpec

-----------------------------------------------------------------------------
(* Run checkpoints: merging and trimming                                     *)

\* Payloads whose entries are in E.
Payload(p, E) == p.verified \in Seq(E) /\ p.pending \in Seq(E) /\ p.searched \in Seq(E)
Lists == {"verified", "pending", "searched"}
HasLists(p) == DOMAIN p = Lists

\* What the end of a list has, the list has.
LEMMA TailKeeps ==
  ASSUME NEW E, NEW s \in Seq(E), s # <<>>
  PROVE  Tail(s) \in Seq(E) /\ Len(Tail(s)) = Len(s) - 1 /\ Len(s) > 0
OBVIOUS

LEMMA NewestKeeps ==
  ASSUME NEW E, NEW s \in Seq(E), NEW n \in Nat
  PROVE  /\ Newest(s, n) \in Seq(E)
         /\ Newest(s, n) = s \/ Len(Newest(s, n)) = n
<1>1. CASE Len(s) > n
  <2>1. Newest(s, n) = SubSeq(s, Len(s) - n + 1, Len(s))
    BY <1>1 DEF Newest
  <2>2. Len(s) - n + 1 \in 1 .. Len(s) + 1 /\ Len(s) \in Nat
    BY <1>1
  <2>3. SubSeq(s, Len(s) - n + 1, Len(s)) \in Seq(E)
    BY <2>2
  <2>4. Len(SubSeq(s, Len(s) - n + 1, Len(s))) = n
    BY <2>2
  <2> QED
    BY <2>1, <2>3, <2>4
<1> QED
  BY <1>1 DEF Newest

\* The entries of a list stay, and what is new is in it.
Joined(acc, x) == IF Contains(acc, x) THEN acc ELSE Append(acc, x)

\* union is the value of a recursive function on the places of what comes in.
Joining(g, a, b, s) == IF s = {} THEN a ELSE LET x == Max(s) IN Joined(g[s \ {x}], b[x])
UnionFcn(a, b) == CHOOSE g : g = [s \in SUBSET DOMAIN b |-> Joining(g, a, b, s)]

LEMMA UnionIs ==
  ASSUME NEW a, NEW b PROVE Union(a, b) = UnionFcn(a, b)[DOMAIN b]
BY DEF Union, FoldLeft, MapThenFoldSet, Joined, UnionFcn, Joining

LEMMA UnionOfNone ==
  ASSUME NEW a PROVE Union(a, <<>>) = a
<1>1. DOMAIN <<>> = {}
  OBVIOUS
<1>2. [s \in SUBSET {} |-> a] = [s \in SUBSET {} |-> Joining([t \in SUBSET {} |-> a], a, <<>>, s)]
  BY DEF Joining
<1>3. UnionFcn(a, <<>>) = [s \in SUBSET {} |-> Joining(UnionFcn(a, <<>>), a, <<>>, s)]
  BY <1>1, <1>2 DEF UnionFcn
<1> QED
  BY <1>1, <1>3, UnionIs DEF Joining

LEMMA UnionOfOne ==
  ASSUME NEW a, NEW e PROVE Union(a, <<e>>) = Joined(a, e)
<1> DEFINE F == [s \in SUBSET {1} |-> IF s = {} THEN a ELSE Joined(a, e)]
<1>1. DOMAIN <<e>> = {1} /\ (<<e>>)[1] = e
  OBVIOUS
<1>2. Max({1}) = 1
  BY DEF Max
<1>3. F = [s \in SUBSET {1} |-> Joining(F, a, <<e>>, s)]
  <2>1. ASSUME NEW s \in SUBSET {1} PROVE F[s] = Joining(F, a, <<e>>, s)
    <3>1. CASE s = {}
      BY <3>1 DEF Joining
    <3>2. CASE s = {1}
      <4>1. F[{}] = a /\ {1} \ {1} = {} /\ F[{1}] = Joined(a, e)
        OBVIOUS
      <4> HIDE DEF F
      <4> QED
        BY <1>1, <1>2, <3>2, <4>1 DEF Joining
    <3> QED
      BY <3>1, <3>2
  <2> QED
    BY <2>1
<1> HIDE DEF F
<1>4. UnionFcn(a, <<e>>) = [s \in SUBSET {1} |-> Joining(UnionFcn(a, <<e>>), a, <<e>>, s)]
  BY <1>1, <1>3 DEF UnionFcn
<1>5. UnionFcn(a, <<e>>)[{}] = a
  BY <1>4 DEF Joining
<1>6. UnionFcn(a, <<e>>)[{1}] = Joined(UnionFcn(a, <<e>>)[{}], e)
  <2>1. {1} \ {1} = {} /\ {1} # {} /\ {1} \in SUBSET {1}
    OBVIOUS
  <2> QED
    BY <1>1, <1>2, <1>4, <2>1 DEF Joining
<1> QED
  BY <1>1, <1>5, <1>6, UnionIs

LEMMA JoinedKeeps ==
  ASSUME NEW E, NEW a \in Seq(E), NEW e \in E
  PROVE  Joined(a, e) \in Seq(E) /\ ToSet(Joined(a, e)) = ToSet(a) \cup {e}
<1>1. CASE Contains(a, e)
  BY <1>1 DEF Joined, Contains, ToSet
<1>2. CASE ~ Contains(a, e)
  <2>1. Joined(a, e) = Append(a, e)
    BY <1>2 DEF Joined
  <2>2. /\ Append(a, e) \in Seq(E) /\ Len(Append(a, e)) = Len(a) + 1
        /\ Append(a, e)[Len(a) + 1] = e /\ \A i \in 1 .. Len(a) : Append(a, e)[i] = a[i]
        /\ DOMAIN a = 1 .. Len(a) /\ DOMAIN Append(a, e) = 1 .. Len(a) + 1 /\ Len(a) \in Nat
    OBVIOUS
  <2>3. ToSet(Append(a, e)) = ToSet(a) \cup {e}
    BY <2>2 DEF ToSet
  <2> QED
    BY <2>1, <2>2, <2>3
<1> QED
  BY <1>1, <1>2

\* What shortening leaves.
Counting(g, p, n) == IF n = 0 THEN p ELSE ShorterBy(g[n - 1], Longest(g[n - 1]))
ShorterFcn(p) == CHOOSE g : g = [n \in Nat |-> Counting(g, p, n)]

LEMMA ShortenedIs ==
  ASSUME NEW p, NEW n PROVE Shortened(n, p) = ShorterFcn(p)[n]
BY DEF Shortened, ShorterFcn, Counting

\* It exists: for the first n entries, for every n.
LEMMA ShorterFcnExists ==
  ASSUME NEW p
  PROVE  \A n \in Nat : ShorterFcn(p)[n] = Counting(ShorterFcn(p), p, n)
<1> DEFINE Upto(g, n) == \A k \in 0 .. n : g[k] = Counting(g, p, k)
           Bad == {n \in Nat : ~ \E g : Upto(g, n)}
           Good(n) == CHOOSE g : Upto(g, n)
           h == [n \in Nat |-> Good(n)[n]]
<1>1. Bad = {}
  <2> SUFFICES ASSUME Bad # {} PROVE FALSE
    OBVIOUS
  <2>1. PICK m \in Bad : \A n \in Bad : m <= n
    BY LeastOfNaturals
  <2>2. PICK g : m > 0 => Upto(g, m - 1)
    <3>1. CASE m > 0
      <4>1. m - 1 \in Nat /\ m - 1 \notin Bad
        BY <2>1, <3>1
      <4> QED
        BY <4>1
    <3> QED
      BY <3>1, <2>1
  <2> DEFINE f == [n \in Nat |-> IF n = m THEN Counting(g, p, m) ELSE g[n]]
  <2>3. ASSUME NEW k \in 0 .. m PROVE f[k] = Counting(f, p, k)
    <3>1. m \in Nat /\ k \in Nat
      BY <2>1, <2>3
    <3>2. f[k] = Counting(g, p, k)
      BY <2>2, <3>1
    <3>3. k # 0 => k - 1 \in Nat /\ k - 1 # m
      BY <2>3, <3>1
    <3>4. k # 0 => f[k - 1] = g[k - 1]
      BY <3>3
    <3> HIDE DEF f
    <3> QED
      BY <3>2, <3>4 DEF Counting
  <2>4. Upto(f, m)
    BY <2>3
  <2> QED
    BY <2>1, <2>4
<1>2. ASSUME NEW n \in Nat PROVE Upto(Good(n), n)
  <2>1. \E g : Upto(g, n)
    BY <1>1
  <2> QED
    BY <2>1
<1>3. ASSUME NEW n \in Nat, NEW m \in Nat, n <= m PROVE Good(n)[n] = Good(m)[n]
  <2> HIDE DEF Good
  <2> DEFINE Apart == {k \in Nat : k <= n /\ Good(n)[k] # Good(m)[k]}
  <2> SUFFICES ASSUME Apart # {} PROVE FALSE
    BY <1>3
  <2>1. PICK k \in Apart : \A j \in Apart : k <= j
    BY LeastOfNaturals
  <2>2. k \in 0 .. n /\ k \in 0 .. m /\ k \in Nat
    BY <1>3, <2>1
  <2>3. Good(n)[k] = Counting(Good(n), p, k) /\ Good(m)[k] = Counting(Good(m), p, k)
    BY <1>2, <2>2
  <2>4. k # 0
    BY <2>1, <2>3 DEF Counting
  <2>5. k - 1 \in Nat /\ k - 1 <= n /\ k - 1 \notin Apart
    BY <1>3, <2>1, <2>2, <2>4
  <2>6. Good(n)[k - 1] = Good(m)[k - 1]
    BY <2>5
  <2> QED
    BY <2>1, <2>3, <2>4, <2>6 DEF Counting
<1>4. ASSUME NEW n \in Nat PROVE h[n] = Counting(h, p, n)
  <2>1. h[n] = Good(n)[n] /\ Good(n)[n] = Counting(Good(n), p, n)
    BY <1>2
  <2>2. n # 0 => h[n - 1] = Good(n)[n - 1]
    <3>1. n # 0 => n - 1 \in Nat /\ n - 1 <= n
      OBVIOUS
    <3> HIDE DEF Good
    <3> QED
      BY <1>3, <3>1
  <2> HIDE DEF h, Good
  <2> QED
    BY <2>1, <2>2 DEF Counting
<1> HIDE DEF Good
<1>5. h = [n \in Nat |-> Counting(h, p, n)]
  BY <1>4
<1> HIDE DEF h
<1>6. ShorterFcn(p) = [n \in Nat |-> Counting(ShorterFcn(p), p, n)]
  BY <1>5 DEF ShorterFcn
<1> QED
  BY <1>6

\* Of the lists one is longest.
LEMMA LongestIs ==
  ASSUME NEW p, NEW E, Payload(p, E)
  PROVE  Longest(p) \in Lists /\ \A name \in Lists : Len(p[name]) <= Len(p[Longest(p)])
<1> DEFINE IsLongest(k) == /\ \A j \in 1 .. 3 : Len(p[DropOrder[j]]) <= Len(p[DropOrder[k]])
                           /\ \A j \in 1 .. k - 1 : Len(p[DropOrder[j]]) < Len(p[DropOrder[k]])
<1>1. /\ DropOrder[1] = "verified" /\ DropOrder[2] = "pending" /\ DropOrder[3] = "searched"
      /\ 1 .. 3 = {1, 2, 3}
  BY DEF DropOrder
<1>2. \A name \in Lists : Len(p[name]) \in Nat
  BY DEF Payload, Lists
<1>3. \E k \in 1 .. 3 : IsLongest(k)
  <2> DEFINE u == Len(p["verified"])  v == Len(p["pending"])  w == Len(p["searched"])
  <2>1. u \in Nat /\ v \in Nat /\ w \in Nat
    BY <1>2 DEF Lists
  <2>2. /\ Len(p[DropOrder[1]]) = u /\ Len(p[DropOrder[2]]) = v /\ Len(p[DropOrder[3]]) = w
    BY <1>1
  <2> HIDE DEF u, v, w
  <2>3. CASE v <= u /\ w <= u
    <3>1. IsLongest(1)
      BY <2>1, <2>2, <2>3, <1>1
    <3> QED
      BY <3>1
  <2>4. CASE u < v /\ w <= v
    <3>1. IsLongest(2)
      BY <2>1, <2>2, <2>4, <1>1
    <3> QED
      BY <3>1
  <2>5. CASE u < w /\ v < w
    <3>1. IsLongest(3)
      BY <2>1, <2>2, <2>5, <1>1
    <3> QED
      BY <3>1
  <2> QED
    BY <2>1, <2>3, <2>4, <2>5
<1>4. PICK k \in 1 .. 3 : IsLongest(k) /\ Longest(p) = DropOrder[k]
  BY <1>3 DEF Longest
<1>5. Longest(p) \in Lists
  BY <1>1, <1>4 DEF Lists
<1>6. \A name \in Lists : \E j \in 1 .. 3 : name = DropOrder[j]
  BY <1>1 DEF Lists
<1> QED
  BY <1>4, <1>5, <1>6

LEMMA SizeType ==
  ASSUME NEW E, NEW p, Payload(p, E)
  PROVE  Size(p) \in Nat
<1>1. p.verified \in Seq(E) /\ p.pending \in Seq(E) /\ p.searched \in Seq(E)
  BY DEF Payload
<1>2. PICK u \in Nat, v \in Nat, w \in Nat : u = Len(p.verified) /\ v = Len(p.pending) /\ w = Len(p.searched)
  BY <1>1
<1>3. Size(p) = u + v + w
  BY <1>2 DEF Size
<1> QED
  BY <1>3

\* One entry less.
LEMMA ShorterKeeps ==
  ASSUME NEW E, NEW p, Payload(p, E), HasLists(p), Size(p) > 0
  PROVE  LET q == ShorterBy(p, Longest(p)) IN
         /\ Payload(q, E) /\ HasLists(q) /\ Size(q) = Size(p) - 1
<1> DEFINE name == Longest(p)
           q == ShorterBy(p, name)
<1>1. name \in Lists /\ \A other \in Lists : Len(p[other]) <= Len(p[name])
  BY LongestIs
<1>2. /\ p["verified"] \in Seq(E) /\ p["pending"] \in Seq(E) /\ p["searched"] \in Seq(E)
      /\ Size(p) = Len(p["verified"]) + Len(p["pending"]) + Len(p["searched"])
  BY DEF Payload, Size
<1>3. p[name] \in Seq(E) /\ p[name] # <<>>
  <2>1. CASE p[name] = <<>>
    <3>1. Len(p["verified"]) = 0 /\ Len(p["pending"]) = 0 /\ Len(p["searched"]) = 0
      <4>1. Len(p["verified"]) <= 0 /\ Len(p["pending"]) <= 0 /\ Len(p["searched"]) <= 0
        BY <1>1, <2>1 DEF Lists
      <4> QED
        BY <1>2, <4>1
    <3> QED
      BY <1>2, <3>1
  <2> QED
    BY <1>1, <1>2, <2>1 DEF Lists
<1>4. Tail(p[name]) \in Seq(E) /\ Len(Tail(p[name])) = Len(p[name]) - 1 /\ Len(p[name]) \in Nat
  BY <1>3, TailKeeps
<1>5. DOMAIN q = Lists /\ \A other \in Lists : q[other] = IF other = name THEN Tail(p[name]) ELSE p[other]
  BY <1>1 DEF ShorterBy, HasLists
<1>6. /\ q.verified = IF "verified" = name THEN Tail(p[name]) ELSE p["verified"]
      /\ q.pending = IF "pending" = name THEN Tail(p[name]) ELSE p["pending"]
      /\ q.searched = IF "searched" = name THEN Tail(p[name]) ELSE p["searched"]
  BY <1>5 DEF Lists
<1> HIDE DEF q, name
<1>7. Payload(q, E)
  BY <1>2, <1>4, <1>6 DEF Payload
<1>8. Size(q) = Size(p) - 1
  <2>1. PICK u \in Nat, v \in Nat, w \in Nat :
          u = Len(p["verified"]) /\ v = Len(p["pending"]) /\ w = Len(p["searched"])
    BY <1>2
  <2>2. Size(p) = u + v + w
    BY <1>2, <2>1
  <2>3. CASE name = "verified"
    <3>1. Len(q.verified) = u - 1 /\ Len(q.pending) = v /\ Len(q.searched) = w
      BY <1>4, <1>6, <2>1, <2>3
    <3> QED
      BY <2>1, <2>2, <3>1 DEF Size
  <2>4. CASE name = "pending"
    <3>1. Len(q.verified) = u /\ Len(q.pending) = v - 1 /\ Len(q.searched) = w
      BY <1>4, <1>6, <2>1, <2>4
    <3> QED
      BY <2>1, <2>2, <3>1 DEF Size
  <2>5. CASE name = "searched"
    <3>1. Len(q.verified) = u /\ Len(q.pending) = v /\ Len(q.searched) = w - 1
      BY <1>4, <1>6, <2>1, <2>5
    <3> QED
      BY <2>1, <2>2, <3>1 DEF Size
  <2> QED
    BY <1>1, <2>3, <2>4, <2>5 DEF Lists
<1> QED
  BY <1>5, <1>7, <1>8 DEF q, name, HasLists

LEMMA ShortenedKeeps ==
  ASSUME NEW E, NEW p, Payload(p, E), HasLists(p)
  PROVE  \A n \in 0 .. Size(p) : /\ Payload(Shortened(n, p), E) /\ HasLists(Shortened(n, p))
                                 /\ Size(Shortened(n, p)) = Size(p) - n
<1> DEFINE Ok(n) == /\ Payload(Shortened(n, p), E) /\ HasLists(Shortened(n, p))
                    /\ Size(Shortened(n, p)) = Size(p) - n
           Bad == {n \in 0 .. Size(p) : ~ Ok(n)}
<1> SUFFICES ASSUME Bad # {} PROVE FALSE
  OBVIOUS
<1>1. Size(p) \in Nat
  BY SizeType
<1>2. PICK m \in Bad : \A n \in Bad : m <= n
  <2>1. Bad \in SUBSET Nat
    BY <1>1
  <2> QED
    BY <2>1, LeastOfNaturals
<1>3. m \in Nat /\ m <= Size(p) /\ ~ Ok(m)
  BY <1>1, <1>2
<1>4. m # 0
  <2>1. Shortened(0, p) = p
    BY ShortenedIs, ShorterFcnExists DEF Counting
  <2> QED
    BY <1>1, <1>3, <2>1
<1>5. Ok(m - 1)
  <2>1. m - 1 \in 0 .. Size(p) /\ m - 1 \notin Bad
    BY <1>1, <1>2, <1>3, <1>4
  <2> QED
    BY <2>1
<1> DEFINE r == Shortened(m - 1, p)
<1>6. Shortened(m, p) = ShorterBy(r, Longest(r))
  BY <1>3, <1>4, ShortenedIs, ShorterFcnExists DEF Counting
<1>7. Payload(r, E) /\ HasLists(r) /\ Size(r) = Size(p) - (m - 1)
  BY <1>5
<1>8. Size(r) > 0
  BY <1>1, <1>3, <1>7
<1> HIDE DEF r
<1>9. /\ Payload(Shortened(m, p), E) /\ HasLists(Shortened(m, p)) 
      /\ Size(Shortened(m, p)) = Size(r) - 1
  BY <1>6, <1>7, <1>8, ShorterKeeps
<1>10. Size(r) - 1 = Size(p) - m
  BY <1>1, <1>3, <1>7
<1> QED
  BY <1>3, <1>9, <1>10

\* Trimming keeps within the bounds, adds nothing, and of a payload that has room for
\* more takes nothing away.
LEMMA TrimmedFits ==
  ASSUME NEW E, NEW p, Payload(p, E), HasLists(p)
  PROVE  LET q == TrimToBounds(p) IN
         /\ Payload(q, E) /\ Size(q) <= MaxBytes
         /\ ~ Full(q) => q.verified = p.verified
<1> DEFINE capped == [name \in DOMAIN p |-> Newest(p[name], MaxIds)]
<1>1. MaxIds \in Nat /\ MaxBytes \in Nat
  BY RunsAssumption
<1>2. /\ capped.verified = Newest(p.verified, MaxIds) /\ capped.pending = Newest(p.pending, MaxIds)
      /\ capped.searched = Newest(p.searched, MaxIds) /\ DOMAIN capped = Lists
  BY DEF HasLists, Lists
<1>3. TrimToBounds(p) = IF Size(capped) > MaxBytes THEN Shortened(Size(capped) - MaxBytes, capped) ELSE capped
  BY DEF TrimToBounds
<1> HIDE DEF capped
<1>4. Payload(capped, E) /\ HasLists(capped)
  BY <1>1, <1>2, NewestKeeps DEF Payload, HasLists
<1>5. capped.verified = p.verified \/ Len(capped.verified) = MaxIds
  BY <1>1, <1>2, NewestKeeps DEF Payload
<1>6. Size(capped) \in Nat
  BY <1>4, SizeType
<1>7. CASE Size(capped) > MaxBytes
  <2> DEFINE n == Size(capped) - MaxBytes
  <2>1. n \in 0 .. Size(capped) /\ Size(capped) - n = MaxBytes
    BY <1>1, <1>6, <1>7
  <2>2. Payload(Shortened(n, capped), E) /\ Size(Shortened(n, capped)) = MaxBytes
    BY <1>4, <2>1, ShortenedKeeps
  <2> QED
    BY <1>1, <1>3, <1>7, <2>2 DEF Full
<1>8. CASE ~ (Size(capped) > MaxBytes)
  BY <1>1, <1>3, <1>4, <1>5, <1>6, <1>8 DEF Full
<1> QED
  BY <1>7, <1>8

-----------------------------------------------------------------------------
(* Run checkpoints: whose rows, and what they keep                           *)

EntriesOf(o) == {o} \X Nat

\* Merging adds the caller's own entries and takes no verified id away.
LEMMA MergedKeeps ==
  ASSUME NEW o \in Owners, NEW input \in Inputs(o), NEW before, Payload(before, EntriesOf(o))
  PROVE  LET p == Merged(before, input) IN
         /\ Payload(p, EntriesOf(o)) /\ HasLists(p)
         /\ ToSet(p.verified) = ToSet(before.verified) \cup ToSet(input.verified)
<1>1. /\ input.verified = <<>> \/ \E e \in EntriesOf(o) : input.verified = <<e>>
      /\ input.searched = <<>> \/ \E e \in EntriesOf(o) : input.searched = <<e>>
      /\ \A q \in input.pending : q = <<>> \/ \E e \in EntriesOf(o) : q = <<e>>
  <2>1. <<o, 1>> \in EntriesOf(o)
    BY DEF EntriesOf
  <2>2. \A e \in {o} \X (1 .. Count) : e \in EntriesOf(o)
    BY RunsAssumption DEF EntriesOf
  <2> QED
    BY <2>1, <2>2 DEF Inputs
<1>2. ASSUME NEW a \in Seq(EntriesOf(o)), NEW b, b = <<>> \/ \E e \in EntriesOf(o) : b = <<e>>
      PROVE  Union(a, b) \in Seq(EntriesOf(o)) /\ ToSet(Union(a, b)) = ToSet(a) \cup ToSet(b)
  <2>1. CASE b = <<>>
    <3>1. ToSet(b) = {}
      BY <2>1 DEF ToSet
    <3> QED
      BY <2>1, <3>1, UnionOfNone
  <2>2. ASSUME NEW e \in EntriesOf(o), b = <<e>>
        PROVE  Union(a, b) \in Seq(EntriesOf(o)) /\ ToSet(Union(a, b)) = ToSet(a) \cup ToSet(b)
    <3>1. ToSet(b) = {e}
      BY <2>2 DEF ToSet
    <3>2. Joined(a, e) \in Seq(EntriesOf(o)) /\ ToSet(Joined(a, e)) = ToSet(a) \cup {e}
      BY JoinedKeeps
    <3>3. Union(a, b) = Joined(a, e)
      BY <2>2, UnionOfOne
    <3> QED
      BY <3>1, <3>2, <3>3
  <2> QED
    BY <1>2, <2>1, <2>2
<1>3. <<>> \in Seq(EntriesOf(o)) /\ \A e \in EntriesOf(o) : <<e>> \in Seq(EntriesOf(o))
  OBVIOUS
<1> DEFINE p == Merged(before, input)
<1>4. /\ p.verified = Union(before.verified, input.verified) /\ p.searched = Union(before.searched, input.searched)
      /\ p.pending = IF input.pending = {} THEN before.pending ELSE CHOOSE q \in input.pending : TRUE
      /\ DOMAIN p = Lists
  BY DEF Merged, Lists
<1> HIDE DEF p
<1>5. p.pending \in Seq(EntriesOf(o))
  <2>1. CASE input.pending = {}
    BY <1>4, <2>1 DEF Payload
  <2>2. CASE input.pending # {}
    <3>1. PICK q \in input.pending : p.pending = q
      BY <1>4, <2>2
    <3> QED
      BY <1>1, <1>3, <3>1
  <2> QED
    BY <2>1, <2>2
<1>6. /\ p.verified \in Seq(EntriesOf(o)) /\ p.searched \in Seq(EntriesOf(o))
      /\ ToSet(p.verified) = ToSet(before.verified) \cup ToSet(input.verified)
  BY <1>1, <1>2, <1>4 DEF Payload
<1> QED
  BY <1>4, <1>5, <1>6 DEF p, Payload, HasLists

\* A row names its owner, who found its entries.
RowOk(x) == x.owner \in Owners /\ x.expires \in Nat /\ Payload(x.payload, EntriesOf(x.owner))
ReadBy(o, w) ==
  /\ w.run \in Runs /\ w.input \in Inputs(o) /\ w.at \in Nat
  /\ \A x \in w.existing : RowOk(x) /\ x.owner = o

\* What a write makes of the row it has read.
LEMMA RowWritten ==
  ASSUME NEW o \in Owners, NEW w, ReadBy(o, w)
  PROVE  /\ RowOk(Row(o, w)) /\ Row(o, w).owner = o /\ Size(Row(o, w).payload) <= MaxBytes
         /\ ~ Full(Row(o, w).payload) =>
              /\ ToSet(w.input.verified) \subseteq ToSet(Row(o, w).payload.verified)
              /\ w.existing # {} => \E x \in w.existing :
                   ToSet(x.payload.verified) \subseteq ToSet(Row(o, w).payload.verified)
<1> DEFINE before == IF w.existing = {} THEN Nothing ELSE LET x == CHOOSE x \in w.existing : TRUE IN x.payload
           merged == Merged(before, w.input)
<1>1. Payload(before, EntriesOf(o)) /\ (w.existing # {} => \E x \in w.existing : x.payload = before)
  <2>1. CASE w.existing = {}
    BY <2>1 DEF Nothing, Payload
  <2>2. CASE w.existing # {}
    <3>1. PICK x \in w.existing : before = x.payload
      BY <2>2
    <3> QED
      BY <3>1 DEF ReadBy, RowOk
  <2> QED
    BY <2>1, <2>2
<1>2. Row(o, w).owner = o /\ Row(o, w).expires = w.at + Ttl /\ Row(o, w).payload = TrimToBounds(merged)
  BY DEF Row
<1>3. w.at + Ttl \in Nat
  BY RunsAssumption DEF ReadBy
<1> HIDE DEF before
<1>4. /\ Payload(merged, EntriesOf(o)) /\ HasLists(merged)
      /\ ToSet(merged.verified) = ToSet(before.verified) \cup ToSet(w.input.verified)
  BY <1>1, MergedKeeps DEF ReadBy
<1> HIDE DEF merged
<1>5. /\ Payload(TrimToBounds(merged), EntriesOf(o)) /\ Size(TrimToBounds(merged)) <= MaxBytes
      /\ ~ Full(TrimToBounds(merged)) => TrimToBounds(merged).verified = merged.verified
  BY <1>4, TrimmedFits
<1>6. RowOk(Row(o, w))
  BY <1>2, <1>3, <1>5 DEF RowOk
<1> QED
  BY <1>1, <1>2, <1>4, <1>5, <1>6

RunTypes ==
  /\ clock \in Nat
  /\ DOMAIN run = Runs /\ DOMAIN write = Owners /\ \A o \in Owners : DOMAIN kept[o] = Runs

\* A run has one row.
OneRowEach == \A r \in Runs : \A x \in run[r] : RowOk(x) /\ \A y \in run[r] : y = x

\* A checkpoint under way has read a row of its own caller, or none; that row is the one
\* the caller was last told of.
OwnRead ==
  \A o \in Owners : \A w \in write[o] :
    ReadBy(o, w) /\ \A x \in w.existing : \A k \in kept[o][w.run] : k.row = x

\* The row a caller was told of is its own, has the ids that were verified, and is the one
\* stored unless it has expired or is another's.
RowTold(o, r, k) ==
  /\ k.row.owner = o /\ k.row.expires \in Nat /\ Size(k.row.payload) <= MaxBytes /\ k.ids \subseteq ToSet(k.row.payload.verified)
  /\ k.row.expires > clock => k.row \in run[r]
  /\ \A x \in run[r] : x.owner = o => k.row = x
ToldOwners == \A o \in Owners, r \in Runs : \A k \in kept[o][r] : RowTold(o, r, k)

OwnResumed == \A z \in resumed : Payload(z.row.payload, EntriesOf(z.asker))

RunsInv == RunTypes /\ OneRowEach /\ OwnRead /\ ToldOwners /\ OwnResumed

LEMMA InitRunsInv == RunsInit => RunsInv
BY DEF RunsInit, RunsInv, RunTypes, OneRowEach, OwnRead, ToldOwners, OwnResumed

\* A checkpoint is read: only a row of its caller passes.
LEMMA ReadsOwn ==
  ASSUME RunsInv, NEW o \in Owners, NEW r \in Runs, NEW input \in Inputs(o), StartCheckpoint(o, r, input)
  PROVE  RunsInv'
<1> DEFINE w == [run |-> r, input |-> input, at |-> clock, existing |-> Get(r)]
<1>1. /\ UNCHANGED <<clock, run, kept>> /\ resumed' = {}
      /\ write' = IF Blocked(Get(r), o) THEN write ELSE [write EXCEPT ![o] = {w}]
  BY DEF StartCheckpoint
<1>2. w.run = r /\ w.input = input /\ w.at = clock /\ w.existing = Get(r)
  OBVIOUS
<1> HIDE DEF w
<1>3. RunTypes'
  BY <1>1 DEF RunsInv, RunTypes
<1>4. OneRowEach' /\ ToldOwners' /\ OwnResumed'
  BY <1>1 DEF RunsInv, OneRowEach, ToldOwners, RowTold, OwnResumed
<1>5. OwnRead'
  <2>1. CASE Blocked(Get(r), o)
    BY <1>1, <2>1 DEF RunsInv, OwnRead
  <2>2. CASE ~ Blocked(Get(r), o)
    <3>1. ReadBy(o, w)
      BY <1>2, <2>2 DEF ReadBy, Get, Blocked, RunsInv, OneRowEach, RunTypes
    <3>2. ASSUME NEW x \in w.existing, NEW k \in kept[o][r] PROVE k.row = x
      <4>1. x \in run[r] /\ x.owner = o
        BY <1>2, <2>2, <3>2 DEF Get, Blocked
      <4> QED
        BY <3>2, <4>1 DEF RunsInv, ToldOwners, RowTold
    <3>3. \A p \in Owners : write'[p] = IF p = o THEN {w} ELSE write[p]
      BY <1>1, <2>2 DEF RunsInv, RunTypes
    <3> QED
      BY <1>1, <1>2, <3>1, <3>2, <3>3 DEF RunsInv, OwnRead
  <2> QED
    BY <2>1, <2>2
<1> QED
  BY <1>3, <1>4, <1>5 DEF RunsInv

\* It is written: the row is the caller's, and nobody else's told row is replaced.
LEMMA WritesOwn ==
  ASSUME RunsInv, NEW o \in Owners, Write(o)
  PROVE  RunsInv'
<1> DEFINE w == CHOOSE w \in write[o] : TRUE
           new == Row(o, w)
           owed == ToSet(w.input.verified) \cup IF w.existing = {} THEN {} ELSE UNION {k.ids : k \in kept[o][w.run]}
           mine == [row |-> new, ids |-> StillOwed(new.payload, owed)]
<1>1. w \in write[o]
  BY DEF Write
<1>2. /\ run' = [run EXCEPT ![w.run] = {new}] /\ write' = [write EXCEPT ![o] = {}]
      /\ resumed' = {} /\ clock' = clock
      /\ kept' = [p \in Owners |-> [kept[p] EXCEPT ![w.run] =
           IF p = o THEN {mine} ELSE {k \in kept[p][w.run] : k.row \in w.existing \/ k.row.expires <= clock}]]
  BY DEF Write
<1>3. mine.row = new /\ mine.ids = StillOwed(new.payload, owed)
  OBVIOUS
<1> HIDE DEF w, mine
<1>4. ReadBy(o, w) /\ \A x \in w.existing : \A k \in kept[o][w.run] : k.row = x
  BY <1>1 DEF RunsInv, OwnRead
<1>5. RowOk(new) /\ new.owner = o /\ Size(new.payload) <= MaxBytes
  BY <1>4, RowWritten
<1>6. mine.ids \subseteq ToSet(new.payload.verified)
  <2>1. CASE Full(new.payload)
    BY <1>3, <2>1 DEF StillOwed
  <2>2. CASE ~ Full(new.payload)
    <3>1. mine.ids = owed
      BY <1>3, <2>2 DEF StillOwed
    <3>2. ToSet(w.input.verified) \subseteq ToSet(new.payload.verified)
      BY <1>4, <2>2, RowWritten
    <3>3. ASSUME w.existing # {}, NEW k \in kept[o][w.run] PROVE k.ids \subseteq ToSet(new.payload.verified)
      <4>1. PICK x \in w.existing : ToSet(x.payload.verified) \subseteq ToSet(new.payload.verified)
        BY <1>4, <2>2, <3>3, RowWritten
      <4>2. k.row = x /\ k.ids \subseteq ToSet(k.row.payload.verified)
        BY <1>4, <3>3, <4>1 DEF ReadBy, RunsInv, ToldOwners, RowTold
      <4> QED
        BY <4>1, <4>2
    <3> HIDE DEF new
    <3> QED
      BY <3>1, <3>2, <3>3
  <2> QED
    BY <2>1, <2>2
<1> HIDE DEF new
<1>7. /\ \A r \in Runs : run'[r] = IF r = w.run THEN {new} ELSE run[r]
      /\ \A p \in Owners : write'[p] = IF p = o THEN {} ELSE write[p]
  BY <1>2 DEF RunsInv, RunTypes
<1>13. /\ \A p \in Owners, r \in Runs : r # w.run => kept'[p][r] = kept[p][r]
       /\ kept'[o][w.run] = {mine}
       /\ \A p \in Owners : p # o => \A k \in kept'[p][w.run] :
            k \in kept[p][w.run] /\ (k.row \in w.existing \/ k.row.expires <= clock)
  <2> DEFINE left(p) == {k \in kept[p][w.run] : k.row \in w.existing \/ k.row.expires <= clock}
  <2>1. \A p \in Owners : kept'[p] = [kept[p] EXCEPT ![w.run] = IF p = o THEN {mine} ELSE left(p)]
    BY <1>2
  <2>2. w.run \in Runs /\ \A p \in Owners : DOMAIN kept[p] = Runs
    BY <1>4 DEF ReadBy, RunsInv, RunTypes
  <2> HIDE DEF left
  <2>3. /\ \A p \in Owners, r \in Runs : r # w.run => kept'[p][r] = kept[p][r]
        /\ \A p \in Owners : kept'[p][w.run] = IF p = o THEN {mine} ELSE left(p)
    <3>1. ASSUME NEW p \in Owners
          PROVE  /\ \A r \in Runs : r # w.run => kept'[p][r] = kept[p][r]
                 /\ kept'[p][w.run] = IF p = o THEN {mine} ELSE left(p)
      <4> DEFINE there == IF p = o THEN {mine} ELSE left(p)
      <4>1. kept'[p] = [kept[p] EXCEPT ![w.run] = there] /\ DOMAIN kept[p] = Runs
        BY <2>1, <2>2
      <4> HIDE DEF there
      <4>2. kept'[p][w.run] = there /\ \A r \in Runs : r # w.run => kept'[p][r] = kept[p][r]
        BY <2>2, <4>1
      <4> QED
        BY <4>2 DEF there
    <3> QED
      BY <3>1
  <2>4. \A p \in Owners : \A k \in left(p) : k \in kept[p][w.run] /\ (k.row \in w.existing \/ k.row.expires <= clock)
    BY DEF left
  <2> QED
    BY <2>3, <2>4
<1>8. RunTypes'
  BY <1>2 DEF RunsInv, RunTypes
<1>9. OneRowEach'
  BY <1>5, <1>7 DEF RunsInv, OneRowEach
<1>10. OwnResumed'
  BY <1>2 DEF OwnResumed
<1>11. OwnRead'
  <2> SUFFICES ASSUME NEW p \in Owners, NEW v \in write'[p]
               PROVE  ReadBy(p, v) /\ \A x \in v.existing : \A k \in kept'[p][v.run] : k.row = x
    BY DEF OwnRead, ReadBy
  <2>1. p # o /\ v \in write[p]
    BY <1>7, <1>13
  <2>2. ReadBy(p, v) /\ \A x \in v.existing : \A k \in kept[p][v.run] : k.row = x
    BY <2>1 DEF RunsInv, OwnRead
  <2>3. kept'[p][v.run] \subseteq kept[p][v.run]
    BY <1>7, <1>13, <2>1, <2>2 DEF ReadBy
  <2> QED
    BY <2>2, <2>3
<1>12. ToldOwners'
  <2> SUFFICES ASSUME NEW p \in Owners, NEW r \in Runs, NEW k \in kept'[p][r] PROVE RowTold(p, r, k)'
    BY DEF ToldOwners
  <2>1. CASE r # w.run
    <3>1. run'[r] = run[r] /\ kept'[p][r] = kept[p][r]
      BY <1>7, <1>13, <2>1
    <3>2. RowTold(p, r, k)
      BY <3>1 DEF RunsInv, ToldOwners
    <3> QED
      BY <1>2, <3>1, <3>2 DEF RowTold
  <2>2. CASE r = w.run /\ p = o
    <3>1. run'[r] = {new} /\ kept'[p][r] = {mine}
      BY <1>7, <1>13, <2>2
    <3>2. k = mine
      BY <3>1
    <3> QED
      BY <1>2, <1>3, <1>5, <1>6, <2>2, <3>1, <3>2 DEF RowTold, RowOk
  <2>3. CASE r = w.run /\ p # o
    <3>1. run'[r] = {new} /\ k \in kept[p][r] /\ (k.row \in w.existing \/ k.row.expires <= clock)
      BY <1>7, <1>13, <2>3
    <3>2. RowTold(p, r, k)
      BY <3>1 DEF RunsInv, ToldOwners
    <3>3. k.row \notin w.existing
      BY <1>4, <2>3, <3>2 DEF RowTold, ReadBy
    <3>4. ~ (k.row.expires > clock)
      <4>1. k.row.expires <= clock /\ k.row.expires \in Nat /\ clock \in Nat
        BY <3>1, <3>2, <3>3 DEF RowTold, RunsInv, RunTypes
      <4> QED
        BY <4>1
    <3> QED
      BY <1>2, <1>5, <2>3, <3>1, <3>2, <3>4 DEF RowTold
  <2> QED
    BY <2>1, <2>2, <2>3
<1> QED
  BY <1>8, <1>9, <1>10, <1>11, <1>12 DEF RunsInv

LEMMA FailsOwn ==
  ASSUME RunsInv, NEW o \in Owners, WriteFails(o)
  PROVE  RunsInv'
<1>1. UNCHANGED <<clock, run, kept>> /\ resumed' = {} /\ write' = [write EXCEPT ![o] = {}]
  BY DEF WriteFails
<1>2. \A p \in Owners : write'[p] \subseteq write[p]
  BY <1>1 DEF RunsInv, RunTypes
<1>3. RunTypes'
  BY <1>1 DEF RunsInv, RunTypes
<1>4. OneRowEach' /\ ToldOwners' /\ OwnResumed'
  BY <1>1 DEF RunsInv, OneRowEach, ToldOwners, RowTold, OwnResumed
<1>5. OwnRead'
  BY <1>1, <1>2 DEF RunsInv, OwnRead
<1> QED
  BY <1>3, <1>4, <1>5 DEF RunsInv

\* A resume reads a row of its asker.
LEMMA ResumesOwn ==
  ASSUME RunsInv, NEW o \in Owners, Resume(o)
  PROVE  RunsInv'
<1>1. UNCHANGED <<clock, run, kept, write>>
  BY DEF Resume
<1>2. OwnResumed'
  <2>1. PICK named \in SUBSET Runs : resumed' = Answers(o, named) /\ \A q \in named : \A x \in Get(q) : x.owner = o
    <3>1. CASE \E r \in Runs : resumed' = Answers(o, {q \in {r} : \A x \in run[q] : x.owner = o})
      <4>1. PICK r \in Runs : resumed' = Answers(o, {q \in {r} : \A x \in run[q] : x.owner = o})
        BY <3>1
      <4> DEFINE own == {q \in {r} : \A x \in run[q] : x.owner = o}
      <4>2. own \in SUBSET Runs /\ \A q \in own : \A x \in run[q] : x.owner = o
        BY <4>1
      <4>3. \A q \in own : Get(q) \subseteq run[q]
        BY DEF Get
      <4>4. resumed' = Answers(o, own)
        BY <4>1
      <4> HIDE DEF own
      <4> QED
        BY <4>2, <4>3, <4>4
    <3>2. CASE \E r \in LatestResumable(o) : resumed' = Answers(o, {r})
      <4>1. PICK r \in LatestResumable(o) : resumed' = Answers(o, {r})
        BY <3>2
      <4>2. r \in Runs /\ \E x \in Get(r) : x.owner = o
        BY <4>1 DEF LatestResumable
      <4>3. \A x \in Get(r) : x.owner = o
        BY <4>2 DEF Get, RunsInv, OneRowEach
      <4> QED
        BY <4>1, <4>2, <4>3
    <3> QED
      BY <3>1, <3>2 DEF Resume
  <2>2. ASSUME NEW z \in resumed' PROVE Payload(z.row.payload, EntriesOf(z.asker))
    <3>1. PICK q \in named : \E x \in Get(q) : z = [asker |-> o, row |-> x]
      BY <2>1, <2>2 DEF Answers
    <3> PICK x \in Get(q) : z = [asker |-> o, row |-> x]
      BY <3>1
    <3>2. z.asker = o /\ z.row = x /\ x.owner = o /\ x \in run[q] /\ q \in Runs
      BY <2>1, <3>1 DEF Get
    <3>3. RowOk(x)
      BY <3>2 DEF RunsInv, OneRowEach
    <3> QED
      BY <3>2, <3>3 DEF RowOk
  <2> QED
    BY <2>2 DEF OwnResumed
<1>3. RunTypes' /\ OneRowEach' /\ OwnRead' /\ ToldOwners'
  BY <1>1 DEF RunsInv, RunTypes, OneRowEach, OwnRead, ToldOwners, RowTold
<1> QED
  BY <1>2, <1>3 DEF RunsInv

\* What has expired goes; time goes by.
LEMMA PurgesExpired ==
  ASSUME RunsInv, PurgeExpired
  PROVE  RunsInv'
<1>1. UNCHANGED <<clock, write, kept>> /\ resumed' = {} /\ DOMAIN run' = Runs /\ \A r \in Runs : run'[r] = Get(r)
  BY DEF PurgeExpired
<1>2. \A r \in Runs : run'[r] \subseteq run[r] /\ \A x \in run[r] : x.expires > clock => x \in run'[r]
  BY <1>1 DEF Get
<1>3. RunTypes' /\ OneRowEach' /\ OwnRead' /\ OwnResumed'
  BY <1>1, <1>2 DEF RunsInv, RunTypes, OneRowEach, OwnRead, OwnResumed
<1>4. ToldOwners'
  BY <1>1, <1>2 DEF RunsInv, ToldOwners, RowTold
<1> QED
  BY <1>3, <1>4 DEF RunsInv

LEMMA TimeGoesBy ==
  ASSUME RunsInv, ClockTicks
  PROVE  RunsInv'
<1>1. UNCHANGED <<run, write, kept>> /\ resumed' = {} /\ clock' = clock + 1 /\ clock \in Nat
  BY DEF ClockTicks, RunsInv, RunTypes
<1>2. RunTypes' /\ OneRowEach' /\ OwnRead' /\ OwnResumed'
  BY <1>1 DEF RunsInv, RunTypes, OneRowEach, OwnRead, OwnResumed
<1>3. ASSUME NEW o \in Owners, NEW r \in Runs, NEW k \in kept[o][r], RowTold(o, r, k) PROVE RowTold(o, r, k)'
  <2>1. k.row.expires > clock + 1 => k.row.expires > clock
    <3>1. k.row.expires \in Nat
      BY <1>3 DEF RowTold
    <3> QED
      BY <1>1, <3>1
  <2> QED
    BY <1>1, <1>3, <2>1 DEF RowTold
<1>4. ToldOwners'
  BY <1>1, <1>3 DEF RunsInv, ToldOwners
<1> QED
  BY <1>2, <1>4 DEF RunsInv

LEMMA RunsInvKept == RunsInv /\ [RunsNext]_runsVars => RunsInv'
<1> SUFFICES ASSUME RunsInv, [RunsNext]_runsVars PROVE RunsInv'
  OBVIOUS
<1>1. CASE \E o \in Owners : Write(o) \/ WriteFails(o) \/ Resume(o)
  BY <1>1, WritesOwn, FailsOwn, ResumesOwn
<1>2. CASE \E o \in Owners, r \in Runs : \E input \in Inputs(o) : StartCheckpoint(o, r, input)
  BY <1>2, ReadsOwn
<1>3. CASE PurgeExpired
  BY <1>3, PurgesExpired
<1>4. CASE ClockTicks
  BY <1>4, TimeGoesBy
<1>5. CASE UNCHANGED runsVars
  BY <1>5 DEF runsVars, RunsInv, RunTypes, OneRowEach, OwnRead, ToldOwners, RowTold, OwnResumed
<1> QED
  BY <1>1, <1>2, <1>3, <1>4, <1>5 DEF RunsNext

LEMMA RunsInvHolds == RunsSpec => []RunsInv
BY InitRunsInv, RunsInvKept, PTL DEF RunsSpec

\* Nobody finds the entries of another in a run, also when two callers choose the same
\* id and read it before either has written.
THEOREM OwnRunsOnlyHolds == RunsSpec => []OwnRunsOnly
<1>1. ASSUME NEW o, NEW p, Payload(p, EntriesOf(o)), NEW e \in Entries(p) PROVE e[1] = o
  <2>1. e \in EntriesOf(o)
    BY <1>1 DEF Entries, Payload, ToSet
  <2> QED
    BY <2>1 DEF EntriesOf
<1>2. RunsInv => OwnRunsOnly
  BY <1>1 DEF RunsInv, OneRowEach, RowOk, OwnResumed, OwnRunsOnly
<1> QED
  BY <1>2, RunsInvHolds, PTL

\* What a caller was told is stored stays stored until it expires, with the ids that
\* were verified and within the bounds, unless another who had not seen it has chosen its id.
THEOREM AcknowledgedIsKeptHolds == RunsSpec => []AcknowledgedIsKept
<1>1. RunsInv => AcknowledgedIsKept
  BY DEF RunsInv, ToldOwners, RowTold, AcknowledgedIsKept
<1> QED
  BY <1>1, RunsInvHolds, PTL

-----------------------------------------------------------------------------
(* Admission: a pairing token pairs one device *)

PairingTypes ==
  /\ token \subseteq [token : Tokens, expires : Nat, consumed : BOOLEAN]
  /\ request \subseteq [n : Nat, token : Tokens, at : {"consume", "insert"}]
  /\ device \subseteq [id : Nat, token : Tokens]
  /\ now \in Nat /\ asked \in Nat

\* A token is spent by the request it lets through to its device, and only once.
Spent(t) == (\E r \in request : r.at = "insert" /\ r.token = t) \/ (\E d \in device : d.token = t)
PairingInv ==
  /\ PairingTypes
  /\ \A row1, row2 \in token : row1.token = row2.token => row1 = row2
  /\ \A row1 \in token : ~row1.consumed => ~Spent(row1.token)
  /\ \A r, q \in request : r.at = "insert" /\ q.at = "insert" /\ r.token = q.token => r = q
  /\ \A r \in request, d \in device : r.at = "insert" => r.token # d.token
  /\ TokenPairsOne

LEMMA InitPairingInv == AdmissionInit => PairingInv
BY DEF AdmissionInit, PairingInv, PairingTypes, Spent, TokenPairsOne

LEMMA PairingStepKeeps ==
  ASSUME PairingInv, AdmissionNext
  PROVE  PairingInv'
<1> USE DEF PairingInv
<1>1. ASSUME NEW t \in Tokens, MakeToken(t) PROVE PairingInv'
  <2> DEFINE new == [token |-> t, expires |-> now + TokenLife, consumed |-> FALSE]
  <2>1. new \in [token : Tokens, expires : Nat, consumed : BOOLEAN] /\ new.token = t
    BY AdmissionAssumption DEF PairingTypes, AdmissionAssumption
  <2>2. /\ token' = token \cup {new} /\ UNCHANGED <<now, request, device, asked>>
        /\ (\A r \in token : r.token # t) /\ ~Spent(t)
    BY <1>1 DEF MakeToken, Spent
  <2> HIDE DEF new
  <2> QED
    BY <2>1, <2>2 DEF PairingTypes, Spent, TokenPairsOne
<1>2. ASSUME NEW k \in Keys, NEW t \in Tokens, Admitted(k, t) PROVE PairingInv'
  <2> DEFINE new == [n |-> asked, token |-> t, at |-> "consume"]
  <2>1. new \in [n : Nat, token : Tokens, at : {"consume", "insert"}] /\ new.at = "consume"
    BY DEF PairingTypes
  <2>2. request' = request \cup {new} /\ UNCHANGED <<now, token, device>> /\ asked' \in Nat
    BY <1>2 DEF Admitted, PairingTypes
  <2> HIDE DEF new
  <2> QED
    BY <2>1, <2>2 DEF PairingTypes, Spent, TokenPairsOne
<1>3. ASSUME NEW k \in Keys, Refused(k) PROVE PairingInv'
  BY <1>3 DEF Refused, PairingTypes, Spent, TokenPairsOne
<1>4. ASSUME NEW r \in request, Consume(r) PROVE PairingInv'
  <2> DEFINE found == {w \in token : w.token = r.token /\ ~w.consumed /\ w.expires > now}
             goes == [r EXCEPT !.at = "insert"]
  <2>1. /\ r.at = "consume" /\ UNCHANGED <<now, device, asked>>
        /\ token' = (token \ found) \cup {[w EXCEPT !.consumed = TRUE] : w \in found}
        /\ request' = (request \ {r}) \cup IF found = {} THEN {} ELSE {goes}
    BY <1>4 DEF Consume
  <2>2. goes \in [n : Nat, token : Tokens, at : {"consume", "insert"}] /\ goes.at = "insert" /\ goes.token = r.token
    BY DEF PairingTypes
  <2> HIDE DEF goes
  <2>3. CASE found = {}
    BY <2>1, <2>3 DEF PairingTypes, Spent, TokenPairsOne
  <2>4. CASE found # {}
    <3>1. PICK w \in token : w.token = r.token /\ ~w.consumed
      BY <2>4
    <3>2. found = {w}
      BY <2>4, <3>1
    <3> DEFINE used == [w EXCEPT !.consumed = TRUE]
    <3>3. used \in [token : Tokens, expires : Nat, consumed : BOOLEAN] /\ used.token = r.token /\ used.consumed
      BY <3>1 DEF PairingTypes
    <3>4. token' = (token \ {w}) \cup {used} /\ request' = (request \ {r}) \cup {goes}
      BY <2>1, <2>4, <3>2
    <3>5. ~Spent(r.token)
      BY <3>1
    <3> HIDE DEF used, found
    <3>6. PairingTypes'
      BY <2>1, <2>2, <3>3, <3>4 DEF PairingTypes
    <3>7. \A a, b \in token' : a.token = b.token => a = b
      BY <3>1, <3>3, <3>4
    <3>8. \A a \in token' : ~a.consumed => ~Spent(a.token)'
      <4> SUFFICES ASSUME NEW a \in token', ~a.consumed PROVE ~Spent(a.token)'
        OBVIOUS
      <4>1. a \in token /\ a.token # r.token
        BY <3>1, <3>3, <3>4
      <4> QED
        BY <2>1, <2>2, <3>4, <4>1 DEF Spent
    <3>9. \A a, b \in request' : a.at = "insert" /\ b.at = "insert" /\ a.token = b.token => a = b
      BY <2>2, <3>4, <3>5 DEF Spent
    <3>10. \A a \in request', d \in device' : a.at = "insert" => a.token # d.token
      BY <2>1, <2>2, <3>4, <3>5 DEF Spent
    <3> QED
      BY <2>1, <3>6, <3>7, <3>8, <3>9, <3>10 DEF TokenPairsOne
  <2> QED
    BY <2>3, <2>4
<1>5. ASSUME NEW r \in request, InsertDevice(r) PROVE PairingInv'
  <2> DEFINE new == [id |-> r.n, token |-> r.token]
  <2>1. new \in [id : Nat, token : Tokens] /\ new.token = r.token
    BY DEF PairingTypes
  <2>2. r.at = "insert" /\ device' = device \cup {new} /\ request' = request \ {r} /\ UNCHANGED <<now, token, asked>>
    BY <1>5 DEF InsertDevice
  <2> HIDE DEF new
  <2>3. \A a \in token' : ~a.consumed => ~Spent(a.token)'
    BY <2>1, <2>2 DEF Spent
  <2> QED
    BY <2>1, <2>2, <2>3 DEF PairingTypes, TokenPairsOne
<1>6. ASSUME NEW r \in request, PairingFails(r) PROVE PairingInv'
  BY <1>6 DEF PairingFails, PairingTypes, Spent, TokenPairsOne
<1>7. CASE PurgeTokens
  BY <1>7 DEF PurgeTokens, PairingTypes, Spent, TokenPairsOne
<1>8. CASE MinutePasses
  BY <1>8 DEF MinutePasses, PairingTypes, Spent, TokenPairsOne
<1> QED
  BY <1>1, <1>2, <1>3, <1>4, <1>5, <1>6, <1>7, <1>8, AdmissionNext DEF AdmissionNext

-----------------------------------------------------------------------------
(* Admission: the rate of a key *)

Cap == PerMinute * Minute
Bucket == [key : Keys, tokens : Nat, at : Nat]

\* What a bucket holds once it is refilled, were it not for its rim.
Refilled(b) == b.tokens + (now - b.at) * PerMinute
IsIdle(b) == now - b.at > 2 * Minute

\* The room a key has left over the stretch from one of its passes to now.
Slack(k, i) == (Minute + now - passed[k][i]) * PerMinute - (Len(passed[k]) - i + 1) * Minute

RateTypes ==
  /\ now \in Nat /\ bucket \in Seq(Bucket) /\ passed \in [Keys -> Seq(Nat)]
  /\ \A i \in DOMAIN bucket : bucket[i].at <= now
  /\ \A i, j \in DOMAIN bucket : bucket[i].key = bucket[j].key => i = j
  /\ \A k \in Keys : \A i \in DOMAIN passed[k] : passed[k][i] <= now

\* The bucket of a key never holds more than the key may still take; a key
\* without a bucket may take a full one.
Backed(k, room) == room >= Cap \/ \E b \in ToSet(bucket) : b.key = k /\ Refilled(b) <= room
RateInv ==
  /\ RateTypes /\ RateHolds
  /\ \A k \in Keys : \A i \in DOMAIN passed[k] : Backed(k, Slack(k, i))

LEMMA Products ==
  /\ \A a, b \in Int : (a + b) * PerMinute = a * PerMinute + b * PerMinute
  /\ \A a, b \in Int : (a + b) * Minute = a * Minute + b * Minute
  /\ \A a, b \in Int : a <= b => a * PerMinute <= b * PerMinute
  /\ \A a \in Int : a * PerMinute \in Int /\ a * Minute \in Int
  /\ Cap \in Nat /\ Minute <= Cap /\ 1 * Minute = Minute /\ 1 * PerMinute = PerMinute
  /\ Minute * PerMinute = Cap /\ 0 * PerMinute = 0
<1>1. PerMinute \in Nat \ {0} /\ Minute \in Nat \ {0}
  BY AdmissionAssumption DEF AdmissionAssumption
<1>2. \A a, b \in Int : (a + b) * PerMinute = a * PerMinute + b * PerMinute
  BY <1>1
<1>3. \A a, b \in Int : (a + b) * Minute = a * Minute + b * Minute
  BY <1>1
<1>4. \A a, b \in Int : a <= b => a * PerMinute <= b * PerMinute
  <2> SUFFICES ASSUME NEW a \in Int, NEW b \in Int, a <= b PROVE a * PerMinute <= b * PerMinute
    OBVIOUS
  <2>1. b - a \in Nat /\ b = a + (b - a)
    OBVIOUS
  <2>2. b * PerMinute = a * PerMinute + (b - a) * PerMinute
    BY <1>2, <2>1
  <2>3. (b - a) * PerMinute \in Nat
    BY <1>1, <2>1
  <2> QED
    BY <1>1, <2>2, <2>3
<1>5. Cap \in Nat /\ Minute <= Cap
  BY <1>1 DEF Cap
<1>6. 1 * Minute = Minute /\ 1 * PerMinute = PerMinute /\ 0 * PerMinute = 0 /\ Minute * PerMinute = Cap
  BY <1>1 DEF Cap
<1>7. \A a \in Int : a * PerMinute \in Int /\ a * Minute \in Int
  BY <1>1
<1> QED
  BY <1>2, <1>3, <1>4, <1>5, <1>6, <1>7

LEMMA Increase == \A a \in Nat : a * PerMinute \in Int /\ 0 <= a * PerMinute
<1>1. PerMinute \in Nat
  BY AdmissionAssumption DEF AdmissionAssumption
<1> QED
  BY <1>1

LEMMA NextMinute == \A a \in Int : (a + 1) * PerMinute = a * PerMinute + PerMinute
<1>1. PerMinute \in Nat
  BY AdmissionAssumption DEF AdmissionAssumption
<1> QED
  BY <1>1

LEMMA RefillIsWhole ==
  ASSUME NEW b \in Bucket, now \in Nat
  PROVE  Refilled(b) \in Int
<1>1. b.tokens \in Int /\ (now - b.at) \in Int
  BY DEF Bucket
<1>2. (now - b.at) * PerMinute \in Int
  BY <1>1, Products
<1> HIDE DEF Bucket
<1>3. b.tokens + (now - b.at) * PerMinute \in Int
  BY <1>1, <1>2
<1> QED
  BY <1>3 DEF Refilled

\* The elements of a finite set of indices, counted in order.
LEMMA Ranks ==
  ASSUME NEW L \in Nat, NEW K \in SUBSET (1 .. L)
  PROVE  LET rank(i) == Cardinality({j \in K : j <= i}) IN
         /\ IsFiniteSet(K) /\ Cardinality(K) \in Nat
         /\ \A i \in K : rank(i) \in 1 .. Cardinality(K)
         /\ \A i, j \in K : rank(i) = rank(j) => i = j
         /\ \A n \in 1 .. Cardinality(K) : \E i \in K : rank(i) = n
<1> DEFINE rank(i) == Cardinality({j \in K : j <= i})
           f == [i \in K |-> rank(i)]
<1>1. IsFiniteSet(K) /\ Cardinality(K) \in Nat
  <2>1. IsFiniteSet(1 .. L)
    BY FS_Interval
  <2>2. IsFiniteSet(K)
    BY <2>1, FS_Subset
  <2> QED
    BY <2>2, FS_CardinalityType
<1>2. ASSUME NEW i \in K PROVE IsFiniteSet({j \in K : j <= i}) /\ rank(i) \in 1 .. Cardinality(K)
  <2>1. {j \in K : j <= i} \in SUBSET K
    OBVIOUS
  <2>2. IsFiniteSet({j \in K : j <= i}) /\ rank(i) <= Cardinality(K) /\ rank(i) \in Nat
    BY <1>1, <2>1, FS_Subset, FS_CardinalityType
  <2>3. i \in {j \in K : j <= i}
    OBVIOUS
  <2>4. rank(i) # 0
    BY <2>2, <2>3, FS_EmptySet
  <2> QED
    BY <1>1, <2>2, <2>4
<1>3. ASSUME NEW i \in K, NEW j \in K, rank(i) = rank(j), i < j PROVE FALSE
  <2> i \in Int /\ j \in Int /\ \A x \in K : x \in Int
    OBVIOUS
  <2>1. {x \in K : x <= i} \in SUBSET {x \in K : x <= j}
    <3>1. \A x \in K : x <= i => x <= j
      BY <1>3
    <3> QED
      BY <3>1
  <2>2. {x \in K : x <= i} = {x \in K : x <= j}
    BY <1>2, <1>3, <2>1, FS_Subset
  <2>3. j \in {x \in K : x <= i}
    BY <2>2
  <2> QED
    BY <1>3, <2>3
<1>4. \A i, j \in K : rank(i) = rank(j) => i = j
  <2> SUFFICES ASSUME NEW i \in K, NEW j \in K, rank(i) = rank(j) PROVE i = j
    OBVIOUS
  <2>1. i < j \/ j < i \/ i = j
    OBVIOUS
  <2> QED
    BY <1>3, <2>1
<1> HIDE DEF rank
<1>5. f \in Injection(K, 1 .. Cardinality(K))
  <2>1. f \in [K -> 1 .. Cardinality(K)] /\ \A i \in K : f[i] = rank(i)
    BY <1>2
  <2>2. \A i, j \in K : f[i] = f[j] => i = j
    BY <1>4, <2>1
  <2> QED
    BY <2>1, <2>2 DEF Injection, IsInjective
<1>6. IsFiniteSet(1 .. Cardinality(K)) /\ Cardinality(1 .. Cardinality(K)) = Cardinality(K)
  BY <1>1, FS_Interval
<1>7. f \in Surjection(K, 1 .. Cardinality(K))
  BY <1>5, <1>6, FS_Injection
<1>8. \A n \in 1 .. Cardinality(K) : \E i \in K : rank(i) = n
  BY <1>7 DEF Surjection
<1> QED
  BY <1>1, <1>2, <1>4, <1>8 DEF rank

\* Pruning drops idle buckets only, and neither changes nor doubles the others.
LEMMA PruneKeeps ==
  ASSUME RateTypes
  PROVE  LET P == Prune(bucket) IN
         /\ P \in Seq(Bucket)
         /\ \A n \in DOMAIN P : P[n] \in ToSet(bucket)
         /\ \A n, m \in DOMAIN P : P[n].key = P[m].key => n = m
         /\ \A b \in ToSet(bucket) : b \in ToSet(P) \/ IsIdle(b)
<1> DEFINE idle == {i \in DOMAIN bucket : now - bucket[i].at > 2 * Minute}
           gone == {i \in idle : 2 * (Len(bucket) - Cardinality({j \in idle : j < i})) >= MaxTracked}
           K == DOMAIN bucket \ gone
           rank(i) == Cardinality({j \in K : j <= i})
           N == Cardinality(K)
           P == Prune(bucket)
<1>1. bucket \in Seq(Bucket) /\ DOMAIN bucket = 1 .. Len(bucket) /\ Len(bucket) \in Nat
  BY DEF RateTypes
<1>2. P = [n \in 1 .. N |-> bucket[CHOOSE i \in K : rank(i) = n]]
  BY DEF Prune
<1>3. K \in SUBSET (1 .. Len(bucket)) /\ \A i \in DOMAIN bucket : i \in K \/ IsIdle(bucket[i])
  BY <1>1 DEF IsIdle
<1> HIDE DEF K, P
<1>4. /\ N \in Nat
      /\ \A i \in K : rank(i) \in 1 .. N
      /\ \A i, j \in K : rank(i) = rank(j) => i = j
      /\ \A n \in 1 .. N : \E i \in K : rank(i) = n
  BY <1>1, <1>3, Ranks
<1> HIDE DEF rank, N
<1> DEFINE at(n) == CHOOSE i \in K : rank(i) = n
<1>5. \A n \in 1 .. N : at(n) \in K /\ rank(at(n)) = n
  BY <1>4
<1>6. \A i \in K : at(rank(i)) = i
  BY <1>4, <1>5
<1>7. P = [n \in 1 .. N |-> bucket[at(n)]]
  BY <1>2
<1> HIDE DEF at
<1>8. \A n \in 1 .. N : at(n) \in DOMAIN bucket /\ bucket[at(n)] \in Bucket /\ bucket[at(n)] \in ToSet(bucket)
  <2> SUFFICES ASSUME NEW n \in 1 .. N
               PROVE  at(n) \in DOMAIN bucket /\ bucket[at(n)] \in Bucket /\ bucket[at(n)] \in ToSet(bucket)
    OBVIOUS
  <2>1. at(n) \in 1 .. Len(bucket)
    BY <1>3, <1>5
  <2>2. bucket[at(n)] \in Bucket
    BY <1>1, <2>1
  <2>3. ToSet(bucket) = {bucket[i] : i \in DOMAIN bucket}
    BY DEF ToSet
  <2> QED
    BY <1>1, <2>1, <2>2, <2>3
<1>9. P \in Seq(Bucket) /\ DOMAIN P = 1 .. N
  BY <1>4, <1>7, <1>8
<1>10. \A n \in DOMAIN P : P[n] = bucket[at(n)]
  BY <1>7, <1>9
<1>11. \A n, m \in DOMAIN P : P[n].key = P[m].key => n = m
  BY <1>5, <1>8, <1>9, <1>10 DEF RateTypes
<1>12. \A b \in ToSet(bucket) : b \in ToSet(P) \/ IsIdle(b)
  <2> SUFFICES ASSUME NEW i \in DOMAIN bucket, i \in K PROVE bucket[i] \in ToSet(P)
    BY <1>3 DEF ToSet
  <2>1. rank(i) \in DOMAIN P /\ P[rank(i)] = bucket[i]
    BY <1>4, <1>6, <1>9, <1>10
  <2> QED
    BY <2>1 DEF ToSet
<1> QED
  BY <1>8, <1>9, <1>10, <1>11, <1>12 DEF P

\* A bucket that is refilled holds no more than before, and no more than its rim.
LEMMA TrackingKeeps ==
  ASSUME RateTypes, NEW key \in Keys
  PROVE  LET T == Tracking(key) IN
         /\ T \in Seq(Bucket)
         /\ \A i \in DOMAIN T : T[i].at <= now
         /\ \A i, j \in DOMAIN T : T[i].key = T[j].key => i = j
         /\ \E n \in DOMAIN T :
              /\ T[n].key = key /\ T[n].at = now /\ T[n].tokens <= Cap
              /\ \A b \in ToSet(bucket) : b.key = key => T[n].tokens <= Refilled(b)
         /\ \A b \in ToSet(bucket) : b.key # key => b \in ToSet(T) \/ IsIdle(b)
<1> DEFINE room == IF Len(bucket) >= MaxTracked THEN Prune(bucket) ELSE bucket
           fresh == [key |-> key, tokens |-> Cap, at |-> now]
           all == IF key \in Tracked THEN bucket ELSE Append(room, fresh)
           filled(b) == Min({Cap, b.tokens + (now - b.at) * PerMinute})
           T == Tracking(key)
<1>1. bucket \in Seq(Bucket) /\ now \in Nat
  BY DEF RateTypes
<1>2. /\ room \in Seq(Bucket)
      /\ \A n \in DOMAIN room : room[n] \in ToSet(bucket)
      /\ \A n, m \in DOMAIN room : room[n].key = room[m].key => n = m
      /\ \A b \in ToSet(bucket) : b \in ToSet(room) \/ IsIdle(b)
  <2>1. CASE room = bucket
    BY <1>1, <2>1 DEF RateTypes, ToSet
  <2>2. CASE room = Prune(bucket)
    BY <2>2, PruneKeeps
  <2> QED
    BY <2>1, <2>2
<1>3. T = [i \in DOMAIN all |-> IF all[i].key # key THEN all[i] ELSE [key |-> key, at |-> now, tokens |-> filled(all[i])]]
  BY DEF Tracking, Cap
<1>4. fresh \in Bucket /\ fresh.key = key /\ fresh.at = now /\ fresh.tokens = Cap
  BY <1>1, Products DEF Bucket
<1> HIDE DEF room, fresh, T
<1>5. /\ all \in Seq(Bucket)
      /\ \A i \in DOMAIN all : all[i].at <= now
      /\ \A i, j \in DOMAIN all : all[i].key = all[j].key => i = j
      /\ \A b \in ToSet(bucket) : b.key # key => b \in ToSet(all) \/ IsIdle(b)
      /\ \E n \in DOMAIN all : /\ all[n].key = key
                               /\ \A b \in ToSet(bucket) : b.key = key => b = all[n]
  <2>1. CASE key \in Tracked
    <3>1. PICK b \in ToSet(bucket) : b.key = key
      BY <2>1 DEF Tracked
    <3>2. PICK n \in DOMAIN bucket : b = bucket[n]
      BY DEF ToSet
    <3>3. \A c \in ToSet(bucket) : c.key = key => c = bucket[n]
      BY <3>1, <3>2 DEF RateTypes, ToSet
    <3> QED
      BY <1>1, <2>1, <3>1, <3>2, <3>3 DEF RateTypes
  <2>2. CASE key \notin Tracked
    <3>1. all = Append(room, fresh)
      BY <2>2
    <3> HIDE DEF all
    <3>2. \A b \in ToSet(bucket) : b.key # key
      BY <2>2 DEF Tracked
    <3>3. /\ all \in Seq(Bucket) /\ Len(all) = Len(room) + 1 /\ Len(room) \in Nat
          /\ DOMAIN all = 1 .. Len(room) + 1 /\ DOMAIN room = 1 .. Len(room)
          /\ all[Len(room) + 1] = fresh
          /\ \A i \in DOMAIN room : all[i] = room[i]
      BY <1>2, <1>4, <3>1
    <3>4. \A i \in DOMAIN all : (i \in DOMAIN room /\ all[i] = room[i]) \/ (i = Len(room) + 1 /\ all[i] = fresh)
      BY <3>3
    <3>5. \A i \in DOMAIN room : room[i].key # key /\ room[i].at <= now
      <4>1. \A b \in ToSet(bucket) : b.at <= now
        BY DEF RateTypes, ToSet
      <4> QED
        BY <1>2, <3>2, <4>1
    <3>6. \A i \in DOMAIN all : all[i].at <= now
      BY <1>1, <1>4, <3>4, <3>5
    <3>7. \A i, j \in DOMAIN all : all[i].key = all[j].key => i = j
      BY <1>2, <1>4, <3>4, <3>5
    <3>8. \A b \in ToSet(room) : b \in ToSet(all)
      BY <3>3 DEF ToSet
    <3>9. Len(room) + 1 \in DOMAIN all
      BY <3>3
    <3> QED
      BY <1>2, <1>4, <3>2, <3>3, <3>6, <3>7, <3>8, <3>9
  <2> QED
    BY <2>1, <2>2
<1> HIDE DEF all
<1>6. ASSUME NEW b \in Bucket, b.at <= now
      PROVE  filled(b) \in Nat /\ filled(b) <= Cap /\ filled(b) <= Refilled(b)
  <2>1. now - b.at \in Nat /\ b.tokens \in Nat
    BY <1>1, <1>6 DEF Bucket
  <2>2. 0 <= (now - b.at) * PerMinute /\ (now - b.at) * PerMinute \in Int
    BY <2>1, Increase
  <2>3. Cap \in Nat /\ Refilled(b) \in Nat
    <3>1. Refilled(b) = b.tokens + (now - b.at) * PerMinute
      BY DEF Refilled
    <3>2. \A x, y \in Int : x \in Nat /\ 0 <= y => x + y \in Nat
      OBVIOUS
    <3>3. b.tokens + (now - b.at) * PerMinute \in Nat
      BY <2>1, <2>2, <3>2
    <3> QED
      BY <3>1, <3>3, Products
  <2>4. \A x, y \in Nat : Min({x, y}) \in {x, y} /\ Min({x, y}) <= x /\ Min({x, y}) <= y
    BY DEF Min
  <2>5. filled(b) = Min({Cap, Refilled(b)})
    BY DEF Refilled
  <2> QED
    BY <2>3, <2>4, <2>5
<1> HIDE DEF filled
<1>7. DOMAIN T = DOMAIN all /\ \A i \in DOMAIN all :
        T[i] = IF all[i].key # key THEN all[i] ELSE [key |-> key, at |-> now, tokens |-> filled(all[i])]
  BY <1>3
<1>8. \A i \in DOMAIN all : T[i] \in Bucket /\ T[i].at <= now /\ T[i].key = all[i].key
  <2> SUFFICES ASSUME NEW i \in DOMAIN all PROVE T[i] \in Bucket /\ T[i].at <= now /\ T[i].key = all[i].key
    OBVIOUS
  <2>1. all[i] \in Bucket /\ all[i].at <= now
    BY <1>5
  <2>2. CASE all[i].key # key
    BY <1>7, <2>1, <2>2
  <2>3. CASE all[i].key = key
    <3>1. T[i] = [key |-> key, at |-> now, tokens |-> filled(all[i])] /\ filled(all[i]) \in Nat
      BY <1>6, <1>7, <2>1, <2>3
    <3> QED
      BY <1>1, <2>3, <3>1 DEF Bucket
  <2> QED
    BY <2>2, <2>3
<1>9. T \in Seq(Bucket)
  <2>1. DOMAIN all = 1 .. Len(all) /\ Len(all) \in Nat
    BY <1>5
  <2>2. T = [i \in 1 .. Len(all) |-> T[i]]
    BY <1>3, <2>1
  <2> QED
    BY <1>7, <1>8, <2>1, <2>2
<1>10. \E n \in DOMAIN T :
         /\ T[n].key = key /\ T[n].at = now /\ T[n].tokens <= Cap
         /\ \A b \in ToSet(bucket) : b.key = key => T[n].tokens <= Refilled(b)
  <2>1. PICK n \in DOMAIN all : all[n].key = key /\ \A b \in ToSet(bucket) : b.key = key => b = all[n]
    BY <1>5
  <2>2. T[n] = [key |-> key, at |-> now, tokens |-> filled(all[n])]
    BY <1>7, <2>1
  <2>3. filled(all[n]) <= Cap /\ filled(all[n]) <= Refilled(all[n])
    BY <1>5, <1>6
  <2> QED
    BY <1>7, <2>1, <2>2, <2>3
<1>11. \A b \in ToSet(all) : b.key # key => b \in ToSet(T)
  BY <1>7 DEF ToSet
<1> QED
  BY <1>5, <1>7, <1>8, <1>9, <1>10, <1>11 DEF T

\* An idle bucket would be full.
LEMMA IdleIsFull ==
  ASSUME NEW b \in Bucket, now \in Nat, IsIdle(b)
  PROVE  Refilled(b) >= Cap
<1>1. Minute <= now - b.at /\ Minute \in Int /\ now - b.at \in Int /\ b.tokens \in Nat
  BY AdmissionAssumption DEF AdmissionAssumption, Bucket, IsIdle
<1>2. Cap <= (now - b.at) * PerMinute
  BY <1>1, Products
<1>3. (now - b.at) * PerMinute \in Int /\ Cap \in Nat
  BY <1>1, Products
<1>4. \A x, y, z \in Int : x \in Nat /\ z <= y => x + y >= z
  OBVIOUS
<1>5. b.tokens + (now - b.at) * PerMinute >= Cap
  BY <1>1, <1>2, <1>3, <1>4
<1> QED
  BY <1>5 DEF Refilled

LEMMA SlackIsWhole ==
  ASSUME RateTypes, NEW k \in Keys, NEW i \in DOMAIN passed[k]
  PROVE  /\ passed[k][i] \in Nat /\ Len(passed[k]) \in Nat /\ i \in Nat
         /\ (Minute + now - passed[k][i]) * PerMinute \in Int
         /\ (Len(passed[k]) - i + 1) * Minute \in Int
         /\ Slack(k, i) \in Int
<1>1. passed[k] \in Seq(Nat) /\ now \in Nat /\ Minute \in Nat
  BY AdmissionAssumption DEF RateTypes, AdmissionAssumption
<1>2. passed[k][i] \in Nat /\ Len(passed[k]) \in Nat /\ i \in Nat
  BY <1>1
<1>3. (Minute + now - passed[k][i]) \in Int /\ (Len(passed[k]) - i + 1) \in Int
  BY SMTT(30), <1>1, <1>2
<1>4. (Minute + now - passed[k][i]) * PerMinute \in Int /\ (Len(passed[k]) - i + 1) * Minute \in Int
  BY <1>3, Products
<1>5. (Minute + now - passed[k][i]) * PerMinute - (Len(passed[k]) - i + 1) * Minute \in Int
  BY <1>4
<1> QED
  BY <1>2, <1>4, <1>5 DEF Slack

\* A key whose bucket stays or was idle keeps its backing.
LEMMA BackingStays ==
  ASSUME RateTypes, now' = now, NEW k \in Keys, NEW room \in Int, Backed(k, room),
         \A b \in ToSet(bucket) : b.key = k => b \in ToSet(bucket') \/ IsIdle(b)
  PROVE  Backed(k, room)'
<1>1. ASSUME NEW b \in ToSet(bucket), b.key = k, Refilled(b) <= room, IsIdle(b) PROVE room >= Cap
  <2>1. b \in Bucket /\ now \in Nat /\ b.at <= now
    BY DEF RateTypes, ToSet
  <2>2. Refilled(b) >= Cap
    BY <1>1, <2>1, IdleIsFull
  <2>3. Refilled(b) \in Int /\ Cap \in Int
    BY <2>1, RefillIsWhole, Products
  <2> QED
    BY <1>1, <2>2, <2>3
<1>2. \A b \in ToSet(bucket) : Refilled(b)' = Refilled(b)
  BY DEF Refilled
<1>3. CASE room >= Cap
  BY <1>3 DEF Backed, Cap
<1>4. CASE ~(room >= Cap)
  <2>1. PICK b \in ToSet(bucket) : b.key = k /\ Refilled(b) <= room
    BY <1>4 DEF Backed
  <2>2. b \in ToSet(bucket')
    BY <1>1, <1>4, <2>1
  <2>3. Refilled(b)' <= room
    BY <1>2, <2>1
  <2> QED
    BY <2>1, <2>2, <2>3 DEF Backed
<1> QED
  BY <1>3, <1>4

\* The bucket a request finds holds no more than its key may still take.
LEMMA FoundIsBacked ==
  ASSUME RateTypes, NEW key \in Keys, NEW room \in Int, Backed(key, room),
         NEW tokens \in Nat, tokens <= Cap,
         \A b \in ToSet(bucket) : b.key = key => tokens <= Refilled(b)
  PROVE  tokens <= room
<1>1. CASE room >= Cap
  BY <1>1, Products
<1>2. CASE ~(room >= Cap)
  <2>1. PICK b \in ToSet(bucket) : b.key = key /\ Refilled(b) <= room
    BY <1>2 DEF Backed
  <2>2. b \in Bucket /\ now \in Nat
    BY DEF RateTypes, ToSet
  <2>3. Refilled(b) \in Int
    BY <2>2, RefillIsWhole
  <2> QED
    BY <2>1, <2>3
<1> QED
  BY <1>1, <1>2

LEMMA InitRateInv == AdmissionInit => RateInv
<1> SUFFICES ASSUME AdmissionInit PROVE RateInv
  OBVIOUS
<1>1. bucket = <<>> /\ now = 0 /\ passed = [k \in Keys |-> <<>>]
  BY DEF AdmissionInit
<1>2. \A k \in Keys : passed[k] = <<>> /\ DOMAIN passed[k] = {}
  BY <1>1
<1> QED
  BY <1>1, <1>2 DEF RateInv, RateTypes, RateHolds

LEMMA RefusedKeepsRate ==
  ASSUME RateInv, NEW key \in Keys, Refused(key)
  PROVE  RateInv'
<1> USE DEF RateInv
<1> DEFINE T == Tracking(key)
<1>1. bucket' = T /\ UNCHANGED <<now, passed>>
  BY DEF Refused
<1>2. /\ T \in Seq(Bucket)
      /\ \A i \in DOMAIN T : T[i].at <= now
      /\ \A i, j \in DOMAIN T : T[i].key = T[j].key => i = j
      /\ \A b \in ToSet(bucket) : b.key # key => b \in ToSet(T) \/ IsIdle(b)
  BY TrackingKeeps
<1>3. PICK n \in DOMAIN T : /\ T[n].key = key /\ T[n].at = now /\ T[n].tokens <= Cap
                            /\ \A b \in ToSet(bucket) : b.key = key => T[n].tokens <= Refilled(b)
  BY TrackingKeeps
<1> HIDE DEF T
<1>4. RateTypes' /\ RateHolds'
  BY <1>1, <1>2 DEF RateTypes, RateHolds
<1>5. ASSUME NEW k \in Keys, NEW i \in DOMAIN passed[k] PROVE Backed(k, Slack(k, i))'
  <2> DEFINE room == Slack(k, i)
  <2>1. room \in Int /\ Backed(k, room) /\ Slack(k, i)' = room
    <3>1. Slack(k, i)' = Slack(k, i)
      BY <1>1 DEF Slack
    <3> QED
      BY <3>1, SlackIsWhole
  <2>2. PICK m \in Int : m = room
    BY <2>1
  <2> HIDE DEF room
  <2>3. Backed(k, m) /\ Slack(k, i)' = m
    BY <2>1, <2>2
  <2>4. Backed(k, m)'
    <3>1. CASE k # key
      BY <1>1, <1>2, <2>3, <3>1, BackingStays
    <3>2. CASE k = key
      <4>1. PICK b \in Bucket : b = T[n]
        BY <1>2
      <4>2. b \in ToSet(bucket')
        BY <1>1, <4>1 DEF ToSet
      <4>3. b.tokens \in Nat /\ b.at = now /\ b.key = k /\ now \in Nat
        BY <1>3, <3>2, <4>1 DEF RateTypes, Bucket
      <4>4. b.tokens <= Cap /\ \A c \in ToSet(bucket) : c.key = key => b.tokens <= Refilled(c)
        BY <1>3, <4>1
      <4>5. b.tokens <= m
        BY <2>3, <3>2, <4>3, <4>4, FoundIsBacked
      <4>6. now - b.at = 0 /\ b.tokens + 0 = b.tokens
        BY <4>3
      <4>7. b.tokens + (now - b.at) * PerMinute = b.tokens
        <5>1. 0 * PerMinute = 0
          BY Products, Zenon
        <5> QED
          BY <4>6, <5>1, Zenon
      <4>8. Refilled(b)' = b.tokens
        BY <1>1, <4>7 DEF Refilled
      <4> QED
        BY <4>2, <4>3, <4>5, <4>8 DEF Backed
    <3> QED
      BY <3>1, <3>2
  <2> QED
    BY <2>3, <2>4 DEF Backed
<1> QED
  BY <1>1, <1>4, <1>5

LEMMA AdmittedKeepsRate ==
  ASSUME RateInv, NEW key \in Keys, NEW t \in Tokens, Admitted(key, t)
  PROVE  RateInv'
<1> USE DEF RateInv
<1> DEFINE T == Tracking(key)
           L == Len(passed[key])
<1>1. bucket' = Taken(key) /\ now' = now /\ passed' = [passed EXCEPT ![key] = Append(@, now)]
      /\ TokensOf(key, T) >= Minute
  BY DEF Admitted
<1>2. /\ T \in Seq(Bucket)
      /\ \A i \in DOMAIN T : T[i].at <= now
      /\ \A i, j \in DOMAIN T : T[i].key = T[j].key => i = j
      /\ \A b \in ToSet(bucket) : b.key # key => b \in ToSet(T) \/ IsIdle(b)
  BY TrackingKeeps
<1>3. PICK n \in DOMAIN T : /\ T[n].key = key /\ T[n].at = now /\ T[n].tokens <= Cap
                            /\ \A b \in ToSet(bucket) : b.key = key => T[n].tokens <= Refilled(b)
  BY TrackingKeeps
<1>4. Taken(key) = [i \in DOMAIN T |-> IF T[i].key = key THEN [T[i] EXCEPT !.tokens = @ - Minute] ELSE T[i]]
  BY DEF Taken
<1> HIDE DEF T
<1>5. TokensOf(key, T) = T[n].tokens
  <2>1. T[n] \in ToSet(T) /\ \A b \in ToSet(T) : b.key = key => b = T[n]
    BY <1>2, <1>3 DEF ToSet
  <2>2. (CHOOSE b \in ToSet(T) : b.key = key) = T[n]
    BY <1>3, <2>1
  <2> QED
    BY <2>2 DEF TokensOf
<1>6. PICK had \in Bucket : had = T[n]
  BY <1>2
<1>7. /\ had.key = key /\ had.at = now /\ had.tokens \in Nat /\ had.tokens >= Minute /\ had.tokens <= Cap
      /\ \A b \in ToSet(bucket) : b.key = key => had.tokens <= Refilled(b)
  BY <1>1, <1>3, <1>5, <1>6 DEF Bucket
<1>8. PICK left \in Bucket : left = [had EXCEPT !.tokens = @ - Minute]
  <2>1. had.tokens - Minute \in Nat
    BY <1>7, AdmissionAssumption DEF AdmissionAssumption
  <2> QED
    BY <2>1 DEF Bucket
<1>9. left.key = key /\ left.at = now /\ left.tokens = had.tokens - Minute /\ left.tokens \in Nat
  BY <1>7, <1>8 DEF Bucket
<1>10. /\ DOMAIN bucket' = DOMAIN T /\ bucket'[n] = left
       /\ \A i \in DOMAIN T : i # n => bucket'[i] = T[i]
  BY <1>1, <1>2, <1>3, <1>4, <1>6, <1>8
<1>11. \A i \in DOMAIN T : bucket'[i] \in Bucket /\ bucket'[i].at <= now /\ bucket'[i].key = T[i].key
  <2> SUFFICES ASSUME NEW i \in DOMAIN T PROVE bucket'[i] \in Bucket /\ bucket'[i].at <= now /\ bucket'[i].key = T[i].key
    OBVIOUS
  <2>1. CASE i = n
    BY <1>3, <1>9, <1>10, <2>1 DEF RateTypes
  <2>2. CASE i # n
    BY <1>2, <1>10, <2>2
  <2> QED
    BY <2>1, <2>2
<1>12. bucket' \in Seq(Bucket)
  <2>1. DOMAIN T = 1 .. Len(T) /\ Len(T) \in Nat
    BY <1>2
  <2>2. bucket' = [i \in 1 .. Len(T) |-> bucket'[i]]
    BY <1>1, <1>4, <2>1
  <2> QED
    BY <1>11, <2>1, <2>2
<1>13. /\ passed[key] \in Seq(Nat) /\ L \in Nat /\ DOMAIN passed[key] = 1 .. L
       /\ passed'[key] \in Seq(Nat) /\ Len(passed'[key]) = L + 1 /\ DOMAIN passed'[key] = 1 .. L + 1
       /\ passed'[key][L + 1] = now /\ \A i \in 1 .. L : passed'[key][i] = passed[key][i]
       /\ \A k \in Keys : k # key => passed'[k] = passed[k]
       /\ passed' \in [Keys -> Seq(Nat)]
  <2>1. passed[key] \in Seq(Nat) /\ now \in Nat /\ passed'[key] = Append(passed[key], now)
    BY <1>1 DEF RateTypes
  <2>2. L \in Nat /\ DOMAIN passed[key] = 1 .. L
    BY <2>1
  <2>3. /\ passed'[key] \in Seq(Nat) /\ Len(passed'[key]) = L + 1 /\ DOMAIN passed'[key] = 1 .. L + 1
        /\ passed'[key][L + 1] = now /\ \A i \in 1 .. L : passed'[key][i] = passed[key][i]
    BY <2>1, <2>2
  <2>4. \A k \in Keys : k # key => passed'[k] = passed[k]
    BY <1>1 DEF RateTypes
  <2>5. passed' \in [Keys -> Seq(Nat)]
    BY <1>1, <2>1, <2>3 DEF RateTypes
  <2> QED
    BY <2>1, <2>2, <2>3, <2>4, <2>5
<1> HIDE DEF L
<1>14. RateTypes'
  <2>1. \A k \in Keys : \A i \in DOMAIN passed'[k] : passed'[k][i] <= now
    <3> SUFFICES ASSUME NEW k \in Keys, NEW i \in DOMAIN passed'[k] PROVE passed'[k][i] <= now
      OBVIOUS
    <3>1. CASE k # key
      BY <1>13, <3>1 DEF RateTypes
    <3>2. CASE k = key
      <4>1. i = L + 1 \/ i \in 1 .. L
        BY <1>13, <3>2
      <4> QED
        BY <1>13, <3>2, <4>1 DEF RateTypes
    <3> QED
      BY <3>1, <3>2
  <2>2. \A i, j \in DOMAIN bucket' : bucket'[i].key = bucket'[j].key => i = j
    BY <1>2, <1>10, <1>11
  <2>3. now' \in Nat /\ \A i \in DOMAIN bucket' : bucket'[i].at <= now'
    BY <1>1, <1>10, <1>11 DEF RateTypes
  <2> QED
    BY <1>1, <1>12, <1>13, <2>1, <2>2, <2>3 DEF RateTypes
<1>15. left \in ToSet(bucket')
  BY <1>10 DEF ToSet
<1>16. ASSUME NEW room \in Int, Backed(key, room)
       PROVE  left.tokens <= room - Minute
  <2>1. had.tokens <= room
    BY <1>7, <1>16, FoundIsBacked
  <2> QED
    BY <1>7, <1>9, <2>1, AdmissionAssumption DEF AdmissionAssumption
<1>17. ASSUME NEW room \in Int, left.tokens <= room PROVE Backed(key, room)'
  <2>1. (now - left.at) = 0 /\ 0 * PerMinute = 0 /\ left.tokens + 0 = left.tokens
    <3>1. now \in Nat
      BY DEF RateTypes
    <3>2. left.at = now /\ left.tokens \in Nat
      BY <1>9
    <3>3. 0 * PerMinute = 0
      BY Products
    <3>4. now - left.at = 0 /\ left.tokens + 0 = left.tokens
      BY <3>1, <3>2
    <3> QED
      BY <3>3, <3>4
  <2>2. left.tokens + (now - left.at) * PerMinute = left.tokens
    BY <2>1
  <2>3. Refilled(left)' = left.tokens
    BY <1>1, <2>2 DEF Refilled
  <2> QED
    BY <1>9, <1>15, <1>17, <2>3 DEF Backed
<1>18. ASSUME NEW i \in 1 .. L + 1
       PROVE  /\ Slack(key, i)' \in Int /\ left.tokens <= Slack(key, i)'
              /\ Slack(key, i)' = (Minute + now - passed'[key][i]) * PerMinute - (L + 1 - i + 1) * Minute
  <2> i \in Nat /\ L \in Nat /\ Minute \in Nat /\ now \in Nat
    BY <1>13, AdmissionAssumption DEF AdmissionAssumption, RateTypes
  <2>1. Slack(key, i)' = (Minute + now - passed'[key][i]) * PerMinute - (L + 1 - i + 1) * Minute
    <3>1. Slack(key, i)' = (Minute + now' - passed'[key][i]) * PerMinute - (Len(passed'[key]) - i + 1) * Minute
      BY DEF Slack
    <3>2. now' = now /\ Len(passed'[key]) = L + 1
      BY <1>1, <1>13
    <3> QED
      BY <3>1, <3>2
  <2>2. CASE i = L + 1
    <3>1. Minute + now - passed'[key][i] = Minute /\ L + 1 - i + 1 = 1
      BY <1>13, <2>2
    <3>2. Slack(key, i)' = Cap - Minute
      BY <2>1, <3>1, Products
    <3>3. Backed(key, Cap) /\ Cap \in Int
      BY Products DEF Backed
    <3>4. left.tokens <= Cap - Minute
      BY <1>16, <3>3
    <3> QED
      BY <2>1, <3>2, <3>3, <3>4
  <2>3. CASE i # L + 1
    <3>1. i \in DOMAIN passed[key] /\ passed'[key][i] = passed[key][i]
      BY <1>13, <2>3
    <3> DEFINE gone == (Minute + now - passed[key][i]) * PerMinute
    <3>2. /\ gone \in Int /\ (L - i + 1) * Minute \in Int
          /\ Slack(key, i) = gone - (L - i + 1) * Minute
          /\ Slack(key, i) \in Int /\ Backed(key, Slack(key, i))
      BY <3>1, SlackIsWhole DEF Slack, L
    <3>3. (L - i + 1) \in Int /\ L + 1 - i + 1 = (L - i + 1) + 1
      OBVIOUS
    <3>4. (L + 1 - i + 1) * Minute = (L - i + 1) * Minute + Minute
      BY <3>3, Products
    <3>5. Slack(key, i)' = gone - ((L - i + 1) * Minute + Minute)
      BY <2>1, <3>1, <3>4
    <3> HIDE DEF gone
    <3>6. Slack(key, i)' = Slack(key, i) - Minute
      BY <3>2, <3>5
    <3>7. left.tokens <= Slack(key, i) - Minute
      BY <1>16, <3>2
    <3> QED
      BY <2>1, <3>2, <3>6, <3>7
  <2> QED
    BY <2>2, <2>3
<1>19. ASSUME NEW k \in Keys, NEW i \in DOMAIN passed'[k] PROVE Backed(k, Slack(k, i))'
  <2>1. CASE k = key
    <3>1. PICK room \in Int : room = Slack(key, i)'
      BY <1>13, <1>18, <2>1
    <3>2. Backed(key, room)'
      BY <1>13, <1>17, <1>18, <2>1, <3>1
    <3> QED
      BY <2>1, <3>1, <3>2 DEF Backed
  <2>2. CASE k # key
    <3>1. i \in DOMAIN passed[k] /\ Slack(k, i)' = Slack(k, i)
      BY <1>1, <1>13, <2>2 DEF Slack
    <3>2. PICK room \in Int : room = Slack(k, i)
      BY <3>1, SlackIsWhole
    <3>3. Backed(k, room)
      BY <3>1, <3>2
    <3>4. \A b \in ToSet(bucket) : b.key = k => b \in ToSet(bucket') \/ IsIdle(b)
      <4> SUFFICES ASSUME NEW b \in ToSet(bucket), b.key = k, ~IsIdle(b) PROVE b \in ToSet(bucket')
        OBVIOUS
      <4>1. PICK j \in DOMAIN T : b = T[j]
        BY <1>2, <2>2 DEF ToSet
      <4>2. j # n
        BY <1>3, <2>2, <4>1
      <4> QED
        BY <1>10, <4>1, <4>2 DEF ToSet
    <3>5. Backed(k, room)'
      BY <1>1, <3>3, <3>4, BackingStays
    <3> QED
      BY <3>1, <3>2, <3>5 DEF Backed
  <2> QED
    BY <2>1, <2>2
<1>20. RateHolds'
  <2> SUFFICES ASSUME NEW k \in Keys, NEW i \in DOMAIN passed'[k], NEW j \in DOMAIN passed'[k], i <= j
               PROVE  (j - i + 1) * Minute <= (Minute + passed'[k][j] - passed'[k][i]) * PerMinute
    BY DEF RateHolds
  <2>1. CASE k # key
    BY <1>13, <2>1 DEF RateHolds
  <2>2. CASE k = key /\ j # L + 1
    <3>1. i \in 1 .. L /\ j \in 1 .. L
      BY <1>13, <2>2
    <3>2. passed'[k][i] = passed[k][i] /\ passed'[k][j] = passed[k][j]
      BY <1>13, <2>2, <3>1
    <3> QED
      BY <1>13, <2>2, <3>1, <3>2 DEF RateHolds
  <2>3. CASE k = key /\ j = L + 1
    <3>1. Slack(key, i)' \in Int /\ left.tokens <= Slack(key, i)' /\ i \in 1 .. L + 1
      BY <1>13, <1>18, <2>3
    <3>2. Slack(key, i)' = (Minute + now - passed'[key][i]) * PerMinute - (L + 1 - i + 1) * Minute
      BY <1>18, <3>1
    <3>3. Slack(key, i)' >= 0
      BY <1>9, <3>1
    <3>4. (Minute + now - passed'[key][i]) * PerMinute \in Int /\ (L + 1 - i + 1) * Minute \in Int
      <4>1. (Minute + now - passed'[key][i]) \in Int /\ (L + 1 - i + 1) \in Int
        <5>1. passed'[key][i] \in Nat /\ i \in Nat /\ L \in Nat
          BY <1>13, <3>1
        <5>2. now \in Nat /\ Minute \in Nat
          BY AdmissionAssumption DEF AdmissionAssumption, RateTypes
        <5> QED
          BY <5>1, <5>2
      <4> QED
        BY <4>1, Products
    <3>5. (L + 1 - i + 1) * Minute <= (Minute + now - passed'[key][i]) * PerMinute
      BY <3>1, <3>2, <3>3, <3>4
    <3> QED
      BY <1>13, <2>3, <3>5
  <2> QED
    BY <2>1, <2>2, <2>3
<1> QED
  BY <1>14, <1>19, <1>20

LEMMA MinuteKeepsRate ==
  ASSUME RateInv, MinutePasses
  PROVE  RateInv'
<1> USE DEF RateInv
<1>1. now' = now + 1 /\ bucket' = bucket /\ passed' = passed /\ now \in Nat
  BY DEF MinutePasses, RateTypes
<1>2. RateTypes'
  <2>1. \A i \in DOMAIN bucket : bucket[i].at \in Nat
    <3>1. \A i \in DOMAIN bucket : bucket[i] \in Bucket
      BY DEF RateTypes
    <3> QED
      BY <3>1 DEF Bucket
  <2>2. \A k \in Keys : \A i \in DOMAIN passed[k] : passed[k][i] \in Nat
    BY DEF RateTypes
  <2> QED
    BY <1>1, <2>1, <2>2 DEF RateTypes
<1>3. ASSUME NEW k \in Keys, NEW i \in DOMAIN passed[k] PROVE Backed(k, Slack(k, i))'
  <2>1. PICK room \in Int : room = Slack(k, i)
    BY SlackIsWhole
  <2>2. Slack(k, i)' = room + PerMinute
    <3>1. /\ passed[k][i] \in Nat /\ Minute \in Nat /\ PerMinute \in Nat
          /\ (Minute + now - passed[k][i]) * PerMinute \in Int
          /\ (Len(passed[k]) - i + 1) * Minute \in Int
      BY SlackIsWhole, AdmissionAssumption DEF AdmissionAssumption
    <3>2. (Minute + now - passed[k][i]) \in Int /\ Minute + (now + 1) - passed[k][i] = (Minute + now - passed[k][i]) + 1
      <4>1. \A m, n, o \in Nat : (m + n - o) \in Int /\ m + (n + 1) - o = (m + n - o) + 1
        OBVIOUS
      <4>2. Minute \in Nat /\ now \in Nat /\ passed[k][i] \in Nat
        BY <1>1, <3>1
      <4> QED
        BY <4>1, <4>2, Zenon
    <3>3. (Minute + (now + 1) - passed[k][i]) * PerMinute = (Minute + now - passed[k][i]) * PerMinute + PerMinute
      BY <3>2, NextMinute, Zenon
    <3>4. Slack(k, i)' = (Minute + (now + 1) - passed[k][i]) * PerMinute - (Len(passed[k]) - i + 1) * Minute
      BY <1>1 DEF Slack
    <3>5. room = (Minute + now - passed[k][i]) * PerMinute - (Len(passed[k]) - i + 1) * Minute
      BY <2>1 DEF Slack
    <3> QED
      BY <3>1, <3>3, <3>4, <3>5
  <2>3. PerMinute \in Nat /\ room + PerMinute \in Int /\ Cap \in Nat
    BY Products, AdmissionAssumption DEF AdmissionAssumption
  <2>4. CASE room >= Cap
    <3>1. room + PerMinute >= Cap
      BY <2>3, <2>4
    <3> QED
      BY <2>2, <3>1 DEF Backed, Cap
  <2>5. CASE ~(room >= Cap)
    <3>1. PICK b \in ToSet(bucket) : b.key = k /\ Refilled(b) <= room
      BY <2>1, <2>5 DEF Backed
    <3>2. b \in Bucket
      BY DEF RateTypes, ToSet
    <3>3. Refilled(b) \in Int /\ Refilled(b)' = Refilled(b) + PerMinute
      <4>1. PICK next \in Int : next = now + 1 /\ now' = next
        BY <1>1
      <4>2. b.tokens \in Nat /\ (now - b.at) \in Int /\ next - b.at = (now - b.at) + 1
        BY <1>1, <3>2, <4>1 DEF Bucket
      <4>3. (next - b.at) * PerMinute = (now - b.at) * PerMinute + PerMinute /\ (now - b.at) * PerMinute \in Int
        BY <4>2, NextMinute, Products
      <4>4. Refilled(b) = b.tokens + (now - b.at) * PerMinute
        BY DEF Refilled
      <4>5. Refilled(b)' = b.tokens + (next - b.at) * PerMinute
        BY <4>1 DEF Refilled
      <4> QED
        BY <2>3, <4>2, <4>3, <4>4, <4>5
    <3>4. Refilled(b)' <= room + PerMinute
      BY <2>3, <3>1, <3>3
    <3> QED
      BY <1>1, <2>2, <3>1, <3>4 DEF Backed
  <2> QED
    BY <2>4, <2>5
<1> QED
  BY <1>1, <1>2, <1>3 DEF RateHolds

LEMMA RateStepKeeps ==
  ASSUME RateInv, [AdmissionNext]_admissionVars
  PROVE  RateInv'
<1>1. ASSUME UNCHANGED <<now, bucket, passed>> PROVE RateInv'
  <2>1. RateTypes' /\ RateHolds'
    BY <1>1 DEF RateInv, RateTypes, RateHolds
  <2>2. ASSUME NEW k \in Keys, NEW i \in DOMAIN passed[k] PROVE Backed(k, Slack(k, i))'
    BY <1>1 DEF RateInv, Backed, Slack, Refilled
  <2> QED
    BY <1>1, <2>1, <2>2 DEF RateInv
<1>2. CASE UNCHANGED admissionVars
  BY <1>1, <1>2 DEF admissionVars
<1>3. ASSUME NEW t \in Tokens, MakeToken(t) PROVE RateInv'
  BY <1>1, <1>3 DEF MakeToken
<1>4. ASSUME NEW r \in request, Consume(r) \/ InsertDevice(r) \/ PairingFails(r) PROVE RateInv'
  BY <1>1, <1>4 DEF Consume, InsertDevice, PairingFails
<1>5. CASE PurgeTokens
  BY <1>1, <1>5 DEF PurgeTokens
<1> QED
  BY <1>2, <1>3, <1>4, <1>5, AdmittedKeepsRate, RefusedKeepsRate, MinuteKeepsRate DEF AdmissionNext

\* AdmitsNoMore: over any stretch of time a key is let through as often as a full bucket
\* and its refill allow, also when prune has dropped its bucket in between, and a pairing
\* token pairs one device however many requests carry it at once.
THEOREM AdmitsNoMoreHolds == AdmissionSpec => []AdmitsNoMore
<1>1. AdmissionInit => PairingInv /\ RateInv
  BY InitPairingInv, InitRateInv
<1>2. PairingInv /\ RateInv /\ [AdmissionNext]_admissionVars => (PairingInv /\ RateInv)'
  <2>1. PairingInv /\ UNCHANGED admissionVars => PairingInv'
    BY DEF admissionVars, PairingInv, PairingTypes, Spent, TokenPairsOne
  <2> QED
    BY <2>1, PairingStepKeeps, RateStepKeeps
<1>3. PairingInv /\ RateInv => AdmitsNoMore
  BY DEF PairingInv, RateInv, AdmitsNoMore
<1> QED
  BY <1>1, <1>2, <1>3, PTL DEF AdmissionSpec
=============================================================================
