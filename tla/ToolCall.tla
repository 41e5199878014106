------------------------------ MODULE ToolCall ------------------------------
(* One tools/call through the gateway: the checks at the HTTP boundary          *)
(* (apps/gateway/src/app.ts), those of the tool layer                            *)
(* (apps/gateway/src/mcp/server.ts), the broker with its two audit rows          *)
(* (apps/gateway/src/broker.ts) and the answer.  What the device does with the   *)
(* command is DeviceChannel's; here it answers in one of the ways a caller can   *)
(* tell apart.                                                                   *)
EXTENDS Naturals, Sequences, FiniteSets

\* The scopes of a token and of the tools (packages/protocol/src/catalog.ts).
WriteScope == [deals |-> "deals:write", office |-> "office:write"]
Scopes == {"browser:read", "browser:interact", "browser:admin", "dashboards:read", "deals:write", "office:write"}

ReadTools ==
  {"browser_tabs", "browser_snapshot", "browser_screenshot", "browser_markup", "browser_images",
   "browser_image_get", "browser_wait", "browser_extract", "browser_job_status"}
InteractTools ==
  {"browser_session_open", "browser_navigate", "browser_click", "browser_dismiss_consent", "browser_fill",
   "browser_select", "browser_scroll", "browser_key", "browser_open_and_extract", "browser_extract_many", "browser_handoff"}
BridgeTools == ReadTools \cup InteractTools
ToolScope(t) == IF t \in ReadTools THEN "browser:read" ELSE "browser:interact"
SourceTools == {"ebay_api_search", "ebay_api_items", "ebay_api_seller", "ebay_api_status"}
DashboardReads == {"dashboard_feed", "dashboard_records", "dashboard_summary"}
RunTools == {"deals_run_checkpoint", "deals_run_resume"}
GatewayTools == SourceTools \cup DashboardReads \cup RunTools \cup {"dashboard_upsert"}

ScopeSatisfies(scopes, required) ==
  \/ required \in scopes
  \/ required = "browser:read" /\ "browser:interact" \in scopes

\* runToolDashboardAction, for the tools of a run and those of a dashboard.
DashboardAction(t) == IF t \in {"dashboard_upsert", "deals_run_checkpoint"} THEN "upsert" ELSE "feed"

\* dashboardScopeSatisfies.
DashboardScopeSatisfies(scopes, dashboard, action) ==
  IF action = "upsert" THEN WriteScope[dashboard] \in scopes
  ELSE "dashboards:read" \in scopes \/ \E d \in DOMAIN WriteScope : WriteScope[d] \in scopes

VARIABLES
  req,      \* the request and how far it has come
  dispatched,  \* the command sent to the device: "none", or how it ended there
  audit,    \* the rows of audit_events about it
  lost,     \* the rows that could not be written
  reply     \* what the caller has been told

callVars == <<req, dispatched, audit, lost, reply>>

CallInit ==
  /\ req = [at |-> "idle", tool |-> "none", scopes |-> {}, dashboard |-> "deals", artifacts |-> 0]
  /\ dispatched = "none" /\ audit = <<>> /\ lost = {} /\ reply = "none"

Goes(step) == req' = [req EXCEPT !.at = step]
Ends(answer) == Goes("over") /\ reply' = answer

-----------------------------------------------------------------------------
(* The boundary and the tool layer.                                            *)

\* The /mcp route: bearer, limit, size, scope.  Without OAuth every scope is granted.  A
\* body that is not one call of a browser tool is not screened here.
Arrives(tool, scopes, dashboard, batched) ==
  /\ req.at = "idle"
  /\ req' = [at |-> IF tool \in BridgeTools /\ ~batched /\ ~ScopeSatisfies(scopes, ToolScope(tool)) THEN "refused" ELSE "tool",
             tool |-> tool, scopes |-> scopes, dashboard |-> dashboard, artifacts |-> 0]
  /\ UNCHANGED <<dispatched, audit, lost, reply>>

\* No bearer that verifies, no token in the bucket, a body too large, or the scope.
TurnedAway ==
  /\ req.at \in {"idle", "refused"}
  /\ Ends("http error")
  /\ UNCHANGED <<dispatched, audit, lost>>

\* registerBridgeTool's own check.
BridgeTool ==
  /\ req.at = "tool" /\ req.tool \in BridgeTools
  /\ IF ScopeSatisfies(req.scopes, ToolScope(req.tool)) THEN Goes("resolve") /\ reply' = reply ELSE Ends("error")
  /\ UNCHANGED <<dispatched, audit, lost>>

\* A tool the gateway answers by itself: its scope, its work, its answer.
Authorised(t, scopes, dashboard) ==
  IF t \in SourceTools THEN ScopeSatisfies(scopes, "browser:read")
  ELSE DashboardScopeSatisfies(scopes, dashboard, DashboardAction(t))

GatewayTool ==
  /\ req.at = "tool" /\ req.tool \in GatewayTools
  /\ IF Authorised(req.tool, req.scopes, IF req.tool \in RunTools THEN "deals" ELSE req.dashboard)
     THEN /\ \E answer \in {"ok", "error"} : Ends(answer)
          /\ dispatched' = IF reply' = "ok" /\ req.tool \notin SourceTools THEN DashboardAction(req.tool) ELSE dispatched
     ELSE Ends("error") /\ dispatched' = dispatched
  /\ UNCHANGED <<audit, lost>>

-----------------------------------------------------------------------------
(* CommandBroker.call.                                                         *)

\* No session has the handle, or it is malformed.
NotResolved ==
  /\ req.at = "resolve" /\ req.tool # "browser_session_open"
  /\ Ends("error")
  /\ UNCHANGED <<dispatched, audit, lost>>

\* sendCommand is rejected, or an answer comes: an error, or a result with its artifacts.
Sent(outcome, artifacts) ==
  /\ req.at = "resolve"
  /\ artifacts > 0 => outcome = "ok" /\ req.tool \in {"browser_screenshot", "browser_image_get"}
  /\ dispatched' = outcome
  /\ req' = [req EXCEPT !.at = "audit command", !.artifacts = artifacts]
  /\ UNCHANGED <<audit, lost, reply>>

CommandRow == [class |-> "command", outcome |-> IF dispatched = "ok" THEN "ok" ELSE "error"]
FinalRow(outcome) == [class |-> "call", outcome |-> outcome]

\* Writes a row, or fails to: that is logged and changes nothing else.
Records(row) ==
  \/ audit' = Append(audit, row) /\ lost' = lost
  \/ audit' = audit /\ lost' = lost \cup {row.class}

\* A call that fails leaves its final row only.
AuditsSuccessesOnly ==
  /\ req.at = "audit command"
  /\ IF dispatched = "ok" THEN Records(CommandRow) /\ Goes("persist") ELSE Goes("audit failure") /\ UNCHANGED <<audit, lost>>
  /\ UNCHANGED <<dispatched, reply>>

\* auditCommand; a rejected one whose device is offline has the devices looked up before,
\* which changes the message and never the error.
AuditsCommand ==
  /\ req.at = "audit command"
  /\ Records(CommandRow)
  /\ Goes(IF dispatched = "ok" THEN "persist" ELSE "audit failure")
  /\ UNCHANGED <<dispatched, reply>>

\* The outcome of a call that failed: "denied" if the agent blocked it.
AuditsFailure ==
  /\ req.at = "audit failure"
  /\ Records(FinalRow(IF dispatched = "blocked" THEN "denied" ELSE "error"))
  /\ Ends("error")
  /\ UNCHANGED dispatched

\* The row of a new session; a write that fails ends the call without a final row.
Persists ==
  /\ req.at = "persist"
  /\ \/ Goes("artifacts") /\ reply' = reply
     \/ req.tool = "browser_session_open" /\ Ends("error")
  /\ UNCHANGED <<dispatched, audit, lost>>

\* materializeArtifacts, likewise.
Materializes ==
  /\ req.at = "artifacts"
  /\ \/ Goes("audit ok") /\ reply' = reply
     \/ req.artifacts > 0 /\ Ends("error")
  /\ UNCHANGED <<dispatched, audit, lost>>

AuditsOk ==
  /\ req.at = "audit ok"
  /\ Records(FinalRow("ok"))
  /\ Goes("answer")
  /\ UNCHANGED <<dispatched, reply>>

\* The result is shaped and checked against the schema the tool promises.
CallAnswers ==
  /\ req.at = "answer"
  /\ \E answer \in {"ok", "schema error"} : Ends(answer)
  /\ UNCHANGED <<dispatched, audit, lost>>

AgentOutcomes == {"ok", "error", "blocked", "offline"}

CallNext ==
  \/ \E scopes \in SUBSET Scopes :
       \/ \E t \in BridgeTools, batched \in BOOLEAN : Arrives(t, scopes, "deals", batched)
       \/ \E t \in GatewayTools, d \in DOMAIN WriteScope : Arrives(t, scopes, d, FALSE)
  \/ TurnedAway \/ BridgeTool \/ GatewayTool \/ NotResolved
  \/ \E outcome \in AgentOutcomes, n \in 0 .. 1 : Sent(outcome, n)
  \/ AuditsCommand \/ AuditsFailure \/ Persists \/ Materializes \/ AuditsOk \/ CallAnswers

CallSpec == CallInit /\ [][CallNext]_callVars

-----------------------------------------------------------------------------
(* Properties.                                                                 *)

\* What the log says of a call is what happened to it: a command that was sent has its
\* row, a call its caller was told succeeded has both, one its agent blocked is denied,
\* and nothing is recorded as a success that the caller never saw succeed, but for a
\* result that fails the gateway's own schema; and no command is sent for a token
\* without the scope, however the call is wrapped (call, auditCommand, audit,
\* registerBridgeTool).
Rows == {audit[i] : i \in DOMAIN audit}
CallsAreAccountedFor ==
  /\ reply = "ok" /\ req.tool \in BridgeTools =>
       \A class \in {"command", "call"} : class \in lost \/ [class |-> class, outcome |-> "ok"] \in Rows
  /\ req.at = "over" /\ dispatched \in AgentOutcomes => "command" \in lost \/ CommandRow \in Rows
  /\ req.at = "over" /\ FinalRow("ok") \in Rows => reply \in {"ok", "schema error"}
  /\ FinalRow("denied") \in Rows => dispatched = "blocked"
  /\ dispatched \in AgentOutcomes => req.scopes \cap {"browser:read", "browser:interact"} # {}
  /\ dispatched \in AgentOutcomes /\ req.tool \in InteractTools => "browser:interact" \in req.scopes
  /\ dispatched = "upsert" => WriteScope[IF req.tool \in RunTools THEN "deals" ELSE req.dashboard] \in req.scopes
=============================================================================
