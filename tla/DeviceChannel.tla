---------------------------- MODULE DeviceChannel ----------------------------
(***************************************************************************)
(* The device channel: the gateway's connection registry and WebSocket     *)
(* handler (apps/gateway/src/devices/registry.ts, wsHandler.ts) joined to  *)
(* the agent's outbound connection (apps/windows-agent/src/connection.ts). *)
(*                                                                         *)
(* Every JavaScript handler runs to its next `await` as one step, so one   *)
(* action is one such stretch.  Timers are actions enabled while armed.    *)
(* A socket is one WebSocket, seen from both of its ends; a link that is   *)
(* lost is either reset (both ends are told) or silent (nobody is).  An    *)
(* agent's sockets come from a small pool and are used again, so it may    *)
(* reconnect for ever.                                                     *)
(***************************************************************************)
EXTENDS Integers, Sequences, FiniteSets

CONSTANTS
  Device,        \* paired devices, one agent process each
  MaxSockets,    \* bound on the sockets of one agent in use at a time
  Request,       \* request ids of the commands sent (bounds the calls)
  NoSocket,      \* null in place of a socket
  AnyDevice,     \* the deviceId literal "default"
  Faults,        \* the kinds of fault that may happen
  MaxFaults      \* bound on how many do

\* A link reset or gone silent, a handshake slower than its timeout, the end
\* of either process, a device revoked.
Losses == {"reset", "silent"}
FaultKind == Losses \cup {"slow", "agentCrash", "gatewayCrash", "revoked"}

\* Each agent dials from a pool of its own; see Free.
Socket == Device \X (1..MaxSockets)
Owner(s) == s[1]

ASSUME ConstantsAssumption ==
  /\ MaxSockets \in Nat
  /\ NoSocket \notin Socket
  /\ AnyDevice \notin Device
  /\ Faults \subseteq FaultKind
  /\ MaxFaults \in Nat

VARIABLES
  ag,         \* readyState of the agent's end
  gw,         \* readyState of the gateway's end
  link,       \* the network between the two ends
  toAg, toGw, \* frames in flight, in order
  hs,         \* how far the gateway's handler has got with device.hello
  conn,       \* DeviceRegistry.connections
  pending,    \* DeviceRegistry.pending
  deadlines,  \* requests whose deadline timer is armed
  ackTimers,  \* requests whose ack timer is armed
  sentOn,     \* the socket a request's command frame went out on
  rdev,       \* the device a call was resolved to
  called,     \* calls made so far
  outcome,    \* what the caller was told
  up,         \* agent processes that are running
  redial,     \* agents whose reconnect timer is armed
  ws,         \* AgentConnection.ws
  ready,      \* agents with a connectionId (and artifact token)
  reports,    \* state reports an agent is still collecting
  inFlight,   \* AgentConnection.inFlight
  recent,     \* AgentConnection.recentResults
  cancelled,  \* AgentConnection.cancelled
  execs,      \* history: executions begun for a request
  active,     \* devices whose row is active in the device store
  faults      \* bounded by MaxFaults

sockVars == <<ag, gw, link, toAg, toGw, hs>>
regVars  == <<conn, pending, deadlines, ackTimers>>
callVars == <<sentOn, rdev, called, outcome>>
agentVars == <<up, redial, ws, ready, reports>>
workVars == <<inFlight, recent, cancelled, execs>>
envVars  == <<active, faults>>
vars == <<sockVars, regVars, callVars, agentVars, workVars, envVars>>

-----------------------------------------------------------------------------
(* Frames (packages/protocol/src/wire.ts).  Heartbeats carry no state and   *)
(* appear only through what their absence does.                             *)
(* Operators that no action uses are variants with a plausible mistake in   *)
(* them (a dropped guard, a timer left armed, a swapped order); each stands *)
(* before the definition it varies, and README.md says what it would break. *)

Challenge   == [type |-> "device.challenge"]
Ready       == [type |-> "device.ready"]
Command(r)  == [type |-> "command", req |-> r]
Cancel(r)   == [type |-> "cancel", req |-> r]
Hello       == [type |-> "device.hello"]
StateReport == [type |-> "state.report"]
Ack(r)      == [type |-> "ack", req |-> r]
Result(r,k) == [type |-> "result", req |-> r, status |-> k]

ToAgentFrame ==
  {Challenge, Ready} \cup {Command(r) : r \in Request} \cup {Cancel(r) : r \in Request}
ResultStatus == {"ok", "error"}
ToGatewayFrame ==
  {Hello, StateReport} \cup {Ack(r) : r \in Request}
          \cup {Result(r, k) : r \in Request, k \in ResultStatus}

AgentEnd   == {"none", "connecting", "open", "closed"}
GatewayEnd == {"none", "open", "closing", "closed"}
HelloStage == {"hello", "lookup", "stamping", "done", "refused"}
Failure    == {"DEVICE_OFFLINE", "AGENT_UNRESPONSIVE", "TIMEOUT", "GATEWAY_LOST"}
Outcome    == {"none"} \cup ResultStatus \cup Failure

\* authenticatedDeviceId is set between the end of the store lookup and the
\* first statement after it (wsHandler.ts:145).
Authenticated(s) == hs[s] \in {"stamping", "done"}

\* onlineDeviceIds: registered and OPEN, the test sendCommand applies.
Online(d) == conn[d] # NoSocket /\ gw[conn[d]] = "open"

Registered == {d \in Device : conn[d] # NoSocket}

ResolveToNull(asked) ==
  IF asked # AnyDevice THEN asked
  ELSE IF \E d \in Device : Registered = {d} THEN CHOOSE d \in Device : Registered = {d}
  ELSE NoSocket

\* resolveDeviceId: an exact id, or "default" when exactly one is registered.
ResolveDeviceId(asked) ==
  IF asked = AnyDevice /\ \E d \in Device : Registered = {d}
  THEN CHOOSE d \in Device : Registered = {d}
  ELSE asked

-----------------------------------------------------------------------------
Init ==
  /\ ag = [s \in Socket |-> "none"]
  /\ gw = [s \in Socket |-> "none"]
  /\ link = [s \in Socket |-> "up"]
  /\ toAg = [s \in Socket |-> <<>>]
  /\ toGw = [s \in Socket |-> <<>>]
  /\ hs = [s \in Socket |-> "hello"]
  /\ conn = [d \in Device |-> NoSocket]
  /\ pending = {} /\ deadlines = {} /\ ackTimers = {}
  /\ sentOn = [r \in Request |-> NoSocket]
  /\ rdev = [r \in Request |-> AnyDevice]
  /\ called = {}
  /\ outcome = [r \in Request |-> "none"]
  /\ up = Device /\ redial = Device
  /\ ws = [d \in Device |-> NoSocket]
  /\ ready = {}
  /\ reports = [d \in Device |-> 0]
  /\ inFlight = [d \in Device |-> {}]
  /\ recent = [d \in Device |-> [r \in Request |-> "none"]]
  /\ cancelled = [d \in Device |-> {}]
  /\ execs = [r \in Request |-> 0]
  /\ active = Device
  /\ faults = 0

Fault(kind) == kind \in Faults /\ faults < MaxFaults /\ faults' = faults + 1

-----------------------------------------------------------------------------
(* Sending.  A frame written to a socket that is not OPEN, or whose link is *)
(* gone, is dropped; on a silent link the agent's kernel keeps it queued.   *)

GatewaySends(s, frame) ==
  toAg' = IF gw[s] = "open" /\ link[s] = "up"
          THEN [toAg EXCEPT ![s] = Append(@, frame)] ELSE toAg

AgentSends(s, frames) ==
  toGw' = IF link[s] # "reset" THEN [toGw EXCEPT ![s] = @ \o frames] ELSE toGw

-----------------------------------------------------------------------------
(* The agent's end of a socket.                                             *)

\* A member of the pool is a new socket again once both ends of the old one
\* have closed and nothing on the gateway holds it.
Free(s) ==
  /\ ag[s] \in {"none", "closed"} /\ gw[s] \in {"none", "closed"}
  /\ hs[s] \notin {"lookup", "stamping"}
  /\ conn[Owner(s)] # s

\* connect: the reconnect timer (or start) dials a fresh socket.
Dial(s) ==
  LET d == Owner(s) IN
  /\ d \in redial
  /\ Free(s) /\ \A n \in 1..(s[2] - 1) : ~Free(<<d, n>>)
  /\ ag' = [ag EXCEPT ![s] = "connecting"]
  /\ gw' = [gw EXCEPT ![s] = "none"]
  /\ link' = [link EXCEPT ![s] = "up"]
  /\ hs' = [hs EXCEPT ![s] = "hello"]
  /\ toAg' = [toAg EXCEPT ![s] = <<>>]
  /\ toGw' = [toGw EXCEPT ![s] = <<>>]
  /\ ws' = [ws EXCEPT ![d] = s]
  /\ redial' = redial \ {d}
  /\ ready' = ready \ {d}
  /\ UNCHANGED <<up, reports>>
  /\ UNCHANGED <<regVars, callVars, workVars, envVars>>

\* The upgrade completes: handleAgentSocket runs and sends the challenge.
Accept(s) ==
  /\ ag[s] = "connecting" /\ link[s] = "up"
  /\ ag' = [ag EXCEPT ![s] = "open"]
  /\ gw' = [gw EXCEPT ![s] = "open"]
  /\ toAg' = [toAg EXCEPT ![s] = <<Challenge>>]
  /\ UNCHANGED <<link, toGw, hs>>
  /\ UNCHANGED <<regVars, callVars, agentVars, workVars, envVars>>

\* The agent learns its socket is gone: from the peer's close frame, after
\* every frame before it; from a reset; or, on a silent link, from its
\* heartbeat timer (armed by device.ready only) or from TCP giving up on a
\* handshake or on unacknowledged frames.
AgentLearnsOfClose(s) ==
  \/ link[s] = "reset"
  \/ link[s] = "up" /\ gw[s] \in {"closing", "closed"} /\ toAg[s] = <<>>
  \/ link[s] = "silent" /\ (Owner(s) \in ready \/ toGw[s] # <<>> \/ ag[s] = "connecting")

OnDisconnectForGood(s) ==
  LET d == Owner(s) IN
  /\ ag[s] \in {"connecting", "open"} /\ AgentLearnsOfClose(s)
  /\ ag' = [ag EXCEPT ![s] = "closed"] /\ toAg' = [toAg EXCEPT ![s] = <<>>]
  /\ ws' = [ws EXCEPT ![d] = NoSocket] /\ ready' = ready \ {d}
  /\ UNCHANGED <<gw, link, toGw, hs, up, redial, reports, regVars, callVars, workVars, envVars>>

\* The ws 'close' event: onDisconnect forgets the socket and arms the
\* reconnect timer.
OnDisconnect(s) ==
  LET d == Owner(s) IN
  /\ ag[s] \in {"connecting", "open"}
  /\ AgentLearnsOfClose(s)
  /\ ag' = [ag EXCEPT ![s] = "closed"]
  /\ toAg' = [toAg EXCEPT ![s] = <<>>]
  /\ ws' = [ws EXCEPT ![d] = NoSocket]
  /\ ready' = ready \ {d}
  /\ redial' = redial \cup {d}
  /\ UNCHANGED <<gw, link, toGw, hs, up, reports>>
  /\ UNCHANGED <<regVars, callVars, workVars, envVars>>

AgentReads(s, frame) ==
  /\ ag[s] = "open" /\ link[s] = "up" /\ toAg[s] # <<>>
  /\ Head(toAg[s]) = frame
  /\ toAg' = [toAg EXCEPT ![s] = Tail(@)]

OnChallenge(s) ==
  /\ AgentReads(s, Challenge)
  /\ AgentSends(s, <<Hello>>)
  /\ UNCHANGED <<ag, gw, link, hs>>
  /\ UNCHANGED <<regVars, callVars, agentVars, workVars, envVars>>

\* Adopts the connection id and token, starts the heartbeat timer, and begins
\* to collect the state report, which awaits every session's tabs.
OnReady(s) ==
  /\ AgentReads(s, Ready)
  /\ ready' = ready \cup {Owner(s)}
  /\ reports' = [reports EXCEPT ![Owner(s)] = @ + 1]
  /\ UNCHANGED <<ag, gw, link, toGw, hs, up, redial, ws>>
  /\ UNCHANGED <<regVars, callVars, workVars, envVars>>

\* The report is collected and sent on whatever socket is current now.
SendStateReport(d) ==
  /\ reports[d] > 0
  /\ reports' = [reports EXCEPT ![d] = @ - 1]
  /\ IF ws[d] # NoSocket /\ ag[ws[d]] = "open"
     THEN AgentSends(ws[d], <<StateReport>>) ELSE UNCHANGED toGw
  /\ UNCHANGED <<ag, gw, link, toAg, hs, up, redial, ws, ready>>
  /\ UNCHANGED <<regVars, callVars, workVars, envVars>>

OnCancel(s, r) ==
  /\ AgentReads(s, Cancel(r))
  /\ cancelled' = [cancelled EXCEPT ![Owner(s)] = @ \cup {r}]
  /\ UNCHANGED <<ag, gw, link, toGw, hs, inFlight, recent, execs>>
  /\ UNCHANGED <<regVars, callVars, agentVars, envVars>>

\* onCommand up to its first await: replay a finished request, ignore one in
\* flight, refuse a cancelled one, otherwise ack and begin executing.
OnCommand(s, r) ==
  LET d == Owner(s) IN
  /\ AgentReads(s, Command(r))
  /\ CASE recent[d][r] # "none" ->
            /\ AgentSends(s, <<Result(r, recent[d][r])>>)
            /\ UNCHANGED workVars
       [] recent[d][r] = "none" /\ r \in inFlight[d] ->
            UNCHANGED <<toGw, workVars>>
       [] recent[d][r] = "none" /\ r \notin inFlight[d] /\ r \in cancelled[d] ->
            /\ AgentSends(s, <<Ack(r), Result(r, "error")>>)
            /\ cancelled' = [cancelled EXCEPT ![d] = @ \ {r}]
            /\ recent' = [recent EXCEPT ![d][r] = "error"]
            /\ UNCHANGED <<inFlight, execs>>
       [] OTHER ->
            /\ AgentSends(s, <<Ack(r)>>)
            /\ inFlight' = [inFlight EXCEPT ![d] = @ \cup {r}]
            /\ execs' = [execs EXCEPT ![r] = @ + 1]
            /\ UNCHANGED <<recent, cancelled>>
  /\ UNCHANGED <<ag, gw, link, hs>>
  /\ UNCHANGED <<regVars, callVars, agentVars, envVars>>

\* The process exits: memory is gone and the kernel resets its socket.
AgentDies(d) ==
  /\ up' = up \ {d} /\ redial' = redial \ {d} /\ ready' = ready \ {d}
  /\ ws' = [ws EXCEPT ![d] = NoSocket] /\ reports' = [reports EXCEPT ![d] = 0]
  /\ inFlight' = [inFlight EXCEPT ![d] = {}]
  /\ recent' = [recent EXCEPT ![d] = [r \in Request |-> "none"]]
  /\ cancelled' = [cancelled EXCEPT ![d] = {}]
  /\ IF ws[d] = NoSocket
     THEN UNCHANGED <<ag, link, toAg, toGw>>
     ELSE /\ ag' = [ag EXCEPT ![ws[d]] = "closed"]
          /\ link' = [link EXCEPT ![ws[d]] = "reset"]
          /\ toAg' = [toAg EXCEPT ![ws[d]] = <<>>]
          /\ toGw' = [toGw EXCEPT ![ws[d]] = <<>>]

\* onCommand's finally block, and its result kept for replay.
Concludes(d, r, k) ==
  /\ inFlight' = [inFlight EXCEPT ![d] = @ \ {r}]
  /\ cancelled' = [cancelled EXCEPT ![d] = @ \ {r}]
  /\ recent' = [recent EXCEPT ![d][r] = k]
  /\ UNCHANGED execs

\* onCommand after its await: the result is written to whatever socket is
\* current now, authenticated or not.
Finish(d, r, k) ==
  /\ r \in inFlight[d]
  /\ ws[d] # NoSocket => ag[ws[d]] = "open"
  /\ Concludes(d, r, k)
  /\ IF ws[d] = NoSocket THEN UNCHANGED toGw ELSE AgentSends(ws[d], <<Result(r, k)>>)
  /\ UNCHANGED <<ag, gw, link, toAg, hs>>
  /\ UNCHANGED <<regVars, callVars, agentVars, envVars>>

\* The same step while the current socket is still CONNECTING: ws.send
\* throws, nothing awaits onFrame, and the rejection ends the process.
FinishWhileConnecting(d, r) ==
  /\ r \in inFlight[d]
  /\ ws[d] # NoSocket /\ ag[ws[d]] = "connecting"
  /\ AgentDies(d)
  /\ UNCHANGED <<gw, hs, execs>>
  /\ UNCHANGED <<regVars, callVars, envVars>>

\* Bounded: the agent process is killed.
AgentCrash(d) ==
  /\ d \in up /\ Fault("agentCrash") /\ AgentDies(d)
  /\ UNCHANGED <<gw, hs, execs, active>>
  /\ UNCHANGED <<regVars, callVars>>

\* The logon task starts the agent again: connection.start().
AgentRestart(d) ==
  /\ d \notin up
  /\ up' = up \cup {d} /\ redial' = redial \cup {d}
  /\ UNCHANGED <<ws, ready, reports>>
  /\ UNCHANGED <<sockVars, regVars, callVars, workVars, envVars>>

-----------------------------------------------------------------------------
(* The gateway's handler.                                                   *)

SettleKeepsDeadline(R, o) ==
  /\ pending' = pending \ R /\ ackTimers' = ackTimers \ R
  /\ outcome' = [r \in Request |-> IF r \in R THEN o ELSE outcome[r]]
  /\ UNCHANGED deadlines

\* settleResult, settleError: both timers cleared, the entry deleted, the
\* promise settled.  R is a set of pending requests.
Settle(R, o) ==
  /\ pending' = pending \ R
  /\ deadlines' = deadlines \ R
  /\ ackTimers' = ackTimers \ R
  /\ outcome' = [r \in Request |-> IF r \in R THEN o ELSE outcome[r]]

\* socket.close on a socket that is already closing or closed does nothing.
GatewayCloses(s) == gw' = IF gw[s] = "open" THEN [gw EXCEPT ![s] = "closing"] ELSE gw

RegisterKeepsOld(s) == conn' = [conn EXCEPT ![Owner(s)] = s] /\ UNCHANGED gw

\* register: another socket of the device is closed ("superseded").
Register(s) ==
  LET d == Owner(s) IN
  /\ IF conn[d] \in {NoSocket, s} THEN UNCHANGED gw ELSE GatewayCloses(conn[d])
  /\ conn' = [conn EXCEPT ![d] = s]

UnregisterWhoever(s) ==
  /\ conn' = [conn EXCEPT ![Owner(s)] = NoSocket]
  /\ Settle({r \in pending : rdev[r] = Owner(s)}, "DEVICE_OFFLINE")

UnregisterRejectsAll(s) ==
  /\ conn' = IF conn[Owner(s)] = s THEN [conn EXCEPT ![Owner(s)] = NoSocket] ELSE conn
  /\ Settle({r \in called : rdev[r] = Owner(s)}, "DEVICE_OFFLINE")

\* unregister: the connection is deleted if it is this socket's; every
\* pending request of the device is rejected, whichever socket it went on.
Unregister(s) ==
  LET d == Owner(s) IN
  /\ conn' = IF conn[d] = s THEN [conn EXCEPT ![d] = NoSocket] ELSE conn
  /\ Settle({r \in pending : rdev[r] = d}, "DEVICE_OFFLINE")

\* A frame arrives; ws still delivers frames to a socket that is CLOSING.
GatewayReads(s) ==
  /\ gw[s] \in {"open", "closing"} /\ link[s] = "up" /\ toGw[s] # <<>>
  /\ toGw' = [toGw EXCEPT ![s] = Tail(@)]

\* device.hello up to `await store.devices.get`.
OnHello(s) ==
  /\ GatewayReads(s) /\ Head(toGw[s]) = Hello
  /\ hs' = [hs EXCEPT ![s] = "lookup"]
  /\ UNCHANGED <<ag, gw, link, toAg>>
  /\ UNCHANGED <<regVars, callVars, agentVars, workVars, envVars>>

\* The lookup answers an active device: register, then await touchLastSeen.
\* The socket may meanwhile have closed; nothing here looks.
OnHelloVerified(s) ==
  /\ hs[s] = "lookup" /\ Owner(s) \in active
  /\ hs' = [hs EXCEPT ![s] = "stamping"]
  /\ Register(s)
  /\ UNCHANGED <<ag, link, toAg, toGw, pending, deadlines, ackTimers>>
  /\ UNCHANGED <<callVars, agentVars, workVars, envVars>>

\* The lookup answers a revoked device.
OnHelloRefused(s) ==
  /\ hs[s] = "lookup" /\ Owner(s) \notin active
  /\ hs' = [hs EXCEPT ![s] = "refused"]
  /\ GatewayCloses(s)
  /\ UNCHANGED <<ag, link, toAg, toGw>>
  /\ UNCHANGED <<regVars, callVars, agentVars, workVars, envVars>>

\* touchLastSeen is done: issue the token and send device.ready.
OnStamped(s) ==
  /\ hs[s] = "stamping"
  /\ hs' = [hs EXCEPT ![s] = "done"]
  /\ GatewaySends(s, Ready)
  /\ UNCHANGED <<ag, gw, link, toGw>>
  /\ UNCHANGED <<regVars, callVars, agentVars, workVars, envVars>>

\* Any frame but device.hello on an unauthenticated socket closes it.
OnUnauthenticated(s) ==
  /\ GatewayReads(s) /\ Head(toGw[s]) # Hello /\ ~Authenticated(s)
  /\ GatewayCloses(s)
  /\ UNCHANGED <<ag, link, toAg, hs>>
  /\ UNCHANGED <<regVars, callVars, agentVars, workVars, envVars>>

OnAckClearsDeadline(s, r) ==
  /\ GatewayReads(s) /\ Head(toGw[s]) = Ack(r) /\ Authenticated(s)
  /\ ackTimers' = ackTimers \ {r} /\ deadlines' = deadlines \ {r}
  /\ UNCHANGED <<ag, gw, link, toAg, hs, conn, pending, callVars, agentVars, workVars, envVars>>

\* markAcked: the ack timer is cleared if the request is still pending.
OnAck(s, r) ==
  /\ GatewayReads(s) /\ Head(toGw[s]) = Ack(r) /\ Authenticated(s)
  /\ ackTimers' = ackTimers \ {r}
  /\ UNCHANGED <<ag, gw, link, toAg, hs, conn, pending, deadlines>>
  /\ UNCHANGED <<callVars, agentVars, workVars, envVars>>

OnResultUnchecked(s, r, k) ==
  /\ GatewayReads(s) /\ Head(toGw[s]) = Result(r, k) /\ Authenticated(s)
  /\ Settle({r}, k)
  /\ UNCHANGED <<ag, gw, link, toAg, hs, conn, sentOn, rdev, called, agentVars, workVars, envVars>>

\* settleResult: a result for a request no longer pending is discarded.
OnResult(s, r, k) ==
  /\ GatewayReads(s) /\ Head(toGw[s]) = Result(r, k) /\ Authenticated(s)
  /\ Settle({r} \cap pending, k)
  /\ UNCHANGED <<ag, gw, link, toAg, hs, conn, sentOn, rdev, called>>
  /\ UNCHANGED <<agentVars, workVars, envVars>>

\* state.report: the session rows are reconciled; the channel is not touched.
OnStateReport(s) ==
  /\ GatewayReads(s) /\ Head(toGw[s]) = StateReport /\ Authenticated(s)
  /\ UNCHANGED <<ag, gw, link, toAg, hs>>
  /\ UNCHANGED <<regVars, callVars, agentVars, workVars, envVars>>

\* authTimeout fires.  On a live link that is a slow handshake, which counts
\* as a fault.
AuthTimeout(s) ==
  /\ gw[s] = "open" /\ ~Authenticated(s)
  /\ IF link[s] = "up" THEN Fault("slow") ELSE UNCHANGED faults
  /\ GatewayCloses(s)
  /\ UNCHANGED <<ag, link, toAg, toGw, hs, active>>
  /\ UNCHANGED <<regVars, callVars, agentVars, workVars>>

\* The gateway learns: the agent's end closed and every frame before that is
\* read; a reset; or, on a silent link, its heartbeat interval (authenticated
\* sockets only) or ws's own close timeout.
GatewayLearnsOfClose(s) ==
  \/ link[s] = "reset"
  \/ link[s] = "up" /\ ag[s] = "closed" /\ toGw[s] = <<>>
  \/ link[s] = "silent" /\ (Authenticated(s) \/ gw[s] = "closing")

\* The 'close' handler.
OnSocketClosed(s) ==
  /\ gw[s] \in {"open", "closing"}
  /\ GatewayLearnsOfClose(s)
  /\ gw' = [gw EXCEPT ![s] = "closed"]
  /\ toGw' = [toGw EXCEPT ![s] = <<>>]
  /\ IF Authenticated(s) THEN Unregister(s) ELSE UNCHANGED <<regVars, outcome>>
  /\ UNCHANGED <<ag, link, toAg, hs, sentOn, rdev, called>>
  /\ UNCHANGED <<agentVars, workVars, envVars>>

-----------------------------------------------------------------------------
(* Calls.                                                                   *)

\* sendCommand: both timers are armed and the command goes to the registered
\* socket, provided it is OPEN.
SendCommand(r, asked) ==
  LET d == ResolveDeviceId(asked) IN
  /\ r \notin called
  /\ called' = called \cup {r}
  /\ rdev' = [rdev EXCEPT ![r] = d]
  /\ d \in Device /\ Online(d)
  /\ pending' = pending \cup {r}
  /\ deadlines' = deadlines \cup {r}
  /\ ackTimers' = ackTimers \cup {r}
  /\ sentOn' = [sentOn EXCEPT ![r] = conn[d]]
  /\ GatewaySends(conn[d], Command(r))
  /\ UNCHANGED <<ag, gw, link, toGw, hs, conn, outcome>>
  /\ UNCHANGED <<agentVars, workVars, envVars>>

\* sendCommand without an OPEN socket for the target: DEVICE_OFFLINE at once.
RefuseCommand(r, asked) ==
  LET d == ResolveDeviceId(asked) IN
  /\ r \notin called
  /\ called' = called \cup {r}
  /\ rdev' = [rdev EXCEPT ![r] = d]
  /\ ~(d \in Device /\ Online(d))
  /\ outcome' = [outcome EXCEPT ![r] = "DEVICE_OFFLINE"]
  /\ UNCHANGED sentOn
  /\ UNCHANGED <<sockVars, regVars, agentVars, workVars, envVars>>

SendFailsRetries(r) ==
  /\ r \in pending /\ link[sentOn[r]] = "reset" /\ gw[sentOn[r]] # "closed"
  /\ conn[rdev[r]] # NoSocket /\ GatewaySends(conn[rdev[r]], Command(r))
  /\ UNCHANGED <<ag, gw, link, toGw, hs, regVars, callVars, agentVars, workVars, envVars>>

\* The send callback reports an error: the link is known broken before the
\* close event is delivered.
SendFails(r) ==
  /\ r \in pending /\ link[sentOn[r]] = "reset" /\ gw[sentOn[r]] # "closed"
  /\ Settle({r}, "DEVICE_OFFLINE")
  /\ UNCHANGED <<conn, sentOn, rdev, called>>
  /\ UNCHANGED <<sockVars, agentVars, workVars, envVars>>

\* The ack timer.
AckTimeout(r) ==
  /\ r \in ackTimers
  /\ Settle({r} \cap pending, "AGENT_UNRESPONSIVE")
  /\ UNCHANGED <<conn, sentOn, rdev, called>>
  /\ UNCHANGED <<sockVars, agentVars, workVars, envVars>>

DeadlineCancelsEverywhere(r) ==
  /\ r \in deadlines \ ackTimers
  /\ Settle({r} \cap pending, "TIMEOUT")
  /\ toAg' = [s \in Socket |-> IF conn[Owner(s)] = s /\ gw[s] = "open" /\ link[s] = "up"
                               THEN Append(toAg[s], Cancel(r)) ELSE toAg[s]]
  /\ UNCHANGED <<ag, gw, link, toGw, hs, conn, sentOn, rdev, called, agentVars, workVars, envVars>>

\* The deadline timer, set later than the ack timer: settle, then cancel on
\* the device's registered socket.
Deadline(r) ==
  /\ r \in deadlines \ ackTimers
  /\ Settle({r} \cap pending, "TIMEOUT")
  /\ IF conn[rdev[r]] = NoSocket THEN UNCHANGED toAg ELSE GatewaySends(conn[rdev[r]], Cancel(r))
  /\ UNCHANGED <<ag, gw, link, toGw, hs, conn, sentOn, rdev, called>>
  /\ UNCHANGED <<agentVars, workVars, envVars>>

-----------------------------------------------------------------------------
(* Faults.                                                                  *)

LoseLink(s, how) ==
  /\ Fault(how) /\ link[s] = "up" /\ ag[s] \in {"connecting", "open"}
  /\ link' = [link EXCEPT ![s] = how]
  /\ toAg' = [toAg EXCEPT ![s] = <<>>]
  /\ toGw' = IF how = "reset" THEN [toGw EXCEPT ![s] = <<>>] ELSE toGw
  /\ UNCHANGED <<ag, gw, hs, active>>
  /\ UNCHANGED <<regVars, callVars, agentVars, workVars>>

\* The gateway process dies and is started again: its maps, timers, handlers
\* and callers' connections are gone, its sockets are reset.
GatewayCrash ==
  /\ Fault("gatewayCrash")
  /\ gw' = [s \in Socket |-> IF gw[s] = "none" THEN "none" ELSE "closed"]
  /\ link' = [s \in Socket |->
                IF gw[s] # "none" /\ link[s] = "up" THEN "reset" ELSE link[s]]
  /\ hs' = [s \in Socket |-> IF gw[s] = "none" THEN hs[s] ELSE "refused"]
  /\ toAg' = [s \in Socket |-> <<>>]
  /\ toGw' = [s \in Socket |-> <<>>]
  /\ conn' = [d \in Device |-> NoSocket]
  /\ Settle(pending, "GATEWAY_LOST")
  /\ UNCHANGED <<ag, sentOn, rdev, called, active>>
  /\ UNCHANGED <<agentVars, workVars>>

\* cli.ts device:revoke: another process updates the row.
Revoke(d) ==
  /\ d \in active /\ Fault("revoked")
  /\ active' = active \ {d}
  /\ UNCHANGED <<sockVars, regVars, callVars, agentVars, workVars>>

-----------------------------------------------------------------------------
AgentStep(s) ==
  \/ Dial(s) \/ Accept(s) \/ OnDisconnect(s) \/ OnChallenge(s) \/ OnReady(s)
  \/ \E r \in Request : OnCancel(s, r) \/ OnCommand(s, r)

Work(d) ==
  \/ SendStateReport(d)
  \/ \E r \in Request : FinishWhileConnecting(d, r) \/ \E k \in ResultStatus : Finish(d, r, k)

GatewayStep(s) ==
  \/ OnHello(s) \/ OnHelloVerified(s) \/ OnHelloRefused(s) \/ OnStamped(s)
  \/ OnUnauthenticated(s) \/ OnStateReport(s) \/ OnSocketClosed(s)
  \/ \E r \in Request : OnAck(s, r) \/ \E k \in ResultStatus : OnResult(s, r, k)

Timer(r) == AckTimeout(r) \/ Deadline(r)

Environment ==
  \/ \E r \in Request, a \in Device \cup {AnyDevice} : SendCommand(r, a) \/ RefuseCommand(r, a)
  \/ \E r \in Request : SendFails(r)
  \/ \E s \in Socket : AuthTimeout(s) \/ \E how \in Losses : LoseLink(s, how)
  \/ \E d \in Device : AgentCrash(d) \/ AgentRestart(d) \/ Revoke(d)
  \/ GatewayCrash

Next ==
  \/ \E s \in Socket : AgentStep(s) \/ GatewayStep(s)
  \/ \E d \in Device : Work(d)
  \/ \E r \in Request : Timer(r)
  \/ Environment

Spec == Init /\ [][Next]_vars

\* Event loops keep running handlers, armed timers fire, and the logon task
\* restarts the agent.  A command need not end.
Fairness ==
  /\ \A s \in Socket : WF_vars(AgentStep(s)) /\ WF_vars(GatewayStep(s))
  /\ \A s \in Socket : WF_vars(link[s] # "up" /\ AuthTimeout(s))
  /\ \A d \in Device : WF_vars(AgentRestart(d))
  /\ \A r \in Request : WF_vars(AckTimeout(r)) /\ WF_vars(Deadline(r))

FairSpec == Spec /\ Fairness
-----------------------------------------------------------------------------
(* Properties.                                                              *)

TypeOK ==
  /\ ag \in [Socket -> AgentEnd]
  /\ gw \in [Socket -> GatewayEnd]
  /\ link \in [Socket -> {"up", "reset", "silent"}]
  /\ toAg \in [Socket -> Seq(ToAgentFrame)]
  /\ toGw \in [Socket -> Seq(ToGatewayFrame)]
  /\ hs \in [Socket -> HelloStage]
  /\ conn \in [Device -> Socket \cup {NoSocket}]
  /\ pending \subseteq Request /\ deadlines \subseteq Request /\ ackTimers \subseteq Request
  /\ sentOn \in [Request -> Socket \cup {NoSocket}]
  /\ rdev \in [Request -> Device \cup {AnyDevice}]
  /\ called \subseteq Request
  /\ outcome \in [Request -> Outcome]
  /\ up \subseteq Device /\ redial \subseteq Device /\ ready \subseteq Device
  /\ ws \in [Device -> Socket \cup {NoSocket}]
  /\ reports \in [Device -> Nat]
  /\ inFlight \in [Device -> SUBSET Request]
  /\ recent \in [Device -> [Request -> {"none"} \cup ResultStatus]]
  /\ cancelled \in [Device -> SUBSET Request]
  /\ execs \in [Request -> Nat]
  /\ active \subseteq Device
  /\ faults \in Nat

\* Supersession leaves one usable socket per device: an OPEN authenticated
\* socket is the registered one, however hellos, lookups and closes of the
\* device's sockets interleave.
OneLiveSocket ==
  \A s \in Socket : gw[s] = "open" /\ Authenticated(s) => conn[Owner(s)] = s

\* The two ends agree: while an agent shows itself connected over a socket
\* that works, the registry routes that device's commands to that socket.
ReadyAgentIsRegistered ==
  \A d \in ready : gw[ws[d]] = "open" => conn[d] = ws[d]

\* What goes to an agent is its own: a command or cancel is only ever on a socket,
\* or in the hands, of the device the call was resolved to, and an agent is told to
\* cancel only what the gateway gave up on at its deadline, never a call that was
\* answered or failed otherwise.
NoStrayCommand ==
  /\ \A s \in Socket, r \in Request : \A i \in DOMAIN toAg[s] :
       /\ toAg[s][i] \in {Command(r), Cancel(r)} => rdev[r] = Owner(s)
       /\ toAg[s][i] = Cancel(r) => outcome[r] = "TIMEOUT"
  /\ \A d \in Device : \A r \in inFlight[d] \cup cancelled[d] : rdev[r] = d
  /\ \A d \in Device : \A r \in cancelled[d] : outcome[r] = "TIMEOUT"

\* A request runs at most once, across reconnects, timeouts and restarts of
\* either process, and a call refused for want of a socket never runs.
RunsAtMostOnce ==
  \A r \in Request : execs[r] <= (IF sentOn[r] = NoSocket THEN 0 ELSE 1)

\* Every pending request can still be settled by the gateway alone: its
\* deadline is armed, and no timer outlives its request.
TimersMatchPending == deadlines = pending /\ ackTimers \subseteq pending

\* The inductive invariant behind the theorems of DeviceChannel_proofs.
\* A socket starts with a fresh handler; a registered one is its device's own.
SocketLife ==
  /\ \A s \in Socket :
       /\ ag[s] \in {"none", "connecting"} => gw[s] = "none"
       /\ gw[s] = "none" => hs[s] = "hello"
  /\ \A d \in Device : conn[d] # NoSocket => Owner(conn[d]) = d

\* A pending call was accepted and has been told nothing; a call not yet made
\* has left no trace.
CallBook ==
  \A r \in Request :
    /\ r \in pending => /\ r \in called /\ outcome[r] = "none"
                        /\ rdev[r] \in Device /\ sentOn[r] \in Socket
    /\ r \notin called => outcome[r] = "none" /\ sentOn[r] = NoSocket /\ execs[r] = 0

\* A command frame exists at most once, on the socket it was sent on, and
\* only while the command has not begun.
CommandOnce ==
  \A s \in Socket, r \in Request : \A i \in DOMAIN toAg[s] :
    toAg[s][i] = Command(r) =>
      /\ s = sentOn[r] /\ execs[r] = 0
      /\ \A j \in DOMAIN toAg[s] : toAg[s][j] = Command(r) => j = i

ChannelInv ==
  /\ TypeOK /\ SocketLife /\ CallBook /\ TimersMatchPending
  /\ OneLiveSocket /\ CommandOnce /\ RunsAtMostOnce

\* What the channel promises of a call, whatever happens below it: see
\* CallContract.  A command is running while some agent has it in flight.
Contract == INSTANCE CallContract WITH
  Results <- ResultStatus,
  Refusal <- "DEVICE_OFFLINE",
  Failures <- Failure,
  accepted <- {r \in Request : sentOn[r] # NoSocket},
  told <- outcome,
  work <- [r \in Request |->
             IF execs[r] = 0 THEN "none"
             ELSE IF \E d \in Device : r \in inFlight[d] THEN "running" ELSE "over"]

\* The channel keeps the contract step by step.
KeepsContract == Contract!Spec

\* What a caller was told is final: a late ack, result, close or timer
\* changes nothing.
AnswerIsFinal ==
  [][\A r \in Request : outcome[r] # "none" => outcome'[r] = outcome[r]]_vars

\* A pending call is failed with DEVICE_OFFLINE only when the socket its
\* command went out on is gone ("Selected Windows agent is not connected",
\* "A socket that closes settles as DEVICE_OFFLINE",
\* packages/protocol/src/errors.ts:15 and :29).
OfflineOnlyWithoutSocket ==
  [][\A r \in pending :
       outcome'[r] = "DEVICE_OFFLINE" =>
         ~ (gw[sentOn[r]] = "open" /\ gw'[sentOn[r]] = "open" /\ link[sentOn[r]] = "up")]_vars

\* Every call ends, whatever is lost on the way.
EveryCallEnds == \A r \in Request : r \in called ~> outcome[r] # "none"

\* A paired agent never stays offline: however often its sockets are lost or
\* superseded, it is online again later, except for one that waits on a link
\* gone silent before device.ready: the timer that counts missed heartbeats is
\* armed by device.ready only (connection.ts:224), so nothing tells it.
WaitsInSilence(d) ==
  /\ d \in up \ ready /\ ws[d] # NoSocket
  /\ ag[ws[d]] = "open" /\ link[ws[d]] = "silent"
AgentsComeBack ==
  \A d \in Device : []<>(d \in active => Online(d) \/ WaitsInSilence(d))
=============================================================================
