------------------------ MODULE DeviceChannel_proofs ------------------------
(***************************************************************************)
(* Proofs about DeviceChannel, for any number of devices, sockets, calls   *)
(* and faults.                                                             *)
(***************************************************************************)
EXTENDS DeviceChannel, TLAPS

\* A socket belongs to the device whose agent dials it.
LEMMA OwnerIsDevice == \A s \in Socket : Owner(s) \in Device
BY DEF Socket, Owner

\* Every frame the code sends is one of the wire's frames.
LEMMA FrameTypes ==
  /\ Challenge \in ToAgentFrame /\ Ready \in ToAgentFrame
  /\ \A r \in Request : Command(r) \in ToAgentFrame /\ Cancel(r) \in ToAgentFrame
  /\ Hello \in ToGatewayFrame /\ StateReport \in ToGatewayFrame
  /\ \A r \in Request : Ack(r) \in ToGatewayFrame
  /\ \A r \in Request, k \in ResultStatus : Result(r, k) \in ToGatewayFrame
BY DEF ToAgentFrame, ToGatewayFrame

\* Sending keeps the type of the queue it appends to.
LEMMA AgentSendsType ==
  ASSUME TypeOK, NEW s \in Socket, NEW frames \in Seq(ToGatewayFrame), AgentSends(s, frames)
  PROVE  toGw' \in [Socket -> Seq(ToGatewayFrame)]
BY DEF AgentSends, TypeOK

LEMMA GatewaySendsType ==
  ASSUME TypeOK, NEW s \in Socket, NEW frame \in ToAgentFrame, GatewaySends(s, frame)
  PROVE  toAg' \in [Socket -> Seq(ToAgentFrame)]
BY DEF GatewaySends, TypeOK

\* Settling a set of requests keeps the types of the registry's tables.
LEMMA SettleType ==
  ASSUME TypeOK, NEW R \in SUBSET Request, NEW o \in Outcome, Settle(R, o)
  PROVE  /\ pending' \subseteq Request /\ deadlines' \subseteq Request
         /\ ackTimers' \subseteq Request
         /\ outcome' \in [Request -> Outcome]
BY DEF Settle, TypeOK

LEMMA OutcomeTypes == ResultStatus \subseteq Outcome /\ Failure \subseteq Outcome
BY DEF Outcome

\* The end of an agent process keeps the types of what it resets.
LEMMA AgentDiesType ==
  ASSUME TypeOK, NEW d \in Device, AgentDies(d)
  PROVE  /\ up' \subseteq Device /\ redial' \subseteq Device /\ ready' \subseteq Device
         /\ ws' \in [Device -> Socket \cup {NoSocket}]
         /\ reports' \in [Device -> Nat]
         /\ inFlight' \in [Device -> SUBSET Request]
         /\ recent' \in [Device -> [Request -> {"none"} \cup ResultStatus]]
         /\ cancelled' \in [Device -> SUBSET Request]
         /\ ag' \in [Socket -> AgentEnd]
         /\ link' \in [Socket -> {"up", "reset", "silent"}]
         /\ toAg' \in [Socket -> Seq(ToAgentFrame)]
         /\ toGw' \in [Socket -> Seq(ToGatewayFrame)]
<1>1. CASE ws[d] = NoSocket
  BY <1>1 DEF AgentDies, TypeOK
<1>2. CASE ws[d] # NoSocket
  <2>1. ws[d] \in Socket
    BY <1>2 DEF TypeOK
  <2>2. /\ ag' \in [Socket -> AgentEnd]
        /\ link' \in [Socket -> {"up", "reset", "silent"}]
        /\ toAg' \in [Socket -> Seq(ToAgentFrame)]
        /\ toGw' \in [Socket -> Seq(ToGatewayFrame)]
    <3> DEFINE s == ws[d]
    <3>1. /\ ag' = [ag EXCEPT ![s] = "closed"]
          /\ link' = [link EXCEPT ![s] = "reset"]
          /\ toAg' = [toAg EXCEPT ![s] = <<>>]
          /\ toGw' = [toGw EXCEPT ![s] = <<>>]
      BY <1>2 DEF AgentDies
    <3>2. s \in Socket
      BY <2>1
    <3> HIDE DEF s
    <3> QED
      BY <3>1, <3>2 DEF TypeOK, AgentEnd
  <2>3. /\ inFlight' \in [Device -> SUBSET Request]
        /\ recent' \in [Device -> [Request -> {"none"} \cup ResultStatus]]
        /\ cancelled' \in [Device -> SUBSET Request]
    <3>1. [r \in Request |-> "none"] \in [Request -> {"none"} \cup ResultStatus]
      OBVIOUS
    <3>2. {} \in SUBSET Request
      OBVIOUS
    <3> DEFINE blank == [r \in Request |-> "none"]
               table == [Request -> {"none"} \cup ResultStatus]
    <3>3. recent' = [recent EXCEPT ![d] = blank] /\ recent \in [Device -> table]
      BY DEF AgentDies, TypeOK
    <3> HIDE DEF blank, table
    <3>4. blank \in table
      BY <3>1 DEF blank, table
    <3>5. recent' \in [Device -> table]
      BY <3>3, <3>4
    <3> QED
      BY <3>2, <3>5 DEF AgentDies, TypeOK, table
  <2> QED
    BY <2>2, <2>3 DEF AgentDies, TypeOK
<1> QED
  BY <1>1, <1>2

\* Type correctness is kept by every step.
LEMMA TypeStep == TypeOK /\ [Next]_vars => TypeOK'
<1> SUFFICES ASSUME TypeOK, [Next]_vars PROVE TypeOK'
  OBVIOUS
<1> USE ConstantsAssumption, OwnerIsDevice, FrameTypes
    DEF vars, sockVars, regVars, callVars, agentVars, workVars, envVars
<1>1. ASSUME NEW s \in Socket, AgentStep(s) PROVE TypeOK'
  <2>1. CASE Dial(s)
    BY <2>1 DEF Dial, TypeOK, AgentEnd, GatewayEnd, HelloStage
  <2>2. CASE Accept(s)
    BY <2>2 DEF Accept, TypeOK, AgentEnd, GatewayEnd
  <2>3. CASE OnDisconnect(s)
    BY <2>3 DEF OnDisconnect, TypeOK, AgentEnd
  <2>4. CASE OnChallenge(s)
    BY <2>4 DEF OnChallenge, AgentReads, AgentSends, TypeOK
  <2>5. CASE OnReady(s)
    BY <2>5 DEF OnReady, AgentReads, TypeOK
  <2>6. ASSUME NEW r \in Request, OnCancel(s, r) PROVE TypeOK'
    BY <2>6 DEF OnCancel, AgentReads, TypeOK
  <2>7. ASSUME NEW r \in Request, OnCommand(s, r) PROVE TypeOK'
    <3> DEFINE d == Owner(s)
    <3>1. toAg' \in [Socket -> Seq(ToAgentFrame)]
      BY <2>7 DEF OnCommand, AgentReads, TypeOK
    <3>2. toGw' \in [Socket -> Seq(ToGatewayFrame)]
      <4>1. CASE recent[d][r] # "none"
        <5>1. recent[d][r] \in ResultStatus
          BY <4>1 DEF TypeOK
        <5>2. <<Result(r, recent[d][r])>> \in Seq(ToGatewayFrame)
          BY <5>1
        <5>3. AgentSends(s, <<Result(r, recent[d][r])>>)
          BY <2>7, <4>1 DEF OnCommand
        <5> QED
          BY <5>2, <5>3, AgentSendsType
      <4>2. CASE recent[d][r] = "none" /\ r \in inFlight[d]
        BY <2>7, <4>2 DEF OnCommand, TypeOK
      <4>3. CASE recent[d][r] = "none" /\ r \notin inFlight[d] /\ r \in cancelled[d]
        <5>1. <<Ack(r), Result(r, "error")>> \in Seq(ToGatewayFrame)
          BY DEF ResultStatus
        <5>2. AgentSends(s, <<Ack(r), Result(r, "error")>>)
          BY <2>7, <4>3 DEF OnCommand
        <5> QED
          BY <5>1, <5>2, AgentSendsType
      <4>4. CASE recent[d][r] = "none" /\ r \notin inFlight[d] /\ r \notin cancelled[d]
        <5>1. <<Ack(r)>> \in Seq(ToGatewayFrame)
          OBVIOUS
        <5>2. AgentSends(s, <<Ack(r)>>)
          BY <2>7, <4>4 DEF OnCommand
        <5> QED
          BY <5>1, <5>2, AgentSendsType
      <4> QED
        BY <4>1, <4>2, <4>3, <4>4
    <3>3. /\ inFlight' \in [Device -> SUBSET Request]
          /\ recent' \in [Device -> [Request -> {"none"} \cup ResultStatus]]
          /\ cancelled' \in [Device -> SUBSET Request]
          /\ execs' \in [Request -> Nat]
      <4>1. CASE recent[d][r] # "none" \/ r \in inFlight[d]
        BY <2>7, <4>1 DEF OnCommand, TypeOK
      <4>2. CASE recent[d][r] = "none" /\ r \notin inFlight[d] /\ r \in cancelled[d]
        <5>1. /\ recent' = [recent EXCEPT ![d][r] = "error"]
              /\ cancelled' = [cancelled EXCEPT ![d] = @ \ {r}]
              /\ UNCHANGED <<inFlight, execs>>
          BY <2>7, <4>2 DEF OnCommand
        <5> QED
          BY <5>1 DEF TypeOK, ResultStatus
      <4>3. CASE recent[d][r] = "none" /\ r \notin inFlight[d] /\ r \notin cancelled[d]
        <5>1. /\ inFlight' = [inFlight EXCEPT ![d] = @ \cup {r}]
              /\ execs' = [execs EXCEPT ![r] = @ + 1]
              /\ UNCHANGED <<recent, cancelled>>
          BY <2>7, <4>3 DEF OnCommand
        <5> QED
          BY <5>1 DEF TypeOK
      <4> QED
        BY <4>1, <4>2, <4>3
    <3> QED
      BY <2>7, <3>1, <3>2, <3>3 DEF OnCommand, TypeOK
  <2> QED
    BY <1>1, <2>1, <2>2, <2>3, <2>4, <2>5, <2>6, <2>7 DEF AgentStep
<1>2. ASSUME NEW d \in Device, Work(d) PROVE TypeOK'
  <2>1. ASSUME NEW r \in Request, FinishWhileConnecting(d, r) PROVE TypeOK'
    BY <2>1, AgentDiesType DEF FinishWhileConnecting, TypeOK
  <2>2. ASSUME NEW r \in Request, NEW k \in ResultStatus, Finish(d, r, k) PROVE TypeOK'
    <3>1. toGw' \in [Socket -> Seq(ToGatewayFrame)]
      <4>1. CASE ws[d] = NoSocket
        BY <2>2, <4>1 DEF Finish, Concludes, TypeOK
      <4>2. CASE ws[d] # NoSocket
        <5>1. ws[d] \in Socket /\ <<Result(r, k)>> \in Seq(ToGatewayFrame)
          BY <4>2 DEF TypeOK
        <5>2. AgentSends(ws[d], <<Result(r, k)>>)
          BY <2>2, <4>2 DEF Finish, Concludes
        <5> QED
          BY <5>1, <5>2, AgentSendsType
      <4> QED
        BY <4>1, <4>2
    <3> QED
      BY <2>2, <3>1 DEF Finish, Concludes, TypeOK
  <2>3. CASE SendStateReport(d)
    <3>1. toGw' \in [Socket -> Seq(ToGatewayFrame)]
      <4>1. CASE ws[d] # NoSocket /\ ag[ws[d]] = "open"
        <5>1. ws[d] \in Socket /\ <<StateReport>> \in Seq(ToGatewayFrame)
          BY <4>1 DEF TypeOK
        <5> QED
          BY <2>3, <4>1, <5>1, AgentSendsType DEF SendStateReport
      <4>2. CASE ~(ws[d] # NoSocket /\ ag[ws[d]] = "open")
        BY <2>3, <4>2 DEF SendStateReport, TypeOK
      <4> QED
        BY <4>1, <4>2
    <3> QED
      BY <2>3, <3>1 DEF SendStateReport, TypeOK
  <2> QED
    BY <1>2, <2>1, <2>2, <2>3 DEF Work
<1>3. ASSUME NEW s \in Socket, GatewayStep(s) PROVE TypeOK'
  <2>1. CASE OnHello(s)
    BY <2>1 DEF OnHello, GatewayReads, TypeOK, HelloStage
  <2>2. CASE OnHelloVerified(s)
    BY <2>2 DEF OnHelloVerified, Register, GatewayCloses, TypeOK, HelloStage, GatewayEnd
  <2>3. CASE OnHelloRefused(s)
    BY <2>3 DEF OnHelloRefused, GatewayCloses, TypeOK, HelloStage, GatewayEnd
  <2>4. CASE OnStamped(s)
    BY <2>4, GatewaySendsType DEF OnStamped, TypeOK, HelloStage
  <2>5. CASE OnUnauthenticated(s)
    BY <2>5 DEF OnUnauthenticated, GatewayReads, GatewayCloses, TypeOK, GatewayEnd
  <2>6. CASE OnSocketClosed(s)
    <3>1. {r \in pending : rdev[r] = Owner(s)} \in SUBSET Request
      BY DEF TypeOK
    <3>2. "DEVICE_OFFLINE" \in Outcome
      BY DEF Outcome, Failure
    <3>3. /\ conn' \in [Device -> Socket \cup {NoSocket}]
          /\ pending' \subseteq Request /\ deadlines' \subseteq Request
          /\ ackTimers' \subseteq Request
          /\ outcome' \in [Request -> Outcome]
      <4>1. CASE Authenticated(s)
        BY <2>6, <3>1, <3>2, <4>1, SettleType DEF OnSocketClosed, Unregister, TypeOK
      <4>2. CASE ~Authenticated(s)
        BY <2>6, <4>2 DEF OnSocketClosed, Unregister, TypeOK
      <4> QED
        BY <4>1, <4>2
    <3> QED
      BY <2>6, <3>3 DEF OnSocketClosed, Unregister, TypeOK, GatewayEnd
  <2>7. ASSUME NEW r \in Request, OnAck(s, r) PROVE TypeOK'
    BY <2>7 DEF OnAck, GatewayReads, TypeOK
  <2>8. ASSUME NEW r \in Request, NEW k \in ResultStatus, OnResult(s, r, k) PROVE TypeOK'
    <3>1. {r} \cap pending \in SUBSET Request /\ k \in Outcome
      BY OutcomeTypes
    <3>2. /\ pending' \subseteq Request /\ deadlines' \subseteq Request
          /\ ackTimers' \subseteq Request
          /\ outcome' \in [Request -> Outcome]
      BY <2>8, <3>1, SettleType DEF OnResult
    <3> QED
      BY <2>8, <3>2 DEF OnResult, GatewayReads, TypeOK
  <2>9. CASE OnStateReport(s)
    BY <2>9 DEF OnStateReport, GatewayReads, TypeOK
  <2> QED
    BY <1>3, <2>1, <2>2, <2>3, <2>4, <2>5, <2>6, <2>7, <2>8, <2>9 DEF GatewayStep
<1>4. ASSUME NEW r \in Request, Timer(r) PROVE TypeOK'
  <2>1. CASE AckTimeout(r)
    BY <2>1, SettleType, OutcomeTypes DEF AckTimeout, TypeOK, Failure
  <2>2. CASE Deadline(r)
    <3>1. toAg' \in [Socket -> Seq(ToAgentFrame)]
      <4>1. CASE conn[rdev[r]] = NoSocket
        BY <2>2, <4>1 DEF Deadline, TypeOK
      <4>2. CASE conn[rdev[r]] # NoSocket
        <5> DEFINE s == conn[rdev[r]]
        <5>1. GatewaySends(s, Cancel(r))
          BY <2>2, <4>2 DEF Deadline
        <5>2. toAg' = toAg \/ toAg' = [toAg EXCEPT ![s] = Append(@, Cancel(r))]
          BY <5>1 DEF GatewaySends
        <5> DEFINE q == Append(toAg[s], Cancel(r))
        <5> HIDE DEF s
        <5>3. CASE s \in Socket
          BY <5>1, <5>3, GatewaySendsType
        <5>4. CASE s \notin Socket
          <6>1. toAg' = toAg \/ toAg' = [toAg EXCEPT ![s] = q]
            BY <5>2
          <6> HIDE DEF q
          <6>2. toAg' = toAg
            BY <5>4, <6>1 DEF TypeOK
          <6> QED
            BY <6>2 DEF TypeOK
        <5> QED
          BY <5>3, <5>4
      <4> QED
        BY <4>1, <4>2
    <3> QED
      BY <2>2, <3>1, SettleType, OutcomeTypes DEF Deadline, TypeOK, Failure
  <2> QED
    BY <1>4, <2>1, <2>2 DEF Timer
<1>5. CASE Environment
  <2>1. ASSUME NEW r \in Request, NEW a \in Device \cup {AnyDevice}, SendCommand(r, a)
        PROVE  TypeOK'
    <3> DEFINE d == ResolveDeviceId(a)
    <3>1. d \in Device /\ conn[d] \in Socket
      BY <2>1 DEF SendCommand, Online, TypeOK
    <3>2. toAg' \in [Socket -> Seq(ToAgentFrame)]
      BY <2>1, <3>1, GatewaySendsType DEF SendCommand
    <3> HIDE DEF d
    <3> QED
      BY <2>1, <3>1, <3>2 DEF SendCommand, TypeOK, d
  <2>2. ASSUME NEW r \in Request, NEW a \in Device \cup {AnyDevice}, RefuseCommand(r, a)
        PROVE  TypeOK'
    <3>1. ResolveDeviceId(a) \in Device \cup {AnyDevice}
      BY DEF ResolveDeviceId
    <3> QED
      BY <2>2, <3>1 DEF RefuseCommand, TypeOK, Outcome, Failure
  <2>3. ASSUME NEW r \in Request, SendFails(r) PROVE TypeOK'
    BY ZenonT(40), <2>3, SettleType, OutcomeTypes DEF SendFails, TypeOK, Failure
  <2>4. ASSUME NEW s \in Socket, AuthTimeout(s) PROVE TypeOK'
    BY <2>4 DEF AuthTimeout, GatewayCloses, Fault, TypeOK, GatewayEnd
  <2>5. ASSUME NEW s \in Socket, NEW how \in Losses, LoseLink(s, how) PROVE TypeOK'
    BY <2>5 DEF LoseLink, Losses, Fault, TypeOK
  <2>6. ASSUME NEW d \in Device, AgentCrash(d) PROVE TypeOK'
    BY <2>6, AgentDiesType DEF AgentCrash, Fault, TypeOK
  <2>7. ASSUME NEW d \in Device, AgentRestart(d) PROVE TypeOK'
    BY <2>7 DEF AgentRestart, TypeOK
  <2>8. ASSUME NEW d \in Device, Revoke(d) PROVE TypeOK'
    BY <2>8 DEF Revoke, Fault, TypeOK
  <2>9. CASE GatewayCrash
    <3>1. pending \in SUBSET Request
      BY DEF TypeOK
    <3>2. "GATEWAY_LOST" \in Outcome
      BY DEF Outcome, Failure
    <3>3. /\ pending' \subseteq Request /\ deadlines' \subseteq Request
          /\ ackTimers' \subseteq Request
          /\ outcome' \in [Request -> Outcome]
      BY <2>9, <3>1, <3>2, SettleType DEF GatewayCrash
    <3>4. /\ gw' \in [Socket -> GatewayEnd]
          /\ link' \in [Socket -> {"up", "reset", "silent"}]
          /\ hs' \in [Socket -> HelloStage]
          /\ toAg' \in [Socket -> Seq(ToAgentFrame)]
          /\ toGw' \in [Socket -> Seq(ToGatewayFrame)]
          /\ conn' \in [Device -> Socket \cup {NoSocket}]
      BY <2>9 DEF GatewayCrash, TypeOK, GatewayEnd, HelloStage
    <3> QED
      BY <2>9, <3>3, <3>4 DEF GatewayCrash, Fault, TypeOK
  <2> QED
    BY <1>5, <2>1, <2>2, <2>3, <2>4, <2>5, <2>6, <2>7, <2>8, <2>9 DEF Environment
<1>6. CASE UNCHANGED vars
  BY <1>6 DEF TypeOK
<1> QED
  BY <1>1, <1>2, <1>3, <1>4, <1>5, <1>6 DEF Next

\* The state keeps its type: TypeOK is inductive.
THEOREM TypeCorrect == Spec => []TypeOK
<1>1. Init => TypeOK
  BY ConstantsAssumption DEF Init, TypeOK, AgentEnd, GatewayEnd, HelloStage, Outcome
<1> QED
  BY <1>1, TypeStep, PTL DEF Spec

-----------------------------------------------------------------------------
(* One usable socket per device.                                            *)

\* Only Accept, the hello handlers, the close handler and the gateway's own
\* restart touch the gateway's end, the handshake or the registry's table.
LEMMA SocketLifeStep == TypeOK /\ SocketLife /\ [Next]_vars => SocketLife'
<1> SUFFICES ASSUME TypeOK, SocketLife, [Next]_vars PROVE SocketLife'
  OBVIOUS
<1> USE ConstantsAssumption, OwnerIsDevice
    DEF vars, sockVars, regVars, callVars, agentVars, workVars, envVars
<1>0. ASSUME UNCHANGED <<ag, gw, hs, conn>> PROVE SocketLife'
  BY <1>0 DEF SocketLife
<1>1. ASSUME NEW s \in Socket, AgentStep(s) PROVE SocketLife'
  <2>1. CASE Dial(s)
    BY <2>1 DEF Dial, SocketLife, TypeOK
  <2>2. CASE Accept(s)
    BY <2>2 DEF Accept, SocketLife, TypeOK
  <2>3. CASE OnDisconnect(s)
    BY <2>3 DEF OnDisconnect, SocketLife, TypeOK
  <2>4. CASE OnChallenge(s) \/ OnReady(s) \/ \E r \in Request : OnCancel(s, r) \/ OnCommand(s, r)
    BY <1>0, <2>4 DEF OnChallenge, OnReady, OnCancel, OnCommand
  <2> QED
    BY <1>1, <2>1, <2>2, <2>3, <2>4 DEF AgentStep
<1>2. ASSUME NEW d \in Device, AgentDies(d), UNCHANGED <<gw, hs, conn>> PROVE SocketLife'
  BY <1>2 DEF AgentDies, SocketLife, TypeOK
<1>3. ASSUME NEW d \in Device, Work(d) PROVE SocketLife'
  <2>1. ASSUME NEW r \in Request, FinishWhileConnecting(d, r) PROVE SocketLife'
    BY <1>2, <2>1 DEF FinishWhileConnecting
  <2>2. ASSUME NEW r \in Request, NEW k \in ResultStatus, Finish(d, r, k) PROVE SocketLife'
    BY <2>2 DEF Finish, Concludes, SocketLife
  <2>3. CASE SendStateReport(d)
    BY <2>3 DEF SendStateReport, SocketLife
  <2> QED
    BY <1>3, <2>1, <2>2, <2>3 DEF Work
<1>4. ASSUME NEW s \in Socket, GatewayStep(s) PROVE SocketLife'
  <2>1. CASE OnHello(s)
    BY <2>1 DEF OnHello, GatewayReads, SocketLife, TypeOK
  <2>2. CASE OnHelloVerified(s)
    BY <2>2 DEF OnHelloVerified, Register, GatewayCloses, SocketLife, TypeOK
  <2>3. CASE OnHelloRefused(s)
    BY <2>3 DEF OnHelloRefused, GatewayCloses, SocketLife, TypeOK
  <2>4. CASE OnStamped(s)
    BY <2>4 DEF OnStamped, SocketLife, TypeOK
  <2>5. CASE OnUnauthenticated(s)
    BY <2>5 DEF OnUnauthenticated, GatewayReads, GatewayCloses, SocketLife, TypeOK
  <2>6. CASE OnSocketClosed(s)
    BY <2>6 DEF OnSocketClosed, Unregister, SocketLife, TypeOK
  <2>7. CASE OnStateReport(s) \/ \E r \in Request : OnAck(s, r) \/ \E k \in ResultStatus : OnResult(s, r, k)
    BY <1>0, <2>7 DEF OnStateReport, OnAck, OnResult
  <2> QED
    BY <1>4, <2>1, <2>2, <2>3, <2>4, <2>5, <2>6, <2>7 DEF GatewayStep
<1>5. ASSUME NEW r \in Request, Timer(r) PROVE SocketLife'
  BY <1>5 DEF Timer, AckTimeout, Deadline, SocketLife
<1>6. CASE Environment
  <2>1. CASE \E r \in Request : \/ SendFails(r)
                              \/ \E a \in Device \cup {AnyDevice} : SendCommand(r, a) \/ RefuseCommand(r, a)
    BY <2>1 DEF SendCommand, RefuseCommand, SendFails, SocketLife
  <2>2. ASSUME NEW s \in Socket, AuthTimeout(s) PROVE SocketLife'
    BY <2>2 DEF AuthTimeout, GatewayCloses, SocketLife, TypeOK
  <2>3. ASSUME NEW s \in Socket, NEW how \in Losses, LoseLink(s, how) PROVE SocketLife'
    BY <2>3 DEF LoseLink, SocketLife
  <2>4. ASSUME NEW d \in Device, AgentCrash(d) PROVE SocketLife'
    BY <1>2, <2>4 DEF AgentCrash
  <2>5. ASSUME NEW d \in Device, AgentRestart(d) \/ Revoke(d) PROVE SocketLife'
    BY <2>5 DEF AgentRestart, Revoke, SocketLife
  <2>6. CASE GatewayCrash
    BY <2>6 DEF GatewayCrash, SocketLife, TypeOK
  <2> QED
    BY <1>6, <2>1, <2>2, <2>3, <2>4, <2>5, <2>6 DEF Environment
<1>7. CASE UNCHANGED vars
  BY <1>7 DEF SocketLife
<1> QED
  BY <1>1, <1>3, <1>4, <1>5, <1>6, <1>7 DEF Next

\* Registering a socket closes the one it supersedes, so at most one stays OPEN.
LEMMA OneLiveSocketStep ==
  TypeOK /\ SocketLife /\ OneLiveSocket /\ [Next]_vars => OneLiveSocket'
<1> SUFFICES ASSUME TypeOK, SocketLife, OneLiveSocket, [Next]_vars PROVE OneLiveSocket'
  OBVIOUS
<1> USE ConstantsAssumption, OwnerIsDevice
    DEF vars, sockVars, regVars, callVars, agentVars, workVars, envVars, Authenticated
<1>1. ASSUME NEW s \in Socket, AgentStep(s) PROVE OneLiveSocket'
  <2>1. CASE Accept(s)
    BY <2>1 DEF Accept, OneLiveSocket, SocketLife, TypeOK
  <2>2. CASE Dial(s)
    BY <2>2 DEF Dial, OneLiveSocket, TypeOK
  <2>3. CASE ~Accept(s) /\ ~Dial(s)
    BY <1>1, <2>3 DEF AgentStep, OnDisconnect, OnChallenge, OnReady, OnCancel,
                      OnCommand, OneLiveSocket
  <2> QED
    BY <2>1, <2>2, <2>3
<1>2. ASSUME NEW d \in Device, Work(d) PROVE OneLiveSocket'
  BY <1>2 DEF Work, SendStateReport, FinishWhileConnecting, Finish, Concludes, OneLiveSocket
<1>3. ASSUME NEW s \in Socket, GatewayStep(s) PROVE OneLiveSocket'
  <2>1. CASE OnHello(s)
    BY <2>1 DEF OnHello, OneLiveSocket, TypeOK
  <2>2. CASE OnHelloVerified(s)
    <3> SUFFICES ASSUME NEW t \in Socket, gw'[t] = "open", Authenticated(t)'
                 PROVE  conn'[Owner(t)] = t
      BY DEF OneLiveSocket
    <3>1. CASE t = s
      BY <2>2, <3>1 DEF OnHelloVerified, Register, TypeOK
    <3>2. CASE t # s
      <4>1. gw[t] = "open" /\ Authenticated(t)
        BY <2>2, <3>2 DEF OnHelloVerified, Register, GatewayCloses, TypeOK
      <4>2. conn[Owner(t)] = t
        BY <4>1 DEF OneLiveSocket
      <4>3. CASE Owner(t) = Owner(s)
        BY <2>2, <3>2, <4>1, <4>2, <4>3 DEF OnHelloVerified, Register, GatewayCloses, TypeOK
      <4>4. CASE Owner(t) # Owner(s)
        BY <2>2, <4>2, <4>4 DEF OnHelloVerified, Register, TypeOK
      <4> QED
        BY <4>3, <4>4
    <3> QED
      BY <3>1, <3>2
  <2>3. CASE OnHelloRefused(s)
    BY <2>3 DEF OnHelloRefused, GatewayCloses, OneLiveSocket, TypeOK
  <2>4. CASE OnStamped(s)
    BY <2>4 DEF OnStamped, OneLiveSocket, TypeOK
  <2>5. CASE OnUnauthenticated(s)
    BY <2>5 DEF OnUnauthenticated, GatewayReads, GatewayCloses, OneLiveSocket, TypeOK
  <2>6. CASE OnSocketClosed(s)
    BY <2>6 DEF OnSocketClosed, Unregister, OneLiveSocket, TypeOK
  <2>7. CASE OnStateReport(s) \/ \E r \in Request : OnAck(s, r) \/ \E k \in ResultStatus : OnResult(s, r, k)
    BY <2>7 DEF OnStateReport, OnAck, OnResult, OneLiveSocket
  <2> QED
    BY <1>3, <2>1, <2>2, <2>3, <2>4, <2>5, <2>6, <2>7 DEF GatewayStep
<1>4. ASSUME NEW r \in Request, Timer(r) PROVE OneLiveSocket'
  BY <1>4 DEF Timer, AckTimeout, Deadline, OneLiveSocket
<1>5. CASE Environment
  <2>1. CASE \E r \in Request : \/ SendFails(r)
                              \/ \E a \in Device \cup {AnyDevice} : SendCommand(r, a) \/ RefuseCommand(r, a)
    BY <2>1 DEF SendCommand, RefuseCommand, SendFails, OneLiveSocket
  <2>2. ASSUME NEW s \in Socket, AuthTimeout(s) PROVE OneLiveSocket'
    BY <2>2 DEF AuthTimeout, GatewayCloses, OneLiveSocket, TypeOK
  <2>3. ASSUME NEW s \in Socket, NEW how \in Losses, LoseLink(s, how) PROVE OneLiveSocket'
    BY <2>3 DEF LoseLink, OneLiveSocket
  <2>4. ASSUME NEW d \in Device, AgentCrash(d) \/ AgentRestart(d) \/ Revoke(d) PROVE OneLiveSocket'
    BY <2>4 DEF AgentCrash, AgentRestart, Revoke, OneLiveSocket
  <2>5. CASE GatewayCrash
    BY <2>5 DEF GatewayCrash, OneLiveSocket, TypeOK
  <2> QED
    BY <1>5, <2>1, <2>2, <2>3, <2>4, <2>5 DEF Environment
<1>6. CASE UNCHANGED vars
  BY <1>6 DEF OneLiveSocket
<1> QED
  BY <1>1, <1>2, <1>3, <1>4, <1>5, <1>6 DEF Next

\* An OPEN authenticated socket is always the registered one, however the
\* hellos, store lookups, closes and restarts of a device interleave.
THEOREM OneLiveSocketHolds == Spec => []OneLiveSocket
<1>1. Init => SocketLife /\ OneLiveSocket
  BY DEF Init, SocketLife, OneLiveSocket, Authenticated
<1> QED
  BY <1>1, TypeCorrect, SocketLifeStep, OneLiveSocketStep, PTL DEF Spec

-----------------------------------------------------------------------------
(* The registry's book of calls.                                            *)

\* Calls are begun only by sendCommand, settled only while pending, and
\* executed only from a frame that sendCommand wrote.
LEMMA CallBookStep ==
  TypeOK /\ CallBook /\ CommandOnce /\ TimersMatchPending /\ [Next]_vars
    => CallBook' /\ TimersMatchPending'
<1> SUFFICES ASSUME TypeOK, CallBook, CommandOnce, TimersMatchPending, [Next]_vars
             PROVE  CallBook' /\ TimersMatchPending'
  OBVIOUS
<1> USE ConstantsAssumption, OwnerIsDevice
    DEF vars, sockVars, regVars, callVars, agentVars, workVars, envVars
<1>1. ASSUME UNCHANGED <<pending, called, outcome, rdev, sentOn, execs, deadlines, ackTimers>>
      PROVE  CallBook' /\ TimersMatchPending'
  BY <1>1 DEF CallBook, TimersMatchPending
<1>2. ASSUME NEW R \in SUBSET pending, NEW o \in Outcome, Settle(R, o),
             UNCHANGED <<called, rdev, sentOn, execs>>
      PROVE  CallBook' /\ TimersMatchPending'
  BY <1>2 DEF Settle, CallBook, TimersMatchPending, TypeOK
<1>3. ASSUME NEW s \in Socket, AgentStep(s) PROVE CallBook' /\ TimersMatchPending'
  <2>1. CASE Dial(s) \/ Accept(s) \/ OnDisconnect(s) \/ OnChallenge(s) \/ OnReady(s)
    BY <1>1, <2>1 DEF Dial, Accept, OnDisconnect, OnChallenge, OnReady
  <2>2. ASSUME NEW r \in Request, OnCancel(s, r) PROVE CallBook' /\ TimersMatchPending'
    BY <1>1, <2>2 DEF OnCancel
  <2>3. ASSUME NEW r \in Request, OnCommand(s, r) PROVE CallBook' /\ TimersMatchPending'
    <3>1. 1 \in DOMAIN toAg[s] /\ toAg[s][1] = Command(r)
      BY <2>3 DEF OnCommand, AgentReads, TypeOK
    <3>2. s = sentOn[r]
      BY <3>1 DEF CommandOnce
    <3>3. r \in called
      BY <3>2 DEF CallBook
    <3>4. UNCHANGED <<pending, called, outcome, rdev, sentOn, deadlines, ackTimers>>
      BY <2>3 DEF OnCommand
    <3>5. \A q \in Request \ {r} : execs'[q] = execs[q]
      BY <2>3 DEF OnCommand, TypeOK
    <3> QED
      BY <3>3, <3>4, <3>5 DEF CallBook, TimersMatchPending
  <2> QED
    BY <1>3, <2>1, <2>2, <2>3 DEF AgentStep
<1>4. ASSUME NEW d \in Device, Work(d) PROVE CallBook' /\ TimersMatchPending'
  BY <1>1, <1>4 DEF Work, SendStateReport, FinishWhileConnecting, Finish, Concludes
<1>5. ASSUME NEW s \in Socket, GatewayStep(s) PROVE CallBook' /\ TimersMatchPending'
  <2>1. CASE \/ OnHello(s) \/ OnHelloVerified(s) \/ OnHelloRefused(s)
            \/ OnStamped(s) \/ OnUnauthenticated(s) \/ OnStateReport(s)
    BY <1>1, <2>1 DEF OnHello, OnHelloVerified, Register, OnHelloRefused, OnStamped, OnUnauthenticated,
            OnStateReport
  <2>2. CASE OnSocketClosed(s)
    <3>1. CASE Authenticated(s)
      <4>1. {r \in pending : rdev[r] = Owner(s)} \in SUBSET pending /\ "DEVICE_OFFLINE" \in Outcome
        BY DEF Outcome, Failure
      <4> QED
        BY <1>2, <2>2, <3>1, <4>1 DEF OnSocketClosed, Unregister
    <3>2. CASE ~Authenticated(s)
      BY <1>1, <2>2, <3>2 DEF OnSocketClosed, Unregister
    <3> QED
      BY <3>1, <3>2
  <2>3. ASSUME NEW r \in Request, OnAck(s, r) PROVE CallBook' /\ TimersMatchPending'
    BY <2>3 DEF OnAck, CallBook, TimersMatchPending
  <2>4. ASSUME NEW r \in Request, NEW k \in ResultStatus, OnResult(s, r, k)
        PROVE  CallBook' /\ TimersMatchPending'
    <3>1. {r} \cap pending \in SUBSET pending /\ k \in Outcome
      BY OutcomeTypes
    <3> QED
      BY <1>2, <2>4, <3>1 DEF OnResult
  <2> QED
    BY <1>5, <2>1, <2>2, <2>3, <2>4 DEF GatewayStep
<1>6. ASSUME NEW r \in Request, Timer(r) PROVE CallBook' /\ TimersMatchPending'
  <2>1. {r} \cap pending \in SUBSET pending
    OBVIOUS
  <2>2. "AGENT_UNRESPONSIVE" \in Outcome /\ "TIMEOUT" \in Outcome
    BY DEF Outcome, Failure
  <2>3. CASE AckTimeout(r)
    BY <1>2, <2>1, <2>2, <2>3 DEF AckTimeout
  <2>4. CASE Deadline(r)
    BY <1>2, <2>1, <2>2, <2>4 DEF Deadline
  <2> QED
    BY <1>6, <2>3, <2>4 DEF Timer
<1>7. CASE Environment
  <2>1. ASSUME NEW r \in Request, NEW a \in Device \cup {AnyDevice}, SendCommand(r, a)
        PROVE  CallBook' /\ TimersMatchPending'
    <3> DEFINE d == ResolveDeviceId(a)
    <3>1. d \in Device /\ conn[d] \in Socket
      BY <2>1 DEF SendCommand, Online, TypeOK
    <3> HIDE DEF d
    <3>2. /\ called' = called \cup {r} /\ pending' = pending \cup {r}
          /\ deadlines' = deadlines \cup {r} /\ ackTimers' = ackTimers \cup {r}
          /\ rdev' = [rdev EXCEPT ![r] = d] /\ sentOn' = [sentOn EXCEPT ![r] = conn[d]]
          /\ UNCHANGED <<outcome, execs>> /\ r \notin called
      BY <2>1 DEF SendCommand, d
    <3> QED
      BY <3>1, <3>2 DEF CallBook, TimersMatchPending, TypeOK
  <2>2. ASSUME NEW r \in Request, NEW a \in Device \cup {AnyDevice}, RefuseCommand(r, a)
        PROVE  CallBook' /\ TimersMatchPending'
    <3>1. /\ called' = called \cup {r} /\ r \notin called
          /\ \A q \in Request \ {r} : rdev'[q] = rdev[q] /\ outcome'[q] = outcome[q]
          /\ UNCHANGED <<pending, deadlines, ackTimers, sentOn, execs>>
      BY <2>2 DEF RefuseCommand, TypeOK
    <3>2. r \notin pending
      BY <3>1 DEF CallBook
    <3> QED
      BY <3>1, <3>2 DEF CallBook, TimersMatchPending
  <2>3. ASSUME NEW r \in Request, SendFails(r) PROVE CallBook' /\ TimersMatchPending'
    <3>1. {r} \in SUBSET pending /\ "DEVICE_OFFLINE" \in Outcome
      BY <2>3 DEF SendFails, Outcome, Failure
    <3> QED
      BY <1>2, <2>3, <3>1 DEF SendFails
  <2>4. CASE \E s \in Socket : AuthTimeout(s) \/ \E how \in Losses : LoseLink(s, how)
    BY <1>1, <2>4 DEF AuthTimeout, LoseLink
  <2>5. CASE \E d \in Device : AgentCrash(d) \/ AgentRestart(d) \/ Revoke(d)
    BY <1>1, <2>5 DEF AgentCrash, AgentRestart, Revoke
  <2>6. CASE GatewayCrash
    <3>1. pending \in SUBSET pending /\ "GATEWAY_LOST" \in Outcome
      BY DEF Outcome, Failure
    <3> QED
      BY <1>2, <2>6, <3>1 DEF GatewayCrash
  <2> QED
    BY <1>7, <2>1, <2>2, <2>3, <2>4, <2>5, <2>6 DEF Environment
<1>8. CASE UNCHANGED vars
  BY <1>1, <1>8
<1> QED
  BY <1>3, <1>4, <1>5, <1>6, <1>7, <1>8 DEF Next

\* A settled outcome is not touched again: settling needs a pending call, and
\* a pending call has been told nothing.
LEMMA AnswerStep ==
  TypeOK /\ CallBook /\ TimersMatchPending /\ [Next]_vars
    => \A r \in Request : outcome[r] # "none" => outcome'[r] = outcome[r]
<1> SUFFICES ASSUME TypeOK, CallBook, TimersMatchPending, [Next]_vars,
                    NEW q \in Request, outcome[q] # "none"
             PROVE  outcome'[q] = outcome[q]
  OBVIOUS
<1> USE DEF vars, sockVars, regVars, callVars, agentVars, workVars, envVars
<1>1. q \notin pending /\ q \in called
  BY DEF CallBook
<1>2. ASSUME NEW R \in SUBSET pending, NEW o, Settle(R, o) PROVE outcome'[q] = outcome[q]
  BY <1>1, <1>2 DEF Settle
<1>3. ASSUME NEW s \in Socket, AgentStep(s) PROVE outcome' = outcome
  BY <1>3 DEF AgentStep, Dial, Accept, OnDisconnect, OnChallenge, OnReady, OnCancel, OnCommand
<1>4. ASSUME NEW d \in Device, Work(d) PROVE outcome' = outcome
  BY <1>4 DEF Work, SendStateReport, FinishWhileConnecting, Finish, Concludes
<1>5. ASSUME NEW s \in Socket, GatewayStep(s) PROVE outcome'[q] = outcome[q]
  <2>1. CASE \/ OnHello(s) \/ OnHelloVerified(s) \/ OnHelloRefused(s)
            \/ OnStamped(s) \/ OnUnauthenticated(s) \/ OnStateReport(s)
    BY <2>1 DEF OnHello, OnHelloVerified, Register, OnHelloRefused, OnStamped, OnUnauthenticated,
            OnStateReport
  <2>2. CASE OnSocketClosed(s)
    <3>1. {r \in pending : rdev[r] = Owner(s)} \in SUBSET pending
      OBVIOUS
    <3> QED
      BY <1>2, <2>2, <3>1 DEF OnSocketClosed, Unregister
  <2>3. ASSUME NEW r \in Request, OnAck(s, r) PROVE outcome'[q] = outcome[q]
    BY <2>3 DEF OnAck
  <2>4. ASSUME NEW r \in Request, NEW k \in ResultStatus, OnResult(s, r, k)
        PROVE  outcome'[q] = outcome[q]
    <3>1. {r} \cap pending \in SUBSET pending
      OBVIOUS
    <3> QED
      BY <1>2, <2>4, <3>1 DEF OnResult
  <2> QED
    BY <1>5, <2>1, <2>2, <2>3, <2>4 DEF GatewayStep
<1>6. ASSUME NEW r \in Request, Timer(r) PROVE outcome'[q] = outcome[q]
  <2>1. {r} \cap pending \in SUBSET pending
    OBVIOUS
  <2> QED
    BY <1>2, <1>6, <2>1 DEF Timer, AckTimeout, Deadline
<1>7. CASE Environment
  <2>1. ASSUME NEW r \in Request, NEW a \in Device \cup {AnyDevice}, SendCommand(r, a) \/ RefuseCommand(r, a)
        PROVE  outcome'[q] = outcome[q]
    BY <1>1, <2>1 DEF SendCommand, RefuseCommand, TypeOK
  <2>2. ASSUME NEW r \in Request, SendFails(r) PROVE outcome'[q] = outcome[q]
    <3>1. {r} \in SUBSET pending
      BY <2>2 DEF SendFails
    <3> QED
      BY <1>2, <2>2, <3>1 DEF SendFails
  <2>3. CASE \E s \in Socket : AuthTimeout(s) \/ \E how \in Losses : LoseLink(s, how)
    BY <2>3 DEF AuthTimeout, LoseLink
  <2>4. CASE \E d \in Device : AgentCrash(d) \/ AgentRestart(d) \/ Revoke(d)
    BY <2>4 DEF AgentCrash, AgentRestart, Revoke
  <2>5. CASE GatewayCrash
    BY <1>2, <2>5 DEF GatewayCrash
  <2> QED
    BY <1>7, <2>1, <2>2, <2>3, <2>4, <2>5 DEF Environment
<1>8. CASE UNCHANGED vars
  BY <1>8
<1> QED
  BY <1>3, <1>4, <1>5, <1>6, <1>7, <1>8 DEF Next

-----------------------------------------------------------------------------
(* A command is begun at most once.                                         *)

LEMMA CommandFrames ==
  /\ \A r \in Request : Challenge # Command(r) /\ Ready # Command(r)
  /\ \A q, r \in Request : Cancel(q) # Command(r)
  /\ \A q, r \in Request : Command(q) = Command(r) => q = r
BY DEF Challenge, Ready, Cancel, Command

\* Emptying queues, or replacing one by frames that are no commands, loses
\* commands and adds none.
LEMMA QueueDropped ==
  ASSUME TypeOK, CommandOnce, UNCHANGED <<sentOn, execs>>,
         \A t \in Socket :
            \/ toAg'[t] = toAg[t]
            \/ \A r \in Request : \A i \in DOMAIN toAg'[t] : toAg'[t][i] # Command(r)
  PROVE  CommandOnce'
BY DEF CommandOnce

\* What is behind the head of a queue.
LEMMA TailElements ==
  ASSUME NEW q \in Seq(ToAgentFrame), q # <<>>
  PROVE  \A j \in DOMAIN Tail(q) :
           j \in Int /\ j + 1 \in DOMAIN q /\ j + 1 # 1 /\ Tail(q)[j] = q[j + 1]
<1>1. DOMAIN q = 1..Len(q) /\ Len(q) \in Nat /\ Len(q) # 0
  OBVIOUS
<1>2. Tail(q) \in Seq(ToAgentFrame) /\ Len(Tail(q)) = Len(q) - 1
  OBVIOUS
<1>3. DOMAIN Tail(q) = 1..(Len(q) - 1)
  BY <1>2
<1>4. \A j \in 1..(Len(q) - 1) : Tail(q)[j] = q[j + 1]
  OBVIOUS
<1> QED
  BY <1>1, <1>3, <1>4

\* Reading a frame that begins no execution keeps what is behind it.
LEMMA QueueRead ==
  ASSUME TypeOK, CommandOnce, UNCHANGED <<sentOn, execs>>,
         NEW s \in Socket, toAg[s] # <<>>, toAg' = [toAg EXCEPT ![s] = Tail(@)]
  PROVE  CommandOnce'
<1> SUFFICES ASSUME NEW t \in Socket, NEW r \in Request,
                    NEW i \in DOMAIN toAg'[t], toAg'[t][i] = Command(r)
             PROVE  /\ t = sentOn[r] /\ execs[r] = 0
                    /\ \A j \in DOMAIN toAg'[t] : toAg'[t][j] = Command(r) => j = i
  BY DEF CommandOnce
<1>1. CASE t = s
  <2>1. toAg[s] \in Seq(ToAgentFrame) /\ toAg'[s] = Tail(toAg[s])
    BY DEF TypeOK
  <2>2. \A j \in DOMAIN toAg'[s] : j + 1 \in DOMAIN toAg[s] /\ toAg'[s][j] = toAg[s][j + 1]
    BY <2>1, TailElements
  <2>3. DOMAIN toAg'[s] \subseteq Int
    BY <2>1, TailElements
  <2> QED
    BY <1>1, <2>2, <2>3 DEF CommandOnce
<1>2. CASE t # s
  BY <1>2 DEF CommandOnce, TypeOK
<1> QED
  BY <1>1, <1>2

\* Sending a frame that is no command adds no command.
LEMMA QueueSent ==
  ASSUME TypeOK, CommandOnce, UNCHANGED <<sentOn, execs>>,
         NEW s, NEW frame \in ToAgentFrame, \A r \in Request : frame # Command(r),
         GatewaySends(s, frame)
  PROVE  CommandOnce'
<1>1. CASE toAg' = toAg
  BY <1>1 DEF CommandOnce
<1>2. CASE s \in Socket /\ toAg' = [toAg EXCEPT ![s] = Append(@, frame)]
  <2> SUFFICES ASSUME NEW t \in Socket, NEW r \in Request,
                      NEW i \in DOMAIN toAg'[t], toAg'[t][i] = Command(r)
               PROVE  /\ t = sentOn[r] /\ execs[r] = 0
                      /\ \A j \in DOMAIN toAg'[t] : toAg'[t][j] = Command(r) => j = i
    BY DEF CommandOnce
  <2>1. CASE t = s
    <3>1. toAg[s] \in Seq(ToAgentFrame) /\ toAg'[s] = Append(toAg[s], frame)
      BY <1>2 DEF TypeOK
    <3>2. \A j \in DOMAIN toAg'[s] : toAg'[s][j] # frame =>
            j \in DOMAIN toAg[s] /\ toAg'[s][j] = toAg[s][j]
      BY <3>1
    <3> QED
      BY <2>1, <3>2 DEF CommandOnce
  <2>2. CASE t # s
    BY <1>2, <2>2 DEF CommandOnce, TypeOK
  <2> QED
    BY <2>1, <2>2
<1>3. toAg' = toAg \/ (s \in Socket /\ toAg' = [toAg EXCEPT ![s] = Append(@, frame)])
  <2>1. CASE s \in Socket
    BY <2>1 DEF GatewaySends
  <2>2. CASE s \notin Socket
    <3> DEFINE q == Append(toAg[s], frame)
    <3>1. toAg' = toAg \/ toAg' = [toAg EXCEPT ![s] = q]
      BY DEF GatewaySends
    <3> HIDE DEF q
    <3> QED
      BY <2>2, <3>1 DEF TypeOK
  <2> QED
    BY <2>1, <2>2
<1> QED
  BY <1>1, <1>2, <1>3

\* The command frame of a call is written once, read once, and begins the
\* execution only when it is read.
LEMMA CommandStep ==
  TypeOK /\ TypeOK' /\ CallBook /\ CommandOnce /\ RunsAtMostOnce /\ [Next]_vars
    => CommandOnce' /\ RunsAtMostOnce'
<1> SUFFICES ASSUME TypeOK, TypeOK', CallBook, CommandOnce, RunsAtMostOnce, [Next]_vars
             PROVE  CommandOnce' /\ RunsAtMostOnce'
  OBVIOUS
<1> USE ConstantsAssumption, OwnerIsDevice, FrameTypes, CommandFrames
    DEF vars, sockVars, regVars, callVars, agentVars, workVars, envVars
<1>1. ASSUME UNCHANGED <<sentOn, execs>> PROVE RunsAtMostOnce'
  BY <1>1 DEF RunsAtMostOnce
<1>2. ASSUME UNCHANGED <<toAg, sentOn, execs>> PROVE CommandOnce'
  BY <1>2 DEF CommandOnce
<1>3. ASSUME NEW d \in Device, AgentDies(d), UNCHANGED <<sentOn, execs>> PROVE CommandOnce'
  <2>1. CASE ws[d] = NoSocket
    BY <1>2, <1>3, <2>1 DEF AgentDies
  <2>2. CASE ws[d] # NoSocket
    <3>1. ws[d] \in Socket /\ toAg' = [toAg EXCEPT ![ws[d]] = <<>>]
      BY <1>3, <2>2 DEF AgentDies, TypeOK
    <3>2. \A t \in Socket \ {ws[d]} : toAg'[t] = toAg[t]
      BY <3>1 DEF TypeOK
    <3>3. toAg'[ws[d]] = <<>>
      BY <3>1 DEF TypeOK
    <3> QED
      BY <1>3, <3>2, <3>3, QueueDropped
  <2> QED
    BY <2>1, <2>2
<1>4. ASSUME NEW s \in Socket, AgentStep(s) PROVE CommandOnce' /\ RunsAtMostOnce'
  <2>1. CASE Dial(s) \/ Accept(s) \/ OnDisconnect(s)
    <3>1. UNCHANGED <<sentOn, execs>>
      BY <2>1 DEF Dial, Accept, OnDisconnect
    <3>2. \A t \in Socket \ {s} : toAg'[t] = toAg[t]
      BY ZenonT(40), <2>1 DEF Dial, Accept, OnDisconnect, TypeOK
    <3>3. toAg'[s] = <<>> \/ toAg'[s] = <<Challenge>>
      BY <2>1 DEF Dial, Accept, OnDisconnect, TypeOK
    <3>4. \A r \in Request : \A i \in DOMAIN toAg'[s] : toAg'[s][i] # Command(r)
      BY <3>3
    <3> QED
      BY <1>1, <3>1, <3>2, <3>4, QueueDropped
  <2>2. CASE OnChallenge(s) \/ OnReady(s)
    <3>1. UNCHANGED <<sentOn, execs>> /\ toAg[s] # <<>> /\ toAg' = [toAg EXCEPT ![s] = Tail(@)]
      BY <2>2 DEF OnChallenge, OnReady, AgentReads
    <3> QED
      BY <1>1, <3>1, QueueRead
  <2>3. ASSUME NEW r \in Request, OnCancel(s, r) PROVE CommandOnce' /\ RunsAtMostOnce'
    <3>1. UNCHANGED <<sentOn, execs>> /\ toAg[s] # <<>> /\ toAg' = [toAg EXCEPT ![s] = Tail(@)]
      BY <2>3 DEF OnCancel, AgentReads
    <3> QED
      BY <1>1, <3>1, QueueRead
  <2>4. ASSUME NEW r \in Request, OnCommand(s, r) PROVE CommandOnce' /\ RunsAtMostOnce'
    <3>1. sentOn' = sentOn /\ toAg[s] # <<>> /\ toAg' = [toAg EXCEPT ![s] = Tail(@)]
      BY <2>4 DEF OnCommand, AgentReads
    <3>2. CASE execs' = execs
      BY <1>1, <3>1, <3>2, QueueRead
    <3>3. CASE execs' = [execs EXCEPT ![r] = @ + 1]
      <4>1. toAg[s] \in Seq(ToAgentFrame) /\ 1 \in DOMAIN toAg[s] /\ toAg[s][1] = Command(r)
        BY <2>4 DEF OnCommand, AgentReads, TypeOK
      <4>2. /\ s = sentOn[r] /\ execs[r] = 0
            /\ \A j \in DOMAIN toAg[s] : toAg[s][j] = Command(r) => j = 1
        BY <4>1 DEF CommandOnce
      <4>3. RunsAtMostOnce'
        BY <3>1, <3>3, <4>2 DEF RunsAtMostOnce, TypeOK
      <4>4. \A j \in DOMAIN toAg'[s] :
              j \in Int /\ j + 1 \in DOMAIN toAg[s] /\ j + 1 # 1 /\ toAg'[s][j] = toAg[s][j + 1]
        BY <3>1, <4>1, TailElements DEF TypeOK
      <4>5. \A t \in Socket \ {s} : toAg'[t] = toAg[t] /\ t # sentOn[r]
        BY <3>1, <4>2 DEF TypeOK
      <4>6. \A q \in Request \ {r} : execs'[q] = execs[q]
        BY <3>3 DEF TypeOK
      <4>7. CommandOnce'
        <5> SUFFICES ASSUME NEW t \in Socket, NEW q \in Request,
                            NEW i \in DOMAIN toAg'[t], toAg'[t][i] = Command(q)
                     PROVE  /\ t = sentOn'[q] /\ execs'[q] = 0
                            /\ \A j \in DOMAIN toAg'[t] : toAg'[t][j] = Command(q) => j = i
          BY DEF CommandOnce
        <5>1. CASE t = s
          <6>1. toAg[s][i + 1] = Command(q) /\ i + 1 \in DOMAIN toAg[s] /\ i + 1 # 1
            BY <4>4, <5>1
          <6>2. q # r
            BY <4>2, <6>1
          <6>3. /\ s = sentOn[q] /\ execs[q] = 0
                /\ \A j \in DOMAIN toAg[s] : toAg[s][j] = Command(q) => j = i + 1
            BY <6>1 DEF CommandOnce
          <6> QED
            BY <3>1, <4>4, <4>6, <5>1, <6>2, <6>3
        <5>2. CASE t # s
          BY <3>1, <4>5, <4>6, <5>2 DEF CommandOnce
        <5> QED
          BY <5>1, <5>2
      <4> QED
        BY <4>3, <4>7
    <3> QED
      BY <2>4, <3>2, <3>3 DEF OnCommand
  <2> QED
    BY <1>4, <2>1, <2>2, <2>3, <2>4 DEF AgentStep
<1>5. ASSUME NEW d \in Device, Work(d) PROVE CommandOnce' /\ RunsAtMostOnce'
  <2>1. ASSUME NEW r \in Request, FinishWhileConnecting(d, r) PROVE CommandOnce' /\ RunsAtMostOnce'
    BY <1>1, <1>3, <2>1 DEF FinishWhileConnecting
  <2>2. ASSUME NEW r \in Request, NEW k \in ResultStatus, Finish(d, r, k)
        PROVE  CommandOnce' /\ RunsAtMostOnce'
    BY <1>1, <1>2, <2>2 DEF Finish, Concludes
  <2>3. CASE SendStateReport(d)
    BY <1>1, <1>2, <2>3 DEF SendStateReport
  <2> QED
    BY <1>5, <2>1, <2>2, <2>3 DEF Work
<1>6. ASSUME NEW s \in Socket, GatewayStep(s) PROVE CommandOnce' /\ RunsAtMostOnce'
  <2>1. CASE OnStamped(s)
    <3>1. UNCHANGED <<sentOn, execs>> /\ GatewaySends(s, Ready)
      BY <2>1 DEF OnStamped
    <3> QED
      BY <1>1, <3>1, QueueSent
  <2>2. CASE ~OnStamped(s)
    BY <1>1, <1>2, <1>6, <2>2
       DEF GatewayStep, OnStateReport, OnHello, OnHelloVerified, Register, OnHelloRefused, OnUnauthenticated, OnSocketClosed, Unregister,
           OnAck, OnResult
  <2> QED
    BY <2>1, <2>2
<1>7. ASSUME NEW r \in Request, Timer(r) PROVE CommandOnce' /\ RunsAtMostOnce'
  <2>1. UNCHANGED <<sentOn, execs>>
    BY <1>7 DEF Timer, AckTimeout, Deadline
  <2>2. toAg' = toAg \/ GatewaySends(conn[rdev[r]], Cancel(r))
    BY <1>7 DEF Timer, AckTimeout, Deadline
  <2> QED
    BY <1>1, <1>2, <2>1, <2>2, QueueSent
<1>8. CASE Environment
  <2>1. ASSUME NEW r \in Request, NEW a \in Device \cup {AnyDevice}, SendCommand(r, a)
        PROVE  CommandOnce' /\ RunsAtMostOnce'
    <3> DEFINE s == conn[ResolveDeviceId(a)]
    <3>1. s \in Socket
      BY <2>1 DEF SendCommand, Online, TypeOK
    <3>2. r \notin called /\ sentOn' = [sentOn EXCEPT ![r] = s] /\ UNCHANGED execs
      BY <2>1 DEF SendCommand
    <3>3. toAg' = toAg \/ toAg' = [toAg EXCEPT ![s] = Append(@, Command(r))]
      BY <2>1 DEF SendCommand, GatewaySends
    <3> HIDE DEF s
    <3>4. execs[r] = 0 /\ sentOn[r] = NoSocket
      BY <3>2 DEF CallBook
    <3>5. \A t \in Socket : \A i \in DOMAIN toAg[t] : toAg[t][i] # Command(r)
      BY <3>4 DEF CommandOnce
    <3>6. \A q \in Request \ {r} : sentOn'[q] = sentOn[q]
      BY <3>2 DEF TypeOK
    <3>7. sentOn'[r] = s
      BY <3>2 DEF TypeOK
    <3>8. RunsAtMostOnce'
      BY <3>1, <3>2, <3>4, <3>6, <3>7 DEF RunsAtMostOnce
    <3>9. CommandOnce'
      <4> SUFFICES ASSUME NEW t \in Socket, NEW q \in Request,
                          NEW i \in DOMAIN toAg'[t], toAg'[t][i] = Command(q)
                   PROVE  /\ t = sentOn'[q] /\ execs'[q] = 0
                          /\ \A j \in DOMAIN toAg'[t] : toAg'[t][j] = Command(q) => j = i
        BY DEF CommandOnce
      <4>1. CASE toAg'[t] = toAg[t]
        BY <3>2, <3>5, <3>6, <4>1 DEF CommandOnce
      <4>2. CASE t = s /\ toAg'[s] = Append(toAg[s], Command(r))
        <5>1. toAg[s] \in Seq(ToAgentFrame)
          BY <3>1 DEF TypeOK
        <5>2. \A j \in DOMAIN toAg'[s] :
                \/ j \in DOMAIN toAg[s] /\ toAg'[s][j] = toAg[s][j]
                \/ j = Len(toAg[s]) + 1 /\ toAg'[s][j] = Command(r)
          BY <4>2, <5>1
        <5>3. CASE q = r
          BY <3>2, <3>4, <3>5, <3>7, <4>2, <5>2, <5>3
        <5>4. CASE q # r
          BY <3>2, <3>6, <4>2, <5>2, <5>4 DEF CommandOnce
        <5> QED
          BY <5>3, <5>4
      <4> QED
        BY <3>1, <3>3, <4>1, <4>2 DEF TypeOK
    <3> QED
      BY <3>8, <3>9
  <2>2. CASE \E r \in Request : \/ SendFails(r)
                              \/ \E a \in Device \cup {AnyDevice} : RefuseCommand(r, a)
    BY <1>1, <1>2, <2>2 DEF SendFails, RefuseCommand
  <2>3. ASSUME NEW s \in Socket, AuthTimeout(s) PROVE CommandOnce' /\ RunsAtMostOnce'
    BY <1>1, <1>2, <2>3 DEF AuthTimeout
  <2>4. ASSUME NEW s \in Socket, NEW how \in Losses, LoseLink(s, how)
        PROVE  CommandOnce' /\ RunsAtMostOnce'
    <3>1. UNCHANGED <<sentOn, execs>> /\ toAg' = [toAg EXCEPT ![s] = <<>>]
      BY <2>4 DEF LoseLink
    <3>2. toAg'[s] = <<>> /\ \A t \in Socket \ {s} : toAg'[t] = toAg[t]
      BY <3>1 DEF TypeOK
    <3> QED
      BY <1>1, <3>1, <3>2, QueueDropped
  <2>5. ASSUME NEW d \in Device, AgentCrash(d) PROVE CommandOnce' /\ RunsAtMostOnce'
    BY <1>1, <1>3, <2>5 DEF AgentCrash
  <2>6. CASE \E d \in Device : AgentRestart(d) \/ Revoke(d)
    BY <1>1, <1>2, <2>6 DEF AgentRestart, Revoke
  <2>7. CASE GatewayCrash
    <3>1. UNCHANGED <<sentOn, execs>> /\ \A t \in Socket : toAg'[t] = <<>>
      BY <2>7 DEF GatewayCrash
    <3> QED
      BY <1>1, <3>1, QueueDropped
  <2> QED
    BY <1>8, <2>1, <2>2, <2>3, <2>4, <2>5, <2>6, <2>7 DEF Environment
<1>9. CASE UNCHANGED vars
  BY <1>1, <1>2, <1>9
<1> QED
  BY <1>4, <1>5, <1>6, <1>7, <1>8, <1>9 DEF Next

-----------------------------------------------------------------------------
(* The theorems.                                                            *)

\* The invariant is inductive.
THEOREM ChannelInvHolds == Spec => []ChannelInv
<1>1. Init => ChannelInv
  <2>1. Init => TypeOK
    BY ConstantsAssumption
       DEF Init, TypeOK, AgentEnd, GatewayEnd, HelloStage, Outcome
  <2> QED
    BY <2>1 DEF Init, ChannelInv, SocketLife, CallBook, TimersMatchPending, OneLiveSocket,
                CommandOnce, RunsAtMostOnce, Authenticated
<1>2. ChannelInv /\ [Next]_vars => ChannelInv'
  BY TypeStep, SocketLifeStep, CallBookStep, OneLiveSocketStep, CommandStep DEF ChannelInv
<1> QED
  BY <1>1, <1>2, PTL DEF Spec

\* A command is begun at most once, and never for a call that was refused,
\* across reconnects, timeouts, lost links and restarts of either process.
THEOREM RunsAtMostOnceHolds == Spec => []RunsAtMostOnce
<1>1. ChannelInv => RunsAtMostOnce
  BY DEF ChannelInv
<1> QED
  BY <1>1, ChannelInvHolds, PTL

\* Every pending request has its deadline armed, and no timer outlives the
\* request it belongs to.
THEOREM TimersMatchPendingHolds == Spec => []TimersMatchPending
<1>1. ChannelInv => TimersMatchPending
  BY DEF ChannelInv
<1> QED
  BY <1>1, ChannelInvHolds, PTL

\* What a caller was told is never changed by a late ack, result, close or
\* timer.
THEOREM AnswerIsFinalHolds == Spec => AnswerIsFinal
<1>1. ChannelInv /\ [Next]_vars
        => [\A r \in Request : outcome[r] # "none" => outcome'[r] = outcome[r]]_vars
  BY AnswerStep DEF ChannelInv
<1> QED
  BY <1>1, ChannelInvHolds, PTL DEF Spec, AnswerIsFinal

-----------------------------------------------------------------------------
(* What is in a queue.                                                      *)

Frames(q) == {q[i] : i \in DOMAIN q}

\* What is left when the head is read, and what is there when frames are added.
LEMMA FramesLeft ==
  ASSUME NEW S, NEW q \in Seq(S), q # <<>>
  PROVE  /\ Head(q) = q[1] /\ 1 \in DOMAIN q /\ Head(q) \in Frames(q)
         /\ \A j \in DOMAIN Tail(q) :
              j \in Int /\ j >= 1 /\ j + 1 \in DOMAIN q /\ Tail(q)[j] = q[j + 1]
         /\ Frames(Tail(q)) \subseteq Frames(q)
<1>1. DOMAIN q = 1..Len(q) /\ Len(q) \in Nat /\ Len(q) # 0 /\ Head(q) = q[1]
  OBVIOUS
<1>2. Tail(q) \in Seq(S) /\ Len(Tail(q)) = Len(q) - 1
  OBVIOUS
<1>3. DOMAIN Tail(q) = 1..(Len(q) - 1)
  BY <1>1, <1>2
<1>4. \A j \in 1..(Len(q) - 1) : Tail(q)[j] = q[j + 1]
  OBVIOUS
<1>5. \A j \in DOMAIN Tail(q) : j \in Int /\ j >= 1 /\ j + 1 \in DOMAIN q /\ Tail(q)[j] = q[j + 1]
  BY <1>1, <1>3, <1>4
<1>6. Frames(Tail(q)) \subseteq Frames(q)
  BY <1>5 DEF Frames
<1>7. 1 \in DOMAIN q
  BY <1>1
<1> QED
  BY <1>1, <1>5, <1>6, <1>7 DEF Frames

LEMMA FramesAdded ==
  ASSUME NEW S, NEW q \in Seq(S), NEW p \in Seq(S)
  PROVE  /\ Frames(q \o p) = Frames(q) \cup Frames(p)
         /\ \A i \in DOMAIN (q \o p) : \/ i \in DOMAIN q /\ (q \o p)[i] = q[i]
                                       \/ i - Len(q) \in DOMAIN p /\ (q \o p)[i] = p[i - Len(q)]
<1>1. /\ DOMAIN q = 1..Len(q) /\ DOMAIN p = 1..Len(p) /\ Len(q) \in Nat /\ Len(p) \in Nat
      /\ DOMAIN (q \o p) = 1..(Len(q) + Len(p))
      /\ \A i \in 1..Len(q) : (q \o p)[i] = q[i]
      /\ \A i \in (Len(q) + 1)..(Len(q) + Len(p)) : (q \o p)[i] = p[i - Len(q)]
  OBVIOUS
<1>2. \A i \in DOMAIN (q \o p) : \/ i \in DOMAIN q /\ (q \o p)[i] = q[i]
                                 \/ i - Len(q) \in DOMAIN p /\ (q \o p)[i] = p[i - Len(q)]
  BY <1>1
<1>3. \A i \in DOMAIN q : i \in DOMAIN (q \o p) /\ (q \o p)[i] = q[i]
  BY <1>1
<1>4. \A i \in DOMAIN p : i + Len(q) \in DOMAIN (q \o p) /\ (q \o p)[i + Len(q)] = p[i]
  <2> SUFFICES ASSUME NEW i \in 1..Len(p)
               PROVE  i + Len(q) \in DOMAIN (q \o p) /\ (q \o p)[i + Len(q)] = p[i]
    BY <1>1
  <2>1. i + Len(q) \in (Len(q) + 1)..(Len(q) + Len(p)) /\ (i + Len(q)) - Len(q) = i
    BY <1>1
  <2> QED
    BY <1>1, <2>1
<1>5. Frames(q \o p) \subseteq Frames(q) \cup Frames(p)
  BY <1>2 DEF Frames
<1>6. Frames(q) \subseteq Frames(q \o p)
  BY <1>3 DEF Frames
<1>7. Frames(p) \subseteq Frames(q \o p)
  <2> SUFFICES ASSUME NEW i \in DOMAIN p PROVE p[i] \in Frames(q \o p)
    BY DEF Frames
  <2>1. PICK j \in DOMAIN (q \o p) : (q \o p)[j] = p[i]
    BY <1>4
  <2> QED
    BY <2>1 DEF Frames
<1>8. Frames(q \o p) = Frames(q) \cup Frames(p)
  BY <1>5, <1>6, <1>7
<1> QED
  BY <1>2, <1>8

\* What each way of reading and sending does to the queues.
LEMMA AgentReadsFrames ==
  ASSUME TypeOK, NEW s \in Socket, NEW frame, AgentReads(s, frame)
  PROVE  /\ frame \in Frames(toAg[s]) /\ toAg[s][1] = frame
         /\ \A t \in Socket : Frames(toAg'[t]) \subseteq Frames(toAg[t])
<1>1. toAg[s] \in Seq(ToAgentFrame) /\ toAg[s] # <<>> /\ Head(toAg[s]) = frame
  BY DEF AgentReads, TypeOK
<1>2. toAg'[s] = Tail(toAg[s]) /\ \A t \in Socket : t # s => toAg'[t] = toAg[t]
  BY DEF AgentReads, TypeOK
<1>3. Frames(toAg'[s]) \subseteq Frames(toAg[s]) /\ toAg[s][1] = frame /\ frame \in Frames(toAg[s])
  BY <1>1, <1>2, FramesLeft
<1> QED
  BY <1>2, <1>3

LEMMA GatewayReadsFrames ==
  ASSUME TypeOK, NEW s \in Socket, GatewayReads(s)
  PROVE  /\ Head(toGw[s]) \in Frames(toGw[s])
         /\ \A t \in Socket : Frames(toGw'[t]) \subseteq Frames(toGw[t])
<1>1. toGw[s] \in Seq(ToGatewayFrame) /\ toGw[s] # <<>>
  BY DEF GatewayReads, TypeOK
<1>2. toGw'[s] = Tail(toGw[s]) /\ \A t \in Socket : t # s => toGw'[t] = toGw[t]
  BY DEF GatewayReads, TypeOK
<1>3. Frames(toGw'[s]) \subseteq Frames(toGw[s]) /\ Head(toGw[s]) \in Frames(toGw[s])
  BY <1>1, <1>2, FramesLeft
<1> QED
  BY <1>2, <1>3

LEMMA AgentSendsFrames ==
  ASSUME TypeOK, NEW s \in Socket, NEW frames \in Seq(ToGatewayFrame), AgentSends(s, frames)
  PROVE  \A t \in Socket : \/ toGw'[t] = toGw[t]
                           \/ /\ t = s /\ toGw'[t] = toGw[t] \o frames
                              /\ Frames(toGw'[t]) = Frames(toGw[t]) \cup Frames(frames)
<1>1. toGw[s] \in Seq(ToGatewayFrame)
  BY DEF TypeOK
<1>2. CASE toGw' = toGw
  BY <1>2
<1>3. CASE toGw' = [toGw EXCEPT ![s] = @ \o frames]
  <2>1. toGw'[s] = toGw[s] \o frames /\ \A t \in Socket : t # s => toGw'[t] = toGw[t]
    BY <1>3 DEF TypeOK
  <2>2. Frames(toGw[s] \o frames) = Frames(toGw[s]) \cup Frames(frames)
    BY <1>1, FramesAdded
  <2> QED
    BY <2>1, <2>2
<1> QED
  BY <1>2, <1>3 DEF AgentSends

LEMMA GatewaySendsFrames ==
  ASSUME TypeOK, NEW s, NEW frame \in ToAgentFrame, GatewaySends(s, frame)
  PROVE  \A t \in Socket : \/ toAg'[t] = toAg[t]
                           \/ /\ t = s /\ toAg'[t] = Append(toAg[t], frame)
                              /\ Frames(toAg'[t]) = Frames(toAg[t]) \cup {frame}
<1> SUFFICES ASSUME NEW t \in Socket, toAg'[t] # toAg[t]
             PROVE  /\ t = s /\ toAg'[t] = Append(toAg[t], frame)
                    /\ Frames(toAg'[t]) = Frames(toAg[t]) \cup {frame}
  OBVIOUS
<1>1. toAg[t] \in Seq(ToAgentFrame) /\ <<frame>> \in Seq(ToAgentFrame)
  BY DEF TypeOK
<1>2. t = s /\ toAg'[t] = Append(toAg[t], frame)
  <2> DEFINE q == Append(toAg[s], frame)
  <2>1. toAg' = toAg \/ toAg' = [toAg EXCEPT ![s] = q]
    BY DEF GatewaySends
  <2> HIDE DEF q
  <2>2. t = s /\ toAg'[t] = q
    BY <2>1 DEF TypeOK
  <2> QED
    BY <2>2 DEF q
<1>3. Append(toAg[t], frame) = toAg[t] \o <<frame>> /\ Frames(<<frame>>) = {frame}
  <2>1. Append(toAg[t], frame) = toAg[t] \o <<frame>>
    BY <1>1
  <2>2. DOMAIN <<frame>> = {1} /\ <<frame>>[1] = frame
    OBVIOUS
  <2> QED
    BY <2>1, <2>2 DEF Frames
<1>4. PICK p \in Seq(ToAgentFrame) : p = <<frame>>
  BY <1>1
<1>5. Frames(toAg[t] \o p) = Frames(toAg[t]) \cup Frames(p)
  BY <1>1, FramesAdded
<1> QED
  BY <1>2, <1>3, <1>4, <1>5

\* An agent that dies empties queues.
LEMMA AgentDiesFrames ==
  ASSUME TypeOK, NEW d \in Device, AgentDies(d)
  PROVE  \A t \in Socket : /\ toAg'[t] = toAg[t] \/ toAg'[t] = <<>>
                           /\ toGw'[t] = toGw[t] \/ toGw'[t] = <<>>
<1>1. CASE ws[d] = NoSocket
  BY <1>1 DEF AgentDies
<1>2. CASE ws[d] # NoSocket
  <2>1. PICK s \in Socket : s = ws[d]
    BY <1>2 DEF TypeOK
  <2>2. toAg' = [toAg EXCEPT ![s] = <<>>] /\ toGw' = [toGw EXCEPT ![s] = <<>>]
    BY <1>2, <2>1 DEF AgentDies
  <2> QED
    BY <2>2 DEF TypeOK
<1> QED
  BY <1>1, <1>2

-----------------------------------------------------------------------------
(* An agent that shows itself connected is the registered one.              *)

\* An agent has one socket that it is dialling or using, and it dials only
\* when it has none.
AgentSide ==
  /\ \A d \in Device : ws[d] # NoSocket => Owner(ws[d]) = d /\ ag[ws[d]] \in {"connecting", "open"}
  /\ \A s \in Socket : ag[s] \in {"connecting", "open"} => ws[Owner(s)] = s
  /\ \A d \in Device : d \in redial \/ d \notin up => ws[d] = NoSocket
  /\ redial \subseteq up

\* One challenge, and so one hello, per socket.
OneChallenge(q) == \A i \in DOMAIN q : q[i] = Challenge => i = 1
OneHello(q) == \A i, j \in DOMAIN q : q[i] = Hello /\ q[j] = Hello => i = j
HelloOnceOn(s) ==
  /\ ag[s] = "connecting" => toGw[s] = <<>>
  /\ OneChallenge(toAg[s]) /\ OneHello(toGw[s])
  /\ Challenge \in Frames(toAg[s]) => hs[s] = "hello" /\ Hello \notin Frames(toGw[s])
  /\ Hello \in Frames(toGw[s]) => hs[s] = "hello"
HelloOnce == \A s \in Socket : HelloOnceOn(s)

\* device.ready follows the registration, and nothing undoes the handshake of
\* a socket that is open.
ReadyAfterHello ==
  /\ \A s \in Socket : Ready \in Frames(toAg[s]) => hs[s] = "done"
  /\ \A d \in ready : ws[d] # NoSocket /\ (hs[ws[d]] = "done" \/ gw[ws[d]] = "closed")

ReadyInv == AgentSide /\ HelloOnce /\ ReadyAfterHello

LEMMA AgentSideStep == TypeOK /\ AgentSide /\ [Next]_vars => AgentSide'
<1> SUFFICES ASSUME TypeOK, AgentSide, [Next]_vars PROVE AgentSide'
  OBVIOUS
<1> USE ConstantsAssumption, OwnerIsDevice
    DEF vars, sockVars, regVars, callVars, agentVars, workVars, envVars
<1>0. ASSUME UNCHANGED <<ag, ws, redial, up>> PROVE AgentSide'
  BY <1>0 DEF AgentSide
<1>1. ASSUME NEW d \in Device, AgentDies(d) PROVE AgentSide'
  <2>1. /\ up' = up \ {d} /\ redial' = redial \ {d} /\ ws' = [ws EXCEPT ![d] = NoSocket]
        /\ \A t \in Socket : ag'[t] = ag[t] \/ ag'[t] = "closed"
    <3>1. CASE ws[d] = NoSocket
      BY <1>1, <3>1 DEF AgentDies
    <3>2. CASE ws[d] # NoSocket
      <4>1. PICK s \in Socket : s = ws[d]
        BY <3>2 DEF TypeOK
      <4>2. ag' = [ag EXCEPT ![s] = "closed"]
        BY <1>1, <3>2, <4>1 DEF AgentDies
      <4> QED
        BY <1>1, <4>2 DEF AgentDies, TypeOK
    <3> QED
      BY <3>1, <3>2
  <2>2. \A t \in Socket : t # ws[d] => ag'[t] = ag[t]
    <3>1. CASE ws[d] = NoSocket
      BY <1>1, <3>1 DEF AgentDies
    <3>2. CASE ws[d] # NoSocket
      <4>1. PICK s \in Socket : s = ws[d]
        BY <3>2 DEF TypeOK
      <4>2. ag' = [ag EXCEPT ![s] = "closed"]
        BY <1>1, <3>2, <4>1 DEF AgentDies
      <4> QED
        BY <4>1, <4>2 DEF TypeOK
    <3> QED
      BY <3>1, <3>2
  <2>3. ws[d] # NoSocket => ag'[ws[d]] = "closed"
    <3>1. CASE ws[d] = NoSocket
      BY <3>1
    <3>2. CASE ws[d] # NoSocket
      <4>1. PICK s \in Socket : s = ws[d]
        BY <3>2 DEF TypeOK
      <4>2. ag' = [ag EXCEPT ![s] = "closed"]
        BY <1>1, <3>2, <4>1 DEF AgentDies
      <4> QED
        BY <4>1, <4>2 DEF TypeOK
    <3> QED
      BY <3>1, <3>2
  <2>4. \A e \in Device : ws'[e] = IF e = d THEN NoSocket ELSE ws[e]
    BY <2>1 DEF TypeOK
  <2>5. \A e \in Device : ws'[e] # NoSocket => Owner(ws'[e]) = e /\ ag'[ws'[e]] \in {"connecting", "open"}
    <3> SUFFICES ASSUME NEW e \in Device, ws'[e] # NoSocket
                 PROVE  Owner(ws'[e]) = e /\ ag'[ws'[e]] \in {"connecting", "open"}
      OBVIOUS
    <3>1. e # d /\ ws'[e] = ws[e] /\ ws[e] \in Socket
      BY <2>4 DEF TypeOK
    <3>2. Owner(ws[e]) = e /\ ag[ws[e]] \in {"connecting", "open"}
      BY <3>1 DEF AgentSide
    <3>3. ws[e] # ws[d]
      BY <3>1, <3>2 DEF AgentSide
    <3> QED
      BY <2>2, <3>1, <3>2, <3>3
  <2>6. \A t \in Socket : ag'[t] \in {"connecting", "open"} => ws'[Owner(t)] = t
    <3> SUFFICES ASSUME NEW t \in Socket, ag'[t] \in {"connecting", "open"} PROVE ws'[Owner(t)] = t
      OBVIOUS
    <3>1. ag[t] \in {"connecting", "open"} /\ t # ws[d]
      BY <2>1, <2>3
    <3>2. ws[Owner(t)] = t
      BY <3>1 DEF AgentSide
    <3> QED
      BY <2>4, <3>1, <3>2
  <2>7. \A e \in Device : e \in redial' \/ e \notin up' => ws'[e] = NoSocket
    BY <2>1, <2>4 DEF AgentSide
  <2> QED
    BY <2>1, <2>5, <2>6, <2>7 DEF AgentSide
<1>2. ASSUME NEW s \in Socket, AgentStep(s) PROVE AgentSide'
  <2>1. CASE Dial(s)
    <3> DEFINE d == Owner(s)
    <3>1. d \in Device /\ d \in redial /\ ws[d] = NoSocket
      BY <2>1 DEF Dial, AgentSide
    <3>2. /\ \A t \in Socket : ag'[t] = IF t = s THEN "connecting" ELSE ag[t]
          /\ \A e \in Device : ws'[e] = IF e = d THEN s ELSE ws[e]
          /\ redial' = redial \ {d} /\ up' = up
      BY <2>1 DEF Dial, TypeOK
    <3>3. \A e \in Device : ws[e] \in Socket \cup {NoSocket}
      BY DEF TypeOK
    <3>4. Owner(s) = d
      OBVIOUS
    <3> HIDE DEF d
    <3> QED
      BY <3>1, <3>2, <3>3, <3>4 DEF AgentSide
  <2>2. CASE Accept(s)
    BY <2>2 DEF Accept, AgentSide, TypeOK
  <2>3. CASE OnDisconnect(s)
    <3> DEFINE d == Owner(s)
    <3>1. d \in Device /\ ws[d] = s /\ d \in up
      BY <2>3 DEF OnDisconnect, AgentSide
    <3>2. /\ \A t \in Socket : ag'[t] = IF t = s THEN "closed" ELSE ag[t]
          /\ \A e \in Device : ws'[e] = IF e = d THEN NoSocket ELSE ws[e]
          /\ redial' = redial \cup {d} /\ up' = up
      BY <2>3 DEF OnDisconnect, TypeOK
    <3>3. \A e \in Device : ws[e] \in Socket \cup {NoSocket}
      BY DEF TypeOK
    <3>4. Owner(s) = d
      OBVIOUS
    <3> HIDE DEF d
    <3> QED
      BY <3>1, <3>2, <3>3, <3>4 DEF AgentSide
  <2>4. CASE OnChallenge(s) \/ OnReady(s) \/ \E r \in Request : OnCancel(s, r) \/ OnCommand(s, r)
    BY <1>0, <2>4 DEF OnChallenge, OnReady, OnCancel, OnCommand
  <2> QED
    BY <1>2, <2>1, <2>2, <2>3, <2>4 DEF AgentStep
<1>3. ASSUME NEW d \in Device, Work(d) PROVE AgentSide'
  <2>1. ASSUME NEW r \in Request, FinishWhileConnecting(d, r) PROVE AgentSide'
    BY <1>1, <2>1 DEF FinishWhileConnecting
  <2>2. CASE SendStateReport(d) \/ \E r \in Request, k \in ResultStatus : Finish(d, r, k)
    BY <1>0, <2>2 DEF Finish, Concludes, SendStateReport
  <2> QED
    BY <1>3, <2>1, <2>2 DEF Work
<1>4. ASSUME NEW s \in Socket, GatewayStep(s) PROVE AgentSide'
  BY <1>0, <1>4 DEF GatewayStep, OnHello, OnHelloVerified, OnHelloRefused, OnStamped, OnUnauthenticated,
     OnStateReport, OnSocketClosed, OnAck, OnResult
<1>5. ASSUME NEW r \in Request, Timer(r) PROVE AgentSide'
  BY <1>0, <1>5 DEF Timer, AckTimeout, Deadline
<1>6. CASE Environment
  <2>1. ASSUME NEW d \in Device, AgentCrash(d) PROVE AgentSide'
    BY <1>1, <2>1 DEF AgentCrash
  <2>2. ASSUME NEW d \in Device, AgentRestart(d) PROVE AgentSide'
    BY <2>2 DEF AgentRestart, AgentSide
  <2>3. CASE ~\E d \in Device : AgentCrash(d) \/ AgentRestart(d)
    BY ZenonT(40), <1>0, <1>6, <2>3 DEF Environment, SendCommand, RefuseCommand, SendFails, AuthTimeout, LoseLink,
       GatewayCrash, Revoke
  <2> QED
    BY <2>1, <2>2, <2>3
<1>7. CASE UNCHANGED vars
  BY <1>0, <1>7
<1> QED
  BY <1>2, <1>3, <1>4, <1>5, <1>6, <1>7 DEF Next

LEMMA HandshakeFrames ==
  /\ Challenge # Ready /\ Hello # StateReport
  /\ \A r \in Request : Command(r) \notin {Challenge, Ready} /\ Cancel(r) \notin {Challenge, Ready}
  /\ \A r \in Request : Ack(r) # Hello /\ \A k \in ResultStatus : Result(r, k) # Hello
BY DEF Challenge, Ready, Hello, StateReport, Command, Cancel, Ack, Result

\* The three ways a queue changes, for the challenge and for the hello.
LEMMA ChallengeRead ==
  ASSUME NEW q \in Seq(ToAgentFrame), q # <<>>, OneChallenge(q)
  PROVE  OneChallenge(Tail(q)) /\ Challenge \notin Frames(Tail(q))
<1>1. \A j \in DOMAIN Tail(q) : j \in Int /\ j >= 1 /\ j + 1 \in DOMAIN q /\ Tail(q)[j] = q[j + 1]
  BY FramesLeft
<1>2. \A j \in DOMAIN Tail(q) : Tail(q)[j] # Challenge
  BY <1>1 DEF OneChallenge
<1> QED
  BY <1>2 DEF OneChallenge, Frames

LEMMA ChallengeSent ==
  ASSUME NEW q \in Seq(ToAgentFrame), NEW f \in ToAgentFrame, f # Challenge, OneChallenge(q)
  PROVE  OneChallenge(Append(q, f)) /\ (Challenge \in Frames(Append(q, f)) => Challenge \in Frames(q))
<1>1. \A i \in DOMAIN Append(q, f) : Append(q, f)[i] # f => i \in DOMAIN q /\ Append(q, f)[i] = q[i]
  OBVIOUS
<1> QED
  BY <1>1 DEF OneChallenge, Frames

LEMMA HelloRead ==
  ASSUME NEW q \in Seq(ToGatewayFrame), q # <<>>, OneHello(q)
  PROVE  /\ OneHello(Tail(q)) /\ Frames(Tail(q)) \subseteq Frames(q)
         /\ Head(q) = Hello => Hello \notin Frames(Tail(q))
<1>1. /\ \A j \in DOMAIN Tail(q) : j \in Int /\ j >= 1 /\ j + 1 \in DOMAIN q /\ Tail(q)[j] = q[j + 1]
      /\ Head(q) = q[1] /\ 1 \in DOMAIN q /\ Frames(Tail(q)) \subseteq Frames(q)
  BY FramesLeft
<1>2. OneHello(Tail(q))
  <2> SUFFICES ASSUME NEW i \in DOMAIN Tail(q), NEW j \in DOMAIN Tail(q), Tail(q)[i] = Hello, Tail(q)[j] = Hello
               PROVE  i = j
    BY DEF OneHello
  <2>1. i + 1 = j + 1
    BY <1>1 DEF OneHello
  <2> QED
    BY <1>1, <2>1
<1>3. ASSUME Head(q) = Hello PROVE \A j \in DOMAIN Tail(q) : Tail(q)[j] # Hello
  <2> SUFFICES ASSUME NEW j \in DOMAIN Tail(q), Tail(q)[j] = Hello PROVE FALSE
    OBVIOUS
  <2>1. j + 1 = 1
    BY <1>1, <1>3 DEF OneHello
  <2> QED
    BY <1>1, <2>1
<1> QED
  BY <1>1, <1>2, <1>3 DEF Frames

LEMMA HelloSent ==
  ASSUME NEW q \in Seq(ToGatewayFrame), NEW p \in Seq(ToGatewayFrame), OneHello(q), Hello \notin Frames(p)
  PROVE  OneHello(q \o p) /\ (Hello \in Frames(q \o p) => Hello \in Frames(q))
<1>1. \A i \in DOMAIN (q \o p) : \/ i \in DOMAIN q /\ (q \o p)[i] = q[i]
                                 \/ i - Len(q) \in DOMAIN p /\ (q \o p)[i] = p[i - Len(q)]
  BY FramesAdded
<1>2. \A i \in DOMAIN p : p[i] # Hello
  BY DEF Frames
<1>3. \A i \in DOMAIN (q \o p) : (q \o p)[i] = Hello => i \in DOMAIN q /\ q[i] = Hello
  BY <1>1, <1>2
<1> QED
  BY <1>3 DEF OneHello, Frames

LEMMA EmptyQueue == OneChallenge(<<>>) /\ OneHello(<<>>) /\ Frames(<<>>) = {}
BY DEF OneChallenge, OneHello, Frames

\* What no step but a dial, a challenge and a hello can disturb.
Quiet(t) ==
  /\ ag'[t] = "connecting" => ag[t] = "connecting" /\ (toGw'[t] = toGw[t] \/ toGw'[t] = <<>>)
  /\ hs'[t] = hs[t] \/ hs[t] # "hello"
  /\ \/ toAg'[t] = toAg[t] \/ toAg'[t] = <<>>
     \/ toAg[t] # <<>> /\ toAg'[t] = Tail(toAg[t])
     \/ \E f \in ToAgentFrame \ {Challenge} : toAg'[t] = Append(toAg[t], f)
  /\ \/ toGw'[t] = toGw[t] \/ toGw'[t] = <<>>
     \/ toGw[t] # <<>> /\ toGw'[t] = Tail(toGw[t])
     \/ \E p \in Seq(ToGatewayFrame) : Hello \notin Frames(p) /\ toGw'[t] = toGw[t] \o p

LEMMA QuietKeepsHello ==
  ASSUME TypeOK, NEW t \in Socket, HelloOnceOn(t), Quiet(t)
  PROVE  HelloOnceOn(t)'
<1> USE DEF HelloOnceOn
<1>1. toAg[t] \in Seq(ToAgentFrame) /\ toGw[t] \in Seq(ToGatewayFrame)
  BY DEF TypeOK
<1>2. OneChallenge(toAg'[t]) /\ (Challenge \in Frames(toAg'[t]) => Challenge \in Frames(toAg[t]))
  <2>1. CASE toAg'[t] = toAg[t] \/ toAg'[t] = <<>>
    BY <2>1, EmptyQueue
  <2>2. CASE toAg[t] # <<>> /\ toAg'[t] = Tail(toAg[t])
    BY <1>1, <2>2, ChallengeRead
  <2>3. CASE \E f \in ToAgentFrame \ {Challenge} : toAg'[t] = Append(toAg[t], f)
    BY <1>1, <2>3, ChallengeSent
  <2> QED
    BY <2>1, <2>2, <2>3 DEF Quiet
<1>3. OneHello(toGw'[t]) /\ (Hello \in Frames(toGw'[t]) => Hello \in Frames(toGw[t]))
  <2>1. CASE toGw'[t] = toGw[t] \/ toGw'[t] = <<>>
    BY <2>1, EmptyQueue
  <2>2. CASE toGw[t] # <<>> /\ toGw'[t] = Tail(toGw[t])
    BY <1>1, <2>2, HelloRead
  <2>3. CASE \E p \in Seq(ToGatewayFrame) : Hello \notin Frames(p) /\ toGw'[t] = toGw[t] \o p
    BY <1>1, <2>3, HelloSent
  <2> QED
    BY <2>1, <2>2, <2>3 DEF Quiet
<1>4. hs'[t] = hs[t] \/ (Challenge \notin Frames(toAg[t]) /\ Hello \notin Frames(toGw[t]))
  BY DEF Quiet
<1>5. ag'[t] = "connecting" => toGw'[t] = <<>>
  BY DEF Quiet
<1> QED
  BY <1>2, <1>3, <1>4, <1>5 DEF OneChallenge, OneHello

\* Reading and sending, as the quiet steps they are.
LEMMA AgentReadsQueue ==
  ASSUME TypeOK, NEW s \in Socket, NEW frame, AgentReads(s, frame)
  PROVE  \A t \in Socket : \/ toAg'[t] = toAg[t]
                           \/ t = s /\ toAg[t] # <<>> /\ toAg'[t] = Tail(toAg[t])
BY DEF TypeOK, AgentReads

LEMMA GatewayReadsQueue ==
  ASSUME TypeOK, NEW s \in Socket, GatewayReads(s)
  PROVE  \A t \in Socket : \/ toGw'[t] = toGw[t]
                           \/ t = s /\ toGw[t] # <<>> /\ toGw'[t] = Tail(toGw[t])
BY DEF TypeOK, GatewayReads

LEMMA FramesOfPair == \A a, b : Frames(<<a>>) = {a} /\ Frames(<<a, b>>) = {a, b}
<1> SUFFICES ASSUME NEW a, NEW b PROVE Frames(<<a>>) = {a} /\ Frames(<<a, b>>) = {a, b}
  OBVIOUS
<1>1. DOMAIN <<a>> = {1} /\ <<a>>[1] = a
  OBVIOUS
<1>2. DOMAIN <<a, b>> = {1, 2} /\ <<a, b>>[1] = a /\ <<a, b>>[2] = b
  OBVIOUS
<1> QED
  BY <1>1, <1>2 DEF Frames

LEMMA FewFrames ==
  /\ \A f \in ToGatewayFrame : \E p \in Seq(ToGatewayFrame) : p = <<f>> /\ Frames(p) = {f}
  /\ \A f, g \in ToGatewayFrame : \E p \in Seq(ToGatewayFrame) : p = <<f, g>> /\ Frames(p) = {f, g}
<1>1. ASSUME NEW f \in ToGatewayFrame, NEW g \in ToGatewayFrame
      PROVE  <<f>> \in Seq(ToGatewayFrame) /\ <<f, g>> \in Seq(ToGatewayFrame)
  OBVIOUS
<1>2. \A f \in ToGatewayFrame : \E p \in Seq(ToGatewayFrame) : p = <<f>> /\ Frames(p) = {f}
  BY <1>1, FramesOfPair, Zenon
<1>3. \A f, g \in ToGatewayFrame : \E p \in Seq(ToGatewayFrame) : p = <<f, g>> /\ Frames(p) = {f, g}
  BY <1>1, FramesOfPair, Zenon
<1> QED
  BY <1>2, <1>3

\* What an agent's handlers send on a socket: no second hello.
LEMMA CommandSends ==
  ASSUME TypeOK, NEW s \in Socket, NEW r \in Request, OnCommand(s, r)
  PROVE  \/ toGw' = toGw
         \/ \E p \in Seq(ToGatewayFrame) :
              /\ AgentSends(s, p)
              /\ Frames(p) \subseteq {Ack(r)} \cup {Result(r, k) : k \in ResultStatus}
              /\ \A k \in ResultStatus : Result(r, k) \in Frames(p) =>
                   recent[Owner(s)][r] # "none" \/ r \in cancelled[Owner(s)]
<1> USE OwnerIsDevice, FrameTypes
<1> DEFINE d == Owner(s)
           replies == {Ack(r)} \cup {Result(r, k) : k \in ResultStatus}
<1>1. CASE recent[d][r] # "none"
  <2>1. recent[d][r] \in ResultStatus
    BY <1>1 DEF TypeOK
  <2>2. PICK p \in Seq(ToGatewayFrame) : p = <<Result(r, recent[d][r])>> /\ Frames(p) = {Result(r, recent[d][r])}
    BY <2>1, FewFrames
  <2>3. Frames(p) \subseteq replies
    BY <2>1, <2>2
  <2>4. AgentSends(s, p)
    BY <1>1, <2>2 DEF OnCommand
  <2> QED
    BY <1>1, <2>3, <2>4
<1>2. CASE recent[d][r] = "none" /\ r \in inFlight[d]
  BY <1>2 DEF OnCommand
<1>3. CASE recent[d][r] = "none" /\ r \notin inFlight[d] /\ r \in cancelled[d]
  <2>1. "error" \in ResultStatus
    BY DEF ResultStatus
  <2>2. PICK p \in Seq(ToGatewayFrame) : p = <<Ack(r), Result(r, "error")>> /\ Frames(p) = {Ack(r), Result(r, "error")}
    BY <2>1, FewFrames
  <2>3. Frames(p) \subseteq replies
    BY <2>1, <2>2
  <2>4. AgentSends(s, p)
    BY <1>3, <2>2 DEF OnCommand
  <2> QED
    BY <1>3, <2>3, <2>4
<1>4. CASE recent[d][r] = "none" /\ r \notin inFlight[d] /\ r \notin cancelled[d]
  <2>1. PICK p \in Seq(ToGatewayFrame) : p = <<Ack(r)>> /\ Frames(p) = {Ack(r)}
    BY FewFrames
  <2>2. Frames(p) = {Ack(r)}
    BY <2>1
  <2>3. AgentSends(s, p)
    BY <1>4, <2>1 DEF OnCommand
  <2>4. \A k \in ResultStatus : Result(r, k) # Ack(r)
    BY DEF Result, Ack
  <2> QED
    BY <2>2, <2>3, <2>4
<1> QED
  BY <1>1, <1>2, <1>3, <1>4

LEMMA HelloOnceStep == TypeOK /\ SocketLife /\ HelloOnce /\ [Next]_vars => HelloOnce'
<1> SUFFICES ASSUME TypeOK, SocketLife, HelloOnce, [Next]_vars, NEW t \in Socket PROVE HelloOnceOn(t)'
  BY DEF HelloOnce
<1> USE ConstantsAssumption, OwnerIsDevice, FrameTypes, HandshakeFrames
    DEF vars, sockVars, regVars, callVars, agentVars, workVars, envVars
<1>0. HelloOnceOn(t)
  BY DEF HelloOnce
<1>1. SUFFICES ASSUME ~Quiet(t) PROVE HelloOnceOn(t)'
  BY <1>0, QuietKeepsHello
<1>2. ASSUME NEW s \in Socket, NEW p \in Seq(ToGatewayFrame), AgentSends(s, p), Hello \notin Frames(p),
             ag[s] = "open", ag'[s] = "open", UNCHANGED <<ag, hs>>, toAg' = toAg \/ \E f : AgentReads(s, f)
      PROVE  FALSE
  <2>1. toAg'[t] = toAg[t] \/ (toAg[t] # <<>> /\ toAg'[t] = Tail(toAg[t]))
    BY <1>2, AgentReadsQueue
  <2>2. toGw'[t] = toGw[t] \/ (t = s /\ toGw'[t] = toGw[t] \o p)
    BY <1>2, AgentSendsFrames
  <2> QED
    BY <1>1, <1>2, <2>1, <2>2 DEF Quiet
<1>3. ASSUME NEW d \in Device, AgentDies(d), UNCHANGED hs PROVE FALSE
  <2>1. ag'[t] = ag[t] \/ ag'[t] = "closed"
    <3>1. CASE ws[d] = NoSocket
      BY <1>3, <3>1 DEF AgentDies
    <3>2. CASE ws[d] # NoSocket
      <4>1. PICK s \in Socket : s = ws[d]
        BY <3>2 DEF TypeOK
      <4>2. ag' = [ag EXCEPT ![s] = "closed"]
        BY <1>3, <3>2, <4>1 DEF AgentDies
      <4> QED
        BY <4>2 DEF TypeOK
    <3> QED
      BY <3>1, <3>2
  <2> QED
    BY <1>1, <1>3, <2>1, AgentDiesFrames DEF Quiet
<1>4. ASSUME NEW s \in Socket, AgentStep(s) PROVE HelloOnceOn(t)'
  <2>1. CASE Dial(s)
    <3>1. CASE t = s
      <4>1. toAg'[t] = <<>> /\ toGw'[t] = <<>>
        BY <2>1, <3>1 DEF Dial, TypeOK
      <4> QED
        BY <4>1, EmptyQueue DEF HelloOnceOn, OneChallenge, OneHello
    <3>2. CASE t # s
      BY <1>1, <2>1, <3>2 DEF Dial, Quiet, TypeOK
    <3> QED
      BY <3>1, <3>2
  <2>2. CASE Accept(s)
    <3>1. CASE t = s
      <4>1. toGw[t] = <<>> /\ hs[t] = "hello"
        BY <1>0, <2>2, <3>1 DEF Accept, SocketLife, HelloOnceOn
      <4>2. toAg'[t] = <<Challenge>> /\ toGw'[t] = <<>> /\ hs'[t] = "hello"
        BY <2>2, <3>1, <4>1 DEF Accept, TypeOK
      <4>3. OneChallenge(toAg'[t])
        BY <4>2 DEF OneChallenge
      <4> QED
        BY <4>2, <4>3, EmptyQueue DEF HelloOnceOn, OneChallenge, OneHello
    <3>2. CASE t # s
      BY <1>1, <2>2, <3>2 DEF Accept, Quiet, TypeOK
    <3> QED
      BY <3>1, <3>2
  <2>3. CASE OnDisconnect(s)
    BY <1>1, <2>3 DEF OnDisconnect, Quiet, TypeOK
  <2>4. CASE OnChallenge(s)
    <3>1. CASE t # s
      <4>1. PICK p \in Seq(ToGatewayFrame) : p = <<Hello>> /\ AgentSends(s, p)
        BY <2>4, FewFrames DEF OnChallenge
      <4>2. toAg'[t] = toAg[t] /\ toGw'[t] = toGw[t] /\ UNCHANGED <<ag, hs>>
        BY <2>4, <3>1, <4>1, AgentSendsFrames, AgentReadsQueue DEF OnChallenge
      <4> QED
        BY <1>1, <4>2 DEF Quiet
    <3>2. CASE t = s
      <4>1. /\ toAg[s] \in Seq(ToAgentFrame) /\ toGw[s] \in Seq(ToGatewayFrame) /\ toAg[s] # <<>>
            /\ toAg'[s] = Tail(toAg[s]) /\ ag[s] = "open" /\ UNCHANGED <<ag, hs>>
        BY <2>4 DEF OnChallenge, AgentReads, TypeOK
      <4>2. Challenge \in Frames(toAg[s]) /\ hs[s] = "hello" /\ Hello \notin Frames(toGw[s])
        BY <1>0, <2>4, <3>2, AgentReadsFrames DEF OnChallenge, HelloOnceOn
      <4>3. Challenge \notin Frames(toAg'[s]) /\ OneChallenge(toAg'[s])
        BY <1>0, <3>2, <4>1, ChallengeRead DEF HelloOnceOn
      <4>4. PICK p \in Seq(ToGatewayFrame) : p = <<Hello>> /\ AgentSends(s, p)
        BY <2>4, FewFrames DEF OnChallenge
      <4>5. OneHello(toGw'[s])
        <5>1. CASE toGw'[s] = toGw[s]
          BY <1>0, <3>2, <5>1 DEF HelloOnceOn
        <5>2. CASE toGw'[s] = toGw[s] \o p
          <6>1. \A i \in DOMAIN (toGw[s] \o p) : \/ i \in DOMAIN toGw[s] /\ (toGw[s] \o p)[i] = toGw[s][i]
                                                 \/ i - Len(toGw[s]) \in DOMAIN p
            BY <4>1, FramesAdded
          <6>2. DOMAIN p = {1} /\ Len(toGw[s]) \in Nat /\ DOMAIN (toGw[s] \o p) \subseteq Int
            BY <4>1, <4>4
          <6>3. \A i \in DOMAIN toGw[s] : toGw[s][i] # Hello
            BY <4>2 DEF Frames
          <6>4. \A i \in DOMAIN (toGw[s] \o p) : (toGw[s] \o p)[i] = Hello => i = Len(toGw[s]) + 1
            BY <6>1, <6>2, <6>3
          <6> QED
            BY <5>2, <6>4 DEF OneHello
        <5> QED
          BY <4>4, <5>1, <5>2, AgentSendsFrames
      <4> QED
        BY <3>2, <4>1, <4>2, <4>3, <4>5 DEF HelloOnceOn, OneChallenge, OneHello
    <3> QED
      BY <3>1, <3>2
  <2>5. CASE OnReady(s) \/ \E r \in Request : OnCancel(s, r)
    <3>1. UNCHANGED <<ag, hs, toGw>> /\ \E f : AgentReads(s, f)
      BY <2>5 DEF OnReady, OnCancel
    <3>2. toAg'[t] = toAg[t] \/ (toAg[t] # <<>> /\ toAg'[t] = Tail(toAg[t]))
      BY <3>1, AgentReadsQueue
    <3> QED
      BY <1>1, <3>1, <3>2 DEF Quiet
  <2>6. ASSUME NEW r \in Request, OnCommand(s, r) PROVE HelloOnceOn(t)'
    <3>1. UNCHANGED <<ag, hs>> /\ AgentReads(s, Command(r)) /\ ag[s] = "open"
      BY <2>6 DEF OnCommand, AgentReads
    <3>2. CASE toGw' = toGw
      <4>1. toAg'[t] = toAg[t] \/ (toAg[t] # <<>> /\ toAg'[t] = Tail(toAg[t]))
        BY <3>1, AgentReadsQueue
      <4> QED
        BY <1>1, <3>1, <3>2, <4>1 DEF Quiet
    <3>3. CASE toGw' # toGw
      <4>1. PICK p \in Seq(ToGatewayFrame) :
              AgentSends(s, p) /\ Frames(p) \subseteq {Ack(r)} \cup {Result(r, k) : k \in ResultStatus}
        BY <2>6, <3>3, CommandSends
      <4>2. Hello \notin Frames(p)
        BY <4>1
      <4> QED
        BY <1>2, <3>1, <4>1, <4>2
    <3> QED
      BY <3>2, <3>3
  <2> QED
    BY <1>4, <2>1, <2>2, <2>3, <2>4, <2>5, <2>6 DEF AgentStep
<1>5. ASSUME NEW d \in Device, Work(d) PROVE HelloOnceOn(t)'
  <2>1. ASSUME NEW r \in Request, FinishWhileConnecting(d, r) PROVE FALSE
    BY <1>3, <2>1 DEF FinishWhileConnecting
  <2>2. ASSUME NEW f \in ToGatewayFrame, f # Hello, UNCHANGED <<ag, hs, toAg>>,
               toGw' = toGw \/ (ws[d] # NoSocket /\ ag[ws[d]] = "open" /\ AgentSends(ws[d], <<f>>))
        PROVE  FALSE
    <3>1. CASE toGw' = toGw
      BY <1>1, <2>2, <3>1 DEF Quiet
    <3>2. CASE toGw' # toGw
      <4>1. PICK s \in Socket : s = ws[d]
        BY <2>2, <3>2 DEF TypeOK
      <4>2. PICK p \in Seq(ToGatewayFrame) : p = <<f>> /\ Frames(p) = {f}
        BY FewFrames
      <4>3. Hello \notin Frames(p)
        BY <2>2, <4>2
      <4> QED
        BY <1>2, <2>2, <3>2, <4>1, <4>2, <4>3
    <3> QED
      BY <3>1, <3>2
  <2>3. ASSUME NEW r \in Request, NEW k \in ResultStatus, Finish(d, r, k) PROVE FALSE
    BY <2>2, <2>3 DEF Finish
  <2>4. CASE SendStateReport(d)
    BY <2>2, <2>4 DEF SendStateReport
  <2> QED
    BY <1>5, <2>1, <2>3, <2>4 DEF Work
<1>6. ASSUME NEW s \in Socket, GatewayStep(s) PROVE HelloOnceOn(t)'
  <2>1. ASSUME GatewayReads(s), UNCHANGED <<ag, toAg, hs>> PROVE FALSE
    <3>1. toGw'[t] = toGw[t] \/ (toGw[t] # <<>> /\ toGw'[t] = Tail(toGw[t]))
      BY <2>1, GatewayReadsQueue
    <3>2. t = s \/ toGw'[t] = toGw[t]
      BY <2>1, GatewayReadsQueue
    <3>3. ag'[t] = "connecting" => toGw'[t] = toGw[t]
      <4>1. ag[s] = "connecting" => gw[s] = "none"
        BY DEF SocketLife
      <4> QED
        BY <2>1, <3>2, <4>1 DEF GatewayReads
    <3> QED
      BY <1>1, <2>1, <3>1, <3>3 DEF Quiet
  <2>2. CASE OnHello(s)
    <3>1. CASE t # s
      <4>1. toGw'[t] = toGw[t]
        BY <2>2, <3>1, GatewayReadsQueue DEF OnHello
      <4> QED
        BY <1>1, <2>2, <3>1, <4>1 DEF OnHello, Quiet, TypeOK
    <3>2. CASE t = s
      <4>1. /\ toGw[s] \in Seq(ToGatewayFrame) /\ toGw[s] # <<>> /\ Head(toGw[s]) = Hello
            /\ toGw'[s] = Tail(toGw[s]) /\ UNCHANGED <<ag, toAg>> /\ Hello \in Frames(toGw[s])
        BY <2>2, GatewayReadsFrames DEF OnHello, GatewayReads, TypeOK
      <4>2. Hello \notin Frames(toGw'[s]) /\ OneHello(toGw'[s])
        BY <1>0, <3>2, <4>1, HelloRead DEF HelloOnceOn
      <4>3. Challenge \notin Frames(toAg[s]) /\ ag[s] # "connecting"
        BY <1>0, <3>2, <4>1, EmptyQueue DEF HelloOnceOn
      <4> QED
        BY <1>0, <3>2, <4>1, <4>2, <4>3 DEF HelloOnceOn, OneChallenge, OneHello
    <3> QED
      BY <3>1, <3>2
  <2>3. CASE OnHelloVerified(s) \/ OnHelloRefused(s)
    BY <1>1, <2>3 DEF OnHelloVerified, OnHelloRefused, Quiet, TypeOK
  <2>4. CASE OnStamped(s)
    <3>1. toAg'[t] = toAg[t] \/ toAg'[t] = Append(toAg[t], Ready)
      BY <2>4, GatewaySendsFrames DEF OnStamped
    <3> QED
      BY <1>1, <2>4, <3>1 DEF OnStamped, Quiet, TypeOK
  <2>5. CASE \/ OnUnauthenticated(s) \/ OnStateReport(s)
            \/ \E r \in Request : OnAck(s, r) \/ \E k \in ResultStatus : OnResult(s, r, k)
    BY <2>1, <2>5 DEF OnUnauthenticated, OnStateReport, OnAck, OnResult
  <2>6. CASE OnSocketClosed(s)
    BY <1>1, <2>6 DEF OnSocketClosed, Quiet, TypeOK
  <2> QED
    BY <1>6, <2>2, <2>3, <2>4, <2>5, <2>6 DEF GatewayStep
<1>7. ASSUME NEW r \in Request, Timer(r) PROVE HelloOnceOn(t)'
  <2>1. toAg'[t] = toAg[t] \/ toAg'[t] = Append(toAg[t], Cancel(r))
    BY <1>7, GatewaySendsFrames DEF Timer, AckTimeout, Deadline
  <2> QED
    BY <1>1, <1>7, <2>1 DEF Timer, AckTimeout, Deadline, Quiet
<1>8. CASE Environment
  <2>1. ASSUME NEW r \in Request, NEW a \in Device \cup {AnyDevice}, SendCommand(r, a) PROVE FALSE
    <3>1. toAg'[t] = toAg[t] \/ toAg'[t] = Append(toAg[t], Command(r))
      BY <2>1, GatewaySendsFrames DEF SendCommand
    <3> QED
      BY <1>1, <2>1, <3>1 DEF SendCommand, Quiet
  <2>2. ASSUME NEW d \in Device, AgentCrash(d) PROVE FALSE
    BY <1>3, <2>2 DEF AgentCrash
  <2>3. ASSUME NEW s \in Socket, NEW how \in Losses, LoseLink(s, how) PROVE FALSE
    BY <1>1, <2>3 DEF LoseLink, Quiet, TypeOK
  <2>4. CASE GatewayCrash
    <3>1. toAg'[t] = <<>> /\ toGw'[t] = <<>>
      BY <2>4 DEF GatewayCrash
    <3> QED
      BY <3>1, EmptyQueue DEF HelloOnceOn, OneChallenge, OneHello
  <2>5. CASE \/ \E r \in Request : \/ SendFails(r)
                                   \/ \E a \in Device \cup {AnyDevice} : RefuseCommand(r, a)
             \/ \E s \in Socket : AuthTimeout(s)
             \/ \E d \in Device : AgentRestart(d) \/ Revoke(d)
    BY <1>1, <2>5 DEF SendFails, RefuseCommand, AuthTimeout, AgentRestart, Revoke, Quiet
  <2> QED
    BY <1>8, <2>1, <2>2, <2>3, <2>4, <2>5 DEF Environment
<1>9. CASE UNCHANGED vars
  BY <1>1, <1>9 DEF Quiet
<1> QED
  BY <1>4, <1>5, <1>6, <1>7, <1>8, <1>9 DEF Next

LEMMA ReadyAfterHelloStep ==
  TypeOK /\ SocketLife /\ AgentSide /\ HelloOnce /\ ReadyAfterHello /\ [Next]_vars => ReadyAfterHello'
<1> SUFFICES ASSUME TypeOK, SocketLife, AgentSide, HelloOnce, ReadyAfterHello, [Next]_vars
             PROVE  ReadyAfterHello'
  OBVIOUS
<1> USE ConstantsAssumption, OwnerIsDevice, FrameTypes, HandshakeFrames
    DEF vars, sockVars, regVars, callVars, agentVars, workVars, envVars
<1>1. ASSUME NEW t \in Socket, ReadyAfterHello
      PROVE  Ready \in Frames(toAg[t]) => hs[t] = "done"
  BY <1>1 DEF ReadyAfterHello
<1>2. ASSUME UNCHANGED <<hs, gw, ws, ready>>,
             \A t \in Socket : Ready \in Frames(toAg'[t]) => Ready \in Frames(toAg[t])
      PROVE  ReadyAfterHello'
  BY <1>2 DEF ReadyAfterHello
<1>3. ASSUME UNCHANGED <<hs, gw, ws, ready, toAg>> PROVE ReadyAfterHello'
  BY <1>3 DEF ReadyAfterHello
\* The gateway's end of a socket closes for good.
<1>4. ASSUME NEW s, UNCHANGED <<hs, ws, ready, toAg>>, gw' = gw \/ gw' = [gw EXCEPT ![s] = "closed"]
             \/ (gw[s] = "open" /\ gw' = [gw EXCEPT ![s] = "closing"])
      PROVE  ReadyAfterHello'
  <2>1. \A t \in Socket : gw[t] = "closed" => gw'[t] = "closed"
    BY <1>4 DEF TypeOK
  <2>2. \A d \in ready : ws[d] # NoSocket => ws[d] \in Socket
    BY DEF TypeOK
  <2> QED
    BY <1>4, <2>1, <2>2 DEF ReadyAfterHello
<1>5. ASSUME NEW d \in Device, AgentDies(d), UNCHANGED <<gw, hs>> PROVE ReadyAfterHello'
  <2>1. \A t \in Socket : Ready \in Frames(toAg'[t]) => Ready \in Frames(toAg[t])
    BY <1>5, AgentDiesFrames, EmptyQueue
  <2>2. ready' = ready \ {d} /\ \A e \in Device \ {d} : ws'[e] = ws[e]
    BY <1>5 DEF AgentDies, TypeOK
  <2>3. ready \subseteq Device
    BY DEF TypeOK
  <2> QED
    BY <1>5, <2>1, <2>2, <2>3 DEF ReadyAfterHello
<1>6. ASSUME NEW s \in Socket, AgentStep(s) PROVE ReadyAfterHello'
  <2>1. CASE Dial(s) \/ OnDisconnect(s)
    <3>1. ready' = ready \ {Owner(s)} /\ \A e \in Device \ {Owner(s)} : ws'[e] = ws[e]
      BY <2>1 DEF Dial, OnDisconnect, TypeOK
    <3>2. toAg'[s] = <<>> /\ \A t \in Socket \ {s} : toAg'[t] = toAg[t] /\ hs'[t] = hs[t] /\ gw'[t] = gw[t]
      BY <2>1 DEF Dial, OnDisconnect, TypeOK
    <3>3. \A t \in Socket : Ready \in Frames(toAg'[t]) => hs'[t] = "done"
      BY <3>2, EmptyQueue DEF ReadyAfterHello
    <3>4. \A d \in ready' : ws'[d] = ws[d] /\ ws[d] # NoSocket /\ ws[d] \in Socket /\ ws[d] # s
      <4> SUFFICES ASSUME NEW d \in ready' PROVE ws'[d] = ws[d] /\ ws[d] # NoSocket /\ ws[d] \in Socket /\ ws[d] # s
        OBVIOUS
      <4>1. d \in Device /\ d \in ready /\ d # Owner(s)
        BY <3>1 DEF TypeOK
      <4>2. ws[d] # NoSocket /\ ws[d] \in Socket
        BY <4>1 DEF ReadyAfterHello, TypeOK
      <4>3. Owner(ws[d]) = d
        BY <4>1, <4>2 DEF AgentSide
      <4> QED
        BY <3>1, <4>1, <4>2, <4>3
    <3> QED
      BY <3>1, <3>2, <3>3, <3>4 DEF ReadyAfterHello
  <2>2. CASE Accept(s)
    <3>1. /\ toAg'[s] = <<Challenge>> /\ gw[s] = "none" /\ hs[s] = "hello" /\ UNCHANGED <<hs, ws, ready>>
          /\ \A t \in Socket \ {s} : toAg'[t] = toAg[t] /\ gw'[t] = gw[t]
      BY <2>2 DEF Accept, SocketLife, TypeOK
    <3>2. Ready \notin Frames(toAg'[s])
      BY <3>1, FramesOfPair
    <3>3. \A d \in ready : ws[d] # NoSocket /\ ws[d] \in Socket /\ ws[d] # s
      BY ZenonT(40), <3>1 DEF ReadyAfterHello, TypeOK
    <3> QED
      BY <3>1, <3>2, <3>3 DEF ReadyAfterHello
  <2>3. CASE OnReady(s)
    <3>1. AgentReads(s, Ready) /\ ready' = ready \cup {Owner(s)} /\ UNCHANGED <<hs, gw, ws>> /\ ag[s] = "open"
      BY <2>3 DEF OnReady, AgentReads
    <3>2. Ready \in Frames(toAg[s]) /\ \A t \in Socket : Frames(toAg'[t]) \subseteq Frames(toAg[t])
      BY <3>1, AgentReadsFrames
    <3>3. hs[s] = "done" /\ ws[Owner(s)] = s
      BY <3>1, <3>2 DEF ReadyAfterHello, AgentSide
    <3> QED
      BY <3>1, <3>2, <3>3 DEF ReadyAfterHello
  <2>4. CASE OnChallenge(s) \/ \E r \in Request : OnCancel(s, r) \/ OnCommand(s, r)
    <3>1. UNCHANGED <<hs, gw, ws, ready>> /\ \E f : AgentReads(s, f)
      BY <2>4 DEF OnChallenge, OnCancel, OnCommand
    <3>2. \A t \in Socket : Frames(toAg'[t]) \subseteq Frames(toAg[t])
      BY <3>1, AgentReadsFrames
    <3> QED
      BY <1>2, <3>1, <3>2
  <2> QED
    BY <1>6, <2>1, <2>2, <2>3, <2>4 DEF AgentStep
<1>7. ASSUME NEW d \in Device, Work(d) PROVE ReadyAfterHello'
  <2>1. ASSUME NEW r \in Request, FinishWhileConnecting(d, r) PROVE ReadyAfterHello'
    BY <1>5, <2>1 DEF FinishWhileConnecting
  <2>2. CASE SendStateReport(d) \/ \E r \in Request, k \in ResultStatus : Finish(d, r, k)
    BY <1>3, <2>2 DEF Finish, SendStateReport
  <2> QED
    BY <1>7, <2>1, <2>2 DEF Work
<1>8. ASSUME NEW s \in Socket, GatewayStep(s) PROVE ReadyAfterHello'
  <2>1. CASE OnHello(s)
    <3>1. GatewayReads(s) /\ Head(toGw[s]) = Hello /\ gw[s] # "closed" /\ UNCHANGED <<gw, ws, ready, toAg>>
      BY <2>1 DEF OnHello, GatewayReads
    <3>2. Hello \in Frames(toGw[s])
      BY <3>1, GatewayReadsFrames
    <3>3. hs[s] = "hello"
      BY <3>2 DEF HelloOnce, HelloOnceOn
    <3>4. \A t \in Socket \ {s} : hs'[t] = hs[t]
      BY <2>1 DEF OnHello, TypeOK
    <3>5. \A d \in ready : ws[d] # NoSocket /\ ws[d] \in Socket /\ ws[d] # s
      BY <3>1, <3>3 DEF ReadyAfterHello, TypeOK
    <3>6. Ready \notin Frames(toAg[s])
      BY <3>3 DEF ReadyAfterHello
    <3> QED
      BY <3>1, <3>4, <3>5, <3>6 DEF ReadyAfterHello
  <2>2. CASE OnHelloVerified(s) \/ OnHelloRefused(s)
    <3>1. hs[s] = "lookup" /\ UNCHANGED <<ws, ready, toAg>> /\ \A t \in Socket \ {s} : hs'[t] = hs[t]
      BY <2>2 DEF OnHelloVerified, OnHelloRefused, TypeOK
    <3>2. \A t \in Socket : gw[t] = "closed" => gw'[t] = "closed"
      BY <2>2 DEF OnHelloVerified, OnHelloRefused, Register, GatewayCloses, TypeOK
    <3>3. Ready \notin Frames(toAg[s])
      BY <3>1 DEF ReadyAfterHello
    <3>4. \A d \in ready : ws[d] \in Socket /\ (ws[d] = s => gw[ws[d]] = "closed")
      BY <3>1 DEF ReadyAfterHello, TypeOK
    <3> QED
      BY <3>1, <3>2, <3>3, <3>4 DEF ReadyAfterHello
  <2>3. CASE OnStamped(s)
    <3>1. UNCHANGED <<gw, ws, ready>> /\ hs'[s] = "done" /\ \A t \in Socket \ {s} : hs'[t] = hs[t]
      BY <2>3 DEF OnStamped, TypeOK
    <3>2. \A t \in Socket \ {s} : toAg'[t] = toAg[t]
      BY <2>3, GatewaySendsFrames DEF OnStamped
    <3>3. \A d \in ready : ws[d] \in Socket
      BY DEF ReadyAfterHello, TypeOK
    <3> QED
      BY <3>1, <3>2, <3>3 DEF ReadyAfterHello
  <2>4. CASE OnUnauthenticated(s) \/ OnSocketClosed(s)
    BY <1>4, <2>4 DEF OnUnauthenticated, OnSocketClosed, GatewayCloses
  <2>5. CASE OnStateReport(s) \/ \E r \in Request : OnAck(s, r) \/ \E k \in ResultStatus : OnResult(s, r, k)
    BY <1>3, <2>5 DEF OnStateReport, OnAck, OnResult
  <2> QED
    BY <1>8, <2>1, <2>2, <2>3, <2>4, <2>5 DEF GatewayStep
<1>9. ASSUME NEW r \in Request, Timer(r) PROVE ReadyAfterHello'
  <2>1. CASE AckTimeout(r)
    BY <1>3, <2>1 DEF AckTimeout
  <2>2. CASE Deadline(r)
    <3>1. UNCHANGED <<hs, gw, ws, ready>> /\ (toAg' = toAg \/ GatewaySends(conn[rdev[r]], Cancel(r)))
      BY <2>2 DEF Deadline
    <3>2. ASSUME GatewaySends(conn[rdev[r]], Cancel(r)), NEW t \in Socket
          PROVE  Ready \in Frames(toAg'[t]) => Ready \in Frames(toAg[t])
      <4>1. Cancel(r) \in ToAgentFrame /\ Cancel(r) # Ready
        OBVIOUS
      <4>2. toAg'[t] = toAg[t] \/ Frames(toAg'[t]) = Frames(toAg[t]) \cup {Cancel(r)}
        BY <3>2, <4>1, GatewaySendsFrames
      <4> QED
        BY <4>1, <4>2
    <3> QED
      BY <1>2, <3>1, <3>2
  <2> QED
    BY <1>9, <2>1, <2>2 DEF Timer
<1>10. CASE Environment
  <2>1. ASSUME NEW r \in Request, NEW a \in Device \cup {AnyDevice}, SendCommand(r, a) PROVE ReadyAfterHello'
    <3>1. \A t \in Socket : Ready \in Frames(toAg'[t]) => Ready \in Frames(toAg[t])
      BY <2>1, GatewaySendsFrames DEF SendCommand
    <3> QED
      BY <1>2, <2>1, <3>1 DEF SendCommand
  <2>2. ASSUME NEW d \in Device, AgentCrash(d) PROVE ReadyAfterHello'
    BY <1>5, <2>2 DEF AgentCrash
  <2>3. ASSUME NEW s \in Socket, NEW how \in Losses, LoseLink(s, how) PROVE ReadyAfterHello'
    <3>1. \A t \in Socket : toAg'[t] = toAg[t] \/ toAg'[t] = <<>>
      BY <2>3 DEF LoseLink, TypeOK
    <3> QED
      BY <1>2, <2>3, <3>1, EmptyQueue DEF LoseLink
  <2>4. ASSUME NEW s \in Socket, AuthTimeout(s) PROVE ReadyAfterHello'
    BY <1>4, <2>4 DEF AuthTimeout, GatewayCloses
  <2>5. CASE GatewayCrash
    <3>1. UNCHANGED <<ws, ready>> /\ \A t \in Socket : toAg'[t] = <<>> /\ (gw[t] # "none" => gw'[t] = "closed")
      BY <2>5 DEF GatewayCrash
    <3>2. \A d \in ready : ws[d] # NoSocket /\ ws[d] \in Socket /\ gw[ws[d]] # "none"
      <4> SUFFICES ASSUME NEW d \in ready PROVE ws[d] # NoSocket /\ ws[d] \in Socket /\ gw[ws[d]] # "none"
        OBVIOUS
      <4>1. d \in Device /\ ws[d] # NoSocket /\ (hs[ws[d]] = "done" \/ gw[ws[d]] = "closed")
        BY DEF ReadyAfterHello, TypeOK
      <4>2. ws[d] \in Socket
        BY <4>1 DEF TypeOK
      <4> QED
        BY <4>1, <4>2 DEF SocketLife
    <3> QED
      BY <3>1, <3>2, EmptyQueue DEF ReadyAfterHello
  <2>6. CASE \/ \E r \in Request : \/ SendFails(r)
                                   \/ \E a \in Device \cup {AnyDevice} : RefuseCommand(r, a)
             \/ \E d \in Device : AgentRestart(d) \/ Revoke(d)
    BY <1>3, <2>6 DEF SendFails, RefuseCommand, AgentRestart, Revoke
  <2> QED
    BY <1>10, <2>1, <2>2, <2>3, <2>4, <2>5, <2>6 DEF Environment
<1>11. CASE UNCHANGED vars
  BY <1>3, <1>11
<1> QED
  BY <1>6, <1>7, <1>8, <1>9, <1>10, <1>11 DEF Next

\* ReadyAgentIsRegistered: while an agent shows itself connected over a socket that works,
\* the registry routes its commands to that socket: device.ready is sent after the
\* registration (wsHandler.ts), and whatever supersedes the socket closes it first.
THEOREM ReadyAgentIsRegisteredHolds == Spec => []ReadyAgentIsRegistered
<1>1. Init => ReadyInv
  <2> SUFFICES ASSUME Init PROVE ReadyInv
    OBVIOUS
  <2>1. AgentSide
    BY ConstantsAssumption DEF Init, AgentSide
  <2>2. \A s \in Socket : toAg[s] = <<>> /\ toGw[s] = <<>>
    BY DEF Init
  <2>3. HelloOnce
    BY <2>2, EmptyQueue DEF Init, HelloOnce, HelloOnceOn, OneChallenge, OneHello
  <2>4. ReadyAfterHello
    BY <2>2, EmptyQueue DEF Init, ReadyAfterHello
  <2> QED
    BY <2>1, <2>3, <2>4 DEF ReadyInv
<1>2. TypeOK /\ SocketLife /\ ReadyInv /\ [Next]_vars => ReadyInv'
  BY AgentSideStep, HelloOnceStep, ReadyAfterHelloStep DEF ReadyInv
<1>3. TypeOK /\ OneLiveSocket /\ ReadyInv => ReadyAgentIsRegistered
  <2> SUFFICES ASSUME TypeOK, OneLiveSocket, ReadyInv, NEW d \in ready, gw[ws[d]] = "open"
               PROVE  conn[d] = ws[d]
    BY DEF ReadyAgentIsRegistered
  <2>1. d \in Device /\ ws[d] \in Socket /\ Owner(ws[d]) = d
    BY DEF ReadyInv, ReadyAfterHello, AgentSide, TypeOK
  <2>2. Authenticated(ws[d])
    BY DEF ReadyInv, ReadyAfterHello, Authenticated
  <2> QED
    BY <2>1, <2>2 DEF OneLiveSocket
<1>4. ChannelInv => TypeOK /\ SocketLife /\ OneLiveSocket
  BY DEF ChannelInv
<1> QED
  BY <1>1, <1>2, <1>3, <1>4, ChannelInvHolds, PTL DEF Spec
-----------------------------------------------------------------------------
(* What goes to an agent is its own.                                        *)

\* A frame, an execution or a cancellation belongs to a call that was made,
\* and is at the device that call was resolved to.
Routed ==
  /\ \A s \in Socket, r \in Request :
       /\ Command(r) \in Frames(toAg[s]) => r \in called /\ rdev[r] = Owner(s)
       /\ Cancel(r) \in Frames(toAg[s]) =>
            r \in called /\ rdev[r] = Owner(s) /\ outcome[r] = "TIMEOUT"
  /\ \A d \in Device : \A r \in inFlight[d] : r \in called /\ rdev[r] = d
  /\ \A d \in Device : \A r \in cancelled[d] :
       r \in called /\ rdev[r] = d /\ outcome[r] = "TIMEOUT"

\* A call is resolved once, and stays made.
LEMMA ResolvedOnce ==
  TypeOK /\ [Next]_vars => called \subseteq called' /\ \A r \in called : rdev'[r] = rdev[r]
<1> SUFFICES ASSUME TypeOK, [Next]_vars
             PROVE  called \subseteq called' /\ \A r \in called : rdev'[r] = rdev[r]
  OBVIOUS
<1> USE DEF vars, sockVars, regVars, callVars, agentVars, workVars, envVars
<1>1. ASSUME NEW s \in Socket, AgentStep(s) PROVE UNCHANGED <<called, rdev>>
  BY <1>1 DEF AgentStep, Dial, Accept, OnDisconnect, OnChallenge, OnReady, OnCancel, OnCommand
<1>2. ASSUME NEW d \in Device, Work(d) PROVE UNCHANGED <<called, rdev>>
  BY <1>2 DEF Work, SendStateReport, FinishWhileConnecting, Finish
<1>3. ASSUME NEW s \in Socket, GatewayStep(s) PROVE UNCHANGED <<called, rdev>>
  BY <1>3 DEF GatewayStep, OnHello, OnHelloVerified, OnHelloRefused, OnStamped, OnUnauthenticated,
          OnStateReport, OnSocketClosed, OnAck, OnResult
<1>4. ASSUME NEW r \in Request, Timer(r) PROVE UNCHANGED <<called, rdev>>
  BY <1>4 DEF Timer, AckTimeout, Deadline
<1>5. CASE Environment
  <2>1. ASSUME NEW r \in Request, NEW a \in Device \cup {AnyDevice}, SendCommand(r, a) \/ RefuseCommand(r, a)
        PROVE  called \subseteq called' /\ \A q \in called : rdev'[q] = rdev[q]
    <3> DEFINE d == ResolveDeviceId(a)
    <3>1. r \notin called /\ called' = called \cup {r} /\ rdev' = [rdev EXCEPT ![r] = d]
      BY <2>1 DEF SendCommand, RefuseCommand
    <3> HIDE DEF d
    <3> QED
      BY <3>1 DEF TypeOK
  <2>2. CASE \/ \E r \in Request : SendFails(r)
             \/ \E s \in Socket : AuthTimeout(s) \/ \E how \in Losses : LoseLink(s, how)
             \/ \E d \in Device : AgentCrash(d) \/ AgentRestart(d) \/ Revoke(d)
             \/ GatewayCrash
    BY <2>2 DEF SendFails, AuthTimeout, LoseLink, AgentCrash, AgentRestart, Revoke, GatewayCrash
  <2> QED
    BY <1>5, <2>1, <2>2 DEF Environment
<1>6. CASE UNCHANGED vars
  BY <1>6
<1> QED
  BY <1>1, <1>2, <1>3, <1>4, <1>5, <1>6 DEF Next

\* A step keeps the routing if whatever it adds is routed.
LEMMA RoutedKept ==
  ASSUME Routed, called \subseteq called', \A r \in called : rdev'[r] = rdev[r],
         \A r \in Request : outcome[r] = "TIMEOUT" => outcome'[r] = "TIMEOUT",
         \A s \in Socket, r \in Request :
           /\ Command(r) \in Frames(toAg'[s]) =>
                Command(r) \in Frames(toAg[s]) \/ (r \in called' /\ rdev'[r] = Owner(s))
           /\ Cancel(r) \in Frames(toAg'[s]) =>
                \/ Cancel(r) \in Frames(toAg[s])
                \/ (r \in called' /\ rdev'[r] = Owner(s) /\ outcome'[r] = "TIMEOUT"),
         \A d \in Device, r \in Request :
           /\ r \in inFlight'[d] => r \in inFlight[d] \/ (r \in called /\ rdev[r] = d)
           /\ r \in cancelled'[d] => r \in cancelled[d] \/ (r \in called /\ rdev[r] = d /\ outcome[r] = "TIMEOUT"),
         \A d \in Device : inFlight'[d] \subseteq Request /\ cancelled'[d] \subseteq Request
  PROVE  Routed'
<1>1. \A s \in Socket, r \in Request : Command(r) \in Frames(toAg'[s]) => r \in called' /\ rdev'[r] = Owner(s)
  BY DEF Routed
<1>2. \A s \in Socket, r \in Request :
        Cancel(r) \in Frames(toAg'[s]) => r \in called' /\ rdev'[r] = Owner(s) /\ outcome'[r] = "TIMEOUT"
  BY DEF Routed
<1>3. \A d \in Device : \A r \in inFlight'[d] : r \in called' /\ rdev'[r] = d
  BY DEF Routed
<1>4. \A d \in Device : \A r \in cancelled'[d] : r \in called' /\ rdev'[r] = d /\ outcome'[r] = "TIMEOUT"
  BY DEF Routed
<1> QED
  BY <1>1, <1>2, <1>3, <1>4 DEF Routed

\* What an agent's process keeps of a command: forgotten when it dies.
LEMMA AgentDiesWork ==
  ASSUME TypeOK, NEW d \in Device, AgentDies(d)
  PROVE  \A e \in Device : inFlight'[e] \subseteq inFlight[e] /\ cancelled'[e] \subseteq cancelled[e]
<1>1. inFlight' = [inFlight EXCEPT ![d] = {}] /\ cancelled' = [cancelled EXCEPT ![d] = {}]
  BY DEF AgentDies
<1> QED
  BY <1>1 DEF TypeOK

LEMMA RoutedStep ==
  TypeOK /\ TypeOK' /\ SocketLife /\ CallBook /\ TimersMatchPending /\ Routed /\ [Next]_vars => Routed'
<1> SUFFICES ASSUME TypeOK, TypeOK', SocketLife, CallBook, TimersMatchPending, Routed, [Next]_vars
             PROVE  Routed'
  OBVIOUS
<1> USE ConstantsAssumption, OwnerIsDevice, FrameTypes
    DEF vars, sockVars, regVars, callVars, agentVars, workVars, envVars
<1>1. /\ called \subseteq called' /\ \A r \in called : rdev'[r] = rdev[r]
      /\ \A r \in Request : outcome[r] = "TIMEOUT" => outcome'[r] = "TIMEOUT"
  BY ResolvedOnce, AnswerStep
<1>2. \A d \in Device : inFlight'[d] \subseteq Request /\ cancelled'[d] \subseteq Request
  BY DEF TypeOK
<1>3. /\ \A q, r \in Request : Command(q) # Cancel(r) /\ (Cancel(q) = Cancel(r) => q = r)
      /\ \A q, r \in Request : Command(q) = Command(r) => q = r
      /\ \A r \in Request : Command(r) # Challenge /\ Cancel(r) # Challenge /\ Command(r) # Ready /\ Cancel(r) # Ready
  BY DEF Command, Cancel, Challenge, Ready
\* Steps that lose frames and work, or change neither.
<1>4. ASSUME \A s \in Socket : Frames(toAg'[s]) \subseteq Frames(toAg[s]) \cup {Challenge, Ready},
             \A d \in Device : inFlight'[d] \subseteq inFlight[d] /\ cancelled'[d] \subseteq cancelled[d]
      PROVE  Routed'
  <2>1. \A s \in Socket, r \in Request :
          /\ Command(r) \in Frames(toAg'[s]) => Command(r) \in Frames(toAg[s])
          /\ Cancel(r) \in Frames(toAg'[s]) => Cancel(r) \in Frames(toAg[s])
    BY <1>3, <1>4
  <2> QED
    BY <1>1, <1>2, <1>4, <2>1, RoutedKept
<1>5. ASSUME UNCHANGED <<toAg, inFlight, cancelled>> PROVE Routed'
  BY <1>4, <1>5
<1>6. ASSUME NEW d \in Device, AgentDies(d) PROVE Routed'
  <2>1. \A s \in Socket : Frames(toAg'[s]) \subseteq Frames(toAg[s])
    BY <1>6, AgentDiesFrames, EmptyQueue
  <2> QED
    BY <1>4, <1>6, <2>1, AgentDiesWork
<1>7. ASSUME NEW s \in Socket, AgentStep(s) PROVE Routed'
  <2>1. CASE Dial(s) \/ OnDisconnect(s) \/ Accept(s)
    <3>1. \A t \in Socket : toAg'[t] = toAg[t] \/ toAg'[t] = <<>> \/ toAg'[t] = <<Challenge>>
      BY <2>1 DEF Dial, OnDisconnect, Accept, TypeOK
    <3>2. \A t \in Socket : Frames(toAg'[t]) \subseteq Frames(toAg[t]) \cup {Challenge, Ready}
      <4>1. Frames(<<>>) = {} /\ Frames(<<Challenge>>) = {Challenge}
        BY EmptyQueue, FramesOfPair
      <4> SUFFICES ASSUME NEW t \in Socket
                   PROVE Frames(toAg'[t]) \subseteq Frames(toAg[t]) \cup {Challenge, Ready}
        OBVIOUS
      <4>2. CASE toAg'[t] = toAg[t]
        BY <4>2
      <4>3. CASE toAg'[t] = <<>>
        BY <4>1, <4>3
      <4>4. CASE toAg'[t] = <<Challenge>>
        BY <4>1, <4>4
      <4> QED
        BY <3>1, <4>2, <4>3, <4>4
    <3>3. UNCHANGED <<inFlight, cancelled>>
      BY <2>1 DEF Dial, OnDisconnect, Accept
    <3> QED
      BY <1>4, <3>2, <3>3
  <2>2. CASE OnChallenge(s) \/ OnReady(s)
    <3>1. UNCHANGED <<inFlight, cancelled>> /\ \E f : AgentReads(s, f)
      BY <2>2 DEF OnChallenge, OnReady
    <3> QED
      BY <1>4, <3>1, AgentReadsFrames
  <2>3. ASSUME NEW r \in Request, OnCancel(s, r) PROVE Routed'
    <3>1. /\ Cancel(r) \in Frames(toAg[s])
          /\ \A t \in Socket : Frames(toAg'[t]) \subseteq Frames(toAg[t])
      BY <2>3, AgentReadsFrames DEF OnCancel
    <3>2. r \in called /\ rdev[r] = Owner(s) /\ outcome[r] = "TIMEOUT"
      BY <3>1 DEF Routed
    <3>3. inFlight' = inFlight /\ \A d \in Device : cancelled'[d] = cancelled[d] \/ (d = Owner(s) /\ cancelled'[d] = cancelled[d] \cup {r})
      BY <2>3 DEF OnCancel, TypeOK
    <3> QED
      BY <1>1, <1>2, <3>1, <3>2, <3>3, RoutedKept
  <2>4. ASSUME NEW r \in Request, OnCommand(s, r) PROVE Routed'
    <3>1. /\ Command(r) \in Frames(toAg[s])
          /\ \A t \in Socket : Frames(toAg'[t]) \subseteq Frames(toAg[t])
      BY <2>4, AgentReadsFrames DEF OnCommand
    <3>2. r \in called /\ rdev[r] = Owner(s)
      BY <3>1 DEF Routed
    <3>3. \A d \in Device : cancelled'[d] \subseteq cancelled[d]
      <4>1. cancelled' = cancelled \/ cancelled' = [cancelled EXCEPT ![Owner(s)] = @ \ {r}]
        BY <2>4 DEF OnCommand
      <4>2. CASE cancelled' = cancelled
        BY <4>2
      <4>3. CASE cancelled' = [cancelled EXCEPT ![Owner(s)] = @ \ {r}]
        BY <4>3 DEF TypeOK
      <4> QED
        BY <4>1, <4>2, <4>3
    <3>4. \A d \in Device : inFlight'[d] = inFlight[d] \/ (d = Owner(s) /\ inFlight'[d] = inFlight[d] \cup {r})
      BY <2>4 DEF OnCommand, TypeOK
    <3> QED
      BY <1>1, <1>2, <3>1, <3>2, <3>3, <3>4, RoutedKept
  <2> QED
    BY <1>7, <2>1, <2>2, <2>3, <2>4 DEF AgentStep
<1>8. ASSUME NEW d \in Device, Work(d) PROVE Routed'
  <2>1. CASE SendStateReport(d)
    BY <1>5, <2>1 DEF SendStateReport
  <2>2. ASSUME NEW r \in Request, FinishWhileConnecting(d, r) PROVE Routed'
    BY <1>6, <2>2 DEF FinishWhileConnecting
  <2>3. ASSUME NEW r \in Request, NEW k \in ResultStatus, Finish(d, r, k) PROVE Routed'
    <3>1. toAg' = toAg /\ \A e \in Device : inFlight'[e] \subseteq inFlight[e] /\ cancelled'[e] \subseteq cancelled[e]
      BY <2>3 DEF Finish, Concludes, TypeOK
    <3> QED
      BY <1>4, <3>1
  <2> QED
    BY <1>8, <2>1, <2>2, <2>3 DEF Work
<1>9. ASSUME NEW s \in Socket, GatewayStep(s) PROVE Routed'
  <2>1. CASE OnStamped(s)
    <3>1. UNCHANGED <<inFlight, cancelled>> /\ GatewaySends(s, Ready)
      BY <2>1 DEF OnStamped
    <3>2. \A t \in Socket : Frames(toAg'[t]) \subseteq Frames(toAg[t]) \cup {Challenge, Ready}
      BY <3>1, GatewaySendsFrames
    <3> QED
      BY <1>4, <3>1, <3>2
  <2>2. CASE \/ OnHello(s) \/ OnHelloVerified(s) \/ OnHelloRefused(s) \/ OnUnauthenticated(s)
             \/ OnStateReport(s) \/ OnSocketClosed(s)
             \/ \E r \in Request : OnAck(s, r) \/ \E k \in ResultStatus : OnResult(s, r, k)
    BY <1>5, <2>2 DEF OnHello, OnHelloVerified, OnHelloRefused, OnUnauthenticated, OnStateReport,
            OnSocketClosed, OnAck, OnResult
  <2> QED
    BY <1>9, <2>1, <2>2 DEF GatewayStep
<1>10. ASSUME NEW r \in Request, Timer(r) PROVE Routed'
  <2>1. CASE AckTimeout(r)
    BY <1>5, <2>1 DEF AckTimeout
  <2>2. CASE Deadline(r) /\ toAg' = toAg
    BY <1>5, <2>2 DEF Deadline
  <2>3. CASE Deadline(r) /\ toAg' # toAg
    <3>1. r \in pending /\ r \in called /\ rdev[r] \in Device /\ outcome'[r] = "TIMEOUT"
      BY <2>3 DEF Deadline, Settle, TimersMatchPending, CallBook
    <3>2. /\ conn[rdev[r]] # NoSocket /\ GatewaySends(conn[rdev[r]], Cancel(r))
          /\ UNCHANGED <<inFlight, cancelled>>
      BY <2>3 DEF Deadline
    <3>3. Owner(conn[rdev[r]]) = rdev[r] /\ rdev'[r] = rdev[r] /\ r \in called'
      BY <1>1, <3>1, <3>2 DEF SocketLife
    <3>4. \A t \in Socket : \/ toAg'[t] = toAg[t]
                            \/ t = conn[rdev[r]] /\ Frames(toAg'[t]) = Frames(toAg[t]) \cup {Cancel(r)}
      BY <3>2, GatewaySendsFrames
    <3>5. \A t \in Socket, q \in Request :
            /\ Command(q) \in Frames(toAg'[t]) => Command(q) \in Frames(toAg[t])
            /\ Cancel(q) \in Frames(toAg'[t]) =>
                 \/ Cancel(q) \in Frames(toAg[t])
                 \/ (q \in called' /\ rdev'[q] = Owner(t) /\ outcome'[q] = "TIMEOUT")
      BY <1>3, <3>1, <3>3, <3>4
    <3> QED
      BY <1>1, <1>2, <3>2, <3>5, RoutedKept
  <2> QED
    BY <1>10, <2>1, <2>2, <2>3 DEF Timer
<1>11. CASE Environment
  <2>1. ASSUME NEW r \in Request, NEW a \in Device \cup {AnyDevice}, SendCommand(r, a) PROVE Routed'
    <3> DEFINE d == ResolveDeviceId(a)
    <3>1. /\ r \notin called /\ called' = called \cup {r} /\ rdev' = [rdev EXCEPT ![r] = d]
          /\ d \in Device /\ conn[d] # NoSocket /\ GatewaySends(conn[d], Command(r))
          /\ UNCHANGED <<inFlight, cancelled>>
      BY <2>1 DEF SendCommand, Online
    <3> HIDE DEF d
    <3>2. Owner(conn[d]) = d /\ rdev'[r] = d /\ r \in called'
      BY <3>1 DEF SocketLife, TypeOK
    <3>3. \A t \in Socket : \/ toAg'[t] = toAg[t]
                            \/ t = conn[d] /\ Frames(toAg'[t]) = Frames(toAg[t]) \cup {Command(r)}
      BY <3>1, GatewaySendsFrames
    <3>4. \A t \in Socket, q \in Request :
            /\ Command(q) \in Frames(toAg'[t]) =>
                 Command(q) \in Frames(toAg[t]) \/ (q \in called' /\ rdev'[q] = Owner(t))
            /\ Cancel(q) \in Frames(toAg'[t]) => Cancel(q) \in Frames(toAg[t])
      BY <1>3, <3>2, <3>3
    <3> QED
      BY <1>1, <1>2, <3>1, <3>4, RoutedKept
  <2>2. ASSUME NEW d \in Device, AgentCrash(d) PROVE Routed'
    BY <1>6, <2>2 DEF AgentCrash
  <2>3. ASSUME NEW s \in Socket, NEW how \in Losses, LoseLink(s, how) PROVE Routed'
    <3>1. UNCHANGED <<inFlight, cancelled>> /\ \A t \in Socket : toAg'[t] = toAg[t] \/ toAg'[t] = <<>>
      BY <2>3 DEF LoseLink, TypeOK
    <3> QED
      BY <1>4, <3>1, EmptyQueue
  <2>4. CASE GatewayCrash
    <3>1. UNCHANGED <<inFlight, cancelled>> /\ \A t \in Socket : toAg'[t] = <<>>
      BY <2>4 DEF GatewayCrash
    <3> QED
      BY <1>4, <3>1, EmptyQueue
  <2>5. CASE \/ \E r \in Request : \/ SendFails(r)
                                   \/ \E a \in Device \cup {AnyDevice} : RefuseCommand(r, a)
             \/ \E s \in Socket : AuthTimeout(s)
             \/ \E d \in Device : AgentRestart(d) \/ Revoke(d)
    BY <1>5, <2>5 DEF SendFails, RefuseCommand, AuthTimeout, AgentRestart, Revoke
  <2> QED
    BY <1>11, <2>1, <2>2, <2>3, <2>4, <2>5 DEF Environment
<1>12. CASE UNCHANGED vars
  BY <1>5, <1>12
<1> QED
  BY <1>7, <1>8, <1>9, <1>10, <1>11, <1>12 DEF Next

LEMMA RoutedHolds == Spec => []Routed
<1>1. Init => Routed
  <2> SUFFICES ASSUME Init PROVE Routed
    OBVIOUS
  <2>1. \A s \in Socket : toAg[s] = <<>>
    BY DEF Init
  <2>2. \A d \in Device : inFlight[d] = {} /\ cancelled[d] = {}
    BY DEF Init
  <2> QED
    BY <2>1, <2>2, EmptyQueue DEF Routed
<1>2. ChannelInv /\ ChannelInv' /\ Routed /\ [Next]_vars => Routed'
  BY RoutedStep DEF ChannelInv
<1> QED
  BY <1>1, <1>2, ChannelInvHolds, PTL DEF Spec

\* NoStrayCommand: a command or cancel is only ever on a socket, or in the hands, of the
\* device its call was resolved to (registry.ts:301), and an agent is told to cancel only
\* what the gateway gave up on at its deadline, never an answered call.
THEOREM NoStrayCommandHolds == Spec => []NoStrayCommand
<1>1. Routed => NoStrayCommand
  <2> SUFFICES ASSUME Routed PROVE NoStrayCommand
    OBVIOUS
  <2>1. \A s \in Socket : \A i \in DOMAIN toAg[s] : toAg[s][i] \in Frames(toAg[s])
    BY DEF Frames
  <2> QED
    BY <2>1 DEF Routed, NoStrayCommand
<1> QED
  BY <1>1, RoutedHolds, PTL
-----------------------------------------------------------------------------
(* The channel keeps the contract of CallContract.                          *)

\* A command in flight has begun, and a result that is on its way or kept for
\* replay belongs to an execution that is over, unless its caller has already
\* been told.
Over(r) == outcome[r] # "none" \/ (execs[r] # 0 /\ \A d \in Device : r \notin inFlight[d])
WorkInv ==
  /\ \A d \in Device : \A r \in inFlight[d] : execs[r] # 0
  /\ \A s \in Socket, r \in Request, k \in ResultStatus :
       Result(r, k) \in Frames(toGw[s]) => Over(r)
  /\ \A d \in Device, r \in Request : recent[d][r] # "none" => Over(r)

\* A step keeps that if what it adds is over, and what it begins is new.
LEMMA WorkKept ==
  ASSUME WorkInv, \A d \in Device : inFlight'[d] \subseteq Request,
         \A r \in Request : outcome[r] # "none" => outcome'[r] # "none",
         \A r \in Request : execs[r] # 0 => execs'[r] # 0,
         \A d \in Device, r \in Request :
           r \in inFlight'[d] => r \in inFlight[d] \/ (execs[r] = 0 /\ execs'[r] # 0),
         \A s \in Socket, r \in Request, k \in ResultStatus :
           Result(r, k) \in Frames(toGw'[s]) =>
             Result(r, k) \in Frames(toGw[s]) \/ Over(r) \/ Over(r)',
         \A d \in Device, r \in Request :
           recent'[d][r] # "none" => recent[d][r] # "none" \/ Over(r) \/ Over(r)'
  PROVE  WorkInv'
<1>1. \A r \in Request : Over(r) => Over(r)'
  BY DEF Over
<1>2. \A d \in Device : \A r \in inFlight'[d] : execs'[r] # 0
  BY DEF WorkInv
<1>3. \A s \in Socket, r \in Request, k \in ResultStatus : Result(r, k) \in Frames(toGw'[s]) => Over(r)'
  BY <1>1 DEF WorkInv
<1>4. \A d \in Device, r \in Request : recent'[d][r] # "none" => Over(r)'
  BY <1>1 DEF WorkInv
<1> QED
  BY <1>2, <1>3, <1>4 DEF WorkInv

LEMMA AgentDiesRecent ==
  ASSUME TypeOK, NEW d \in Device, AgentDies(d)
  PROVE  \A e \in Device, r \in Request : recent'[e][r] = recent[e][r] \/ recent'[e][r] = "none"
<1> DEFINE empty == [r \in Request |-> "none"]
<1>1. recent' = [recent EXCEPT ![d] = empty] /\ \A r \in Request : empty[r] = "none"
  BY DEF AgentDies
<1> HIDE DEF empty
<1> QED
  BY <1>1 DEF TypeOK

\* Concluding an execution, here or by a refusal, changes one entry.
LEMMA RecentSet ==
  ASSUME TypeOK, NEW d \in Device, NEW r \in Request, NEW k, recent' = [recent EXCEPT ![d][r] = k]
  PROVE  \A e \in Device, q \in Request : recent'[e][q] = recent[e][q] \/ (e = d /\ q = r)
<1> DEFINE row == [recent[d] EXCEPT ![r] = k]
<1>1. recent' = [recent EXCEPT ![d] = row]
  OBVIOUS
<1>2. \A q \in Request : row[q] = recent[d][q] \/ q = r
  BY DEF TypeOK
<1> HIDE DEF row
<1> QED
  BY <1>1, <1>2 DEF TypeOK

LEMMA WorkStep ==
  ChannelInv /\ ChannelInv' /\ Routed /\ WorkInv /\ [Next]_vars => WorkInv'
<1> SUFFICES ASSUME ChannelInv, ChannelInv', Routed, WorkInv, [Next]_vars
             PROVE  WorkInv'
  OBVIOUS
<1> USE ConstantsAssumption, OwnerIsDevice, FrameTypes
    DEF vars, sockVars, regVars, callVars, agentVars, workVars, envVars
<1>1. TypeOK /\ TypeOK' /\ CommandOnce /\ \A r \in Request : outcome[r] # "none" => outcome'[r] # "none"
  BY AnswerStep DEF ChannelInv
<1>2. \A d \in Device : inFlight'[d] \subseteq Request
  BY <1>1 DEF TypeOK
<1>3. \A r \in Request, k \in ResultStatus : Result(r, k) \notin {Hello, StateReport, Ack(r)}
      /\ \A q \in Request : Result(r, k) # Ack(q) /\ \A l \in ResultStatus : Result(q, l) = Result(r, k) => q = r
  BY DEF Result, Hello, StateReport, Ack
\* Steps that lose results and work, or send frames that are no results.
<1>4. ASSUME \A s \in Socket, r \in Request, k \in ResultStatus :
               Result(r, k) \in Frames(toGw'[s]) => Result(r, k) \in Frames(toGw[s]),
             execs' = execs, \A d \in Device : inFlight'[d] \subseteq inFlight[d],
             \A d \in Device, r \in Request : recent'[d][r] = recent[d][r] \/ recent'[d][r] = "none"
      PROVE  WorkInv'
  BY <1>1, <1>2, <1>4, WorkKept
<1>5. ASSUME UNCHANGED <<execs, inFlight, recent>>,
             \A s \in Socket : toGw'[s] = toGw[s] \/ toGw'[s] = <<>>
      PROVE  WorkInv'
  <2>1. \A s \in Socket : Frames(toGw'[s]) \subseteq Frames(toGw[s])
    BY <1>5, EmptyQueue
  <2> QED
    BY <1>4, <1>5, <2>1
<1>6. ASSUME NEW d \in Device, AgentDies(d), execs' = execs PROVE WorkInv'
  <2>1. \A s \in Socket : Frames(toGw'[s]) \subseteq Frames(toGw[s])
    BY <1>1, <1>6, AgentDiesFrames, EmptyQueue
  <2> QED
    BY <1>1, <1>4, <1>6, <2>1, AgentDiesWork, AgentDiesRecent
<1>7. ASSUME NEW s \in Socket, NEW f \in {Hello, StateReport}, AgentSends(s, <<f>>),
             UNCHANGED <<execs, inFlight, recent>>
      PROVE  WorkInv'
  <2>1. PICK p \in Seq(ToGatewayFrame) : p = <<f>> /\ Frames(p) = {f}
    BY FewFrames
  <2>2. AgentSends(s, p)
    BY <1>7, <2>1
  <2>3. \A t \in Socket : Frames(toGw'[t]) = Frames(toGw[t]) \/ Frames(toGw'[t]) = Frames(toGw[t]) \cup {f}
    BY <1>1, <2>1, <2>2, AgentSendsFrames
  <2>4. \A r \in Request, k \in ResultStatus : Result(r, k) # f
    BY <1>3
  <2> QED
    BY <1>4, <1>7, <2>3, <2>4
<1>8. ASSUME NEW s \in Socket, AgentStep(s) PROVE WorkInv'
  <2>1. CASE Dial(s) \/ Accept(s) \/ OnDisconnect(s) \/ OnReady(s) \/ \E r \in Request : OnCancel(s, r)
    <3>1. UNCHANGED <<execs, inFlight, recent>>
      BY <2>1 DEF Dial, Accept, OnDisconnect, OnReady, OnCancel
    <3>2. \A t \in Socket : toGw'[t] = toGw[t] \/ toGw'[t] = <<>>
      BY <1>1, <2>1 DEF Dial, Accept, OnDisconnect, OnReady, OnCancel, TypeOK
    <3> QED
      BY <1>5, <3>1, <3>2
  <2>2. CASE OnChallenge(s)
    BY <1>7, <2>2 DEF OnChallenge
  <2>3. ASSUME NEW r \in Request, OnCommand(s, r) PROVE WorkInv'
    <3> DEFINE d == Owner(s)
    <3>1. Command(r) \in Frames(toAg[s])
      BY <1>1, <2>3, AgentReadsFrames DEF OnCommand
    <3>2. execs[r] = 0
      BY <1>1, <3>1 DEF CommandOnce, Frames
    <3>3. recent[d][r] # "none" \/ r \in cancelled[d] => Over(r)
      BY DEF WorkInv, Routed, Over
    <3>4. \A t \in Socket, q \in Request, k \in ResultStatus :
            Result(q, k) \in Frames(toGw'[t]) => Result(q, k) \in Frames(toGw[t]) \/ Over(q)
      <4>1. CASE toGw' = toGw
        BY <4>1
      <4>2. CASE toGw' # toGw
        <5>1. PICK p \in Seq(ToGatewayFrame) :
                /\ AgentSends(s, p)
                /\ Frames(p) \subseteq {Ack(r)} \cup {Result(r, k) : k \in ResultStatus}
                /\ \A k \in ResultStatus : Result(r, k) \in Frames(p) => recent[d][r] # "none" \/ r \in cancelled[d]
          BY <1>1, <2>3, <4>2, CommandSends
        <5>2. \A q \in Request, k \in ResultStatus : Result(q, k) \in Frames(p) => q = r /\ Over(r)
          BY <1>3, <3>3, <5>1
        <5>3. \A t \in Socket : Frames(toGw'[t]) \subseteq Frames(toGw[t]) \cup Frames(p)
          BY <1>1, <5>1, AgentSendsFrames
        <5> QED
          BY <5>2, <5>3
      <4> QED
        BY <4>1, <4>2
    <3>5. \A e \in Device, q \in Request : recent'[e][q] # "none" => recent[e][q] # "none" \/ Over(q)
      <4>1. recent' = recent \/ (recent' = [recent EXCEPT ![d][r] = "error"] /\ r \in cancelled[d])
        BY <2>3 DEF OnCommand
      <4>2. CASE recent' = recent
        BY <4>2
      <4>3. CASE recent' = [recent EXCEPT ![d][r] = "error"] /\ r \in cancelled[d]
        BY <1>1, <3>3, <4>3, RecentSet
      <4> QED
        BY <4>1, <4>2, <4>3
    <3>6. \/ UNCHANGED <<inFlight, execs>>
          \/ /\ inFlight' = [inFlight EXCEPT ![d] = @ \cup {r}]
             /\ execs' = [execs EXCEPT ![r] = @ + 1]
      BY <2>3 DEF OnCommand
    <3> HIDE DEF d
    <3>7. /\ \A q \in Request : execs[q] # 0 => execs'[q] # 0
          /\ \A e \in Device, q \in Request :
               q \in inFlight'[e] => q \in inFlight[e] \/ (execs[q] = 0 /\ execs'[q] # 0)
      <4>1. CASE UNCHANGED <<inFlight, execs>>
        BY <4>1
      <4>2. CASE inFlight' = [inFlight EXCEPT ![d] = @ \cup {r}] /\ execs' = [execs EXCEPT ![r] = @ + 1]
        <5>1. \A q \in Request : execs'[q] = IF q = r THEN 1 ELSE execs[q]
          BY <1>1, <3>2, <4>2 DEF TypeOK
        <5>2. \A e \in Device : inFlight'[e] \subseteq inFlight[e] \cup {r}
          BY <1>1, <4>2 DEF TypeOK
        <5> QED
          BY <3>2, <5>1, <5>2
      <4> QED
        BY <3>6, <4>1, <4>2
    <3> QED
      BY <1>1, <1>2, <3>4, <3>5, <3>7, WorkKept
  <2> QED
    BY <1>8, <2>1, <2>2, <2>3 DEF AgentStep
<1>9. ASSUME NEW d \in Device, Work(d) PROVE WorkInv'
  <2>1. CASE SendStateReport(d)
    <3>1. CASE ws[d] # NoSocket /\ ag[ws[d]] = "open"
      <4>1. ws[d] \in Socket /\ AgentSends(ws[d], <<StateReport>>) /\ UNCHANGED <<execs, inFlight, recent>>
        BY <1>1, <2>1, <3>1 DEF SendStateReport, TypeOK
      <4> QED
        BY <1>7, <4>1
    <3>2. CASE ~ (ws[d] # NoSocket /\ ag[ws[d]] = "open")
      BY <1>5, <2>1, <3>2 DEF SendStateReport
    <3> QED
      BY <3>1, <3>2
  <2>2. ASSUME NEW r \in Request, FinishWhileConnecting(d, r) PROVE WorkInv'
    BY <1>6, <2>2 DEF FinishWhileConnecting
  <2>3. ASSUME NEW r \in Request, NEW k \in ResultStatus, Finish(d, r, k) PROVE WorkInv'
    <3>1. /\ r \in inFlight[d] /\ execs' = execs
          /\ inFlight' = [inFlight EXCEPT ![d] = @ \ {r}] /\ recent' = [recent EXCEPT ![d][r] = k]
      BY <2>3 DEF Finish, Concludes
    <3>2. \A e \in Device : inFlight'[e] = IF e = d THEN inFlight[d] \ {r} ELSE inFlight[e]
      BY <1>1, <3>1 DEF TypeOK
    <3>3. Over(r)'
      <4>1. \A e \in Device : r \in inFlight[e] => e = d
        BY <3>1 DEF Routed
      <4>2. execs'[r] # 0
        BY <3>1 DEF WorkInv
      <4> QED
        BY <3>2, <4>1, <4>2 DEF Over
    <3>4. \A t \in Socket, q \in Request, l \in ResultStatus :
            Result(q, l) \in Frames(toGw'[t]) => Result(q, l) \in Frames(toGw[t]) \/ q = r
      <4>1. CASE ws[d] = NoSocket
        BY <2>3, <4>1 DEF Finish
      <4>2. CASE ws[d] # NoSocket
        <5>1. ws[d] \in Socket /\ AgentSends(ws[d], <<Result(r, k)>>)
          BY <1>1, <2>3, <4>2 DEF Finish, TypeOK
        <5>2. PICK p \in Seq(ToGatewayFrame) : p = <<Result(r, k)>> /\ Frames(p) = {Result(r, k)}
          BY FewFrames
        <5>3. AgentSends(ws[d], p)
          BY <5>1, <5>2
        <5>4. \A t \in Socket : Frames(toGw'[t]) \subseteq Frames(toGw[t]) \cup {Result(r, k)}
          BY <1>1, <5>1, <5>2, <5>3, AgentSendsFrames
        <5> QED
          BY <1>3, <5>4
      <4> QED
        BY <4>1, <4>2
    <3>5. \A e \in Device, q \in Request : recent'[e][q] # "none" => recent[e][q] # "none" \/ q = r
      BY <1>1, <3>1, RecentSet
    <3> QED
      BY <1>1, <1>2, <3>1, <3>2, <3>3, <3>4, <3>5, WorkKept
  <2> QED
    BY <1>9, <2>1, <2>2, <2>3 DEF Work
<1>10. ASSUME NEW s \in Socket, GatewayStep(s) PROVE WorkInv'
  <2>1. CASE OnHelloVerified(s) \/ OnHelloRefused(s) \/ OnStamped(s)
    BY <1>5, <2>1 DEF OnHelloVerified, OnHelloRefused, OnStamped
  <2>2. CASE OnSocketClosed(s)
    BY <1>1, <1>5, <2>2 DEF OnSocketClosed, TypeOK
  <2>3. CASE \/ OnHello(s) \/ OnUnauthenticated(s) \/ OnStateReport(s)
             \/ \E r \in Request : OnAck(s, r) \/ \E k \in ResultStatus : OnResult(s, r, k)
    <3>1. UNCHANGED <<execs, inFlight, recent>> /\ GatewayReads(s)
      BY <2>3 DEF OnHello, OnUnauthenticated, OnStateReport, OnAck, OnResult
    <3>2. \A t \in Socket : Frames(toGw'[t]) \subseteq Frames(toGw[t])
      BY <1>1, <3>1, GatewayReadsFrames
    <3> QED
      BY <1>4, <3>1, <3>2
  <2> QED
    BY <1>10, <2>1, <2>2, <2>3 DEF GatewayStep
<1>11. ASSUME NEW r \in Request, Timer(r) PROVE WorkInv'
  BY <1>5, <1>11 DEF Timer, AckTimeout, Deadline
<1>12. CASE Environment
  <2>1. ASSUME NEW d \in Device, AgentCrash(d) PROVE WorkInv'
    BY <1>6, <2>1 DEF AgentCrash
  <2>2. ASSUME NEW s \in Socket, NEW how \in Losses, LoseLink(s, how) PROVE WorkInv'
    BY <1>1, <1>5, <2>2 DEF LoseLink, TypeOK
  <2>3. CASE GatewayCrash
    BY <1>5, <2>3 DEF GatewayCrash
  <2>4. CASE \/ \E r \in Request : \/ SendFails(r)
                                   \/ \E a \in Device \cup {AnyDevice} : SendCommand(r, a) \/ RefuseCommand(r, a)
             \/ \E s \in Socket : AuthTimeout(s)
             \/ \E d \in Device : AgentRestart(d) \/ Revoke(d)
    BY ZenonT(40), <1>5, <2>4 DEF SendFails, SendCommand, RefuseCommand, AuthTimeout, AgentRestart, Revoke
  <2> QED
    BY <1>12, <2>1, <2>2, <2>3, <2>4 DEF Environment
<1>13. CASE UNCHANGED vars
  BY <1>5, <1>13
<1> QED
  BY <1>8, <1>9, <1>10, <1>11, <1>12, <1>13 DEF Next
\* The abstract state, as the channel's own.
Accepted == {r \in Request : sentOn[r] # NoSocket}
WorkOf == [r \in Request |->
             IF execs[r] = 0 THEN "none"
             ELSE IF \E d \in Device : r \in inFlight[d] THEN "running" ELSE "over"]
ContractMoves ==
  \/ UNCHANGED <<Accepted, outcome, WorkOf>>
  \/ \E r \in Request :
       \/ /\ r \notin Accepted /\ outcome[r] = "none"
          /\ outcome' = [outcome EXCEPT ![r] = "DEVICE_OFFLINE"] /\ UNCHANGED <<Accepted, WorkOf>>
       \/ /\ r \notin Accepted /\ outcome[r] = "none"
          /\ Accepted' = Accepted \cup {r} /\ UNCHANGED <<outcome, WorkOf>>
       \/ /\ r \in Accepted /\ WorkOf[r] = "none"
          /\ WorkOf' = [WorkOf EXCEPT ![r] = "running"] /\ UNCHANGED <<Accepted, outcome>>
       \/ \E k \in ResultStatus :
            /\ r \in Accepted /\ outcome[r] = "none" /\ WorkOf[r] = "over"
            /\ outcome' = [outcome EXCEPT ![r] = k] /\ UNCHANGED <<Accepted, WorkOf>>
  \/ \E R \in SUBSET Request :
       \/ /\ \A r \in R : WorkOf[r] = "running"
          /\ WorkOf' = [r \in Request |-> IF r \in R THEN "over" ELSE WorkOf[r]]
          /\ UNCHANGED <<Accepted, outcome>>
       \/ \E f \in Failure :
            /\ \A r \in R : r \in Accepted /\ outcome[r] = "none"
            /\ outcome' = [r \in Request |-> IF r \in R THEN f ELSE outcome[r]]
            /\ UNCHANGED <<Accepted, WorkOf>>

LEMMA MovesAreSteps == ContractMoves => [Contract!Next]_(Contract!vars)
BY DEF ContractMoves, Accepted, WorkOf, Contract!Next, Contract!vars, Contract!Refuse, Contract!Accept,
       Contract!Begin, Contract!End, Contract!Answer, Contract!Fail, Contract!Untold

\* Work that no step touches is where it was, and work that leaves an agent
\* is over.
LEMMA WorkEnds ==
  ASSUME TypeOK, TypeOK', WorkInv, Routed, execs' = execs,
         NEW d \in Device, NEW R \in SUBSET inFlight[d],
         \A e \in Device : inFlight'[e] = IF e = d THEN inFlight[d] \ R ELSE inFlight[e]
  PROVE  /\ R \in SUBSET Request /\ \A r \in R : WorkOf[r] = "running"
         /\ WorkOf' = [r \in Request |-> IF r \in R THEN "over" ELSE WorkOf[r]]
<1>1. R \in SUBSET Request
  BY DEF TypeOK
<1>2. \A r \in R : execs[r] # 0 /\ \A e \in Device : r \in inFlight[e] => e = d
  BY DEF WorkInv, Routed
<1>3. \A r \in R : WorkOf[r] = "running"
  BY <1>1, <1>2 DEF WorkOf
<1>4. \A r \in Request :
        (\E e \in Device : r \in inFlight'[e]) <=> (r \notin R /\ \E e \in Device : r \in inFlight[e])
  BY <1>2
<1>5. WorkOf' = [r \in Request |->
             IF execs[r] = 0 THEN "none"
             ELSE IF \E e \in Device : r \in inFlight'[e] THEN "running" ELSE "over"]
  BY DEF WorkOf
<1>6. \A r \in Request : WorkOf'[r] = IF r \in R THEN "over" ELSE WorkOf[r]
  BY <1>2, <1>4, <1>5 DEF WorkOf
<1> QED
  BY <1>1, <1>3, <1>5, <1>6

LEMMA ContractStep ==
  ChannelInv /\ ChannelInv' /\ Routed /\ WorkInv /\ [Next]_vars => ContractMoves
<1> SUFFICES ASSUME ChannelInv, ChannelInv', Routed, WorkInv, [Next]_vars
             PROVE  ContractMoves
  OBVIOUS
<1> USE ConstantsAssumption, OwnerIsDevice
    DEF vars, sockVars, regVars, callVars, agentVars, workVars, envVars
<1>1. TypeOK /\ TypeOK' /\ CommandOnce /\ CallBook /\ TimersMatchPending
  BY DEF ChannelInv
<1>2. ASSUME UNCHANGED <<sentOn, outcome, execs, inFlight>> PROVE ContractMoves
  BY <1>2 DEF ContractMoves, Accepted, WorkOf
\* Pending calls that fail, or none, in one step.
<1>3. ASSUME NEW R \in SUBSET pending, NEW f \in Failure, Settle(R, f), UNCHANGED <<sentOn, execs, inFlight>>
      PROVE  ContractMoves
  <2>1. R \in SUBSET Request /\ \A r \in R : r \in Accepted /\ outcome[r] = "none"
    <3>1. pending \subseteq Request /\ R \subseteq pending
      BY <1>1, <1>3 DEF TypeOK
    <3>2. ASSUME NEW r \in R PROVE r \in Accepted /\ outcome[r] = "none"
      <4>1. r \in Request /\ r \in pending
        BY <3>1, <3>2
      <4>2. outcome[r] = "none" /\ sentOn[r] \in Socket
        BY <1>1, <4>1 DEF CallBook
      <4> QED
        BY <4>1, <4>2 DEF Accepted
    <3> QED
      BY <3>1, <3>2
  <2>2. outcome' = [r \in Request |-> IF r \in R THEN f ELSE outcome[r]]
    BY <1>3 DEF Settle
  <2>3. UNCHANGED <<Accepted, WorkOf>>
    BY <1>3 DEF Accepted, WorkOf
  <2> QED
    BY <2>1, <2>2, <2>3 DEF ContractMoves
\* Work that leaves one agent.
<1>4. ASSUME NEW d \in Device, NEW R \in SUBSET inFlight[d], UNCHANGED <<sentOn, outcome, execs>>,
             inFlight' = [inFlight EXCEPT ![d] = inFlight[d] \ R]
      PROVE  ContractMoves
  <2>1. \A e \in Device : inFlight'[e] = IF e = d THEN inFlight[d] \ R ELSE inFlight[e]
    BY <1>1, <1>4 DEF TypeOK
  <2>2. /\ R \in SUBSET Request /\ \A r \in R : WorkOf[r] = "running"
        /\ WorkOf' = [r \in Request |-> IF r \in R THEN "over" ELSE WorkOf[r]]
    BY <1>1, <1>4, <2>1, WorkEnds
  <2>3. UNCHANGED <<Accepted, outcome>>
    BY <1>4 DEF Accepted
  <2> QED
    BY <2>2, <2>3 DEF ContractMoves
<1>5. ASSUME NEW d \in Device, AgentDies(d), UNCHANGED <<sentOn, outcome, execs>> PROVE ContractMoves
  <2>1. inFlight' = [inFlight EXCEPT ![d] = inFlight[d] \ inFlight[d]]
    BY <1>5 DEF AgentDies
  <2> QED
    BY <1>4, <1>5, <2>1
<1>6. ASSUME NEW s \in Socket, AgentStep(s) PROVE ContractMoves
  <2>1. CASE \/ Dial(s) \/ Accept(s) \/ OnDisconnect(s) \/ OnChallenge(s) \/ OnReady(s)
             \/ \E r \in Request : OnCancel(s, r)
    BY <1>2, <2>1 DEF Dial, Accept, OnDisconnect, OnChallenge, OnReady, OnCancel
  <2>2. ASSUME NEW r \in Request, OnCommand(s, r) PROVE ContractMoves
    <3> DEFINE d == Owner(s)
    <3>1. Command(r) \in Frames(toAg[s])
      BY <1>1, <2>2, AgentReadsFrames DEF OnCommand
    <3>2. execs[r] = 0 /\ sentOn[r] = s /\ UNCHANGED <<sentOn, outcome>>
      BY <1>1, <2>2, <3>1 DEF CommandOnce, Frames, OnCommand
    <3>3. \/ UNCHANGED <<inFlight, execs>>
          \/ /\ inFlight' = [inFlight EXCEPT ![d] = @ \cup {r}]
             /\ execs' = [execs EXCEPT ![r] = @ + 1]
      BY <2>2 DEF OnCommand
    <3> HIDE DEF d
    <3>4. CASE UNCHANGED <<inFlight, execs>>
      BY <1>2, <3>2, <3>4
    <3>5. CASE inFlight' = [inFlight EXCEPT ![d] = @ \cup {r}] /\ execs' = [execs EXCEPT ![r] = @ + 1]
      <4>1. \A q \in Request : execs'[q] = IF q = r THEN 1 ELSE execs[q]
        BY <1>1, <3>2, <3>5 DEF TypeOK
      <4>2. d \in Device /\ \A e \in Device : inFlight'[e] = IF e = d THEN inFlight[d] \cup {r} ELSE inFlight[e]
        BY <1>1, <3>5 DEF TypeOK, d
      <4>3. \A q \in Request : (\E e \in Device : q \in inFlight'[e]) <=> (q = r \/ \E e \in Device : q \in inFlight[e])
        BY <4>2
      <4>4. WorkOf' = [q \in Request |->
               IF execs'[q] = 0 THEN "none"
               ELSE IF \E e \in Device : q \in inFlight'[e] THEN "running" ELSE "over"]
        BY DEF WorkOf
      <4>5. WorkOf[r] = "none" /\ \A q \in Request : WorkOf'[q] = IF q = r THEN "running" ELSE WorkOf[q]
        BY <3>2, <4>1, <4>3, <4>4 DEF WorkOf
      <4>6. WorkOf' = [WorkOf EXCEPT ![r] = "running"]
        BY <4>4, <4>5 DEF WorkOf
      <4>7. r \in Accepted /\ UNCHANGED <<Accepted, outcome>>
        BY <3>2 DEF Accepted
      <4> QED
        BY <4>5, <4>6, <4>7 DEF ContractMoves
    <3> QED
      BY <3>3, <3>4, <3>5
  <2> QED
    BY <1>6, <2>1, <2>2 DEF AgentStep
<1>7. ASSUME NEW d \in Device, Work(d) PROVE ContractMoves
  <2>1. CASE SendStateReport(d)
    BY <1>2, <2>1 DEF SendStateReport
  <2>2. ASSUME NEW r \in Request, FinishWhileConnecting(d, r) PROVE ContractMoves
    BY <1>5, <2>2 DEF FinishWhileConnecting
  <2>3. ASSUME NEW r \in Request, NEW k \in ResultStatus, Finish(d, r, k) PROVE ContractMoves
    <3>1. /\ {r} \in SUBSET inFlight[d] /\ UNCHANGED <<sentOn, outcome, execs>>
          /\ inFlight' = [inFlight EXCEPT ![d] = inFlight[d] \ {r}]
      BY <2>3 DEF Finish, Concludes
    <3> QED
      BY <1>4, <3>1
  <2> QED
    BY <1>7, <2>1, <2>2, <2>3 DEF Work
<1>8. ASSUME NEW s \in Socket, GatewayStep(s) PROVE ContractMoves
  <2>1. CASE \/ OnHello(s) \/ OnHelloVerified(s) \/ OnHelloRefused(s) \/ OnStamped(s)
             \/ OnUnauthenticated(s) \/ OnStateReport(s) \/ \E r \in Request : OnAck(s, r)
    BY <1>2, <2>1 DEF OnHello, OnHelloVerified, OnHelloRefused, OnStamped, OnUnauthenticated,
            OnStateReport, OnAck
  <2>2. CASE OnSocketClosed(s) /\ ~Authenticated(s)
    BY <1>2, <2>2 DEF OnSocketClosed
  <2>3. CASE OnSocketClosed(s) /\ Authenticated(s)
    <3> DEFINE R == {r \in pending : rdev[r] = Owner(s)}
    <3>1. /\ R \in SUBSET pending /\ Settle(R, "DEVICE_OFFLINE") /\ UNCHANGED <<sentOn, execs, inFlight>>
          /\ "DEVICE_OFFLINE" \in Failure
      BY <2>3 DEF OnSocketClosed, Unregister, Failure
    <3> QED
      BY <1>3, <3>1
  <2>4. ASSUME NEW r \in Request, NEW k \in ResultStatus, OnResult(s, r, k) PROVE ContractMoves
    <3>1. Settle({r} \cap pending, k) /\ UNCHANGED <<sentOn, execs, inFlight>>
      BY <2>4 DEF OnResult
    <3>2. CASE r \notin pending
      <4>1. outcome' = outcome
        BY <1>1, <3>1, <3>2 DEF Settle, TypeOK
      <4> QED
        BY <1>2, <3>1, <4>1
    <3>3. CASE r \in pending
      <4>1. Result(r, k) \in Frames(toGw[s])
        BY <1>1, <2>4, GatewayReadsFrames DEF OnResult
      <4>2. r \in Accepted /\ outcome[r] = "none" /\ Over(r)
        BY <1>1, <3>3, <4>1 DEF CallBook, Accepted, WorkInv
      <4>3. WorkOf[r] = "over"
        BY <4>2 DEF Over, WorkOf
      <4>4. outcome' = [outcome EXCEPT ![r] = k]
        BY <1>1, <3>1, <3>3 DEF Settle, TypeOK
      <4>5. UNCHANGED <<Accepted, WorkOf>>
        BY <3>1 DEF Accepted, WorkOf
      <4> QED
        BY <4>2, <4>3, <4>4, <4>5 DEF ContractMoves
    <3> QED
      BY <3>2, <3>3
  <2> QED
    BY <1>8, <2>1, <2>2, <2>3, <2>4 DEF GatewayStep
<1>9. ASSUME NEW r \in Request, Timer(r) PROVE ContractMoves
  <2>1. \E f \in Failure : Settle({r} \cap pending, f) /\ UNCHANGED <<sentOn, execs, inFlight>>
    BY <1>9 DEF Timer, AckTimeout, Deadline, Failure
  <2>2. {r} \cap pending \in SUBSET pending
    OBVIOUS
  <2> QED
    BY <1>3, <2>1, <2>2
<1>10. CASE Environment
  <2>1. ASSUME NEW r \in Request, NEW a \in Device \cup {AnyDevice}, SendCommand(r, a) PROVE ContractMoves
    <3> DEFINE d == ResolveDeviceId(a)
    <3>1. /\ r \notin called /\ d \in Device /\ conn[d] # NoSocket /\ sentOn' = [sentOn EXCEPT ![r] = conn[d]]
          /\ UNCHANGED <<outcome, execs, inFlight>>
      BY <2>1 DEF SendCommand, Online
    <3> HIDE DEF d
    <3>2. r \notin Accepted /\ outcome[r] = "none"
      BY <1>1, <3>1 DEF CallBook, Accepted
    <3>3. \A q \in Request : sentOn'[q] = IF q = r THEN conn[d] ELSE sentOn[q]
      BY <1>1, <3>1 DEF TypeOK
    <3>4. Accepted' = Accepted \cup {r}
      BY <3>1, <3>3 DEF Accepted
    <3>5. WorkOf' = WorkOf
      BY <3>1 DEF WorkOf
    <3> QED
      BY <3>1, <3>2, <3>4, <3>5 DEF ContractMoves
  <2>2. ASSUME NEW r \in Request, NEW a \in Device \cup {AnyDevice}, RefuseCommand(r, a) PROVE ContractMoves
    <3>1. /\ r \notin called /\ outcome' = [outcome EXCEPT ![r] = "DEVICE_OFFLINE"]
          /\ UNCHANGED <<sentOn, execs, inFlight>>
      BY <2>2 DEF RefuseCommand
    <3>2. r \notin Accepted /\ outcome[r] = "none"
      BY <1>1, <3>1 DEF CallBook, Accepted
    <3>3. UNCHANGED <<Accepted, WorkOf>>
      BY <3>1 DEF Accepted, WorkOf
    <3> QED
      BY <3>1, <3>2, <3>3 DEF ContractMoves
  <2>3. ASSUME NEW r \in Request, SendFails(r) PROVE ContractMoves
    <3>1. {r} \in SUBSET pending /\ Settle({r}, "DEVICE_OFFLINE") /\ UNCHANGED <<sentOn, execs, inFlight>>
      BY <2>3 DEF SendFails
    <3> QED
      BY <1>3, <3>1 DEF Failure
  <2>4. ASSUME NEW d \in Device, AgentCrash(d) PROVE ContractMoves
    BY <1>5, <2>4 DEF AgentCrash
  <2>5. CASE GatewayCrash
    <3>1. pending \in SUBSET pending /\ Settle(pending, "GATEWAY_LOST") /\ UNCHANGED <<sentOn, execs, inFlight>>
      BY <2>5 DEF GatewayCrash
    <3> QED
      BY <1>3, <3>1 DEF Failure
  <2>6. CASE \/ \E s \in Socket : AuthTimeout(s) \/ \E how \in Losses : LoseLink(s, how)
             \/ \E d \in Device : AgentRestart(d) \/ Revoke(d)
    BY <1>2, <2>6 DEF AuthTimeout, LoseLink, AgentRestart, Revoke
  <2> QED
    BY <1>10, <2>1, <2>2, <2>3, <2>4, <2>5, <2>6 DEF Environment
<1>11. CASE UNCHANGED vars
  BY <1>2, <1>11
<1> QED
  BY <1>6, <1>7, <1>8, <1>9, <1>10, <1>11 DEF Next

\* KeepsContract: the registry, the agent and everything that is lost between them keep the
\* contract of a call step by step: one answer, at most one execution and none for a
\* refused call, and a result only of an execution that is over (registry.ts sendCommand,
\* connection.ts onCommand).
THEOREM ChannelKeepsContract == Spec => KeepsContract
<1>1. Init => Contract!Init
  <2> SUFFICES ASSUME Init PROVE Contract!Init
    OBVIOUS
  <2>1. {r \in Request : sentOn[r] # NoSocket} = {}
    BY DEF Init
  <2>2. \A r \in Request : execs[r] = 0
    BY DEF Init
  <2> QED
    BY <2>1, <2>2 DEF Init, Contract!Init, Contract!Untold
<1>2. Init => WorkInv
  <2> SUFFICES ASSUME Init PROVE WorkInv
    OBVIOUS
  <2>1. \A s \in Socket : toGw[s] = <<>>
    BY DEF Init
  <2>2. \A d \in Device : inFlight[d] = {} /\ \A r \in Request : recent[d][r] = "none"
    BY DEF Init
  <2>3. \A s \in Socket : Frames(toGw[s]) = {}
    BY <2>1, EmptyQueue
  <2>4. \A d \in Device : \A r \in inFlight[d] : execs[r] # 0
    BY <2>2
  <2>5. \A s \in Socket, r \in Request, k \in ResultStatus : Result(r, k) \in Frames(toGw[s]) => Over(r)
    BY <2>3
  <2>6. \A d \in Device, r \in Request : recent[d][r] # "none" => Over(r)
    BY <2>2
  <2> QED
    BY <2>4, <2>5, <2>6 DEF WorkInv
<1>3. ChannelInv /\ ChannelInv' /\ Routed /\ WorkInv /\ [Next]_vars => WorkInv'
  BY WorkStep
<1>4. ChannelInv /\ ChannelInv' /\ Routed /\ WorkInv /\ [Next]_vars => [Contract!Next]_(Contract!vars)
  BY ContractStep, MovesAreSteps
<1> QED
  BY <1>1, <1>2, <1>3, <1>4, ChannelInvHolds, RoutedHolds, PTL DEF Spec, KeepsContract, Contract!Spec
=============================================================================
