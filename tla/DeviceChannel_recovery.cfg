SPECIFICATION Spec
CONSTANTS
  Device = {d1}
  MaxSockets = 2
  Request = {r1}
  NoSocket = NoSocket
  AnyDevice = AnyDevice
  Faults = {"reset", "silent", "slow", "agentCrash", "gatewayCrash", "revoked"}
  MaxFaults = 2
CHECK_DEADLOCK FALSE
INVARIANTS
  TypeOK
  OneLiveSocket
  ReadyAgentIsRegistered
  RunsAtMostOnce
