SPECIFICATION FairSpec
CONSTANTS
  Device = {d1}
  MaxSockets = 2
  Request = {r1}
  NoSocket = NoSocket
  AnyDevice = AnyDevice
  Faults = {"reset", "silent", "slow", "agentCrash", "gatewayCrash"}
  MaxFaults = 1
CHECK_DEADLOCK FALSE
PROPERTIES
  EveryCallEnds
  AgentsComeBack
