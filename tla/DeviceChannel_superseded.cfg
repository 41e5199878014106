SPECIFICATION Spec
CONSTANTS
  Device = {d1}
  MaxSockets = 2
  Request = {r1}
  NoSocket = NoSocket
  AnyDevice = AnyDevice
  Faults = {"silent"}
  MaxFaults = 1
CHECK_DEADLOCK FALSE
PROPERTIES
  OfflineOnlyWithoutSocket
