SPECIFICATION Spec
CONSTANTS
  Device = {d1, d2}
  MaxSockets = 1
  Request = {r1, r2}
  NoSocket = NoSocket
  AnyDevice = AnyDevice
  Faults = {"reset"}
  MaxFaults = 1
CHECK_DEADLOCK FALSE
SYMMETRY Symmetry
INVARIANTS
  TimersMatchPending
  NoStrayCommand
PROPERTIES
  AnswerIsFinal
  KeepsContract
