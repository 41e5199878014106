SPECIFICATION Spec
CONSTANTS
  Process = {a1, a2}
  Pid = {n1, n2}
  Faults = {}
  NoPid = NoPid
  MaxBusy = 2
SYMMETRY Interchangeable
CHECK_DEADLOCK FALSE
INVARIANTS
  Exclusive
