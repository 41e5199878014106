SPECIFICATION FairSpec
CONSTANTS
  Process = {a1, a2, a3}
  Pid = {n1, n2}
  Faults = {"crash", "hang"}
  NoPid = NoPid
  MaxBusy = 1
CHECK_DEADLOCK FALSE
INVARIANTS
  TypeOK
  Exclusive
PROPERTIES
  IsLock
  DeadOwnerIsReplaced
