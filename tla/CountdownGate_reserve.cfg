SPECIFICATION Spec
CONSTANTS
  batch = batch
  find = find
  shop = shop
  ask = ask
  i1 = i1
  i2 = i2
  i3 = i3
  h1 = h1
  s1 = s1
  None = None
  Call = {batch, find, shop, ask}
  Unit = {i1, i2, i3, h1, s1}
  Kind <- KindOfCall
  CallOf <- CallOfUnit
  MaxConcurrency = 1
  MaxRetries = 1
  Reserves <- ReservesTried
  Account <- AccountAtStart
  Faults = {"suspend", "error", "timeout", "topUp", "renewal", "probe", "silent"}
  TopUp = 4
  MaxFaults = 1
  MaxCalls = 2
SYMMETRY Slots
CHECK_DEADLOCK FALSE
INVARIANTS
  StatusTellsTheGate
PROPERTIES
  ReserveHeld
  SuspensionRefuses
