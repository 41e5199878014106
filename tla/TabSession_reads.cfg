SPECIFICATION Spec
CONSTANTS
  MaxCalls = 3
  MaxQueue = 2
  Kinds = {"visit", "extract", "click", "fill", "wait", "snapshot", "handoff"}
  PageKinds = {"plain", "seller", "listing"}
  MaxMoves = 1
CHECK_DEADLOCK FALSE
INVARIANTS
  SameRevisionSameBytes
  ReadsAfterWrites
  ReadsAfterWaits
  ActsOnWhatWasSeen
