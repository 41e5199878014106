\* Two profiles and three Chrome
\* instances; two batches of one session, a stranger that polls as well.
SPECIFICATION Spec
CONSTANTS
  Profile = {f1, f2}
  Browser = {b1, b2, b3}
  None = None
  MaxLaunches = 3
  BrowserFaults = {"crash", "launch", "inUse"}
  Sessions = {s1, s2}
  Batching = {s1}
  Urls = {u1, u2}
  AdUrls = {u1}
  Pages = {{"wall", "unavailable"}, {"search"}}
  MaxBatches = 2
  MaxLength = 2
  MaxUrls = 3
  MaxInline = 1
  Budget = 1
  JobDeadline = 1
  Retention = 1
  MaxTime = 2
INVARIANTS
  SessionsOwnTheirBrowsers
  BatchesEndWhole
  PollerMissesNothing
PROPERTIES
  JobsEnd
CHECK_DEADLOCK FALSE
