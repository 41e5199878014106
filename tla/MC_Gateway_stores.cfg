SPECIFICATION Spec
CONSTANTS
  Devices = {d1, d2}
  Handles = {h1, h2}
  MaxDrops = 1
  Calls = {c1}
  Sizes = {1, 2, 3}
  MaxArtifacts = 3
  InlineMax = 1
  ArtifactMax = 2
  AggregateMax = 3
  Lifetime = 1
  MaxTime = 2
  Owners = {o1, o2}
  Runs = {r1}
  Count = 2
  MaxIds = 2
  MaxBytes = 3
  Ttl = 1
  MaxClock = 2
  MaxWrites = 3
  Keys = {k1, k2}
  PerMinute = 2
  Minute = 2
  MaxTracked = 1
  Tokens = {t1}
  TokenLife = 1
  MaxNow = 5
  MaxRequests = 4
INVARIANTS
  HandleKeepsItsDevice
  QuotaHolds
  UploadReachesCaller
  FilesHaveRows
  OwnRunsOnly
  AcknowledgedIsKept
  AdmitsNoMore
  CallsAreAccountedFor
CHECK_DEADLOCK FALSE
