SPECIFICATION Spec
CONSTANTS
  Null = Null
  ExcerptChars = 5
  MaxChars = 8
  FiguresMax = 2
  AttributesMax = 3
  PlausibleMin = 10
  MaxScanned = 3
  Walks <- TheWalks
  Detours <- TheDetours
  Bodies <- TheBodies
  MaxLoads = 4
  Broken = {"("}
  SecretTokens = {}
  Plain <- PlainPages
  Ways <- PageWays
  Truth <- PageTruth
  MaxChanges = 3
CHECK_DEADLOCK FALSE
INVARIANTS
  NothingFalseIsRead
  UnreadFieldsAreAnnounced
  VerifiedNamesTheBuyersCode
  OnlyDeadAdsAreRetired
  WalkReturnsEveryMatch
  OwnProfileHolds
  WindowsReadWholeBody
