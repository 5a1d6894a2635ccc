SPECIFICATION ServicesSpec
CONSTANTS
  Threads = {t1, t2}
  Types = {int, string}
  Texts = {x, y, z}
  Duration = 2
  MaxEntries = 2
  None = None
  MaxTime = 3
  MaxGeneration = 1
  Callers = {u1, u2}
  LimitKeys <- MCLimitKeys
  Second = 1
  Minute = 2
  Limits <- MCLimits
  NoLimit = NoLimit
  MaxClock = 3
  MaxAttempts = 3
  maxSize = 1
  preallocated = 1
  MaxObjects = 2
  TrackedRules <- MCTrackedRules
  Configs <- MCConfigs
  NoVersion = NoVersion
  MaxSnapshots = 3
  MaxWallClock = 1
  Recorders = {a, b}
  MaxRecords = 3
  MaxResets = 1
  Workflows = {"small", "large"}
  RuleCount <- MCRuleCount
  CheckEvery = 2
  SizeBits = 3
  Least = 2
  Most = 5
  Default = 4
  SetTo = {0, 1, 6, 7}
  Times = {1, 3}
  MaxSamples = 2
SYMMETRY Symmetry
INVARIANTS CacheIsSound PoolsAreSound HistoryIsTrue StatisticsHold
PROPERTY StepsRespectLimits
