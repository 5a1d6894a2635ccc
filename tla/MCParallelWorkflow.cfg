SPECIFICATION FairSpec
CONSTANTS
  Calls = {c1}
  AsyncCalls = {a1, a2}
  Engines = {e1, e2}
  N = 6
  LevelOf <- MCLevelOf
  DependsOn <- MCDependsOn
  NoDep = NoDep
  ChildKeys <- MCChildKeys
  Active <- MCActive
  NoOwner = NoOwner
INVARIANTS DependencyDecides ReportsEveryRule NothingIsLeftBehind StarvedOnlyByOthers
PROPERTY EveryCallEnds
