\* Three rules with up to two listed children each, two workers, two calls.
SPECIFICATION FairSpec
CONSTANTS
  N = 3
  MaxChildren = 2
  NumThreads = 2
  Threshold = 3
  PoolSize = 2
  MaxCalls = 2
  None = None
INVARIANTS CompilesInOrder ReadyMeansReady
PROPERTIES FirstErrorIsThrown CallEnds
CHECK_DEADLOCK FALSE
