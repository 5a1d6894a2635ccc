SPECIFICATION FairSpec
CONSTANTS
  N = 3
  Names = {"a", "b"}
  NoDep = NoDep
INVARIANT AcyclicIsNeverRefused
