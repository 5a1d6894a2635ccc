\* Every workflow of N rules over a few names, shared names included.
SPECIFICATION FairSpec
CONSTANTS
  N = 4
  Names = {"a", "b", "c"}
  NoDep = NoDep
INVARIANTS LevelsAreTight RefusesExactlyCycles
PROPERTY Terminates
