SPECIFICATION SequentialFairSpec
CONSTANTS
  AllRules = {1, 2, 3, 4, 5, 6, 7, 8, 9}
  Order <- MCOrder
  Children <- MCChildren
  DependsOn <- MCDependsOn
  NoDependency = NoDependency
  Active <- MCActive
  Cached = {1, 2, 5, 7}
  Apis = {"execute", "trace", "stream"}
INVARIANTS RunsOnlyWhenDue TracedSkipsForAReason
PROPERTY CallEnds
