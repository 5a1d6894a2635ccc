SPECIFICATION SequentialSpec
CONSTANTS
  AllRules = {1, 2, 3, 4, 5, 6, 7, 8, 9}
  Order <- MCOrder
  Children <- MCChildren
  DependsOn <- MCDependsOn
  NoDependency = NoDependency
  Active <- MCActive
  Cached = {1}
  Apis = {"execute"}
INVARIANT SkippedForAReason
