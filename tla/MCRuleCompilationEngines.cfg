SPECIFICATION EnginesSpec
CONSTANTS
  parent = parent
  child = child
  Rules = {parent, child}
  Engines = {e1, e2}
  Sources = {s1, s2}
  Children <- MCChildren
  WithExpression = {child}
  WithAction = {}
  None = None
  MaxGeneration = 1
  MaxRefs = 1
  Edited = {child}
PROPERTY EveryUseEnds
CHECK_DEADLOCK FALSE
