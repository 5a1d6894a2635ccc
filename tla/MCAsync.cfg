SPECIFICATION AsyncSpec
CONSTANTS
  numThreads = 2
  Clients = {c1}
  NoTask = NoTask
  Rules <- MCRules
  Tasks <- MCTasks
  Workflows <- MCWorkflows
  ContextThreads = {t1, t2}
  Contexts = {"a", "b", "c"}
  AssignmentPairs <- MCAssignmentPairs
  MaxWrites = 1
  MaxAssignments = 2
  LastCall = 3
INVARIANTS  SharedStateHolds
PROPERTIES CallEndsWithoutCycle EverythingEnds
CHECK_DEADLOCK FALSE
