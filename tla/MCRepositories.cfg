SPECIFICATION StoresSpec
CONSTANTS
  Repos = {r1, r2}
  Ids = {1, 2}
  Bodies = {"a", "b"}
  SavedRules <- MCSavedRules
  Files <- MCFiles
  Absent = Absent
  Torn = Torn
  Users = {u1, u2}
  RuleIds = {1, 2, 3}
  FlowIds = {7}
  Orders <- MCOrders
  RuleRecords <- MCRuleRecords
  EmptyName = ""
  NoValue = NoValue
  Unknown = Unknown
  MaxOps = 4
  MaxFaults = 1
  Loaders = {l1, l2}
  Documents <- MCDocuments
  DocNames = {"", "a", "b", "c", "d", "e", "f"}
  Unnamed = ""
  DocUnits = {"none", "ms", "s", "m", "h"}
  Missing = Missing
  Malformed = Malformed
  kMaxRuleNestingDepth = 1
  IntBound = 4
  MaxLoads = 3
  IdChoices <- MCIdChoices
  NameChoices <- MCNameChoices
  DepChoices = {"a", "b", "c", "x", "none"}
  ChildChoices = {{}, {3}}
  NoDependency = "x"
  NoName = "none"
  MaxEdits = 1
SYMMETRY Symmetry
INVARIANTS NoChangeIsForgotten StoresAnswerTruly TransferIsFaithful ValidationIsExact
PROPERTY FileIsReplacedWhole
