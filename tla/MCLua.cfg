SPECIFICATION LuaSpec
CONSTANTS
  parent = parent
  child = child
  Rules = {parent, child}
  Engines = {e1}
  Sources = {s1, s2}
  Children <- MCChildren
  WithExpression = {parent, child}
  WithAction = {child}
  None = None
  MaxGeneration = 2
  MaxRefs = 2
  Edited = {parent, child}
  MaxEngineRefs = 2
  MaxValues = 2
  MaxStates = 2
  CallbackNames = {"a"}
  Handlers = {"h", "stub"}
  Stub = "stub"
  GlobalNames = {"x"}
  MaxRuns = 2
  MaxDepth = 2
  Addresses = {"p"}
  MemoryLimits = {0, 2}
  BlockSizes = {1, 2}
  MaxOpened = 2
  MaxGrowth = 2
  CppTypes = {"A"}
  BindNames = {"x", "y"}
  Methods = {"m"}
  Layout <- MCLayout
  StoredValues = {1}
  Nothing = Nothing
  MaxDeclarations = 2
  MaxResets = 1
  EngineAddresses = {"p"}
  TypeNames = {"t"}
  FieldNames = {"k", "m"}
  Texts <- MCTexts
  IntBound = 4
  FieldValues <- MCFieldValues
  Characters = {"x", ":", ";"}
  ResultLists <- MCResultLists
  NoError = NoError
  MaxEngines = 2
  MaxTokens = 6
  Expressions = {"a", "b", "c", "bad"}
  Broken = {"bad"}
  HashOf <- MCHashOf
  Torn = "torn"
  maxCacheSize = 2
  MaxCrashes = 1
  Symbols <- MCSymbols
  Reserved <- MCReserved
  maxLength = 3
  maxParameterNameLength = 2
  maxParameterValueLength = 2
  MaxText = 4
  IntBits = 3
  LongBits = 4
  Values <- MCValues
  Tables <- MCTables
  Replaced = {"isNull"}
SYMMETRY Symmetry
INVARIANTS LookupIsSound CompiledCodeIsItsOwn RunsDoNotMix LimitsStayInForce ApplicationDataArrives ScreeningIsExact 
