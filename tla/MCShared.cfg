SPECIFICATION Spec
CONSTANTS
  Goroutines = {g1, g2}
  Patterns = {p, q}
  Valid = {p}
  Hashable = {x, y}
  Uncacheable = {}
  Unhashable = {h}
  StageIds = {s1, s2, s3, s4}
  MaxHeld = 1
  NumNames = 4
  Types <- MCTypes
  Declares <- MCDeclares
  Requests <- MCRequests
  Counts = {0, 1, 4}
  Window = 2
  MaxParses = 3
  Objects = {o1, o2}
  MaxDepth = 2
  Elements = 1
  Spares = {0, 1}
  MaxCut = 1
  MaxCalls = 3
  MaxArguments = 3
INVARIANTS
  SharedTypeOK AnswersCompiled ResetDropsOld StagesSafe AccessesAsDeclared HintOfLast
  UsedOnce OwnContents ChangedOnlyIfShared
PROPERTIES KeepsPromise CallsReturn
CHECK_DEADLOCK FALSE
