SPECIFICATION ArgumentsSpec
CONSTANTS
  Goroutines = {g1}
  Elements = 1
  Spares = {1}
  MaxCut = 0
  MaxCalls = 2
  MaxArguments = 3
INVARIANTS ArgumentsStay
CHECK_DEADLOCK FALSE
