SPECIFICATION CompileSpec
CONSTANTS
  MaxClause = 8
  MaxTernary = 9
  MaxCall = 7
  MaxOperators = 2
  MaxRun = 6
  Inputs <- MCCompileInputs
  LiteralValues <- OneOfEach
  Arithmetic <- FreeArithmetic
  Less <- SomeLess
  Compiles <- SomeCompiles
  Matches <- SomeMatches
  Function <- EchoFunction
  Access <- EchoAccess
INVARIANTS
  PlanTypeOK NoPanic ClausesMatched HeldOnce ArgumentsPacked
  CompileTypeOK LeavesUntouched ReadAsWritten
PROPERTY CompileReturns
