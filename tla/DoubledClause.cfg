SPECIFICATION CompileSpec
CONSTANTS
  MaxClause = 1
  MaxTernary = 1
  MaxCall = 6
  MaxOperators = 0
  MaxRun = 3
  Inputs <- MCCompileInputs
  LiteralValues <- OneOfEach
  Arithmetic <- FreeArithmetic
  Less <- SomeLess
  Compiles <- SomeCompiles
  Matches <- SomeMatches
  Function <- EchoFunction
  Access <- EchoAccess
INVARIANT ArgumentsStayPacked
