SPECIFICATION ReferenceSpec
CONSTANTS
  MaxClause = 1
  MaxTernary = 1
  MaxCall = 1
  MaxOperators = 0
  Inputs <- MCEvaluationInputs
  LiteralValues <- MCLiterals
  ParameterValues <- MCParameters
  Arithmetic <- FreeArithmetic
  Less <- SomeLess
  Compiles <- SomeCompiles
  Matches <- SomeMatches
  Function <- EchoFunction
  Access <- EchoAccess
INVARIANTS EvaluationTypeOK TypeChecksSuffice
PROPERTIES EvaluatesAsWritten Answers
