SPECIFICATION SqlSpec
CONSTANTS
  MaxAny = 4
  MaxCall = 6
  Expressions <- MCExpressions
INVARIANTS SqlTypeOK KeepsTokens FailsOnlyUnsupported
