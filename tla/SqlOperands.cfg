SPECIFICATION SqlSpec
CONSTANTS
  MaxAny = 3
  MaxCall = 6
  Expressions <- MCExpressions
INVARIANTS CallsTakeWholeOperands
