SPECIFICATION SharingSpec
CONSTANTS
  MaxAny = 3
  MaxClause = 6
  MaxRegex = 4
  MaxTernary = 5
  MaxCalls = 3
  Inputs <- MCInputs
INVARIANTS CheckTypeOK AcceptedWellFormed RejectedMalformed PatternsPrecompiled TokensAsPlanned VerdictsStand
CHECK_DEADLOCK FALSE
