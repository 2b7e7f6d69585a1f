---------------------------- MODULE MCSyntaxCheck ----------------------------
(***************************************************************************)
(* TokenSharing on every list of up to MaxAny tokens of any kinds, and on  *)
(* every list of up to MaxClause, MaxRegex and MaxTernary tokens of three  *)
(* smaller alphabets: the one of parentheses, the one of regex operators   *)
(* with every sort of value that can be handed to                          *)
(* NewEvaluableExpressionFromTokens, and the one of regex operators and    *)
(* ternaries.                                                              *)
(***************************************************************************)
EXTENDS TokenSharing

CONSTANTS MaxAny, MaxClause, MaxRegex, MaxTernary

T(kind, value) == [kind |-> kind, value |-> value]

Lists(alphabet, max) == UNION { [1 .. n -> alphabet] : n \in 0 .. max }

AnyTokens ==
  { T(k, "ok") : k \in TokenKinds \ OperatorKinds }
    \cup { T("PREFIX", "-"), T("SEPARATOR", ","), T("COMPARATOR", "<"), T("LOGICALOP", "&&"),
           T("MODIFIER", "+"), T("TERNARY", "?"), T("SEPARATOR", "nil"), T("NUMERIC", "nil") }

ClauseTokens ==
  { T("CLAUSE", "nil"), T("CLAUSE_CLOSE", "nil"), T("NUMERIC", "ok"), T("MODIFIER", "+") }

RegexTokens ==
  { T("VARIABLE", "ok"), T("COMPARATOR", "=~"), T("COMPARATOR", "!~"), T("COMPARATOR", "=="),
    T("COMPARATOR", "badType"), T("STRING", "ok"), T("STRING", "badRegex"),
    T("STRING", "badType"), T("PATTERN", "regex"), T("LOGICALOP", "||") }

TernaryTokens ==
  { T("VARIABLE", "ok"), T("COMPARATOR", "=~"), T("STRING", "ok"), T("STRING", "badRegex"),
    T("TERNARY", "??") }

Patterns == { T("STRING", "ok"), T("STRING", "badRegex"), T("PATTERN", "regex"), T("VARIABLE", "ok") }

(* The second operator may fail after the first one's pattern is compiled.   *)
TwoOperators ==
  { <<T("VARIABLE", "ok"), T("COMPARATOR", first), p, T("LOGICALOP", "&&"),
      T("STRING", "ok"), T("COMPARATOR", second), q>> :
      first, second \in { "=~", "!~", "==" }, p, q \in Patterns }

MCInputs ==
  UNION { Lists(AnyTokens, MaxAny), Lists(ClauseTokens, MaxClause), Lists(RegexTokens, MaxRegex),
          Lists(TernaryTokens, MaxTernary), TwoOperators }

=============================================================================
