------------------------------- MODULE Tokens -------------------------------
(***************************************************************************)
(* The token language of govaluate: the kinds of TokenKind.go, the states  *)
(* of the syntax checker (validLexerStates, lexerState.go) and the tables  *)
(* that give an operator its symbol and its precedence                     *)
(* (OperatorSymbol.go).  The module has definitions only.                  *)
(*                                                                         *)
(* A token is a record [kind, value].  The value of an operator is its     *)
(* text; any other value is one of Payloads, which says what the code can  *)
(* tell about a value it was handed as interface{}.                        *)
(***************************************************************************)
EXTENDS Integers

TokenKinds ==
  { "UNKNOWN", "PREFIX", "NUMERIC", "BOOLEAN", "STRING", "PATTERN", "TIME",
    "VARIABLE", "FUNCTION", "SEPARATOR", "ACCESSOR", "COMPARATOR", "LOGICALOP",
    "MODIFIER", "CLAUSE", "CLAUSE_CLOSE", "TERNARY" }

(* "ok": of the type the kind asks for; "nil": no value; "badRegex": a       *)
(* string that regexp.Compile rejects; "regex": a compiled pattern; "other": *)
(* a string no table knows; "badType": a value of any other Go type.         *)
Payloads == { "ok", "nil", "badRegex", "regex", "other", "badType" }
NonStrings == { "nil", "regex", "badType" }

-----------------------------------------------------------------------------
(* validLexerStates *)

(* validNextKinds of the initial state, and the kinds that may follow an operand. *)
StartKinds ==
  { "PREFIX", "NUMERIC", "BOOLEAN", "VARIABLE", "PATTERN", "FUNCTION",
    "ACCESSOR", "STRING", "TIME", "CLAUSE" }
InfixKinds ==
  { "MODIFIER", "COMPARATOR", "LOGICALOP", "CLAUSE_CLOSE", "TERNARY", "SEPARATOR" }

validNextKinds(kind) ==
  CASE kind = "UNKNOWN" -> StartKinds
    [] kind \in { "CLAUSE", "COMPARATOR" } -> StartKinds \cup { "CLAUSE_CLOSE" }
    [] kind = "CLAUSE_CLOSE" -> InfixKinds \cup { "NUMERIC", "BOOLEAN", "VARIABLE",
                                                  "STRING", "PATTERN", "TIME", "CLAUSE" }
    [] kind \in { "NUMERIC", "BOOLEAN", "STRING", "VARIABLE" } -> InfixKinds
    [] kind \in { "TIME", "PATTERN" } -> InfixKinds \ { "TERNARY" }
    [] kind = "MODIFIER" -> (StartKinds \ { "PATTERN", "TIME" }) \cup { "CLAUSE_CLOSE" }
    [] kind = "LOGICALOP" -> (StartKinds \ { "PATTERN" }) \cup { "CLAUSE_CLOSE" }
    [] kind = "PREFIX" -> { "NUMERIC", "BOOLEAN", "VARIABLE", "FUNCTION", "ACCESSOR",
                            "CLAUSE", "CLAUSE_CLOSE" }
    [] kind = "TERNARY" -> (StartKinds \ { "PATTERN" }) \cup { "SEPARATOR" }
    [] kind = "FUNCTION" -> { "CLAUSE" }
    [] kind = "ACCESSOR" -> InfixKinds \cup { "CLAUSE" }
    [] kind = "SEPARATOR" -> StartKinds \ { "PATTERN" }

(* Mutant: the state of a modifier has isEOF. *)
EOFKindsWithModifier ==
  { "CLAUSE_CLOSE", "NUMERIC", "BOOLEAN", "STRING", "TIME", "PATTERN",
    "VARIABLE", "ACCESSOR", "MODIFIER" }

(* Mutant: the state of a pattern has not. *)
EOFKindsWithoutPattern ==
  { "CLAUSE_CLOSE", "NUMERIC", "BOOLEAN", "STRING", "TIME", "VARIABLE", "ACCESSOR" }

(* The kinds whose state has isEOF, and those whose state has isNullable. *)
EOFKinds ==
  { "CLAUSE_CLOSE", "NUMERIC", "BOOLEAN", "STRING", "TIME", "PATTERN",
    "VARIABLE", "ACCESSOR" }
NullableKinds == { "UNKNOWN", "CLAUSE", "CLAUSE_CLOSE", "SEPARATOR" }

canTransitionTo(state, kind) == kind \in validNextKinds(state)

-----------------------------------------------------------------------------
(* The symbol tables: the text of an operator to its OperatorSymbol *)

(* A table of texts and symbols, as the map literals of the code list them. *)
Table(pairs) ==
  [text \in { p[1] : p \in pairs } |-> (CHOOSE p \in pairs : p[1] = text)[2]]

comparatorSymbols ==
  Table({ <<"==", "EQ">>, <<"!=", "NEQ">>, <<">", "GT">>, <<">=", "GTE">>, <<"<", "LT">>,
          <<"<=", "LTE">>, <<"=~", "REQ">>, <<"!~", "NREQ">>, <<"in", "IN">> })
bitwiseAndSymbols == Table({ <<"&", "BITWISE_AND">> })
bitwiseXorSymbols == Table({ <<"^", "BITWISE_XOR">> })
bitwiseOrSymbols == Table({ <<"|", "BITWISE_OR">> })
bitwiseShiftSymbols == Table({ <<">>", "BITWISE_RSHIFT">>, <<"<<", "BITWISE_LSHIFT">> })
additiveSymbols == Table({ <<"+", "PLUS">>, <<"-", "MINUS">> })
multiplicativeSymbols ==
  Table({ <<"*", "MULTIPLY">>, <<"/", "DIVIDE">>, <<"%", "MODULUS">> })
exponentialSymbolsS == Table({ <<"**", "EXPONENT">> })
prefixSymbols == Table({ <<"-", "NEGATE">>, <<"!", "INVERT">>, <<"~", "BITWISE_NOT">> })
ternarySymbols ==
  Table({ <<"?", "TERNARY_TRUE">>, <<":", "TERNARY_FALSE">>, <<"??", "COALESCE">> })
separatorSymbols == Table({ <<",", "SEPARATE">> })

(* The kinds of operators, the texts that may be their values, and the tokens. *)
OperatorKinds == { "PREFIX", "SEPARATOR", "COMPARATOR", "LOGICALOP", "MODIFIER", "TERNARY" }
OperatorTexts ==
  { "&&", "||" } \cup UNION { DOMAIN comparatorSymbols, DOMAIN bitwiseAndSymbols,
    DOMAIN bitwiseXorSymbols, DOMAIN bitwiseOrSymbols, DOMAIN bitwiseShiftSymbols,
    DOMAIN additiveSymbols, DOMAIN multiplicativeSymbols, DOMAIN exponentialSymbolsS,
    DOMAIN prefixSymbols, DOMAIN ternarySymbols, DOMAIN separatorSymbols }
ExpressionToken ==
  [kind : OperatorKinds, value : Payloads \cup OperatorTexts]
    \cup [kind : TokenKinds \ OperatorKinds, value : Payloads]

(* The operators stageSymbolMap has an evaluation operator for. *)
StageSymbols ==
  { "EQ", "NEQ", "GT", "LT", "GTE", "LTE", "REQ", "NREQ", "AND", "OR", "IN",
    "BITWISE_OR", "BITWISE_AND", "BITWISE_XOR", "BITWISE_LSHIFT",
    "BITWISE_RSHIFT", "PLUS", "MINUS", "MULTIPLY", "DIVIDE", "MODULUS",
    "EXPONENT", "NEGATE", "INVERT", "BITWISE_NOT", "TERNARY_TRUE",
    "TERNARY_FALSE", "COALESCE", "SEPARATE" }

(* findOperatorPrecedenceForSymbol: the symbols reorderStages takes to be of one rank. *)
findOperatorPrecedenceForSymbol(symbol) ==
  CASE symbol = "NOOP" -> "noop"
    [] symbol \in { "EQ", "NEQ", "GT", "LT", "GTE", "LTE", "REQ", "NREQ", "IN" } -> "comparator"
    [] symbol = "AND" -> "logicalAnd"
    [] symbol = "OR" -> "logicalOr"
    [] symbol = "BITWISE_AND" -> "bitwiseAnd"
    [] symbol = "BITWISE_XOR" -> "bitwiseXor"
    [] symbol = "BITWISE_OR" -> "bitwiseOr"
    [] symbol \in { "BITWISE_LSHIFT", "BITWISE_RSHIFT" } -> "bitwiseShift"
    [] symbol \in { "PLUS", "MINUS" } -> "additive"
    [] symbol \in { "MULTIPLY", "DIVIDE", "MODULUS" } -> "multiplicative"
    [] symbol = "EXPONENT" -> "exponential"
    [] symbol \in { "BITWISE_NOT", "NEGATE", "INVERT" } -> "prefix"
    [] symbol \in { "COALESCE", "TERNARY_TRUE", "TERNARY_FALSE" } -> "ternary"
    [] symbol \in { "ACCESS", "FUNCTIONAL" } -> "functional"
    [] symbol = "SEPARATE" -> "separate"
    [] OTHER -> "value"

=============================================================================
