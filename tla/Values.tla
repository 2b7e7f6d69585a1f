------------------------------- MODULE Values -------------------------------
(***************************************************************************)
(* The values of an evaluation and what the evaluation operators of        *)
(* evaluationStage.go do with them.  Definitions only.                     *)
(*                                                                         *)
(* A value is a tuple that starts with its dynamic type:                   *)
(*   <<"nil">>, <<"bool", b>>, <<"num", n>> (a float64), <<"int", n>> (any *)
(*   other number type a parameter may have), <<"str", pieces>>,           *)
(*   <<"regex", p>>, <<"slice", values>> ([]interface{}) and               *)
(*   <<"args", values>> (collectedArgs).                                   *)
(* What floating-point arithmetic, lexicographic order, regular            *)
(* expressions, functions and reflection compute is left open: the         *)
(* constants below say it.  A string is the sequence of its printed        *)
(* pieces, so that concatenation is associative, as it is in Go.           *)
(***************************************************************************)
EXTENDS Tokens, Sequences

CONSTANTS
  Arithmetic(_, _, _),  \* the number an arithmetic symbol makes of two numbers
  Less(_, _),           \* the order of numbers, and of strings
  Compiles(_),          \* whether a string is a pattern
  Matches(_, _),        \* whether a string matches a pattern
  Function(_),          \* how a function ends for its arguments, a panic included
  Access(_, _)          \* how an accessor ends for a value and its arguments

Nil == <<"nil">>
Bool(b) == <<"bool", b>>
Num(n) == <<"num", n>>
Slice(values) == <<"slice", values>>
Args(values) == <<"args", values>>

HasType(types, v) == v[1] \in types
IsNum(v) == HasType({ "num" }, v)
IsStr(v) == HasType({ "str" }, v)
IsBool(v) == HasType({ "bool" }, v)
IsArray(v) == HasType({ "slice", "args" }, v)

(* What an operator returns: a value, an error, or a panic. *)
Value(v) == <<"value", v>>
Error == <<"error">>
Assertion == <<"panic", "type assertion">>
Uncomparable == <<"panic", "comparing uncomparable type">>

IsValue(outcome) == outcome[1] = "value"

(* What the deferred recover of makeFunctionStage and makeAccessorStage makes *)
(* of a panic.                                                                *)
Recovered(outcome) == IF IsValue(outcome) THEN outcome ELSE Error

(* castToFloat64: what sanitizedParameters, "in" and accessors do to a value. *)
castToFloat64(v) == IF HasType({ "int" }, v) THEN Num(v[2]) ELSE v

-----------------------------------------------------------------------------
(* findTypeChecks *)

OrderSymbols == { "GT", "LT", "GTE", "LTE" }
ArithmeticSymbols ==
  { "MINUS", "MULTIPLY", "DIVIDE", "MODULUS", "EXPONENT", "BITWISE_LSHIFT",
    "BITWISE_RSHIFT", "BITWISE_OR", "BITWISE_AND", "BITWISE_XOR" }

comparatorTypeCheck(l, r) == (IsNum(l) /\ IsNum(r)) \/ (IsStr(l) /\ IsStr(r))
additionTypeCheck(l, r) == (IsNum(l) /\ IsNum(r)) \/ IsStr(l) \/ IsStr(r)

(* The checks of a symbol accept a left and a right value. *)
TypeChecked(symbol, l, r) ==
  CASE symbol \in OrderSymbols -> comparatorTypeCheck(l, r)
    [] symbol \in { "REQ", "NREQ" } -> IsStr(l) /\ HasType({ "str", "regex" }, r)
    [] symbol \in { "AND", "OR" } -> IsBool(l) /\ IsBool(r)
    [] symbol = "IN" -> IsArray(r)
    [] symbol = "PLUS" -> additionTypeCheck(l, r)
    [] symbol \in ArithmeticSymbols -> IsNum(l) /\ IsNum(r)
    [] symbol \in { "NEGATE", "BITWISE_NOT" } -> IsNum(r)
    [] symbol = "INVERT" -> IsBool(r)
    [] symbol = "TERNARY_TRUE" -> IsBool(l)
    [] OTHER -> TRUE

-----------------------------------------------------------------------------
(* The stage functions: the outcome for the values of the two children *)

Numeric(symbol, l, r) ==
  IF IsNum(l) /\ IsNum(r) THEN Value(Num(Arithmetic(symbol, l[2], r[2]))) ELSE Assertion

Prefixed(symbol, r) ==
  IF IsNum(r) THEN Value(Num(Arithmetic(symbol, << >>, r[2]))) ELSE Assertion

(* Sprintf("%v%v"): a string is its pieces, any other value a piece of its own. *)
Pieces(v) == IF IsStr(v) THEN v[2] ELSE <<v>>

addStage(l, r) ==
  IF IsStr(l) \/ IsStr(r) THEN Value(<<"str", Pieces(l) \o Pieces(r)>>) ELSE Numeric("PLUS", l, r)

orderStage(symbol, l, r) ==
  IF comparatorTypeCheck(l, r)
    THEN Value(Bool(CASE symbol = "LT" -> Less(l[2], r[2])
                      [] symbol = "GT" -> Less(r[2], l[2])
                      [] symbol = "LTE" -> ~Less(r[2], l[2])
                      [] symbol = "GTE" -> ~Less(l[2], r[2])))
    ELSE Assertion

(* Go's && and ||: the right side is only asserted if the left does not decide. *)
logicalStage(decisive, l, r) ==
  IF ~IsBool(l) THEN Assertion
  ELSE IF l[2] = decisive THEN Value(l)
  ELSE IF ~IsBool(r) THEN Assertion ELSE Value(r)

ternaryIfStage(l, r) ==
  IF ~IsBool(l) THEN Assertion ELSE Value(IF l[2] THEN r ELSE Nil)

ternaryElseStage(l, r) == Value(IF l # Nil THEN l ELSE r)

IsPattern(r) == HasType({ "regex" }, r) \/ (IsStr(r) /\ Compiles(r[2]))

regexStage(wanted, l, r) ==
  IF IsPattern(r) /\ IsStr(l) THEN Value(Bool(Matches(l[2], r[2]) = wanted)) ELSE Error

(* append(left, right), whichever of the two slice types left has. *)
separatorStage(l, r) ==
  Value(Args(IF IsArray(l) THEN Append(l[2], r) ELSE <<l, r>>))

(* The loop of inStage: == on two interfaces that hold slices of one type    *)
(* panics, and the first element that is equal or panics decides.            *)
Comparable(l, v) == ~(IsArray(l) /\ v[1] = l[1])

membership(l, values) ==
  LET element(k) == castToFloat64(values[k])
      hits == { k \in DOMAIN values : l = element(k) \/ ~Comparable(l, element(k)) }
      first == CHOOSE k \in hits : \A j \in hits : k <= j
  IN  IF hits = { } THEN Value(Bool(FALSE))
      ELSE IF Comparable(l, element(first)) THEN Value(Bool(TRUE))
      ELSE Uncomparable

inStage(l, r) ==
  IF r = Nil THEN Value(Bool(FALSE))
  ELSE IF IsArray(r) THEN membership(l, r[2])
  ELSE Error

(* stageSymbolMap, applied. *)
Apply(symbol, l, r) ==
  CASE symbol = "PLUS" -> addStage(l, r)
    [] symbol \in ArithmeticSymbols -> Numeric(symbol, l, r)
    [] symbol \in { "NEGATE", "BITWISE_NOT" } -> Prefixed(symbol, r)
    [] symbol = "INVERT" -> IF IsBool(r) THEN Value(Bool(~r[2])) ELSE Assertion
    [] symbol \in OrderSymbols -> orderStage(symbol, l, r)
    [] symbol = "EQ" -> Value(Bool(l = r))
    [] symbol = "NEQ" -> Value(Bool(l # r))
    [] symbol = "AND" -> logicalStage(FALSE, l, r)
    [] symbol = "OR" -> logicalStage(TRUE, l, r)
    [] symbol = "TERNARY_TRUE" -> ternaryIfStage(l, r)
    [] symbol \in { "TERNARY_FALSE", "COALESCE" } -> ternaryElseStage(l, r)
    [] symbol = "REQ" -> regexStage(TRUE, l, r)
    [] symbol = "NREQ" -> regexStage(FALSE, l, r)
    [] symbol = "IN" -> inStage(l, r)
    [] symbol = "SEPARATE" -> separatorStage(l, r)

-----------------------------------------------------------------------------
(* The packers around noopStageRight, and the stages that leave the library *)

ensureSlice(v) == IF IsArray(v) THEN v ELSE Slice(<<v>>)
ensureCollectedArgs(v) == IF HasType({ "args" }, v) THEN v ELSE Args(<<v>>)

(* makeFunctionStage: what a function is called with. *)
FunctionArgs(r) == CASE HasType({ "args" }, r) -> r[2] [] r = Nil -> << >> [] OTHER -> <<r>>

(* makeAccessorStage hands over the elements of either slice type. *)
AccessorArgs(r) == CASE IsArray(r) -> r[2] [] r = Nil -> << >> [] OTHER -> <<r>>

=============================================================================
