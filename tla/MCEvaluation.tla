---------------------------- MODULE MCEvaluation ----------------------------
(***************************************************************************)
(* Evaluation of all expressions of up to three operands, parameters or    *)
(* literals, between operators of every kind of stage function, and of     *)
(* calls, arrays, ternaries and prefixes, for parameters of every type.    *)
(***************************************************************************)
EXTENDS MCStagePlanner, EvaluationReference, MCValues

Variable == T("VARIABLE", "ok")
Boolean == T("BOOLEAN", "ok")
Text == T("STRING", "ok")
Operands == { Variable, Number, Boolean }

Modifier(text) == T("MODIFIER", text)
Comparator(text) == T("COMPARATOR", text)
Logical(text) == T("LOGICALOP", text)
Mark(text) == T("TERNARY", text)
Comma == T("SEPARATOR", ",")

InfixOperators ==
  { Modifier("+"), Modifier("-"), Comparator("<"), Comparator("=="), Logical("&&"), Logical("||"),
    Mark("?"), Mark(":"), Mark("??") }

Pairs == { <<x, f, y>> : x \in Operands \cup { Text }, f \in InfixOperators \cup { Modifier("*") },
                         y \in Operands \cup { Text } }

(* Three parameters only between the operators that may skip one of them.    *)
SkippingOperators ==
  { Modifier("-"), Logical("&&"), Mark("?"), Mark(":"), Mark("??") }

Triples ==
  { <<x, f, y, g, z>> : x \in { Variable, Number }, f \in InfixOperators, y \in Operands,
                        g \in InfixOperators, z \in { Number, Boolean } }
  \cup { <<x, f, Variable, g, Variable>> : x \in { Number, Boolean }, f \in InfixOperators,
                                           g \in SkippingOperators }
  \cup { <<Variable, f, Variable, g, Variable>> : f, g \in SkippingOperators }

F == T("FUNCTION", "ok")
A == T("ACCESSOR", "ok")

Others ==
  { <<F, Clause, Close>>, <<F, Clause, Variable, Close>>, <<F, Clause, Variable, Comma, Variable, Close>>,
    <<F, Clause, F, Clause, Variable, Close, Comma, Number, Close>>,
    <<F, Clause, Number, Modifier("+"), Text, Modifier("+"), Variable, Close>>,
    <<A>>, <<A, Clause, Close>>, <<A, Clause, Variable, Close>>,
    <<A, Clause, Number, Comma, Variable, Close, Modifier("+"), A>>,
    <<Variable, Comparator("in"), Clause, Variable, Close>>,
    <<Variable, Comparator("in"), Clause, Close>>,
    <<Variable, Comparator("in"), Variable>>,
    <<Variable, Comparator("in"), Clause, Number, Comma, Variable, Close, Logical("&&"), Boolean>>,
    <<Text, Comparator("=~"), Text>>, <<Variable, Comparator("=~"), Text>>,
    <<Text, Comparator("!~"), Variable>>,
    <<Clause, Number, Comparator("<"), Close>>,
    <<T("PREFIX", "!"), Clause, Variable, Logical("||"), Variable, Close>>,
    <<T("PREFIX", "-"), Variable, Modifier("-"), T("PREFIX", "~"), Variable>>,
    <<Clause, Clause, Variable, Modifier("-"), Number, Close, Close, Modifier("-"), Variable>>,
    <<Variable, Mark("?"), Variable, Mark(":"), Variable, Mark("?"), Variable, Mark(":"), Number>>,
    <<Variable, Mark("?"), Variable, Mark("?"), Variable, Mark(":"), Variable, Mark(":"), Number>>,
    <<Variable, Mark("??"), Variable, Mark("?"), Variable, Mark(":"), Number>>,
    <<Number, Modifier("-"), Number, Modifier("-"), Variable, Modifier("-"), Number>>,
    <<Text, Modifier("+"), Number, Modifier("+"), Number>>,
    <<Text, Modifier("+"), Number, Modifier("-"), Number>> }

MCEvaluationInputs ==
  Pairs \cup Triples \cup Others

(* An array or a parameter on the left of "in", an array in the array.       *)
MembershipInputs ==
  { <<Variable, Comparator("in"), Clause, Variable, Comma, Variable, Close>> }

MCLiterals == { One, True, False, Letter, Pattern }
MCParameters == { <<"nil">>, True, False, <<"int", <<"1">> >>, Letter, <<"slice", <<One>> >> }

=============================================================================
