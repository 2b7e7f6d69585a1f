--------------------------- MODULE MCStagePlanner ---------------------------
(***************************************************************************)
(* Inputs of StagePlanner: every balanced list of tokens that the syntax   *)
(* table admits, up to a bound, over alphabets chosen for the parts of the *)
(* planner: parentheses, ternaries, calls and accessors, and one operator  *)
(* of every precedence level; and lists whose values are of a type the     *)
(* planner refuses.                                                        *)
(***************************************************************************)
EXTENDS StagePlanner

CONSTANTS MaxClause, MaxTernary, MaxCall, MaxOperators

T(kind, value) == [kind |-> kind, value |-> value]

Number == T("NUMERIC", "ok")
Clause == T("CLAUSE", "nil")
Close == T("CLAUSE_CLOSE", "nil")

(* The balanced lists of at most max tokens of the alphabet whose neighbours *)
(* the table admits; a list may stop growing, which End stands for.          *)
End == T("UNKNOWN", "nil")
Chains(alphabet, max) ==
  LET lastKind(c) == IF c = << >> THEN "UNKNOWN" ELSE c[Len(c)].kind
      grown[n \in 0 .. max] ==
        IF n = 0 THEN { << >> }
        ELSE { IF p[2] = End THEN p[1] ELSE Append(p[1], p[2]) :
                 p \in { q \in grown[n - 1] \X (alphabet \cup { End }) :
                            q[2] = End \/ canTransitionTo(lastKind(q[1]), q[2].kind) } }
  IN  { c \in grown[max] : Balanced(c) /\ lastKind(c) \in EOFKinds }

ClauseLists == Chains({ Clause, Close, Number, T("MODIFIER", "-") }, MaxClause)

TernaryLists ==
  Chains({ T("BOOLEAN", "ok"), T("TERNARY", "?"), T("TERNARY", ":"), T("TERNARY", "??"),
           T("SEPARATOR", ",") }, MaxTernary)

CallLists ==
  Chains({ T("FUNCTION", "ok"), T("ACCESSOR", "ok"), Clause, Close, Number,
           T("SEPARATOR", ","), T("COMPARATOR", "in"), T("PREFIX", "!") }, MaxCall)

Operators ==
  { T("COMPARATOR", "=="), T("LOGICALOP", "&&"), T("LOGICALOP", "||"), T("TERNARY", "??"),
    T("SEPARATOR", ",") }
    \cup { T("MODIFIER", v) : v \in { "|", "^", "&", "<<", "+", "*", "**" } }

(* An operand, and then up to MaxOperators operators with their right operands. *)
OperatorLists ==
  { [k \in 1 .. 2 * n + 1 |-> IF k % 2 = 1 THEN T("VARIABLE", "ok") ELSE f[k \div 2]] :
      <<n, f>> \in UNION { { n } \X [1 .. n -> Operators] : n \in 0 .. MaxOperators } }

(* Lists of the constructor from tokens whose values the planner refuses. *)
RefusedLists ==
  { <<T(kind, "badType")>> : kind \in { "VARIABLE", "NUMERIC", "STRING", "BOOLEAN", "TIME" } }
    \cup { <<T("VARIABLE", "ok"), T(kind, value), Number>> :
             kind \in { "MODIFIER", "COMPARATOR", "LOGICALOP", "TERNARY" },
             value \in { "other", "badType" } }
    \cup { <<T("FUNCTION", "badType"), Clause, Number, Close>>,
           <<T("ACCESSOR", "badType"), Clause, Number, Close>>,
           <<T("ACCESSOR", "badType"), T("MODIFIER", "+"), Number>>,
           <<T("PREFIX", "other"), Number>> }

MCInputs ==
  UNION { ClauseLists, TernaryLists, CallLists, OperatorLists, RefusedLists }

=============================================================================
