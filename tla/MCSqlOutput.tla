----------------------------- MODULE MCSqlOutput -----------------------------
(***************************************************************************)
(* SqlOutput on the expressions of up to MaxAny tokens of an alphabet with *)
(* operands of right and of wrong types and tokens that SQL has nothing    *)
(* for, and of up to MaxCall tokens of the one of calls, signs, a plain    *)
(* operator and parentheses.                                               *)
(***************************************************************************)
EXTENDS SqlOutput

CONSTANTS MaxAny, MaxCall

T(kind, value) == [kind |-> kind, value |-> value]

Operators == { T("TERNARY", "??"), T("MODIFIER", "**"), T("MODIFIER", "%"), T("MODIFIER", "*") }
Parentheses == { T("CLAUSE", "nil"), T("CLAUSE_CLOSE", "nil") }
CallAlphabet == Operators \cup Parentheses \cup { T("VARIABLE", "ok"), T("PREFIX", "-") }
FullAlphabet ==
  (CallAlphabet \ { T("MODIFIER", "**") })
    \cup { T("PREFIX", "!"), T("NUMERIC", "badType"), T("LOGICALOP", "&&"), T("FUNCTION", "ok"),
           T("ACCESSOR", "ok"), T("TERNARY", "?"), T("COMPARATOR", "=~"), T("PATTERN", "regex"),
           T("PATTERN", "ok"), T("STRING", "ok") }

(* The lists a constructor lets through, as optimizeTokens leaves them, the  *)
(* empty one that CleanupTokens leaves, and the truncated ones that the      *)
(* tests write into an expression.                                           *)
Check == INSTANCE SyntaxCheck WITH
           Inputs <- { }, given <- tokens, phase <- result, parens <- index, state <- result

Chains(alphabet, max) ==
  LET chains[n \in 1 .. max] ==
        IF n = 1 THEN { <<t>> : t \in { u \in alphabet : u.kind \in StartKinds } }
        ELSE UNION { { Append(c, t) : t \in { u \in alphabet : canTransitionTo(Last(c).kind, u.kind) } } :
                       c \in chains[n - 1] }
  IN  UNION { chains[n] : n \in 1 .. max }

Compiled(t) ==
  \A k \in 2 .. Len(t) : Check!IsRegexOperator(t[k - 1]) => t[k].kind # "STRING"

MCExpressions ==
  { << >>, <<T("TERNARY", "??"), T("NUMERIC", "ok")>>, <<T("NUMERIC", "ok"), T("MODIFIER", "**")>> }
    \cup { t \in Chains(FullAlphabet, MaxAny) \cup Chains(CallAlphabet, MaxCall) :
               Check!WellFormed(t) /\ Compiled(t) }

=============================================================================
