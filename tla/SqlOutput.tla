------------------------------ MODULE SqlOutput ------------------------------
(***************************************************************************)
(* ToSQLQuery: the tokens of an expression are read from the left and each *)
(* becomes a transaction of the output stream.  An operator that SQL       *)
(* writes as a call takes the last transaction back for its left operand   *)
(* and reads one more for its right operand, a sign reads one more to      *)
(* stand before; these reads nest, so that the calls of findNextSQLString  *)
(* in progress form a stack.  A step is one token, or the end.             *)
(***************************************************************************)
EXTENDS Tokens, SequencesExt

CONSTANT
  Expressions  \* the token lists an expression may keep

(* The syntax check lets no token follow an operator that may not. *)
ASSUME ExpressionsAssumption ==
  Expressions \subseteq
    { t \in Seq(ExpressionToken) :
        \A k \in 1 .. Len(t) - 1 :
          t[k].kind \in OperatorKinds => canTransitionTo(t[k].kind, t[k + 1].kind) }

VARIABLES
  tokens,        \* the tokens of the expression
  index,         \* how many the token stream has given
  transactions,  \* the output stream
  pending,       \* the operators that wait for their right operand, the first outermost
  result         \* "running", "done", or why an error was returned

sqlVars == <<tokens, index, transactions, pending, result>>

(* What is written for a token, for a signed operand and for a call: a       *)
(* transaction is known by the numbers of the tokens it is made of, where    *)
(* that of an operator stands between those of its operands.                 *)
Plain(at) == <<at>>
Signed(at, right) == <<at>> \o right
SqlCall(at, left, right) == left \o <<at>> \o right

More == index < Len(tokens)
Token == tokens[index + 1]

SqlInit ==
  /\ tokens \in Expressions
  /\ index = 0
  /\ transactions = << >>
  /\ pending = << >>
  /\ result = "running"

-----------------------------------------------------------------------------
(* What findNextSQLString makes of a token *)

BecomesCall(token) ==
  \/ token.kind = "TERNARY" /\ token.value = "??"
  \/ token.kind = "MODIFIER" /\ token.value \in { "**", "%" }

BecomesSign(token) == token.kind = "PREFIX" /\ token.value # "!"

(* Mutant: a value is formatted whatever its type is. *)
AnyValueUnsupported(token) ==
  \/ token.kind \in { "UNKNOWN", "FUNCTION", "ACCESSOR" }
  \/ token.kind = "LOGICALOP" /\ token.value \notin { "&&", "||" }
  \/ token.kind = "TERNARY" /\ token.value # "??"

(* SQL has nothing for its kind or its operator, or its value is not of the  *)
(* type the kind asks for.                                                   *)
Unsupported(token) ==
  \/ token.kind \in { "UNKNOWN", "FUNCTION", "ACCESSOR" }
  \/ token.kind = "LOGICALOP" /\ token.value \notin { "&&", "||" }
  \/ token.kind = "TERNARY" /\ token.value # "??"
  \/ token.kind = "PATTERN" /\ token.value # "regex"
  \/ token.kind \in { "NUMERIC", "BOOLEAN", "TIME" } /\ token.value # "ok"
  \/ token.kind \in { "VARIABLE", "COMPARATOR", "PREFIX", "MODIFIER" } /\ token.value \in NonStrings

(* Mutant: the transaction is read but not taken back. *)
PeekedRollback == transactions

(* The output stream without its last transaction. *)
Rollback == Front(transactions)

(* The text of the outermost call when the innermost one gets the operand. *)
Completed(operand) ==
  LET applied(operator, right) ==
        IF operator.left = << >> THEN Signed(operator.at, right)
                                 ELSE SqlCall(operator.at, operator.left, right)
      n == Len(pending)
      inner[k \in 0 .. n] ==
        IF k = 0 THEN operand ELSE applied(pending[n + 1 - k], inner[k - 1])
  IN  inner[n]

-----------------------------------------------------------------------------
(* The steps *)

(* The kinds of errors, in the order in which the code looks for them. *)
NoToken == ~More /\ pending # << >>
NoPriorToken == More /\ ~Unsupported(Token) /\ BecomesCall(Token) /\ transactions = << >>
NoSql == More /\ Unsupported(Token)

Fail ==
  /\ result = "running"
  /\ NoToken \/ NoPriorToken \/ NoSql
  /\ result' = IF NoSql THEN "unsupported" ELSE "missing token"
  /\ UNCHANGED <<tokens, index, transactions, pending>>

(* A token that stands for itself: the calls in progress all return, and     *)
(* what the first one returns is added.                                      *)
Write ==
  /\ result = "running" /\ More
  /\ ~Unsupported(Token) /\ ~BecomesCall(Token) /\ ~BecomesSign(Token)
  /\ transactions' = Append(transactions, Completed(Plain(index + 1)))
  /\ pending' = << >>
  /\ index' = index + 1
  /\ UNCHANGED <<tokens, result>>

(* COALESCE, POW and MOD. *)
StartCall ==
  /\ result = "running" /\ More
  /\ ~Unsupported(Token) /\ BecomesCall(Token) /\ transactions # << >>
  /\ pending' = Append(pending, [at |-> index + 1, left |-> Last(transactions)])
  /\ transactions' = Rollback
  /\ index' = index + 1
  /\ UNCHANGED <<tokens, result>>

StartSign ==
  /\ result = "running" /\ More
  /\ ~Unsupported(Token) /\ BecomesSign(Token)
  /\ pending' = Append(pending, [at |-> index + 1, left |-> << >>])
  /\ index' = index + 1
  /\ UNCHANGED <<tokens, transactions, result>>

(* Mutant: at the end an operand that is awaited counts as empty. *)
SqlDoneAwaiting ==
  /\ result = "running" /\ ~More
  /\ result' = "done"
  /\ UNCHANGED <<tokens, index, transactions, pending>>

SqlDone ==
  /\ result = "running" /\ ~More /\ pending = << >>
  /\ result' = "done"
  /\ UNCHANGED <<tokens, index, transactions, pending>>

SqlNext == Write \/ StartCall \/ StartSign \/ SqlDone \/ Fail

Returned == result # "running" /\ UNCHANGED sqlVars

SqlSpec == SqlInit /\ [][SqlNext \/ Returned]_sqlVars

-----------------------------------------------------------------------------

(* Type invariant: the stream stays within the tokens, and an operand is     *)
(* only awaited while the query is being written.                            *)
SqlTypeOK ==
  /\ tokens \in Seq(ExpressionToken)
  /\ index \in 0 .. Len(tokens)
  /\ transactions \in Seq(Seq(1 .. index) \ { << >> })
  /\ pending \in Seq([at : 1 .. index, left : Seq(1 .. index)])
  /\ result \in { "running", "done", "unsupported", "missing token" }
  /\ result = "done" => pending = << >>

(* What the operators that wait have so far: the operand taken back, if any. *)
Awaiting == [k \in DOMAIN pending |-> Append(pending[k].left, pending[k].at)]

(* Every token that was read is in the query once, in the order of the       *)
(* expression, although transactions are taken back and written anew within  *)
(* others: ToSQLQuery drops no operand, repeats none and swaps none.         *)
KeepsTokens == FlattenSeq(transactions \o Awaiting) = [k \in 1 .. index |-> k]

(* The operands a call takes back and reads are there unless the list begins *)
(* or ends with an operator.                                                 *)
MissesOnlyAtEnds ==
  result = "missing token" => BecomesCall(tokens[1]) \/ Last(tokens).kind \in OperatorKinds

(* What SQL has something for: literals and names of the right type, the     *)
(* operators it knows, parentheses and commas.                               *)
SqlHas(token) ==
  \/ token.kind \in { "STRING", "SEPARATOR", "CLAUSE", "CLAUSE_CLOSE" }
  \/ token.kind \in { "NUMERIC", "BOOLEAN", "TIME" } /\ token.value = "ok"
  \/ token.kind = "PATTERN" /\ token.value = "regex"
  \/ token.kind \in { "VARIABLE", "COMPARATOR", "PREFIX", "MODIFIER" } /\ token.value \notin NonStrings
  \/ token.kind = "LOGICALOP" /\ token.value \in { "&&", "||" }
  \/ token.kind = "TERNARY" /\ token.value = "??"

(* No other error is returned than that of the first token which SQL has     *)
(* nothing for, and none of these gets into a query, wherever calls and      *)
(* signs stand.                                                              *)
FailsOnlyUnsupported ==
  /\ MissesOnlyAtEnds
  /\ result = "unsupported" => More /\ ~SqlHas(Token) /\ \A k \in 1 .. index : SqlHas(tokens[k])
  /\ result = "done" => \A k \in DOMAIN tokens : SqlHas(tokens[k])

(* The operand a call takes back is a whole one, with its parentheses: "a    *)
(* string representing this expression as if it were written in SQL" has the *)
(* call around all of (a + b) in (a + b) % c, as the evaluation has.         *)
CallsTakeWholeOperands ==
  \A k \in DOMAIN pending :
    LET taken(kind) == Cardinality({ i \in DOMAIN pending[k].left : tokens[pending[k].left[i]].kind = kind })
    IN  taken("CLAUSE") = taken("CLAUSE_CLOSE")

=============================================================================
