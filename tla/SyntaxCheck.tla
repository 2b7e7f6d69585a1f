----------------------------- MODULE SyntaxCheck -----------------------------
(***************************************************************************)
(* The three passes every list of tokens goes through before it is         *)
(* planned: checkBalance, checkExpressionSyntax and optimizeTokens, in the *)
(* order in which NewEvaluableExpressionFromTokens (and, after lexing,     *)
(* NewEvaluableExpressionWithFunctions) calls them.  A step is one         *)
(* iteration of a pass, or its end.  optimizeTokens writes into the slice  *)
(* it is given, so tokens is a variable and given remembers its contents   *)
(* at the call.                                                            *)
(***************************************************************************)
EXTENDS Tokens, FiniteSets, Sequences

CONSTANT
  Inputs  \* the token lists handed to a constructor

ASSUME InputsAssumption == Inputs \subseteq Seq(ExpressionToken)

VARIABLES
  given,   \* the tokens at the call (history)
  tokens,  \* the tokens now
  phase,   \* the pass that is running, or the verdict
  index,   \* how many tokens the pass has read
  parens,  \* checkBalance: opened minus closed clauses
  state    \* checkExpressionSyntax: the kind of the current lexer state

checkVars == <<given, tokens, phase, index, parens, state>>

(* The pass has another token, and it is this one. *)
More == index < Len(tokens)
Token == tokens[index + 1]

CheckInit ==
  /\ given \in Inputs
  /\ tokens = given
  /\ phase = "balance"
  /\ index = 0
  /\ parens = 0
  /\ state = "UNKNOWN"

-----------------------------------------------------------------------------
(* checkBalance *)

Balance(kind) == CASE kind = "CLAUSE" -> 1 [] kind = "CLAUSE_CLOSE" -> -1 [] OTHER -> 0

CountParens ==
  /\ phase = "balance" /\ More
  /\ parens' = parens + Balance(Token.kind)
  /\ index' = index + 1
  /\ UNCHANGED <<given, tokens, phase, state>>

BalanceDone ==
  /\ phase = "balance" /\ ~More
  /\ phase' = IF parens = 0 THEN "syntax" ELSE "rejected"
  /\ index' = 0
  /\ UNCHANGED <<given, tokens, parens, state>>

-----------------------------------------------------------------------------
(* checkExpressionSyntax *)

(* Mutant: no state is nullable. *)
AdmissibleWithValue(token) == canTransitionTo(state, token.kind) /\ token.value # "nil"

(* The token may come next, and has a value if its kind needs one. *)
Admissible(token) ==
  /\ canTransitionTo(state, token.kind)
  /\ token.kind \in NullableKinds \/ token.value # "nil"

CheckToken ==
  /\ phase = "syntax" /\ More
  /\ IF Admissible(Token)
       THEN state' = Token.kind /\ index' = index + 1 /\ UNCHANGED phase
       ELSE phase' = "rejected" /\ UNCHANGED <<state, index>>
  /\ UNCHANGED <<given, tokens, parens>>

(* Mutant: the state the tokens end in need not be an end. *)
SyntaxDoneAnywhere ==
  /\ phase = "syntax" /\ ~More
  /\ phase' = "optimize"
  /\ index' = 0
  /\ UNCHANGED <<given, tokens, parens, state>>

SyntaxDone ==
  /\ phase = "syntax" /\ ~More
  /\ phase' = IF state \in EOFKinds THEN "optimize" ELSE "rejected"
  /\ index' = 0
  /\ UNCHANGED <<given, tokens, parens, state>>

-----------------------------------------------------------------------------
(* optimizeTokens *)

(* A comparator whose text is that of a regex operator. *)
IsRegexOperator(token) == token.kind = "COMPARATOR" /\ token.value \in { "=~", "!~" }

(* What becomes of the string after a regex operator: its compiled pattern. *)
Precompile(token) ==
  IF token.kind = "STRING" THEN [kind |-> "PATTERN", value |-> "regex"] ELSE token

(* The pass fails on a comparator that is no string, on a regex operator     *)
(* without a right-hand token, and on a right-hand string that is none or    *)
(* does not compile.                                                         *)
Unoptimizable ==
  \/ Token.kind = "COMPARATOR" /\ Token.value \in NonStrings
  \/ IsRegexOperator(Token) /\ index + 2 > Len(tokens)
  \/ /\ IsRegexOperator(Token)
     /\ tokens[index + 2].kind = "STRING"
     /\ tokens[index + 2].value \in NonStrings \cup { "badRegex" }

(* Mutant: the pattern is assigned to a copy of the token. *)
OptimizeCopy ==
  /\ phase = "optimize" /\ More
  /\ IF Unoptimizable THEN phase' = "rejected" /\ UNCHANGED index
                      ELSE index' = index + 1 /\ UNCHANGED phase
  /\ UNCHANGED <<given, tokens, parens, state>>

(* Mutant: the pass skips the token after every token, not only a pattern. *)
OptimizeSkipping ==
  /\ phase = "optimize" /\ More
  /\ IF Unoptimizable
       THEN phase' = "rejected" /\ UNCHANGED <<tokens, index>>
       ELSE /\ tokens' = IF IsRegexOperator(Token)
                           THEN [tokens EXCEPT ![index + 2] = Precompile(@)]
                           ELSE tokens
            /\ index' = index + 2
            /\ UNCHANGED phase
  /\ UNCHANGED <<given, parens, state>>

(* Mutant: the token becomes a pattern before its text is compiled. *)
OptimizeFirst ==
  /\ phase = "optimize" /\ More
  /\ tokens' = IF IsRegexOperator(Token) /\ index + 2 <= Len(tokens)
                 THEN [tokens EXCEPT ![index + 2] = Precompile(@)]
                 ELSE tokens
  /\ IF Unoptimizable THEN phase' = "rejected" /\ UNCHANGED index
                      ELSE index' = index + 1 /\ UNCHANGED phase
  /\ UNCHANGED <<given, parens, state>>

OptimizeToken ==
  /\ phase = "optimize" /\ More
  /\ IF Unoptimizable
       THEN phase' = "rejected" /\ UNCHANGED <<tokens, index>>
       ELSE /\ tokens' = IF IsRegexOperator(Token)
                           THEN [tokens EXCEPT ![index + 2] = Precompile(@)]
                           ELSE tokens
            /\ index' = index + 1
            /\ UNCHANGED phase
  /\ UNCHANGED <<given, parens, state>>

OptimizeDone ==
  /\ phase = "optimize" /\ ~More
  /\ phase' = "accepted"
  /\ index' = 0
  /\ UNCHANGED <<given, tokens, parens, state>>

-----------------------------------------------------------------------------

CheckNext ==
  \/ CountParens \/ BalanceDone
  \/ CheckToken \/ SyntaxDone
  \/ OptimizeToken \/ OptimizeDone

Verdict == phase \in { "accepted", "rejected" } /\ UNCHANGED checkVars

(* Each pass is one loop of one goroutine: it goes on until it returns. *)
CheckSpec == CheckInit /\ [][CheckNext \/ Verdict]_checkVars /\ WF_checkVars(CheckNext)

-----------------------------------------------------------------------------

(* Type invariant: every pass stays within the slice, and the slice keeps   *)
(* its length.                                                              *)
CheckTypeOK ==
  /\ given \in Seq(ExpressionToken)
  /\ tokens \in Seq(ExpressionToken)
  /\ Len(tokens) = Len(given)
  /\ phase \in { "balance", "syntax", "optimize", "accepted", "rejected" }
  /\ index \in 0 .. Len(tokens)
  /\ parens \in Int
  /\ state \in TokenKinds

(* How many more clauses the first n tokens of t open than they close. *)
Open(t, n) ==
  Cardinality({ k \in 1 .. n : t[k].kind = "CLAUSE" })
    - Cardinality({ k \in 1 .. n : t[k].kind = "CLAUSE_CLOSE" })

(* The language the checks decide, stated over the whole list at once. *)
Balanced(t) == Open(t, Len(t)) = 0

Chained(t) ==
  /\ t # << >>
  /\ t[1].kind \in StartKinds
  /\ \A k \in 1 .. Len(t) - 1 : canTransitionTo(t[k].kind, t[k + 1].kind)
  /\ t[Len(t)].kind \in EOFKinds

Valued(t) == \A k \in 1 .. Len(t) : t[k].kind \in NullableKinds \/ t[k].value # "nil"

Optimizable(t) ==
  \A k \in 1 .. Len(t) :
    t[k].kind = "COMPARATOR" =>
      /\ t[k].value \notin NonStrings
      /\ IsRegexOperator(t[k]) /\ t[k + 1].kind = "STRING" =>
           t[k + 1].value \notin NonStrings \cup { "badRegex" }

WellFormed(t) == Balanced(t) /\ Chained(t) /\ Valued(t) /\ Optimizable(t)

(* Only well-formed lists get to the planner: whatever the order in which   *)
(* the three passes look at the tokens, and although the last one rewrites  *)
(* them, what was handed in was balanced, chained, valued and compilable.   *)
AcceptedWellFormed == phase = "accepted" => WellFormed(given)

(* And none is turned away that is: a constructor that fails before         *)
(* planning was given a list outside the language.                          *)
RejectedMalformed == phase = "rejected" => ~WellFormed(given)

(* The list handed to the planner is the caller's with the literal pattern  *)
(* of every regex operator compiled and no other token touched, so a        *)
(* malformed literal pattern is an error of the constructor and never of an *)
(* evaluation.                                                              *)
PatternsPrecompiled ==
  phase = "accepted" =>
    \A k \in 1 .. Len(given) :
      tokens[k] = IF k > 1 /\ IsRegexOperator(given[k - 1]) THEN Precompile(given[k]) ELSE given[k]

=============================================================================
