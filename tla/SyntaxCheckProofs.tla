-------------------------- MODULE SyntaxCheckProofs --------------------------
(***************************************************************************)
(* Proofs about SyntaxCheck for every list of tokens.  The inductive       *)
(* invariant says, for each of the three passes, what its iterations so    *)
(* far and the passes before it have established about the tokens given.   *)
(***************************************************************************)
EXTENDS SyntaxCheck, FiniteSetTheorems, TLAPS

(* The kind of lexer state that checkExpressionSyntax is in after n tokens. *)
StateAfter(n) == IF n = 0 THEN "UNKNOWN" ELSE given[n].kind

(* What optimizeTokens makes of token k. *)
Optimized(k) ==
  IF k > 1 /\ IsRegexOperator(given[k - 1]) THEN Precompile(given[k]) ELSE given[k]

OptimizableAt(k) ==
  given[k].kind = "COMPARATOR" =>
    /\ given[k].value \notin NonStrings
    /\ IsRegexOperator(given[k]) /\ given[k + 1].kind = "STRING" =>
         given[k + 1].value \notin NonStrings \cup { "badRegex" }

BalanceInv ==
  phase = "balance" => tokens = given /\ parens = Open(given, index) /\ state = "UNKNOWN"

SyntaxInv ==
  phase = "syntax" =>
    /\ tokens = given
    /\ Balanced(given)
    /\ state = StateAfter(index)
    /\ \A k \in 1 .. index :
         /\ canTransitionTo(StateAfter(k - 1), given[k].kind)
         /\ given[k].kind \in NullableKinds \/ given[k].value # "nil"

OptimizeInv ==
  phase = "optimize" =>
    /\ Balanced(given) /\ Chained(given) /\ Valued(given)
    /\ \A k \in 1 .. Len(given) : tokens[k] = IF k <= index + 1 THEN Optimized(k) ELSE given[k]
    /\ \A k \in 1 .. index : OptimizableAt(k)

CheckIInv ==
  /\ CheckTypeOK
  /\ BalanceInv /\ SyntaxInv /\ OptimizeInv
  /\ AcceptedWellFormed /\ RejectedMalformed /\ PatternsPrecompiled

-----------------------------------------------------------------------------

LEMMA TokenTypes ==
  ASSUME NEW t \in Seq(ExpressionToken), NEW k \in 1 .. Len(t)
  PROVE  t[k] \in ExpressionToken /\ t[k].kind \in TokenKinds
BY DEF ExpressionToken, OperatorKinds, TokenKinds

LEMMA PrecompileType ==
  ASSUME NEW token \in ExpressionToken
  PROVE  /\ Precompile(token) \in ExpressionToken
         /\ token.kind = "COMPARATOR" => Precompile(token) = token
         /\ Precompile(token).kind = "COMPARATOR" => Precompile(token) = token
BY DEF Precompile, ExpressionToken, TokenKinds, OperatorKinds, Payloads

(* One more token changes the count of open clauses by its balance. *)
LEMMA OpenStep ==
  ASSUME NEW t \in Seq(ExpressionToken), NEW n \in Nat, n < Len(t)
  PROVE  Open(t, n) \in Int /\ Open(t, n + 1) = Open(t, n) + Balance(t[n + 1].kind)
<1> DEFINE Of(kind, m) == { k \in 1 .. m : t[k].kind = kind }
<1>1. ASSUME NEW kind
      PROVE  /\ Cardinality(Of(kind, n)) \in Nat
             /\ Cardinality(Of(kind, n + 1)) =
                  Cardinality(Of(kind, n)) + (IF t[n + 1].kind = kind THEN 1 ELSE 0)
  <2>1. IsFiniteSet(Of(kind, n)) /\ Cardinality(Of(kind, n)) \in Nat
    <3>1. IsFiniteSet(1 .. n)
      BY FS_Interval
    <3>2. Of(kind, n) \in SUBSET (1 .. n)
      OBVIOUS
    <3> QED
      BY <3>1, <3>2, FS_Subset, FS_CardinalityType
  <2>2. Of(kind, n + 1) = IF t[n + 1].kind = kind THEN Of(kind, n) \cup { n + 1 } ELSE Of(kind, n)
    <3>1. 1 .. n + 1 = (1 .. n) \cup { n + 1 }
      OBVIOUS
    <3> QED
      BY <3>1
  <2>3. n + 1 \notin Of(kind, n)
    OBVIOUS
  <2> HIDE DEF Of
  <2>4. Cardinality(Of(kind, n) \cup { n + 1 }) = Cardinality(Of(kind, n)) + 1
    BY <2>1, <2>3, FS_AddElement
  <2> QED
    BY <2>1, <2>2, <2>4
<1>2. /\ Open(t, n) = Cardinality(Of("CLAUSE", n)) - Cardinality(Of("CLAUSE_CLOSE", n))
      /\ Open(t, n + 1) = Cardinality(Of("CLAUSE", n + 1)) - Cardinality(Of("CLAUSE_CLOSE", n + 1))
  BY DEF Open
<1> HIDE DEF Of
<1> QED
  BY <1>1, <1>2 DEF Balance

LEMMA OpenNothing == \A t : Open(t, 0) = 0
BY FS_EmptySet DEF Open

-----------------------------------------------------------------------------

LEMMA CheckInitIInv == CheckInit => CheckIInv
<1> SUFFICES ASSUME CheckInit PROVE CheckIInv
  OBVIOUS
<1>1. given \in Seq(ExpressionToken)
  BY InputsAssumption DEF CheckInit
<1>2. CheckTypeOK
  BY <1>1 DEF CheckInit, CheckTypeOK, TokenKinds
<1>3. BalanceInv
  BY OpenNothing DEF CheckInit, BalanceInv
<1> QED
  BY <1>2, <1>3 DEF CheckInit, CheckIInv, SyntaxInv, OptimizeInv, AcceptedWellFormed,
                    RejectedMalformed, PatternsPrecompiled

LEMMA CheckStepIInv == CheckIInv /\ [CheckNext \/ Verdict]_checkVars => CheckIInv'
<1> SUFFICES ASSUME CheckIInv, [CheckNext \/ Verdict]_checkVars PROVE CheckIInv'
  OBVIOUS
<1> USE DEF CheckIInv
<1>0. /\ given \in Seq(ExpressionToken) /\ tokens \in Seq(ExpressionToken)
      /\ Len(tokens) = Len(given) /\ Len(given) \in Nat /\ index \in 0 .. Len(given)
  BY DEF CheckTypeOK
<1>1. CASE CountParens
  <2> USE <1>0, <1>1 DEF CountParens, More, Token
  <2>1. parens' \in Int /\ BalanceInv'
    BY OpenStep DEF BalanceInv
  <2>2. CheckTypeOK'
    BY <2>1 DEF CheckTypeOK
  <2> QED
    BY <2>1, <2>2 DEF SyntaxInv, OptimizeInv, AcceptedWellFormed, RejectedMalformed,
                      PatternsPrecompiled
<1>2. CASE BalanceDone
  <2> USE <1>0, <1>2 DEF BalanceDone, More
  <2>1. parens = Open(given, Len(given)) /\ tokens = given /\ parens \in Int
        /\ state = "UNKNOWN"
    BY DEF BalanceInv, CheckTypeOK
  <2>2. CheckTypeOK'
    BY DEF CheckTypeOK
  <2>3. SyntaxInv' /\ RejectedMalformed'
    BY <2>1 DEF SyntaxInv, StateAfter, RejectedMalformed, WellFormed, Balanced
  <2> QED
    BY <2>2, <2>3 DEF BalanceInv, OptimizeInv, AcceptedWellFormed, PatternsPrecompiled
<1>3. CASE CheckToken
  <2> USE <1>0, <1>3 DEF CheckToken, More, Token
  <2>1. tokens = given /\ Balanced(given) /\ state = StateAfter(index)
    BY DEF SyntaxInv
  <2>2. CheckTypeOK'
    BY TokenTypes DEF CheckTypeOK
  <2>3. CASE Admissible(Token)
    <3>1. SyntaxInv'
      BY <2>1, <2>3 DEF SyntaxInv, StateAfter, Admissible
    <3> QED
      BY <2>2, <2>3, <3>1 DEF BalanceInv, OptimizeInv, AcceptedWellFormed, RejectedMalformed,
                              PatternsPrecompiled
  <2>4. CASE ~Admissible(Token)
    <3>1. ~(Chained(given) /\ Valued(given))
      <4>1. CASE ~canTransitionTo(state, given[index + 1].kind)
        <5>1. CASE index = 0
          BY <2>1, <4>1, <5>1 DEF StateAfter, canTransitionTo, validNextKinds, Chained
        <5>2. CASE index > 0
          BY <2>1, <4>1, <5>2 DEF StateAfter, Chained
        <5> QED
          BY <5>1, <5>2
      <4>2. CASE given[index + 1].kind \notin NullableKinds /\ given[index + 1].value = "nil"
        BY <4>2 DEF Valued
      <4> QED
        BY <2>1, <2>4, <4>1, <4>2 DEF Admissible
    <3> QED
      BY <2>2, <2>4, <3>1 DEF BalanceInv, SyntaxInv, OptimizeInv, AcceptedWellFormed,
                              RejectedMalformed, WellFormed, PatternsPrecompiled
  <2> QED
    BY <2>3, <2>4
<1>4. CASE SyntaxDone
  <2> USE <1>0, <1>4 DEF SyntaxDone, More
  <2>1. /\ tokens = given /\ Balanced(given) /\ state = StateAfter(Len(given))
        /\ \A k \in 1 .. Len(given) :
             /\ canTransitionTo(StateAfter(k - 1), given[k].kind)
             /\ given[k].kind \in NullableKinds \/ given[k].value # "nil"
    BY DEF SyntaxInv
  <2>2. CheckTypeOK'
    BY DEF CheckTypeOK
  <2>3. CASE state \in EOFKinds
    <3>1. Len(given) > 0
      BY <2>1, <2>3 DEF StateAfter, EOFKinds
    <3>2. Chained(given)
      <4>1. given[1].kind \in StartKinds
        BY <2>1, <3>1 DEF StateAfter, canTransitionTo, validNextKinds
      <4>2. ASSUME NEW k \in 1 .. Len(given) - 1
            PROVE  canTransitionTo(given[k].kind, given[k + 1].kind)
        <5>1. k + 1 \in 1 .. Len(given) /\ (k + 1) - 1 = k /\ k # 0
          OBVIOUS
        <5> QED
          BY <2>1, <5>1 DEF StateAfter
      <4> QED
        BY <2>1, <2>3, <3>1, <4>1, <4>2 DEF Chained, StateAfter
    <3>3. Valued(given)
      BY <2>1 DEF Valued
    <3>4. OptimizeInv'
      <4>1. \A k \in 1 .. Len(given) : k <= 1 => Optimized(k) = given[k]
        BY DEF Optimized
      <4> QED
        BY <2>1, <2>3, <3>2, <3>3, <4>1 DEF OptimizeInv, Optimized
    <3> QED
      BY <2>2, <2>3, <3>4 DEF BalanceInv, SyntaxInv, AcceptedWellFormed, RejectedMalformed,
                              PatternsPrecompiled
  <2>4. CASE state \notin EOFKinds
    <3>1. ~Chained(given)
      BY <2>1, <2>4 DEF StateAfter, Chained
    <3> QED
      BY <2>2, <2>4, <3>1 DEF BalanceInv, SyntaxInv, OptimizeInv, AcceptedWellFormed,
                              RejectedMalformed, WellFormed, PatternsPrecompiled
  <2> QED
    BY <2>3, <2>4
<1>5. CASE OptimizeToken
  <2> USE <1>0, <1>5 DEF OptimizeToken, More
  <2>0. /\ Balanced(given) /\ Chained(given) /\ Valued(given)
        /\ \A k \in 1 .. Len(given) : tokens[k] = IF k <= index + 1 THEN Optimized(k) ELSE given[k]
        /\ \A k \in 1 .. index : OptimizableAt(k)
    BY DEF OptimizeInv
  <2>1. Token = Optimized(index + 1)
    BY <2>0 DEF Token
  <2>2. /\ IsRegexOperator(Token) <=> IsRegexOperator(given[index + 1])
        /\ Token.kind = "COMPARATOR" <=> given[index + 1].kind = "COMPARATOR"
        /\ Token.kind = "COMPARATOR" => Token = given[index + 1]
    BY <2>1, TokenTypes, PrecompileType DEF Optimized, IsRegexOperator
  <2>3. given[index + 1].kind = "COMPARATOR" => index + 2 <= Len(given)
    BY <2>0 DEF Chained, EOFKinds
  <2>4. index + 2 <= Len(given) => tokens[index + 2] = given[index + 2]
    BY <2>0
  <2>5. Unoptimizable <=> ~OptimizableAt(index + 1)
    BY <2>2, <2>3, <2>4 DEF Unoptimizable, OptimizableAt, IsRegexOperator
  <2>6. CASE Unoptimizable
    <3>1. ~Optimizable(given)
      BY <2>5, <2>6 DEF Optimizable, OptimizableAt
    <3> QED
      BY <2>6, <3>1 DEF CheckTypeOK, BalanceInv, SyntaxInv, OptimizeInv, AcceptedWellFormed,
                        RejectedMalformed, WellFormed, PatternsPrecompiled
  <2>7. CASE ~Unoptimizable
    <3>1. tokens' \in Seq(ExpressionToken) /\ Len(tokens') = Len(tokens)
      <4>1. CASE IsRegexOperator(Token)
        <5>1. index + 2 \in 1 .. Len(tokens)
          BY <2>2, <2>3, <4>1 DEF IsRegexOperator
        <5>2. Precompile(tokens[index + 2]) \in ExpressionToken
          BY <5>1, TokenTypes, PrecompileType
        <5> QED
          BY <2>7, <4>1, <5>1, <5>2
      <4> QED
        BY <2>7, <4>1
    <3>2. CheckTypeOK'
      BY <2>7, <3>1 DEF CheckTypeOK
    <3>3. OptimizeInv'
      <4>1. ASSUME NEW k \in 1 .. Len(given)
            PROVE  tokens'[k] = IF k <= index + 2 THEN Optimized(k) ELSE given[k]
        <5>1. CASE k = index + 2
          BY <2>0, <2>2, <2>4, <2>7, <5>1 DEF Optimized
        <5>2. CASE k # index + 2
          <6>1. tokens'[k] = tokens[k]
            BY <2>7, <5>2
          <6> QED
            BY <2>0, <5>2, <6>1
        <5> QED
          BY <5>1, <5>2
      <4>2. \A k \in 1 .. index + 1 : OptimizableAt(k)
        BY <2>0, <2>5, <2>7
      <4> QED
        BY <2>0, <2>7, <4>1, <4>2 DEF OptimizeInv, Optimized, OptimizableAt
    <3> QED
      BY <2>7, <3>2, <3>3 DEF BalanceInv, SyntaxInv, AcceptedWellFormed, RejectedMalformed,
                              PatternsPrecompiled
  <2> QED
    BY <2>6, <2>7
<1>6. CASE OptimizeDone
  <2> USE <1>0, <1>6 DEF OptimizeDone, More
  <2>1. CheckTypeOK'
    BY DEF CheckTypeOK
  <2>2. AcceptedWellFormed'
    BY DEF OptimizeInv, OptimizableAt, Optimizable, AcceptedWellFormed, WellFormed
  <2>3. PatternsPrecompiled'
    BY DEF OptimizeInv, Optimized, PatternsPrecompiled
  <2> QED
    BY <2>1, <2>2, <2>3 DEF BalanceInv, SyntaxInv, OptimizeInv, RejectedMalformed
<1>7. CASE Verdict \/ UNCHANGED checkVars
  BY <1>7 DEF Verdict, checkVars, CheckTypeOK, BalanceInv, SyntaxInv, OptimizeInv,
              AcceptedWellFormed, RejectedMalformed, PatternsPrecompiled, StateAfter,
              Optimized, OptimizableAt
<1> QED
  BY <1>1, <1>2, <1>3, <1>4, <1>5, <1>6, <1>7 DEF CheckNext

(* The invariant holds from the call of a constructor to its verdict. *)
THEOREM CheckInvariance == CheckSpec => []CheckIInv
BY CheckInitIInv, CheckStepIInv, PTL DEF CheckSpec

(* The passes never index outside the slice, whatever the tokens are. *)
THEOREM CheckTypeCorrect == CheckSpec => []CheckTypeOK
<1>1. CheckIInv => CheckTypeOK
  BY DEF CheckIInv
<1> QED
  BY <1>1, CheckInvariance, PTL

(* What the three loops let through is in the language, for every list... *)
THEOREM OnlyWellFormedAccepted == CheckSpec => []AcceptedWellFormed
<1>1. CheckIInv => AcceptedWellFormed
  BY DEF CheckIInv
<1> QED
  BY <1>1, CheckInvariance, PTL

(* ... and what they refuse is not. *)
THEOREM OnlyMalformedRejected == CheckSpec => []RejectedMalformed
<1>1. CheckIInv => RejectedMalformed
  BY DEF CheckIInv
<1> QED
  BY <1>1, CheckInvariance, PTL

(* The planner gets the tokens with every literal pattern compiled, and     *)
(* otherwise as they were given.                                            *)
THEOREM LiteralPatternsCompiled == CheckSpec => []PatternsPrecompiled
<1>1. CheckIInv => PatternsPrecompiled
  BY DEF CheckIInv
<1> QED
  BY <1>1, CheckInvariance, PTL

=============================================================================
