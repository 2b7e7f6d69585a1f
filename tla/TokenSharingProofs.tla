------------------------- MODULE TokenSharingProofs -------------------------
(***************************************************************************)
(* Proofs about TokenSharing, for every list of tokens and any number of   *)
(* constructor calls with it.  What makes the verdicts stand is that a     *)
(* list with some of its patterns compiled is in the language only if the  *)
(* list was that it came from; and what makes the tokens stay is that a    *)
(* list that was accepted has no pattern left to compile.                  *)
(***************************************************************************)
EXTENDS TokenSharing, SyntaxCheckProofs

(* The string at k is the literal pattern of a regex operator, and compiles. *)
CompilesAt(t, k) ==
  /\ k > 1 /\ IsRegexOperator(t[k - 1])
  /\ t[k].kind = "STRING" /\ t[k].value \notin NonStrings \cup { "badRegex" }

(* The second list is the first one with some literal patterns compiled.     *)
CompiledFrom(t, u) ==
  /\ Len(u) = Len(t)
  /\ \A k \in 1 .. Len(t) :
       u[k] = t[k] \/ (CompilesAt(t, k) /\ u[k] = [kind |-> "PATTERN", value |-> "regex"])

(* There is nothing to compile in it, and no pass fails on it unless a       *)
(* ternary follows a pattern.                                                *)
Settled(t) ==
  /\ Balanced(t) /\ Valued(t) /\ Optimizable(t)
  /\ t # << >> /\ t[1].kind \in StartKinds /\ t[Len(t)].kind \in EOFKinds
  /\ \A k \in 1 .. Len(t) - 1 :
       \/ canTransitionTo(t[k].kind, t[k + 1].kind)
       \/ t[k].kind = "PATTERN" /\ t[k + 1].kind = "TERNARY"
  /\ \A k \in 2 .. Len(t) : IsRegexOperator(t[k - 1]) => t[k].kind # "STRING"

SharingTyped ==
  /\ calls \in Nat
  /\ verdicts \in Seq({ "accepted", "rejected" })
  /\ expressions \in Seq([planned : Seq(ExpressionToken), kept : Nat])

(* The expressions were planned from the tokens as they still are, and the   *)
(* calls after the first of them were given these.                           *)
ExpressionsInv ==
  /\ \A e \in DOMAIN expressions :
       expressions[e].planned = tokens /\ expressions[e].kept \in { 0, Len(tokens) }
  /\ expressions # << >> => Settled(tokens) /\ (given = tokens \/ phase = "accepted")

(* Once rejected, the list was outside the language at every later call.     *)
RejectedInv == (\E i \in DOMAIN verdicts : verdicts[i] = "rejected") => ~WellFormed(given)

SharingIInv ==
  /\ CheckIInv
  /\ SharingTyped /\ CompiledFrom(given, tokens) /\ ExpressionsInv /\ RejectedInv
  /\ RejectionStands

-----------------------------------------------------------------------------

(* Compiling changes no clause.                                              *)
LEMMA CompiledBalanced ==
  ASSUME NEW t \in Seq(ExpressionToken), NEW u \in Seq(ExpressionToken), CompiledFrom(t, u)
  PROVE  Balanced(t) <=> Balanced(u)
<1>1. ASSUME NEW kind \in { "CLAUSE", "CLAUSE_CLOSE" }
      PROVE  { k \in 1 .. Len(t) : t[k].kind = kind } = { k \in 1 .. Len(u) : u[k].kind = kind }
  BY DEF CompiledFrom, CompilesAt
<1> QED
  BY <1>1 DEF Balanced, Open

(* Compiling turns no operator into anything else.                           *)
LEMMA CompiledOperators ==
  ASSUME NEW t \in Seq(ExpressionToken), NEW u \in Seq(ExpressionToken), CompiledFrom(t, u),
         NEW k \in 1 .. Len(t)
  PROVE  /\ u[k].kind = "COMPARATOR" \/ t[k].kind = "COMPARATOR" => u[k] = t[k]
         /\ IsRegexOperator(u[k]) <=> IsRegexOperator(t[k])
         /\ u[k].kind = t[k].kind \/ (t[k].kind = "STRING" /\ u[k].kind = "PATTERN")
BY DEF CompiledFrom, CompilesAt, IsRegexOperator

(* Of a list outside the language none is made that is in it.                *)
LEMMA CompilingRepairsNothing ==
  ASSUME NEW t \in Seq(ExpressionToken), NEW u \in Seq(ExpressionToken), CompiledFrom(t, u), WellFormed(u)
  PROVE  WellFormed(t)
<1>1. Len(t) \in Nat /\ Len(u) = Len(t) /\ t # << >> /\ u # << >> /\ Len(t) > 0
  BY DEF CompiledFrom, WellFormed, Chained
<1>2. Balanced(t)
  BY CompiledBalanced DEF WellFormed
<1>3. Chained(t)
  <2>1. t[1].kind \in StartKinds
    <3>1. u[1] = t[1]
      BY <1>1 DEF CompiledFrom, CompilesAt
    <3> QED
      BY <3>1 DEF WellFormed, Chained
  <2>2. t[Len(t)].kind \in EOFKinds
    BY <1>1, CompiledOperators DEF WellFormed, Chained, EOFKinds
  <2>3. ASSUME NEW k \in 1 .. Len(t) - 1 PROVE canTransitionTo(t[k].kind, t[k + 1].kind)
    <3>1. k \in 1 .. Len(t) /\ k + 1 \in 1 .. Len(t) /\ (k + 1) - 1 = k
      OBVIOUS
    <3>2. canTransitionTo(u[k].kind, u[k + 1].kind)
      BY <1>1 DEF WellFormed, Chained
    <3>3. CASE u[k + 1] # t[k + 1]
      <4>1. t[k].kind = "COMPARATOR" /\ t[k + 1].kind = "STRING"
        BY <3>1, <3>3 DEF CompiledFrom, CompilesAt, IsRegexOperator
      <4> QED
        BY <4>1 DEF canTransitionTo, validNextKinds, StartKinds
    <3>4. CASE u[k + 1] = t[k + 1]
      <4>1. u[k].kind = t[k].kind \/ (t[k].kind = "STRING" /\ u[k].kind = "PATTERN")
        BY <3>1, CompiledOperators
      <4>2. validNextKinds("PATTERN") \subseteq validNextKinds("STRING")
        BY DEF validNextKinds
      <4> QED
        BY <3>2, <3>4, <4>1, <4>2 DEF canTransitionTo
    <3> QED
      BY <3>3, <3>4
  <2> QED
    BY <1>1, <2>1, <2>2, <2>3 DEF Chained
<1>4. Valued(t)
  BY <1>1 DEF WellFormed, Valued, CompiledFrom, CompilesAt, NonStrings
<1>5. Optimizable(t)
  <2> SUFFICES ASSUME NEW k \in 1 .. Len(t), t[k].kind = "COMPARATOR"
               PROVE  /\ t[k].value \notin NonStrings
                      /\ IsRegexOperator(t[k]) /\ t[k + 1].kind = "STRING" =>
                           t[k + 1].value \notin NonStrings \cup { "badRegex" }
    BY DEF Optimizable
  <2>1. u[k] = t[k] /\ u[k].value \notin NonStrings
    BY <1>1, CompiledOperators DEF WellFormed, Optimizable
  <2>2. k # Len(t)
    BY <1>1, <2>1 DEF WellFormed, Chained, EOFKinds
  <2>3. k + 1 \in 1 .. Len(t)
    BY <1>1, <2>2
  <2>4. u[k + 1] = t[k + 1] \/ CompilesAt(t, k + 1)
    BY <2>3 DEF CompiledFrom
  <2> QED
    BY <1>1, <2>1, <2>3, <2>4 DEF WellFormed, Optimizable, CompilesAt
<1> QED
  BY <1>2, <1>3, <1>4, <1>5 DEF WellFormed

(* What is accepted is settled.                                              *)
LEMMA AcceptedSettled ==
  ASSUME CheckIInv, phase = "accepted", CompiledFrom(given, tokens)
  PROVE  Settled(tokens)
<1>1. /\ given \in Seq(ExpressionToken) /\ tokens \in Seq(ExpressionToken)
      /\ Len(tokens) = Len(given) /\ Len(given) \in Nat
  BY DEF CheckIInv, CheckTypeOK
<1>2. /\ WellFormed(given) /\ given # << >> /\ Len(given) > 0
      /\ \A k \in 1 .. Len(given) :
           tokens[k] = IF k > 1 /\ IsRegexOperator(given[k - 1]) THEN Precompile(given[k]) ELSE given[k]
  BY <1>1 DEF CheckIInv, AcceptedWellFormed, PatternsPrecompiled, WellFormed, Chained
<1>3. \A k \in 1 .. Len(given) :
        /\ tokens[k].kind = "COMPARATOR" => tokens[k] = given[k] /\ k + 1 \in 1 .. Len(given)
        /\ IsRegexOperator(tokens[k]) <=> IsRegexOperator(given[k])
        /\ tokens[k].kind = given[k].kind \/ (given[k].kind = "STRING" /\ tokens[k].kind = "PATTERN")
  BY <1>1, <1>2, CompiledOperators DEF WellFormed, Chained, EOFKinds
<1>4. Balanced(tokens)
  BY <1>1, <1>2, CompiledBalanced DEF WellFormed
<1>5. Valued(tokens)
  BY <1>1, <1>2 DEF WellFormed, Valued, Precompile
<1>6. \A k \in 2 .. Len(tokens) : IsRegexOperator(tokens[k - 1]) => tokens[k].kind # "STRING"
  <2> SUFFICES ASSUME NEW k \in 2 .. Len(tokens), IsRegexOperator(tokens[k - 1]) PROVE tokens[k].kind # "STRING"
    OBVIOUS
  <2>1. k \in 1 .. Len(given) /\ k - 1 \in 1 .. Len(given) /\ k > 1
    BY <1>1
  <2>2. tokens[k] = Precompile(given[k])
    BY <1>2, <1>3, <2>1
  <2> QED
    BY <2>2 DEF Precompile
<1>7. Optimizable(tokens)
  <2> SUFFICES ASSUME NEW k \in 1 .. Len(tokens), tokens[k].kind = "COMPARATOR"
               PROVE  /\ tokens[k].value \notin NonStrings
                      /\ ~(IsRegexOperator(tokens[k]) /\ tokens[k + 1].kind = "STRING")
    BY DEF Optimizable
  <2>1. tokens[k] = given[k] /\ k + 1 \in 1 .. Len(given) /\ k + 1 \in 2 .. Len(tokens) /\ (k + 1) - 1 = k
    BY <1>1, <1>3
  <2>2. IsRegexOperator(tokens[k]) => tokens[k + 1].kind # "STRING"
    BY <1>6, <2>1
  <2> QED
    BY <1>1, <1>2, <2>1, <2>2 DEF WellFormed, Optimizable
<1>8. tokens # << >> /\ tokens[1].kind \in StartKinds /\ tokens[Len(tokens)].kind \in EOFKinds
  <2>1. tokens # << >> /\ tokens[1] = given[1] /\ Len(tokens) \in 1 .. Len(given)
    BY <1>1, <1>2
  <2> QED
    BY <1>1, <1>2, <1>3, <2>1 DEF WellFormed, Chained, EOFKinds
<1>9. ASSUME NEW k \in 1 .. Len(tokens) - 1
      PROVE  \/ canTransitionTo(tokens[k].kind, tokens[k + 1].kind)
             \/ tokens[k].kind = "PATTERN" /\ tokens[k + 1].kind = "TERNARY"
  <2>1. k \in 1 .. Len(given) /\ k + 1 \in 1 .. Len(given) /\ (k + 1) - 1 = k /\ k + 1 > 1
    BY <1>1
  <2>2. canTransitionTo(given[k].kind, given[k + 1].kind)
    BY <1>1, <1>2 DEF WellFormed, Chained
  <2>3. CASE tokens[k + 1].kind # given[k + 1].kind
    <3>1. IsRegexOperator(given[k])
      BY <1>2, <2>1, <2>3
    <3>2. tokens[k].kind = "COMPARATOR" /\ tokens[k + 1].kind = "PATTERN"
      BY <1>3, <2>1, <2>3, <3>1 DEF IsRegexOperator
    <3> QED
      BY <3>2 DEF canTransitionTo, validNextKinds, StartKinds
  <2>4. CASE tokens[k + 1].kind = given[k + 1].kind
    BY <1>3, <2>1, <2>2, <2>4 DEF canTransitionTo, validNextKinds, InfixKinds
  <2> QED
    BY <2>3, <2>4
<1> QED
  BY <1>4, <1>5, <1>6, <1>7, <1>8, <1>9 DEF Settled

-----------------------------------------------------------------------------

(* A step of the passes compiles at most one more pattern of a list that is  *)
(* not settled yet.                                                          *)
LEMMA CheckStepCompiles ==
  ASSUME CheckIInv, CheckIInv', CheckNext, CompiledFrom(given, tokens)
  PROVE  /\ CompiledFrom(given, tokens)' /\ given' = given
         /\ phase # "accepted" /\ (Settled(tokens) => tokens' = tokens)
<1>1. /\ given \in Seq(ExpressionToken) /\ tokens \in Seq(ExpressionToken) /\ tokens' \in Seq(ExpressionToken)
      /\ Len(tokens) = Len(given) /\ Len(given) \in Nat /\ index \in 0 .. Len(tokens)
  BY DEF CheckIInv, CheckTypeOK
<1>2. given' = given /\ phase # "accepted"
  BY DEF CheckNext, CountParens, BalanceDone, CheckToken, SyntaxDone, OptimizeToken, OptimizeDone
<1>3. CASE tokens' = tokens
  BY <1>2, <1>3 DEF CompiledFrom
<1>4. CASE tokens' # tokens
  <2>1. OptimizeToken /\ ~Unoptimizable /\ IsRegexOperator(Token) /\ tokens' = [tokens EXCEPT ![index + 2] = Precompile(@)]
    BY <1>4 DEF CheckNext, CountParens, BalanceDone, CheckToken, SyntaxDone, OptimizeToken, OptimizeDone
  <2>2. phase' = "optimize" /\ phase = "optimize" /\ index' = index + 1
    BY <2>1 DEF OptimizeToken
  <2>3. /\ \A k \in 1 .. Len(given) : tokens'[k] = IF k <= index + 2 THEN Optimized(k) ELSE given[k]
        /\ \A k \in 1 .. index + 1 : OptimizableAt(k)
        /\ Chained(given)
    BY <1>1, <1>2, <2>2 DEF CheckIInv, OptimizeInv, Optimized, OptimizableAt
  <2>4. ASSUME NEW k \in 1 .. Len(given), tokens'[k] # given[k]
        PROVE  CompilesAt(given, k) /\ tokens'[k] = [kind |-> "PATTERN", value |-> "regex"]
    <3>1. k <= index + 2 /\ k > 1 /\ IsRegexOperator(given[k - 1]) /\ tokens'[k] = Precompile(given[k])
      BY <1>1, <2>3, <2>4 DEF Optimized
    <3>2. given[k].kind = "STRING" /\ tokens'[k] = [kind |-> "PATTERN", value |-> "regex"]
      BY <2>4, <3>1 DEF Precompile
    <3>3. k - 1 \in 1 .. index + 1 /\ (k - 1) + 1 = k
      BY <1>1, <3>1
    <3>4. given[k].value \notin NonStrings \cup { "badRegex" }
      BY <2>3, <3>1, <3>2, <3>3 DEF OptimizableAt, IsRegexOperator
    <3> QED
      BY <3>1, <3>2, <3>4 DEF CompilesAt
  <2>5. CompiledFrom(given, tokens)'
    <3>1. Len(tokens') = Len(given)
      BY <1>1, <1>2 DEF CheckIInv, CheckTypeOK
    <3> QED
      BY <1>2, <2>4, <3>1 DEF CompiledFrom, CompilesAt
  <2>6. ASSUME Settled(tokens) PROVE FALSE
    <3>1. CASE index + 2 \in 2 .. Len(tokens)
      <4>1. tokens[index + 2].kind # "STRING"
        BY <1>1, <2>1, <2>6, <3>1 DEF Settled, Token
      <4> QED
        BY <1>1, <1>4, <2>1, <3>1, <4>1 DEF Precompile
    <3>2. CASE index + 2 \notin 2 .. Len(tokens)
      BY <1>1, <2>1, <3>2 DEF Unoptimizable
    <3> QED
      BY <3>1, <3>2
  <2> QED
    BY <1>2, <2>5, <2>6
<1> QED
  BY <1>2, <1>3, <1>4

LEMMA SharingInitIInv == SharingInit => SharingIInv
<1> SUFFICES ASSUME SharingInit PROVE SharingIInv
  OBVIOUS
<1>1. CheckIInv
  BY CheckInitIInv DEF SharingInit
<1>2. DOMAIN << >> = { }
  OBVIOUS
<1> QED
  BY <1>1, <1>2 DEF SharingInit, CheckInit, SharingIInv, SharingTyped, CompiledFrom, ExpressionsInv, RejectedInv,
                    RejectionStands

LEMMA SharingStepIInv == SharingIInv /\ [SharingNext]_sharingVars => SharingIInv'
<1> SUFFICES ASSUME SharingIInv, [SharingNext]_sharingVars PROVE SharingIInv'
  OBVIOUS
<1>1. /\ CheckIInv /\ CompiledFrom(given, tokens)
      /\ given \in Seq(ExpressionToken) /\ tokens \in Seq(ExpressionToken) /\ Len(tokens) \in Nat
      /\ Len(tokens) = Len(given)
      /\ calls \in Nat /\ verdicts \in Seq({ "accepted", "rejected" })
      /\ expressions \in Seq([planned : Seq(ExpressionToken), kept : Nat])
  BY DEF SharingIInv, SharingTyped, CheckIInv, CheckTypeOK
<1>2. CASE CheckStep
  <2>1. CheckIInv'
    BY <1>1, <1>2, CheckStepIInv DEF CheckStep
  <2>2. /\ CompiledFrom(given, tokens)' /\ given' = given /\ phase # "accepted"
        /\ Settled(tokens) => tokens' = tokens
    BY <1>1, <1>2, <2>1, CheckStepCompiles DEF CheckStep
  <2>3. UNCHANGED <<calls, verdicts, expressions>>
    BY <1>2 DEF CheckStep
  <2>4. CASE expressions = << >>
    <3>1. ExpressionsInv'
      BY <2>3, <2>4 DEF ExpressionsInv
    <3> QED
      BY <2>1, <2>2, <2>3, <3>1 DEF SharingIInv, SharingTyped, RejectedInv, RejectionStands
  <2>5. CASE expressions # << >>
    <3>1. tokens' = tokens /\ given = tokens
      BY <2>2, <2>5 DEF SharingIInv, ExpressionsInv
    <3> QED
      BY <2>1, <2>2, <2>3, <3>1 DEF SharingIInv, SharingTyped, ExpressionsInv, RejectedInv, RejectionStands
  <2> QED
    BY <2>4, <2>5
<1>3. CASE Accept
  <2>1. /\ UNCHANGED <<given, tokens, phase, calls>> /\ CheckIInv' /\ CompiledFrom(given, tokens)'
        /\ phase = "accepted" /\ verdicts' = Append(verdicts, "accepted")
    BY <1>1, <1>3 DEF Accept, CheckIInv, CheckTypeOK, BalanceInv, SyntaxInv, OptimizeInv, AcceptedWellFormed,
                      RejectedMalformed, PatternsPrecompiled, StateAfter, Optimized, OptimizableAt, CompiledFrom
  <2>2. Settled(tokens)
    BY <1>1, <2>1, AcceptedSettled
  <2>3. PICK new \in [planned : Seq(ExpressionToken), kept : Nat] :
          new.planned = tokens /\ new.kept = Len(tokens) /\ expressions' = Append(expressions, new)
    BY <1>1, <1>3 DEF Accept
  <2>4. ExpressionsInv'
    <3>1. ASSUME NEW e \in DOMAIN expressions'
          PROVE  expressions'[e].planned = tokens /\ expressions'[e].kept \in { 0, Len(tokens) }
      BY <1>1, <2>3 DEF SharingIInv, ExpressionsInv
    <3> QED
      BY <2>1, <2>2, <3>1 DEF ExpressionsInv
  <2>5. \A i \in DOMAIN verdicts : verdicts[i] # "rejected"
    BY <2>1 DEF SharingIInv, RejectedInv, CheckIInv, AcceptedWellFormed
  <2>6. \A i \in DOMAIN verdicts' : verdicts'[i] # "rejected"
    BY <1>1, <2>1, <2>5
  <2>7. SharingTyped'
    BY <1>1, <2>1, <2>3 DEF SharingTyped
  <2> QED
    BY <2>1, <2>4, <2>6, <2>7 DEF SharingIInv, RejectedInv, RejectionStands
<1>4. CASE Reject
  <2>1. /\ UNCHANGED <<given, tokens, phase, calls, expressions>> /\ CheckIInv' /\ CompiledFrom(given, tokens)'
        /\ phase = "rejected" /\ verdicts' = Append(verdicts, "rejected")
    BY <1>1, <1>4 DEF Reject, CheckIInv, CheckTypeOK, BalanceInv, SyntaxInv, OptimizeInv, AcceptedWellFormed,
                      RejectedMalformed, PatternsPrecompiled, StateAfter, Optimized, OptimizableAt, CompiledFrom
  <2>2. ~WellFormed(given)
    BY <2>1 DEF SharingIInv, CheckIInv, RejectedMalformed
  <2>3. ASSUME NEW i \in DOMAIN verdicts', NEW j \in DOMAIN verdicts', i < j, verdicts'[i] = "rejected"
        PROVE  verdicts'[j] = "rejected"
    <3>1. CASE j \in DOMAIN verdicts
      <4>1. i \in DOMAIN verdicts /\ verdicts'[i] = verdicts[i] /\ verdicts'[j] = verdicts[j]
        BY <1>1, <2>1, <2>3, <3>1
      <4> QED
        BY <2>3, <3>1, <4>1 DEF SharingIInv, RejectionStands
    <3>2. CASE j \notin DOMAIN verdicts
      <4>1. j = Len(verdicts) + 1
        BY <1>1, <2>1, <3>2
      <4> QED
        BY <1>1, <2>1, <4>1
    <3> QED
      BY <3>1, <3>2
  <2>4. SharingTyped'
    BY <1>1, <2>1 DEF SharingTyped
  <2> QED
    BY <2>1, <2>2, <2>3, <2>4 DEF SharingIInv, ExpressionsInv, RejectedInv, RejectionStands
<1>5. CASE CallAgain
  <2>1. /\ given' = tokens /\ UNCHANGED <<tokens, verdicts, expressions>> /\ calls' \in Nat
        /\ phase' = "balance" /\ index' = 0 /\ parens' = 0 /\ state' = "UNKNOWN"
    BY <1>1, <1>5 DEF CallAgain
  <2>2. CheckTypeOK'
    BY <1>1, <2>1 DEF CheckTypeOK, TokenKinds
  <2>3. CheckIInv'
    BY <2>1, <2>2, OpenNothing
       DEF CheckIInv, BalanceInv, SyntaxInv, OptimizeInv, AcceptedWellFormed, RejectedMalformed, PatternsPrecompiled
  <2>4. WellFormed(tokens) => WellFormed(given)
    BY <1>1, CompilingRepairsNothing
  <2>5. CompiledFrom(given, tokens)'
    BY <2>1 DEF CompiledFrom
  <2>6. ExpressionsInv' /\ RejectedInv'
    BY <2>1, <2>4 DEF SharingIInv, ExpressionsInv, RejectedInv
  <2>7. SharingTyped' /\ RejectionStands'
    BY <1>1, <2>1 DEF SharingIInv, SharingTyped, RejectionStands
  <2> QED
    BY <2>3, <2>5, <2>6, <2>7 DEF SharingIInv
<1>6. ASSUME NEW e \in DOMAIN expressions, CleanupTokens(e) PROVE SharingIInv'
  <2>1. /\ expressions' = [expressions EXCEPT ![e].kept = 0]
        /\ UNCHANGED <<given, tokens, phase, index, parens, state, calls, verdicts>>
    BY <1>6 DEF CleanupTokens
  <2>2. CheckIInv' /\ CompiledFrom(given, tokens)'
    BY <1>1, <2>1 DEF CheckIInv, CheckTypeOK, BalanceInv, SyntaxInv, OptimizeInv, AcceptedWellFormed,
                      RejectedMalformed, PatternsPrecompiled, StateAfter, Optimized, OptimizableAt, CompiledFrom
  <2>3. expressions' \in Seq([planned : Seq(ExpressionToken), kept : Nat]) /\ Len(expressions') = Len(expressions)
    <3> DEFINE Kept == [planned : Seq(ExpressionToken), kept : Nat]
    <3>1. PICK old \in Kept : old = expressions[e]
      <4>1. expressions \in Seq(Kept)
        BY <1>1
      <4> HIDE DEF Kept
      <4> QED
        BY <4>1
    <3>2. [old EXCEPT !.kept = 0] \in Kept
      OBVIOUS
    <3>3. expressions' = [expressions EXCEPT ![e] = [old EXCEPT !.kept = 0]] /\ expressions \in Seq(Kept)
      BY <1>1, <2>1, <3>1
    <3> HIDE DEF Kept
    <3>4. expressions' \in Seq(Kept) /\ Len(expressions') = Len(expressions)
      BY <3>2, <3>3
    <3> QED
      BY <3>4 DEF Kept
  <2>4. ExpressionsInv'
    <3>1. ASSUME NEW f \in DOMAIN expressions'
          PROVE  expressions'[f].planned = tokens /\ expressions'[f].kept \in { 0, Len(tokens) }
      BY <1>1, <2>1 DEF SharingIInv, ExpressionsInv
    <3> QED
      BY <2>1, <3>1 DEF SharingIInv, ExpressionsInv
  <2> QED
    BY <1>1, <2>1, <2>2, <2>3, <2>4 DEF SharingIInv, SharingTyped, RejectedInv, RejectionStands
<1>7. CASE UNCHANGED sharingVars
  BY <1>1, <1>7 DEF sharingVars, SharingIInv, SharingTyped, ExpressionsInv, RejectedInv, RejectionStands,
                    CheckIInv, CheckTypeOK, BalanceInv, SyntaxInv, OptimizeInv, AcceptedWellFormed,
                    RejectedMalformed, PatternsPrecompiled, StateAfter, Optimized, OptimizableAt, CompiledFrom
<1> QED
  BY <1>2, <1>3, <1>4, <1>5, <1>6, <1>7 DEF SharingNext

LEMMA SharingInvariant == SharingSpec => []SharingIInv
BY SharingInitIInv, SharingStepIInv, PTL DEF SharingSpec

LEMMA SharingInvSuffices == SharingIInv => TokensAsPlanned /\ VerdictsStand
<1> SUFFICES ASSUME SharingIInv PROVE TokensAsPlanned /\ OnlyTernaryRejected
  BY DEF SharingIInv, VerdictsStand
<1>1. tokens \in Seq(ExpressionToken) /\ Len(tokens) \in Nat
  BY DEF SharingIInv, CheckIInv, CheckTypeOK
<1>2. TokensAsPlanned
  <2> SUFFICES ASSUME NEW e \in DOMAIN expressions, expressions[e].kept > 0
               PROVE  Tokens(e) = expressions[e].planned
    BY DEF TokensAsPlanned, Vars
  <2>1. expressions[e].planned = tokens /\ expressions[e].kept = Len(tokens)
    BY DEF SharingIInv, ExpressionsInv
  <2>2. SubSeq(tokens, 1, Len(tokens)) = tokens
    BY <1>1
  <2> QED
    BY <2>1, <2>2 DEF Tokens
<1>3. OnlyTernaryRejected
  <2> SUFFICES ASSUME phase = "rejected", expressions # << >>,
                      \A k \in 1 .. Len(tokens) - 1 : ~(tokens[k].kind = "PATTERN" /\ tokens[k + 1].kind = "TERNARY")
               PROVE  FALSE
    BY DEF OnlyTernaryRejected
  <2>1. given = tokens /\ Settled(tokens) /\ ~WellFormed(given)
    BY DEF SharingIInv, ExpressionsInv, CheckIInv, RejectedMalformed
  <2> QED
    BY <2>1 DEF Settled, WellFormed, Chained
<1> QED
  BY <1>2, <1>3

(* Whoever shares a list of tokens, an expression keeps showing those that   *)
(* it was planned from (Tokens, Vars, CleanupTokens).                        *)
THEOREM TokensStayAsPlanned == SharingSpec => []TokensAsPlanned
BY SharingInvariant, SharingInvSuffices, PTL

(* However often a list is handed in, the answer stays: a rejected one is    *)
(* never repaired by what the passes write into it, and an accepted one is   *)
(* spoilt only for a ternary after a compiled pattern.                       *)
THEOREM VerdictsAlwaysStand == SharingSpec => []VerdictsStand
BY SharingInvariant, SharingInvSuffices, PTL

(* What holds of the passes on a list that is handed in once holds of every  *)
(* call.                                                                     *)
THEOREM EveryCallChecks ==
  SharingSpec => [](CheckTypeOK /\ AcceptedWellFormed /\ RejectedMalformed /\ PatternsPrecompiled)
<1>1. SharingIInv => CheckTypeOK /\ AcceptedWellFormed /\ RejectedMalformed /\ PatternsPrecompiled
  BY DEF SharingIInv, CheckIInv
<1> QED
  BY <1>1, SharingInvariant, PTL

=============================================================================
