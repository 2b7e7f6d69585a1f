---------------------------- MODULE TokenSharing ----------------------------
(***************************************************************************)
(* One slice of tokens handed to NewEvaluableExpressionFromTokens more     *)
(* than once: by a caller who keeps it, or who builds an expression from   *)
(* the Tokens() of another.  Every call runs the checks of SyntaxCheck on  *)
(* the slice, optimizeTokens writes its patterns into it, and every        *)
(* expression that is built keeps it, so that what a call writes is seen   *)
(* by later calls and by the expressions of earlier ones.  The calls are   *)
(* made one after the other.                                               *)
(***************************************************************************)
EXTENDS SyntaxCheck

CONSTANT
  MaxCalls  \* bound: how many calls are made

ASSUME CallsAssumption == MaxCalls \in Nat

VARIABLES
  calls,       \* how many calls have been made
  verdicts,    \* how the calls have ended (history)
  expressions  \* per expression, what it was planned from (history) and how much it keeps

sharingVars == <<given, tokens, phase, index, parens, state, calls, verdicts, expressions>>

SharingInit == CheckInit /\ calls = 1 /\ verdicts = << >> /\ expressions = << >>

(* What the expression shows of the shared slice: Tokens, and Vars with each *)
(* name for the place it is at.                                              *)
Tokens(e) == SubSeq(tokens, 1, expressions[e].kept)
NamesIn(t) == { k \in 1 .. Len(t) : t[k].kind = "VARIABLE" /\ t[k].value \notin NonStrings }
Vars(e) == NamesIn(Tokens(e))

(* A call is in progress until it has a verdict. *)
InProgress == Len(verdicts) < calls

CheckStep == CheckNext /\ UNCHANGED <<calls, verdicts, expressions>>

(* The call returns an expression that keeps the slice. *)
Accept ==
  /\ InProgress /\ phase = "accepted"
  /\ verdicts' = Append(verdicts, phase)
  /\ expressions' = Append(expressions, [planned |-> tokens, kept |-> Len(tokens)])
  /\ UNCHANGED <<given, tokens, phase, index, parens, state, calls>>

Reject ==
  /\ InProgress /\ phase = "rejected"
  /\ verdicts' = Append(verdicts, phase)
  /\ UNCHANGED <<given, tokens, phase, index, parens, state, calls, expressions>>

(* Another call with the slice as it is now. *)
CallAgain ==
  /\ ~InProgress /\ calls < MaxCalls
  /\ calls' = calls + 1
  /\ given' = tokens
  /\ phase' = "balance" /\ index' = 0 /\ parens' = 0 /\ state' = "UNKNOWN"
  /\ UNCHANGED <<tokens, verdicts, expressions>>

(* Mutant: the tokens are zeroed, to let go of their values. *)
CleanupTokensZeroing(e) ==
  /\ ~InProgress /\ expressions[e].kept > 0
  /\ expressions' = [expressions EXCEPT ![e].kept = 0]
  /\ tokens' = [k \in DOMAIN tokens |-> [kind |-> "UNKNOWN", value |-> "nil"]]
  /\ UNCHANGED <<given, phase, index, parens, state, calls, verdicts>>

CleanupTokens(e) ==
  /\ ~InProgress /\ expressions[e].kept > 0
  /\ expressions' = [expressions EXCEPT ![e].kept = 0]
  /\ UNCHANGED <<given, tokens, phase, index, parens, state, calls, verdicts>>

SharingNext ==
  \/ CheckStep \/ Accept \/ Reject \/ CallAgain
  \/ \E e \in DOMAIN expressions : CleanupTokens(e)

SharingSpec == SharingInit /\ [][SharingNext]_sharingVars

-----------------------------------------------------------------------------

(* Whatever else the slice is used for, an expression that has not been      *)
(* cleaned up shows the tokens it was planned from, and all the variables    *)
(* its evaluation asks for.                                                  *)
TokensAsPlanned ==
  \A e \in DOMAIN expressions :
    expressions[e].kept > 0 =>
      Tokens(e) = expressions[e].planned /\ Vars(e) = NamesIn(expressions[e].planned)

(* A list that was rejected is rejected whenever it is tried again, although *)
(* the call that rejected it may have compiled some of its patterns.         *)
RejectionStands ==
  \A i, j \in DOMAIN verdicts : i < j /\ verdicts[i] = "rejected" => verdicts[j] = "rejected"

(* A list that was accepted is rejected later for one reason only: a pattern *)
(* that was compiled into it may not be followed by a ternary operator.      *)
OnlyTernaryRejected ==
  phase = "rejected" /\ expressions # << >> =>
    \E k \in 1 .. Len(tokens) - 1 : tokens[k].kind = "PATTERN" /\ tokens[k + 1].kind = "TERNARY"

(* The verdict on a list is the same whenever it is asked for, but for a     *)
(* ternary after a pattern.                                                  *)
VerdictsStand == RejectionStands /\ OnlyTernaryRejected

=============================================================================
