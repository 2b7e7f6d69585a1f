----------------------------- MODULE Expression -----------------------------
(***************************************************************************)
(* What an EvaluableExpression promises its user, without stages: it has   *)
(* the tree of its tokens, and an evaluation asks for a parameter only if  *)
(* the outcome depends on it, in the order in which a reader would need    *)
(* them, and answers with the outcome of the tree.                         *)
(***************************************************************************)
EXTENDS ExpressionTree

CONSTANT
  GetOutcomes  \* what asking for a parameter may return

VARIABLES
  tree,       \* the tree of the expression, or Unread
  constants,  \* the values of its literals, by their tokens
  checks,     \* whether an evaluation checks types
  asked,      \* what asking for parameters has returned, by their tokens
  reply       \* the outcome, or that there is none yet

vars == <<tree, constants, checks, asked, reply>>

Unread == <<"unread">>
NoReply == <<"idle">>
Awaited == <<"pending">>

Outcome == Meaning(tree, constants, checks, asked)
Undecided(outcome) == outcome[1] = "needs"

Init == tree = Unread /\ checks = TRUE /\ asked = << >> /\ reply = NoReply

Read ==
  /\ tree = Unread /\ tree' # Unread
  /\ UNCHANGED <<checks, asked, reply>>

Evaluate ==
  /\ tree # Unread /\ reply = NoReply
  /\ checks' \in BOOLEAN /\ reply' = Awaited
  /\ UNCHANGED <<tree, constants, asked>>

(* The parameter the outcome depends on is asked for; if it decides the      *)
(* outcome, the answer may be given at once.                                 *)
Ask ==
  /\ reply = Awaited /\ Undecided(Outcome)
  /\ \E got \in GetOutcomes :
       asked' = [at \in DOMAIN asked \cup { Outcome[2] } |->
                   IF at = Outcome[2] THEN got ELSE asked[at]]
  /\ reply' = Awaited \/ (reply' = Outcome' /\ ~Undecided(Outcome'))
  /\ UNCHANGED <<tree, constants, checks>>

Answer ==
  /\ reply = Awaited /\ ~Undecided(Outcome)
  /\ reply' = Outcome
  /\ UNCHANGED <<tree, constants, checks, asked>>

Next == Read \/ Evaluate \/ Ask \/ Answer

Spec == Init /\ [][Next]_vars

=============================================================================
