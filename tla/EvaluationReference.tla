------------------------ MODULE EvaluationReference ------------------------
(***************************************************************************)
(* Evaluation implements Expression: compiled stages, evaluated one by     *)
(* one, keep the promise that Expression makes for the written tree.       *)
(***************************************************************************)
EXTENDS Evaluation, CompileReference

VARIABLE
  written  \* the tree of the tokens, once they are compiled (history)

Unread == <<"unread">>

ReferenceInit == EvaluationInit /\ written = Unread

ReferenceNext ==
  /\ EvaluationNext
  /\ written' = IF compile' = "done" /\ written = Unread THEN Written ELSE written

ReferenceReturned == EvaluationReturned /\ UNCHANGED written

referenceVars == <<evaluationAllVars, written>>

ReferenceSpec ==
  /\ ReferenceInit /\ [][ReferenceNext \/ ReferenceReturned]_referenceVars
  /\ WF_referenceVars(ReferenceNext)

Promise ==
  INSTANCE Expression WITH
    tree <- written, constants <- IF written = Unread THEN << >> ELSE literals,
    checks <- ChecksTypes, asked <- env, reply <- answer, GetOutcomes <- Gets

(* Every evaluation of every expression does what Expression says: the      *)
(* descent, the mirroring, the elision of constant subtrees, the short      *)
(* circuits, the type checks and the order of errors together show nothing  *)
(* but the outcome of the written tree, and read no parameter it does not   *)
(* depend on.                                                               *)
EvaluatesAsWritten == Promise!Spec

=============================================================================
