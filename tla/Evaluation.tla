----------------------------- MODULE Evaluation -----------------------------
(***************************************************************************)
(* EvaluableExpression.Eval: evaluateStage walks the compiled stages and   *)
(* computes the outcome, with the short circuits of the logical operators  *)
(* and the ternaries and the type checks that ChecksTypes asks for.        *)
(*                                                                         *)
(* The recursion of evaluateStage is the stack frames; value is what the   *)
(* call that returned last returned.  The parameters are the user's code:  *)
(* each Get returns any value or an error, and env remembers the outcome,  *)
(* sanitized, by the number of the token that asked.                       *)
(***************************************************************************)
EXTENDS Compile

CONSTANT
  ParameterValues  \* what Parameters.Get may return

VARIABLES
  ChecksTypes,  \* the field of the expression, as the user has set it
  frames,       \* the calls of evaluateStage in progress, the innermost last
  value,        \* what the last call to return returned
  env,          \* what Get returned, by the token that asked (history)
  answer        \* what Eval returned, or Pending

evaluationVars == <<ChecksTypes, frames, value, env, answer>>

Idle == <<"idle">>
Pending == <<"pending">>

(* The int that stands for a right side that is not evaluated. *)
shortCircuitHolder == <<"int", "-1">>

EvaluationInit ==
  /\ CompileInit
  /\ ChecksTypes = TRUE /\ frames = << >> /\ value = Nil /\ env = << >> /\ answer = Idle

-----------------------------------------------------------------------------
(* Calls and returns *)

Enter(k) == [stage |-> k, pc |-> "start", left |-> Nil]
Current == frames[Len(frames)]
Stage == program[Current.stage]
Outer == SubSeq(frames, 1, Len(frames) - 1)
Set(frame) == Append(Outer, frame)

Running(pc) == answer = Pending /\ frames # << >> /\ Current.pc = pc

Eval ==
  /\ compile = "done" /\ answer = Idle
  /\ ChecksTypes' \in BOOLEAN
  /\ frames' = <<Enter(root)>>
  /\ answer' = Pending
  /\ UNCHANGED <<value, env>>

(* The innermost call returns; an error or a panic leaves all of them. *)
ReturnOutcome(outcome) ==
  IF IsValue(outcome) /\ Len(frames) > 1
    THEN frames' = Outer /\ value' = outcome[2] /\ UNCHANGED answer
    ELSE frames' = << >> /\ answer' = outcome /\ UNCHANGED value

-----------------------------------------------------------------------------
(* evaluateStage *)

(* The call for a child, or nil where there is none. *)
EvaluateChild(child, self) ==
  IF child = NilStage
    THEN frames' = Set(self) /\ value' = Nil
    ELSE frames' = Append(Set(self), Enter(child)) /\ UNCHANGED value

(* Mutant: the left child is evaluated again when it has returned. *)
EvaluateLeftAgain ==
  /\ Running("start")
  /\ EvaluateChild(Stage.leftStage, Current)
  /\ UNCHANGED <<ChecksTypes, env, answer>>

EvaluateLeft ==
  /\ Running("start")
  /\ EvaluateChild(Stage.leftStage, [Current EXCEPT !.pc = "left"])
  /\ UNCHANGED <<ChecksTypes, env, answer>>

(* finalize's shortCircuit, and the cases in which the left value returns. *)
ReturnsLeft ==
  \/ Stage.symbol = "AND" /\ value = Bool(FALSE)
  \/ Stage.symbol = "OR" /\ value = Bool(TRUE)
  \/ Stage.symbol = "COALESCE" /\ value # Nil

(* Mutant: the right side of a colon is always evaluated. *)
SkipsRightOfQuestion == Stage.symbol = "TERNARY_TRUE" /\ value = Bool(FALSE)

(* The cases in which the right side is not evaluated, but the operator is. *)
SkipsRight ==
  \/ Stage.symbol = "TERNARY_TRUE" /\ value = Bool(FALSE)
  \/ Stage.symbol = "TERNARY_FALSE" /\ value # Nil

ShortCircuit ==
  /\ Running("left") /\ ReturnsLeft
  /\ ReturnOutcome(Value(value))
  /\ UNCHANGED <<ChecksTypes, env>>

SkipRight ==
  /\ Running("left") /\ SkipsRight
  /\ frames' = Set([Current EXCEPT !.pc = "right", !.left = value])
  /\ value' = shortCircuitHolder
  /\ UNCHANGED <<ChecksTypes, env, answer>>

(* Mutant: the left child is evaluated for both sides. *)
EvaluateLeftTwice ==
  /\ Running("left") /\ ~ReturnsLeft /\ ~SkipsRight
  /\ EvaluateChild(Stage.leftStage, [Current EXCEPT !.pc = "right", !.left = value])
  /\ UNCHANGED <<ChecksTypes, env, answer>>

EvaluateRight ==
  /\ Running("left") /\ ~ReturnsLeft /\ ~SkipsRight
  /\ EvaluateChild(Stage.rightStage, [Current EXCEPT !.pc = "right", !.left = value])
  /\ UNCHANGED <<ChecksTypes, env, answer>>

(* The operator of a stage that uses nothing but the values of its children. *)
OperatorOutcome(l, r) ==
  CASE Stage.symbol = "LITERAL" -> Value(Stage.value)
    [] Stage.operator = "noopStageRight" -> Value(r)
    [] Stage.operator = "ensureSlice" -> Value(ensureSlice(r))
    [] Stage.operator = "ensureCollectedArgs" -> Value(ensureCollectedArgs(r))
    [] Stage.operator = "FUNCTIONAL" -> Recovered(Function(FunctionArgs(r)))
    [] OTHER -> Apply(Stage.operator, l, r)

AsksParameter == Stage.operator \in { "parameter", "ACCESS" }

ApplyOperator ==
  /\ Running("right") /\ ~AsksParameter
  /\ ReturnOutcome(IF ChecksTypes /\ ~TypeChecked(Stage.checks, Current.left, value)
                     THEN Error
                     ELSE OperatorOutcome(Current.left, value))
  /\ UNCHANGED <<ChecksTypes, env>>

(* sanitizedParameters.Get *)
Gets == { Value(castToFloat64(v)) : v \in ParameterValues } \cup { Error }

(* makeParameterStage and makeAccessorStage ask for the parameter first; an  *)
(* accessor converts what it reaches.                                        *)
AskParameter ==
  /\ Running("right") /\ AsksParameter
  /\ \E got \in Gets :
       /\ env' = [at \in DOMAIN env \cup { Stage.at } |-> IF at = Stage.at THEN got ELSE env[at]]
       /\ ReturnOutcome(IF IsValue(got) /\ Stage.operator = "ACCESS"
                          THEN Recovered(Access(got[2], AccessorArgs(value)))
                          ELSE got)
  /\ UNCHANGED ChecksTypes

-----------------------------------------------------------------------------

EvaluationStep ==
  \/ Eval \/ EvaluateLeft \/ ShortCircuit \/ SkipRight \/ EvaluateRight
  \/ ApplyOperator \/ AskParameter

EvaluationNext ==
  \/ CompileNext /\ UNCHANGED evaluationVars
  \/ EvaluationStep /\ UNCHANGED compileAllVars

evaluationAllVars == <<compileAllVars, evaluationVars>>

IsAnswer == answer \notin { Idle, Pending }

EvaluationReturned ==
  /\ phase = "rejected" \/ plan \in { "rejected", "panic" } \/ IsAnswer
  /\ UNCHANGED evaluationAllVars

(* One goroutine compiles and evaluates, and Get and the functions return. *)
EvaluationSpec ==
  /\ EvaluationInit /\ [][EvaluationNext \/ EvaluationReturned]_evaluationAllVars
  /\ WF_evaluationAllVars(EvaluationNext)

-----------------------------------------------------------------------------

(* Type invariant: a call is at a stage of the program, deeper calls are at *)
(* children of the stages of the calls around them, and calls are in        *)
(* progress exactly while an answer is pending.                             *)
EvaluationTypeOK ==
  /\ ChecksTypes \in BOOLEAN
  /\ (answer = Pending) = (frames # << >>)
  /\ DOMAIN env \subseteq DOMAIN tokens
  /\ \A f \in DOMAIN frames :
       /\ frames[f].stage \in Places
       /\ frames[f].pc \in { "start", "left", "right" }
       /\ f > 1 =>
            frames[f].stage = program[frames[f - 1].stage][
              IF frames[f - 1].pc = "left" THEN "leftStage" ELSE "rightStage"]

(* With ChecksTypes no operator meets an operand it asserts to be of        *)
(* another type, whatever the operators, the literals and the parameters:   *)
(* the checks of a symbol suffice for its operator, they stay with it when  *)
(* stages are mirrored, and a right side that is skipped is never asserted. *)
TypeChecksSuffice == ChecksTypes => answer # Assertion

(* "If true, this library will return error messages when invalid types are *)
(* used."                                                                    *)
ErrorsNotPanics == ChecksTypes => answer \notin { Assertion, Uncomparable }

(* Every evaluation answers. *)
Answers == <>(phase = "rejected" \/ plan = "rejected" \/ IsAnswer)

=============================================================================
