---------------------------- MODULE StagePlanner ----------------------------
(***************************************************************************)
(* planStages of stagePlanner.go up to reorderStages: the recursive-descent *)
(* planner that reads the checked tokens from a tokenStream and builds the *)
(* tree of evaluation stages.  It runs after SyntaxCheck in the same       *)
(* constructor, so the specification continues that one.                   *)
(*                                                                         *)
(* The recursion is explicit: stack holds a frame for every planner        *)
(* function that has not returned.  A step runs the function of the top    *)
(* frame from one call to the next: pc "start" means that it was just      *)
(* called, any other pc that the call made there returned ret.  The        *)
(* tokenStream is tokens with index; a next() that rewind() undoes is a    *)
(* test of Token.  stages is the heap: a stage is its place there, and     *)
(* NilStage is a nil *evaluationStage.                                     *)
(***************************************************************************)
EXTENDS SyntaxCheck

VARIABLES
  plan,      \* "idle" before planStages, "running", or how it ended
  stages,    \* the stages made so far
  stack,     \* the planner functions in progress, the innermost last
  ret,       \* what the last function to return returned
  misclosed  \* how many clauses planValue closed on no CLAUSE_CLOSE (history)

planVars == <<plan, stages, stack, ret, misclosed>>

NilStage == 0

-----------------------------------------------------------------------------
(* The precedence levels: the precedencePlanner of each, as init makes them *)

Planner(kind, symbols, next, nextRight) ==
  [validKind |-> kind, validSymbols |-> symbols, next |-> next, nextRight |-> nextRight]

precedencePlanner ==
  [ planSeparator |-> Planner("SEPARATOR", separatorSymbols, "planTernary", "planSeparator"),
    planLogicalOr |-> Planner("LOGICALOP", Table({ <<"||", "OR">> }), "planLogicalAnd", "planLogicalOr"),
    planLogicalAnd |-> Planner("LOGICALOP", Table({ <<"&&", "AND">> }), "planComparator", "planLogicalAnd"),
    planComparator |-> Planner("COMPARATOR", comparatorSymbols, "planBitwiseOr", "planComparator"),
    planBitwiseOr |-> Planner("MODIFIER", bitwiseOrSymbols, "planBitwiseXor", "planBitwiseOr"),
    planBitwiseXor |-> Planner("MODIFIER", bitwiseXorSymbols, "planBitwiseAnd", "planBitwiseXor"),
    planBitwiseAnd |-> Planner("MODIFIER", bitwiseAndSymbols, "planShift", "planBitwiseAnd"),
    planShift |-> Planner("MODIFIER", bitwiseShiftSymbols, "planAdditive", "planShift"),
    planAdditive |-> Planner("MODIFIER", additiveSymbols, "planMultiplicative", "planAdditive"),
    planMultiplicative |->
      Planner("MODIFIER", multiplicativeSymbols, "planExponential", "planMultiplicative"),
    planExponential |->
      Planner("MODIFIER", exponentialSymbolsS, "planFunction", "planExponential"),
    planPrefix |-> Planner("PREFIX", prefixSymbols, "none", "planFunction") ]

Levels == DOMAIN precedencePlanner

(* planTernaryExpressionMode with allowBareColon, and without. *)
TernaryFns == { "planTernary", "planTernaryInner" }

PlannerFns == Levels \cup TernaryFns \cup { "planFunction", "planAccessor", "planValue" }

-----------------------------------------------------------------------------
(* Calls, returns, and the making of stages *)

Top == stack[Len(stack)]
Callers == SubSeq(stack, 1, Len(stack) - 1)

At(fns, pc) == plan = "running" /\ stack # << >> /\ Top.fn \in fns /\ Top.pc = pc

(* A frame keeps the stage it will put to the left, the number of the token  *)
(* it was entered for, and how many clauses were open when it was called.    *)
NewFrame(fn, depth) == [fn |-> fn, pc |-> "start", left |-> NilStage, at |-> 0, depth |-> depth]

(* The clauses open around what the top frame calls or reads next. *)
IsInClause(frame) == frame.pc \in { "clause", "args" }
DepthOf(frame) == frame.depth + (IF IsInClause(frame) THEN 1 ELSE 0)

(* The top frame, updated to self, calls fn; or the top frame ends in a call. *)
Call(self, fn) ==
  /\ stack' = Append(Append(Callers, self), NewFrame(fn, DepthOf(self)))
  /\ ret' = NilStage
Become(fn) ==
  /\ stack' = Append(Callers, NewFrame(fn, Top.depth))
  /\ ret' = NilStage
Return(stage) ==
  /\ stack' = Callers
  /\ ret' = stage

(* The function goes on at pc with stage in hand, and nothing to its left. *)
Continue(pc, stage) ==
  /\ stack' = Append(Callers, [Top EXCEPT !.pc = pc, !.left = NilStage])
  /\ ret' = stage

(* The planner reads the tokens and leaves them alone. *)
ReadOnly == UNCHANGED <<given, tokens, phase, parens, state>>

Fail == plan' = "rejected" /\ UNCHANGED <<stages, stack, ret, misclosed, index>> /\ ReadOnly

NewStage(symbol, operator, left, right, at) ==
  [symbol |-> symbol, operator |-> operator, leftStage |-> left, rightStage |-> right, at |-> at]

(* An operator's stage is run by the function stageSymbolMap has for it. *)
OperatorStage(symbol, left, right) == NewStage(symbol, symbol, left, right, Top.at)
LiteralStage(value, at) == NewStage("LITERAL", value, NilStage, NilStage, at)

Build(stage) == stages' = Append(stages, stage)
Last == Len(stages) + 1  \* the place of the stage Build adds

Consume(n) == index' = index + n
Keep == UNCHANGED <<plan, misclosed>> /\ ReadOnly

(* Token is the operator whose text is given, of the ternary kind. *)
IsTernary(text) == More /\ Token.kind = "TERNARY" /\ Token.value = text

-----------------------------------------------------------------------------
(* planStages: the call of planTokens, and what happens when it returns *)

PlanInit ==
  /\ CheckInit
  /\ plan = "idle" /\ stages = << >> /\ stack = << >> /\ ret = NilStage /\ misclosed = 0

PlanStart ==
  /\ phase = "accepted" /\ plan = "idle"
  /\ plan' = "running"
  /\ stack' = IF More THEN <<NewFrame("planSeparator", 0)>> ELSE << >>
  /\ UNCHANGED <<stages, ret, misclosed, index>> /\ ReadOnly

(* Mutant: tokens that are left over are ignored. *)
PlanDoneEarly ==
  /\ plan = "running" /\ stack = << >>
  /\ plan' = IF ret = NilStage THEN "rejected" ELSE "planned"
  /\ UNCHANGED <<stages, stack, ret, misclosed, index>> /\ ReadOnly

PlanDone ==
  /\ plan = "running" /\ stack = << >>
  /\ plan' = IF More \/ ret = NilStage THEN "rejected" ELSE "planned"
  /\ UNCHANGED <<stages, stack, ret, misclosed, index>> /\ ReadOnly

-----------------------------------------------------------------------------
(* planPrecedenceLevel *)

LevelMatches ==
  LET planner == precedencePlanner[Top.fn]
  IN  More /\ Token.kind = planner.validKind /\ Token.value \in DOMAIN planner.validSymbols

PlanLeft ==
  /\ At(Levels, "start")
  /\ IF precedencePlanner[Top.fn].next = "none"
       THEN Continue("left", NilStage)
       ELSE Call([Top EXCEPT !.pc = "left"], precedencePlanner[Top.fn].next)
  /\ UNCHANGED <<stages, index>> /\ Keep

TakeOperator ==
  /\ At(Levels, "left") /\ LevelMatches
  /\ Consume(1)
  /\ Call([Top EXCEPT !.pc = "right", !.left = ret, !.at = index + 1],
          precedencePlanner[Top.fn].nextRight)
  /\ UNCHANGED stages /\ Keep

LeaveLevel ==
  /\ At(Levels, "left") /\ ~LevelMatches
  /\ Return(ret)
  /\ UNCHANGED <<stages, index>> /\ Keep

PlanRight ==
  /\ At(Levels, "right")
  /\ LET symbol == precedencePlanner[Top.fn].validSymbols[tokens[Top.at].value]
     IN  Build(OperatorStage(symbol, Top.left, ret))
  /\ Return(Last)
  /\ UNCHANGED index /\ Keep

-----------------------------------------------------------------------------
(* planTernaryExpressionMode *)

PlanCondition ==
  /\ At(TernaryFns, "start")
  /\ Call([Top EXCEPT !.pc = "left"], "planLogicalOr")
  /\ UNCHANGED <<stages, index>> /\ Keep

TakeTernary(text, pc, fn) ==
  /\ At(TernaryFns, "left") /\ IsTernary(text)
  /\ Consume(1)
  /\ Call([Top EXCEPT !.pc = pc, !.left = ret, !.at = index + 1], fn)
  /\ UNCHANGED stages /\ Keep

TakeCoalesce == TakeTernary("??", "coalesce", "planLogicalOr")
TakeQuestion == TakeTernary("?", "true", "planTernaryInner")

(* A colon without a question mark, where allowBareColon admits it. *)
TakeBareColon == TakeTernary(":", "false", "planTernary") /\ Top.fn = "planTernary"

LeaveTernary ==
  /\ At(TernaryFns, "left")
  /\ ~IsTernary("??") /\ ~IsTernary("?")
  /\ ~(IsTernary(":") /\ Top.fn = "planTernary")
  /\ Return(ret)
  /\ UNCHANGED <<stages, index>> /\ Keep

(* Mutant: leftStage already is the new stage when its children are set. *)
PlanCoalesceCycle ==
  /\ At(TernaryFns, "coalesce")
  /\ Build(OperatorStage("COALESCE", Last, ret))
  /\ Continue("left", Last)
  /\ UNCHANGED index /\ Keep

(* The loop of the function goes on with the coalescence as the left side. *)
PlanCoalesce ==
  /\ At(TernaryFns, "coalesce")
  /\ Build(OperatorStage("COALESCE", Top.left, ret))
  /\ Continue("left", Last)
  /\ UNCHANGED index /\ Keep

(* Mutant: the false branch is hung on the condition. *)
PlanTrueBranchDropped ==
  /\ At(TernaryFns, "true")
  /\ Build(OperatorStage("TERNARY_TRUE", Top.left, ret))
  /\ IF IsTernary(":")
       THEN /\ Consume(1)
            /\ Call([Top EXCEPT !.pc = "false", !.at = index + 1], Top.fn)
       ELSE Return(Last) /\ UNCHANGED index
  /\ Keep

PlanTrueBranch ==
  /\ At(TernaryFns, "true")
  /\ Build(OperatorStage("TERNARY_TRUE", Top.left, ret))
  /\ IF IsTernary(":")
       THEN /\ Consume(1)
            /\ Call([Top EXCEPT !.pc = "false", !.left = Last, !.at = index + 1], Top.fn)
       ELSE Return(Last) /\ UNCHANGED index
  /\ Keep

PlanFalseBranch ==
  /\ At(TernaryFns, "false")
  /\ Build(OperatorStage("TERNARY_FALSE", Top.left, ret))
  /\ Return(Last)
  /\ UNCHANGED index /\ Keep

-----------------------------------------------------------------------------
(* planFunction: its next() is not guarded by hasNext(), so reading past the *)
(* end of the slice is a run-time panic                                      *)

TakeFunction ==
  /\ At({ "planFunction" }, "start") /\ More /\ Token.kind = "FUNCTION"
  /\ Consume(1)
  /\ Call([Top EXCEPT !.pc = "call", !.at = index + 1], "planAccessor")
  /\ UNCHANGED stages /\ Keep

NoFunction ==
  /\ At({ "planFunction" }, "start") /\ ~(More /\ Token.kind = "FUNCTION")
  /\ IF More
       THEN Become("planAccessor") /\ UNCHANGED plan
       ELSE plan' = "panic" /\ UNCHANGED <<stack, ret>>
  /\ UNCHANGED <<stages, index, misclosed>> /\ ReadOnly

PlanFunctionCall ==
  /\ At({ "planFunction" }, "call")
  /\ IF tokens[Top.at].value = "ok"
       THEN Build(OperatorStage("FUNCTIONAL", NilStage, ret)) /\ Return(Last)
            /\ UNCHANGED index /\ Keep
       ELSE Fail

-----------------------------------------------------------------------------
(* planAccessor *)

IsKind(k, kind) == k <= Len(tokens) /\ tokens[k].kind = kind

(* A field, or a method without parentheses. *)
TakeField ==
  /\ At({ "planAccessor" }, "start") /\ IsKind(index + 1, "ACCESSOR")
  /\ ~IsKind(index + 2, "CLAUSE")
  /\ Consume(1)
  /\ stack' = Append(Callers, [Top EXCEPT !.pc = "access", !.at = index + 1])
  /\ ret' = NilStage
  /\ UNCHANGED stages /\ Keep

(* A method called with (): an explicit empty argument list. *)
TakeEmptyMethod ==
  /\ At({ "planAccessor" }, "start") /\ IsKind(index + 1, "ACCESSOR")
  /\ IsKind(index + 2, "CLAUSE") /\ IsKind(index + 3, "CLAUSE_CLOSE")
  /\ Consume(3)
  /\ Build(LiteralStage("collectedArgs", index + 2))
  /\ stack' = Append(Callers, [Top EXCEPT !.pc = "access", !.at = index + 1])
  /\ ret' = Last
  /\ Keep

(* A method with arguments: the inside of the parentheses is planned. *)
TakeMethod ==
  /\ At({ "planAccessor" }, "start") /\ IsKind(index + 1, "ACCESSOR")
  /\ IsKind(index + 2, "CLAUSE") /\ ~IsKind(index + 3, "CLAUSE_CLOSE")
  /\ IF index + 2 < Len(tokens)
       THEN /\ Consume(2)
            /\ Call([Top EXCEPT !.pc = "args", !.at = index + 1], "planSeparator")
            /\ UNCHANGED stages /\ Keep
       ELSE Fail

PlanMethodArgs ==
  /\ At({ "planAccessor" }, "args")
  /\ IF More /\ Token.kind = "CLAUSE_CLOSE"
       THEN /\ Consume(1)
            /\ Build(IF ret = NilStage
                       THEN LiteralStage("collectedArgs", Top.at + 1)
                       ELSE NewStage("NOOP", "ensureCollectedArgs", NilStage, ret, Top.at + 1))
            /\ Continue("access", Last)
            /\ Keep
       ELSE Fail

PlanAccess ==
  /\ At({ "planAccessor" }, "access")
  /\ IF tokens[Top.at].value = "ok"
       THEN Build(OperatorStage("ACCESS", NilStage, ret)) /\ Return(Last)
            /\ UNCHANGED index /\ Keep
       ELSE Fail

NoAccessor ==
  /\ At({ "planAccessor" }, "start") /\ ~IsKind(index + 1, "ACCESSOR")
  /\ IF More THEN Become("planValue") ELSE Return(NilStage)
  /\ UNCHANGED <<stages, index>> /\ Keep

-----------------------------------------------------------------------------
(* planValue *)

ValueKinds == { "VARIABLE", "NUMERIC", "STRING", "PATTERN", "BOOLEAN", "TIME" }

(* The dynamic type of the value is the one the kind is planned with. *)
Typed(token) ==
  \/ token.kind \in { "STRING", "PATTERN" }
  \/ token.kind = "VARIABLE" /\ token.value \notin NonStrings
  \/ token.kind \in { "NUMERIC", "BOOLEAN", "TIME" } /\ token.value = "ok"

TakeValue ==
  /\ At({ "planValue" }, "start") /\ More /\ Token.kind \in ValueKinds
  /\ IF Typed(Token)
       THEN /\ Build(IF Token.kind = "VARIABLE"
                       THEN NewStage("VALUE", "parameter", NilStage, NilStage, index + 1)
                       ELSE LiteralStage("constant", index + 1))
            /\ Consume(1) /\ Return(Last) /\ Keep
       ELSE Fail

(* Nothing between an operator or a parenthesis and the one that closes. *)
NoValue ==
  /\ At({ "planValue" }, "start") /\ (More => Token.kind = "CLAUSE_CLOSE")
  /\ Return(NilStage)
  /\ UNCHANGED <<stages, index>> /\ Keep

(* Mutant: the rewound prefix is handed to planFunction. *)
TakePrefixAgain ==
  /\ At({ "planValue" }, "start") /\ More /\ Token.kind = "PREFIX"
  /\ Become("planFunction")
  /\ UNCHANGED <<stages, index>> /\ Keep

TakePrefix ==
  /\ At({ "planValue" }, "start") /\ More /\ Token.kind = "PREFIX"
  /\ Become("planPrefix")
  /\ UNCHANGED <<stages, index>> /\ Keep

Unplannable ==
  /\ At({ "planValue" }, "start") /\ More
  /\ Token.kind \notin ValueKinds \cup { "CLAUSE", "CLAUSE_CLOSE", "PREFIX" }
  /\ Fail

(* Without a token after the parenthesis planTokens returns nil and the       *)
(* missing end of the clause is an error.                                     *)
TakeClause ==
  /\ At({ "planValue" }, "start") /\ More /\ Token.kind = "CLAUSE"
  /\ IF index + 1 < Len(tokens)
       THEN /\ Consume(1)
            /\ Call([Top EXCEPT !.pc = "clause", !.at = index + 1], "planSeparator")
            /\ UNCHANGED stages /\ Keep
       ELSE Fail

(* Mutant: the second token of the stream has no token before it. *)
AfterLaterFunction == Top.at > 2 /\ tokens[Top.at - 1].kind = "FUNCTION"

(* The token before the clause decides what its NOOP stage does with the     *)
(* result: pack it as a collection after "in", as arguments after a function. *)
AfterFunction == Top.at > 1 /\ tokens[Top.at - 1].kind = "FUNCTION"
AfterIn == Top.at > 1 /\ tokens[Top.at - 1] = [kind |-> "COMPARATOR", value |-> "in"]

ClauseOperator ==
  IF AfterFunction THEN "ensureCollectedArgs"
  ELSE IF AfterIn /\ ret # NilStage /\ stages[ret].symbol # "SEPARATE" THEN "ensureSlice"
  ELSE "noopStageRight"

(* The end of a clause takes the next token, whatever it is. *)
CloseClause ==
  /\ At({ "planValue" }, "clause")
  /\ IF More
       THEN /\ Consume(1)
            /\ LET empty == ret = NilStage /\ (AfterIn \/ AfterFunction)
                   noop(inner) == NewStage("NOOP", ClauseOperator, NilStage, inner, Top.at)
                   literal == LiteralStage(IF AfterIn THEN "emptySlice" ELSE "collectedArgs", Top.at)
               IN  IF empty
                     THEN stages' = Append(Append(stages, literal), noop(Last)) /\ Return(Last + 1)
                     ELSE Build(noop(ret)) /\ Return(Last)
            /\ misclosed' = misclosed + (IF Token.kind = "CLAUSE_CLOSE" THEN 0 ELSE 1)
            /\ UNCHANGED plan /\ ReadOnly
       ELSE Fail

-----------------------------------------------------------------------------

LevelStep == PlanLeft \/ TakeOperator \/ LeaveLevel \/ PlanRight

TernaryStep ==
  \/ PlanCondition \/ TakeCoalesce \/ TakeQuestion \/ TakeBareColon \/ LeaveTernary
  \/ PlanCoalesce \/ PlanTrueBranch \/ PlanFalseBranch

FunctionStep == TakeFunction \/ NoFunction \/ PlanFunctionCall

AccessorStep ==
  TakeField \/ TakeEmptyMethod \/ TakeMethod \/ PlanMethodArgs \/ PlanAccess \/ NoAccessor

ValueStep ==
  TakeValue \/ NoValue \/ TakePrefix \/ Unplannable \/ TakeClause \/ CloseClause

PlanStep ==
  PlanStart \/ PlanDone \/ LevelStep \/ TernaryStep \/ FunctionStep \/ AccessorStep \/ ValueStep

PlanNext == (CheckNext /\ UNCHANGED planVars) \/ PlanStep

allVars == <<checkVars, planVars>>

Returned == (phase = "rejected" \/ plan \in { "planned", "rejected", "panic" }) /\ UNCHANGED allVars

(* The constructor is one goroutine that runs until it returns. *)
PlanSpec == PlanInit /\ [][PlanNext \/ Returned]_allVars /\ WF_allVars(PlanNext)

-----------------------------------------------------------------------------

Stages == DOMAIN stages
MaybeStage == Stages \cup { NilStage }
Children(k) == { stages[k].leftStage, stages[k].rightStage } \ { NilStage }

(* Type invariant: a stage has an evaluation operator and children made     *)
(* before it, so the tree has no cycle and validateEvaluationStages finds   *)
(* nothing to refuse; a frame is at a token of the stream.                  *)
PlanTypeOK ==
  /\ CheckTypeOK
  /\ plan \in { "idle", "running", "planned", "rejected", "panic" }
  /\ ret \in MaybeStage
  /\ misclosed \in Nat
  /\ \A k \in Stages :
       /\ stages[k].symbol \in StageSymbols \cup { "LITERAL", "VALUE", "NOOP", "FUNCTIONAL", "ACCESS" }
       /\ stages[k].leftStage \in 0 .. k - 1 /\ stages[k].rightStage \in 0 .. k - 1
       /\ stages[k].at \in 1 .. Len(tokens)
  /\ \A f \in DOMAIN stack :
       /\ stack[f].fn \in PlannerFns
       /\ stack[f].left \in MaybeStage
       /\ stack[f].at \in 0 .. index
       /\ stack[f].depth \in Nat

(* No token is read past the end of the slice: planFunction relies on the   *)
(* checks before it for a token to be there whenever it is reached.         *)
NoPanic == plan # "panic"

(* planValue takes whatever token follows the inside of a clause to be its  *)
(* CLAUSE_CLOSE, and checkBalance only counts: the parentheses of a list it *)
(* passes need not match.  But where one clause eats another token a        *)
(* CLAUSE_CLOSE is left over, so an expression that is planned to its end   *)
(* had every clause closed by a CLAUSE_CLOSE.                               *)
ClausesMatched == plan = "planned" => misclosed = 0

(* What holds a stage: a child slot of another, a frame that will put it to *)
(* the left, or the value being returned.                                   *)
Holders(k) ==
  { <<"left", j>> : j \in { j \in Stages : stages[j].leftStage = k } }
    \cup { <<"right", j>> : j \in { j \in Stages : stages[j].rightStage = k } }
    \cup { <<"frame", f>> : f \in { f \in DOMAIN stack : stack[f].left = k } }
    \cup (IF ret = k THEN { <<"ret", 0>> } ELSE { })

(* Throughout the descent every stage made so far is held in exactly one    *)
(* place: no operand is dropped, which would leave it out of the result,    *)
(* and none is put into the tree twice, which would evaluate it twice and   *)
(* let reorderStages rewrite one occurrence through the other.              *)
HeldOnce == plan \in { "running", "planned" } => \A k \in Stages : Cardinality(Holders(k)) = 1

(* A function stage always gets a packed argument list, never a bare value  *)
(* whose nil would read as "no arguments": the parenthesis after it is      *)
(* planned with the packer although planValue only looks at the token       *)
(* before.                                                                  *)
ArgumentsPacked ==
  \A k \in Stages :
    stages[k].symbol = "FUNCTIONAL" =>
      /\ stages[k].rightStage # NilStage
      /\ stages[stages[k].rightStage].operator = "ensureCollectedArgs"

=============================================================================
