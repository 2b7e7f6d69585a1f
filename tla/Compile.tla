------------------------------ MODULE Compile ------------------------------
(***************************************************************************)
(* What planStages does with the tree the descent made: reorderStages,     *)
(* which looks for runs of stages of one precedence down the right side of *)
(* every subtree and mirrors them, and elideLiterals, which replaces an    *)
(* operator between two literals by the literal it computes.               *)
(*                                                                         *)
(* program is the heap of stages as the two passes rewrite it in place;    *)
(* StagePlanner's stages stays what the descent left.  work is the stack   *)
(* of the recursive calls in progress.                                     *)
(***************************************************************************)
EXTENDS StagePlanner, Values

CONSTANT
  LiteralValues  \* the values a literal of the expression may have

VARIABLES
  compile,   \* "idle", "reorder", "elide" or "done"
  program,   \* the stages, rewritten in place
  root,      \* the stage planStages returns
  work,      \* the calls of reorderStages, or elideLiterals, in progress
  literals   \* the value of every literal token, by its number

compileVars == <<compile, program, root, work, literals>>

-----------------------------------------------------------------------------
(* Literals and the program the descent leaves *)

LiteralType(kind) ==
  CASE kind \in { "NUMERIC", "TIME" } -> "num"
    [] kind = "BOOLEAN" -> "bool"
    [] kind = "STRING" -> "str"
    [] kind = "PATTERN" -> "regex"

LiteralKinds == ValueKinds \ { "VARIABLE" }
LiteralPlaces == { k \in DOMAIN tokens : tokens[k].kind \in LiteralKinds }

(* The literal tokens with values of their types. *)
Literals ==
  { f \in [LiteralPlaces -> LiteralValues] :
      \A k \in LiteralPlaces : HasType({ LiteralType(tokens[k].kind) }, f[k]) }

(* makeLiteralStage's literal; any other stage has none. *)
LiteralOf(stage, values) ==
  CASE stage.operator = "constant" -> values[stage.at]
    [] stage.operator = "emptySlice" -> Slice(<< >>)
    [] stage.operator = "collectedArgs" -> Args(<< >>)
    [] OTHER -> Nil

(* A stage with the checks findTypeChecks has for its symbol, which the      *)
(* planner stores in it.                                                     *)
Checked(stage, values) ==
  [symbol |-> stage.symbol, operator |-> stage.operator, checks |-> stage.symbol,
   leftStage |-> stage.leftStage, rightStage |-> stage.rightStage,
   at |-> stage.at, value |-> LiteralOf(stage, values)]

Precedence(k) == findOperatorPrecedenceForSymbol(program[k].symbol)

-----------------------------------------------------------------------------
(* reorderStages: a frame has the stage that is current, the one to its      *)
(* right when the iteration began, the run of stages collected so far, and   *)
(* their precedence.                                                         *)

Walk(stage, precedence) ==
  [current |-> NilStage, next |-> stage, run |-> << >>, precedence |-> precedence, pc |-> "next"]

Frame == work[Len(work)]
CallersOfFrame == SubSeq(work, 1, Len(work) - 1)
Update(frame) == Append(CallersOfFrame, frame)

(* Mutant: swapWith forgets the type checks. *)
mirrorKeepingChecks(run) ==
  LET n == Len(run)
      inverse(j) == program[run[n + 1 - j]]
      mirrored(j) ==
        [inverse(j) EXCEPT
           !.checks = program[run[j]].checks,
           !.leftStage = IF j < n THEN run[j + 1] ELSE program[run[1]].leftStage,
           !.rightStage = IF j = 1 THEN program[run[n]].rightStage
                                   ELSE program[run[n + 2 - j]].leftStage]
  IN  [k \in DOMAIN program |->
         IF \E j \in 1 .. n : run[j] = k
           THEN mirrored(CHOOSE j \in 1 .. n : run[j] = k)
           ELSE program[k]]

(* mirrorStageSubtree on a run of n stages, as MirrorStages has it in full:  *)
(* children first, then swapWith, which carries everything else.             *)
mirrorStageSubtree(run) ==
  LET n == Len(run)
      place(k) == CHOOSE j \in 1 .. n : run[j] = k
      mirrored(j) ==
        [program[run[n + 1 - j]] EXCEPT
           !.leftStage = IF j < n THEN run[j + 1] ELSE program[run[1]].leftStage,
           !.rightStage = IF j = 1 THEN program[run[n]].rightStage
                                   ELSE program[run[n + 2 - j]].leftStage]
  IN  [k \in DOMAIN program |->
         IF k \in { run[j] : j \in 1 .. n } THEN mirrored(place(k)) ELSE program[k]]

(* if len(identicalPrecedences) > 1: mirror them. *)
Flush == program' = IF Len(Frame.run) > 1 THEN mirrorStageSubtree(Frame.run) ELSE program

CompileInit ==
  /\ PlanInit
  /\ compile = "idle" /\ program = << >> /\ root = NilStage /\ work = << >> /\ literals = << >>

StartReorder ==
  /\ plan = "planned" /\ compile = "idle"
  /\ literals' \in Literals
  /\ program' = [k \in DOMAIN stages |-> Checked(stages[k], literals')]
  /\ root' = ret
  /\ work' = <<Walk(ret, findOperatorPrecedenceForSymbol(stages[ret].symbol))>>
  /\ compile' = "reorder"

(* The next stage becomes the current one and its left subtree is reordered. *)
WalkRight ==
  /\ compile = "reorder" /\ work # << >> /\ Frame.pc = "next" /\ Frame.next # NilStage
  /\ LET stage == program[Frame.next]
         self == [Frame EXCEPT !.current = Frame.next, !.next = stage.rightStage, !.pc = "current"]
     IN  work' = IF stage.leftStage = NilStage
                   THEN Update(self)
                   ELSE Append(Update(self), Walk(stage.leftStage, Precedence(stage.leftStage)))
  /\ UNCHANGED <<compile, program, root, literals>>

(* Go on behind the current stage with run and its precedence. *)
GoOn(run) ==
  work' = Update([Frame EXCEPT !.run = run, !.precedence = Precedence(Frame.current), !.pc = "next"])

AtCurrent == compile = "reorder" /\ work # << >> /\ Frame.pc = "current"

(* Mutant: ternaries are mirrored like other operators. *)
NoTernaryStage(k) == FALSE

IsTernaryStage(k) == program[k].symbol \in { "TERNARY_TRUE", "TERNARY_FALSE", "COALESCE" }

(* A ternary ends the run, and starts none. *)
PassTernary ==
  /\ AtCurrent /\ IsTernaryStage(Frame.current)
  /\ Flush
  /\ GoOn(<< >>)
  /\ UNCHANGED <<compile, root, literals>>

(* Mutant: the run gets the stage to the right of the current one. *)
ExtendRunWithNext ==
  /\ AtCurrent /\ ~IsTernaryStage(Frame.current)
  /\ Precedence(Frame.current) = Frame.precedence
  /\ GoOn(Append(Frame.run, Frame.next))
  /\ UNCHANGED <<compile, program, root, literals>>

ExtendRun ==
  /\ AtCurrent /\ ~IsTernaryStage(Frame.current)
  /\ Precedence(Frame.current) = Frame.precedence
  /\ GoOn(Append(Frame.run, Frame.current))
  /\ UNCHANGED <<compile, program, root, literals>>

(* Mutant: a stage of another precedence joins the run instead of starting one. *)
BreakRunKept ==
  /\ AtCurrent /\ ~IsTernaryStage(Frame.current)
  /\ Precedence(Frame.current) # Frame.precedence
  /\ Flush
  /\ GoOn(Append(Frame.run, Frame.current))
  /\ UNCHANGED <<compile, root, literals>>

BreakRun ==
  /\ AtCurrent /\ ~IsTernaryStage(Frame.current)
  /\ Precedence(Frame.current) # Frame.precedence
  /\ Flush
  /\ GoOn(<<Frame.current>>)
  /\ UNCHANGED <<compile, root, literals>>

LeaveWalk ==
  /\ compile = "reorder" /\ work # << >> /\ Frame.pc = "next" /\ Frame.next = NilStage
  /\ Flush
  /\ work' = CallersOfFrame
  /\ UNCHANGED <<compile, root, literals>>

-----------------------------------------------------------------------------
(* elideLiterals: a frame has the stage and the part of it that comes next. *)

Visit(stage) == [stage |-> stage, pc |-> "leftStage"]

(* Mutant: the right child is elided again and again. *)
AfterPartRight(pc) == "rightStage"

AfterPart(pc) == IF pc = "leftStage" THEN "rightStage" ELSE "self"

StartElide ==
  /\ compile = "reorder" /\ work = << >>
  /\ compile' = "elide"
  /\ work' = <<Visit(root)>>
  /\ UNCHANGED <<program, root, literals>>

At2(pcs) == compile = "elide" /\ work # << >> /\ Frame.pc \in pcs

ElideChild ==
  /\ At2({ "leftStage", "rightStage" })
  /\ LET child == program[Frame.stage][Frame.pc]
     IN  work' = IF child = NilStage
                   THEN Update([Frame EXCEPT !.pc = AfterPart(@)])
                   ELSE Append(work, Visit(child))
  /\ UNCHANGED <<compile, program, root, literals>>

IsLiteral(k) == k # NilStage /\ program[k].symbol = "LITERAL"

(* elideStage's conditions, down to the operator that must not fail. *)
Elided(stage) == Apply(stage.operator, program[stage.leftStage].value, program[stage.rightStage].value)

Elidable(stage) ==
  /\ IsLiteral(stage.leftStage) /\ IsLiteral(stage.rightStage)
  /\ stage.symbol \notin { "SEPARATE", "IN" }
  /\ TypeChecked(stage.checks, program[stage.leftStage].value, program[stage.rightStage].value)
  /\ IsValue(Elided(stage))

(* What elideStage returns for the stage of the top frame takes its place in *)
(* the caller's stage, which then turns to its next part.                    *)
ReturnElided(heap, stage) ==
  IF Len(work) = 1
    THEN program' = heap /\ root' = stage /\ work' = << >>
    ELSE LET caller == work[Len(work) - 1]
         IN  /\ program' = [heap EXCEPT ![caller.stage][caller.pc] = stage]
             /\ work' = [CallersOfFrame EXCEPT ![Len(work) - 1].pc = AfterPart(@)]
             /\ UNCHANGED root

ElideStage ==
  /\ At2({ "self" })
  /\ LET stage == program[Frame.stage]
         literal == [symbol |-> "LITERAL", operator |-> "constant", checks |-> "LITERAL",
                     leftStage |-> NilStage, rightStage |-> NilStage,
                     at |-> stage.at, value |-> Elided(stage)[2]]
     IN  IF Elidable(stage)
           THEN ReturnElided(Append(program, literal), Len(program) + 1)
           ELSE ReturnElided(program, Frame.stage)
  /\ UNCHANGED <<compile, literals>>

(* validateEvaluationStages finds an operator in every stage. *)
Compiled ==
  /\ compile = "elide" /\ work = << >>
  /\ compile' = "done"
  /\ UNCHANGED <<program, root, work, literals>>

CompileStep ==
  \/ StartReorder \/ WalkRight \/ PassTernary \/ ExtendRun \/ BreakRun \/ LeaveWalk
  \/ StartElide \/ ElideChild \/ ElideStage \/ Compiled

CompileNext ==
  \/ PlanNext /\ UNCHANGED compileVars
  \/ CompileStep /\ UNCHANGED allVars

compileAllVars == <<allVars, compileVars>>

CompileReturned ==
  /\ phase = "rejected" \/ plan \in { "rejected", "panic" } \/ compile = "done"
  /\ UNCHANGED compileAllVars

(* planStages goes on in the goroutine of the constructor. *)
CompileSpec ==
  CompileInit /\ [][CompileNext \/ CompileReturned]_compileAllVars /\ WF_compileAllVars(CompileNext)

-----------------------------------------------------------------------------

Places == DOMAIN program
MaybePlace == Places \cup { NilStage }

(* Type invariant: children and frames refer to stages of the program, and  *)
(* the stages of a run are stages of an operator, in different places.      *)
CompileTypeOK ==
  /\ compile \in { "idle", "reorder", "elide", "done" }
  /\ root \in MaybePlace
  /\ \A k \in Places :
       /\ program[k].leftStage \in MaybePlace /\ program[k].rightStage \in MaybePlace
       /\ program[k].at \in DOMAIN tokens
  /\ \A f \in DOMAIN work :
       IF compile = "reorder"
         THEN /\ work[f].current \in MaybePlace /\ work[f].next \in MaybePlace
              /\ \A i, j \in DOMAIN work[f].run :
                   work[f].run[i] \in Places /\ (work[f].run[i] = work[f].run[j] => i = j)
         ELSE work[f].stage \in Places

(* With the build tag "cache" the stages of parameters and constants are    *)
(* shared by all expressions of the process, so neither pass may write to   *)
(* one, although both rewrite stages in place and a run of reorderStages    *)
(* may reach the end of a right side.                                       *)
LeavesUntouched ==
  compile # "idle" =>
    \A k \in DOMAIN stages :
      stages[k].operator \in { "parameter", "constant" } =>
        program[k] = Checked(stages[k], literals)

(* The collectedArgs of a function's clause are made where the function     *)
(* looks for them: "It lets evaluation distinguish "no args", "one nil      *)
(* arg", and "one slice arg" from a separator-built multi-arg list."        *)
ArgumentsStayPacked ==
  compile = "done" =>
    \A k \in Places :
      program[k].symbol = "FUNCTIONAL" =>
        program[program[k].rightStage].operator = "ensureCollectedArgs"

(* Every call of a constructor ends, the passes over the tree included. *)
CompileReturns == <>(phase = "rejected" \/ plan = "rejected" \/ compile = "done")

=============================================================================
