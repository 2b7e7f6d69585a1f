-------------------------- MODULE EvaluationProofs --------------------------
(***************************************************************************)
(* Proofs about Compile and Evaluation for every list of tokens, all       *)
(* literals and parameters and whatever the open constants of Values are.  *)
(* Three inductive invariants rest on what StagePlannerProofs shows about  *)
(* the descent.  EvaluationIInv says that the checks of a stage and its    *)
(* symbol are those of its operator, wherever mirroring and elision have   *)
(* put them.  PassesIInv says which part of the tree each frame of the     *)
(* passes may still write to, and that no leaf is in it.  CallsIInv says   *)
(* that the calls of an evaluation go down the tree, each at the child     *)
(* that the call around it waits for.                                      *)
(***************************************************************************)
EXTENDS Evaluation, StagePlannerProofs

(* The type of a stage of a program of n stages, with values from V. *)
StageOf(n, V) ==
  [symbol : AllSymbols, operator : Operators, checks : AllSymbols,
   leftStage : 0 .. n, rightStage : 0 .. n, at : Nat, value : V]

Fits(stage) == OperatorFits(stage.symbol, stage.operator) /\ stage.checks = stage.symbol

ProgramOK(p, V) ==
  /\ p \in Seq(StageOf(Len(p), V))
  /\ \A k \in 1 .. Len(p) : Fits(p[k])

(* The types of the frames of reorderStages, elideLiterals and evaluateStage. *)
Ranks == { findOperatorPrecedenceForSymbol(symbol) : symbol \in AllSymbols }
Walks(n) ==
  [current : 0 .. n, next : 0 .. n, run : Seq(1 .. n), precedence : Ranks,
   pc : { "next", "current" }]
Visits(n) == [stage : 1 .. n, pc : { "leftStage", "rightStage", "self" }]
Calls(n, V) == [stage : 1 .. n, pc : { "start", "left", "right" }, left : V]

WalksInv(w, n) ==
  /\ w \in Seq(Walks(n))
  /\ \A f \in 1 .. Len(w) : w[f].pc = "current" => w[f].current # 0
VisitsInv(w, n) ==
  /\ w \in Seq(Visits(n))
  /\ \A f \in 1 .. Len(w) : f < Len(w) => w[f].pc # "self"

CompileIInv ==
  /\ compile \in { "idle", "reorder", "elide", "done" }
  /\ compile # "idle" =>
       /\ \E V : ProgramOK(program, V)
       /\ root \in 1 .. Len(program)
  /\ compile = "reorder" => WalksInv(work, Len(program))
  /\ compile = "elide" => VisitsInv(work, Len(program))

EvaluationIInv ==
  /\ PlanIInv
  /\ CompileIInv
  /\ answer # Idle => compile = "done"
  /\ answer = Idle => frames = << >>
  /\ \E V : frames \in Seq(Calls(Len(program), V))
  /\ TypeChecksSuffice

-----------------------------------------------------------------------------
(* Checked operators do not fail an assertion *)

LEMMA OutcomesDiffer ==
  /\ \A v : Value(v) # Assertion
  /\ Error # Assertion
  /\ Uncomparable # Assertion
BY DEF Value, Error, Assertion, Uncomparable

(* A panic of user code is made an error before its caller sees it. *)
LEMMA RecoveredIsNoAssertion ==
  ASSUME NEW outcome
  PROVE  Recovered(outcome) # Assertion
<1>1. ~IsValue(Assertion)
  BY DEF IsValue, Assertion
<1> QED
  BY <1>1, OutcomesDiffer, Zenon DEF Recovered

(* The arithmetic and the bitwise operators. *)
LEMMA NumericChecked ==
  ASSUME NEW symbol \in ArithmeticSymbols, NEW l, NEW r, TypeChecked(symbol, l, r)
  PROVE  Apply(symbol, l, r) # Assertion
<1>1. IsNum(l) /\ IsNum(r)
  BY DEF TypeChecked, ArithmeticSymbols, OrderSymbols
<1>2. Apply(symbol, l, r) = Numeric(symbol, l, r)
  BY DEF Apply, ArithmeticSymbols, OrderSymbols
<1> QED
  BY <1>1, <1>2, OutcomesDiffer DEF Numeric

LEMMA OrderChecked ==
  ASSUME NEW symbol \in OrderSymbols, NEW l, NEW r, TypeChecked(symbol, l, r)
  PROVE  Apply(symbol, l, r) # Assertion
<1>1. comparatorTypeCheck(l, r)
  BY DEF TypeChecked, ArithmeticSymbols, OrderSymbols
<1>2. Apply(symbol, l, r) = orderStage(symbol, l, r)
  BY DEF Apply, ArithmeticSymbols, OrderSymbols
<1> QED
  BY <1>1, <1>2, OutcomesDiffer DEF orderStage

(* "&&" and "||". *)
LEMMA LogicalChecked ==
  ASSUME NEW symbol \in { "AND", "OR" }, NEW l, NEW r, TypeChecked(symbol, l, r)
  PROVE  Apply(symbol, l, r) # Assertion
<1>1. IsBool(l) /\ IsBool(r)
  BY DEF TypeChecked, ArithmeticSymbols, OrderSymbols
<1>2. \E decisive \in BOOLEAN : Apply(symbol, l, r) = logicalStage(decisive, l, r)
  BY DEF Apply, ArithmeticSymbols, OrderSymbols
<1> QED
  BY <1>1, <1>2, OutcomesDiffer DEF logicalStage

LEMMA PrefixChecked ==
  ASSUME NEW symbol \in { "NEGATE", "BITWISE_NOT", "INVERT" }, NEW l, NEW r,
         TypeChecked(symbol, l, r)
  PROVE  Apply(symbol, l, r) # Assertion
<1>1. CASE symbol = "INVERT"
  BY <1>1, OutcomesDiffer DEF TypeChecked, Apply, ArithmeticSymbols, OrderSymbols
<1>2. CASE symbol # "INVERT"
  <2>1. IsNum(r)
    BY <1>2 DEF TypeChecked, ArithmeticSymbols, OrderSymbols
  <2>2. Apply(symbol, l, r) = Prefixed(symbol, r)
    BY <1>2 DEF Apply, ArithmeticSymbols, OrderSymbols
  <2> QED
    BY <2>1, <2>2, OutcomesDiffer DEF Prefixed
<1> QED
  BY <1>1, <1>2

(* "?" asks for a condition, ":" and "??" for nothing. *)
LEMMA TernaryChecked ==
  ASSUME NEW symbol \in { "TERNARY_TRUE", "TERNARY_FALSE", "COALESCE" }, NEW l, NEW r,
         TypeChecked(symbol, l, r)
  PROVE  Apply(symbol, l, r) # Assertion
<1>1. CASE symbol = "TERNARY_TRUE"
  <2>1. IsBool(l)
    BY <1>1 DEF TypeChecked, ArithmeticSymbols, OrderSymbols
  <2>2. Apply(symbol, l, r) = ternaryIfStage(l, r)
    BY <1>1 DEF Apply, ArithmeticSymbols, OrderSymbols
  <2> QED
    BY <2>1, <2>2, OutcomesDiffer DEF ternaryIfStage
<1>2. CASE symbol # "TERNARY_TRUE"
  <2>1. Apply(symbol, l, r) = ternaryElseStage(l, r)
    BY <1>2 DEF Apply, ArithmeticSymbols, OrderSymbols
  <2> QED
    BY <2>1, OutcomesDiffer DEF ternaryElseStage
<1> QED
  BY <1>1, <1>2

(* The comparators, "in", "+" and the separator. *)
LEMMA OtherChecked ==
  ASSUME NEW symbol \in { "EQ", "NEQ", "REQ", "NREQ", "IN", "PLUS", "SEPARATE" }, NEW l, NEW r,
         TypeChecked(symbol, l, r)
  PROVE  Apply(symbol, l, r) # Assertion
<1>1. CASE symbol \in { "EQ", "NEQ" }
  BY <1>1, OutcomesDiffer DEF Apply, ArithmeticSymbols, OrderSymbols
<1>2. CASE symbol \in { "REQ", "NREQ" }
  <2>1. \E wanted \in BOOLEAN : Apply(symbol, l, r) = regexStage(wanted, l, r)
    BY <1>2 DEF Apply, ArithmeticSymbols, OrderSymbols
  <2> QED
    BY <2>1, OutcomesDiffer DEF regexStage
<1>3. CASE symbol = "IN"
  <2>1. Apply(symbol, l, r) = inStage(l, r)
    BY <1>3 DEF Apply, ArithmeticSymbols, OrderSymbols
  <2>2. membership(l, r[2]) # Assertion
    BY OutcomesDiffer DEF membership
  <2> QED
    BY <2>1, <2>2, OutcomesDiffer DEF inStage
<1>4. CASE symbol = "PLUS"
  <2>1. additionTypeCheck(l, r)
    BY <1>4 DEF TypeChecked, ArithmeticSymbols, OrderSymbols
  <2>2. Apply(symbol, l, r) = addStage(l, r)
    BY <1>4 DEF Apply, ArithmeticSymbols, OrderSymbols
  <2> QED
    BY <2>1, <2>2, OutcomesDiffer DEF addStage, additionTypeCheck, Numeric
<1>5. CASE symbol = "SEPARATE"
  <2>1. Apply(symbol, l, r) = separatorStage(l, r)
    BY <1>5 DEF Apply, ArithmeticSymbols, OrderSymbols
  <2> QED
    BY <2>1, OutcomesDiffer DEF separatorStage
<1> QED
  BY <1>1, <1>2, <1>3, <1>4, <1>5

(* The checks of a symbol suffice for the operator of the symbol. *)
LEMMA ChecksSuffice ==
  ASSUME NEW symbol \in StageSymbols, NEW l, NEW r, TypeChecked(symbol, l, r)
  PROVE  Apply(symbol, l, r) # Assertion
<1>1. \/ symbol \in ArithmeticSymbols \/ symbol \in OrderSymbols \/ symbol \in { "AND", "OR" }
      \/ symbol \in { "NEGATE", "BITWISE_NOT", "INVERT" }
      \/ symbol \in { "TERNARY_TRUE", "TERNARY_FALSE", "COALESCE" }
      \/ symbol \in { "EQ", "NEQ", "REQ", "NREQ", "IN", "PLUS", "SEPARATE" }
  BY DEF StageSymbols, ArithmeticSymbols, OrderSymbols
<1> QED
  BY <1>1, NumericChecked, OrderChecked, LogicalChecked, PrefixChecked, TernaryChecked, OtherChecked

-----------------------------------------------------------------------------
(* What the passes do to the program *)

LEMMA FunctionIsSeq ==
  ASSUME NEW S, NEW n \in Nat, NEW f \in [1 .. n -> S]
  PROVE  f \in Seq(S) /\ Len(f) = n
OBVIOUS

(* The callers of the top frame of a stack. *)
LEMMA PrefixIsSeq ==
  ASSUME NEW S, NEW w \in Seq(S), w # << >>
  PROVE  /\ Len(w) \in Nat \ {0}
         /\ SubSeq(w, 1, Len(w) - 1) \in Seq(S)
         /\ Len(SubSeq(w, 1, Len(w) - 1)) = Len(w) - 1
         /\ \A f \in 1 .. Len(w) - 1 : SubSeq(w, 1, Len(w) - 1)[f] = w[f]
<1> DEFINE l == Len(w) - 1
<1>1. Len(w) \in Nat \ {0} /\ l \in Nat /\ \A i \in 1 .. l : w[i] \in S
  OBVIOUS
<1> HIDE DEF l
<1>2. /\ SubSeq(w, 1, l) \in Seq(S)
      /\ Len(SubSeq(w, 1, l)) = IF 1 <= l THEN l - 1 + 1 ELSE 0
      /\ \A f \in 1 .. l - 1 + 1 : SubSeq(w, 1, l)[f] = w[1 + f - 1]
  BY <1>1, SubSeqProperties
<1>3. Len(SubSeq(w, 1, l)) = l /\ \A f \in 1 .. l : SubSeq(w, 1, l)[f] = w[f]
  BY <1>1, <1>2
<1> QED
  BY <1>1, <1>2, <1>3 DEF l

(* The stages keep their types when the program grows and when more values   *)
(* are possible.                                                             *)
LEMMA StageGrows ==
  ASSUME NEW n \in Nat, NEW m \in Nat, n <= m, NEW V, NEW W, V \subseteq W,
         NEW stage \in StageOf(n, V)
  PROVE  stage \in StageOf(m, W)
BY DEF StageOf

LEMMA RankOf ==
  ASSUME NEW V, ProgramOK(program, V), NEW k \in 1 .. Len(program)
  PROVE  Precedence(k) \in Ranks
<1>1. program[k] \in StageOf(Len(program), V)
  BY DEF ProgramOK
<1>2. program[k].symbol \in AllSymbols
  BY <1>1 DEF StageOf
<1> QED
  BY <1>2 DEF Precedence, Ranks

(* Mirroring carries the checks of a stage with its symbol and its operator. *)
LEMMA MirrorKeeps ==
  ASSUME NEW V, ProgramOK(program, V), NEW run \in Seq(1 .. Len(program)), Len(run) > 1
  PROVE  /\ ProgramOK(mirrorStageSubtree(run), V)
         /\ Len(mirrorStageSubtree(run)) = Len(program)
<1> DEFINE n == Len(run)
           N == Len(program)
           place(k) == CHOOSE j \in 1 .. n : run[j] = k
           left(j) == IF j < n THEN run[j + 1] ELSE program[run[1]].leftStage
           right(j) == IF j = 1 THEN program[run[n]].rightStage
                               ELSE program[run[n + 2 - j]].leftStage
           mirrored(j) ==
             [program[run[n + 1 - j]] EXCEPT !.leftStage = left(j), !.rightStage = right(j)]
           result == mirrorStageSubtree(run)
<1>1. /\ N \in Nat /\ n \in Nat /\ DOMAIN program = 1 .. N
      /\ program \in Seq(StageOf(N, V))
      /\ \A k \in 1 .. N : program[k] \in StageOf(N, V) /\ Fits(program[k])
      /\ \A j \in 1 .. n : run[j] \in 1 .. N
  BY DEF ProgramOK
<1>2. ASSUME NEW k \in 1 .. N
      PROVE  /\ program[k].leftStage \in 0 .. N /\ program[k].rightStage \in 0 .. N
             /\ program[k] \in StageOf(N, V) /\ Fits(program[k])
  BY <1>1 DEF StageOf
<1>3. ASSUME NEW j \in 1 .. n
      PROVE  left(j) \in 0 .. N /\ right(j) \in 0 .. N
  <2>1. run[1] \in 1 .. N /\ run[n] \in 1 .. N
    BY <1>1
  <2>2. j < n => run[j + 1] \in 1 .. N
    BY <1>1
  <2>3. j # 1 => run[n + 2 - j] \in 1 .. N
    BY <1>1
  <2>4. left(j) \in 0 .. N
    <3>1. program[run[1]].leftStage \in 0 .. N
      BY <1>2, <2>1
    <3> QED
      BY <1>1, <2>2, <3>1
  <2>5. right(j) \in 0 .. N
    <3>1. program[run[n]].rightStage \in 0 .. N
      BY <1>2, <2>1
    <3>2. j # 1 => program[run[n + 2 - j]].leftStage \in 0 .. N
      BY <1>2, <2>3
    <3> QED
      BY <3>1, <3>2
  <2> QED
    BY <2>4, <2>5
<1>4. ASSUME NEW j \in 1 .. n
      PROVE  mirrored(j) \in StageOf(N, V) /\ Fits(mirrored(j))
  <2> DEFINE source == program[run[n + 1 - j]]
  <2>1. run[n + 1 - j] \in 1 .. N
    BY <1>1
  <2>2. source \in StageOf(N, V) /\ Fits(source)
    BY <1>2, <2>1
  <2>3. left(j) \in 0 .. N /\ right(j) \in 0 .. N
    BY <1>3
  <2>4. mirrored(j) = [source EXCEPT !.leftStage = left(j), !.rightStage = right(j)]
    OBVIOUS
  <2> HIDE DEF left, right, source, mirrored
  <2> QED
    BY <2>2, <2>3, <2>4 DEF StageOf, Fits
<1>5. ASSUME NEW k \in 1 .. N
      PROVE  result[k] \in StageOf(N, V) /\ Fits(result[k])
  <2>1. result[k] = IF k \in { run[j] : j \in 1 .. n } THEN mirrored(place(k)) ELSE program[k]
    BY <1>1 DEF mirrorStageSubtree
  <2>2. k \in { run[j] : j \in 1 .. n } => place(k) \in 1 .. n
    OBVIOUS
  <2> HIDE DEF place, mirrored, result
  <2> QED
    BY <1>2, <1>4, <2>1, <2>2
<1>6. DOMAIN result = 1 .. N /\ result = [k \in 1 .. N |-> result[k]]
  BY <1>1 DEF mirrorStageSubtree
<1> HIDE DEF result
<1>7. result \in [1 .. N -> StageOf(N, V)]
  BY <1>5, <1>6
<1>8. result \in Seq(StageOf(N, V)) /\ Len(result) = N
  BY <1>1, <1>7, FunctionIsSeq
<1>9. ProgramOK(result, V) /\ Len(result) = Len(program)
  BY <1>5, <1>8 DEF ProgramOK
<1> QED
  BY <1>9 DEF result

-----------------------------------------------------------------------------
(* Every step of the passes keeps the invariant *)

LEMMA StartReorderKeeps ==
  ASSUME PlanIInv, CompileIInv, StartReorder
  PROVE  CompileIInv'
<1> DEFINE n == Len(stages)
           V == { LiteralOf(stages[k], literals') : k \in 1 .. n }
<1>1. /\ n \in Nat /\ DOMAIN stages = 1 .. n /\ StagesInv(tokens, stages) /\ ret \in 1 .. n
      /\ Len(tokens) \in Nat
  BY DEF StartReorder, PlanIInv, StagesInv, CheckIInv, CheckTypeOK
<1>2. /\ compile' = "reorder" /\ root' = ret
      /\ program' = [k \in 1 .. n |-> Checked(stages[k], literals')]
      /\ work' = <<Walk(ret, findOperatorPrecedenceForSymbol(stages[ret].symbol))>>
  BY <1>1 DEF StartReorder
<1>3. ASSUME NEW k \in 1 .. n
      PROVE  Checked(stages[k], literals') \in StageOf(n, V) /\ Fits(Checked(stages[k], literals'))
  <2>1. /\ StageOK(tokens, stages, stages[k], k - 1) /\ stages[k] \in StageRecord
    BY <1>1 DEF StagesInv
  <2>2. /\ stages[k].symbol \in AllSymbols /\ stages[k].operator \in Operators
        /\ stages[k].leftStage \in 0 .. n /\ stages[k].rightStage \in 0 .. n
        /\ stages[k].at \in Nat /\ OperatorFits(stages[k].symbol, stages[k].operator)
    BY <1>1, <2>1 DEF StageOK, StageRecord
  <2>3. LiteralOf(stages[k], literals') \in V
    OBVIOUS
  <2> HIDE DEF V
  <2> QED
    BY <2>2, <2>3 DEF StageOf, Checked, Fits
<1> HIDE DEF V
<1>4. program' \in Seq(StageOf(n, V)) /\ Len(program') = n
  BY <1>1, <1>2, <1>3, FunctionIsSeq
<1>5. ProgramOK(program', V)
  BY <1>2, <1>3, <1>4 DEF ProgramOK
<1>6. WalksInv(work', n)
  <2>1. findOperatorPrecedenceForSymbol(stages[ret].symbol) \in Ranks
    <3>1. stages[ret] \in StageRecord
      BY <1>1 DEF StagesInv
    <3>2. stages[ret].symbol \in AllSymbols
      BY <3>1 DEF StageRecord
    <3> QED
      BY <3>2 DEF Ranks
  <2>2. Walk(ret, findOperatorPrecedenceForSymbol(stages[ret].symbol)) \in Walks(n)
    BY <1>1, <2>1 DEF Walk, Walks, NilStage
  <2> QED
    BY <1>2, <2>2 DEF WalksInv, Walk
<1> QED
  BY <1>1, <1>2, <1>4, <1>5, <1>6 DEF CompileIInv

(* What holds of the top frame of reorderStages and its callers. *)
LEMMA WalkFacts ==
  ASSUME CompileIInv, compile = "reorder", work # << >>
  PROVE  /\ Len(program) \in Nat /\ Len(work) \in Nat \ {0} /\ Frame \in Walks(Len(program))
         /\ Frame.pc = "current" => Frame.current \in 1 .. Len(program)
         /\ WalksInv(CallersOfFrame, Len(program))
         /\ \E V : ProgramOK(program, V)
<1>1. /\ WalksInv(work, Len(program)) /\ Len(work) \in Nat \ {0} /\ root \in 1 .. Len(program)
      /\ \E V : ProgramOK(program, V)
  BY DEF CompileIInv, WalksInv
<1>2. Len(program) \in Nat
  BY <1>1 DEF ProgramOK
<1>3. Frame \in Walks(Len(program)) /\ (Frame.pc = "current" => Frame.current # 0)
  BY <1>1 DEF WalksInv, Frame
<1>4. Frame.pc = "current" => Frame.current \in 1 .. Len(program)
  BY <1>2, <1>3 DEF Walks
<1>5. WalksInv(CallersOfFrame, Len(program))
  BY <1>1 DEF WalksInv, CallersOfFrame
<1> QED
  BY <1>1, <1>2, <1>3, <1>4, <1>5

LEMMA UpdateKeeps ==
  ASSUME NEW n \in Nat, NEW w, WalksInv(w, n), NEW frame \in Walks(n),
         frame.pc = "current" => frame.current # 0
  PROVE  WalksInv(Append(w, frame), n)
BY DEF WalksInv

(* A run is mirrored, or there is nothing to mirror. *)
LEMMA FlushKeeps ==
  ASSUME CompileIInv, compile = "reorder", work # << >>, Flush
  PROVE  Len(program') = Len(program) /\ \E V : ProgramOK(program', V)
<1>1. PICK V : ProgramOK(program, V)
  BY WalkFacts
<1>2. Frame.run \in Seq(1 .. Len(program))
  BY WalkFacts DEF Walks
<1> QED
  BY <1>1, <1>2, MirrorKeeps DEF Flush

(* The loop goes on with another run. *)
LEMMA GoOnKeeps ==
  ASSUME CompileIInv, compile = "reorder", work # << >>, Frame.pc = "current",
         NEW run \in Seq(1 .. Len(program)), GoOn(run)
  PROVE  WalksInv(work', Len(program))
<1> DEFINE frame == [Frame EXCEPT !.run = run, !.precedence = Precedence(Frame.current), !.pc = "next"]
<1>1. /\ Len(program) \in Nat /\ Frame \in Walks(Len(program))
      /\ WalksInv(CallersOfFrame, Len(program)) /\ Frame.current \in 1 .. Len(program)
  BY WalkFacts
<1>2. Precedence(Frame.current) \in Ranks
  BY <1>1, WalkFacts, RankOf
<1>3. frame \in Walks(Len(program)) /\ frame.pc = "next"
  BY <1>1, <1>2 DEF Walks
<1>4. work' = Append(CallersOfFrame, frame)
  BY DEF GoOn, Update
<1> HIDE DEF frame
<1> QED
  BY <1>1, <1>3, <1>4, UpdateKeeps

(* One to the right, and first all of its left subtree. *)
LEMMA WalkRightKeeps ==
  ASSUME CompileIInv, WalkRight
  PROVE  CompileIInv'
<1> DEFINE n == Len(program)
           stage == program[Frame.next]
           self == [Frame EXCEPT !.current = Frame.next, !.next = stage.rightStage, !.pc = "current"]
           inner == Walk(stage.leftStage, Precedence(stage.leftStage))
<1>1. /\ compile = "reorder" /\ work # << >> /\ Frame.next # 0
      /\ work' = IF stage.leftStage = 0 THEN Append(CallersOfFrame, self)
                                         ELSE Append(Append(CallersOfFrame, self), inner)
      /\ compile' = compile /\ program' = program /\ root' = root
  BY DEF WalkRight, Update, NilStage
<1>2. PICK V : ProgramOK(program, V)
  BY <1>1, WalkFacts
<1>3. n \in Nat /\ Frame \in Walks(n) /\ WalksInv(CallersOfFrame, n)
  BY <1>1, WalkFacts
<1>4. Frame.next \in 1 .. n
  BY <1>1, <1>3 DEF Walks
<1>5. stage.leftStage \in 0 .. n /\ stage.rightStage \in 0 .. n
  <2>1. stage \in StageOf(n, V)
    BY <1>2, <1>4 DEF ProgramOK
  <2> QED
    BY <2>1 DEF StageOf
<1>6. self \in Walks(n) /\ self.current # 0
  <2> DEFINE right == stage.rightStage
  <2>1. right \in 0 .. n /\ Frame.next # 0
    BY <1>1, <1>5
  <2>2. self = [Frame EXCEPT !.current = Frame.next, !.next = right, !.pc = "current"]
    OBVIOUS
  <2> HIDE DEF right, self
  <2>3. self \in Walks(n)
    BY <1>3, <1>4, <2>1, <2>2 DEF Walks
  <2>4. self.current = Frame.next
    BY <1>3, <2>2 DEF Walks
  <2> QED
    BY <2>1, <2>3, <2>4
<1>7. stage.leftStage # 0 => inner \in Walks(n) /\ inner.pc = "next"
  <2>1. SUFFICES ASSUME stage.leftStage # 0 PROVE inner \in Walks(n) /\ inner.pc = "next"
    OBVIOUS
  <2>2. Precedence(stage.leftStage) \in Ranks
    BY <1>2, <1>3, <1>5, <2>1, RankOf
  <2> QED
    BY <1>3, <1>5, <2>2 DEF Walk, Walks, NilStage
<1> HIDE DEF self, inner, stage
<1>8. WalksInv(Append(CallersOfFrame, self), n)
  BY <1>3, <1>6, UpdateKeeps
<1>9. WalksInv(work', n)
  BY <1>1, <1>3, <1>7, <1>8, UpdateKeeps
<1> QED
  BY <1>1, <1>9 DEF CompileIInv

(* The other steps of reorderStages. *)
LEMMA WalkKeeps ==
  ASSUME CompileIInv, PassTernary \/ ExtendRun \/ BreakRun \/ LeaveWalk
  PROVE  CompileIInv'
<1>1. /\ compile = "reorder" /\ work # << >> /\ compile' = compile /\ root' = root
      /\ root \in 1 .. Len(program) /\ \E V : ProgramOK(program, V)
  BY DEF PassTernary, ExtendRun, BreakRun, LeaveWalk, AtCurrent, CompileIInv
<1>2. Len(program') = Len(program) /\ \E V : ProgramOK(program', V)
  <2>1. Flush \/ program' = program
    BY DEF PassTernary, ExtendRun, BreakRun, LeaveWalk
  <2> QED
    BY <1>1, <2>1, FlushKeeps
<1>3. WalksInv(work', Len(program))
  <2>1. /\ Frame.pc = "current" => Frame.current \in 1 .. Len(program)
        /\ Frame.run \in Seq(1 .. Len(program))
        /\ WalksInv(CallersOfFrame, Len(program))
    BY <1>1, WalkFacts DEF Walks
  <2>2. CASE LeaveWalk
    BY <2>1, <2>2 DEF LeaveWalk
  <2>3. CASE PassTernary \/ ExtendRun \/ BreakRun
    <3>1. PICK run \in { << >>, Append(Frame.run, Frame.current), <<Frame.current>> } :
            GoOn(run) /\ Frame.pc = "current"
      BY <2>3 DEF PassTernary, ExtendRun, BreakRun, AtCurrent
    <3>2. run \in Seq(1 .. Len(program))
      <4>1. Frame.current \in 1 .. Len(program)
        BY <2>1, <3>1
      <4>2. CASE run = << >>
        BY <4>2
      <4>3. CASE run = Append(Frame.run, Frame.current)
        BY <2>1, <4>1, <4>3
      <4>4. CASE run = <<Frame.current>>
        BY <4>1, <4>4
      <4> QED
        BY <3>1, <4>2, <4>3, <4>4
    <3> QED
      BY <1>1, <3>1, <3>2, GoOnKeeps
  <2> QED
    BY <2>2, <2>3
<1> QED
  BY <1>1, <1>2, <1>3 DEF CompileIInv

-----------------------------------------------------------------------------
(* elideLiterals *)

(* What holds of the top frame of elideLiterals and its callers. *)
LEMMA VisitFacts ==
  ASSUME CompileIInv, compile = "elide", work # << >>
  PROVE  /\ Len(program) \in Nat /\ Len(work) \in Nat \ {0} /\ Frame \in Visits(Len(program))
         /\ work \in Seq(Visits(Len(program))) /\ CallersOfFrame \in Seq(Visits(Len(program)))
         /\ Len(CallersOfFrame) = Len(work) - 1
         /\ \A f \in 1 .. Len(work) - 1 : CallersOfFrame[f] = work[f] /\ work[f].pc # "self"
         /\ root \in 1 .. Len(program) /\ \E V : ProgramOK(program, V)
<1>1. /\ work \in Seq(Visits(Len(program))) /\ root \in 1 .. Len(program)
      /\ \A f \in 1 .. Len(work) : f < Len(work) => work[f].pc # "self"
      /\ \E V : ProgramOK(program, V)
  BY DEF CompileIInv, VisitsInv
<1>2. Len(program) \in Nat /\ Len(work) \in Nat \ {0}
  BY <1>1 DEF ProgramOK
<1>3. Frame \in Visits(Len(program))
  BY <1>1, <1>2 DEF Frame
<1>4. /\ CallersOfFrame \in Seq(Visits(Len(program))) /\ Len(CallersOfFrame) = Len(work) - 1
      /\ \A f \in 1 .. Len(work) - 1 : CallersOfFrame[f] = work[f]
  BY <1>1, PrefixIsSeq DEF CallersOfFrame
<1>5. \A f \in 1 .. Len(work) - 1 : work[f].pc # "self"
  BY <1>1, <1>2
<1> QED
  BY <1>1, <1>2, <1>3, <1>4, <1>5

LEMMA VisitAppends ==
  ASSUME NEW n \in Nat, NEW w \in Seq(Visits(n)), \A f \in 1 .. Len(w) : w[f].pc # "self",
         NEW frame \in Visits(n)
  PROVE  VisitsInv(Append(w, frame), n)
BY DEF VisitsInv

(* A visit turns to a child, or past one that is not there. *)
LEMMA ElideChildKeeps ==
  ASSUME CompileIInv, ElideChild
  PROVE  CompileIInv'
<1> DEFINE n == Len(program)
           child == program[Frame.stage][Frame.pc]
           turned == [Frame EXCEPT !.pc = AfterPart(Frame.pc)]
<1>1. /\ compile = "elide" /\ work # << >> /\ Frame.pc \in { "leftStage", "rightStage" }
      /\ work' = IF child = 0 THEN Append(CallersOfFrame, turned) ELSE Append(work, Visit(child))
      /\ compile' = compile /\ program' = program /\ root' = root
  BY DEF ElideChild, At2, Update, NilStage
<1>2. PICK V : ProgramOK(program, V)
  BY <1>1, VisitFacts
<1>3. /\ n \in Nat /\ Len(work) \in Nat \ {0} /\ Frame \in Visits(n)
      /\ work \in Seq(Visits(n)) /\ CallersOfFrame \in Seq(Visits(n))
      /\ Len(CallersOfFrame) = Len(work) - 1 /\ root \in 1 .. n
      /\ \A f \in 1 .. Len(work) - 1 : CallersOfFrame[f] = work[f] /\ work[f].pc # "self"
  BY <1>1, VisitFacts
<1>4. child \in 0 .. n
  <2>1. program[Frame.stage] \in StageOf(n, V)
    BY <1>2, <1>3 DEF ProgramOK, Visits
  <2>2. program[Frame.stage].leftStage \in 0 .. n /\ program[Frame.stage].rightStage \in 0 .. n
    BY <2>1 DEF StageOf
  <2>3. CASE Frame.pc = "leftStage"
    BY <2>2, <2>3
  <2>4. CASE Frame.pc = "rightStage"
    BY <2>2, <2>4
  <2> QED
    BY <1>1, <2>3, <2>4
<1>5. turned \in Visits(n)
  BY <1>1, <1>3 DEF Visits, AfterPart
<1>6. VisitsInv(Append(CallersOfFrame, turned), n)
  <2> HIDE DEF turned
  <2> QED
    BY <1>3, <1>5, VisitAppends
<1>7. ASSUME child # 0
      PROVE  VisitsInv(Append(work, Visit(child)), n)
  <2>1. Visit(child) \in Visits(n)
    BY <1>3, <1>4, <1>7 DEF Visits, Visit
  <2>2. \A f \in 1 .. Len(work) : work[f].pc # "self"
    BY <1>1, <1>3 DEF Frame
  <2> HIDE DEF child
  <2> QED
    BY <1>3, <2>1, <2>2, VisitAppends
<1> HIDE DEF child, turned
<1>8. VisitsInv(work', n)
  BY <1>1, <1>6, <1>7
<1> QED
  BY <1>1, <1>2, <1>3, <1>8 DEF CompileIInv

(* A frame turns to the next part of its stage. *)
LEMMA TurnKeeps ==
  ASSUME NEW n \in Nat, NEW m \in Nat, n <= m, NEW frame \in Visits(n)
  PROVE  [frame EXCEPT !.pc = AfterPart(frame.pc)] \in Visits(m)
<1>1. AfterPart(frame.pc) \in { "rightStage", "self" }
  BY DEF AfterPart
<1> QED
  BY <1>1 DEF Visits

LEMMA LastTurned ==
  ASSUME NEW n \in Nat, NEW w \in Seq(Visits(n)), w # << >>,
         \A f \in 1 .. Len(w) : w[f].pc # "self", NEW frame \in Visits(n)
  PROVE  VisitsInv([w EXCEPT ![Len(w)] = frame], n)
<1> DEFINE S == Visits(n)
           v == [w EXCEPT ![Len(w)] = frame]
<1>1. w \in [1 .. Len(w) -> S] /\ Len(w) \in Nat \ {0} /\ frame \in S
  OBVIOUS
<1>0. Len(w) \in Nat
  OBVIOUS
<1> HIDE DEF S
<1>2. v \in [1 .. Len(w) -> S] /\ \A f \in 1 .. Len(w) : f # Len(w) => v[f] = w[f]
  BY <1>1
<1> HIDE DEF v
<1>3. v \in Seq(S) /\ Len(v) = Len(w)
  BY <1>1, <1>2, FunctionIsSeq
<1>4. ASSUME NEW f \in 1 .. Len(w), f < Len(w)
      PROVE  v[f].pc # "self"
  <2>1. f # Len(w)
    BY <1>0, <1>4
  <2>2. v[f] = w[f]
    BY <1>2, <2>1
  <2> QED
    BY <2>2
<1>5. VisitsInv(v, n)
  BY <1>3, <1>4 DEF VisitsInv, S
<1> QED
  BY <1>5 DEF v

LEMMA VisitGrows ==
  ASSUME NEW n \in Nat, NEW m \in Nat, n <= m, NEW frame \in Visits(n)
  PROVE  frame \in Visits(m)
BY DEF Visits

LEMMA PartReplaced ==
  ASSUME NEW n \in Nat, NEW V, NEW r \in StageOf(n, V), Fits(r), NEW child \in 0 .. n
  PROVE  /\ [r EXCEPT !.leftStage = child] \in StageOf(n, V)
         /\ [r EXCEPT !.rightStage = child] \in StageOf(n, V)
         /\ Fits([r EXCEPT !.leftStage = child])
         /\ Fits([r EXCEPT !.rightStage = child])
BY DEF StageOf, Fits

LEMMA StageReplaced ==
  ASSUME NEW p, NEW V, ProgramOK(p, V), Len(p) \in Nat, NEW k \in 1 .. Len(p),
         NEW changed \in StageOf(Len(p), V), Fits(changed)
  PROVE  ProgramOK([p EXCEPT ![k] = changed], V) /\ Len([p EXCEPT ![k] = changed]) = Len(p)
<1> DEFINE n == Len(p)
           S == StageOf(n, V)
           q == [p EXCEPT ![k] = changed]
<1>1. p \in [1 .. n -> S] /\ changed \in S /\ \A j \in 1 .. n : Fits(p[j])
  BY DEF ProgramOK
<1> HIDE DEF S
<1>2. q \in [1 .. n -> S] /\ \A j \in 1 .. n : q[j] = IF j = k THEN changed ELSE p[j]
  BY <1>1
<1> HIDE DEF q
<1>3. q \in Seq(S) /\ Len(q) = n
  BY <1>2, FunctionIsSeq
<1>4. \A j \in 1 .. n : Fits(q[j])
  BY <1>1, <1>2
<1>5. ProgramOK(q, V) /\ Len(q) = n
  BY <1>3, <1>4 DEF ProgramOK, S
<1> QED
  BY <1>5 DEF q

(* What a visit returns becomes the child of its caller, or the root. *)
LEMMA ReturnElidedKeeps ==
  ASSUME CompileIInv, compile = "elide", work # << >>, Frame.pc = "self", compile' = compile,
         NEW V, NEW heap, ProgramOK(heap, V), Len(heap) \in Nat, Len(program) <= Len(heap),
         NEW stage \in 1 .. Len(heap), ReturnElided(heap, stage)
  PROVE  CompileIInv'
<1> DEFINE n == Len(program)
           m == Len(heap)
           caller == work[Len(work) - 1]
<1>1. /\ n \in Nat /\ Len(work) \in Nat \ {0}
      /\ work \in Seq(Visits(n)) /\ CallersOfFrame \in Seq(Visits(n))
      /\ Len(CallersOfFrame) = Len(work) - 1 /\ root \in 1 .. n
      /\ \A f \in 1 .. Len(work) - 1 : CallersOfFrame[f] = work[f] /\ work[f].pc # "self"
  BY VisitFacts
<1>2. CASE Len(work) = 1
  <2>1. program' = heap /\ root' = stage /\ work' = << >>
    BY <1>2 DEF ReturnElided
  <2> QED
    BY <2>1 DEF CompileIInv, VisitsInv
<1>3. CASE Len(work) # 1
  <2> DEFINE callers == CallersOfFrame
             last == Len(work) - 1
             turned == [callers[last] EXCEPT !.pc = AfterPart(callers[last].pc)]
  <2>1. /\ program' = [heap EXCEPT ![caller.stage][caller.pc] = stage] /\ root' = root
        /\ work' = [callers EXCEPT ![last] = turned]
    BY <1>3, Zenon DEF ReturnElided
  <2>2. last \in 1 .. Len(callers) /\ last = Len(callers) /\ callers[last] = caller
    BY <1>1, <1>3
  <2>3. caller \in Visits(n) /\ caller.pc # "self"
    BY <1>1, <1>3
  <2>4. caller.stage \in 1 .. m /\ caller.pc \in { "leftStage", "rightStage" }
    <3>1. n <= m /\ n \in Nat /\ m \in Nat
      BY <1>1
    <3> HIDE DEF caller, n, m
    <3> QED
      BY <2>3, <3>1 DEF Visits
  <2>5. ProgramOK(program', V) /\ Len(program') = m
    <3> DEFINE k == caller.stage
               part == caller.pc
               r == heap[k]
               changed == [r EXCEPT ![part] = stage]
    <3>1. k \in 1 .. m /\ part \in { "leftStage", "rightStage" }
      BY <2>4
    <3>2. program' = [heap EXCEPT ![k] = changed]
      BY <2>1
    <3> HIDE DEF k, part
    <3>3. r \in StageOf(m, V) /\ Fits(r)
      BY <3>1 DEF ProgramOK
    <3> HIDE DEF r
    <3>4. changed = [r EXCEPT !.leftStage = stage] \/ changed = [r EXCEPT !.rightStage = stage]
      BY <3>1
    <3> HIDE DEF changed
    <3>5. changed \in StageOf(m, V) /\ Fits(changed)
      <4>1. stage \in 0 .. m
        OBVIOUS
      <4>2. CASE changed = [r EXCEPT !.leftStage = stage]
        BY <3>3, <4>1, <4>2, PartReplaced
      <4>3. CASE changed = [r EXCEPT !.rightStage = stage]
        BY <3>3, <4>1, <4>3, PartReplaced
      <4> QED
        BY <3>4, <4>2, <4>3
    <3>6. ProgramOK(heap, V) /\ Len(heap) \in Nat /\ Len(heap) = m
      BY <1>1
    <3>7. ProgramOK([heap EXCEPT ![k] = changed], V) /\ Len([heap EXCEPT ![k] = changed]) = Len(heap)
      BY <3>1, <3>5, <3>6, StageReplaced
    <3> QED
      BY <3>2, <3>6, <3>7
  <2>6. turned \in Visits(m) /\ caller \in Visits(m)
    <3> HIDE DEF caller, callers
    <3>1. turned = [caller EXCEPT !.pc = AfterPart(caller.pc)]
      BY <2>2
    <3>2. caller \in Visits(m)
      BY <1>1, <2>3, VisitGrows
    <3> QED
      BY <1>1, <2>3, <3>1, <3>2, TurnKeeps
  <2>7. callers \in Seq(Visits(m)) /\ callers # << >>
    <3>1. \A f \in 1 .. last : callers[f] \in Visits(m)
      BY <1>1, VisitGrows
    <3>2. callers = [f \in 1 .. last |-> callers[f]] /\ last \in Nat \ {0}
      BY <1>1, <1>3
    <3> HIDE DEF callers, last
    <3>3. callers \in [1 .. last -> Visits(m)]
      BY <3>1, <3>2
    <3> QED
      BY <3>2, <3>3, FunctionIsSeq
  <2>8. \A f \in 1 .. Len(callers) : callers[f].pc # "self"
    BY <1>1
  <2> HIDE DEF turned
  <2>9. VisitsInv(work', m)
    <3>1. work' = [callers EXCEPT ![Len(callers)] = turned]
      BY <2>1, <2>2
    <3> HIDE DEF callers
    <3> QED
      BY <2>6, <2>7, <2>8, <3>1, LastTurned
  <2> QED
    BY <1>1, <2>1, <2>5, <2>9 DEF CompileIInv
<1> QED
  BY <1>2, <1>3

(* The literal of elideStage is a stage as any other. *)
LEMMA LiteralFits ==
  ASSUME NEW n \in Nat, NEW at \in Nat, NEW W, NEW x \in W
  PROVE  LET literal == [symbol |-> "LITERAL", operator |-> "constant", checks |-> "LITERAL",
                         leftStage |-> NilStage, rightStage |-> NilStage, at |-> at, value |-> x]
         IN  literal \in StageOf(n, W) /\ Fits(literal)
<1>1. "LITERAL" \in AllSymbols /\ "constant" \in Operators
  BY DEF AllSymbols, Operators
<1> QED
  BY <1>1 DEF StageOf, Fits, OperatorFits, LiteralOperators, NilStage

(* The program grows by a stage. *)
LEMMA StageAppended ==
  ASSUME NEW V, NEW W, V \subseteq W, ProgramOK(program, V),
         NEW literal \in StageOf(Len(program) + 1, W), Fits(literal)
  PROVE  LET heap == Append(program, literal)
         IN  /\ Len(program) \in Nat /\ Len(heap) = Len(program) + 1
             /\ ProgramOK(heap, W)
             /\ heap[Len(program) + 1] = literal
             /\ \A k \in 1 .. Len(program) : heap[k] = program[k]
<1>1. PICK n, heap : n = Len(program) /\ heap = Append(program, literal)
  OBVIOUS
<1>2. n \in Nat
  BY <1>1 DEF ProgramOK
<1>3. literal \in StageOf(n + 1, W) /\ Fits(literal)
  BY <1>1
<1>4. ASSUME NEW k \in 1 .. n
      PROVE  program[k] \in StageOf(n + 1, W) /\ Fits(program[k])
  <2>1. program[k] \in StageOf(n, V) /\ Fits(program[k])
    BY <1>1 DEF ProgramOK
  <2> QED
    BY <1>2, <2>1, StageGrows
<1>5. program \in Seq(StageOf(n + 1, W))
  <2>1. program = [k \in 1 .. n |-> program[k]]
    BY <1>1 DEF ProgramOK
  <2>2. program \in [1 .. n -> StageOf(n + 1, W)]
    BY <1>4, <2>1
  <2> QED
    BY <1>2, <2>2, FunctionIsSeq
<1>6. /\ heap \in Seq(StageOf(n + 1, W)) /\ Len(heap) = n + 1
      /\ \A k \in 1 .. n + 1 : heap[k] = IF k = n + 1 THEN literal ELSE program[k]
  <2>1. PICK S : S = StageOf(n + 1, W)
    OBVIOUS
  <2>2. program \in Seq(S) /\ literal \in S
    BY <1>3, <1>5, <2>1
  <2>3. /\ heap \in Seq(S) /\ Len(heap) = n + 1 /\ heap[n + 1] = literal
        /\ \A k \in 1 .. n : heap[k] = program[k]
    BY <1>1, <2>2
  <2>4. \A k \in 1 .. n + 1 : heap[k] = IF k = n + 1 THEN literal ELSE program[k]
    BY <1>2, <2>3
  <2>5. heap \in Seq(StageOf(n + 1, W))
    BY <2>1, <2>3
  <2> QED
    BY <2>3, <2>4, <2>5
<1>7. ProgramOK(heap, W)
  <2>1. \A k \in 1 .. n + 1 : Fits(heap[k])
    BY <1>2, <1>3, <1>4, <1>6
  <2> QED
    BY <1>6, <2>1 DEF ProgramOK
<1> QED
  BY <1>1, <1>2, <1>6, <1>7

(* The last part of a visit, whether a literal is made or not. *)
LEMMA ElideStageKeeps ==
  ASSUME CompileIInv, ElideStage
  PROVE  CompileIInv'
<1>1. PICK stage, n : stage = program[Frame.stage] /\ n = Len(program)
  OBVIOUS
<1>2. PICK literal :
        literal = [symbol |-> "LITERAL", operator |-> "constant", checks |-> "LITERAL",
                   leftStage |-> NilStage, rightStage |-> NilStage,
                   at |-> stage.at, value |-> Elided(stage)[2]]
  OBVIOUS
<1>3. /\ compile = "elide" /\ work # << >> /\ Frame.pc = "self" /\ compile' = compile
      /\ \/ ReturnElided(Append(program, literal), n + 1)
         \/ ReturnElided(program, Frame.stage)
  BY <1>1, <1>2 DEF ElideStage, At2
<1>4. PICK V : ProgramOK(program, V)
  BY <1>3, VisitFacts
<1>5. n \in Nat /\ Frame.stage \in 1 .. n
  BY <1>1, <1>3, VisitFacts DEF Visits
<1>6. CASE ReturnElided(program, Frame.stage)
  BY <1>1, <1>3, <1>4, <1>5, <1>6, ReturnElidedKeeps
<1>7. CASE ReturnElided(Append(program, literal), n + 1)
  <2>1. stage.at \in Nat
    <3>1. stage \in StageOf(n, V)
      BY <1>1, <1>4, <1>5 DEF ProgramOK
    <3> QED
      BY <3>1 DEF StageOf
  <2>2. PICK heap, at, x, W :
          heap = Append(program, literal) /\ at = stage.at /\ x = Elided(stage)[2] /\ W = V \cup { x }
    OBVIOUS
  <2>3. /\ at \in Nat
        /\ literal = [symbol |-> "LITERAL", operator |-> "constant", checks |-> "LITERAL",
                      leftStage |-> NilStage, rightStage |-> NilStage, at |-> at, value |-> x]
    BY <1>2, <2>1, <2>2
  <2>4. Len(heap) = n + 1 /\ ProgramOK(heap, W)
    <3>1. literal \in StageOf(n + 1, W) /\ Fits(literal) /\ V \subseteq W
      BY <1>5, <2>2, <2>3, LiteralFits
    <3> QED
      BY <1>1, <1>4, <2>2, <3>1, StageAppended
  <2>5. n + 1 \in 1 .. Len(heap) /\ Len(heap) \in Nat /\ n <= Len(heap) /\ ReturnElided(heap, n + 1)
    BY <1>5, <1>7, <2>2, <2>4
  <2> QED
    BY <1>1, <1>3, <2>4, <2>5, ReturnElidedKeeps
<1> QED
  BY <1>3, <1>6, <1>7

-----------------------------------------------------------------------------
(* The passes together *)

LEMMA CompileStepKeeps ==
  ASSUME PlanIInv, CompileIInv, CompileStep
  PROVE  CompileIInv'
<1>1. CASE StartReorder
  BY <1>1, StartReorderKeeps
<1>2. CASE WalkRight
  BY <1>2, WalkRightKeeps
<1>3. CASE PassTernary \/ ExtendRun \/ BreakRun \/ LeaveWalk
  BY <1>3, WalkKeeps
<1>4. CASE StartElide
  <2>1. /\ root \in 1 .. Len(program) /\ \E V : ProgramOK(program, V)
        /\ compile' = "elide" /\ program' = program /\ root' = root /\ work' = <<Visit(root)>>
    BY <1>4 DEF StartElide, CompileIInv
  <2>2. Visit(root) \in Visits(Len(program))
    BY <2>1 DEF Visit, Visits
  <2>3. VisitsInv(<<Visit(root)>>, Len(program))
    BY <2>2 DEF VisitsInv
  <2> QED
    BY <2>1, <2>3 DEF CompileIInv
<1>5. CASE ElideChild
  BY <1>5, ElideChildKeeps
<1>6. CASE ElideStage
  BY <1>6, ElideStageKeeps
<1>7. CASE Compiled
  BY <1>7 DEF Compiled, CompileIInv
<1> QED
  BY <1>1, <1>2, <1>3, <1>4, <1>5, <1>6, <1>7 DEF CompileStep

-----------------------------------------------------------------------------
(***************************************************************************)
(* reorderStages never writes to a leaf, the stage of a parameter or of a  *)
(* constant.  A frame walks down the right side of a subtree that is still *)
(* as the planner made it: the planner made a stage after its children,    *)
(* the right one last, so what is left to walk are the stages between a    *)
(* lower bound, the base of the frame, and the one that comes next; all    *)
(* that is mirrored by the frame lies above that, and all that is mirrored *)
(* by the frames above it lies at or below the base.                       *)
(***************************************************************************)

(* The stages as the planner made them. *)
Original == [k \in 1 .. Len(stages) |-> Checked(stages[k], literals)]

Rank(stage) == findOperatorPrecedenceForSymbol(stage.symbol)
IsLeaf(stage) == stage.operator \in { "parameter", "constant" }
LeafSymbols == { "LITERAL", "VALUE" }

OriginalOK(o) ==
  /\ Len(o) \in Nat /\ DOMAIN o = 1 .. Len(o)
  /\ PostOrdered(o)
  /\ \A k \in 1 .. Len(o) :
       /\ o[k].leftStage \in 0 .. k - 1 /\ o[k].rightStage \in 0 .. k - 1
       /\ o[k].symbol \in AllSymbols
       /\ IsLeaf(o[k]) => o[k].symbol \in LeafSymbols
       /\ o[k].symbol \in LeafSymbols => o[k].leftStage = 0 /\ o[k].rightStage = 0

(* A run goes down a right side: its stages are of one rank, as the planner  *)
(* made them, each the right child of the one before.                        *)
RunBehind(o, p, w) ==
  \A i \in 1 .. Len(w.run) :
    /\ w.run[i] > w.next /\ p[w.run[i]] = o[w.run[i]]
    /\ w.pc = "current" => w.run[i] > w.current
    /\ Rank(o[w.run[i]]) = w.precedence
    /\ i < Len(w.run) \/ w.pc = "current" => o[w.run[i]].rightStage # 0
    /\ i = Len(w.run) /\ w.pc = "next" => w.next = o[w.run[i]].rightStage
    /\ i = Len(w.run) /\ w.pc = "current" => w.current = o[w.run[i]].rightStage
    /\ i < Len(w.run) => w.run[i + 1] = o[w.run[i]].rightStage
    /\ \A j \in 1 .. i - 1 : w.run[j] > w.run[i]

(* What is left to walk for frame w with base b is closed and untouched. *)
WalkBehind(o, p, w, b) ==
  /\ w.next # 0 => b < w.next /\ Closed(o, b, w.next) /\ \A j \in b + 1 .. w.next : p[j] = o[j]
  /\ w.pc = "current" => /\ w.current > b /\ w.current > w.next /\ p[w.current] = o[w.current]
                         /\ w.next = o[w.current].rightStage
  /\ \A i \in 1 .. Len(w.run) : w.run[i] > b
  /\ RunBehind(o, p, w)

Within(w, b) ==
  /\ w.next <= b /\ (w.pc = "current" => w.current <= b)
  /\ \A i \in 1 .. Len(w.run) : w.run[i] <= b

WalksOrdered(o, p, w, base) ==
  /\ \A f \in 1 .. Len(w) : base[f] \in Nat /\ WalkBehind(o, p, w[f], base[f])
  /\ \A f, h \in 1 .. Len(w) : f < h => Within(w[h], base[f]) /\ w[f].pc = "current"

Ordered(o, p, w) == \E base : WalksOrdered(o, p, w, base)

LeavesKept(o, p) == \A k \in 1 .. Len(o) : IsLeaf(o[k]) => p[k] = o[k]

(* Only leaves have the rank of values. *)
LEMMA ValueRank ==
  ASSUME NEW stage, stage.symbol \in AllSymbols, Rank(stage) = "value"
  PROVE  stage.symbol \in LeafSymbols
<1>1. stage.symbol \in StageSymbols \cup { "NOOP", "FUNCTIONAL", "ACCESS" } \cup LeafSymbols
  BY DEF AllSymbols, LeafSymbols
<1>2. stage.symbol \notin { "NOOP", "FUNCTIONAL", "ACCESS" }
  BY DEF Rank, findOperatorPrecedenceForSymbol
<1>3. stage.symbol \notin StageSymbols
  BY DEF Rank, findOperatorPrecedenceForSymbol, StageSymbols
<1> QED
  BY <1>1, <1>2, <1>3

LEMMA LeafRank ==
  ASSUME NEW stage, stage.symbol \in LeafSymbols
  PROVE  Rank(stage) = "value"
BY DEF Rank, findOperatorPrecedenceForSymbol, LeafSymbols

(* A run of more than one stage has no leaf. *)
LEMMA NoLeafInRun ==
  ASSUME NEW o, OriginalOK(o), NEW p, NEW w \in Walks(Len(o)), RunBehind(o, p, w), Len(w.run) > 1,
         NEW i \in 1 .. Len(w.run)
  PROVE  ~IsLeaf(o[w.run[i]])
<1>1. w.run \in Seq(1 .. Len(o))
  BY DEF Walks
<1>2. Len(w.run) \in Nat /\ \A j \in 1 .. Len(w.run) : w.run[j] \in 1 .. Len(o)
  BY <1>1
<1>3. 1 \in 1 .. Len(w.run) /\ 1 < Len(w.run)
  BY <1>2
<1>4. o[w.run[1]].rightStage # 0 /\ Rank(o[w.run[1]]) = w.precedence /\ Rank(o[w.run[i]]) = w.precedence
  BY <1>3 DEF RunBehind
<1>5. o[w.run[1]].symbol \in AllSymbols /\ o[w.run[1]].symbol \notin LeafSymbols
  BY <1>2, <1>3, <1>4 DEF OriginalOK
<1>6. Rank(o[w.run[1]]) # "value"
  BY <1>5, ValueRank
<1>7. IsLeaf(o[w.run[i]]) => o[w.run[i]].symbol \in LeafSymbols
  BY <1>2 DEF OriginalOK
<1> QED
  BY <1>4, <1>6, <1>7, LeafRank

(* What a frame walks below the stage it is at. *)
LEMMA ClosedBelow ==
  ASSUME NEW o, OriginalOK(o), NEW b \in Nat, NEW n \in 1 .. Len(o), b < n, Closed(o, b, n)
  PROVE  /\ o[n].leftStage # 0 => /\ b < o[n].leftStage /\ o[n].leftStage < n
                                  /\ Closed(o, b, o[n].leftStage)
         /\ o[n].rightStage # 0 => /\ b < o[n].rightStage /\ o[n].rightStage < n
                                   /\ Closed(o, b, o[n].rightStage)
         /\ o[n].leftStage # 0 /\ o[n].rightStage # 0 =>
              o[n].leftStage < o[n].rightStage /\ Closed(o, o[n].leftStage, o[n].rightStage)
<1>1. PICK l, r : l = o[n].leftStage /\ r = o[n].rightStage
  OBVIOUS
<1>2. l \in 0 .. n - 1 /\ r \in 0 .. n - 1 /\ Len(o) \in Nat /\ n \in Nat
  BY <1>1 DEF OriginalOK
<1>3. /\ r = 0 \/ r = n - 1
      /\ l # 0 => Closed(o, l, n - 1)
      /\ l # 0 /\ r # 0 => l < r
  BY <1>1 DEF OriginalOK, PostOrdered
<1>4. (l = 0 \/ l > b) /\ (r = 0 \/ r > b)
  BY <1>1, <1>2 DEF Closed
<1>5. \A m \in 0 .. n : Closed(o, b, m)
  BY <1>2 DEF Closed
<1>6. (l # 0 => b < l /\ l < n /\ Closed(o, b, l)) /\ (r # 0 => b < r /\ r < n /\ Closed(o, b, r))
  BY <1>2, <1>4, <1>5
<1>7. l # 0 /\ r # 0 => l < r /\ Closed(o, l, r)
  BY <1>3
<1> QED
  BY <1>1, <1>6, <1>7

(* The frame on top of a stack of walks, and the frames below it.            *)
LEMMA PoppedOrder ==
  ASSUME NEW S, NEW c \in Seq(S), NEW w \in S, NEW o, NEW p, Ordered(o, p, Append(c, w))
  PROVE  \E base : \E b \in Nat :
           /\ WalksOrdered(o, p, c, base) /\ WalkBehind(o, p, w, b)
           /\ \A f \in 1 .. Len(c) : Within(w, base[f]) /\ c[f].pc = "current"
<1>1. PICK d, n : d = Append(c, w) /\ n = Len(c) + 1
  OBVIOUS
<1>2. /\ n \in Nat /\ Len(c) \in Nat /\ Len(d) = n /\ d[n] = w /\ n \in 1 .. n
      /\ \A f \in 1 .. Len(c) : d[f] = c[f] /\ f < n /\ f \in 1 .. n
  BY <1>1
<1>3. PICK base : WalksOrdered(o, p, d, base)
  BY <1>1 DEF Ordered
<1>4. base[n] \in Nat /\ WalkBehind(o, p, w, base[n])
  BY <1>2, <1>3 DEF WalksOrdered
<1>5. \A f \in 1 .. Len(c) : Within(w, base[f]) /\ c[f].pc = "current"
  BY <1>2, <1>3 DEF WalksOrdered
<1>6. WalksOrdered(o, p, c, base)
  <2>1. \A f \in 1 .. Len(c) : base[f] \in Nat /\ WalkBehind(o, p, c[f], base[f])
    BY <1>2, <1>3 DEF WalksOrdered
  <2>2. \A f, h \in 1 .. Len(c) : f < h => Within(c[h], base[f]) /\ c[f].pc = "current"
    BY <1>2, <1>3 DEF WalksOrdered
  <2> QED
    BY <2>1, <2>2 DEF WalksOrdered
<1> QED
  BY <1>4, <1>5, <1>6

(* A frame put on top is for what all frames below it leave alone. *)
LEMMA PushedOrder ==
  ASSUME NEW S, NEW c \in Seq(S), NEW w \in S, NEW o, NEW p, NEW base, NEW b \in Nat,
         WalksOrdered(o, p, c, base), WalkBehind(o, p, w, b),
         \A f \in 1 .. Len(c) : Within(w, base[f]) /\ c[f].pc = "current"
  PROVE  \E more : /\ WalksOrdered(o, p, Append(c, w), more)
                   /\ more[Len(c) + 1] = b /\ \A f \in 1 .. Len(c) : more[f] = base[f]
<1>1. PICK d, n : d = Append(c, w) /\ n = Len(c) + 1
  OBVIOUS
<1>2. /\ n \in Nat /\ Len(c) \in Nat /\ Len(d) = n /\ d[n] = w /\ 1 .. n = (1 .. Len(c)) \cup { n }
      /\ \A f \in 1 .. Len(c) : d[f] = c[f] /\ f < n /\ f # n
  BY <1>1
<1>3. PICK more : more = [f \in 1 .. n |-> IF f = n THEN b ELSE base[f]]
  OBVIOUS
<1>4. more[n] = b /\ \A f \in 1 .. Len(c) : more[f] = base[f]
  BY <1>2, <1>3
<1>5. \A f \in 1 .. n : more[f] \in Nat /\ WalkBehind(o, p, d[f], more[f])
  BY <1>2, <1>4 DEF WalksOrdered
<1>6. ASSUME NEW f \in 1 .. n, NEW h \in 1 .. n, f < h
      PROVE  Within(d[h], more[f]) /\ d[f].pc = "current"
  <2>1. f \in 1 .. Len(c)
    BY <1>2, <1>6
  <2>2. CASE h = n
    BY <1>2, <1>4, <2>1, <2>2
  <2>3. CASE h \in 1 .. Len(c)
    BY <1>2, <1>4, <1>6, <2>1, <2>3 DEF WalksOrdered
  <2> QED
    BY <1>2, <2>2, <2>3
<1>7. WalksOrdered(o, p, d, more)
  BY <1>2, <1>5, <1>6 DEF WalksOrdered
<1> QED
  BY <1>1, <1>3, <1>4, <1>7

(* What is written above the bases of the frames does not concern them.      *)
LEMMA OthersUntouched ==
  ASSUME NEW o, OriginalOK(o), NEW p, NEW q, NEW T, \A k \in 1 .. Len(o) : k \notin T => q[k] = p[k],
         NEW c \in Seq(Walks(Len(o))), NEW base, WalksOrdered(o, p, c, base),
         \A f \in 1 .. Len(c) : \A t \in T : t \in Nat /\ t <= base[f]
  PROVE  WalksOrdered(o, q, c, base)
<1>1. ASSUME NEW f \in 1 .. Len(c)
      PROVE  WalkBehind(o, q, c[f], base[f])
  <2>1. PICK w, b : w = c[f] /\ b = base[f]
    OBVIOUS
  <2>2. w \in Walks(Len(o)) /\ b \in Nat /\ WalkBehind(o, p, w, b) /\ Len(o) \in Nat
    BY <2>1 DEF WalksOrdered, OriginalOK
  <2>3. /\ w.next \in 0 .. Len(o) /\ w.current \in 0 .. Len(o)
        /\ \A i \in 1 .. Len(w.run) : w.run[i] \in 1 .. Len(o)
    <3>1. w.next \in 0 .. Len(o) /\ w.current \in 0 .. Len(o) /\ w.run \in Seq(1 .. Len(o))
      BY <2>2 DEF Walks
    <3> QED
      BY <3>1
  <2>4. ASSUME NEW k \in 1 .. Len(o), k > b
        PROVE  q[k] = p[k]
    <3>1. k \notin T
      BY <2>1, <2>2, <2>4
    <3> QED
      BY <3>1
  <2>5. w.next # 0 => \A j \in b + 1 .. w.next : q[j] = o[j]
    BY <2>2, <2>3, <2>4 DEF WalkBehind
  <2>6. w.pc = "current" => q[w.current] = o[w.current]
    BY <2>2, <2>3, <2>4 DEF WalkBehind
  <2>7. \A i \in 1 .. Len(w.run) : q[w.run[i]] = o[w.run[i]]
    BY <2>2, <2>3, <2>4 DEF WalkBehind, RunBehind
  <2>8. RunBehind(o, q, w)
    BY <2>2, <2>7 DEF WalkBehind, RunBehind
  <2> QED
    BY <2>1, <2>2, <2>5, <2>6, <2>8 DEF WalkBehind
<1> QED
  BY <1>1 DEF WalksOrdered

(* Mirroring a run leaves the rest of the program alone. *)
LEMMA MirrorTouches ==
  ASSUME NEW V, ProgramOK(program, V), NEW run \in Seq(1 .. Len(program)),
         NEW k \in 1 .. Len(program), \A i \in 1 .. Len(run) : run[i] # k
  PROVE  mirrorStageSubtree(run)[k] = program[k]
<1>1. DOMAIN program = 1 .. Len(program)
  BY DEF ProgramOK
<1>2. k \notin { run[j] : j \in 1 .. Len(run) }
  OBVIOUS
<1> QED
  BY <1>1, <1>2 DEF mirrorStageSubtree

(* The invariant of the two passes over what the planner made.               *)
PassesIInv ==
  /\ HeldIInv /\ CompileIInv
  /\ compile = "idle" => program = << >> /\ root = NilStage
  /\ compile \in { "idle", "done" } => work = << >>
  /\ compile # "idle" =>
       /\ plan = "planned" /\ OriginalOK(Original) /\ Len(Original) <= Len(program)
       /\ LeavesKept(Original, program)
       /\ \A k \in 1 .. Len(program) : program[k].at \in 1 .. Len(tokens)
  /\ compile = "reorder" =>
       Len(program) = Len(Original) /\ Ordered(Original, program, work)
  /\ compile = "elide" =>
       \A f \in 1 .. Len(work) - 1 : program[work[f].stage][work[f].pc] # 0

(* What the planner made, as the passes find it. *)
LEMMA PlannedOriginal ==
  ASSUME NEW t, NEW g, StagesInv(t, g), PostOrdered(g), NEW values,
         NEW o, Len(o) = Len(g), DOMAIN o = 1 .. Len(g), \A k \in 1 .. Len(g) : o[k] = Checked(g[k], values)
  PROVE  OriginalOK(o)
<1>1. g \in Seq(StageRecord) /\ Len(g) \in Nat
  BY DEF StagesInv
<1>2. Len(o) = Len(g) /\ DOMAIN o = 1 .. Len(o)
  BY <1>1
<1>3. ASSUME NEW k \in 1 .. Len(g)
      PROVE  /\ o[k] = Checked(g[k], values)
             /\ o[k].leftStage = g[k].leftStage /\ o[k].rightStage = g[k].rightStage
             /\ o[k].symbol = g[k].symbol /\ o[k].operator = g[k].operator
  BY DEF Checked
<1>4. ASSUME NEW k \in 1 .. Len(g)
      PROVE  /\ o[k].leftStage \in 0 .. k - 1 /\ o[k].rightStage \in 0 .. k - 1
             /\ o[k].symbol \in AllSymbols
             /\ IsLeaf(o[k]) => o[k].symbol \in LeafSymbols
             /\ o[k].symbol \in LeafSymbols => o[k].leftStage = 0 /\ o[k].rightStage = 0
  <2>1. StageOK(t, g, g[k], k - 1) /\ g[k] \in StageRecord
    BY <1>1 DEF StagesInv
  <2>2. /\ g[k].leftStage \in 0 .. k - 1 /\ g[k].rightStage \in 0 .. k - 1
        /\ g[k].symbol \in AllSymbols
        /\ g[k].symbol \in LeafSymbols => g[k].leftStage = 0 /\ g[k].rightStage = 0
    BY <1>1, <2>1 DEF StageOK, StageRecord, LeafSymbols
  <2>3. g[k].operator \in { "parameter", "constant" } => g[k].symbol \in LeafSymbols
    BY <2>1 DEF StageOK, OperatorFits, LeafSymbols, StageSymbols, UntypedOperators
  <2> QED
    BY <1>3, <2>2, <2>3 DEF IsLeaf
<1>5. PostOrdered(o)
  <2>1. ASSUME NEW b \in Nat, NEW k \in 1 .. Len(g), Closed(g, b, k - 1)
        PROVE  Closed(o, b, k - 1)
    <3> SUFFICES ASSUME NEW j \in b + 1 .. k - 1
                 PROVE  /\ o[j].leftStage = 0 \/ o[j].leftStage > b
                        /\ o[j].rightStage = 0 \/ o[j].rightStage > b
      BY DEF Closed
    <3>1. j \in 1 .. Len(g)
      BY <1>1
    <3> QED
      BY <1>3, <2>1, <3>1 DEF Closed
  <2> SUFFICES ASSUME NEW k \in 1 .. Len(g)
               PROVE  /\ o[k].rightStage = 0 \/ o[k].rightStage = k - 1
                      /\ o[k].leftStage # 0 => Closed(o, o[k].leftStage, k - 1)
                      /\ o[k].leftStage # 0 /\ o[k].rightStage # 0 => o[k].leftStage < o[k].rightStage
    BY <1>2 DEF PostOrdered
  <2>2. /\ g[k].rightStage = 0 \/ g[k].rightStage = k - 1
        /\ g[k].leftStage # 0 => Closed(g, g[k].leftStage, k - 1)
        /\ g[k].leftStage # 0 /\ g[k].rightStage # 0 => g[k].leftStage < g[k].rightStage
    BY DEF PostOrdered
  <2>3. o[k].leftStage \in Nat
    BY <1>4
  <2> QED
    BY <1>3, <2>1, <2>2, <2>3
<1>6. OriginalOK(o)
  BY <1>1, <1>2, <1>4, <1>5 DEF OriginalOK
<1> QED
  BY <1>2, <1>3, <1>4, <1>6

(* reorderStages begins with the stages as the planner made them. *)
LEMMA StartReorderPasses ==
  ASSUME PassesIInv, HeldIInv', CompileIInv', StartReorder, UNCHANGED allVars
  PROVE  PassesIInv'
<1>1. /\ plan' = "planned" /\ stages' = stages /\ tokens' = tokens /\ compile' = "reorder" /\ ret' = ret
      /\ program' = [k \in DOMAIN stages |-> Checked(stages[k], literals')]
      /\ work' = <<Walk(ret, findOperatorPrecedenceForSymbol(stages[ret].symbol))>>
  BY DEF StartReorder, allVars, planVars, checkVars
<1>2. /\ StagesInv(tokens, stages) /\ PostOrdered(stages) /\ Len(stages) \in Nat
      /\ ret \in 1 .. Len(stages) /\ DOMAIN stages = 1 .. Len(stages)
  <2>1. PlanIInv /\ plan = "planned" /\ InHand(stages, stack, 0, ret)
    BY DEF StartReorder, PassesIInv, HeldIInv
  <2>2. StagesInv(tokens, stages) /\ Len(stages) \in Nat /\ DOMAIN stages = 1 .. Len(stages)
    BY <2>1 DEF PlanIInv, StagesInv
  <2>3. ret \in 1 .. Len(stages)
    BY <2>1 DEF StartReorder, PlanIInv
  <2> QED
    BY <2>1, <2>2, <2>3 DEF InHand, OrderedWith
<1>3. PICK o : o = [k \in 1 .. Len(stages) |-> Checked(stages[k], literals')]
  OBVIOUS
<1>4. program' = o /\ Original' = o
  BY <1>1, <1>2, <1>3 DEF Original
<1>5. /\ OriginalOK(o) /\ Len(o) = Len(stages)
      /\ \A k \in 1 .. Len(o) : o[k].at \in 1 .. Len(tokens)
  <2>1. /\ Len(o) = Len(stages) /\ DOMAIN o = 1 .. Len(stages)
        /\ \A k \in 1 .. Len(stages) : o[k] = Checked(stages[k], literals')
    BY <1>2, <1>3
  <2>2. OriginalOK(o)
    <3>1. PICK t, g, values : t = tokens /\ g = stages /\ values = literals'
      OBVIOUS
    <3>2. /\ StagesInv(t, g) /\ PostOrdered(g) /\ Len(o) = Len(g) /\ DOMAIN o = 1 .. Len(g)
          /\ \A k \in 1 .. Len(g) : o[k] = Checked(g[k], values)
      BY <1>2, <2>1, <3>1
    <3> QED
      BY <3>2, PlannedOriginal
  <2>3. ASSUME NEW k \in 1 .. Len(o) PROVE o[k].at \in 1 .. Len(tokens)
    <3>1. o[k].at = stages[k].at
      BY <2>1 DEF Checked
    <3>2. stages[k].at \in 1 .. Len(tokens)
      BY <1>2, <2>1 DEF StagesInv, StageOK
    <3> QED
      BY <3>1, <3>2
  <2> QED
    BY <2>1, <2>2, <2>3
<1>6. PICK w : w = Walk(ret, findOperatorPrecedenceForSymbol(stages[ret].symbol))
  OBVIOUS
<1>7. w.next = ret /\ w.run = << >> /\ w.pc = "next"
  BY <1>6 DEF Walk
<1>8. Closed(o, 0, ret)
  BY <1>2, <1>5 DEF Closed, OriginalOK
<1>9. WalkBehind(o, o, w, 0)
  BY <1>2, <1>7, <1>8 DEF WalkBehind, RunBehind
<1>10. WalksOrdered(o, o, <<w>>, <<0>>)
  BY <1>9 DEF WalksOrdered
<1>11. Ordered(o, program', work')
  BY <1>1, <1>4, <1>6, <1>10 DEF Ordered
<1>12. LeavesKept(o, program')
  BY <1>4 DEF LeavesKept
<1>13. \A k \in 1 .. Len(program') : program'[k].at \in 1 .. Len(tokens')
  BY <1>1, <1>4, <1>5
<1> QED
  BY <1>1, <1>4, <1>5, <1>11, <1>12, <1>13 DEF PassesIInv

(* The stack is the frames below and the one on top. *)
LEMMA StackSplits ==
  ASSUME NEW S, NEW w \in Seq(S), w # << >>
  PROVE  /\ SubSeq(w, 1, Len(w) - 1) \in Seq(S) /\ w[Len(w)] \in S
         /\ w = Append(SubSeq(w, 1, Len(w) - 1), w[Len(w)])
<1>1. PICK c, top : c = SubSeq(w, 1, Len(w) - 1) /\ top = w[Len(w)]
  OBVIOUS
<1>2. /\ Len(w) \in Nat \ {0} /\ c \in Seq(S) /\ Len(c) = Len(w) - 1 /\ top \in S
      /\ \A f \in 1 .. Len(w) - 1 : c[f] = w[f]
  BY <1>1, PrefixIsSeq
<1>3. /\ Append(c, top) \in Seq(S) /\ Len(Append(c, top)) = Len(w)
      /\ Append(c, top)[Len(w)] = top /\ \A f \in 1 .. Len(c) : Append(c, top)[f] = c[f]
  BY <1>2
<1>4. \A f \in 1 .. Len(w) : Append(c, top)[f] = w[f]
  BY <1>1, <1>2, <1>3
<1>5. w = Append(c, top)
  BY <1>3, <1>4
<1> QED
  BY <1>1, <1>2, <1>5

(* The frame that walks, and those it was called by. *)
LEMMA ReorderFacts ==
  ASSUME PassesIInv, compile = "reorder", work # << >>
  PROVE  /\ OriginalOK(Original) /\ Len(program) = Len(Original) /\ Len(program) \in Nat
         /\ LeavesKept(Original, program)
         /\ \A k \in 1 .. Len(program) : program[k].at \in 1 .. Len(tokens)
         /\ Frame \in Walks(Len(program)) /\ CallersOfFrame \in Seq(Walks(Len(program)))
         /\ Frame.run \in Seq(1 .. Len(program)) /\ Frame.next \in 0 .. Len(program)
         /\ Frame.pc = "current" => Frame.current \in 1 .. Len(program)
         /\ \E base : \E b \in Nat :
              /\ WalksOrdered(Original, program, CallersOfFrame, base)
              /\ WalkBehind(Original, program, Frame, b)
              /\ \A f \in 1 .. Len(CallersOfFrame) :
                   Within(Frame, base[f]) /\ CallersOfFrame[f].pc = "current"
<1>1. PICK S, c, w, o : S = Walks(Len(program)) /\ c = CallersOfFrame /\ w = Frame /\ o = Original
  OBVIOUS
<1>2. work \in Seq(S) /\ Ordered(o, program, work)
  BY <1>1 DEF PassesIInv, CompileIInv, WalksInv
<1>3. c \in Seq(S) /\ w \in S /\ work = Append(c, w)
  BY <1>1, <1>2, StackSplits DEF CallersOfFrame, Frame
<1>4. Ordered(o, program, Append(c, w))
  BY <1>2, <1>3
<1>5. \E base : \E b \in Nat :
        /\ WalksOrdered(o, program, c, base) /\ WalkBehind(o, program, w, b)
        /\ \A f \in 1 .. Len(c) : Within(w, base[f]) /\ c[f].pc = "current"
  BY <1>3, <1>4, PoppedOrder
<1>6. w.run \in Seq(1 .. Len(program)) /\ w.next \in 0 .. Len(program)
  BY <1>1, <1>3 DEF Walks
<1>7. Len(program) \in Nat /\ (Frame.pc = "current" => Frame.current \in 1 .. Len(program))
  BY WalkFacts DEF PassesIInv
<1>8. /\ OriginalOK(o) /\ Len(program) = Len(o) /\ LeavesKept(o, program)
      /\ \A k \in 1 .. Len(program) : program[k].at \in 1 .. Len(tokens)
  BY <1>1 DEF PassesIInv
<1> QED
  BY <1>1, <1>3, <1>5, <1>6, <1>7, <1>8

LEMMA ReorderPasses ==
  ASSUME PassesIInv, HeldIInv', CompileIInv', compile = "reorder", compile' = compile,
         UNCHANGED <<allVars, literals>>, Len(program') = Len(program),
         Ordered(Original, program', work'), LeavesKept(Original, program'),
         \A k \in 1 .. Len(program) : program'[k].at \in 1 .. Len(tokens)
  PROVE  PassesIInv'
<1>1. Original' = Original /\ plan' = plan /\ tokens' = tokens
  BY DEF Original, allVars, planVars, checkVars
<1> QED
  BY <1>1 DEF PassesIInv

LEMMA WalkRightPasses ==
  ASSUME PassesIInv, HeldIInv', CompileIInv', WalkRight, UNCHANGED allVars
  PROVE  PassesIInv'
<1>1. PICK o, c, w, N, p : o = Original /\ c = CallersOfFrame /\ w = Frame /\ N = Len(program) /\ p = program
  OBVIOUS
<1>2. /\ OriginalOK(o) /\ N = Len(o) /\ N \in Nat
      /\ w \in Walks(N) /\ c \in Seq(Walks(N)) /\ w.next \in 0 .. N /\ w.next # 0 /\ w.pc = "next"
      /\ compile = "reorder" /\ UNCHANGED <<compile, program, literals>>
  BY <1>1, ReorderFacts DEF WalkRight, NilStage
<1>3. PICK base : \E b \in Nat :
        /\ WalksOrdered(o, p, c, base) /\ WalkBehind(o, p, w, b)
        /\ \A f \in 1 .. Len(c) : Within(w, base[f]) /\ c[f].pc = "current"
  BY <1>1, <1>2, ReorderFacts DEF WalkRight
<1>4. PICK b \in Nat :
        /\ WalksOrdered(o, p, c, base) /\ WalkBehind(o, p, w, b)
        /\ \A f \in 1 .. Len(c) : Within(w, base[f]) /\ c[f].pc = "current"
  BY <1>3
<1>5. PICK n, l, r : n = w.next /\ l = o[n].leftStage /\ r = o[n].rightStage
  OBVIOUS
<1>6. n \in 1 .. N /\ b < n /\ Closed(o, b, n) /\ \A j \in b + 1 .. n : p[j] = o[j]
  BY <1>2, <1>4, <1>5 DEF WalkBehind
<1>7. p[n] = o[n]
  BY <1>6
<1>8. /\ l \in 0 .. n - 1 /\ r \in 0 .. n - 1
      /\ l # 0 => b < l /\ l < n /\ Closed(o, b, l)
      /\ r # 0 => b < r /\ r < n /\ Closed(o, b, r)
      /\ l # 0 /\ r # 0 => l < r /\ Closed(o, l, r)
  BY <1>2, <1>5, <1>6, ClosedBelow DEF OriginalOK
<1>9. PICK self, inner :
        /\ self = [w EXCEPT !.current = n, !.next = r, !.pc = "current"]
        /\ inner = Walk(l, Precedence(l))
  OBVIOUS
<1>10. work' = IF l = 0 THEN Append(c, self) ELSE Append(Append(c, self), inner)
  BY <1>1, <1>5, <1>7, <1>9 DEF WalkRight, Update, NilStage
<1>11. /\ self.current = n /\ self.next = r /\ self.pc = "current" /\ self.run = w.run
       /\ self.precedence = w.precedence
  BY <1>2, <1>9 DEF Walks
<1>12. inner.next = l /\ inner.run = << >> /\ inner.pc = "next"
  BY <1>9 DEF Walk
<1>13. \A i \in 1 .. Len(w.run) : w.run[i] \in 1 .. N
  BY <1>1, <1>2, ReorderFacts DEF WalkRight
<1>14. RunBehind(o, p, self)
  <2> SUFFICES ASSUME NEW i \in 1 .. Len(w.run)
               PROVE  /\ w.run[i] > r /\ p[w.run[i]] = o[w.run[i]] /\ w.run[i] > n
                      /\ Rank(o[w.run[i]]) = w.precedence
                      /\ o[w.run[i]].rightStage # 0
                      /\ i = Len(w.run) => n = o[w.run[i]].rightStage
                      /\ i < Len(w.run) => w.run[i + 1] = o[w.run[i]].rightStage
                      /\ \A j \in 1 .. i - 1 : w.run[j] > w.run[i]
    BY <1>11 DEF RunBehind
  <2>1. /\ w.run[i] > n /\ p[w.run[i]] = o[w.run[i]]
        /\ Rank(o[w.run[i]]) = w.precedence
        /\ i < Len(w.run) => o[w.run[i]].rightStage # 0
        /\ i = Len(w.run) => n = o[w.run[i]].rightStage
        /\ i < Len(w.run) => w.run[i + 1] = o[w.run[i]].rightStage
        /\ \A j \in 1 .. i - 1 : w.run[j] > w.run[i]
    BY <1>2, <1>4, <1>5 DEF WalkBehind, RunBehind
  <2>2. Len(w.run) \in Nat
    BY <1>1, <1>2, ReorderFacts DEF WalkRight
  <2>3. i < Len(w.run) \/ i = Len(w.run)
    BY <2>2
  <2> QED
    BY <1>2, <1>5, <1>6, <1>8, <1>13, <2>1, <2>3
<1>15. \A f \in 1 .. Len(c) : Within(self, base[f])
  <2> SUFFICES ASSUME NEW f \in 1 .. Len(c) PROVE Within(self, base[f])
    OBVIOUS
  <2>1. base[f] \in Nat /\ n <= base[f] /\ \A i \in 1 .. Len(w.run) : w.run[i] <= base[f]
    BY <1>4, <1>5 DEF WalksOrdered, Within
  <2>2. r <= base[f]
    BY <1>6, <1>8, <2>1
  <2> QED
    BY <1>11, <2>1, <2>2 DEF Within
<1>16. \A i \in 1 .. Len(w.run) : w.run[i] > n /\ w.run[i] > b
  BY <1>4, <1>5 DEF WalkBehind, RunBehind
<1>17. self \in Walks(N) /\ (l # 0 => inner \in Walks(N))
  <2>1. self \in Walks(N)
    <3>1. n \in 0 .. N /\ r \in 0 .. N
      BY <1>2, <1>6, <1>8
    <3> QED
      BY <1>2, <1>9, <3>1 DEF Walks
  <2>2. l # 0 => Precedence(l) \in Ranks
    <3>1. \E V : ProgramOK(program, V)
      BY DEF PassesIInv, CompileIInv, WalkRight
    <3> QED
      BY <1>1, <1>6, <1>8, <3>1, RankOf
  <2> QED
    BY <1>2, <1>6, <1>8, <1>9, <2>1, <2>2 DEF Walk, Walks, NilStage
<1>18. Ordered(o, p, work')
  <2>1. CASE l = 0
    <3>1. WalkBehind(o, p, self, b)
      <4>1. r # 0 => \A j \in b + 1 .. r : p[j] = o[j]
        BY <1>6, <1>8
      <4> QED
        BY <1>5, <1>6, <1>7, <1>8, <1>11, <1>14, <1>16, <4>1 DEF WalkBehind
    <3>2. work' = Append(c, self)
      BY <1>10, <2>1
    <3>3. \E more : WalksOrdered(o, p, Append(c, self), more)
      <4>1. PICK S : S = Walks(N)
        OBVIOUS
      <4>2. c \in Seq(S) /\ self \in S
        BY <1>2, <1>17, <4>1
      <4>3. \A f \in 1 .. Len(c) : Within(self, base[f]) /\ c[f].pc = "current"
        BY <1>4, <1>15
      <4> QED
        BY <1>4, <3>1, <4>2, <4>3, PushedOrder
    <3> QED
      BY <3>2, <3>3 DEF Ordered
  <2>2. CASE l # 0
    <3>1. WalkBehind(o, p, self, l)
      <4>1. r # 0 => \A j \in l + 1 .. r : p[j] = o[j]
        BY <1>6, <1>8, <2>2
      <4>2. \A i \in 1 .. Len(w.run) : w.run[i] > l
        BY <1>6, <1>8, <1>13, <1>16
      <4>3. n > l /\ n > r
        BY <1>6, <1>8
      <4> QED
        BY <1>5, <1>7, <1>8, <1>11, <1>14, <2>2, <4>1, <4>2, <4>3 DEF WalkBehind
    <3>2. PICK d : d = Append(c, self)
      OBVIOUS
    <3>3. /\ d \in Seq(Walks(N)) /\ Len(d) = Len(c) + 1 /\ Len(c) \in Nat
          /\ d[Len(c) + 1] = self /\ \A f \in 1 .. Len(c) : d[f] = c[f]
      BY <1>2, <1>17, <3>2
    <3>4. PICK more : /\ WalksOrdered(o, p, d, more)
                      /\ more[Len(c) + 1] = l /\ \A f \in 1 .. Len(c) : more[f] = base[f]
      <4>1. l \in Nat
        BY <1>6, <1>8
      <4>2. PICK S : S = Walks(N)
        OBVIOUS
      <4>3. c \in Seq(S) /\ self \in S
        BY <1>2, <1>17, <4>2
      <4>4. \A f \in 1 .. Len(c) : Within(self, base[f]) /\ c[f].pc = "current"
        BY <1>4, <1>15
      <4> QED
        BY <1>4, <3>1, <3>2, <4>1, <4>3, <4>4, PushedOrder
    <3>5. WalkBehind(o, p, inner, b)
      <4>1. \A j \in b + 1 .. l : p[j] = o[j]
        BY <1>6, <1>8
      <4> QED
        BY <1>8, <1>12, <2>2, <4>1 DEF WalkBehind, RunBehind
    <3>6. ASSUME NEW f \in 1 .. Len(d) PROVE Within(inner, more[f]) /\ d[f].pc = "current"
      <4>1. CASE f = Len(c) + 1
        BY <1>6, <1>8, <1>11, <1>12, <3>3, <3>4, <4>1 DEF Within
      <4>2. CASE f \in 1 .. Len(c)
        <5>1. base[f] \in Nat /\ n <= base[f] /\ c[f].pc = "current"
          BY <1>4, <1>5, <4>2 DEF WalksOrdered, Within
        <5>2. l <= base[f]
          BY <1>6, <1>8, <5>1
        <5> QED
          BY <1>12, <3>3, <3>4, <4>2, <5>1, <5>2 DEF Within
      <4> QED
        BY <3>3, <4>1, <4>2
    <3>7. \E any : WalksOrdered(o, p, Append(d, inner), any)
      <4>1. PICK S : S = Walks(N)
        OBVIOUS
      <4>2. d \in Seq(S) /\ inner \in S
        BY <1>17, <2>2, <3>3, <4>1
      <4> QED
        BY <3>4, <3>5, <3>6, <4>2, PushedOrder
    <3>8. work' = Append(d, inner)
      BY <1>10, <2>2, <3>2
    <3> QED
      BY <3>7, <3>8 DEF Ordered
  <2> QED
    BY <2>1, <2>2
<1>19. /\ LeavesKept(o, p) /\ \A k \in 1 .. Len(program) : program[k].at \in 1 .. Len(tokens)
  BY <1>1, ReorderFacts DEF WalkRight
<1> QED
  BY <1>1, <1>2, <1>18, <1>19, ReorderPasses

(* The stages of a run keep where they are from when they are mirrored. *)
LEMMA MirrorKeepsPlaces ==
  ASSUME NEW V, ProgramOK(program, V), NEW run \in Seq(1 .. Len(program)), Len(run) > 1,
         NEW n, \A k \in 1 .. Len(program) : program[k].at \in 1 .. n
  PROVE  \A k \in 1 .. Len(program) : mirrorStageSubtree(run)[k].at \in 1 .. n
<1> SUFFICES ASSUME NEW k \in 1 .. Len(program)
             PROVE  mirrorStageSubtree(run)[k].at \in 1 .. n
  OBVIOUS
<1>1. DOMAIN program = 1 .. Len(program)
  BY DEF ProgramOK
<1>2. CASE k \notin { run[j] : j \in 1 .. Len(run) }
  BY <1>1, <1>2 DEF mirrorStageSubtree
<1>3. CASE k \in { run[j] : j \in 1 .. Len(run) }
  <2>1. PICK j \in 1 .. Len(run) : j = CHOOSE i \in 1 .. Len(run) : run[i] = k
    BY <1>3
  <2>2. PICK source : source = program[run[Len(run) + 1 - j]]
    OBVIOUS
  <2>3. run[Len(run) + 1 - j] \in 1 .. Len(program)
    OBVIOUS
  <2>4. source \in StageOf(Len(program), V) /\ source.at \in 1 .. n
    BY <2>2, <2>3 DEF ProgramOK
  <2>5. PICK l, r : mirrorStageSubtree(run)[k] = [source EXCEPT !.leftStage = l, !.rightStage = r]
    BY <1>1, <1>3, <2>1, <2>2 DEF mirrorStageSubtree
  <2> QED
    BY <2>4, <2>5 DEF StageOf
<1> QED
  BY <1>2, <1>3

(* Flush writes to the stages of the run and to nothing else, and no leaf is one of them. *)
LEMMA FlushPasses ==
  ASSUME PassesIInv, compile = "reorder", work # << >>, Flush
  PROVE  /\ Len(program') = Len(program)
         /\ \A k \in 1 .. Len(program) :
              (\A i \in 1 .. Len(Frame.run) : Frame.run[i] # k) => program'[k] = program[k]
         /\ \A k \in 1 .. Len(program) : program'[k].at \in 1 .. Len(tokens)
         /\ LeavesKept(Original, program')
<1>1. PICK o, w, p, N : o = Original /\ w = Frame /\ p = program /\ N = Len(program)
  OBVIOUS
<1>2. /\ OriginalOK(o) /\ N = Len(o) /\ w \in Walks(Len(o)) /\ LeavesKept(o, p)
      /\ w.run \in Seq(1 .. N) /\ RunBehind(o, p, w)
      /\ \A k \in 1 .. N : p[k].at \in 1 .. Len(tokens)
  BY <1>1, ReorderFacts DEF WalkBehind
<1>3. PICK V : ProgramOK(program, V)
  BY DEF PassesIInv, CompileIInv
<1>4. CASE Len(w.run) > 1
  <2>1. program' = mirrorStageSubtree(w.run)
    BY <1>1, <1>4 DEF Flush
  <2>2. Len(program') = N /\ \A k \in 1 .. N : program'[k].at \in 1 .. Len(tokens)
    BY <1>1, <1>2, <1>3, <1>4, <2>1, MirrorKeeps, MirrorKeepsPlaces
  <2>3. \A k \in 1 .. N : (\A i \in 1 .. Len(w.run) : w.run[i] # k) => program'[k] = p[k]
    BY <1>1, <1>2, <1>3, <2>1, MirrorTouches
  <2>4. \A i \in 1 .. Len(w.run) : ~IsLeaf(o[w.run[i]])
    BY <1>2, <1>4, NoLeafInRun
  <2>5. \A k \in 1 .. N : IsLeaf(o[k]) => program'[k] = o[k]
    BY <1>2, <2>3, <2>4 DEF LeavesKept
  <2> QED
    BY <1>1, <1>2, <2>2, <2>3, <2>5 DEF LeavesKept
<1>5. CASE ~(Len(w.run) > 1)
  <2>1. program' = p
    BY <1>1, <1>5 DEF Flush
  <2> QED
    BY <1>1, <1>2, <2>1
<1> QED
  BY <1>4, <1>5

(* The frame goes on, and those below it do not see what it mirrored. *)
LEMMA GoneOnOrder ==
  ASSUME NEW o, OriginalOK(o), NEW p, NEW q, NEW c \in Seq(Walks(Len(o))), NEW w \in Walks(Len(o)),
         NEW base, WalksOrdered(o, p, c, base),
         \A f \in 1 .. Len(c) : Within(w, base[f]) /\ c[f].pc = "current",
         \A k \in 1 .. Len(o) : (\A i \in 1 .. Len(w.run) : w.run[i] # k) => q[k] = p[k]
  PROVE  /\ WalksOrdered(o, q, c, base)
         /\ \A v \in Walks(Len(o)) : \A b \in Nat :
              WalkBehind(o, q, v, b) /\ (\A f \in 1 .. Len(c) : Within(v, base[f]))
                => Ordered(o, q, Append(c, v))
<1>1. PICK T : T = { w.run[i] : i \in 1 .. Len(w.run) }
  OBVIOUS
<1>2. \A k \in 1 .. Len(o) : k \notin T => q[k] = p[k]
  BY <1>1
<1>3. \A i \in 1 .. Len(w.run) : w.run[i] \in Nat
  <2>1. w.run \in Seq(1 .. Len(o))
    BY DEF Walks
  <2> QED
    BY <2>1
<1>4. \A f \in 1 .. Len(c) : \A t \in T : t \in Nat /\ t <= base[f]
  BY <1>1, <1>3 DEF Within
<1>5. WalksOrdered(o, q, c, base)
  BY <1>2, <1>4, OthersUntouched
<1>6. ASSUME NEW v \in Walks(Len(o)), NEW b \in Nat, WalkBehind(o, q, v, b),
             \A f \in 1 .. Len(c) : Within(v, base[f])
      PROVE  Ordered(o, q, Append(c, v))
  <2>1. PICK S : S = Walks(Len(o))
    OBVIOUS
  <2>2. c \in Seq(S) /\ v \in S
    BY <2>1
  <2>3. \A f \in 1 .. Len(c) : Within(v, base[f]) /\ c[f].pc = "current"
    BY <1>6
  <2>4. \E more : WalksOrdered(o, q, Append(c, v), more)
    BY <1>5, <1>6, <2>2, <2>3, PushedOrder
  <2> QED
    BY <2>4 DEF Ordered
<1> QED
  BY <1>5, <1>6

LEMMA LeaveWalkPasses ==
  ASSUME PassesIInv, HeldIInv', CompileIInv', LeaveWalk, UNCHANGED allVars
  PROVE  PassesIInv'
<1>1. PICK o, c, w, p, q : o = Original /\ c = CallersOfFrame /\ w = Frame /\ p = program /\ q = program'
  OBVIOUS
<1>2. /\ compile = "reorder" /\ work # << >> /\ Flush /\ work' = c
      /\ compile' = compile /\ UNCHANGED literals
  BY <1>1 DEF LeaveWalk
<1>3. /\ OriginalOK(o) /\ Len(program) = Len(o)
      /\ w \in Walks(Len(o)) /\ c \in Seq(Walks(Len(o)))
      /\ \E base : /\ WalksOrdered(o, p, c, base)
                   /\ \A f \in 1 .. Len(c) : Within(w, base[f]) /\ c[f].pc = "current"
  BY <1>1, <1>2, ReorderFacts
<1>4. /\ Len(program') = Len(program) /\ LeavesKept(o, q)
      /\ \A k \in 1 .. Len(program) : program'[k].at \in 1 .. Len(tokens)
      /\ \A k \in 1 .. Len(o) : (\A i \in 1 .. Len(w.run) : w.run[i] # k) => q[k] = p[k]
  BY <1>1, <1>2, <1>3, FlushPasses
<1>5. Ordered(o, q, c)
  <2>1. PICK base : /\ WalksOrdered(o, p, c, base)
                    /\ \A f \in 1 .. Len(c) : Within(w, base[f]) /\ c[f].pc = "current"
    BY <1>3
  <2>2. WalksOrdered(o, q, c, base)
    BY <1>3, <1>4, <2>1, GoneOnOrder
  <2> QED
    BY <2>2 DEF Ordered
<1> QED
  BY <1>1, <1>2, <1>4, <1>5, ReorderPasses

(* A run that goes on, or that begins, at the stage the frame has come to. *)
LEMMA NextBehind ==
  ASSUME NEW o, OriginalOK(o), NEW p, NEW q, NEW w \in Walks(Len(o)), NEW b \in Nat,
         WalkBehind(o, p, w, b), w.pc = "current",
         \A k \in 1 .. Len(o) : (\A i \in 1 .. Len(w.run) : w.run[i] # k) => q[k] = p[k],
         NEW v, v.next = w.next, v.pc = "next", v.precedence = Rank(o[w.current]),
         \/ v.run = << >>
         \/ v.run = <<w.current>>
         \/ v.run = Append(w.run, w.current) /\ v.precedence = w.precedence /\ q = p
  PROVE  /\ WalkBehind(o, q, v, b)
         /\ \A B \in Nat : Within(w, B) => Within(v, B)
<1>1. PICK n, k, run : n = w.next /\ k = w.current /\ run = w.run
  OBVIOUS
<1>2. /\ n \in 0 .. Len(o) /\ k \in 0 .. Len(o) /\ Len(o) \in Nat /\ Len(run) \in Nat
      /\ \A i \in 1 .. Len(run) : run[i] \in 1 .. Len(o)
  <2>1. n \in 0 .. Len(o) /\ k \in 0 .. Len(o) /\ run \in Seq(1 .. Len(o)) /\ Len(o) \in Nat
    BY <1>1 DEF Walks, OriginalOK
  <2> QED
    BY <2>1
<1>3. /\ n # 0 => b < n /\ Closed(o, b, n) /\ \A j \in b + 1 .. n : p[j] = o[j]
      /\ k > b /\ k > n /\ p[k] = o[k] /\ n = o[k].rightStage
      /\ \A i \in 1 .. Len(run) :
           /\ run[i] > b /\ run[i] > n /\ p[run[i]] = o[run[i]] /\ run[i] > k
           /\ Rank(o[run[i]]) = w.precedence /\ o[run[i]].rightStage # 0
           /\ i = Len(run) => k = o[run[i]].rightStage
           /\ i < Len(run) => run[i + 1] = o[run[i]].rightStage
           /\ \A j \in 1 .. i - 1 : run[j] > run[i]
  BY <1>1 DEF WalkBehind, RunBehind
<1>4. k \in 1 .. Len(o)
  BY <1>2, <1>3
<1>5. ASSUME NEW j \in 1 .. Len(o), j <= k PROVE q[j] = p[j]
  <2>1. ASSUME NEW i \in 1 .. Len(run) PROVE run[i] # j
    <3>1. run[i] > k /\ run[i] \in Nat
      BY <1>2, <1>3
    <3> QED
      BY <1>2, <1>4, <1>5, <3>1
  <2> QED
    BY <1>1, <2>1
<1>6. q[k] = o[k] /\ (n # 0 => \A j \in b + 1 .. n : q[j] = o[j])
  BY <1>2, <1>3, <1>4, <1>5
<1>7. ASSUME NEW i \in 1 .. Len(v.run)
      PROVE  /\ v.run[i] > b /\ v.run[i] > n /\ q[v.run[i]] = o[v.run[i]]
             /\ Rank(o[v.run[i]]) = v.precedence
             /\ i < Len(v.run) => o[v.run[i]].rightStage # 0
             /\ i = Len(v.run) => n = o[v.run[i]].rightStage
             /\ i < Len(v.run) => v.run[i + 1] = o[v.run[i]].rightStage
             /\ \A j \in 1 .. i - 1 : v.run[j] > v.run[i]
             /\ v.run[i] = k \/ \E j \in 1 .. Len(run) : v.run[i] = run[j]
  <2>1. CASE v.run = <<k>>
    <3>1. i = 1 /\ v.run[i] = k /\ Len(v.run) = 1
      BY <2>1
    <3> QED
      BY <1>1, <1>3, <1>6, <3>1
  <2>2. CASE v.run = Append(run, k) /\ v.precedence = w.precedence /\ q = p
    <3>1. /\ Len(v.run) = Len(run) + 1 /\ v.run[Len(run) + 1] = k
          /\ \A j \in 1 .. Len(run) : v.run[j] = run[j]
      <4>1. run \in Seq(1 .. Len(o))
        BY <1>1 DEF Walks
      <4> QED
        BY <2>2, <4>1
    <3>2. CASE i \in 1 .. Len(run)
      <4>1. v.run[i] = run[i] /\ i # Len(v.run)
        BY <1>2, <3>1, <3>2
      <4>2. ASSUME NEW j \in 1 .. i - 1 PROVE v.run[j] > v.run[i]
        <5>1. j \in 1 .. Len(run) /\ v.run[j] = run[j]
          BY <1>2, <3>1, <3>2
        <5>2. run[j] > run[i]
          BY <1>3, <3>2
        <5> QED
          BY <4>1, <5>1, <5>2
      <4>3. /\ run[i] > b /\ run[i] > n /\ q[run[i]] = o[run[i]]
            /\ Rank(o[run[i]]) = v.precedence /\ o[run[i]].rightStage # 0
        BY <1>3, <2>2, <3>2
      <4>4. v.run[i + 1] = o[v.run[i]].rightStage
        <5>1. CASE i = Len(run)
          BY <1>3, <3>1, <3>2, <4>1, <5>1
        <5>2. CASE i # Len(run)
          <6>1. i + 1 \in 1 .. Len(run) /\ i < Len(run)
            BY <1>2, <3>2, <5>2
          <6> QED
            BY <1>3, <3>1, <3>2, <4>1, <6>1
        <5> QED
          BY <5>1, <5>2
      <4> QED
        BY <3>2, <4>1, <4>2, <4>3, <4>4
    <3>3. CASE i = Len(run) + 1
      <4>1. \A j \in 1 .. i - 1 : v.run[j] > v.run[i]
        BY <1>2, <1>3, <3>1, <3>3
      <4> QED
        BY <1>1, <1>2, <1>3, <1>6, <3>1, <3>3, <4>1
    <3> QED
      BY <1>2, <3>1, <3>2, <3>3
  <2> QED
    BY <1>1, <2>1, <2>2
<1>8. RunBehind(o, q, v)
  BY <1>1, <1>7 DEF RunBehind
<1>9. WalkBehind(o, q, v, b)
  BY <1>1, <1>3, <1>6, <1>7, <1>8 DEF WalkBehind
<1>10. \A B \in Nat : Within(w, B) => Within(v, B)
  BY <1>1, <1>7 DEF Within
<1> QED
  BY <1>9, <1>10

LEMMA GoOnPasses ==
  ASSUME PassesIInv, HeldIInv', CompileIInv', PassTernary \/ ExtendRun \/ BreakRun, UNCHANGED allVars
  PROVE  PassesIInv'
<1>1. PICK o, c, w, p, q : o = Original /\ c = CallersOfFrame /\ w = Frame /\ p = program /\ q = program'
  OBVIOUS
<1>2. /\ compile = "reorder" /\ work # << >> /\ w.pc = "current"
      /\ compile' = compile /\ UNCHANGED literals
      /\ Flush \/ program' = program
  BY <1>1 DEF PassTernary, ExtendRun, BreakRun, AtCurrent
<1>3. /\ OriginalOK(o) /\ Len(program) = Len(o) /\ LeavesKept(o, p)
      /\ \A k \in 1 .. Len(program) : program[k].at \in 1 .. Len(tokens)
      /\ w \in Walks(Len(o)) /\ c \in Seq(Walks(Len(o))) /\ w.current \in 1 .. Len(o)
  BY <1>1, <1>2, ReorderFacts
<1>4. PICK base : \E b \in Nat :
        /\ WalksOrdered(o, p, c, base) /\ WalkBehind(o, p, w, b)
        /\ \A f \in 1 .. Len(c) : Within(w, base[f]) /\ c[f].pc = "current"
  BY <1>1, <1>2, ReorderFacts
<1>5. PICK b \in Nat :
        /\ WalksOrdered(o, p, c, base) /\ WalkBehind(o, p, w, b)
        /\ \A f \in 1 .. Len(c) : Within(w, base[f]) /\ c[f].pc = "current"
  BY <1>4
<1>6. /\ Len(program') = Len(program) /\ LeavesKept(o, q)
      /\ \A k \in 1 .. Len(program) : program'[k].at \in 1 .. Len(tokens)
      /\ \A k \in 1 .. Len(o) : (\A i \in 1 .. Len(w.run) : w.run[i] # k) => q[k] = p[k]
  <2>1. CASE Flush
    BY <1>1, <1>2, <1>3, <2>1, FlushPasses
  <2>2. CASE program' = program
    BY <1>1, <1>3, <2>2
  <2> QED
    BY <1>2, <2>1, <2>2
<1>7. Precedence(w.current) = Rank(o[w.current])
  <2>1. p[w.current] = o[w.current]
    BY <1>2, <1>5 DEF WalkBehind
  <2> QED
    BY <1>1, <2>1 DEF Precedence, Rank
<1>8. PICK run :
        /\ GoOn(run)
        /\ \/ run = << >>
           \/ run = <<w.current>>
           \/ run = Append(w.run, w.current) /\ Precedence(w.current) = w.precedence /\ q = p
  BY <1>1 DEF PassTernary, ExtendRun, BreakRun
<1>9. PICK v : v = [w EXCEPT !.run = run, !.precedence = Precedence(w.current), !.pc = "next"]
  OBVIOUS
<1>10. work' = Append(c, v)
  BY <1>1, <1>8, <1>9 DEF GoOn, Update
<1>11. v.next = w.next /\ v.pc = "next" /\ v.precedence = Rank(o[w.current]) /\ v.run = run
  BY <1>3, <1>7, <1>9 DEF Walks
<1>12. v \in Walks(Len(o))
  <2>1. run \in Seq(1 .. Len(o))
    <3>1. w.run \in Seq(1 .. Len(o))
      BY <1>3 DEF Walks
    <3>2. Append(w.run, w.current) \in Seq(1 .. Len(o)) /\ <<w.current>> \in Seq(1 .. Len(o))
      BY <1>3, <3>1
    <3>3. << >> \in Seq(1 .. Len(o))
      OBVIOUS
    <3>4. run \in { << >>, <<w.current>>, Append(w.run, w.current) }
      BY <1>8
    <3> QED
      BY <3>2, <3>3, <3>4
  <2>2. Precedence(w.current) \in Ranks
    <3>1. \E V : ProgramOK(program, V)
      BY <1>2 DEF PassesIInv, CompileIInv
    <3> QED
      BY <1>3, <3>1, RankOf
  <2> QED
    BY <1>3, <1>9, <2>1, <2>2 DEF Walks
<1>13. WalkBehind(o, q, v, b) /\ \A B \in Nat : Within(w, B) => Within(v, B)
  <2>1. \/ v.run = << >>
        \/ v.run = <<w.current>>
        \/ v.run = Append(w.run, w.current) /\ v.precedence = w.precedence /\ q = p
    BY <1>7, <1>8, <1>11
  <2> QED
    BY <1>2, <1>3, <1>5, <1>6, <1>11, <2>1, NextBehind
<1>14. \A f \in 1 .. Len(c) : Within(v, base[f])
  BY <1>5, <1>13 DEF WalksOrdered
<1>15. Ordered(o, q, Append(c, v))
  <2>1. \A x \in Walks(Len(o)) : \A d \in Nat :
          WalkBehind(o, q, x, d) /\ (\A f \in 1 .. Len(c) : Within(x, base[f]))
            => Ordered(o, q, Append(c, x))
    <3>1. WalksOrdered(o, p, c, base) /\ \A f \in 1 .. Len(c) : Within(w, base[f]) /\ c[f].pc = "current"
      BY <1>5
    <3>2. \A k \in 1 .. Len(o) : (\A i \in 1 .. Len(w.run) : w.run[i] # k) => q[k] = p[k]
      BY <1>6
    <3>3. OriginalOK(o) /\ w \in Walks(Len(o)) /\ c \in Seq(Walks(Len(o)))
      BY <1>3
    <3> QED
      BY <3>1, <3>2, <3>3, GoneOnOrder
  <2> QED
    BY <1>12, <1>13, <1>14, <2>1
<1> QED
  BY <1>1, <1>2, <1>6, <1>10, <1>15, ReorderPasses

-----------------------------------------------------------------------------
(* elideLiterals writes only to a stage that has a child, so to no leaf *)

LEMMA ElideFacts ==
  ASSUME PassesIInv, compile = "elide"
  PROVE  /\ OriginalOK(Original) /\ Len(Original) <= Len(program) /\ Len(program) \in Nat
         /\ LeavesKept(Original, program)
         /\ \A k \in 1 .. Len(program) : program[k].at \in 1 .. Len(tokens)
         /\ \A f \in 1 .. Len(work) - 1 : program[work[f].stage][work[f].pc] # 0
         /\ \E V : ProgramOK(program, V)
<1>1. \E V : ProgramOK(program, V)
  BY DEF PassesIInv, CompileIInv
<1>2. Len(program) \in Nat
  BY <1>1 DEF ProgramOK
<1> QED
  BY <1>1, <1>2 DEF PassesIInv

LEMMA ElidePasses ==
  ASSUME PassesIInv, HeldIInv', CompileIInv', compile = "elide", compile' = compile,
         UNCHANGED <<allVars, literals>>, Len(Original) <= Len(program'),
         LeavesKept(Original, program'),
         \A k \in 1 .. Len(program') : program'[k].at \in 1 .. Len(tokens),
         \A f \in 1 .. Len(work') - 1 : program'[work'[f].stage][work'[f].pc] # 0
  PROVE  PassesIInv'
<1>1. Original' = Original /\ plan' = plan /\ tokens' = tokens
  BY DEF Original, allVars, planVars, checkVars
<1> QED
  BY <1>1 DEF PassesIInv

LEMMA ElideChildPasses ==
  ASSUME PassesIInv, HeldIInv', CompileIInv', ElideChild, UNCHANGED allVars
  PROVE  PassesIInv'
<1>1. PICK N, c, w, l : N = Len(program) /\ c = CallersOfFrame /\ w = work /\ l = Len(work)
  OBVIOUS
<1>2. /\ compile = "elide" /\ work # << >> /\ compile' = compile /\ UNCHANGED <<program, literals>>
      /\ \/ \E any : work' = Append(c, any)
         \/ program[Frame.stage][Frame.pc] # 0 /\ \E any : work' = Append(w, any)
  BY <1>1 DEF ElideChild, At2, Update, NilStage
<1>3. /\ N \in Nat /\ l \in Nat \ {0} /\ w \in Seq(Visits(N)) /\ c \in Seq(Visits(N)) /\ Len(c) = l - 1
      /\ \A f \in 1 .. l - 1 : c[f] = w[f]
  BY <1>1, <1>2, VisitFacts DEF PassesIInv
<1>4. \A f \in 1 .. l - 1 : program[w[f].stage][w[f].pc] # 0
  BY <1>1, <1>2, ElideFacts
<1>5. \A f \in 1 .. Len(work') - 1 : program[work'[f].stage][work'[f].pc] # 0
  <2>1. CASE \E any : work' = Append(c, any)
    <3>1. PICK any : work' = Append(c, any)
      BY <2>1
    <3>2. Len(work') = l /\ \A f \in 1 .. l - 1 : work'[f] = w[f]
      BY <1>3, <3>1
    <3> QED
      BY <1>4, <3>2
  <2>2. CASE program[Frame.stage][Frame.pc] # 0 /\ \E any : work' = Append(w, any)
    <3>1. PICK any : work' = Append(w, any)
      BY <2>2
    <3>2. Len(work') = l + 1 /\ \A f \in 1 .. l : work'[f] = w[f]
      BY <1>1, <1>3, <3>1
    <3>3. program[w[l].stage][w[l].pc] # 0
      BY <1>1, <2>2 DEF Frame
    <3>4. \A f \in 1 .. l : program[w[f].stage][w[f].pc] # 0
      BY <1>3, <1>4, <3>3
    <3> QED
      BY <1>3, <3>2, <3>4
  <2> QED
    BY <1>2, <2>1, <2>2
<1> QED
  BY <1>2, <1>5, ElideFacts, ElidePasses

(* What it is to write a child into a stage of a program. *)
LEMMA ChildWritten ==
  ASSUME NEW heap, NEW V, ProgramOK(heap, V), NEW k \in 1 .. Len(heap),
         NEW part \in { "leftStage", "rightStage" }, NEW child
  PROVE  LET q == [heap EXCEPT ![k][part] = child]
         IN  /\ \A j \in 1 .. Len(heap) : q[j].at = heap[j].at /\ (j # k => q[j] = heap[j])
             /\ \A j \in 1 .. Len(heap) : \A side \in { "leftStage", "rightStage" } :
                  q[j][side] = heap[j][side] \/ q[j][side] = child
<1>1. heap \in [1 .. Len(heap) -> StageOf(Len(heap), V)]
  BY DEF ProgramOK
<1>2. PICK r, n : r = heap[k] /\ n = Len(heap)
  OBVIOUS
<1>3. PICK changed : changed = [r EXCEPT ![part] = child]
  OBVIOUS
<1>4. r \in StageOf(n, V)
  BY <1>1, <1>2
<1>5. \/ part = "leftStage" /\ changed = [r EXCEPT !.leftStage = child]
      \/ part = "rightStage" /\ changed = [r EXCEPT !.rightStage = child]
  BY <1>3
<1>6. /\ changed.at = r.at
      /\ changed.leftStage \in { r.leftStage, child } /\ changed.rightStage \in { r.rightStage, child }
  BY <1>4, <1>5 DEF StageOf
<1>7. PICK q : q = [heap EXCEPT ![k] = changed]
  OBVIOUS
<1>8. q = [heap EXCEPT ![k][part] = child]
  BY <1>2, <1>3, <1>7
<1>9. \A j \in 1 .. n : q[j] = IF j = k THEN changed ELSE heap[j]
  BY <1>1, <1>2, <1>7
<1>10. \A j \in 1 .. n : q[j].at = heap[j].at /\ (j # k => q[j] = heap[j])
  BY <1>2, <1>6, <1>9
<1>11. \A j \in 1 .. n : \A side \in { "leftStage", "rightStage" } :
         q[j][side] = heap[j][side] \/ q[j][side] = child
  BY <1>2, <1>6, <1>9
<1> QED
  BY <1>2, <1>8, <1>10, <1>11

(* heap is the program, with or without a literal at its end. *)
LEMMA ReturnElidedPasses ==
  ASSUME PassesIInv, HeldIInv', CompileIInv', compile = "elide", work # << >>, compile' = compile,
         UNCHANGED <<allVars, literals>>,
         NEW heap, NEW V, ProgramOK(heap, V), Len(heap) \in Nat, Len(program) <= Len(heap),
         \A k \in 1 .. Len(program) : heap[k] = program[k],
         \A k \in 1 .. Len(heap) : heap[k].at \in 1 .. Len(tokens),
         NEW stage \in 1 .. Len(heap), ReturnElided(heap, stage)
  PROVE  PassesIInv'
<1>1. PICK o, N, M, w, l : o = Original /\ N = Len(program) /\ M = Len(heap) /\ w = work /\ l = Len(work)
  OBVIOUS
<1>2. /\ OriginalOK(o) /\ Len(o) \in Nat /\ Len(o) <= N /\ N \in Nat /\ N <= M /\ M \in Nat
      /\ LeavesKept(o, program)
      /\ \A f \in 1 .. l - 1 : program[w[f].stage][w[f].pc] # 0
  BY <1>1, ElideFacts DEF OriginalOK
<1>3. LeavesKept(o, heap)
  BY <1>1, <1>2 DEF LeavesKept
<1>4. /\ l \in Nat \ {0} /\ w \in Seq(Visits(N)) /\ CallersOfFrame \in Seq(Visits(N))
      /\ Len(CallersOfFrame) = l - 1
      /\ \A f \in 1 .. l - 1 : CallersOfFrame[f] = w[f] /\ w[f].pc # "self"
  BY <1>1, VisitFacts DEF PassesIInv
<1>5. CASE l = 1
  <2>1. program' = heap /\ work' = << >>
    BY <1>1, <1>5 DEF ReturnElided
  <2>2. \A f \in 1 .. Len(work') - 1 : program'[work'[f].stage][work'[f].pc] # 0
    BY <2>1
  <2> QED
    BY <1>1, <1>2, <1>3, <2>1, <2>2, ElidePasses
<1>6. CASE l # 1
  <2>1. PICK c, last, caller : c = CallersOfFrame /\ last = l - 1 /\ caller = w[last]
    OBVIOUS
  <2>2. last \in 1 .. Len(c) /\ Len(c) = last /\ caller \in Visits(N) /\ caller.pc # "self"
    BY <1>4, <1>6, <2>1
  <2>3. PICK k, part : k = caller.stage /\ part = caller.pc
    OBVIOUS
  <2>4. k \in 1 .. N /\ k \in 1 .. M /\ part \in { "leftStage", "rightStage" }
    BY <1>2, <2>2, <2>3 DEF Visits
  <2>5. /\ program' = [heap EXCEPT ![k][part] = stage]
        /\ \E any : work' = [c EXCEPT ![last] = any]
    BY <1>1, <1>6, <2>1, <2>3, Zenon DEF ReturnElided
  <2>6. PICK q : q = program'
    OBVIOUS
  <2>7. /\ \A j \in 1 .. M : q[j].at = heap[j].at /\ (j # k => q[j] = heap[j])
        /\ \A j \in 1 .. M : \A side \in { "leftStage", "rightStage" } :
             q[j][side] = heap[j][side] \/ q[j][side] = stage
    BY <1>1, <2>4, <2>5, <2>6, ChildWritten
  <2>8. Len(q) = M
    <3>1. \A a : heap \in Seq(a) => Len([heap EXCEPT ![k][part] = stage]) = Len(heap)
      OBVIOUS
    <3> QED
      BY <1>1, <2>5, <2>6, <3>1 DEF ProgramOK
  <2>9. k \in 1 .. Len(o) => ~IsLeaf(o[k])
    <3> SUFFICES ASSUME k \in 1 .. Len(o), IsLeaf(o[k]) PROVE FALSE
      OBVIOUS
    <3>1. o[k].leftStage = 0 /\ o[k].rightStage = 0
      BY <1>2 DEF OriginalOK
    <3>2. program[k] = o[k]
      BY <1>2 DEF LeavesKept
    <3>3. program[k][part] # 0
      BY <1>2, <2>1, <2>2, <2>3
    <3> QED
      BY <2>4, <3>1, <3>2, <3>3
  <2>10. LeavesKept(o, q)
    <3> SUFFICES ASSUME NEW j \in 1 .. Len(o), IsLeaf(o[j]) PROVE q[j] = o[j]
      BY DEF LeavesKept
    <3>1. j # k /\ j \in 1 .. M
      BY <1>2, <2>9
    <3> QED
      BY <1>3, <2>7, <3>1 DEF LeavesKept
  <2>11. ASSUME NEW f \in 1 .. Len(work') - 1
         PROVE  q[work'[f].stage][work'[f].pc] # 0
    <3>1. Len(work') = last /\ f \in 1 .. last - 1 /\ work'[f] = c[f]
      <4>1. PICK any : work' = [c EXCEPT ![last] = any]
        BY <2>5
      <4>2. c \in Seq(Visits(N)) /\ last \in Nat
        BY <1>4, <2>1, <2>2
      <4>3. Len(work') = last /\ \A g \in 1 .. last - 1 : work'[g] = c[g]
        BY <2>2, <4>1, <4>2
      <4> QED
        BY <4>3
    <3>2. PICK frame : frame = w[f]
      OBVIOUS
    <3>3. f \in 1 .. l - 1 /\ work'[f] = frame
      BY <1>4, <2>1, <2>2, <3>1, <3>2
    <3>4. frame \in Visits(N) /\ frame.pc # "self" /\ program[frame.stage][frame.pc] # 0
      BY <1>2, <1>4, <3>2, <3>3
    <3>5. frame.stage \in 1 .. N /\ frame.stage \in 1 .. M /\ frame.pc \in { "leftStage", "rightStage" }
      BY <1>2, <3>4 DEF Visits
    <3>6. heap[frame.stage][frame.pc] # 0
      BY <1>1, <3>4, <3>5
    <3>7. stage # 0
      OBVIOUS
    <3> QED
      BY <2>7, <3>3, <3>5, <3>6, <3>7
  <2>12. \A j \in 1 .. M : q[j].at \in 1 .. Len(tokens)
    BY <1>1, <2>7
  <2> QED
    BY <1>1, <1>2, <2>6, <2>8, <2>10, <2>11, <2>12, ElidePasses
<1> QED
  BY <1>5, <1>6

LEMMA ElideStagePasses ==
  ASSUME PassesIInv, HeldIInv', CompileIInv', ElideStage, UNCHANGED allVars
  PROVE  PassesIInv'
<1>1. PICK stage, n : stage = program[Frame.stage] /\ n = Len(program)
  OBVIOUS
<1>2. PICK literal :
        literal = [symbol |-> "LITERAL", operator |-> "constant", checks |-> "LITERAL",
                   leftStage |-> NilStage, rightStage |-> NilStage,
                   at |-> stage.at, value |-> Elided(stage)[2]]
  OBVIOUS
<1>3. /\ compile = "elide" /\ work # << >> /\ compile' = compile /\ UNCHANGED literals
      /\ \/ ReturnElided(Append(program, literal), n + 1)
         \/ ReturnElided(program, Frame.stage)
  BY <1>1, <1>2 DEF ElideStage, At2
<1>4. /\ n \in Nat /\ \A k \in 1 .. n : program[k].at \in 1 .. Len(tokens)
      /\ Frame.stage \in 1 .. n
  BY <1>1, <1>3, ElideFacts, VisitFacts DEF PassesIInv, Visits
<1>5. PICK V : ProgramOK(program, V)
  BY <1>3, ElideFacts
<1>6. CASE ReturnElided(program, Frame.stage)
  BY <1>1, <1>3, <1>4, <1>5, <1>6, ReturnElidedPasses
<1>7. CASE ReturnElided(Append(program, literal), n + 1)
  <2>1. stage.at \in Nat /\ stage.at \in 1 .. Len(tokens)
    <3>1. stage \in StageOf(n, V)
      BY <1>1, <1>4, <1>5 DEF ProgramOK
    <3> QED
      BY <1>1, <1>4, <3>1 DEF StageOf
  <2>2. PICK heap, at, x, W :
          heap = Append(program, literal) /\ at = stage.at /\ x = Elided(stage)[2] /\ W = V \cup { x }
    OBVIOUS
  <2>3. /\ at \in Nat
        /\ literal = [symbol |-> "LITERAL", operator |-> "constant", checks |-> "LITERAL",
                      leftStage |-> NilStage, rightStage |-> NilStage, at |-> at, value |-> x]
    BY <1>2, <2>1, <2>2
  <2>4. /\ Len(heap) = n + 1 /\ ProgramOK(heap, W)
        /\ heap[n + 1] = literal /\ \A k \in 1 .. n : heap[k] = program[k]
    <3>1. literal \in StageOf(n + 1, W) /\ Fits(literal) /\ V \subseteq W
      BY <1>4, <2>2, <2>3, LiteralFits
    <3> QED
      BY <1>1, <1>5, <2>2, <3>1, StageAppended
  <2>5. heap[n + 1].at = stage.at
    BY <1>2, <2>4
  <2>6. \A k \in 1 .. Len(heap) : heap[k].at \in 1 .. Len(tokens)
    BY <1>1, <1>4, <2>1, <2>4, <2>5
  <2>7. n + 1 \in 1 .. Len(heap) /\ Len(heap) \in Nat /\ n <= Len(heap) /\ ReturnElided(heap, n + 1)
    BY <1>4, <1>7, <2>2, <2>4
  <2> QED
    BY <1>1, <1>3, <2>4, <2>6, <2>7, ReturnElidedPasses
<1> QED
  BY <1>3, <1>6, <1>7

-----------------------------------------------------------------------------
(* The passes from the first step of the checks to the last of their own *)

(* The planner does nothing more when it has planned. *)
LEMMA PlannerEnds ==
  ASSUME PlanIInv, PlanNext
  PROVE  plan # "planned"
<1>1. CASE CheckNext /\ UNCHANGED planVars
  <2>1. phase # "accepted"
    BY <1>1 DEF CheckNext, CountParens, BalanceDone, CheckToken, SyntaxDone, OptimizeToken, OptimizeDone
  <2> QED
    BY <2>1 DEF PlanIInv
<1>2. CASE PlanStart \/ PlanDone
  BY <1>2 DEF PlanStart, PlanDone
<1>3. CASE LevelStep
  BY <1>3 DEF LevelStep, PlanLeft, TakeOperator, LeaveLevel, PlanRight, At
<1>4. CASE TernaryStep
  BY <1>4 DEF TernaryStep, PlanCondition, TakeTernary, TakeCoalesce, TakeQuestion, TakeBareColon,
              LeaveTernary, PlanCoalesce, PlanTrueBranch, PlanFalseBranch, At
<1>5. CASE FunctionStep
  BY <1>5 DEF FunctionStep, TakeFunction, NoFunction, PlanFunctionCall, At
<1>6. CASE AccessorStep
  BY <1>6 DEF AccessorStep, TakeField, TakeEmptyMethod, TakeMethod, PlanMethodArgs, PlanAccess,
              NoAccessor, At
<1>7. CASE ValueStep
  BY <1>7 DEF ValueStep, TakeValue, NoValue, TakePrefix, Unplannable, TakeClause, CloseClause, At
<1> QED
  BY <1>1, <1>2, <1>3, <1>4, <1>5, <1>6, <1>7 DEF PlanNext, PlanStep

LEMMA PassesInit == CompileInit => PassesIInv
<1> SUFFICES ASSUME CompileInit PROVE PassesIInv
  OBVIOUS
<1>1. HeldIInv
  BY HeldInit DEF CompileInit
<1> QED
  BY <1>1 DEF CompileInit, CompileIInv, PassesIInv

(* What a step of the passes needs of the planner and of the types. *)
LEMMA PassesNeeds ==
  ASSUME PassesIInv, CompileStep, UNCHANGED allVars
  PROVE  PlanIInv /\ HeldIInv' /\ CompileIInv'
<1>1. PlanIInv /\ HeldIInv'
  BY HeldStep DEF PassesIInv, HeldIInv
<1> QED
  BY <1>1, CompileStepKeeps DEF PassesIInv

LEMMA CompileStepPasses ==
  ASSUME PassesIInv, CompileStep, UNCHANGED allVars
  PROVE  PassesIInv'
<1>1. HeldIInv' /\ CompileIInv'
  BY PassesNeeds
<1>2. CASE StartReorder
  BY <1>1, <1>2, StartReorderPasses
<1>3. CASE WalkRight
  BY <1>1, <1>3, WalkRightPasses
<1>4. CASE PassTernary \/ ExtendRun \/ BreakRun
  BY <1>1, <1>4, GoOnPasses
<1>5. CASE LeaveWalk
  BY <1>1, <1>5, LeaveWalkPasses
<1>6. CASE ElideChild
  BY <1>1, <1>6, ElideChildPasses
<1>7. CASE ElideStage
  BY <1>1, <1>7, ElideStagePasses
<1>8. CASE StartElide \/ Compiled
  <2>1. /\ UNCHANGED <<program, literals, tokens, stages, plan>>
        /\ compile # "idle"
        /\ \/ compile' = "elide" /\ work' = <<Visit(root)>>
           \/ compile' = "done" /\ work' = << >>
    BY <1>8 DEF StartElide, Compiled, allVars, planVars, checkVars
  <2>2. Original' = Original
    BY <2>1 DEF Original
  <2>3. ASSUME compile' = "elide", NEW f \in 1 .. Len(work') - 1 PROVE FALSE
    <3>1. Len(work') = 1
      BY <2>1, <2>3
    <3> QED
      BY <3>1
  <2> QED
    BY <1>1, <2>1, <2>2, <2>3 DEF PassesIInv
<1> QED
  BY <1>2, <1>3, <1>4, <1>5, <1>6, <1>7, <1>8 DEF CompileStep

(* One step of the whole specification. *)
LEMMA PassesStep == PassesIInv /\ [CompileNext \/ CompileReturned]_compileAllVars => PassesIInv'
<1> SUFFICES ASSUME PassesIInv, [CompileNext \/ CompileReturned]_compileAllVars PROVE PassesIInv'
  OBVIOUS
<1>1. CASE PlanNext /\ UNCHANGED compileVars
  <2>1. compile = "idle"
    BY <1>1, PlannerEnds DEF PassesIInv, HeldIInv
  <2>2. HeldIInv'
    BY <1>1, HeldStep DEF PassesIInv
  <2>3. UNCHANGED <<compile, program, root, work, literals>>
    BY <1>1 DEF compileVars
  <2>4. CompileIInv'
    BY <2>1, <2>3 DEF CompileIInv
  <2> QED
    BY <2>1, <2>2, <2>3, <2>4 DEF PassesIInv
<1>2. CASE CompileStep /\ UNCHANGED allVars
  BY <1>2, CompileStepPasses
<1>3. CASE UNCHANGED compileAllVars
  <2>1. UNCHANGED <<compile, program, root, work, literals, plan, stages, tokens>>
    BY <1>3 DEF compileAllVars, compileVars, allVars, planVars, checkVars
  <2>2. HeldIInv'
    BY <1>3, HeldStep DEF PassesIInv, compileAllVars
  <2>3. CompileIInv' /\ Original' = Original
    BY <2>1 DEF PassesIInv, CompileIInv, Original
  <2> QED
    BY <2>1, <2>2, <2>3 DEF PassesIInv
<1> QED
  BY <1>1, <1>2, <1>3 DEF CompileNext, CompileReturned

LEMMA PassesInvariance == CompileSpec => []PassesIInv
BY PassesInit, PassesStep, PTL DEF CompileSpec

(* Neither pass ever writes to the stage of a parameter or of a constant,    *)
(* which with the build tag "cache" other expressions of the process hold:   *)
(* reorderStages may mirror a run down to the end of a right side, but a run *)
(* of more than one stage is made of operators of one precedence.            *)
THEOREM LeavesStayUntouched == CompileSpec => []LeavesUntouched
<1>1. PassesIInv => LeavesUntouched
  <2> SUFFICES ASSUME PassesIInv, compile # "idle", NEW k \in DOMAIN stages,
                      stages[k].operator \in { "parameter", "constant" }
               PROVE  program[k] = Checked(stages[k], literals)
    BY DEF LeavesUntouched
  <2>1. stages \in Seq(StageRecord)
    BY DEF PassesIInv, HeldIInv, PlanIInv, StagesInv
  <2>2. k \in 1 .. Len(stages) /\ Len(stages) \in Nat
    BY <2>1
  <2>3. Original[k] = Checked(stages[k], literals) /\ Len(Original) = Len(stages)
    BY <2>2 DEF Original
  <2>4. IsLeaf(Original[k])
    BY <2>3 DEF IsLeaf, Checked
  <2> QED
    BY <2>2, <2>3, <2>4 DEF PassesIInv, LeavesKept
<1> QED
  BY <1>1, PassesInvariance, PTL

(* The children of a stage, the frames of the passes and the runs of         *)
(* reorderStages refer to stages of the program, no stage is in a run twice, *)
(* and every stage, a literal of elideLiterals included, is from a token.    *)
THEOREM CompileTypeCorrect == CompileSpec => []CompileTypeOK
<1>1. PassesIInv => CompileTypeOK
  <2> SUFFICES ASSUME PassesIInv PROVE CompileTypeOK
    OBVIOUS
  <2>1. CompileIInv /\ HeldIInv
    BY DEF PassesIInv
  <2>2. tokens \in Seq(ExpressionToken)
    BY <2>1 DEF HeldIInv, PlanIInv, CheckIInv, CheckTypeOK
  <2>3. CASE compile = "idle"
    <3>1. program = << >> /\ root = NilStage /\ work = << >>
      BY <2>3 DEF PassesIInv
    <3> QED
      BY <2>3, <3>1 DEF CompileTypeOK, Places, MaybePlace
  <2>4. CASE compile # "idle"
    <3>1. PICK V : ProgramOK(program, V)
      BY <2>1, <2>4 DEF CompileIInv
    <3>2. PICK N : N = Len(program)
      OBVIOUS
    <3>3. Places = 1 .. N /\ MaybePlace = 0 .. N /\ N \in Nat
      BY <3>1, <3>2 DEF ProgramOK, Places, MaybePlace, NilStage
    <3>4. root \in 1 .. N
      BY <2>1, <2>4, <3>2 DEF CompileIInv
    <3>5. ASSUME NEW k \in 1 .. N
          PROVE  /\ program[k].leftStage \in 0 .. N /\ program[k].rightStage \in 0 .. N
                 /\ program[k].at \in DOMAIN tokens
      <4>1. program[k] \in StageOf(N, V)
        BY <3>1, <3>2 DEF ProgramOK
      <4>2. program[k].at \in 1 .. Len(tokens)
        BY <2>4, <3>2 DEF PassesIInv
      <4> QED
        BY <2>2, <4>1, <4>2 DEF StageOf
    <3>6. ASSUME NEW f \in DOMAIN work, compile = "reorder"
          PROVE  /\ work[f].current \in 0 .. N /\ work[f].next \in 0 .. N
                 /\ \A i, j \in DOMAIN work[f].run :
                      work[f].run[i] \in 1 .. N /\ (work[f].run[i] = work[f].run[j] => i = j)
      <4>1. PICK w : w = work[f]
        OBVIOUS
      <4>2. f \in 1 .. Len(work) /\ w \in Walks(N)
        BY <2>1, <3>2, <3>6, <4>1 DEF CompileIInv, WalksInv
      <4>3. w.current \in 0 .. N /\ w.next \in 0 .. N /\ w.run \in Seq(1 .. N)
        BY <4>2 DEF Walks
      <4>4. /\ DOMAIN w.run = 1 .. Len(w.run) /\ Len(w.run) \in Nat
            /\ \A i \in 1 .. Len(w.run) : w.run[i] \in 1 .. N
        <5>1. PICK run, S : run = w.run /\ S = 1 .. N
          OBVIOUS
        <5>2. run \in Seq(S)
          BY <4>3, <5>1
        <5>3. DOMAIN run = 1 .. Len(run) /\ Len(run) \in Nat /\ \A i \in 1 .. Len(run) : run[i] \in S
          BY <5>2
        <5> QED
          BY <5>1, <5>3
      <4>5. RunBehind(Original, program, w)
        BY <3>6, <4>1, <4>2 DEF PassesIInv, Ordered, WalksOrdered, WalkBehind
      <4>6. \A i \in 1 .. Len(w.run) : \A j \in 1 .. i - 1 : w.run[j] > w.run[i]
        BY <4>5 DEF RunBehind
      <4>7. ASSUME NEW i \in 1 .. Len(w.run), NEW j \in 1 .. Len(w.run), w.run[i] = w.run[j]
            PROVE  i = j
        <5>1. ~(i < j) /\ ~(j < i)
          BY <3>3, <4>4, <4>6, <4>7
        <5> QED
          BY <4>4, <5>1
      <4> QED
        BY <4>1, <4>3, <4>4, <4>7
    <3>7. ASSUME NEW f \in DOMAIN work, compile # "reorder"
          PROVE  work[f].stage \in 1 .. N
      <4>1. CASE compile = "elide"
        <5>1. work \in Seq(Visits(N))
          BY <2>1, <3>2, <4>1 DEF CompileIInv, VisitsInv
        <5>2. work[f] \in Visits(N)
          BY <5>1
        <5> QED
          BY <5>2 DEF Visits
      <4>2. CASE compile = "done"
        BY <3>7, <4>2 DEF PassesIInv
      <4> QED
        BY <2>1, <2>4, <3>7, <4>1, <4>2 DEF CompileIInv
    <3>8. compile \in { "idle", "reorder", "elide", "done" }
      BY <2>1 DEF CompileIInv
    <3> QED
      BY <3>3, <3>4, <3>5, <3>6, <3>7, <3>8 DEF CompileTypeOK
  <2> QED
    BY <2>3, <2>4
<1> QED
  BY <1>1, PassesInvariance, PTL

-----------------------------------------------------------------------------
(***************************************************************************)
(* mirrorStageSubtree is one step here and four loops in MirrorStages.     *)
(***************************************************************************)

(* MirrorStages with a chain of n stages before a loop, or when it returns.  *)
Loops(n, left, right, held, loop) ==
  INSTANCE MirrorStages
    WITH Lengths <- { m \in Nat : m > 1 }, stagesLength <- n,
         leftStage <- left, rightStage <- right, info <- held, pc <- loop, i <- 0

(* The stage of the program that a reference of the loops stands for: a      *)
(* stage of the run, or one of the operands that the run has in program.     *)
Referred(run, ref) ==
  IF ref[1] = "stage" THEN run[ref[2] + 1]
  ELSE IF ref[2] < Len(run) THEN program[run[ref[2] + 1]].leftStage
  ELSE program[run[Len(run)]].rightStage

(* The stages of the run are in heap as the loops have them.                 *)
Shows(heap, run, left, right, held) ==
  \A k \in 0 .. Len(run) - 1 :
    heap[run[k + 1]] = [program[run[held[k] + 1]] EXCEPT !.leftStage = Referred(run, left[k]),
                                                         !.rightStage = Referred(run, right[k])]

(* Before the loops the run is the chain that the program has, and what they *)
(* leave is what mirrorStageSubtree makes of it in one step.                 *)
MirroredByLoops ==
  compile = "reorder" =>
    \A f \in DOMAIN work :
      LET run == work[f].run
          n == Len(run)
      IN  n > 1 =>
            \A left, right, held :
              /\ Loops(n, left, right, held, "reverse")!Init => Shows(program, run, left, right, held)
              /\ Loops(n, left, right, held, "done")!Mirrored =>
                   Shows(mirrorStageSubtree(run), run, left, right, held)

(* A run of which each stage is the right child of the one before.           *)
LEMMA ChainForLoops ==
  ASSUME NEW V, ProgramOK(program, V), NEW run \in Seq(1 .. Len(program)), Len(run) > 1,
         \A i \in 1 .. Len(run) : i < Len(run) => program[run[i]].rightStage = run[i + 1],
         NEW left, NEW right, NEW held, Loops(Len(run), left, right, held, "reverse")!Init
  PROVE  Shows(program, run, left, right, held)
<1>1. PICK n \in Nat : n = Len(run)
  OBVIOUS
<1>2. ASSUME NEW k \in 0 .. n - 1
      PROVE  /\ held[k] = k /\ left[k] = <<"operand", k>>
             /\ right[k] = IF k + 1 < n THEN <<"stage", k + 1>> ELSE <<"operand", n>>
  BY <1>1 DEF Loops!Init, Loops!Index, Loops!Stage, Loops!Operand
<1>3. ASSUME NEW k \in 0 .. n - 1
      PROVE  program[run[k + 1]] = [program[run[held[k] + 1]] EXCEPT !.leftStage = Referred(run, left[k]),
                                                                     !.rightStage = Referred(run, right[k])]
  <2>1. PICK stage : stage = program[run[k + 1]]
    OBVIOUS
  <2>2. k + 1 \in 1 .. n /\ run[k + 1] \in 1 .. Len(program)
    BY <1>1
  <2>3. stage \in StageOf(Len(program), V)
    BY <2>1, <2>2 DEF ProgramOK
  <2>4. Referred(run, left[k]) = stage.leftStage
    <3> DEFINE ref == <<"operand", k>>
    <3>1. left[k] = ref /\ ref[1] = "operand" /\ ref[2] = k
      BY <1>2
    <3> HIDE DEF ref
    <3>2. k < Len(run)
      BY <1>1
    <3>3. Referred(run, ref) = program[run[k + 1]].leftStage
      BY <3>1, <3>2 DEF Referred
    <3> QED
      BY <2>1, <3>1, <3>3
  <2>5. Referred(run, right[k]) = stage.rightStage
    <3>1. CASE k + 1 < n
      <4>1. stage.rightStage = run[(k + 1) + 1]
        BY <1>1, <2>1, <2>2, <3>1
      <4>2. right[k] = <<"stage", k + 1>>
        BY <1>2, <3>1
      <4> QED
        BY <4>1, <4>2 DEF Referred
    <3>2. CASE ~(k + 1 < n)
      <4>1. k + 1 = n /\ k + 1 = Len(run) /\ ~(n < Len(run))
        BY <1>1, <3>2
      <4> DEFINE ref == <<"operand", n>>
      <4>2. right[k] = ref /\ ref[1] = "operand" /\ ref[2] = n
        BY <1>2, <3>2
      <4> HIDE DEF ref
      <4>3. Referred(run, ref) = program[run[Len(run)]].rightStage
        BY <4>1, <4>2 DEF Referred
      <4> QED
        BY <2>1, <4>1, <4>2, <4>3
    <3> QED
      BY <3>1, <3>2
  <2>6. stage = [stage EXCEPT !.leftStage = stage.leftStage, !.rightStage = stage.rightStage]
    BY <2>3 DEF StageOf
  <2> QED
    BY <1>2, <2>1, <2>4, <2>5, <2>6
<1> QED
  BY <1>1, <1>3 DEF Shows

(* A run in different places.                                                *)
LEMMA StepForLoops ==
  ASSUME NEW V, ProgramOK(program, V), NEW run \in Seq(1 .. Len(program)), Len(run) > 1,
         \A i, j \in 1 .. Len(run) : run[i] = run[j] => i = j,
         NEW left, NEW right, NEW held, Loops(Len(run), left, right, held, "done")!Mirrored
  PROVE  Shows(mirrorStageSubtree(run), run, left, right, held)
<1>1. PICK n \in Nat : n = Len(run)
  OBVIOUS
<1>2. \A i \in 1 .. n : run[i] \in 1 .. Len(program)
  BY <1>1
<1>3. ASSUME NEW k \in 0 .. n - 1
      PROVE  /\ held[k] = n - 1 - k
             /\ left[k] = IF k + 1 < n THEN <<"stage", k + 1>> ELSE <<"operand", 0>>
             /\ right[k] = <<"operand", n - k>>
  BY <1>1 DEF Loops!Mirrored, Loops!Index, Loops!Stage, Loops!Operand
<1>4. ASSUME NEW k \in 0 .. n - 1
      PROVE  mirrorStageSubtree(run)[run[k + 1]]
               = [program[run[held[k] + 1]] EXCEPT !.leftStage = Referred(run, left[k]),
                                                   !.rightStage = Referred(run, right[k])]
  <2>1. PICK j \in 1 .. n : j = k + 1
    OBVIOUS
  <2>2. (CHOOSE i \in 1 .. n : run[i] = run[j]) = j
    BY <1>1
  <2>3. run[j] \in { run[i] : i \in 1 .. n } /\ run[j] \in DOMAIN program
    BY <1>2 DEF ProgramOK
  <2>4. PICK l, r : /\ l = IF j < n THEN run[j + 1] ELSE program[run[1]].leftStage
                    /\ r = IF j = 1 THEN program[run[n]].rightStage ELSE program[run[n + 2 - j]].leftStage
    OBVIOUS
  <2>5. mirrorStageSubtree(run)[run[j]] = [program[run[n + 1 - j]] EXCEPT !.leftStage = l, !.rightStage = r]
    BY <1>1, <2>2, <2>3, <2>4 DEF mirrorStageSubtree
  <2>6. n + 1 - j = held[k] + 1
    <3>1. held[k] = n - 1 - k
      BY <1>3
    <3>2. k \in Int /\ j = k + 1
      BY <2>1
    <3> QED
      BY <3>1, <3>2
  <2>7. Referred(run, left[k]) = l
    <3>1. CASE k + 1 < n
      <4>1. left[k] = <<"stage", k + 1>> /\ (k + 1) + 1 = j + 1 /\ j < n
        BY <1>3, <2>1, <3>1
      <4> QED
        BY <2>4, <4>1 DEF Referred
    <3>2. CASE ~(k + 1 < n)
      <4>1. left[k] = <<"operand", 0>> /\ ~(j < n)
        BY <1>3, <2>1, <3>2
      <4> QED
        BY <1>1, <2>4, <4>1 DEF Referred
    <3> QED
      BY <3>1, <3>2
  <2>8. Referred(run, right[k]) = r
    <3> DEFINE ref == <<"operand", n - k>>
    <3>1. right[k] = ref /\ ref[1] = "operand" /\ ref[2] = n - k
      BY <1>3
    <3> HIDE DEF ref
    <3>2. CASE j = 1
      <4>1. ~(ref[2] < Len(run))
        BY <1>1, <2>1, <3>1, <3>2
      <4>2. Referred(run, ref) = program[run[Len(run)]].rightStage
        BY <3>1, <4>1 DEF Referred
      <4> QED
        BY <1>1, <2>4, <3>1, <3>2, <4>2
    <3>3. CASE j # 1
      <4>1. ref[2] < Len(run) /\ ref[2] + 1 = n + 2 - j
        BY <1>1, <2>1, <3>1, <3>3
      <4>2. Referred(run, ref) = program[run[ref[2] + 1]].leftStage
        BY <3>1, <4>1 DEF Referred
      <4> QED
        BY <2>4, <3>1, <3>3, <4>1, <4>2
    <3> QED
      BY <3>2, <3>3
  <2> QED
    BY <2>1, <2>5, <2>6, <2>7, <2>8
<1> QED
  BY <1>1, <1>4 DEF Shows

(* reorderStages hands mirrorStageSubtree a chain of right children as they  *)
(* are in the program, whatever it has mirrored to their left before, and    *)
(* the four loops that MirrorIsCorrect is about do to it what the one step   *)
(* of Compile does.                                                          *)
THEOREM RunsMirroredByLoops == CompileSpec => []MirroredByLoops
<1>1. PassesIInv /\ CompileTypeOK => MirroredByLoops
  <2> SUFFICES ASSUME PassesIInv, CompileTypeOK, compile = "reorder", NEW f \in DOMAIN work,
                      Len(work[f].run) > 1, NEW left, NEW right, NEW held
               PROVE  LET run == work[f].run
                          n == Len(run)
                      IN  /\ Loops(n, left, right, held, "reverse")!Init => Shows(program, run, left, right, held)
                          /\ Loops(n, left, right, held, "done")!Mirrored =>
                               Shows(mirrorStageSubtree(run), run, left, right, held)
    BY DEF MirroredByLoops
  <2>1. PICK V : ProgramOK(program, V)
    BY DEF PassesIInv, CompileIInv
  <2>2. PICK w : w = work[f]
    OBVIOUS
  <2>3. f \in 1 .. Len(work) /\ w \in Walks(Len(program))
    BY <2>2 DEF PassesIInv, CompileIInv, WalksInv
  <2>4. PICK run \in Seq(1 .. Len(program)) : run = w.run
    BY <2>3 DEF Walks
  <2>5. RunBehind(Original, program, w)
    BY <2>2, <2>3 DEF PassesIInv, Ordered, WalksOrdered, WalkBehind
  <2>6. \A i \in 1 .. Len(run) : i < Len(run) => program[run[i]].rightStage = run[i + 1]
    BY <2>4, <2>5 DEF RunBehind
  <2>7. \A i, j \in 1 .. Len(run) : run[i] = run[j] => i = j
    BY <2>2, <2>4 DEF CompileTypeOK
  <2>8. Loops(Len(run), left, right, held, "reverse")!Init => Shows(program, run, left, right, held)
    BY <2>1, <2>2, <2>4, <2>6, ChainForLoops
  <2>9. Loops(Len(run), left, right, held, "done")!Mirrored =>
          Shows(mirrorStageSubtree(run), run, left, right, held)
    BY <2>1, <2>2, <2>4, <2>7, StepForLoops
  <2> QED
    BY <2>2, <2>4, <2>8, <2>9
<1> QED
  BY <1>1, CompileTypeCorrect, PassesInvariance, PTL

-----------------------------------------------------------------------------
(* Evaluation *)

(* What an operator is given has passed the checks of its symbol. *)
LEMMA OperatorsChecked ==
  ASSUME NEW V, NEW n, Stage \in StageOf(n, V), Fits(Stage), ~AsksParameter, NEW l, NEW r,
         TypeChecked(Stage.checks, l, r)
  PROVE  OperatorOutcome(l, r) # Assertion
<1>1. Stage.checks = Stage.symbol /\ OperatorFits(Stage.symbol, Stage.operator)
  BY DEF Fits
<1>2. CASE Stage.operator \in StageSymbols /\ Stage.symbol = Stage.operator
  <2>1. Apply(Stage.operator, l, r) # Assertion
    BY <1>1, <1>2, ChecksSuffice
  <2>2. OperatorOutcome(l, r) = Apply(Stage.operator, l, r)
    BY <1>2 DEF OperatorOutcome, StageSymbols
  <2> QED
    BY <2>1, <2>2
<1>3. CASE Stage.operator \in LiteralOperators /\ Stage.symbol = "LITERAL"
  BY <1>3, OutcomesDiffer DEF OperatorOutcome, LiteralOperators
<1>4. CASE Stage.operator \in UntypedOperators /\ Stage.symbol # "LITERAL"
  BY <1>4, OutcomesDiffer, RecoveredIsNoAssertion
     DEF OperatorOutcome, UntypedOperators, AsksParameter
<1> QED
  BY <1>1, <1>2, <1>3, <1>4 DEF OperatorFits

LEMMA CallsGrow ==
  ASSUME NEW n, NEW V, NEW W, V \subseteq W, NEW w \in Seq(Calls(n, V))
  PROVE  w \in Seq(Calls(n, W))
<1>1. Len(w) \in Nat /\ w = [k \in 1 .. Len(w) |-> w[k]]
  OBVIOUS
<1>2. ASSUME NEW k \in 1 .. Len(w)
      PROVE  w[k] \in Calls(n, W)
  <2>1. w[k] \in Calls(n, V)
    BY <1>1
  <2> QED
    BY <2>1 DEF Calls
<1>3. w \in [1 .. Len(w) -> Calls(n, W)]
  BY <1>1, <1>2
<1> QED
  BY <1>1, <1>3, FunctionIsSeq

(* What holds of the call that is running and of the calls around it. *)
LEMMA CallFacts ==
  ASSUME EvaluationIInv, NEW pc, Running(pc)
  PROVE  /\ compile = "done" /\ answer = Pending /\ Len(program) \in Nat
         /\ \E V : Stage \in StageOf(Len(program), V) /\ Fits(Stage)
         /\ Stage.leftStage \in 0 .. Len(program) /\ Stage.rightStage \in 0 .. Len(program)
         /\ Current.stage \in 1 .. Len(program)
         /\ \E V : Current \in Calls(Len(program), V) /\ Outer \in Seq(Calls(Len(program), V))
<1>1. frames # << >> /\ answer = Pending
  BY DEF Running
<1>2. compile = "done"
  BY <1>1 DEF EvaluationIInv, Pending, Idle
<1>3. PICK V : ProgramOK(program, V)
  BY <1>2 DEF EvaluationIInv, CompileIInv
<1>4. PICK W : frames \in Seq(Calls(Len(program), W))
  BY DEF EvaluationIInv
<1>5. Len(program) \in Nat
  BY <1>3 DEF ProgramOK
<1>6. /\ Current \in Calls(Len(program), W) /\ Outer \in Seq(Calls(Len(program), W))
      /\ Current.stage \in 1 .. Len(program)
  <2> DEFINE S == Calls(Len(program), W)
  <2>1. frames \in Seq(S)
    BY <1>4
  <2>2. Current \in S => Current.stage \in 1 .. Len(program)
    BY DEF Calls
  <2> HIDE DEF S
  <2>3. Current \in S
    BY <1>1, <2>1 DEF Current
  <2>4. Outer \in Seq(S)
    BY <1>1, <2>1, PrefixIsSeq DEF Outer
  <2> QED
    BY <2>2, <2>3, <2>4 DEF S
<1>7. Stage \in StageOf(Len(program), V) /\ Fits(Stage)
  BY <1>3, <1>6 DEF ProgramOK, Stage
<1>8. Stage.leftStage \in 0 .. Len(program) /\ Stage.rightStage \in 0 .. Len(program)
  BY <1>7 DEF StageOf
<1> QED
  BY <1>1, <1>2, <1>5, <1>6, <1>7, <1>8

(* A step of a call that leaves the rest of the invariant alone. *)
LEMMA FramesKeep ==
  ASSUME EvaluationIInv, answer = Pending, compile = "done", UNCHANGED compileAllVars,
         \E V : frames' \in Seq(Calls(Len(program), V)),
         answer' = Idle => frames' = << >>, ChecksTypes' => answer' # Assertion
  PROVE  EvaluationIInv'
<1>1. PlanIInv'
  BY PlanStepIInv DEF EvaluationIInv, compileAllVars
<1>2. CompileIInv'
  BY DEF EvaluationIInv, CompileIInv, compileAllVars, compileVars
<1>3. compile' = "done" /\ program' = program
  BY DEF compileAllVars, compileVars
<1> QED
  BY <1>1, <1>2, <1>3 DEF EvaluationIInv, TypeChecksSuffice

LEMMA ReturnKeepsCalls ==
  ASSUME EvaluationIInv, NEW pc, Running(pc), UNCHANGED compileAllVars, ChecksTypes' = ChecksTypes,
         NEW outcome, ChecksTypes => outcome # Assertion, ReturnOutcome(outcome)
  PROVE  EvaluationIInv'
<1>1. /\ compile = "done" /\ answer = Pending
      /\ \E V : Outer \in Seq(Calls(Len(program), V))
  BY CallFacts
<1>2. Pending # Idle /\ Pending # Assertion
  BY DEF Pending, Idle, Assertion
<1>3. \E V : frames' \in Seq(Calls(Len(program), V))
  <2>1. PICK V : Outer \in Seq(Calls(Len(program), V))
    BY <1>1
  <2>2. << >> \in Seq(Calls(Len(program), V))
    OBVIOUS
  <2>3. frames' = Outer \/ frames' = << >>
    BY DEF ReturnOutcome
  <2> QED
    BY <2>1, <2>2, <2>3
<1>4. (answer' = Idle => frames' = << >>) /\ (ChecksTypes' => answer' # Assertion)
  BY <1>1, <1>2 DEF ReturnOutcome
<1> QED
  BY <1>1, <1>3, <1>4, FramesKeep

LEMMA ChildKeeps ==
  ASSUME EvaluationIInv, NEW pc, Running(pc), UNCHANGED <<compileAllVars, ChecksTypes, answer>>,
         NEW child \in 0 .. Len(program), NEW to \in { "left", "right" }, NEW left,
         EvaluateChild(child, [Current EXCEPT !.pc = to, !.left = left])
  PROVE  EvaluationIInv'
<1> DEFINE n == Len(program)
           self == [Current EXCEPT !.pc = to, !.left = left]
<1>1. compile = "done" /\ answer = Pending /\ n \in Nat
  BY CallFacts
<1>2. PICK V : Current \in Calls(n, V) /\ Outer \in Seq(Calls(n, V))
  BY CallFacts
<1> DEFINE W == V \cup { left, Nil }
           S == Calls(n, W)
<1>3. self \in S
  BY <1>2 DEF Calls
<1>4. child # 0 => Enter(child) \in S
  BY <1>1 DEF Calls, Enter
<1>5. V \subseteq W
  OBVIOUS
<1> HIDE DEF W
<1>6. Outer \in Seq(S)
  BY <1>2, <1>5, CallsGrow
<1>7. frames' = Append(Outer, self) \/ (child # 0 /\ frames' = Append(Append(Outer, self), Enter(child)))
  BY DEF EvaluateChild, Set, NilStage
<1> HIDE DEF self
<1>8. frames' \in Seq(S)
  <2> HIDE DEF S
  <2>1. Append(Outer, self) \in Seq(S)
    BY <1>3, <1>6
  <2>2. child # 0 => Append(Append(Outer, self), Enter(child)) \in Seq(S)
    BY <1>4, <2>1
  <2> QED
    BY <1>7, <2>1, <2>2
<1>9. answer' # Idle /\ (ChecksTypes' => answer' # Assertion)
  BY <1>1 DEF Pending, Idle, Assertion
<1> QED
  BY <1>1, <1>8, <1>9, FramesKeep

(* Eval begins: nothing else of the expression changes. *)
LEMMA EvalKeeps ==
  ASSUME EvaluationIInv, Eval, UNCHANGED compileAllVars
  PROVE  EvaluationIInv'
<1>1. PlanIInv'
  BY PlanStepIInv DEF EvaluationIInv, compileAllVars
<1>2. CompileIInv' /\ compile' = "done" /\ program' = program
  BY DEF EvaluationIInv, CompileIInv, compileAllVars, compileVars, Eval
<1>3. root \in 1 .. Len(program)
  BY DEF EvaluationIInv, CompileIInv, Eval
<1>4. Enter(root) \in Calls(Len(program), { Nil })
  BY <1>3 DEF Enter, Calls
<1>5. frames' \in Seq(Calls(Len(program), { Nil }))
  BY <1>4 DEF Eval
<1>6. answer' # Idle /\ answer' # Assertion
  BY DEF Eval, Pending, Idle, Assertion
<1> QED
  BY <1>1, <1>2, <1>5, <1>6 DEF EvaluationIInv, TypeChecksSuffice

LEMMA EvaluateLeftKeeps ==
  ASSUME EvaluationIInv, EvaluateLeft, UNCHANGED compileAllVars
  PROVE  EvaluationIInv'
<1>1. Running("start") /\ UNCHANGED <<ChecksTypes, answer>>
  BY DEF EvaluateLeft
<1>2. Stage.leftStage \in 0 .. Len(program) /\ \E V : Current \in Calls(Len(program), V)
  BY <1>1, CallFacts
<1>3. [Current EXCEPT !.pc = "left"] = [Current EXCEPT !.pc = "left", !.left = Current.left]
  BY <1>2 DEF Calls
<1>4. EvaluateChild(Stage.leftStage, [Current EXCEPT !.pc = "left", !.left = Current.left])
  BY <1>3 DEF EvaluateLeft
<1> QED
  BY <1>1, <1>2, <1>4, ChildKeeps

LEMMA SkipRightKeeps ==
  ASSUME EvaluationIInv, SkipRight, UNCHANGED compileAllVars
  PROVE  EvaluationIInv'
<1> DEFINE n == Len(program)
           self == [Current EXCEPT !.pc = "right", !.left = value]
<1>1. /\ Running("left") /\ UNCHANGED <<ChecksTypes, answer>>
      /\ frames' = Append(Outer, self)
  BY DEF SkipRight, Set
<1>2. compile = "done" /\ answer = Pending
  BY <1>1, CallFacts
<1>3. PICK V : Current \in Calls(n, V) /\ Outer \in Seq(Calls(n, V))
  BY <1>1, CallFacts
<1> DEFINE W == V \cup { value }
           S == Calls(n, W)
<1>4. self \in S /\ V \subseteq W
  BY <1>3 DEF Calls
<1> HIDE DEF W, self
<1>5. Outer \in Seq(S)
  BY <1>3, <1>4, CallsGrow
<1> HIDE DEF S
<1>6. frames' \in Seq(S)
  BY <1>1, <1>4, <1>5
<1>7. answer' # Idle /\ (ChecksTypes' => answer' # Assertion)
  BY <1>1, <1>2 DEF Pending, Idle, Assertion
<1> QED
  BY <1>1, <1>2, <1>6, <1>7, FramesKeep DEF S

LEMMA ApplyOperatorKeeps ==
  ASSUME EvaluationIInv, ApplyOperator, UNCHANGED compileAllVars
  PROVE  EvaluationIInv'
<1> DEFINE l == Current.left
           outcome == IF ChecksTypes /\ ~TypeChecked(Stage.checks, l, value)
                        THEN Error ELSE OperatorOutcome(l, value)
<1>1. Running("right") /\ ~AsksParameter /\ ChecksTypes' = ChecksTypes /\ ReturnOutcome(outcome)
  BY DEF ApplyOperator
<1>2. PICK V : Stage \in StageOf(Len(program), V) /\ Fits(Stage)
  BY <1>1, CallFacts
<1>3. TypeChecked(Stage.checks, l, value) => OperatorOutcome(l, value) # Assertion
  BY <1>1, <1>2, OperatorsChecked
<1>4. ChecksTypes => outcome # Assertion
  BY <1>3, OutcomesDiffer
<1> HIDE DEF outcome
<1> QED
  BY <1>1, <1>4, ReturnKeepsCalls

LEMMA AskParameterKeeps ==
  ASSUME EvaluationIInv, AskParameter, UNCHANGED compileAllVars
  PROVE  EvaluationIInv'
<1>1. Running("right") /\ ChecksTypes' = ChecksTypes
  BY DEF AskParameter
<1>2. PICK got \in Gets :
        ReturnOutcome(IF IsValue(got) /\ Stage.operator = "ACCESS"
                        THEN Recovered(Access(got[2], AccessorArgs(value)))
                        ELSE got)
  BY DEF AskParameter
<1> DEFINE outcome == IF IsValue(got) /\ Stage.operator = "ACCESS"
                        THEN Recovered(Access(got[2], AccessorArgs(value)))
                        ELSE got
<1>3. got # Assertion
  BY OutcomesDiffer DEF Gets
<1>4. outcome # Assertion
  BY <1>3, RecoveredIsNoAssertion
<1>5. ReturnOutcome(outcome)
  BY <1>2
<1> HIDE DEF outcome
<1> QED
  BY <1>1, <1>4, <1>5, ReturnKeepsCalls

-----------------------------------------------------------------------------
(* The theorem *)

LEMMA EvaluationInitIInv == EvaluationInit => EvaluationIInv
<1> SUFFICES ASSUME EvaluationInit PROVE EvaluationIInv
  OBVIOUS
<1>1. PlanIInv
  BY PlanInitIInv DEF EvaluationInit, CompileInit
<1>2. CompileIInv
  BY DEF EvaluationInit, CompileInit, CompileIInv
<1>3. frames = << >> /\ answer = Idle /\ Idle # Assertion
  BY DEF EvaluationInit, Idle, Assertion
<1>4. << >> \in Seq(Calls(Len(program), { }))
  OBVIOUS
<1> QED
  BY <1>1, <1>2, <1>3, <1>4 DEF EvaluationIInv, TypeChecksSuffice

(* A step before an evaluation leaves its state alone. *)
LEMMA CompileNextKeeps ==
  ASSUME EvaluationIInv, CompileNext, UNCHANGED evaluationVars
  PROVE  EvaluationIInv'
<1>1. frames' = frames /\ answer' = answer /\ ChecksTypes' = ChecksTypes
  BY DEF evaluationVars
<1>2. CASE PlanNext /\ UNCHANGED compileVars
  <2>1. PlanIInv'
    BY <1>2, PlanStepIInv DEF EvaluationIInv
  <2>2. CompileIInv' /\ compile' = compile /\ program' = program
    BY <1>2 DEF EvaluationIInv, CompileIInv, compileVars
  <2> QED
    BY <1>1, <2>1, <2>2 DEF EvaluationIInv, TypeChecksSuffice
<1>3. CASE CompileStep /\ UNCHANGED allVars
  <2>1. PlanIInv'
    BY <1>3, PlanStepIInv DEF EvaluationIInv
  <2>2. CompileIInv'
    BY <1>3, CompileStepKeeps DEF EvaluationIInv
  <2>3. compile # "done"
    BY <1>3 DEF CompileStep, StartReorder, WalkRight, PassTernary, ExtendRun, BreakRun, AtCurrent,
                LeaveWalk, StartElide, ElideChild, ElideStage, At2, Compiled
  <2>4. answer = Idle /\ frames = << >>
    BY <2>3 DEF EvaluationIInv
  <2>5. << >> \in Seq(Calls(Len(program'), { }))
    OBVIOUS
  <2> QED
    BY <1>1, <2>1, <2>2, <2>4, <2>5 DEF EvaluationIInv, TypeChecksSuffice
<1> QED
  BY <1>2, <1>3 DEF CompileNext

LEMMA StutterKeeps ==
  ASSUME EvaluationIInv, UNCHANGED evaluationAllVars
  PROVE  EvaluationIInv'
<1>1. PlanIInv'
  BY PlanStepIInv DEF EvaluationIInv, evaluationAllVars, compileAllVars
<1>2. /\ CompileIInv' /\ compile' = compile /\ program' = program
      /\ frames' = frames /\ answer' = answer /\ ChecksTypes' = ChecksTypes
  BY DEF EvaluationIInv, CompileIInv, evaluationAllVars, compileAllVars, compileVars, evaluationVars
<1> QED
  BY <1>1, <1>2 DEF EvaluationIInv, TypeChecksSuffice

(* Every step of an evaluation keeps the types of its calls. *)
LEMMA EvaluationStepIInv ==
  EvaluationIInv /\ [EvaluationNext \/ EvaluationReturned]_evaluationAllVars => EvaluationIInv'
<1> SUFFICES ASSUME EvaluationIInv, [EvaluationNext \/ EvaluationReturned]_evaluationAllVars
             PROVE  EvaluationIInv'
  OBVIOUS
<1>1. CASE CompileNext /\ UNCHANGED evaluationVars
  BY <1>1, CompileNextKeeps
<1>2. CASE Eval /\ UNCHANGED compileAllVars
  BY <1>2, EvalKeeps
<1>3. CASE EvaluateLeft /\ UNCHANGED compileAllVars
  BY <1>3, EvaluateLeftKeeps
<1>4. CASE ShortCircuit /\ UNCHANGED compileAllVars
  <2>1. Running("left") /\ ChecksTypes' = ChecksTypes /\ ReturnOutcome(Value(value))
    BY <1>4 DEF ShortCircuit
  <2> QED
    BY <1>4, <2>1, OutcomesDiffer, ReturnKeepsCalls
<1>5. CASE SkipRight /\ UNCHANGED compileAllVars
  BY <1>5, SkipRightKeeps
<1>6. CASE EvaluateRight /\ UNCHANGED compileAllVars
  <2>1. /\ Running("left") /\ UNCHANGED <<ChecksTypes, answer>>
        /\ EvaluateChild(Stage.rightStage, [Current EXCEPT !.pc = "right", !.left = value])
    BY <1>6 DEF EvaluateRight
  <2>2. Stage.rightStage \in 0 .. Len(program)
    BY <2>1, CallFacts
  <2> QED
    BY <1>6, <2>1, <2>2, ChildKeeps
<1>7. CASE ApplyOperator /\ UNCHANGED compileAllVars
  BY <1>7, ApplyOperatorKeeps
<1>8. CASE AskParameter /\ UNCHANGED compileAllVars
  BY <1>8, AskParameterKeeps
<1>9. CASE EvaluationReturned \/ UNCHANGED evaluationAllVars
  BY <1>9, StutterKeeps DEF EvaluationReturned
<1> QED
  BY <1>1, <1>2, <1>3, <1>4, <1>5, <1>6, <1>7, <1>8, <1>9 DEF EvaluationNext, EvaluationStep

(* With ChecksTypes no evaluation of any expression, with any literals and   *)
(* parameters and whatever its functions, accessors and arithmetic compute,  *)
(* ends in the panic of a type assertion of an operator.                     *)
THEOREM TypeChecksAlwaysSuffice == EvaluationSpec => []TypeChecksSuffice
<1>1. EvaluationIInv => TypeChecksSuffice
  BY DEF EvaluationIInv
<1> QED
  BY <1>1, EvaluationInitIInv, EvaluationStepIInv, PTL DEF EvaluationSpec

-----------------------------------------------------------------------------
(* The calls of an evaluation *)

(* An outcome is never taken for an answer that is still to come. *)
LEMMA OutcomesAnswer ==
  /\ \A v : Value(v) # Pending
  /\ Error # Pending /\ Assertion # Pending /\ Uncomparable # Pending
BY DEF Value, Error, Assertion, Uncomparable, Pending

LEMMA RecoveredAnswers ==
  ASSUME NEW outcome
  PROVE  Recovered(outcome) # Pending
<1>1. ~IsValue(Pending)
  BY DEF IsValue, Pending
<1> QED
  BY <1>1, OutcomesAnswer, Zenon DEF Recovered

(* Every operator ends with an outcome, whatever its operands are. *)
LEMMA ApplyAnswers ==
  ASSUME NEW symbol \in StageSymbols, NEW l, NEW r
  PROVE  Apply(symbol, l, r) # Pending
<1>1. CASE symbol \in ArithmeticSymbols
  <2>1. Apply(symbol, l, r) = Numeric(symbol, l, r)
    BY <1>1 DEF Apply, ArithmeticSymbols, OrderSymbols
  <2> QED
    BY <2>1, OutcomesAnswer DEF Numeric
<1>2. CASE symbol \in OrderSymbols
  <2>1. Apply(symbol, l, r) = orderStage(symbol, l, r)
    BY <1>2 DEF Apply, ArithmeticSymbols, OrderSymbols
  <2> QED
    BY <2>1, OutcomesAnswer DEF orderStage
<1>3. CASE symbol \in { "AND", "OR" }
  <2>1. \E decisive \in BOOLEAN : Apply(symbol, l, r) = logicalStage(decisive, l, r)
    BY <1>3 DEF Apply, ArithmeticSymbols, OrderSymbols
  <2> QED
    BY <2>1, OutcomesAnswer DEF logicalStage
<1>4. CASE symbol \in { "NEGATE", "BITWISE_NOT", "INVERT", "EQ", "NEQ" }
  BY <1>4, OutcomesAnswer DEF Apply, Prefixed, ArithmeticSymbols, OrderSymbols
<1>5. CASE symbol = "TERNARY_TRUE"
  <2>1. Apply(symbol, l, r) = ternaryIfStage(l, r)
    BY <1>5 DEF Apply, ArithmeticSymbols, OrderSymbols
  <2> QED
    BY <2>1, OutcomesAnswer DEF ternaryIfStage
<1>6. CASE symbol \in { "TERNARY_FALSE", "COALESCE" }
  <2>1. Apply(symbol, l, r) = ternaryElseStage(l, r)
    BY <1>6 DEF Apply, ArithmeticSymbols, OrderSymbols
  <2> QED
    BY <2>1, OutcomesAnswer DEF ternaryElseStage
<1>7. CASE symbol \in { "REQ", "NREQ" }
  <2>1. \E wanted \in BOOLEAN : Apply(symbol, l, r) = regexStage(wanted, l, r)
    BY <1>7 DEF Apply, ArithmeticSymbols, OrderSymbols
  <2> QED
    BY <2>1, OutcomesAnswer DEF regexStage
<1>8. CASE symbol = "IN"
  <2>1. Apply(symbol, l, r) = inStage(l, r)
    BY <1>8 DEF Apply, ArithmeticSymbols, OrderSymbols
  <2>2. membership(l, r[2]) # Pending
    BY OutcomesAnswer DEF membership
  <2> QED
    BY <2>1, <2>2, OutcomesAnswer DEF inStage
<1>9. CASE symbol = "PLUS"
  <2>1. Apply(symbol, l, r) = addStage(l, r)
    BY <1>9 DEF Apply, ArithmeticSymbols, OrderSymbols
  <2> QED
    BY <2>1, OutcomesAnswer DEF addStage, Numeric
<1>10. CASE symbol = "SEPARATE"
  <2>1. Apply(symbol, l, r) = separatorStage(l, r)
    BY <1>10 DEF Apply, ArithmeticSymbols, OrderSymbols
  <2> QED
    BY <2>1, OutcomesAnswer DEF separatorStage
<1>11. \/ symbol \in ArithmeticSymbols \/ symbol \in OrderSymbols
       \/ symbol \in { "AND", "OR" } \/ symbol \in { "NEGATE", "BITWISE_NOT", "INVERT", "EQ", "NEQ" }
       \/ symbol \in { "TERNARY_TRUE", "TERNARY_FALSE", "COALESCE" }
       \/ symbol \in { "REQ", "NREQ", "IN", "PLUS", "SEPARATE" }
  BY DEF StageSymbols, ArithmeticSymbols, OrderSymbols
<1> QED
  BY <1>1, <1>2, <1>3, <1>4, <1>5, <1>6, <1>7, <1>8, <1>9, <1>10, <1>11

(* So does the operator of every stage that asks for no parameter. *)
LEMMA OperatorsAnswer ==
  ASSUME NEW V, NEW n, Stage \in StageOf(n, V), Fits(Stage), ~AsksParameter, NEW l, NEW r
  PROVE  OperatorOutcome(l, r) # Pending
<1>1. OperatorFits(Stage.symbol, Stage.operator)
  BY DEF Fits
<1>2. CASE Stage.operator \in StageSymbols /\ Stage.symbol = Stage.operator
  <2>1. OperatorOutcome(l, r) = Apply(Stage.operator, l, r)
    BY <1>2 DEF OperatorOutcome, StageSymbols
  <2> QED
    BY <1>2, <2>1, ApplyAnswers
<1>3. CASE Stage.operator \in LiteralOperators /\ Stage.symbol = "LITERAL"
  BY <1>3, OutcomesAnswer DEF OperatorOutcome, LiteralOperators
<1>4. CASE Stage.operator \in UntypedOperators /\ Stage.symbol # "LITERAL"
  BY <1>4, OutcomesAnswer, RecoveredAnswers DEF OperatorOutcome, UntypedOperators, AsksParameter
<1> QED
  BY <1>1, <1>2, <1>3, <1>4 DEF OperatorFits

(* The child a call at pc evaluates. *)
ChildAt(stage, pc) == program[stage][IF pc = "left" THEN "leftStage" ELSE "rightStage"]

(* A call is at the child that the call around it waits for. *)
Linked(calls) ==
  \A f \in 1 .. Len(calls) : f > 1 =>
    calls[f].stage = ChildAt(calls[f - 1].stage, calls[f - 1].pc)

CallsIInv ==
  /\ EvaluationIInv /\ PassesIInv
  /\ ChecksTypes \in BOOLEAN
  /\ (answer = Pending) = (frames # << >>)
  /\ DOMAIN env \subseteq DOMAIN tokens /\ (compile # "done" => env = << >>)
  /\ Linked(frames)

(* Without the running call, or with another one at its stage, the calls are linked. *)
LEMMA LinkedPrefix ==
  ASSUME NEW S, NEW calls \in Seq(S), NEW to \in S, Linked(Append(calls, to))
  PROVE  /\ Linked(calls)
         /\ \A v \in S : v.stage = to.stage => Linked(Append(calls, v))
<1>1. PICK n : n = Len(calls)
  OBVIOUS
<1>2. n \in Nat /\ \A v \in S : /\ Len(Append(calls, v)) = n + 1 /\ Append(calls, v)[n + 1] = v
                               /\ \A f \in 1 .. n : Append(calls, v)[f] = calls[f]
  BY <1>1
<1>3. \A f \in 1 .. n : f > 1 => calls[f].stage = ChildAt(calls[f - 1].stage, calls[f - 1].pc)
  <2> SUFFICES ASSUME NEW f \in 1 .. n, f > 1
               PROVE  calls[f].stage = ChildAt(calls[f - 1].stage, calls[f - 1].pc)
    OBVIOUS
  <2>1. f - 1 \in 1 .. n /\ f \in 1 .. n + 1
    BY <1>2
  <2> QED
    BY <1>2, <2>1 DEF Linked
<1>4. n # 0 => to.stage = ChildAt(calls[n].stage, calls[n].pc)
  <2> SUFFICES ASSUME n # 0 PROVE to.stage = ChildAt(calls[n].stage, calls[n].pc)
    OBVIOUS
  <2>1. n \in 1 .. n /\ n + 1 \in 1 .. n + 1 /\ n + 1 > 1 /\ n + 1 - 1 = n
    BY <1>2
  <2> QED
    BY <1>2, <2>1 DEF Linked
<1>5. ASSUME NEW v \in S, v.stage = to.stage
      PROVE  Linked(Append(calls, v))
  <2>1. PICK d : d = Append(calls, v)
    OBVIOUS
  <2>2. ASSUME NEW f \in 1 .. Len(d), f > 1
        PROVE  d[f].stage = ChildAt(d[f - 1].stage, d[f - 1].pc)
    <3>1. f - 1 \in 1 .. n
      BY <1>2, <2>1, <2>2
    <3>2. CASE f = n + 1
      BY <1>2, <1>4, <1>5, <2>1, <3>1, <3>2
    <3>3. CASE f \in 1 .. n
      <4>1. d[f] = calls[f] /\ d[f - 1] = calls[f - 1]
        BY <1>2, <2>1, <3>1, <3>3
      <4> QED
        BY <1>3, <2>2, <3>3, <4>1
    <3>4. f = n + 1 \/ f \in 1 .. n
      <4>1. Len(d) = n + 1
        BY <1>2, <2>1
      <4> QED
        BY <1>2, <2>2, <4>1
    <3> QED
      BY <3>2, <3>3, <3>4
  <2> QED
    BY <2>1, <2>2 DEF Linked
<1> QED
  BY <1>1, <1>3, <1>5 DEF Linked

(* A call at the child that the running one waits for may go on top. *)
LEMMA LinkedChild ==
  ASSUME NEW S, NEW calls \in Seq(S), NEW self \in S, NEW to \in S, Linked(Append(calls, self)),
         to.stage = ChildAt(self.stage, self.pc)
  PROVE  Linked(Append(Append(calls, self), to))
<1>1. PICK c, n : c = Append(calls, self) /\ n = Len(calls) + 1
  OBVIOUS
<1>2. c \in Seq(S) /\ Len(c) = n /\ n \in Nat \ {0} /\ c[n] = self
  BY <1>1
<1>3. PICK d : d = Append(c, to)
  OBVIOUS
<1>4. Len(d) = n + 1 /\ d[n + 1] = to /\ \A f \in 1 .. n : d[f] = c[f]
  BY <1>2, <1>3
<1>5. ASSUME NEW f \in 1 .. n + 1, f > 1
      PROVE  d[f].stage = ChildAt(d[f - 1].stage, d[f - 1].pc)
  <2>1. f - 1 \in 1 .. n
    BY <1>2, <1>5
  <2>2. CASE f = n + 1
    <3>1. f - 1 = n
      BY <1>2, <2>2
    <3> QED
      BY <1>2, <1>4, <2>1, <2>2, <3>1
  <2>3. CASE f \in 1 .. n
    BY <1>1, <1>2, <1>4, <1>5, <2>1, <2>3 DEF Linked
  <2> QED
    BY <1>2, <2>2, <2>3
<1> QED
  BY <1>1, <1>3, <1>4, <1>5 DEF Linked

(* A compiled expression is not compiled again. *)
LEMMA CompileEnds ==
  ASSUME PassesIInv, CompileNext
  PROVE  compile # "done"
<1>1. CASE PlanNext
  BY <1>1, PlannerEnds DEF PassesIInv, HeldIInv
<1>2. CASE CompileStep
  BY <1>2 DEF CompileStep, StartReorder, WalkRight, PassTernary, ExtendRun, BreakRun, AtCurrent,
              LeaveWalk, StartElide, ElideChild, ElideStage, At2, Compiled
<1> QED
  BY <1>1, <1>2 DEF CompileNext

(* The steps that are not of the evaluation. *)
LEMMA PassesKept ==
  ASSUME PassesIInv, UNCHANGED compileAllVars
  PROVE  PassesIInv' /\ program' = program /\ tokens' = tokens /\ compile' = compile
<1>1. PassesIInv'
  BY PassesStep
<1> QED
  BY <1>1 DEF compileAllVars, compileVars, allVars, checkVars

(* The stack is the running call and the calls around it. *)
LEMMA CallsSplit ==
  ASSUME CallsIInv, NEW pc, Running(pc)
  PROVE  \E V : /\ frames \in Seq(Calls(Len(program), V))
                /\ Outer \in Seq(Calls(Len(program), V)) /\ Current \in Calls(Len(program), V)
                /\ frames = Append(Outer, Current)
<1>1. frames # << >>
  BY DEF Running
<1>2. PICK V : frames \in Seq(Calls(Len(program), V))
  BY DEF CallsIInv, EvaluationIInv
<1>3. PICK S : S = Calls(Len(program), V)
  OBVIOUS
<1>4. frames \in Seq(S)
  BY <1>2, <1>3
<1>5. Outer \in Seq(S) /\ Current \in S /\ frames = Append(Outer, Current)
  BY <1>1, <1>4, StackSplits DEF Outer, Current
<1> QED
  BY <1>2, <1>3, <1>5

(* A call ends: the one around it goes on, or Eval answers. *)
LEMMA ReturnCalls ==
  ASSUME CallsIInv, EvaluationIInv', NEW pc, Running(pc), UNCHANGED compileAllVars,
         ChecksTypes' = ChecksTypes, DOMAIN env' \subseteq DOMAIN tokens,
         NEW outcome, outcome # Pending, ReturnOutcome(outcome)
  PROVE  CallsIInv'
<1>1. PICK V : /\ frames \in Seq(Calls(Len(program), V))
               /\ Outer \in Seq(Calls(Len(program), V)) /\ Current \in Calls(Len(program), V)
               /\ frames = Append(Outer, Current)
  BY CallsSplit
<1>2. PICK S, outer, current : S = Calls(Len(program), V) /\ outer = Outer /\ current = Current
  OBVIOUS
<1>3. outer \in Seq(S) /\ current \in S /\ frames = Append(outer, current)
  BY <1>1, <1>2
<1>4. Linked(outer)
  BY <1>3, LinkedPrefix DEF CallsIInv
<1>5. Len(frames) = Len(outer) + 1 /\ Len(outer) \in Nat
  BY <1>3
<1>6. PassesIInv' /\ program' = program /\ tokens' = tokens /\ compile' = compile
  BY PassesKept DEF CallsIInv
<1>7. compile = "done"
  BY CallFacts DEF CallsIInv
<1>8. CASE IsValue(outcome) /\ Len(frames) > 1
  <2>1. frames' = outer /\ answer' = answer /\ answer = Pending
    BY <1>2, <1>8 DEF ReturnOutcome, Running
  <2>2. outer # << >>
    BY <1>3, <1>5, <1>8
  <2> QED
    BY <1>4, <1>6, <1>7, <2>1, <2>2 DEF CallsIInv, Linked, ChildAt
<1>9. CASE ~(IsValue(outcome) /\ Len(frames) > 1)
  <2>1. frames' = << >> /\ answer' # Pending
    BY <1>9 DEF ReturnOutcome
  <2>2. \A f \in 1 .. Len(<< >>) : FALSE
    OBVIOUS
  <2> QED
    BY <1>6, <1>7, <2>1, <2>2 DEF CallsIInv, Linked
<1> QED
  BY <1>8, <1>9

(* A call turns to one of its children, or to its operator where it has none. *)
LEMMA ChildCalls ==
  ASSUME CallsIInv, EvaluationIInv', NEW pc, Running(pc), UNCHANGED <<compileAllVars, env>>,
         ChecksTypes' = ChecksTypes, answer' = answer,
         NEW to \in { "left", "right" }, NEW left, NEW self,
         self = [Current EXCEPT !.pc = to, !.left = left],
         \/ frames' = Set(self)
         \/ frames' = Append(Set(self), Enter(ChildAt(Current.stage, to)))
  PROVE  CallsIInv'
<1>1. PICK V : /\ frames \in Seq(Calls(Len(program), V))
               /\ Outer \in Seq(Calls(Len(program), V)) /\ Current \in Calls(Len(program), V)
               /\ frames = Append(Outer, Current)
  BY CallsSplit
<1>2. PICK outer, current, child :
        /\ outer = Outer /\ current = Current
        /\ child = Enter(ChildAt(Current.stage, to))
  OBVIOUS
<1>3. self.stage = current.stage /\ self.pc = to
  BY <1>1, <1>2 DEF Calls
<1>4. child.stage = ChildAt(self.stage, self.pc)
  BY <1>2, <1>3 DEF Enter
<1>5. PICK S, T : T = Calls(Len(program), V) /\ S = T \cup { self, child }
  OBVIOUS
<1>6. outer \in Seq(S) /\ current \in S /\ self \in S /\ child \in S /\ frames = Append(outer, current)
  <2>1. outer \in Seq(T) /\ current \in T /\ frames = Append(outer, current)
    BY <1>1, <1>2, <1>5
  <2>2. T \subseteq S /\ self \in S /\ child \in S
    BY <1>5
  <2>3. outer \in Seq(S)
    BY <2>1, <2>2, SeqMonotonic
  <2> QED
    BY <2>1, <2>2, <2>3
<1>7. Linked(Append(outer, self))
  <2>1. Linked(Append(outer, current))
    BY <1>6 DEF CallsIInv
  <2> QED
    <3>1. outer \in Seq(S) /\ current \in S
      BY <1>6
    <3>2. \A v \in S : v.stage = current.stage => Linked(Append(outer, v))
      BY <2>1, <3>1, LinkedPrefix
    <3> QED
      BY <1>3, <1>6, <3>2
<1>8. Linked(Append(Append(outer, self), child))
  BY <1>4, <1>6, <1>7, LinkedChild
<1>9. frames' = Append(outer, self) \/ frames' = Append(Append(outer, self), child)
  BY <1>2 DEF Set
<1>10. frames' # << >> /\ Linked(frames')
  <2>1. Append(outer, self) # << >> /\ Append(Append(outer, self), child) # << >>
    BY <1>6
  <2> QED
    BY <1>7, <1>8, <1>9, <2>1
<1>11. PassesIInv' /\ program' = program /\ tokens' = tokens /\ compile' = compile
  BY PassesKept DEF CallsIInv
<1>12. answer = Pending
  BY DEF Running
<1> QED
  BY <1>10, <1>11, <1>12 DEF CallsIInv, Linked, ChildAt

(* Every step of an evaluation keeps the calls linked. *)
LEMMA EvaluationStepCalls ==
  ASSUME CallsIInv, EvaluationIInv', EvaluationStep, UNCHANGED compileAllVars
  PROVE  CallsIInv'
<1>1. PassesIInv' /\ program' = program /\ tokens' = tokens /\ compile' = compile
  BY PassesKept DEF CallsIInv
<1>2. CASE Eval
  <2>1. frames' = <<Enter(root)>> /\ answer' = Pending /\ ChecksTypes' \in BOOLEAN /\ env' = env
    BY <1>2 DEF Eval
  <2>2. Len(frames') = 1 /\ frames' # << >>
    BY <2>1
  <2> QED
    BY <1>1, <1>2, <2>1, <2>2 DEF CallsIInv, Linked, Eval
<1>3. CASE EvaluateLeft
  <2>1. /\ Running("start") /\ UNCHANGED <<ChecksTypes, env, answer>>
        /\ EvaluateChild(Stage.leftStage, [Current EXCEPT !.pc = "left"])
    BY <1>3 DEF EvaluateLeft
  <2>2. PICK self : self = [Current EXCEPT !.pc = "left", !.left = Current.left]
    OBVIOUS
  <2>3. self = [Current EXCEPT !.pc = "left"]
    <3>1. \E V : Current \in Calls(Len(program), V)
      BY <2>1, CallFacts DEF CallsIInv
    <3> QED
      BY <2>2, <3>1 DEF Calls
  <2>4. \/ frames' = Set(self)
        \/ frames' = Append(Set(self), Enter(ChildAt(Current.stage, "left")))
    BY <2>1, <2>3 DEF EvaluateChild, ChildAt, Stage
  <2> QED
    BY <2>1, <2>2, <2>4, ChildCalls
<1>4. CASE ShortCircuit
  <2>1. /\ Running("left") /\ ReturnOutcome(Value(value)) /\ UNCHANGED <<ChecksTypes, env>>
    BY <1>4 DEF ShortCircuit
  <2> QED
    BY <2>1, OutcomesAnswer, ReturnCalls DEF CallsIInv
<1>5. CASE SkipRight \/ EvaluateRight
  <2>1. PICK self : self = [Current EXCEPT !.pc = "right", !.left = value]
    OBVIOUS
  <2>2. Running("left") /\ UNCHANGED <<ChecksTypes, env, answer>>
    BY <1>5 DEF SkipRight, EvaluateRight
  <2>3. \/ frames' = Set(self)
        \/ frames' = Append(Set(self), Enter(ChildAt(Current.stage, "right")))
    BY <1>5, <2>1 DEF SkipRight, EvaluateRight, EvaluateChild, ChildAt, Stage
  <2>4. PICK left : left = value
    OBVIOUS
  <2> QED
    BY <2>1, <2>2, <2>3, <2>4, ChildCalls
<1>6. CASE ApplyOperator
  <2>1. PICK outcome : outcome = IF ChecksTypes /\ ~TypeChecked(Stage.checks, Current.left, value)
                                   THEN Error ELSE OperatorOutcome(Current.left, value)
    OBVIOUS
  <2>2. /\ Running("right") /\ ~AsksParameter /\ UNCHANGED <<ChecksTypes, env>>
        /\ ReturnOutcome(outcome)
    BY <1>6, <2>1 DEF ApplyOperator
  <2>3. OperatorOutcome(Current.left, value) # Pending
    BY <2>2, CallFacts, OperatorsAnswer DEF CallsIInv
  <2>4. outcome # Pending
    BY <2>1, <2>3, OutcomesAnswer
  <2> QED
    BY <2>2, <2>4, ReturnCalls DEF CallsIInv
<1>7. CASE AskParameter
  <2>1. PICK got \in Gets :
          /\ env' = [at \in DOMAIN env \cup { Stage.at } |-> IF at = Stage.at THEN got ELSE env[at]]
          /\ ReturnOutcome(IF IsValue(got) /\ Stage.operator = "ACCESS"
                             THEN Recovered(Access(got[2], AccessorArgs(value)))
                             ELSE got)
    BY <1>7 DEF AskParameter
  <2>2. PICK outcome : outcome = IF IsValue(got) /\ Stage.operator = "ACCESS"
                                   THEN Recovered(Access(got[2], AccessorArgs(value)))
                                   ELSE got
    OBVIOUS
  <2>3. Running("right") /\ ChecksTypes' = ChecksTypes /\ ReturnOutcome(outcome)
    BY <1>7, <2>1, <2>2 DEF AskParameter
  <2>4. got # Pending
    BY OutcomesAnswer DEF Gets
  <2>5. outcome # Pending
    BY <2>2, <2>4, RecoveredAnswers
  <2>6. Stage.at \in DOMAIN tokens
    <3>1. Current.stage \in 1 .. Len(program) /\ compile = "done"
      BY <2>3, CallFacts DEF CallsIInv
    <3>2. Stage.at \in 1 .. Len(tokens)
      BY <3>1 DEF CallsIInv, PassesIInv, Stage
    <3>3. tokens \in Seq(ExpressionToken)
      BY DEF CallsIInv, EvaluationIInv, PlanIInv, CheckIInv, CheckTypeOK
    <3> QED
      BY <3>2, <3>3
  <2>7. DOMAIN env' \subseteq DOMAIN tokens
    BY <2>1, <2>6 DEF CallsIInv
  <2> QED
    BY <2>3, <2>5, <2>7, ReturnCalls
<1> QED
  BY <1>2, <1>3, <1>4, <1>5, <1>6, <1>7 DEF EvaluationStep

LEMMA CallsInit == EvaluationInit => CallsIInv
<1> SUFFICES ASSUME EvaluationInit PROVE CallsIInv
  OBVIOUS
<1>1. EvaluationIInv /\ PassesIInv
  BY EvaluationInitIInv, PassesInit DEF EvaluationInit
<1>2. frames = << >> /\ answer # Pending /\ ChecksTypes = TRUE /\ env = << >>
  BY DEF EvaluationInit, Idle, Pending
<1>3. DOMAIN env = { } /\ Len(frames) = 0
  BY <1>2
<1> QED
  BY <1>1, <1>2, <1>3 DEF CallsIInv, Linked

LEMMA CallsStep ==
  CallsIInv /\ [EvaluationNext \/ EvaluationReturned]_evaluationAllVars => CallsIInv'
<1> SUFFICES ASSUME CallsIInv, [EvaluationNext \/ EvaluationReturned]_evaluationAllVars
             PROVE  CallsIInv'
  OBVIOUS
<1>1. EvaluationIInv'
  BY EvaluationStepIInv DEF CallsIInv
<1>2. CASE EvaluationStep /\ UNCHANGED compileAllVars
  BY <1>1, <1>2, EvaluationStepCalls
<1>3. CASE CompileNext /\ UNCHANGED evaluationVars
  <2>1. PassesIInv'
    BY <1>3, PassesStep DEF CallsIInv
  <2>2. UNCHANGED <<ChecksTypes, frames, env, answer>>
    BY <1>3 DEF evaluationVars
  <2>3. compile # "done"
    BY <1>3, CompileEnds DEF CallsIInv
  <2>4. frames = << >> /\ env = << >> /\ DOMAIN env = { }
    BY <2>3 DEF CallsIInv, EvaluationIInv
  <2>5. Linked(frames)'
    BY <2>2, <2>4 DEF Linked
  <2> QED
    BY <1>1, <2>1, <2>2, <2>3, <2>5 DEF CallsIInv
<1>4. CASE UNCHANGED evaluationAllVars
  <2>1. PassesIInv' /\ program' = program /\ tokens' = tokens /\ compile' = compile
    BY <1>4, PassesKept DEF CallsIInv, evaluationAllVars
  <2>2. UNCHANGED <<ChecksTypes, frames, env, answer>>
    BY <1>4 DEF evaluationAllVars, evaluationVars
  <2> QED
    BY <1>1, <2>1, <2>2 DEF CallsIInv, Linked, ChildAt
<1> QED
  BY <1>2, <1>3, <1>4 DEF EvaluationNext, EvaluationReturned

(* Calls are in progress exactly while Eval has not answered, each at the    *)
(* child that the call around it waits for, and every parameter that is      *)
(* remembered is one that a token of the expression asked for.               *)
THEOREM EvaluationTypeCorrect == EvaluationSpec => []EvaluationTypeOK
<1>1. CallsIInv => EvaluationTypeOK
  <2> SUFFICES ASSUME CallsIInv PROVE EvaluationTypeOK
    OBVIOUS
  <2>1. ASSUME NEW f \in DOMAIN frames
        PROVE  /\ frames[f].stage \in Places
               /\ frames[f].pc \in { "start", "left", "right" }
               /\ f > 1 =>
                    frames[f].stage = program[frames[f - 1].stage][
                      IF frames[f - 1].pc = "left" THEN "leftStage" ELSE "rightStage"]
    <3>1. PICK V : frames \in Seq(Calls(Len(program), V))
      BY DEF CallsIInv, EvaluationIInv
    <3>2. f \in 1 .. Len(frames) /\ frames[f] \in Calls(Len(program), V)
      BY <3>1
    <3>3. frames[f].stage \in 1 .. Len(program) /\ frames[f].pc \in { "start", "left", "right" }
      BY <3>2 DEF Calls
    <3>4. Places = 1 .. Len(program)
      <4>1. frames # << >>
        BY <3>2
      <4>2. compile # "idle"
        BY <4>1 DEF CallsIInv, EvaluationIInv
      <4> QED
        BY <4>2 DEF CallsIInv, EvaluationIInv, CompileIInv, ProgramOK, Places
    <3> QED
      BY <3>2, <3>3, <3>4 DEF CallsIInv, Linked, ChildAt
  <2> QED
    BY <2>1 DEF CallsIInv, EvaluationTypeOK
<1> QED
  BY <1>1, CallsInit, CallsStep, PTL DEF EvaluationSpec

=============================================================================
