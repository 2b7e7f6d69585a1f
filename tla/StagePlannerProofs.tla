------------------------- MODULE StagePlannerProofs -------------------------
(***************************************************************************)
(* Proofs about StagePlanner for every list of tokens.  The inductive      *)
(* invariant relates the stack of planner functions to the tokens they     *)
(* have read; it rests on what SyntaxCheckProofs shows about a list that   *)
(* is accepted.                                                            *)
(***************************************************************************)
EXTENDS StagePlanner, SyntaxCheckProofs, SequenceTheorems

(* The type of a frame and of a stage. *)
Pcs == { "start", "left", "right", "coalesce", "true", "false", "call", "args", "access", "clause" }
PlannerFrame == [fn : PlannerFns, pc : Pcs, left : Nat, at : Nat, depth : Nat]

AllSymbols == StageSymbols \cup { "LITERAL", "VALUE", "NOOP", "FUNCTIONAL", "ACCESS" }
Operators ==
  AllSymbols \cup { "parameter", "constant", "collectedArgs", "emptySlice",
                    "noopStageRight", "ensureSlice", "ensureCollectedArgs" }
StageRecord ==
  [symbol : AllSymbols, operator : Operators, leftStage : Nat, rightStage : Nat, at : Nat]

(* A frame of a planner that has read n tokens of t and made m stages. *)
FrameOK(t, frame, n, m) ==
  /\ frame \in PlannerFrame
  /\ frame.left <= m /\ frame.at <= n
  /\ frame.pc \notin { "start", "left" } => frame.at >= 1
  /\ frame.pc = "args" => frame.at < n
  /\ frame.pc = "right" => /\ frame.fn \in Levels
                           /\ t[frame.at].value \in DOMAIN precedencePlanner[frame.fn].validSymbols
  /\ frame.pc = "call" => t[frame.at].kind = "FUNCTION"

(* A frame knows how many clauses are open around it. *)
DepthLink(s, f) == s[f].depth = IF f = 1 THEN 0 ELSE DepthOf(s[f - 1])

(* A caller has started, and a function call waits for the clause right      *)
(* after the name: one about to be read at n, or one being planned.          *)
AwaitedSoon(caller, frame, n) ==
  frame.pc = "start" /\ frame.fn \in { "planAccessor", "planValue" } /\ n = caller.at
AwaitedNow(caller, frame) ==
  frame.pc = "clause" /\ frame.at = caller.at + 1
CallerOK(caller, frame, n) ==
  /\ caller.pc # "start"
  /\ caller.pc = "call" => AwaitedSoon(caller, frame, n) \/ AwaitedNow(caller, frame)

StackInv(t, s, n, m) ==
  /\ s \in Seq(PlannerFrame)
  /\ \A f \in 1 .. Len(s) :
       /\ FrameOK(t, s[f], n, m)
       /\ DepthLink(s, f)
       /\ f > 1 => CallerOK(s[f - 1], s[f], n)

(* The operator of a stage is that of its symbol, or one that cannot fail by *)
(* type: a literal's, a packer, or one that leaves the library.              *)
LiteralOperators == { "constant", "emptySlice", "collectedArgs" }
UntypedOperators ==
  { "parameter", "noopStageRight", "ensureSlice", "ensureCollectedArgs", "FUNCTIONAL", "ACCESS" }
OperatorFits(symbol, operator) ==
  \/ operator \in StageSymbols /\ symbol = operator
  \/ operator \in LiteralOperators /\ symbol = "LITERAL"
  \/ operator \in UntypedOperators /\ symbol # "LITERAL"

(* Stage record r may be put after m stages of s. *)
StageOK(t, s, r, m) ==
  /\ r \in StageRecord
  /\ r.leftStage <= m /\ r.rightStage <= m
  /\ r.at \in 1 .. Len(t)
  /\ OperatorFits(r.symbol, r.operator)
  /\ r.symbol = "FUNCTIONAL" => r.rightStage # 0 /\ s[r.rightStage].operator = "ensureCollectedArgs"
  /\ r.symbol \in { "LITERAL", "VALUE" } => r.leftStage = 0 /\ r.rightStage = 0
  /\ r.operator = "parameter" => r.symbol = "VALUE"

StagesInv(t, s) ==
  /\ s \in Seq(StageRecord)
  /\ \A k \in 1 .. Len(s) : StageOK(t, s, s[k], k - 1)

(* How many clauses are open where the planner is reading. *)
Depth(s) == IF s = << >> THEN 0 ELSE DepthOf(s[Len(s)])

(* A function that was just called has a token to read. *)
TokenInReach(s, n, l) == s # << >> /\ s[Len(s)].pc = "start" => n < l

(* What a clause awaited by a function call returns is an argument list. *)
ReturnsArguments(s, g, r) ==
  s # << >> /\ s[Len(s)].pc = "call" => r # 0 /\ g[r].operator = "ensureCollectedArgs"

PlanIInv ==
  /\ CheckIInv
  /\ plan \in { "idle", "running", "planned", "rejected", "panic" }
  /\ plan = "idle" => stack = << >> /\ stages = << >> /\ ret = 0 /\ misclosed = 0
  /\ plan # "idle" => phase = "accepted"
  /\ plan = "idle" /\ phase = "accepted" => index = 0
  /\ plan = "planned" => ret # 0
  /\ misclosed \in Nat
  /\ ret \in 0 .. Len(stages)
  /\ StagesInv(tokens, stages)
  /\ StackInv(tokens, stack, index, Len(stages))
  /\ plan = "running" =>
       /\ TokenInReach(stack, index, Len(tokens))
       /\ ReturnsArguments(stack, stages, ret)
       /\ Open(given, index) >= Depth(stack) + misclosed
  /\ NoPanic /\ ClausesMatched

-----------------------------------------------------------------------------
(* The tables of the planner *)

Sound(symbols) == \A v \in DOMAIN symbols : symbols[v] \in StageSymbols

LEMMA TableSound ==
  ASSUME NEW pairs, \A p \in pairs : p[2] \in StageSymbols
  PROVE  Sound(Table(pairs))
BY DEF Sound, Table

LEMMA SingleSound ==
  ASSUME NEW v, NEW symbol \in StageSymbols
  PROVE  Sound(Table({ <<v, symbol>> }))
BY TableSound

LEMMA SymbolFacts ==
  ASSUME NEW symbol \in StageSymbols
  PROVE  /\ symbol \in AllSymbols /\ symbol \in Operators
         /\ symbol \notin { "FUNCTIONAL", "LITERAL", "VALUE", "parameter" }
<1>1. symbol \notin { "FUNCTIONAL", "LITERAL", "VALUE", "parameter" }
  BY DEF StageSymbols
<1> QED
  BY <1>1 DEF AllSymbols, Operators

(* Every symbol a level can plan has an evaluation operator. *)
LEMMA LevelSymbols ==
  ASSUME NEW fn \in Levels
  PROVE  Sound(precedencePlanner[fn].validSymbols)
<1>1. Sound(separatorSymbols)
  BY SingleSound, Zenon DEF separatorSymbols, StageSymbols
<1>2. Sound(comparatorSymbols)
  BY TableSound DEF comparatorSymbols, StageSymbols
<1>3. Sound(bitwiseOrSymbols) /\ Sound(bitwiseXorSymbols) /\ Sound(bitwiseAndSymbols)
  BY TableSound DEF bitwiseOrSymbols, bitwiseXorSymbols, bitwiseAndSymbols, StageSymbols
<1>4. Sound(bitwiseShiftSymbols) /\ Sound(additiveSymbols) /\ Sound(multiplicativeSymbols)
  BY TableSound DEF bitwiseShiftSymbols, additiveSymbols, multiplicativeSymbols, StageSymbols
<1>5. Sound(exponentialSymbolsS) /\ Sound(prefixSymbols)
  BY TableSound DEF exponentialSymbolsS, prefixSymbols, StageSymbols
<1>6. Sound(Table({ <<"||", "OR">> })) /\ Sound(Table({ <<"&&", "AND">> }))
  BY SingleSound DEF StageSymbols
<1> QED
  BY <1>1, <1>2, <1>3, <1>4, <1>5, <1>6 DEF Levels, precedencePlanner, Planner

(* A level reads operators only, which never end an expression, and hands on *)
(* to planner functions.                                                     *)
LEMMA LevelTable ==
  ASSUME NEW fn \in Levels
  PROVE  /\ precedencePlanner[fn].validKind \notin EOFKinds \cup { "CLAUSE", "FUNCTION" }
         /\ precedencePlanner[fn].next # "none" => precedencePlanner[fn].next \in PlannerFns
         /\ precedencePlanner[fn].nextRight \in PlannerFns
BY DEF Levels, precedencePlanner, Planner, PlannerFns, TernaryFns, EOFKinds

-----------------------------------------------------------------------------
(* What an accepted list is like *)

LEMMA AcceptedTokens ==
  ASSUME CheckIInv, phase = "accepted"
  PROVE  /\ tokens \in Seq(ExpressionToken) /\ Len(tokens) = Len(given) /\ Len(tokens) \in Nat \ {0}
         /\ index \in 0 .. Len(tokens)
         /\ \A k \in 1 .. Len(tokens) : tokens[k].kind \notin EOFKinds => k < Len(tokens)
         /\ \A k \in 1 .. Len(tokens) :
              tokens[k].kind = "FUNCTION" => k < Len(tokens) /\ tokens[k + 1].kind = "CLAUSE"
         /\ Open(given, Len(given)) = 0
         /\ \A n \in 0 .. Len(tokens) - 1 :
              /\ Open(given, n) \in Int
              /\ Open(given, n + 1) = Open(given, n) + Balance(tokens[n + 1].kind)
<1>1. /\ tokens \in Seq(ExpressionToken) /\ given \in Seq(ExpressionToken)
      /\ Len(tokens) = Len(given) /\ index \in 0 .. Len(tokens)
  BY DEF CheckIInv, CheckTypeOK
<1>2. Chained(given) /\ Balanced(given)
  BY DEF CheckIInv, AcceptedWellFormed, WellFormed
<1>3. Len(tokens) \in Nat \ {0}
  BY <1>1, <1>2 DEF Chained
<1>4. ASSUME NEW k \in 1 .. Len(tokens)
      PROVE  \/ tokens[k] = given[k]
             \/ given[k].kind = "STRING" /\ tokens[k].kind = "PATTERN"
  BY <1>1 DEF CheckIInv, PatternsPrecompiled, Precompile
<1>5. ASSUME NEW k \in 1 .. Len(tokens), tokens[k].kind \notin EOFKinds
      PROVE  k < Len(tokens)
  <2>1. given[k].kind \notin EOFKinds
    BY <1>4, <1>5 DEF EOFKinds
  <2> QED
    BY <1>1, <1>2, <2>1 DEF Chained
<1>6. ASSUME NEW k \in 1 .. Len(tokens), tokens[k].kind = "FUNCTION"
      PROVE  k < Len(tokens) /\ tokens[k + 1].kind = "CLAUSE"
  <2>1. k < Len(tokens)
    BY <1>5, <1>6 DEF EOFKinds
  <2>2. given[k].kind = "FUNCTION"
    BY <1>4, <1>6
  <2>3. given[k + 1].kind = "CLAUSE"
    BY <1>1, <1>2, <2>1, <2>2 DEF Chained, canTransitionTo, validNextKinds
  <2> QED
    BY <1>1, <1>4, <2>1, <2>3
<1>7. ASSUME NEW n \in 0 .. Len(tokens) - 1
      PROVE  /\ Open(given, n) \in Int
             /\ Open(given, n + 1) = Open(given, n) + Balance(tokens[n + 1].kind)
  <2>1. Balance(tokens[n + 1].kind) = Balance(given[n + 1].kind)
    BY <1>1, <1>3, <1>4 DEF Balance
  <2> QED
    BY <1>1, <1>3, <1>7, <2>1, OpenStep
<1> QED
  BY <1>1, <1>2, <1>3, <1>5, <1>6, <1>7 DEF Balanced

-----------------------------------------------------------------------------
(* Pushing, popping and replacing frames *)

LEMMA FrameGrows ==
  ASSUME NEW t, NEW frame, NEW n \in Nat, NEW m \in Nat, NEW n2 \in Nat, NEW m2 \in Nat,
         n <= n2, m <= m2, FrameOK(t, frame, n, m)
  PROVE  FrameOK(t, frame, n2, m2)
BY DEF FrameOK, PlannerFrame

LEMMA PopKeeps ==
  ASSUME NEW t, NEW s, NEW n \in Nat, NEW m \in Nat, NEW n2 \in Nat, NEW m2 \in Nat,
         n <= n2, m <= m2, StackInv(t, s, n, m), s # << >>
  PROVE  /\ SubSeq(s, 1, Len(s) - 1) \in Seq(PlannerFrame)
         /\ Len(SubSeq(s, 1, Len(s) - 1)) = Len(s) - 1
         /\ \A f \in 1 .. Len(s) - 1 : SubSeq(s, 1, Len(s) - 1)[f] = s[f]
         /\ StackInv(t, SubSeq(s, 1, Len(s) - 1), n2, m2)
<1> DEFINE p == SubSeq(s, 1, Len(s) - 1)
<1>1. s \in Seq(PlannerFrame) /\ Len(s) \in Nat /\ Len(s) > 0
  BY DEF StackInv
<1>2. p \in Seq(PlannerFrame) /\ Len(p) = Len(s) - 1 /\ \A f \in 1 .. Len(s) - 1 : p[f] = s[f]
  <2> DEFINE l == Len(s) - 1
  <2>1. l \in Nat /\ \A f \in 1 .. l : s[f] \in PlannerFrame
    BY <1>1
  <2> HIDE DEF l
  <2>2. /\ SubSeq(s, 1, l) \in Seq(PlannerFrame)
        /\ Len(SubSeq(s, 1, l)) = IF 1 <= l THEN l - 1 + 1 ELSE 0
        /\ \A f \in 1 .. l - 1 + 1 : SubSeq(s, 1, l)[f] = s[1 + f - 1]
    BY <2>1, SubSeqProperties
  <2>3. Len(SubSeq(s, 1, l)) = l /\ \A f \in 1 .. l : SubSeq(s, 1, l)[f] = s[f]
    BY <2>1, <2>2
  <2> QED
    BY <2>2, <2>3 DEF l
<1>3. ASSUME NEW f \in 1 .. Len(p)
      PROVE  /\ FrameOK(t, p[f], n2, m2)
             /\ DepthLink(p, f)
             /\ f > 1 => CallerOK(p[f - 1], p[f], n2)
  <2>1. /\ f \in 1 .. Len(s) /\ f # Len(s) /\ p[f] = s[f] /\ (f > 1 => p[f - 1] = s[f - 1])
        /\ p[f] \in PlannerFrame /\ (f > 1 => p[f - 1] \in PlannerFrame)
    BY <1>1, <1>2
  <2>2. FrameOK(t, p[f], n2, m2)
    BY <1>1, <2>1, FrameGrows DEF StackInv
  <2>3. DepthLink(p, f)
    BY <1>1, <2>1 DEF StackInv, DepthLink
  <2>4. f > 1 => CallerOK(p[f - 1], p[f], n2)
    <3>1. f + 1 \in 1 .. Len(s) /\ (f + 1) - 1 = f
      BY <1>1, <2>1
    <3>2. p[f].pc # "start"
      BY <2>1, <3>1 DEF StackInv, CallerOK
    <3> QED
      BY <1>1, <2>1, <3>2 DEF StackInv, CallerOK, AwaitedSoon, AwaitedNow
  <2> QED
    BY <2>2, <2>3, <2>4
<1> HIDE DEF p
<1>4. StackInv(t, p, n2, m2)
  BY <1>2, <1>3 DEF StackInv
<1> QED
  BY <1>2, <1>4 DEF p

(* A frame may be put on a stack whose top frame is not waiting to start. *)
LEMMA PushKeeps ==
  ASSUME NEW t, NEW s, NEW n \in Nat, NEW m \in Nat, NEW n2 \in Nat, NEW m2 \in Nat,
         n <= n2, m <= m2, StackInv(t, s, n, m), NEW frame,
         FrameOK(t, frame, n2, m2), frame.depth = Depth(s),
         s # << >> => CallerOK(s[Len(s)], frame, n2) /\ s[Len(s)].pc # "start"
  PROVE  StackInv(t, Append(s, frame), n2, m2)
<1> DEFINE p == Append(s, frame)
<1>1. s \in Seq(PlannerFrame) /\ Len(s) \in Nat /\ frame \in PlannerFrame
  BY DEF StackInv, FrameOK
<1>2. /\ p \in Seq(PlannerFrame) /\ Len(p) = Len(s) + 1 /\ p[Len(s) + 1] = frame
      /\ \A f \in 1 .. Len(s) : p[f] = s[f]
  BY <1>1
<1>3. ASSUME NEW f \in 1 .. Len(p)
      PROVE  /\ FrameOK(t, p[f], n2, m2)
             /\ DepthLink(p, f)
             /\ f > 1 => CallerOK(p[f - 1], p[f], n2)
  <2>1. CASE f = Len(s) + 1
    <3>1. FrameOK(t, p[f], n2, m2)
      BY <1>2, <2>1
    <3>2. f > 1 => s # << >> /\ p[f - 1] = s[Len(s)]
      BY <1>1, <1>2, <2>1
    <3>3. f = 1 => s = << >>
      BY <1>1, <2>1
    <3>4. DepthLink(p, f)
      BY <1>1, <1>2, <2>1, <3>2, <3>3 DEF DepthLink, Depth
    <3>5. f > 1 => CallerOK(p[f - 1], p[f], n2)
      BY <1>1, <1>2, <2>1, <3>2
    <3> QED
      BY <3>1, <3>4, <3>5
  <2>2. CASE f # Len(s) + 1
    <3>1. f \in 1 .. Len(s) /\ p[f] = s[f] /\ (f > 1 => p[f - 1] = s[f - 1])
      BY <1>1, <1>2, <2>2
    <3>2. FrameOK(t, p[f], n2, m2)
      BY <3>1, FrameGrows DEF StackInv
    <3>3. DepthLink(p, f)
      BY <3>1 DEF StackInv, DepthLink
    <3>4. p[f].pc # "start"
      <4>1. CASE f = Len(s)
        BY <1>1, <3>1, <4>1
      <4>2. CASE f < Len(s)
        <5>1. f + 1 \in 1 .. Len(s) /\ (f + 1) - 1 = f
          BY <1>1, <3>1, <4>2
        <5> QED
          BY <3>1, <5>1 DEF StackInv, CallerOK
      <4> QED
        BY <1>1, <3>1, <4>1, <4>2
    <3>5. f > 1 => CallerOK(p[f - 1], p[f], n2)
      BY <1>1, <3>1, <3>4 DEF StackInv, CallerOK, AwaitedSoon, AwaitedNow
    <3> QED
      BY <3>2, <3>3, <3>5
  <2> QED
    BY <2>1, <2>2
<1> HIDE DEF p
<1>4. StackInv(t, p, n2, m2)
  BY <1>2, <1>3 DEF StackInv
<1> QED
  BY <1>4 DEF p

-----------------------------------------------------------------------------
(* What may be said of the top frame, and of a step of the planner *)

LEMMA BuildKeeps ==
  ASSUME NEW t, NEW s, NEW r, StagesInv(t, s), StageOK(t, s, r, Len(s))
  PROVE  /\ StagesInv(t, Append(s, r))
         /\ Len(Append(s, r)) = Len(s) + 1
         /\ Append(s, r)[Len(s) + 1] = r
<1> DEFINE g == Append(s, r)
<1>1. s \in Seq(StageRecord) /\ r \in StageRecord /\ Len(s) \in Nat
  BY DEF StagesInv, StageOK
<1>2. /\ g \in Seq(StageRecord) /\ Len(g) = Len(s) + 1 /\ g[Len(s) + 1] = r
      /\ \A k \in 1 .. Len(s) : g[k] = s[k]
  BY <1>1
<1>3. ASSUME NEW q, NEW m \in 0 .. Len(s), StageOK(t, s, q, m)
      PROVE  StageOK(t, g, q, m)
  <2>1. q.rightStage \in Nat /\ q.rightStage <= m
    BY <1>3 DEF StageOK, StageRecord
  <2>2. q.rightStage # 0 => g[q.rightStage] = s[q.rightStage]
    BY <1>1, <1>2, <2>1
  <2> HIDE DEF g
  <2> QED
    BY <1>3, <2>2 DEF StageOK
<1>4. ASSUME NEW k \in 1 .. Len(g)
      PROVE  StageOK(t, g, g[k], k - 1)
  <2>1. CASE k = Len(s) + 1
    <3>1. StageOK(t, g, r, Len(s))
      BY <1>1, <1>3
    <3> QED
      BY <1>1, <1>2, <2>1, <3>1
  <2>2. CASE k # Len(s) + 1
    <3>1. k \in 1 .. Len(s) /\ g[k] = s[k] /\ k - 1 \in 0 .. Len(s)
      BY <1>1, <1>2, <2>2
    <3>2. StageOK(t, s, s[k], k - 1)
      BY <3>1 DEF StagesInv
    <3> QED
      BY <1>3, <3>1, <3>2
  <2> QED
    BY <2>1, <2>2
<1> HIDE DEF g
<1>5. StagesInv(t, g)
  BY <1>2, <1>4 DEF StagesInv
<1> QED
  BY <1>2, <1>5 DEF g

(* No function call waits for what the top frame will return. *)
Unawaited == Len(stack) > 1 => stack[Len(stack) - 1].pc # "call"

LEMMA TopFacts ==
  ASSUME PlanIInv, plan = "running", stack # << >>
  PROVE  /\ Len(stack) \in Nat \ {0}
         /\ Top \in PlannerFrame /\ FrameOK(tokens, Top, index, Len(stages))
         /\ Top.depth \in Nat
         /\ Len(stack) > 1 => CallerOK(stack[Len(stack) - 1], Top, index)
         /\ Top.pc = "start" => index < Len(tokens)
         /\ Open(given, index) >= DepthOf(Top) + misclosed
         /\ Top.pc # "clause" => \/ Unawaited
                                 \/ /\ Top.pc = "start"
                                    /\ Top.fn \in { "planAccessor", "planValue" }
                                    /\ index + 1 \in 1 .. Len(tokens)
                                    /\ tokens[index + 1].kind = "CLAUSE"
<1>1. StackInv(tokens, stack, index, Len(stages)) /\ phase = "accepted" /\ CheckIInv
  BY DEF PlanIInv
<1>2. Len(stack) \in Nat \ {0} /\ Len(stack) \in 1 .. Len(stack)
  BY <1>1 DEF StackInv
<1>3. /\ Top \in PlannerFrame /\ FrameOK(tokens, Top, index, Len(stages))
      /\ Len(stack) > 1 => CallerOK(stack[Len(stack) - 1], Top, index)
  BY <1>1, <1>2 DEF StackInv, Top, FrameOK
<1>4. Top.pc = "start" => index < Len(tokens)
  BY DEF PlanIInv, TokenInReach, Top
<1>5. Open(given, index) >= DepthOf(Top) + misclosed
  BY DEF PlanIInv, Depth, Top
<1>6. ASSUME Top.pc # "clause", ~Unawaited
      PROVE  /\ Top.pc = "start" /\ Top.fn \in { "planAccessor", "planValue" }
             /\ index + 1 \in 1 .. Len(tokens) /\ tokens[index + 1].kind = "CLAUSE"
  <2>1. Len(stack) - 1 \in 1 .. Len(stack) /\ stack[Len(stack) - 1].pc = "call"
    BY <1>2, <1>6 DEF Unawaited
  <2>2. /\ FrameOK(tokens, stack[Len(stack) - 1], index, Len(stages))
        /\ stack[Len(stack) - 1] \in PlannerFrame
    BY <1>1, <2>1 DEF StackInv, FrameOK
  <2>3. AwaitedSoon(stack[Len(stack) - 1], Top, index)
    BY <1>2, <1>3, <1>6, <2>1 DEF CallerOK, AwaitedNow
  <2>4. tokens[index].kind = "FUNCTION" /\ index >= 1
    BY <2>1, <2>2, <2>3 DEF AwaitedSoon, FrameOK
  <2> QED
    <3>1. /\ \A k \in 1 .. Len(tokens) :
               tokens[k].kind = "FUNCTION" => k < Len(tokens) /\ tokens[k + 1].kind = "CLAUSE"
          /\ index \in 0 .. Len(tokens) /\ Len(tokens) \in Nat
      BY <1>1, AcceptedTokens
    <3>2. index \in 1 .. Len(tokens)
      BY <2>4, <3>1
    <3>3. index < Len(tokens) /\ tokens[index + 1].kind = "CLAUSE"
      BY <2>4, <3>1, <3>2
    <3> QED
      BY <2>3, <3>1, <3>3 DEF AwaitedSoon
<1>7. Top.depth \in Nat
  BY <1>3 DEF PlannerFrame
<1> QED
  BY <1>2, <1>3, <1>4, <1>5, <1>6, <1>7

LEMMA CallersFacts ==
  ASSUME PlanIInv, plan = "running", stack # << >>,
         NEW n \in Nat, NEW m \in Nat, index <= n, Len(stages) <= m
  PROVE  /\ StackInv(tokens, Callers, n, m) /\ Callers \in Seq(PlannerFrame)
         /\ Depth(Callers) = Top.depth
         /\ Callers # << >> => Len(stack) > 1 /\ Callers[Len(Callers)] = stack[Len(stack) - 1]
<1>1. StackInv(tokens, stack, index, Len(stages)) /\ index \in Nat /\ Len(stages) \in Nat
  BY DEF PlanIInv, CheckIInv, CheckTypeOK, StagesInv
<1>2. /\ Callers \in Seq(PlannerFrame) /\ Len(Callers) = Len(stack) - 1
      /\ \A f \in 1 .. Len(stack) - 1 : Callers[f] = stack[f]
      /\ StackInv(tokens, Callers, n, m)
  BY <1>1, PopKeeps DEF Callers
<1>3. Len(stack) \in Nat \ {0} /\ Len(stack) \in 1 .. Len(stack)
  BY TopFacts
<1>4. Callers # << >> => Len(stack) > 1 /\ Callers[Len(Callers)] = stack[Len(stack) - 1]
  BY <1>2, <1>3
<1>5. Callers = << >> => Len(stack) = 1
  BY <1>2, <1>3
<1>6. DepthLink(stack, Len(stack))
  BY <1>1, <1>3 DEF StackInv
<1>7. Depth(Callers) = Top.depth
  BY <1>3, <1>4, <1>5, <1>6 DEF DepthLink, Depth, Top
<1> QED
  BY <1>2, <1>4, <1>7

(* A step that reads tokens and leaves the verdict of the checks alone. *)
LEMMA ReadOnlyKeeps ==
  ASSUME CheckIInv, phase = "accepted", ReadOnly, index' \in 0 .. Len(tokens)
  PROVE  CheckIInv' /\ phase' = "accepted" /\ tokens' = tokens /\ given' = given
BY DEF ReadOnly, CheckIInv, CheckTypeOK, BalanceInv, SyntaxInv, OptimizeInv, AcceptedWellFormed,
       RejectedMalformed, PatternsPrecompiled

(* The conditions under which a step of the running planner is sound. *)
RunningStep ==
  /\ PlanIInv /\ plan = "running" /\ stack # << >>
  /\ ReadOnly /\ plan' = "running"
  /\ index' \in index .. Len(tokens)
  /\ StagesInv(tokens, stages') /\ Len(stages') >= Len(stages)
  /\ ret' \in 0 .. Len(stages')
  /\ misclosed' \in Nat

LEMMA RunningKeeps ==
  ASSUME RunningStep,
         StackInv(tokens, stack', index', Len(stages')),
         TokenInReach(stack', index', Len(tokens)),
         ReturnsArguments(stack', stages', ret'),
         Open(given, index') >= Depth(stack') + misclosed'
  PROVE  PlanIInv'
<1>1. CheckIInv' /\ phase' = "accepted" /\ tokens' = tokens /\ given' = given
  BY ReadOnlyKeeps DEF RunningStep, PlanIInv, CheckIInv, CheckTypeOK
<1> QED
  BY <1>1 DEF RunningStep, PlanIInv, NoPanic, ClausesMatched

(* The top frame returns. *)
LEMMA ReturnKeeps ==
  ASSUME RunningStep, stack' = Callers,
         Unawaited \/ (ret' # 0 /\ stages'[ret'].operator = "ensureCollectedArgs"),
         Open(given, index') >= Top.depth + misclosed'
  PROVE  PlanIInv'
<1>1. index' \in Nat /\ Len(stages') \in Nat /\ index <= index' /\ Len(stages) <= Len(stages')
  BY DEF RunningStep, PlanIInv, CheckIInv, CheckTypeOK, StagesInv
<1>2. /\ StackInv(tokens, stack', index', Len(stages'))
      /\ Depth(stack') = Top.depth
      /\ stack' # << >> => Len(stack) > 1 /\ stack'[Len(stack')] = stack[Len(stack) - 1]
  BY <1>1, CallersFacts DEF RunningStep
<1>3. Len(stack) > 1 => stack[Len(stack) - 1].pc # "start"
  BY TopFacts DEF RunningStep, CallerOK
<1>4. TokenInReach(stack', index', Len(tokens))
  BY <1>2, <1>3 DEF TokenInReach
<1>5. ReturnsArguments(stack', stages', ret')
  BY <1>2 DEF ReturnsArguments, Unawaited
<1> QED
  BY <1>2, <1>4, <1>5, RunningKeeps

(* Another frame takes the place of the top frame. *)
LEMMA ReplaceKeeps ==
  ASSUME RunningStep, NEW frame, stack' = Append(Callers, frame),
         FrameOK(tokens, frame, index', Len(stages')), frame.depth = Top.depth,
         Len(stack) > 1 => CallerOK(stack[Len(stack) - 1], frame, index'),
         frame.pc = "start" => index' < Len(tokens),
         frame.pc # "call",
         Open(given, index') >= DepthOf(frame) + misclosed'
  PROVE  PlanIInv'
<1>1. index' \in Nat /\ Len(stages') \in Nat /\ index <= index' /\ Len(stages) <= Len(stages')
  BY DEF RunningStep, PlanIInv, CheckIInv, CheckTypeOK, StagesInv
<1>2. /\ StackInv(tokens, Callers, index', Len(stages')) /\ Callers \in Seq(PlannerFrame)
      /\ Depth(Callers) = Top.depth
      /\ Callers # << >> => Len(stack) > 1 /\ Callers[Len(Callers)] = stack[Len(stack) - 1]
  BY <1>1, CallersFacts DEF RunningStep
<1>3. StackInv(tokens, stack', index', Len(stages'))
  BY <1>1, <1>2, PushKeeps DEF CallerOK
<1>4. stack' # << >> /\ stack'[Len(stack')] = frame
  BY <1>2 DEF FrameOK
<1> QED
  BY <1>3, <1>4, RunningKeeps DEF TokenInReach, ReturnsArguments, Depth

(* The top frame, updated to self, calls a planner function. *)
LEMMA CallKeeps ==
  ASSUME RunningStep, NEW self, NEW fn \in PlannerFns, Call(self, fn),
         FrameOK(tokens, self, index', Len(stages')), self.depth = Top.depth, self.pc # "start",
         Len(stack) > 1 => CallerOK(stack[Len(stack) - 1], self, index'),
         self.pc = "call" => index' = self.at /\ fn = "planAccessor",
         index' < Len(tokens),
         Open(given, index') >= DepthOf(self) + misclosed'
  PROVE  PlanIInv'
<1> DEFINE below == Append(Callers, self)
           frame == NewFrame(fn, DepthOf(self))
<1>1. index' \in Nat /\ Len(stages') \in Nat /\ index <= index' /\ Len(stages) <= Len(stages')
  BY DEF RunningStep, PlanIInv, CheckIInv, CheckTypeOK, StagesInv
<1>2. /\ StackInv(tokens, Callers, index', Len(stages')) /\ Callers \in Seq(PlannerFrame)
      /\ Depth(Callers) = Top.depth
      /\ Callers # << >> => Len(stack) > 1 /\ Callers[Len(Callers)] = stack[Len(stack) - 1]
  BY <1>1, CallersFacts DEF RunningStep
<1>3. StackInv(tokens, below, index', Len(stages'))
  BY <1>1, <1>2, PushKeeps DEF CallerOK
<1>4. self \in PlannerFrame /\ below \in Seq(PlannerFrame) /\ below # << >> /\ below[Len(below)] = self
  BY <1>2 DEF FrameOK
<1>5. DepthOf(self) \in Nat
  BY <1>4 DEF DepthOf, PlannerFrame
<1>6. /\ FrameOK(tokens, frame, index', Len(stages')) /\ frame \in PlannerFrame
      /\ frame.depth = DepthOf(self) /\ frame.pc = "start" /\ frame.fn = fn
      /\ DepthOf(frame) = DepthOf(self)
  BY <1>1, <1>5 DEF FrameOK, PlannerFrame, NewFrame, NilStage, Pcs, DepthOf, IsInClause
<1>7. CallerOK(self, frame, index')
  BY <1>6 DEF CallerOK, AwaitedSoon
<1> HIDE DEF below, frame
<1>8. StackInv(tokens, Append(below, frame), index', Len(stages'))
  BY <1>1, <1>3, <1>4, <1>6, <1>7, PushKeeps DEF Depth
<1>9. stack' = Append(below, frame) /\ stack' # << >> /\ stack'[Len(stack')] = frame
  BY <1>4, <1>6 DEF Call, below, frame
<1> QED
  BY <1>6, <1>8, <1>9, RunningKeeps DEF TokenInReach, ReturnsArguments, Depth

-----------------------------------------------------------------------------
(* How the steps of the planner come about *)

(* The planner goes on without a new stage. *)
LEMMA GoesOn ==
  ASSUME PlanIInv, plan = "running", stack # << >>, Keep,
         index' \in index .. Len(tokens), stages' = stages, ret' \in 0 .. Len(stages)
  PROVE  RunningStep
BY DEF RunningStep, Keep, PlanIInv, StagesInv

(* The planner adds the stage r. *)
LEMMA Builds ==
  ASSUME PlanIInv, plan = "running", stack # << >>, Keep,
         index' \in index .. Len(tokens),
         NEW r, Build(r), StageOK(tokens, stages, r, Len(stages)), ret' \in 0 .. Last
  PROVE  RunningStep /\ Len(stages') = Last /\ stages'[Last] = r
<1>1. StagesInv(tokens, stages) /\ Len(stages) \in Nat
  BY DEF PlanIInv, StagesInv
<1>2. StagesInv(tokens, stages') /\ Len(stages') = Last /\ stages'[Last] = r
  BY <1>1, BuildKeeps DEF Build, Last
<1> QED
  BY <1>1, <1>2 DEF RunningStep, Keep, PlanIInv, Last

(* Reading one token. *)
LEMMA Reads ==
  ASSUME PlanIInv, plan # "idle"
  PROVE  /\ index \in 0 .. Len(tokens) /\ Len(tokens) \in Nat \ {0} /\ Len(stages) \in Nat
         /\ tokens \in Seq(ExpressionToken)
         /\ index < Len(tokens) => Open(given, index) \in Int
         /\ More => /\ index + 1 \in 1 .. Len(tokens)
                    /\ Token.kind \notin EOFKinds => index + 1 < Len(tokens)
                    /\ Open(given, index + 1) = Open(given, index) + Balance(Token.kind)
                    /\ Open(given, index + 1) \in Int
<1>1. phase = "accepted" /\ CheckIInv /\ Len(stages) \in Nat
  BY DEF PlanIInv, StagesInv
<1>2. ASSUME More
      PROVE  /\ index + 1 \in 1 .. Len(tokens)
             /\ Token.kind \notin EOFKinds => index + 1 < Len(tokens)
             /\ Open(given, index) \in Int
             /\ Open(given, index + 1) = Open(given, index) + Balance(Token.kind)
  BY <1>1, <1>2, AcceptedTokens DEF More, Token
<1>3. Balance(Token.kind) \in Int
  BY DEF Balance
<1> QED
  BY <1>1, <1>2, <1>3, AcceptedTokens DEF More

(* No call waits for what the top frame returns, unless it will read or has  *)
(* read a clause.                                                            *)
LEMMA UnawaitedTop ==
  ASSUME PlanIInv, plan = "running", stack # << >>, Top.pc # "clause",
         \/ Top.pc # "start"
         \/ Top.fn \notin { "planAccessor", "planValue" }
         \/ ~(More /\ Token.kind = "CLAUSE")
  PROVE  /\ Unawaited
         /\ \A frame, n : Len(stack) > 1 => CallerOK(stack[Len(stack) - 1], frame, n)
<1>1. Unawaited
  BY TopFacts, Reads DEF More, Token
<1> QED
  BY <1>1, TopFacts DEF Unawaited, CallerOK

LEMMA FailKeeps ==
  ASSUME PlanIInv, plan # "idle", Fail
  PROVE  PlanIInv'
<1>1. CheckIInv' /\ phase' = "accepted" /\ tokens' = tokens /\ given' = given
  BY Reads, ReadOnlyKeeps DEF Fail, PlanIInv
<1> QED
  BY <1>1 DEF Fail, PlanIInv, NoPanic, ClausesMatched

(* PlannerFrame f is frame with its pc, left and at replaced. *)
Moved(f, frame, pc, left, at) ==
  /\ f \in PlannerFrame /\ f.fn = frame.fn /\ f.depth = frame.depth
  /\ f.pc = pc /\ f.left = left /\ f.at = at
  /\ pc \notin { "clause", "args" } => DepthOf(f) = frame.depth
  /\ pc \in { "clause", "args" } => DepthOf(f) = frame.depth + 1

LEMMA Moves ==
  ASSUME NEW frame \in PlannerFrame, NEW pc \in Pcs, NEW left \in Nat, NEW at \in Nat
  PROVE  /\ Moved([frame EXCEPT !.pc = pc], frame, pc, frame.left, frame.at)
         /\ Moved([frame EXCEPT !.pc = pc, !.left = left], frame, pc, left, frame.at)
         /\ Moved([frame EXCEPT !.pc = pc, !.at = at], frame, pc, frame.left, at)
         /\ Moved([frame EXCEPT !.pc = pc, !.left = left, !.at = at], frame, pc, left, at)
<1>1. ASSUME NEW f \in PlannerFrame, f.fn = frame.fn, f.depth = frame.depth, f.pc = pc
      PROVE  Moved(f, frame, pc, f.left, f.at)
  <2>1. f.depth \in Nat
    BY DEF PlannerFrame
  <2> QED
    BY <1>1, <2>1 DEF Moved, DepthOf, IsInClause
<1>2. frame \in [fn : PlannerFns, pc : Pcs, left : Nat, at : Nat, depth : Nat]
  BY DEF PlannerFrame
<1>3. Moved([frame EXCEPT !.pc = pc], frame, pc, frame.left, frame.at)
  <2> DEFINE f == [frame EXCEPT !.pc = pc]
  <2>1. /\ f \in PlannerFrame /\ f.fn = frame.fn /\ f.depth = frame.depth /\ f.pc = pc
        /\ f.left = frame.left /\ f.at = frame.at
    BY <1>2 DEF PlannerFrame
  <2> QED
    BY <1>1, <2>1
<1>4. Moved([frame EXCEPT !.pc = pc, !.left = left], frame, pc, left, frame.at)
  <2> DEFINE f == [frame EXCEPT !.pc = pc, !.left = left]
  <2>1. /\ f \in PlannerFrame /\ f.fn = frame.fn /\ f.depth = frame.depth /\ f.pc = pc
        /\ f.left = left /\ f.at = frame.at
    BY <1>2 DEF PlannerFrame
  <2> QED
    BY <1>1, <2>1
<1>5. Moved([frame EXCEPT !.pc = pc, !.at = at], frame, pc, frame.left, at)
  <2> DEFINE f == [frame EXCEPT !.pc = pc, !.at = at]
  <2>1. /\ f \in PlannerFrame /\ f.fn = frame.fn /\ f.depth = frame.depth /\ f.pc = pc
        /\ f.left = frame.left /\ f.at = at
    BY <1>2 DEF PlannerFrame
  <2> QED
    BY <1>1, <2>1
<1>6. Moved([frame EXCEPT !.pc = pc, !.left = left, !.at = at], frame, pc, left, at)
  <2> DEFINE f == [frame EXCEPT !.pc = pc, !.left = left, !.at = at]
  <2>1. /\ f \in PlannerFrame /\ f.fn = frame.fn /\ f.depth = frame.depth /\ f.pc = pc
        /\ f.left = left /\ f.at = at
    BY <1>2 DEF PlannerFrame
  <2> QED
    BY <1>1, <2>1
<1> QED
  BY <1>3, <1>4, <1>5, <1>6

-----------------------------------------------------------------------------
(* The steps of planPrecedenceLevel *)

(* Where a frame that is not inside a clause stands. *)
LEMMA OutsideClause ==
  ASSUME PlanIInv, plan = "running", stack # << >>, ~IsInClause(Top)
  PROVE  /\ Top \in PlannerFrame /\ Top.depth \in Nat /\ misclosed \in Nat
         /\ FrameOK(tokens, Top, index, Len(stages))
         /\ ret \in 0 .. Len(stages)
         /\ Open(given, index) >= Top.depth + misclosed
         /\ Top.pc = "start" => index < Len(tokens)
BY TopFacts DEF DepthOf, PlanIInv, PlannerFrame

LEMMA LevelKeeps ==
  ASSUME PlanIInv, LevelStep
  PROVE  PlanIInv'
<1>1. /\ plan = "running" /\ stack # << >> /\ plan # "idle" /\ Top.fn \in Levels
      /\ Top.pc \in { "start", "left", "right" } /\ ~IsInClause(Top)
      /\ Top.fn \notin { "planAccessor", "planValue" } /\ Top.pc # "clause"
  BY DEF LevelStep, PlanLeft, TakeOperator, LeaveLevel, PlanRight, At, IsInClause, Levels,
         precedencePlanner
<1>2. /\ Top \in PlannerFrame /\ Top.depth \in Nat /\ misclosed \in Nat
      /\ FrameOK(tokens, Top, index, Len(stages))
      /\ ret \in 0 .. Len(stages)
      /\ Open(given, index) >= Top.depth + misclosed
      /\ Top.pc = "start" => index < Len(tokens)
  BY <1>1, OutsideClause
<1>3. /\ index \in 0 .. Len(tokens) /\ Len(tokens) \in Nat /\ Len(stages) \in Nat
  BY <1>1, Reads
<1>4. Unawaited /\ \A frame, n : Len(stack) > 1 => CallerOK(stack[Len(stack) - 1], frame, n)
  BY <1>1, UnawaitedTop
<1>5. CASE PlanLeft
  <2>1. RunningStep
    BY <1>1, <1>2, <1>3, <1>5, GoesOn DEF PlanLeft, Continue, Call, NilStage
  <2>2. CASE precedencePlanner[Top.fn].next = "none"
    <3> DEFINE frame == [Top EXCEPT !.pc = "left", !.left = NilStage]
    <3>1. stack' = Append(Callers, frame) /\ index' = index /\ stages' = stages
          /\ misclosed' = misclosed
      BY <1>5, <2>2 DEF PlanLeft, Continue, Keep
    <3>2. Moved(frame, Top, "left", 0, Top.at)
      BY <1>2, Moves DEF Pcs, NilStage
    <3> HIDE DEF frame
    <3>3. FrameOK(tokens, frame, index, Len(stages))
      BY <1>2, <1>3, <3>2 DEF Moved, FrameOK
    <3> QED
      BY <1>2, <1>4, <2>1, <3>1, <3>2, <3>3, ReplaceKeeps DEF Moved
  <2>3. CASE precedencePlanner[Top.fn].next # "none"
    <3> DEFINE self == [Top EXCEPT !.pc = "left"]
    <3>1. Call(self, precedencePlanner[Top.fn].next) /\ index' = index /\ stages' = stages
          /\ misclosed' = misclosed /\ Top.pc = "start"
      BY <1>5, <2>3 DEF PlanLeft, Keep, At
    <3>2. Moved(self, Top, "left", Top.left, Top.at)
      BY <1>2, Moves DEF Pcs, PlannerFrame
    <3>3. precedencePlanner[Top.fn].next \in PlannerFns
      BY <1>1, <2>3, LevelTable
    <3> HIDE DEF self
    <3>4. FrameOK(tokens, self, index, Len(stages))
      BY <1>2, <1>3, <3>2 DEF Moved, FrameOK
    <3> QED
      BY <1>2, <1>4, <2>1, <3>1, <3>2, <3>3, <3>4, CallKeeps DEF Moved
  <2> QED
    BY <2>2, <2>3
<1>6. CASE TakeOperator
  <2> DEFINE self == [Top EXCEPT !.pc = "right", !.left = ret, !.at = index + 1]
  <2>1. /\ Call(self, precedencePlanner[Top.fn].nextRight) /\ index' = index + 1
        /\ stages' = stages /\ misclosed' = misclosed /\ LevelMatches /\ Keep
    BY <1>6 DEF TakeOperator, Keep, Consume
  <2>2. /\ More /\ Token.kind \notin EOFKinds \cup { "CLAUSE", "FUNCTION" }
        /\ Token.value \in DOMAIN precedencePlanner[Top.fn].validSymbols
    BY <1>1, <2>1, LevelTable DEF LevelMatches
  <2>3. index + 1 < Len(tokens) /\ Open(given, index + 1) = Open(given, index)
        /\ Open(given, index + 1) \in Int
    BY <1>1, <2>2, Reads DEF Balance, EOFKinds
  <2>4. RunningStep
    BY <1>1, <1>2, <1>3, <2>1, <2>3, GoesOn DEF Call, NilStage
  <2>5. Moved(self, Top, "right", ret, index + 1)
    <3>1. ret \in Nat /\ index + 1 \in Nat /\ "right" \in Pcs
      BY <1>2, <1>3 DEF Pcs
    <3> QED
      BY <1>2, <3>1, Moves, Zenon
  <2>6. precedencePlanner[Top.fn].nextRight \in PlannerFns
    BY <1>1, LevelTable
  <2> HIDE DEF self
  <2>7. tokens[self.at].value \in DOMAIN precedencePlanner[self.fn].validSymbols
    BY <2>2, <2>5 DEF Moved, Token
  <2>8. FrameOK(tokens, self, index + 1, Len(stages))
    <3>1. /\ self \in PlannerFrame /\ self.pc = "right" /\ self.fn \in Levels
          /\ self.left <= Len(stages) /\ self.at <= index + 1 /\ self.at >= 1
      BY <1>1, <1>2, <1>3, <2>5 DEF Moved
    <3> QED
      BY <2>7, <3>1 DEF FrameOK
  <2> QED
    BY <1>2, <1>4, <2>1, <2>3, <2>4, <2>5, <2>6, <2>8, CallKeeps DEF Moved
<1>7. CASE LeaveLevel
  <2>1. /\ stack' = Callers /\ ret' = ret /\ index' = index /\ stages' = stages
        /\ misclosed' = misclosed /\ Keep
    BY <1>7 DEF LeaveLevel, Return, Keep
  <2>2. RunningStep
    BY <1>1, <1>2, <1>3, <2>1, GoesOn
  <2> QED
    BY <1>2, <1>4, <2>1, <2>2, ReturnKeeps
<1>8. CASE PlanRight
  <2> DEFINE symbol == precedencePlanner[Top.fn].validSymbols[tokens[Top.at].value]
             stage == OperatorStage(symbol, Top.left, ret)
  <2>1. /\ Build(stage) /\ stack' = Callers /\ ret' = Last /\ index' = index
        /\ misclosed' = misclosed /\ Keep /\ Top.pc = "right"
    BY <1>8 DEF PlanRight, Return, Keep, At
  <2>2. symbol \in StageSymbols
    BY <1>1, <1>2, <2>1, LevelSymbols DEF Sound, FrameOK
  <2> HIDE DEF symbol
  <2>3. /\ symbol \in Operators /\ symbol \in AllSymbols
        /\ symbol \notin { "FUNCTIONAL", "LITERAL", "VALUE", "parameter" }
    BY <2>2, SymbolFacts
  <2>4. StageOK(tokens, stages, stage, Len(stages))
    BY <1>2, <1>3, <2>1, <2>2, <2>3 DEF StageOK, StageRecord, OperatorStage, NewStage, OperatorFits, FrameOK,
           PlannerFrame
  <2> HIDE DEF stage
  <2>5. RunningStep
    BY <1>1, <1>3, <2>1, <2>4, Builds DEF Last
  <2> QED
    BY <1>2, <1>4, <2>1, <2>5, ReturnKeeps
<1> QED
  BY <1>5, <1>6, <1>7, <1>8 DEF LevelStep

-----------------------------------------------------------------------------
(* The steps of planTernaryExpressionMode *)

LEMMA TernaryKeeps ==
  ASSUME PlanIInv, TernaryStep
  PROVE  PlanIInv'
<1>1. /\ plan = "running" /\ stack # << >> /\ plan # "idle" /\ Top.fn \in TernaryFns
      /\ Top.pc \in { "start", "left", "coalesce", "true", "false" } /\ ~IsInClause(Top)
      /\ Top.fn \notin { "planAccessor", "planValue" } /\ Top.pc # "clause"
  BY DEF TernaryStep, PlanCondition, TakeTernary, TakeCoalesce, TakeQuestion, TakeBareColon,
         LeaveTernary, PlanCoalesce, PlanTrueBranch, PlanFalseBranch, At, IsInClause, TernaryFns
<1>2. /\ Top \in PlannerFrame /\ Top.depth \in Nat /\ misclosed \in Nat
      /\ FrameOK(tokens, Top, index, Len(stages))
      /\ ret \in 0 .. Len(stages)
      /\ Open(given, index) >= Top.depth + misclosed
      /\ Top.pc = "start" => index < Len(tokens)
  BY <1>1, OutsideClause
<1>3. /\ index \in 0 .. Len(tokens) /\ Len(tokens) \in Nat /\ Len(stages) \in Nat
      /\ Last \in Nat \ {0}
  BY <1>1, Reads DEF Last
<1>4. Unawaited /\ \A frame, n : Len(stack) > 1 => CallerOK(stack[Len(stack) - 1], frame, n)
  BY <1>1, UnawaitedTop
<1>5. \A text : IsTernary(text) =>
        /\ index + 1 < Len(tokens) /\ Open(given, index + 1) = Open(given, index)
        /\ Open(given, index + 1) \in Int
  BY <1>1, Reads DEF IsTernary, Balance, EOFKinds
<1>6. /\ "planLogicalOr" \in PlannerFns /\ "planTernaryInner" \in PlannerFns
      /\ "planTernary" \in PlannerFns /\ Top.fn \in PlannerFns
  BY <1>1 DEF PlannerFns, TernaryFns, Levels, precedencePlanner
<1>7. ASSUME NEW text, NEW pc \in { "coalesce", "true", "false" }, NEW fn \in PlannerFns,
             TakeTernary(text, pc, fn)
      PROVE  PlanIInv'
  <2> DEFINE self == [Top EXCEPT !.pc = pc, !.left = ret, !.at = index + 1]
  <2>1. /\ Call(self, fn) /\ index' = index + 1 /\ stages' = stages
        /\ misclosed' = misclosed /\ Keep
    BY <1>7 DEF TakeTernary, Keep, Consume
  <2>2. index + 1 < Len(tokens) /\ Open(given, index + 1) = Open(given, index)
    BY <1>5, <1>7 DEF TakeTernary
  <2>3. RunningStep
    BY <1>1, <1>2, <1>3, <2>1, <2>2, GoesOn DEF Call, NilStage
  <2>4. Moved(self, Top, pc, ret, index + 1)
    <3>1. ret \in Nat /\ index + 1 \in Nat /\ pc \in Pcs
      BY <1>2, <1>3 DEF Pcs
    <3> QED
      BY <1>2, <3>1, Moves, Zenon
  <2> HIDE DEF self
  <2>5. FrameOK(tokens, self, index + 1, Len(stages))
    BY <1>2, <1>3, <2>4 DEF Moved, FrameOK
  <2> QED
    BY <1>2, <1>4, <2>1, <2>2, <2>3, <2>4, <2>5, CallKeeps DEF Moved
<1>8. ASSUME NEW symbol \in { "COALESCE", "TERNARY_TRUE", "TERNARY_FALSE" },
             Build(OperatorStage(symbol, Top.left, ret)), Top.pc \notin { "start", "left" }, Keep,
             index' \in index .. Len(tokens), ret' \in 0 .. Last
      PROVE  RunningStep /\ Len(stages') = Last
  <2> DEFINE stage == OperatorStage(symbol, Top.left, ret)
  <2>1. symbol \in StageSymbols
    BY <1>8 DEF StageSymbols
  <2>3. symbol \in Operators /\ symbol # "FUNCTIONAL" /\ symbol \in AllSymbols
    BY <2>1, SymbolFacts
  <2>2. StageOK(tokens, stages, stage, Len(stages))
    BY <1>2, <1>3, <1>8, <2>1, <2>3 DEF StageOK, StageRecord, OperatorStage, NewStage, OperatorFits, FrameOK,
           PlannerFrame
  <2> HIDE DEF stage
  <2> QED
    BY <1>1, <1>8, <2>2, Builds DEF stage
<1>9. CASE PlanCondition
  <2> DEFINE self == [Top EXCEPT !.pc = "left"]
  <2>1. /\ Call(self, "planLogicalOr") /\ index' = index /\ stages' = stages
        /\ misclosed' = misclosed /\ Keep /\ Top.pc = "start"
    BY <1>9 DEF PlanCondition, Keep, At
  <2>2. RunningStep
    BY <1>1, <1>2, <1>3, <2>1, GoesOn DEF Call, NilStage
  <2>3. Moved(self, Top, "left", Top.left, Top.at)
    BY <1>2, Moves DEF Pcs, PlannerFrame
  <2> HIDE DEF self
  <2>4. FrameOK(tokens, self, index, Len(stages))
    BY <1>2, <1>3, <2>3 DEF Moved, FrameOK
  <2> QED
    BY <1>2, <1>4, <1>6, <2>1, <2>2, <2>3, <2>4, CallKeeps DEF Moved
<1>10. CASE TakeCoalesce
  BY <1>6, <1>7, <1>10 DEF TakeCoalesce
<1>11. CASE TakeQuestion
  BY <1>6, <1>7, <1>11 DEF TakeQuestion
<1>12. CASE TakeBareColon
  BY <1>6, <1>7, <1>12 DEF TakeBareColon
<1>13. CASE LeaveTernary
  <2>1. /\ stack' = Callers /\ ret' = ret /\ index' = index /\ stages' = stages
        /\ misclosed' = misclosed /\ Keep
    BY <1>13 DEF LeaveTernary, Return, Keep
  <2>2. RunningStep
    BY <1>1, <1>2, <1>3, <2>1, GoesOn
  <2> QED
    BY <1>2, <1>4, <2>1, <2>2, ReturnKeeps
<1>14. CASE PlanCoalesce
  <2> DEFINE frame == [Top EXCEPT !.pc = "left", !.left = NilStage]
  <2>1. /\ Build(OperatorStage("COALESCE", Top.left, ret)) /\ Keep /\ index' = index
        /\ stack' = Append(Callers, frame) /\ ret' = Last /\ misclosed' = misclosed
        /\ Top.pc = "coalesce"
    BY <1>14 DEF PlanCoalesce, Continue, Keep, At
  <2>2. RunningStep /\ Len(stages') = Last
    BY <1>3, <1>8, <2>1
  <2>3. Moved(frame, Top, "left", 0, Top.at)
    BY <1>2, Moves DEF Pcs, NilStage
  <2> HIDE DEF frame
  <2>4. FrameOK(tokens, frame, index, Len(stages'))
    BY <1>2, <1>3, <2>2, <2>3 DEF Moved, FrameOK
  <2> QED
    BY <1>2, <1>4, <2>1, <2>2, <2>3, <2>4, ReplaceKeeps DEF Moved
<1>15. CASE PlanTrueBranch
  <2>1. /\ Build(OperatorStage("TERNARY_TRUE", Top.left, ret)) /\ Keep /\ misclosed' = misclosed
        /\ Top.pc = "true"
    BY <1>15 DEF PlanTrueBranch, Keep, At
  <2>2. CASE IsTernary(":")
    <3> DEFINE self == [Top EXCEPT !.pc = "false", !.left = Last, !.at = index + 1]
    <3>1. Call(self, Top.fn) /\ index' = index + 1 /\ ret' = NilStage
      BY <1>15, <2>2 DEF PlanTrueBranch, Consume, Call
    <3>2. RunningStep /\ Len(stages') = Last
      BY <1>3, <1>5, <1>8, <2>1, <2>2, <3>1 DEF NilStage
    <3>3. Moved(self, Top, "false", Last, index + 1)
      <4>1. Last \in Nat /\ index + 1 \in Nat /\ "false" \in Pcs
        BY <1>3 DEF Pcs
      <4> QED
        BY <1>2, <4>1, Moves, Zenon
    <3> HIDE DEF self
    <3>4. FrameOK(tokens, self, index + 1, Len(stages'))
      BY <1>3, <3>2, <3>3 DEF Moved, FrameOK
    <3>5. index + 1 < Len(tokens) /\ Open(given, index + 1) = Open(given, index)
      BY <1>5, <2>2
    <3> QED
      BY <1>2, <1>4, <1>6, <2>1, <3>1, <3>2, <3>3, <3>4, <3>5, CallKeeps DEF Moved
  <2>3. CASE ~IsTernary(":")
    <3>1. stack' = Callers /\ ret' = Last /\ index' = index
      BY <1>15, <2>3 DEF PlanTrueBranch, Return
    <3>2. RunningStep
      BY <1>3, <1>8, <2>1, <3>1
    <3> QED
      BY <1>2, <1>4, <2>1, <3>1, <3>2, ReturnKeeps
  <2> QED
    BY <2>2, <2>3
<1>16. CASE PlanFalseBranch
  <2>1. /\ Build(OperatorStage("TERNARY_FALSE", Top.left, ret)) /\ Keep /\ misclosed' = misclosed
        /\ Top.pc = "false" /\ stack' = Callers /\ ret' = Last /\ index' = index
    BY <1>16 DEF PlanFalseBranch, Return, Keep, At
  <2>2. RunningStep
    BY <1>3, <1>8, <2>1
  <2> QED
    BY <1>2, <1>4, <2>1, <2>2, ReturnKeeps
<1> QED
  BY <1>9, <1>10, <1>11, <1>12, <1>13, <1>14, <1>15, <1>16 DEF TernaryStep

-----------------------------------------------------------------------------
(* The steps of planFunction *)

CallLiterals == { "collectedArgs", "emptySlice", "constant" }

(* A literal stage for a token that is there. *)
LEMMA LiteralOK ==
  ASSUME PlanIInv, NEW value \in CallLiterals, NEW at \in 1 .. Len(tokens)
  PROVE  StageOK(tokens, stages, LiteralStage(value, at), Len(stages))
<1>1. Len(stages) \in Nat /\ value \in Operators /\ at \in Nat /\ value \in LiteralOperators
  BY DEF PlanIInv, StagesInv, CallLiterals, Operators, LiteralOperators
<1> QED
  BY <1>1 DEF StageOK, StageRecord, LiteralStage, NewStage, AllSymbols, NilStage, OperatorFits,
             LiteralOperators, UntypedOperators

LEMMA FunctionKeeps ==
  ASSUME PlanIInv, FunctionStep
  PROVE  PlanIInv'
<1>1. /\ plan = "running" /\ stack # << >> /\ plan # "idle" /\ Top.fn = "planFunction"
      /\ Top.pc \in { "start", "call" } /\ ~IsInClause(Top) /\ Top.pc # "clause"
      /\ Top.fn \notin { "planAccessor", "planValue" }
  BY DEF FunctionStep, TakeFunction, NoFunction, PlanFunctionCall, At, IsInClause
<1>2. /\ Top \in PlannerFrame /\ Top.depth \in Nat /\ misclosed \in Nat
      /\ FrameOK(tokens, Top, index, Len(stages))
      /\ ret \in 0 .. Len(stages)
      /\ Open(given, index) >= Top.depth + misclosed
      /\ Top.pc = "start" => index < Len(tokens)
  BY <1>1, OutsideClause
<1>3. /\ index \in 0 .. Len(tokens) /\ Len(tokens) \in Nat /\ Len(stages) \in Nat
      /\ Last \in Nat \ {0}
  BY <1>1, Reads DEF Last
<1>4. Unawaited /\ \A frame, n : Len(stack) > 1 => CallerOK(stack[Len(stack) - 1], frame, n)
  BY <1>1, UnawaitedTop
<1>5. CASE TakeFunction
  <2> DEFINE self == [Top EXCEPT !.pc = "call", !.at = index + 1]
  <2>1. /\ Call(self, "planAccessor") /\ index' = index + 1 /\ stages' = stages
        /\ misclosed' = misclosed /\ Keep /\ More /\ Token.kind = "FUNCTION"
    BY <1>5 DEF TakeFunction, Keep, Consume
  <2>2. index + 1 < Len(tokens) /\ Open(given, index + 1) = Open(given, index)
    BY <1>1, <2>1, Reads DEF Balance, EOFKinds
  <2>3. RunningStep
    BY <1>1, <1>2, <1>3, <2>1, <2>2, GoesOn DEF Call, NilStage
  <2>4. Moved(self, Top, "call", Top.left, index + 1)
    <3>1. index + 1 \in Nat /\ "call" \in Pcs /\ Top.left \in Nat
      BY <1>2, <1>3 DEF Pcs, PlannerFrame
    <3> QED
      BY <1>2, <3>1, Moves, Zenon
  <2> HIDE DEF self
  <2>5. FrameOK(tokens, self, index + 1, Len(stages))
    BY <1>2, <1>3, <2>1, <2>4 DEF Moved, FrameOK, Token
  <2>6. "planAccessor" \in PlannerFns
    BY DEF PlannerFns
  <2> QED
    BY <1>2, <1>4, <2>1, <2>2, <2>3, <2>4, <2>5, <2>6, CallKeeps DEF Moved
<1>6. CASE NoFunction
  <2> DEFINE frame == NewFrame("planAccessor", Top.depth)
  <2>1. Top.pc = "start" /\ More
    BY <1>2, <1>6 DEF NoFunction, At, More
  <2>2. /\ stack' = Append(Callers, frame) /\ ret' = NilStage /\ index' = index
        /\ stages' = stages /\ misclosed' = misclosed /\ Keep
    BY <1>6, <2>1 DEF NoFunction, Become, Keep
  <2>3. RunningStep
    BY <1>1, <1>2, <1>3, <2>2, GoesOn DEF NilStage
  <2>4. FrameOK(tokens, frame, index, Len(stages)) /\ frame.depth = Top.depth
        /\ frame.pc = "start" /\ DepthOf(frame) = Top.depth
    BY <1>2, <1>3 DEF FrameOK, PlannerFrame, NewFrame, NilStage, Pcs, PlannerFns, DepthOf, IsInClause
  <2> HIDE DEF frame
  <2> QED
    BY <1>2, <1>4, <2>1, <2>2, <2>3, <2>4, ReplaceKeeps
<1>7. CASE PlanFunctionCall
  <2>1. CASE tokens[Top.at].value = "ok"
    <3> DEFINE stage == OperatorStage("FUNCTIONAL", NilStage, ret)
    <3>1. /\ Build(stage) /\ stack' = Callers /\ ret' = Last /\ index' = index
          /\ misclosed' = misclosed /\ Keep /\ Top.pc = "call"
      BY <1>7, <2>1 DEF PlanFunctionCall, Return, Keep, At
    <3>2. ret # 0 /\ stages[ret].operator = "ensureCollectedArgs"
      BY <1>1, <3>1 DEF PlanIInv, ReturnsArguments, Top
    <3>3. Top.at \in 1 .. Len(tokens)
      BY <1>2, <1>3, <3>1 DEF FrameOK, PlannerFrame
    <3>4. StageOK(tokens, stages, stage, Len(stages))
      BY <1>2, <1>3, <3>2, <3>3
         DEF StageOK, StageRecord, OperatorStage, NewStage, AllSymbols, Operators, NilStage, OperatorFits,
             LiteralOperators, UntypedOperators
    <3> HIDE DEF stage
    <3>5. RunningStep
      BY <1>1, <1>3, <3>1, <3>4, Builds
    <3> QED
      BY <1>2, <1>4, <3>1, <3>5, ReturnKeeps
  <2>2. CASE tokens[Top.at].value # "ok"
    BY <1>1, <1>7, <2>2, FailKeeps DEF PlanFunctionCall
  <2> QED
    BY <2>1, <2>2
<1> QED
  BY <1>5, <1>6, <1>7 DEF FunctionStep

-----------------------------------------------------------------------------
(* The steps of planAccessor *)

LEMMA AccessorKeeps ==
  ASSUME PlanIInv, AccessorStep
  PROVE  PlanIInv'
<1>1. /\ plan = "running" /\ stack # << >> /\ plan # "idle" /\ Top.fn = "planAccessor"
      /\ Top.pc \in { "start", "args", "access" } /\ Top.pc # "clause"
  BY DEF AccessorStep, TakeField, TakeEmptyMethod, TakeMethod, PlanMethodArgs, PlanAccess,
         NoAccessor, At
<1>2. /\ Top \in PlannerFrame /\ Top.depth \in Nat /\ misclosed \in Nat
      /\ FrameOK(tokens, Top, index, Len(stages))
      /\ ret \in 0 .. Len(stages)
      /\ Open(given, index) >= DepthOf(Top) + misclosed
      /\ Top.pc = "start" => index < Len(tokens)
      /\ Top.left \in Nat /\ Top.at \in Nat
  BY <1>1, TopFacts DEF PlanIInv, PlannerFrame
<1>3. /\ index \in 0 .. Len(tokens) /\ Len(tokens) \in Nat /\ Len(stages) \in Nat
      /\ Last \in Nat \ {0}
  BY <1>1, Reads DEF Last
<1>4. ASSUME Top.pc # "start" \/ ~IsKind(index + 1, "CLAUSE")
      PROVE  /\ Unawaited
             /\ \A frame, n : Len(stack) > 1 => CallerOK(stack[Len(stack) - 1], frame, n)
  BY <1>1, <1>3, <1>4, UnawaitedTop DEF IsKind, More, Token
<1>5. ASSUME NEW kind
      PROVE  /\ IsKind(index + 1, kind) =>
                  /\ index + 1 \in 1 .. Len(tokens)
                  /\ Open(given, index) \in Int
                  /\ Open(given, index + 1) = Open(given, index) + Balance(kind)
             /\ IsKind(index + 2, kind) =>
                  /\ index + 2 \in 1 .. Len(tokens)
                  /\ Open(given, index + 1) \in Int
                  /\ Open(given, index + 2) = Open(given, index + 1) + Balance(kind)
             /\ IsKind(index + 3, kind) =>
                  /\ index + 3 \in 1 .. Len(tokens)
                  /\ Open(given, index + 2) \in Int
                  /\ Open(given, index + 3) = Open(given, index + 2) + Balance(kind)
  <2>1. phase = "accepted" /\ CheckIInv
    BY <1>1 DEF PlanIInv
  <2>2. ASSUME NEW n \in Nat, IsKind(n + 1, kind)
        PROVE  /\ n + 1 \in 1 .. Len(tokens) /\ Open(given, n) \in Int
               /\ Open(given, n + 1) = Open(given, n) + Balance(kind)
    <3>1. n + 1 \in 1 .. Len(tokens) /\ tokens[n + 1].kind = kind /\ n \in 0 .. Len(tokens) - 1
      BY <1>3, <2>2 DEF IsKind
    <3> QED
      BY <2>1, <3>1, AcceptedTokens
  <2>3. index \in Nat /\ index + 1 \in Nat /\ index + 2 \in Nat
        /\ (index + 1) + 1 = index + 2 /\ (index + 2) + 1 = index + 3
    BY <1>3
  <2> QED
    BY <2>2, <2>3
<1>6. Balance("ACCESSOR") = 0 /\ Balance("CLAUSE") = 1 /\ Balance("CLAUSE_CLOSE") = -1
  BY DEF Balance
<1>7. IsKind(index + 1, "ACCESSOR") => ~IsKind(index + 1, "CLAUSE")
  BY DEF IsKind
<1>8. Top.pc \in { "start", "access" } => DepthOf(Top) = Top.depth
  BY <1>2 DEF DepthOf, IsInClause
<1>9. CASE TakeField
  <2> DEFINE frame == [Top EXCEPT !.pc = "access", !.at = index + 1]
  <2>1. /\ stack' = Append(Callers, frame) /\ ret' = NilStage /\ index' = index + 1
        /\ stages' = stages /\ misclosed' = misclosed /\ Keep /\ Top.pc = "start"
        /\ IsKind(index + 1, "ACCESSOR")
    BY <1>9 DEF TakeField, Keep, At, Consume
  <2>2. index + 1 \in 1 .. Len(tokens) /\ Open(given, index + 1) = Open(given, index)
        /\ Open(given, index) \in Int
    BY <1>5, <1>6, <2>1
  <2>3. RunningStep
    BY <1>1, <1>2, <1>3, <2>1, <2>2, GoesOn DEF NilStage
  <2>4. Moved(frame, Top, "access", Top.left, index + 1)
    <3>1. index + 1 \in Nat /\ "access" \in Pcs
      BY <1>3 DEF Pcs
    <3> QED
      BY <1>2, <3>1, Moves, Zenon
  <2> HIDE DEF frame
  <2>5. FrameOK(tokens, frame, index + 1, Len(stages))
    BY <1>2, <1>3, <2>4 DEF Moved, FrameOK
  <2> QED
    BY <1>2, <1>4, <1>7, <1>8, <2>1, <2>2, <2>3, <2>4, <2>5, ReplaceKeeps DEF Moved
<1>10. CASE TakeEmptyMethod
  <2> DEFINE frame == [Top EXCEPT !.pc = "access", !.at = index + 1]
             stage == LiteralStage("collectedArgs", index + 2)
  <2>1. /\ stack' = Append(Callers, frame) /\ ret' = Last /\ index' = index + 3
        /\ Build(stage) /\ misclosed' = misclosed /\ Keep /\ Top.pc = "start"
        /\ IsKind(index + 1, "ACCESSOR") /\ IsKind(index + 2, "CLAUSE")
        /\ IsKind(index + 3, "CLAUSE_CLOSE")
    BY <1>10 DEF TakeEmptyMethod, Keep, At, Consume
  <2>2. index + 1 \in 1 .. Len(tokens) /\ Open(given, index + 1) = Open(given, index)
        /\ Open(given, index) \in Int
    BY <1>5, <1>6, <2>1
  <2>3. /\ index + 2 \in 1 .. Len(tokens) /\ Open(given, index + 2) = Open(given, index + 1) + 1
        /\ Open(given, index + 2) \in Int
    BY <1>5, <1>6, <2>1
  <2>4. /\ index + 3 \in 1 .. Len(tokens) /\ Open(given, index + 3) = Open(given, index + 2) - 1
    BY <1>5, <1>6, <2>1
  <2>5. StageOK(tokens, stages, stage, Len(stages))
    BY <2>3, LiteralOK DEF CallLiterals
  <2> HIDE DEF stage
  <2>6. RunningStep /\ Len(stages') = Last
    BY <1>1, <1>3, <2>1, <2>4, <2>5, Builds
  <2>7. Moved(frame, Top, "access", Top.left, index + 1)
    <3>1. index + 1 \in Nat /\ "access" \in Pcs
      BY <1>3 DEF Pcs
    <3> QED
      BY <1>2, <3>1, Moves, Zenon
  <2> HIDE DEF frame
  <2>8. FrameOK(tokens, frame, index + 3, Len(stages'))
    BY <1>2, <1>3, <2>6, <2>7 DEF Moved, FrameOK, Last
  <2>9. Open(given, index + 3) = Open(given, index)
    BY <2>2, <2>3, <2>4
  <2> QED
    BY <1>2, <1>4, <1>7, <1>8, <2>1, <2>6, <2>7, <2>8, <2>9, ReplaceKeeps DEF Moved
<1>11. CASE TakeMethod
  <2>1. CASE index + 2 < Len(tokens)
    <3> DEFINE self == [Top EXCEPT !.pc = "args", !.at = index + 1]
    <3>1. /\ Call(self, "planSeparator") /\ index' = index + 2 /\ stages' = stages
          /\ misclosed' = misclosed /\ Keep /\ Top.pc = "start"
          /\ IsKind(index + 1, "ACCESSOR") /\ IsKind(index + 2, "CLAUSE")
      BY <1>11, <2>1 DEF TakeMethod, Keep, At, Consume
    <3>2. index + 1 \in 1 .. Len(tokens) /\ Open(given, index + 1) = Open(given, index)
          /\ Open(given, index) \in Int
      BY <1>5, <1>6, <3>1
    <3>3. Open(given, index + 2) = Open(given, index + 1) + 1
      BY <1>5, <1>6, <3>1
    <3>4. RunningStep
      BY <1>1, <1>2, <1>3, <2>1, <3>1, GoesOn DEF Call, NilStage
    <3>5. Moved(self, Top, "args", Top.left, index + 1)
      <4>1. index + 1 \in Nat /\ "args" \in Pcs
        BY <1>3 DEF Pcs
      <4> QED
        BY <1>2, <4>1, Moves, Zenon
    <3> HIDE DEF self
    <3>6. FrameOK(tokens, self, index + 2, Len(stages))
      BY <1>2, <1>3, <3>5 DEF Moved, FrameOK
    <3>7. "planSeparator" \in PlannerFns
      BY DEF PlannerFns, Levels, precedencePlanner
    <3>8. Open(given, index + 2) >= DepthOf(self) + misclosed
      BY <1>2, <1>8, <3>1, <3>2, <3>3, <3>5 DEF Moved
    <3> QED
      BY <1>2, <1>4, <1>7, <2>1, <3>1, <3>4, <3>5, <3>6, <3>7, <3>8, CallKeeps DEF Moved
  <2>2. CASE ~(index + 2 < Len(tokens))
    BY <1>1, <1>11, <2>2, FailKeeps DEF TakeMethod
  <2> QED
    BY <2>1, <2>2
<1>12. CASE PlanMethodArgs
  <2>1. CASE More /\ Token.kind = "CLAUSE_CLOSE"
    <3> DEFINE stage == IF ret = NilStage
                          THEN LiteralStage("collectedArgs", Top.at + 1)
                          ELSE NewStage("NOOP", "ensureCollectedArgs", NilStage, ret, Top.at + 1)
               frame == [Top EXCEPT !.pc = "access", !.left = NilStage]
    <3>1. /\ stack' = Append(Callers, frame) /\ ret' = Last /\ index' = index + 1
          /\ Build(stage) /\ misclosed' = misclosed /\ Keep /\ Top.pc = "args"
      BY <1>12, <2>1 DEF PlanMethodArgs, Keep, At, Consume, Continue
    <3>2. index + 1 \in 1 .. Len(tokens) /\ Open(given, index + 1) = Open(given, index) - 1
          /\ Open(given, index) \in Int
      BY <1>1, <1>3, <2>1, Reads DEF Balance, More
    <3>3. Top.at + 1 \in 1 .. Len(tokens)
      BY <1>2, <1>3, <3>1 DEF FrameOK
    <3>4. StageOK(tokens, stages, stage, Len(stages))
      <4>1. CASE ret = NilStage
        BY <3>3, <4>1, LiteralOK DEF CallLiterals
      <4>2. CASE ret # NilStage
        BY <1>2, <1>3, <3>3, <4>2
           DEF StageOK, StageRecord, NewStage, AllSymbols, Operators, NilStage, OperatorFits,
             LiteralOperators, UntypedOperators
      <4> QED
        BY <4>1, <4>2
    <3> HIDE DEF stage
    <3>5. RunningStep /\ Len(stages') = Last
      BY <1>1, <1>3, <3>1, <3>2, <3>4, Builds
    <3>6. Moved(frame, Top, "access", 0, Top.at)
      BY <1>2, Moves DEF Pcs, NilStage
    <3> HIDE DEF frame
    <3>7. FrameOK(tokens, frame, index + 1, Len(stages'))
      BY <1>2, <1>3, <3>1, <3>5, <3>6 DEF Moved, FrameOK
    <3>8. DepthOf(Top) = Top.depth + 1
      BY <3>1 DEF DepthOf, IsInClause
    <3>9. Open(given, index + 1) >= DepthOf(frame) + misclosed
      BY <1>2, <3>2, <3>6, <3>8 DEF Moved
    <3> QED
      BY <1>2, <1>4, <3>1, <3>5, <3>6, <3>7, <3>9, ReplaceKeeps DEF Moved
  <2>2. CASE ~(More /\ Token.kind = "CLAUSE_CLOSE")
    BY <1>1, <1>12, <2>2, FailKeeps DEF PlanMethodArgs
  <2> QED
    BY <2>1, <2>2
<1>13. CASE PlanAccess
  <2>1. CASE tokens[Top.at].value = "ok"
    <3> DEFINE stage == OperatorStage("ACCESS", NilStage, ret)
    <3>1. /\ Build(stage) /\ stack' = Callers /\ ret' = Last /\ index' = index
          /\ misclosed' = misclosed /\ Keep /\ Top.pc = "access"
      BY <1>13, <2>1 DEF PlanAccess, Return, Keep, At
    <3>2. Top.at \in 1 .. Len(tokens)
      BY <1>2, <1>3, <3>1 DEF FrameOK
    <3>3. StageOK(tokens, stages, stage, Len(stages))
      BY <1>2, <1>3, <3>2
         DEF StageOK, StageRecord, OperatorStage, NewStage, AllSymbols, Operators, NilStage, OperatorFits,
             LiteralOperators, UntypedOperators
    <3> HIDE DEF stage
    <3>4. RunningStep
      BY <1>1, <1>3, <3>1, <3>3, Builds
    <3> QED
      BY <1>2, <1>4, <1>8, <3>1, <3>4, ReturnKeeps
  <2>2. CASE tokens[Top.at].value # "ok"
    BY <1>1, <1>13, <2>2, FailKeeps DEF PlanAccess
  <2> QED
    BY <2>1, <2>2
<1>14. CASE NoAccessor
  <2> DEFINE frame == NewFrame("planValue", Top.depth)
  <2>1. Top.pc = "start" /\ More
    BY <1>2, <1>14 DEF NoAccessor, At, More
  <2>2. /\ stack' = Append(Callers, frame) /\ ret' = NilStage /\ index' = index
        /\ stages' = stages /\ misclosed' = misclosed /\ Keep
    BY <1>14, <2>1 DEF NoAccessor, Become, Keep
  <2>3. RunningStep
    BY <1>1, <1>2, <1>3, <2>2, GoesOn DEF NilStage
  <2>4. FrameOK(tokens, frame, index, Len(stages)) /\ frame.depth = Top.depth
        /\ frame.pc = "start" /\ DepthOf(frame) = Top.depth /\ frame.fn = "planValue"
    BY <1>2, <1>3 DEF FrameOK, PlannerFrame, NewFrame, NilStage, Pcs, PlannerFns, DepthOf, IsInClause
  <2> HIDE DEF frame
  <2>5. Len(stack) > 1 => CallerOK(stack[Len(stack) - 1], frame, index)
    BY <1>1, <2>1, <2>4, TopFacts DEF CallerOK, AwaitedSoon, AwaitedNow
  <2> QED
    BY <1>2, <1>8, <2>1, <2>2, <2>3, <2>4, <2>5, ReplaceKeeps
<1> QED
  BY <1>9, <1>10, <1>11, <1>12, <1>13, <1>14 DEF AccessorStep

-----------------------------------------------------------------------------
(* The steps of planValue *)

LEMMA ValueKeeps ==
  ASSUME PlanIInv, ValueStep
  PROVE  PlanIInv'
<1>1. /\ plan = "running" /\ stack # << >> /\ plan # "idle" /\ Top.fn = "planValue"
      /\ Top.pc \in { "start", "clause" }
  BY DEF ValueStep, TakeValue, NoValue, TakePrefix, Unplannable, TakeClause, CloseClause, At
<1>2. /\ Top \in PlannerFrame /\ Top.depth \in Nat /\ misclosed \in Nat
      /\ FrameOK(tokens, Top, index, Len(stages))
      /\ ret \in 0 .. Len(stages)
      /\ Open(given, index) >= DepthOf(Top) + misclosed
      /\ Top.pc = "start" => index < Len(tokens)
      /\ Top.left \in Nat /\ Top.at \in Nat
  BY <1>1, TopFacts DEF PlanIInv, PlannerFrame
<1>3. /\ index \in 0 .. Len(tokens) /\ Len(tokens) \in Nat /\ Len(stages) \in Nat
      /\ Last \in Nat \ {0}
  BY <1>1, Reads DEF Last
<1>4. ASSUME Top.pc = "start", More => Token.kind # "CLAUSE"
      PROVE  /\ Unawaited
             /\ \A frame, n : Len(stack) > 1 => CallerOK(stack[Len(stack) - 1], frame, n)
  BY <1>1, <1>4, UnawaitedTop
<1>5. Top.pc = "start" => DepthOf(Top) = Top.depth
  BY <1>2 DEF DepthOf, IsInClause
<1>6. More => /\ index + 1 \in 1 .. Len(tokens) /\ Open(given, index) \in Int
              /\ Open(given, index + 1) = Open(given, index) + Balance(Token.kind)
              /\ Open(given, index + 1) \in Int
  BY <1>1, Reads DEF More
<1>7. CASE TakeValue
  <2>1. CASE Typed(Token)
    <3> DEFINE stage == IF Token.kind = "VARIABLE"
                          THEN NewStage("VALUE", "parameter", NilStage, NilStage, index + 1)
                          ELSE LiteralStage("constant", index + 1)
    <3>1. /\ Build(stage) /\ stack' = Callers /\ ret' = Last /\ index' = index + 1
          /\ misclosed' = misclosed /\ Keep /\ Top.pc = "start" /\ More
          /\ Token.kind \in ValueKinds
      BY <1>7, <2>1 DEF TakeValue, Return, Keep, At, Consume
    <3>2. Token.kind # "CLAUSE" /\ Balance(Token.kind) = 0
      BY <3>1 DEF ValueKinds, Balance
    <3>3. StageOK(tokens, stages, stage, Len(stages))
      <4>1. CASE Token.kind = "VARIABLE"
        BY <1>3, <1>6, <3>1, <4>1
           DEF StageOK, StageRecord, NewStage, AllSymbols, Operators, NilStage, OperatorFits,
             LiteralOperators, UntypedOperators
      <4>2. CASE Token.kind # "VARIABLE"
        BY <1>6, <3>1, <4>2, LiteralOK DEF CallLiterals
      <4> QED
        BY <4>1, <4>2
    <3> HIDE DEF stage
    <3>4. RunningStep
      BY <1>1, <1>3, <1>6, <3>1, <3>3, Builds
    <3> QED
      BY <1>2, <1>4, <1>5, <1>6, <3>1, <3>2, <3>4, ReturnKeeps
  <2>2. CASE ~Typed(Token)
    BY <1>1, <1>7, <2>2, FailKeeps DEF TakeValue
  <2> QED
    BY <2>1, <2>2
<1>8. CASE NoValue
  <2>1. /\ stack' = Callers /\ ret' = NilStage /\ index' = index /\ stages' = stages
        /\ misclosed' = misclosed /\ Keep /\ Top.pc = "start"
        /\ More => Token.kind = "CLAUSE_CLOSE"
    BY <1>8 DEF NoValue, Return, Keep, At
  <2>2. RunningStep
    BY <1>1, <1>3, <2>1, GoesOn DEF NilStage
  <2> QED
    BY <1>2, <1>4, <1>5, <2>1, <2>2, ReturnKeeps
<1>9. CASE TakePrefix
  <2> DEFINE frame == NewFrame("planPrefix", Top.depth)
  <2>1. /\ stack' = Append(Callers, frame) /\ ret' = NilStage /\ index' = index
        /\ stages' = stages /\ misclosed' = misclosed /\ Keep /\ Top.pc = "start"
        /\ More /\ Token.kind # "CLAUSE"
    BY <1>9 DEF TakePrefix, Become, Keep, At
  <2>2. RunningStep
    BY <1>1, <1>3, <2>1, GoesOn DEF NilStage
  <2>3. "planPrefix" \in PlannerFns
    BY DEF PlannerFns, Levels, precedencePlanner
  <2>4. FrameOK(tokens, frame, index, Len(stages)) /\ frame.depth = Top.depth
        /\ frame.pc = "start" /\ DepthOf(frame) = Top.depth
    BY <1>2, <1>3, <2>3 DEF FrameOK, PlannerFrame, NewFrame, NilStage, Pcs, DepthOf, IsInClause
  <2> HIDE DEF frame
  <2> QED
    BY <1>2, <1>4, <1>5, <2>1, <2>2, <2>4, ReplaceKeeps
<1>10. CASE Unplannable
  BY <1>1, <1>10, FailKeeps DEF Unplannable
<1>11. CASE TakeClause
  <2>1. CASE index + 1 < Len(tokens)
    <3> DEFINE self == [Top EXCEPT !.pc = "clause", !.at = index + 1]
    <3>1. /\ Call(self, "planSeparator") /\ index' = index + 1 /\ stages' = stages
          /\ misclosed' = misclosed /\ Keep /\ Top.pc = "start"
          /\ More /\ Token.kind = "CLAUSE"
      BY <1>11, <2>1 DEF TakeClause, Keep, At, Consume
    <3>2. Open(given, index + 1) = Open(given, index) + 1 /\ Open(given, index) \in Int
      BY <1>6, <3>1 DEF Balance
    <3>3. RunningStep
      BY <1>1, <1>2, <1>3, <2>1, <3>1, GoesOn DEF Call, NilStage
    <3>4. Moved(self, Top, "clause", Top.left, index + 1)
      <4>1. index + 1 \in Nat /\ "clause" \in Pcs
        BY <1>3 DEF Pcs
      <4> QED
        BY <1>2, <4>1, Moves, Zenon
    <3> HIDE DEF self
    <3>5. FrameOK(tokens, self, index + 1, Len(stages))
      BY <1>2, <1>3, <3>4 DEF Moved, FrameOK
    <3>6. "planSeparator" \in PlannerFns
      BY DEF PlannerFns, Levels, precedencePlanner
    <3>7. Open(given, index + 1) >= DepthOf(self) + misclosed
      BY <1>2, <1>5, <3>1, <3>2, <3>4 DEF Moved
    <3>8. Len(stack) > 1 => CallerOK(stack[Len(stack) - 1], self, index + 1)
      BY <3>1, <3>4, <1>1, TopFacts DEF CallerOK, AwaitedSoon, AwaitedNow, Moved
    <3> QED
      BY <1>2, <2>1, <3>1, <3>3, <3>4, <3>5, <3>6, <3>7, <3>8, CallKeeps DEF Moved
  <2>2. CASE ~(index + 1 < Len(tokens))
    BY <1>1, <1>11, <2>2, FailKeeps DEF TakeClause
  <2> QED
    BY <2>1, <2>2
<1>12. CASE CloseClause
  <2>1. CASE More
    <3> DEFINE empty == ret = NilStage /\ (AfterIn \/ AfterFunction)
               noop(inner) == NewStage("NOOP", ClauseOperator, NilStage, inner, Top.at)
               literal == LiteralStage(IF AfterIn THEN "emptySlice" ELSE "collectedArgs", Top.at)
    <3>1. /\ index' = index + 1 /\ Top.pc = "clause" /\ stack' = Callers
          /\ misclosed' = misclosed + (IF Token.kind = "CLAUSE_CLOSE" THEN 0 ELSE 1)
          /\ plan' = plan /\ ReadOnly
          /\ IF empty THEN stages' = Append(Append(stages, literal), noop(Last)) /\ ret' = Last + 1
                      ELSE stages' = Append(stages, noop(ret)) /\ ret' = Last
      BY <1>12, <2>1 DEF CloseClause, Consume, At, Return, Build
    <3>2. Top.at \in 1 .. Len(tokens) /\ misclosed' \in Nat
      BY <1>2, <1>3, <3>1 DEF FrameOK
    <3>3. Open(given, index + 1) >= Top.depth + misclosed'
      <4>1. DepthOf(Top) = Top.depth + 1
        BY <3>1 DEF DepthOf, IsInClause
      <4>2. Balance(Token.kind) >= IF Token.kind = "CLAUSE_CLOSE" THEN -1 ELSE 0
        BY DEF Balance
      <4>3. Balance(Token.kind) \in Int
        BY DEF Balance
      <4>4. PICK change \in Int : change = Balance(Token.kind)
        BY <4>3
      <4>5. change + 1 + misclosed >= misclosed'
        BY <1>2, <3>1, <4>2, <4>4
      <4>6. /\ Open(given, index) >= Top.depth + 1 + misclosed
            /\ Open(given, index + 1) = Open(given, index) + change
        BY <1>2, <1>6, <2>1, <4>1, <4>4
      <4> QED
        BY <1>2, <1>6, <2>1, <3>2, <4>5, <4>6
    <3>4. /\ ClauseOperator \in Operators /\ ClauseOperator \in UntypedOperators
          /\ ClauseOperator # "parameter"
      BY DEF ClauseOperator, Operators, UntypedOperators
    <3>5. StagesInv(tokens, stages)
      BY DEF PlanIInv
    <3>6. /\ StagesInv(tokens, stages') /\ ret' = Len(stages') /\ Len(stages') > Len(stages)
          /\ stages'[ret'].operator = ClauseOperator /\ Len(stages') \in Nat
      <4>1. CASE empty
        <5> DEFINE s1 == Append(stages, literal)
        <5>1. StageOK(tokens, stages, literal, Len(stages))
          BY <3>2, LiteralOK DEF CallLiterals
        <5> HIDE DEF literal
        <5>2. StagesInv(tokens, s1) /\ Len(s1) = Last
          BY <3>5, <5>1, BuildKeeps DEF Last
        <5> HIDE DEF s1
        <5>3. StageOK(tokens, s1, noop(Last), Len(s1))
          BY <1>3, <3>2, <3>4, <5>2 DEF StageOK, StageRecord, NewStage, AllSymbols, NilStage, OperatorFits,
             LiteralOperators, UntypedOperators
        <5>4. noop(Last).operator = ClauseOperator
          BY DEF NewStage
        <5> HIDE DEF noop
        <5>5. /\ StagesInv(tokens, Append(s1, noop(Last)))
              /\ Len(Append(s1, noop(Last))) = Last + 1
              /\ Append(s1, noop(Last))[Last + 1] = noop(Last)
          BY <5>2, <5>3, BuildKeeps
        <5>6. stages' = Append(s1, noop(Last)) /\ ret' = Last + 1
          BY <3>1, <4>1 DEF s1
        <5>7. Last > Len(stages) /\ Last + 1 > Len(stages) /\ Last + 1 \in Nat
          BY <1>3 DEF Last
        <5> QED
          BY <5>4, <5>5, <5>6, <5>7
      <4>2. CASE ~empty
        <5>1. StageOK(tokens, stages, noop(ret), Len(stages))
          BY <1>2, <1>3, <3>2, <3>4 DEF StageOK, StageRecord, NewStage, AllSymbols, NilStage, OperatorFits,
             LiteralOperators, UntypedOperators
        <5>2. noop(ret).operator = ClauseOperator
          BY DEF NewStage
        <5> HIDE DEF noop
        <5>3. /\ StagesInv(tokens, Append(stages, noop(ret)))
              /\ Len(Append(stages, noop(ret))) = Last
              /\ Append(stages, noop(ret))[Last] = noop(ret)
          BY <3>5, <5>1, BuildKeeps DEF Last
        <5>4. stages' = Append(stages, noop(ret)) /\ ret' = Last
          BY <3>1, <4>2
        <5>5. Last > Len(stages) /\ Last \in Nat
          BY <1>3 DEF Last
        <5> QED
          BY <5>2, <5>3, <5>4, <5>5
      <4> QED
        BY <4>1, <4>2
    <3> HIDE DEF empty, noop, literal
    <3>7. Unawaited \/ (ret' # 0 /\ stages'[ret'].operator = "ensureCollectedArgs")
      <4> SUFFICES ASSUME ~Unawaited PROVE AfterFunction
        BY <1>3, <3>6 DEF ClauseOperator
      <4> DEFINE caller == stack[Len(stack) - 1]
      <4>1. /\ caller.pc = "call" /\ Len(stack) > 1 /\ Len(stack) - 1 \in 1 .. Len(stack)
        BY <1>1, TopFacts DEF Unawaited
      <4>2. Top.at = caller.at + 1
        BY <1>1, <3>1, <4>1, TopFacts DEF CallerOK, AwaitedSoon, AwaitedNow
      <4>3. FrameOK(tokens, caller, index, Len(stages))
        BY <4>1 DEF PlanIInv, StackInv
      <4>4. caller.at \in Nat /\ caller.at >= 1 /\ tokens[caller.at].kind = "FUNCTION"
        BY <4>1, <4>3 DEF FrameOK, PlannerFrame
      <4> HIDE DEF caller
      <4> QED
        BY <4>2, <4>4 DEF AfterFunction
    <3>8. RunningStep
      BY <1>1, <1>3, <1>6, <2>1, <3>1, <3>2, <3>6 DEF RunningStep
    <3> QED
      BY <3>1, <3>3, <3>7, <3>8, ReturnKeeps
  <2>2. CASE ~More
    BY <1>1, <1>12, <2>2, FailKeeps DEF CloseClause
  <2> QED
    BY <2>1, <2>2
<1> QED
  BY <1>7, <1>8, <1>9, <1>10, <1>11, <1>12 DEF ValueStep

-----------------------------------------------------------------------------
(* The invariant *)

LEMMA PlanInitIInv == PlanInit => PlanIInv
<1> SUFFICES ASSUME PlanInit PROVE PlanIInv
  OBVIOUS
<1>1. CheckIInv /\ index = 0 /\ phase = "balance"
  BY CheckInitIInv DEF PlanInit, CheckInit
<1>2. StagesInv(tokens, stages) /\ StackInv(tokens, stack, index, Len(stages))
  BY DEF PlanInit, StagesInv, StackInv
<1> QED
  BY <1>1, <1>2 DEF PlanInit, PlanIInv, NilStage, NoPanic, ClausesMatched

LEMMA CheckKeeps ==
  ASSUME PlanIInv, CheckNext \/ UNCHANGED checkVars, UNCHANGED planVars
  PROVE  PlanIInv'
<1>1. CheckIInv /\ CheckIInv'
  BY CheckStepIInv DEF PlanIInv
<1>2. CASE UNCHANGED checkVars
  BY <1>1, <1>2 DEF PlanIInv, checkVars, planVars, NoPanic, ClausesMatched
<1>3. CASE CheckNext
  <2>1. phase # "accepted"
    BY <1>3 DEF CheckNext, CountParens, BalanceDone, CheckToken, SyntaxDone, OptimizeToken,
                OptimizeDone
  <2>2. plan = "idle" /\ stack = << >> /\ stages = << >> /\ ret = 0 /\ misclosed = 0
    BY <2>1 DEF PlanIInv
  <2>3. plan' = "idle" /\ stack' = << >> /\ stages' = << >> /\ ret' = 0 /\ misclosed' = 0
    BY <2>2 DEF planVars
  <2>4. StagesInv(tokens', stages') /\ StackInv(tokens', stack', index', Len(stages'))
    BY <2>3 DEF StagesInv, StackInv
  <2>5. phase' = "accepted" => index' = 0
    BY <1>3, <2>1 DEF CheckNext, CountParens, BalanceDone, CheckToken, SyntaxDone, OptimizeToken,
                      OptimizeDone
  <2> QED
    BY <1>1, <2>3, <2>4, <2>5 DEF PlanIInv, NoPanic, ClausesMatched
<1> QED
  BY <1>2, <1>3

LEMMA StartKeeps ==
  ASSUME PlanIInv, PlanStart
  PROVE  PlanIInv'
<1>1. /\ phase = "accepted" /\ CheckIInv /\ stack = << >> /\ stages = << >> /\ ret = 0
      /\ misclosed = 0 /\ index = 0
  BY DEF PlanStart, PlanIInv
<1>2. /\ plan' = "running" /\ stages' = << >> /\ ret' = 0 /\ misclosed' = 0 /\ index' = 0
      /\ stack' = IF More THEN <<NewFrame("planSeparator", 0)>> ELSE << >>
      /\ ReadOnly
  BY <1>1 DEF PlanStart
<1>3. Len(tokens) \in Nat \ {0} /\ Open(given, 0) = 0 /\ More
  BY <1>1, AcceptedTokens, OpenNothing DEF More
<1>4. CheckIInv' /\ phase' = "accepted" /\ tokens' = tokens /\ given' = given
  BY <1>1, <1>2, <1>3, ReadOnlyKeeps
<1> DEFINE frame == NewFrame("planSeparator", 0)
<1>5. /\ FrameOK(tokens, frame, 0, 0) /\ frame \in PlannerFrame /\ frame.depth = 0
      /\ frame.pc = "start" /\ DepthOf(frame) = 0
  BY DEF FrameOK, PlannerFrame, NewFrame, NilStage, Pcs, PlannerFns, Levels, precedencePlanner, DepthOf,
         IsInClause
<1> HIDE DEF frame
<1>6. stack' = <<frame>> /\ stack' # << >> /\ Len(stack') = 1 /\ stack'[1] = frame
      /\ stack' \in Seq(PlannerFrame)
  BY <1>2, <1>3, <1>5 DEF frame
<1>7. StackInv(tokens, stack', 0, 0)
  BY <1>5, <1>6 DEF StackInv, DepthLink
<1>8. StagesInv(tokens, stages') /\ Len(stages') = 0
  BY <1>2 DEF StagesInv
<1>9. Depth(stack') = 0 /\ TokenInReach(stack', 0, Len(tokens))
      /\ ReturnsArguments(stack', stages', ret')
  BY <1>3, <1>5, <1>6 DEF Depth, TokenInReach, ReturnsArguments
<1> QED
  BY <1>2, <1>3, <1>4, <1>7, <1>8, <1>9 DEF PlanIInv, NoPanic, ClausesMatched

(* The descent ends with the planner's list read to its end only when as     *)
(* many clauses were closed as opened, so none on another token.             *)
LEMMA DoneKeeps ==
  ASSUME PlanIInv, PlanDone
  PROVE  PlanIInv'
<1>1. /\ plan = "running" /\ phase = "accepted" /\ CheckIInv /\ stack = << >>
      /\ misclosed \in Nat /\ Open(given, index) >= misclosed /\ plan # "idle"
  BY DEF PlanDone, PlanIInv, Depth
<1>2. /\ UNCHANGED <<stages, stack, ret, misclosed, index>> /\ ReadOnly
      /\ plan' \in { "rejected", "planned" }
      /\ plan' = "planned" => ~More /\ ret # 0
  BY DEF PlanDone, NilStage
<1>3. CheckIInv' /\ phase' = "accepted" /\ tokens' = tokens /\ given' = given
  BY <1>1, <1>2, Reads, ReadOnlyKeeps
<1>4. plan' = "planned" => misclosed = 0
  <2>1. ~More => index = Len(tokens)
    BY <1>1, Reads DEF More
  <2>2. Len(tokens) = Len(given) /\ Open(given, Len(given)) = 0
    BY <1>1, AcceptedTokens
  <2> QED
    BY <1>1, <1>2, <2>1, <2>2
<1>5. stages' = stages /\ stack' = stack /\ ret' = ret /\ misclosed' = misclosed /\ index' = index
  BY <1>2
<1>6. /\ StagesInv(tokens', stages') /\ StackInv(tokens', stack', index', Len(stages'))
      /\ ret' \in 0 .. Len(stages')
  BY <1>3, <1>5 DEF PlanIInv
<1>7. NoPanic' /\ ClausesMatched'
  BY <1>2, <1>4, <1>5 DEF NoPanic, ClausesMatched
<1> QED
  BY <1>1, <1>2, <1>3, <1>5, <1>6, <1>7 DEF PlanIInv

LEMMA PlanStepIInv == PlanIInv /\ [PlanNext \/ Returned]_allVars => PlanIInv'
<1> SUFFICES ASSUME PlanIInv, [PlanNext \/ Returned]_allVars PROVE PlanIInv'
  OBVIOUS
<1>1. CASE CheckNext /\ UNCHANGED planVars
  BY <1>1, CheckKeeps
<1>2. CASE PlanStart
  BY <1>2, StartKeeps
<1>3. CASE PlanDone
  BY <1>3, DoneKeeps
<1>4. CASE LevelStep
  BY <1>4, LevelKeeps
<1>5. CASE TernaryStep
  BY <1>5, TernaryKeeps
<1>6. CASE FunctionStep
  BY <1>6, FunctionKeeps
<1>7. CASE AccessorStep
  BY <1>7, AccessorKeeps
<1>8. CASE ValueStep
  BY <1>8, ValueKeeps
<1>9. CASE Returned \/ UNCHANGED allVars
  BY <1>9, CheckKeeps DEF Returned, allVars
<1> QED
  BY <1>1, <1>2, <1>3, <1>4, <1>5, <1>6, <1>7, <1>8, <1>9 DEF PlanNext, PlanStep

THEOREM PlanInvariance == PlanSpec => []PlanIInv
BY PlanInitIInv, PlanStepIInv, PTL DEF PlanSpec

-----------------------------------------------------------------------------
(* What it shows *)

(* The descent never goes wrong by type: in particular the tree of stages    *)
(* has no cycle, for every list of tokens.                                   *)
THEOREM PlanTypeCorrect == PlanSpec => []PlanTypeOK
<1>1. PlanIInv => PlanTypeOK
  <2> SUFFICES ASSUME PlanIInv PROVE PlanTypeOK
    OBVIOUS
  <2>1. CheckTypeOK /\ Len(stages) \in Nat /\ DOMAIN stages = 1 .. Len(stages)
    BY DEF PlanIInv, CheckIInv, StagesInv
  <2>2. DOMAIN stack = 1 .. Len(stack) /\ index \in Nat
    BY <2>1 DEF PlanIInv, StackInv, CheckTypeOK
  <2>3. ASSUME NEW k \in 1 .. Len(stages)
        PROVE  /\ stages[k].symbol \in AllSymbols
               /\ stages[k].leftStage \in 0 .. k - 1 /\ stages[k].rightStage \in 0 .. k - 1
               /\ stages[k].at \in 1 .. Len(tokens)
    BY <2>1, <2>3 DEF PlanIInv, StagesInv, StageOK, StageRecord
  <2>4. ASSUME NEW f \in 1 .. Len(stack)
        PROVE  /\ stack[f].fn \in PlannerFns
               /\ stack[f].left \in 0 .. Len(stages)
               /\ stack[f].at \in 0 .. index
               /\ stack[f].depth \in Nat
    <3>1. FrameOK(tokens, stack[f], index, Len(stages))
      BY <2>4 DEF PlanIInv, StackInv
    <3> QED
      BY <2>1, <2>2, <3>1 DEF FrameOK, PlannerFrame
  <2>5. MaybeStage = 0 .. Len(stages)
    BY <2>1 DEF MaybeStage, Stages, NilStage
  <2> QED
    BY <2>1, <2>2, <2>3, <2>4, <2>5 DEF PlanTypeOK, PlanIInv, Stages, AllSymbols
<1> QED
  BY <1>1, PlanInvariance, PTL

(* planFunction never reads past the tokens. *)
THEOREM NeverPanics == PlanSpec => []NoPanic
<1>1. PlanIInv => NoPanic
  BY DEF PlanIInv
<1> QED
  BY <1>1, PlanInvariance, PTL

(* An expression that is planned had every clause closed by a CLAUSE_CLOSE,  *)
(* although a single call of planValue takes any token for one.              *)
THEOREM AllClausesMatched == PlanSpec => []ClausesMatched
<1>1. PlanIInv => ClausesMatched
  BY DEF PlanIInv
<1> QED
  BY <1>1, PlanInvariance, PTL

(* Every function stage gets its arguments packed. *)
THEOREM AllArgumentsPacked == PlanSpec => []ArgumentsPacked
<1>1. PlanIInv => ArgumentsPacked
  BY DEF PlanIInv, StagesInv, StageOK, ArgumentsPacked, Stages, NilStage
<1> QED
  BY <1>1, PlanInvariance, PTL

-----------------------------------------------------------------------------
(***************************************************************************)
(* Every stage is held in one place.  A planner function has two hands:    *)
(* what its frame keeps for the left, and what the last call returned.  It *)
(* makes a stage of what it has in both, and then has that stage in one;   *)
(* or it moves from hand to hand.                                          *)
(***************************************************************************)

(* What holds stage k other than the two hands. *)
OtherHolders(g, p, k) ==
  { <<"left", j>> : j \in { j \in 1 .. Len(g) : g[j].leftStage = k } }
    \cup { <<"right", j>> : j \in { j \in 1 .. Len(g) : g[j].rightStage = k } }
    \cup { <<"frame", f>> : f \in { f \in 1 .. Len(p) : p[f].left = k } }

(* Every stage of g is held once: below the frames of p, by one of them, or  *)
(* in one of the two hands.                                                  *)
HeldWith(g, p, left, right) ==
  \A k \in 1 .. Len(g) :
    \/ left = k /\ right # k /\ OtherHolders(g, p, k) = { }
    \/ left # k /\ right = k /\ OtherHolders(g, p, k) = { }
    \/ left # k /\ right # k /\ \E h : OtherHolders(g, p, k) = { h }

(* Where a frame has put nothing to the left yet. *)
EmptyPcs == { "start", "left", "call", "args", "access", "clause" }
EmptyHanded(s) == \A f \in 1 .. Len(s) : s[f].pc \in EmptyPcs => s[f].left = 0

(* The stages b + 1 to n have their children among themselves. *)
Closed(g, b, n) ==
  \A j \in b + 1 .. n :
    (g[j].leftStage = 0 \/ g[j].leftStage > b) /\ (g[j].rightStage = 0 \/ g[j].rightStage > b)

(* A stage is made after its children, the right one last: its right subtree *)
(* is what was made since its left child.                                    *)
PostOrdered(g) ==
  \A k \in 1 .. Len(g) :
    /\ g[k].rightStage = 0 \/ g[k].rightStage = k - 1
    /\ g[k].leftStage # 0 => Closed(g, g[k].leftStage, k - 1)
    /\ g[k].leftStage # 0 /\ g[k].rightStage # 0 => g[k].leftStage < g[k].rightStage

(* The frames of p hold stages in the order in which they were made, and     *)
(* what was made since one of them has its children there too.               *)
OrderedWith(g, p, left, right) ==
  /\ PostOrdered(g)
  /\ Closed(g, left, Len(g)) /\ \A f \in 1 .. Len(p) : Closed(g, p[f].left, Len(g))
  /\ \A f, h \in 1 .. Len(p) : f < h => p[h].left = 0 \/ p[f].left < p[h].left
  /\ left = 0 \/ \A f \in 1 .. Len(p) : p[f].left < left
  /\ right # 0 => right = Len(g) /\ left < right /\ \A f \in 1 .. Len(p) : p[f].left < right

InHand(g, p, left, right) == HeldWith(g, p, left, right) /\ OrderedWith(g, p, left, right)

HandsInv(g, s, r) ==
  /\ InHand(g, s, 0, r) /\ EmptyHanded(s)
  /\ s # << >> /\ s[Len(s)].pc = "start" => r = 0

HeldIInv ==
  /\ PlanIInv
  /\ plan = "running" => HandsInv(stages, stack, ret)
  /\ plan = "planned" => InHand(stages, stack, 0, ret)

(* The frame on top of a stack has its left hand. *)
LEMMA PushedHand ==
  ASSUME NEW g \in Seq(StageRecord), NEW p \in Seq(PlannerFrame), NEW frame \in PlannerFrame, NEW r
  PROVE  HeldWith(g, Append(p, frame), 0, r) <=> HeldWith(g, p, frame.left, r)
<1>1. Len(p) \in Nat /\ Len(g) \in Nat
  OBVIOUS
<1>2. PICK place : place = <<"frame", Len(p) + 1>>
  OBVIOUS
<1>3. ASSUME NEW k \in 1 .. Len(g)
      PROVE  /\ OtherHolders(g, Append(p, frame), k) =
                  OtherHolders(g, p, k) \cup (IF frame.left = k THEN { place } ELSE { })
             /\ place \notin OtherHolders(g, p, k)
  <2> DEFINE Of(s) == { <<"frame", f>> : f \in { f \in 1 .. Len(s) : s[f].left = k } }
  <2>1. /\ Len(Append(p, frame)) = Len(p) + 1 /\ Append(p, frame)[Len(p) + 1] = frame
        /\ \A f \in 1 .. Len(p) : Append(p, frame)[f] = p[f]
    OBVIOUS
  <2>2. Of(Append(p, frame)) = Of(p) \cup (IF frame.left = k THEN { place } ELSE { })
    <3>1. 1 .. Len(p) + 1 = (1 .. Len(p)) \cup { Len(p) + 1 }
      BY <1>1
    <3> QED
      BY <1>2, <2>1, <3>1
  <2>3. \A s : OtherHolders(g, s, k) = { <<"left", j>> : j \in { j \in 1 .. Len(g) : g[j].leftStage = k } }
          \cup { <<"right", j>> : j \in { j \in 1 .. Len(g) : g[j].rightStage = k } } \cup Of(s)
    BY DEF OtherHolders
  <2>4. place \notin OtherHolders(g, p, k)
    BY <1>1, <1>2 DEF OtherHolders
  <2> HIDE DEF Of
  <2> QED
    BY <2>2, <2>3, <2>4
<1>4. \A k \in 1 .. Len(g) : k # 0
  OBVIOUS
<1>5. ASSUME NEW k \in 1 .. Len(g)
      PROVE  (\/ 0 = k /\ r # k /\ OtherHolders(g, Append(p, frame), k) = { }
              \/ 0 # k /\ r = k /\ OtherHolders(g, Append(p, frame), k) = { }
              \/ 0 # k /\ r # k /\ \E h : OtherHolders(g, Append(p, frame), k) = { h })
             <=>
             (\/ frame.left = k /\ r # k /\ OtherHolders(g, p, k) = { }
              \/ frame.left # k /\ r = k /\ OtherHolders(g, p, k) = { }
              \/ frame.left # k /\ r # k /\ \E h : OtherHolders(g, p, k) = { h })
  <2>1. CASE frame.left # k
    BY <1>3, <1>4, <2>1
  <2>2. CASE frame.left = k
    <3>1. OtherHolders(g, Append(p, frame), k) = OtherHolders(g, p, k) \cup { place }
      BY <1>3, <2>2
    <3>2. (\E h : OtherHolders(g, p, k) \cup { place } = { h }) <=> OtherHolders(g, p, k) = { }
      BY <1>3
    <3> QED
      BY <1>4, <2>2, <3>1, <3>2
  <2> QED
    BY <2>1, <2>2
<1> QED
  BY <1>5 DEF HeldWith

LEMMA OtherHand ==
  ASSUME NEW g \in Seq(StageRecord), NEW p, NEW stage
  PROVE  HeldWith(g, p, stage, 0) <=> HeldWith(g, p, 0, stage)
<1>1. \A k \in 1 .. Len(g) : k # 0
  OBVIOUS
<1> QED
  BY <1>1 DEF HeldWith

(* The children of the stages are among them. *)
ChildrenWithin(g) == \A j \in 1 .. Len(g) : g[j].leftStage <= Len(g) /\ g[j].rightStage <= Len(g)

(* A stage made of what is in the two hands is the one thing in hand then.   *)
LEMMA BuiltHand ==
  ASSUME NEW g \in Seq(StageRecord), ChildrenWithin(g), NEW p \in Seq(PlannerFrame), \A f \in 1 .. Len(p) : p[f].left <= Len(g),
         NEW stage \in StageRecord, stage.leftStage <= Len(g), stage.rightStage <= Len(g),
         HeldWith(g, p, stage.leftStage, stage.rightStage)
  PROVE  HeldWith(Append(g, stage), p, 0, Len(g) + 1)
<1>1. g \in Seq(StageRecord) /\ Len(g) \in Nat
  OBVIOUS
<1>2. PICK more, n : more = Append(g, stage) /\ n = Len(g) + 1
  OBVIOUS
<1>3. /\ n \in Nat /\ Len(more) = n /\ more[n] = stage /\ n # 0
      /\ \A j \in 1 .. Len(g) : more[j] = g[j]
      /\ 1 .. n = (1 .. Len(g)) \cup { n } /\ n \notin 1 .. Len(g)
  BY <1>1, <1>2
<1>4. ASSUME NEW k \in 1 .. Len(g)
      PROVE  /\ OtherHolders(more, p, k) =
                  OtherHolders(g, p, k) \cup (IF stage.leftStage = k THEN { <<"left", n>> } ELSE { })
                    \cup (IF stage.rightStage = k THEN { <<"right", n>> } ELSE { })
  <2>1. { <<"left", j>> : j \in { j \in 1 .. Len(more) : more[j].leftStage = k } }
          = { <<"left", j>> : j \in { j \in 1 .. Len(g) : g[j].leftStage = k } }
              \cup (IF stage.leftStage = k THEN { <<"left", n>> } ELSE { })
    <3>1. { j \in 1 .. Len(more) : more[j].leftStage = k }
            = { j \in 1 .. Len(g) : g[j].leftStage = k } \cup (IF stage.leftStage = k THEN { n } ELSE { })
      BY <1>3
    <3> QED
      BY <3>1
  <2>2. { <<"right", j>> : j \in { j \in 1 .. Len(more) : more[j].rightStage = k } }
          = { <<"right", j>> : j \in { j \in 1 .. Len(g) : g[j].rightStage = k } }
              \cup (IF stage.rightStage = k THEN { <<"right", n>> } ELSE { })
    <3>1. { j \in 1 .. Len(more) : more[j].rightStage = k }
            = { j \in 1 .. Len(g) : g[j].rightStage = k } \cup (IF stage.rightStage = k THEN { n } ELSE { })
      BY <1>3
    <3> QED
      BY <3>1
  <2> QED
    BY <2>1, <2>2 DEF OtherHolders
<1>5. ASSUME NEW k \in 1 .. Len(g)
      PROVE  k # 0 /\ k # n /\ \E h : OtherHolders(more, p, k) = { h }
  <2>1. k # 0 /\ k # n
    BY <1>3
  <2>2. CASE stage.leftStage = k
    <3>1. stage.rightStage # k /\ OtherHolders(g, p, k) = { }
      BY <2>2 DEF HeldWith
    <3> QED
      BY <1>4, <2>1, <2>2, <3>1
  <2>3. CASE stage.leftStage # k /\ stage.rightStage = k
    <3>1. OtherHolders(g, p, k) = { }
      BY <2>3 DEF HeldWith
    <3> QED
      BY <1>4, <2>1, <2>3, <3>1
  <2>4. CASE stage.leftStage # k /\ stage.rightStage # k
    <3>1. \E h : OtherHolders(g, p, k) = { h }
      BY <2>4 DEF HeldWith
    <3> QED
      BY <1>4, <2>1, <2>4, <3>1
  <2> QED
    BY <2>2, <2>3, <2>4
<1>6. OtherHolders(more, p, n) = { }
  <2>1. \A j \in 1 .. Len(g) : g[j].leftStage < n /\ g[j].rightStage < n /\ g[j].leftStage \in Nat /\ g[j].rightStage \in Nat
    <3> SUFFICES ASSUME NEW j \in 1 .. Len(g)
                 PROVE  g[j].leftStage < n /\ g[j].rightStage < n /\ g[j].leftStage \in Nat /\ g[j].rightStage \in Nat
      OBVIOUS
    <3>1. g[j] \in StageRecord
      OBVIOUS
    <3>2. g[j].leftStage \in Nat /\ g[j].rightStage \in Nat
      BY <3>1 DEF StageRecord
    <3>3. g[j].leftStage <= Len(g) /\ g[j].rightStage <= Len(g)
      BY DEF ChildrenWithin
    <3> QED
      BY <1>1, <1>2, <3>2, <3>3
  <2>2. \A j \in 1 .. n : more[j].leftStage # n /\ more[j].rightStage # n
    BY <1>1, <1>2, <1>3, <2>1 DEF StageRecord
  <2>3. \A f \in 1 .. Len(p) : p[f].left # n
    BY <1>1, <1>2 DEF PlannerFrame
  <2> QED
    BY <1>3, <2>2, <2>3 DEF OtherHolders
<1>7. ASSUME NEW k \in 1 .. Len(more)
      PROVE  \/ 0 # k /\ n = k /\ OtherHolders(more, p, k) = { }
             \/ 0 # k /\ n # k /\ \E h : OtherHolders(more, p, k) = { h }
  BY <1>3, <1>5, <1>6
<1>8. HeldWith(more, p, 0, n)
  BY <1>7 DEF HeldWith
<1> QED
  BY <1>2, <1>8

LEMMA BuiltInHand ==
  ASSUME NEW g \in Seq(StageRecord), ChildrenWithin(g), NEW p \in Seq(PlannerFrame), \A f \in 1 .. Len(p) : p[f].left <= Len(g),
         NEW stage \in StageRecord, stage.leftStage <= Len(g), stage.rightStage <= Len(g),
         InHand(g, p, stage.leftStage, stage.rightStage)
  PROVE  InHand(Append(g, stage), p, 0, Len(g) + 1)
<1>1. PICK more, n : more = Append(g, stage) /\ n = Len(g) + 1
  OBVIOUS
<1>2. PICK left, right : left = stage.leftStage /\ right = stage.rightStage
  OBVIOUS
<1>3. /\ Len(g) \in Nat /\ n \in Nat /\ Len(more) = n /\ more[n] = stage
      /\ \A j \in 1 .. Len(g) : more[j] = g[j]
      /\ 1 .. n = (1 .. Len(g)) \cup { n }
  BY <1>1
<1>4. left \in Nat /\ right \in Nat /\ \A f \in 1 .. Len(p) : p[f].left \in Nat /\ p[f].left <= Len(g)
  <2>1. left \in Nat /\ right \in Nat
    BY <1>2 DEF StageRecord
  <2>2. ASSUME NEW f \in 1 .. Len(p) PROVE p[f].left \in Nat
    <3>1. p[f] \in PlannerFrame
      OBVIOUS
    <3> QED
      BY <3>1 DEF PlannerFrame
  <2> QED
    BY <2>1, <2>2
<1>5. OrderedWith(g, p, left, right)
  BY <1>2 DEF InHand
<1>6. ASSUME NEW b \in Nat, NEW k \in 1 .. n, Closed(g, b, k - 1)
      PROVE  Closed(more, b, k - 1)
  <2> SUFFICES ASSUME NEW j \in b + 1 .. k - 1
               PROVE  /\ more[j].leftStage = 0 \/ more[j].leftStage > b
                      /\ more[j].rightStage = 0 \/ more[j].rightStage > b
    BY DEF Closed
  <2>1. j \in 1 .. Len(g)
    BY <1>1, <1>3
  <2> QED
    BY <1>3, <1>6, <2>1 DEF Closed
<1>7. PostOrdered(more)
  <2> SUFFICES ASSUME NEW k \in 1 .. n
               PROVE  /\ more[k].rightStage = 0 \/ more[k].rightStage = k - 1
                      /\ more[k].leftStage # 0 => Closed(more, more[k].leftStage, k - 1)
                      /\ more[k].leftStage # 0 /\ more[k].rightStage # 0
                           => more[k].leftStage < more[k].rightStage
    BY <1>3 DEF PostOrdered
  <2>1. CASE k \in 1 .. Len(g)
    <3>3. g[k] \in StageRecord
      BY <2>1
    <3>1. more[k] = g[k] /\ g[k].leftStage \in Nat
      BY <1>3, <2>1, <3>3 DEF StageRecord
    <3>2. /\ g[k].rightStage = 0 \/ g[k].rightStage = k - 1
          /\ g[k].leftStage # 0 => Closed(g, g[k].leftStage, k - 1)
          /\ g[k].leftStage # 0 /\ g[k].rightStage # 0 => g[k].leftStage < g[k].rightStage
      BY <1>5, <2>1 DEF OrderedWith, PostOrdered
    <3> QED
      BY <1>6, <3>1, <3>2
  <2>2. CASE k = n
    <3>1. k - 1 = Len(g) /\ more[k] = stage
      BY <1>1, <1>3, <2>2
    <3>2. right # 0 => right = Len(g) /\ left < right
      BY <1>5 DEF OrderedWith
    <3>3. Closed(more, left, k - 1)
      BY <1>4, <1>5, <1>6, <3>1 DEF OrderedWith
    <3> QED
      BY <1>2, <1>4, <3>1, <3>2, <3>3
  <2> QED
    BY <1>3, <2>1, <2>2
<1>8. Closed(more, 0, n)
  <2> SUFFICES ASSUME NEW j \in 1 .. n
               PROVE  /\ more[j].leftStage = 0 \/ more[j].leftStage > 0
                      /\ more[j].rightStage = 0 \/ more[j].rightStage > 0
    BY DEF Closed
  <2>1. more[j] \in StageRecord
    BY <1>3
  <2>2. more[j].leftStage \in Nat /\ more[j].rightStage \in Nat
    BY <2>1 DEF StageRecord
  <2> QED
    BY <2>2
<1>9. ASSUME NEW f \in 1 .. Len(p)
      PROVE  Closed(more, p[f].left, n)
  <2> SUFFICES ASSUME NEW j \in p[f].left + 1 .. n
               PROVE  /\ more[j].leftStage = 0 \/ more[j].leftStage > p[f].left
                      /\ more[j].rightStage = 0 \/ more[j].rightStage > p[f].left
    BY DEF Closed
  <2>1. CASE j \in 1 .. Len(g)
    <3>1. j \in p[f].left + 1 .. Len(g) /\ more[j] = g[j]
      BY <1>3, <1>4, <2>1
    <3> QED
      BY <1>5, <3>1 DEF OrderedWith, Closed
  <2>2. CASE j = n
    <3>1. left = 0 \/ p[f].left < left
      BY <1>5 DEF OrderedWith
    <3>2. right = 0 \/ p[f].left < right
      BY <1>5 DEF OrderedWith
    <3> QED
      BY <1>2, <1>3, <1>4, <2>2, <3>1, <3>2
  <2>3. j \in 1 .. n
    BY <1>3, <1>4
  <2> QED
    BY <1>3, <2>1, <2>2, <2>3
<1>10. \A f, h \in 1 .. Len(p) : f < h => p[h].left = 0 \/ p[f].left < p[h].left
  BY <1>5 DEF OrderedWith
<1>11. 0 < n /\ \A f \in 1 .. Len(p) : p[f].left < n
  BY <1>1, <1>3, <1>4
<1>12. OrderedWith(more, p, 0, n)
  BY <1>3, <1>7, <1>8, <1>9, <1>10, <1>11 DEF OrderedWith
<1>13. HeldWith(more, p, 0, n)
  BY <1>1, BuiltHand DEF InHand
<1> QED
  BY <1>1, <1>12, <1>13 DEF InHand

LEMMA PushedInHand ==
  ASSUME NEW g \in Seq(StageRecord), NEW p \in Seq(PlannerFrame), NEW frame \in PlannerFrame, NEW r \in Nat
  PROVE  InHand(g, Append(p, frame), 0, r) <=> InHand(g, p, frame.left, r)
<1> DEFINE q == Append(p, frame)
           b == frame.left
<1>1. /\ Len(p) \in Nat /\ Len(q) = Len(p) + 1 /\ b \in Nat /\ Len(g) \in Nat
      /\ \A f \in 1 .. Len(p) : q[f] = p[f] /\ p[f].left \in Nat
      /\ q[Len(p) + 1].left = b
  <2>1. ASSUME NEW f \in 1 .. Len(p) PROVE q[f] = p[f] /\ p[f].left \in Nat
    <3>1. q[f] = p[f] /\ p[f] \in PlannerFrame
      OBVIOUS
    <3> QED
      BY <3>1 DEF PlannerFrame
  <2>2. b \in Nat
    BY DEF PlannerFrame
  <2>3. Len(p) \in Nat /\ Len(q) = Len(p) + 1 /\ q[Len(p) + 1] = frame /\ Len(g) \in Nat
    OBVIOUS
  <2> QED
    BY <2>1, <2>2, <2>3
<1>2. 1 .. Len(q) = (1 .. Len(p)) \cup { Len(p) + 1 }
  BY <1>1
<1> HIDE DEF q, b
<1>3. ASSUME OrderedWith(g, q, 0, r)
      PROVE  OrderedWith(g, p, b, r)
  <2>1. Closed(g, b, Len(g)) /\ \A f \in 1 .. Len(p) : Closed(g, p[f].left, Len(g))
    BY <1>1, <1>2, <1>3 DEF OrderedWith
  <2>2. \A f, h \in 1 .. Len(p) : f < h => p[h].left = 0 \/ p[f].left < p[h].left
    BY <1>1, <1>2, <1>3 DEF OrderedWith
  <2>3. b = 0 \/ \A f \in 1 .. Len(p) : p[f].left < b
    BY <1>1, <1>2, <1>3 DEF OrderedWith
  <2>4. r # 0 => r = Len(g) /\ b < r /\ \A f \in 1 .. Len(p) : p[f].left < r
    BY <1>1, <1>2, <1>3 DEF OrderedWith
  <2> QED
    BY <1>3, <2>1, <2>2, <2>3, <2>4 DEF OrderedWith
<1>4. ASSUME OrderedWith(g, p, b, r), Closed(g, 0, Len(g))
      PROVE  OrderedWith(g, q, 0, r)
  <2>1. \A f \in 1 .. Len(q) : Closed(g, q[f].left, Len(g))
    BY <1>1, <1>2, <1>4 DEF OrderedWith
  <2>2. ASSUME NEW f \in 1 .. Len(q), NEW h \in 1 .. Len(q), f < h
        PROVE  q[h].left = 0 \/ q[f].left < q[h].left
    <3>1. f \in 1 .. Len(p)
      BY <1>1, <2>2
    <3>2. CASE h \in 1 .. Len(p)
      BY <1>1, <1>4, <2>2, <3>1, <3>2 DEF OrderedWith
    <3>3. CASE h = Len(p) + 1
      BY <1>1, <1>4, <3>1, <3>3 DEF OrderedWith
    <3> QED
      BY <1>2, <3>2, <3>3
  <2>3. r # 0 => r = Len(g) /\ 0 < r /\ \A f \in 1 .. Len(q) : q[f].left < r
    BY <1>1, <1>2, <1>4 DEF OrderedWith
  <2> QED
    BY <1>4, <2>1, <2>2, <2>3 DEF OrderedWith
<1>5. Closed(g, 0, Len(g))
  <2> SUFFICES ASSUME NEW j \in 1 .. Len(g)
               PROVE  /\ g[j].leftStage = 0 \/ g[j].leftStage > 0
                      /\ g[j].rightStage = 0 \/ g[j].rightStage > 0
    BY DEF Closed
  <2>1. g[j] \in StageRecord
    OBVIOUS
  <2>2. g[j].leftStage \in Nat /\ g[j].rightStage \in Nat
    BY <2>1 DEF StageRecord
  <2> QED
    BY <2>2
<1>6. HeldWith(g, q, 0, r) <=> HeldWith(g, p, b, r)
  BY PushedHand DEF q, b
<1>7. InHand(g, q, 0, r) <=> InHand(g, p, b, r)
  BY <1>3, <1>4, <1>5, <1>6 DEF InHand
<1> QED
  BY <1>7 DEF q, b

LEMMA OtherInHand ==
  ASSUME NEW g \in Seq(StageRecord), NEW p, NEW stage, InHand(g, p, 0, stage)
  PROVE  InHand(g, p, stage, 0)
<1>1. HeldWith(g, p, stage, 0)
  BY OtherHand DEF InHand
<1>2. OrderedWith(g, p, 0, stage) /\ Len(g) \in Nat
  BY DEF InHand
<1>3. Closed(g, Len(g), Len(g))
  BY <1>2 DEF Closed
<1>4. stage = 0 \/ stage = Len(g)
  BY <1>2 DEF OrderedWith
<1>5. OrderedWith(g, p, stage, 0)
  <2>1. CASE stage = 0
    BY <1>2, <2>1
  <2>2. CASE stage # 0
    <3>1. /\ PostOrdered(g) /\ \A f \in 1 .. Len(p) : Closed(g, p[f].left, Len(g))
          /\ \A f, h \in 1 .. Len(p) : f < h => p[h].left = 0 \/ p[f].left < p[h].left
          /\ \A f \in 1 .. Len(p) : p[f].left < stage
      BY <1>2, <2>2 DEF OrderedWith
    <3>2. Closed(g, stage, Len(g))
      BY <1>3, <1>4, <2>2
    <3> QED
      BY <3>1, <3>2 DEF OrderedWith
  <2> QED
    BY <2>1, <2>2
<1> QED
  BY <1>1, <1>5 DEF InHand

(* A planner function that goes on, with every stage held once.              *)
Holding == PlanIInv /\ plan = "running" /\ stack # << >> /\ HandsInv(stages, stack, ret)

LEMMA InHands ==
  ASSUME Holding
  PROVE  /\ Top \in PlannerFrame /\ Callers \in Seq(PlannerFrame) /\ EmptyHanded(Callers)
         /\ Callers # << >> => Callers[Len(Callers)].pc # "start"
         /\ \A f \in 1 .. Len(Callers) : Callers[f].left <= Len(stages)
         /\ Top.left \in 0 .. Len(stages) /\ ret \in 0 .. Len(stages)
         /\ stages \in Seq(StageRecord) /\ ChildrenWithin(stages)
         /\ InHand(stages, Callers, Top.left, ret)
         /\ Top.pc \in EmptyPcs => Top.left = 0
         /\ Top.pc = "start" => ret = 0
<1>1. StackInv(tokens, stack, index, Len(stages)) /\ index \in Nat /\ Len(stages) \in Nat
      /\ stages \in Seq(StageRecord) /\ StagesInv(tokens, stages) /\ ret \in 0 .. Len(stages)
  BY DEF Holding, PlanIInv, CheckIInv, CheckTypeOK, StagesInv
<1>2. /\ Callers \in Seq(PlannerFrame) /\ Len(Callers) = Len(stack) - 1
      /\ \A f \in 1 .. Len(stack) - 1 : Callers[f] = stack[f]
      /\ StackInv(tokens, Callers, index, Len(stages))
  BY <1>1, PopKeeps DEF Callers, Holding
<1>3. /\ Len(stack) \in Nat \ {0} /\ Top \in PlannerFrame /\ FrameOK(tokens, Top, index, Len(stages))
      /\ Len(stack) > 1 => CallerOK(stack[Len(stack) - 1], Top, index)
  BY TopFacts DEF Holding
<1>4. /\ Top = stack[Len(stack)] /\ Len(stack) \in 1 .. Len(stack) /\ Len(Callers) \in Nat
      /\ Len(Callers) + 1 = Len(stack) /\ stack \in Seq(PlannerFrame)
  BY <1>1, <1>2, <1>3 DEF Top, StackInv
<1>5. stack = Append(Callers, Top)
  <2>1. Append(Callers, Top) \in Seq(PlannerFrame) /\ Len(Append(Callers, Top)) = Len(Callers) + 1
    BY <1>2, <1>3
  <2>2. \A f \in 1 .. Len(Callers) : Append(Callers, Top)[f] = Callers[f]
    BY <1>2, <1>3
  <2>3. Append(Callers, Top)[Len(Callers) + 1] = Top
    BY <1>2, <1>3
  <2>4. ASSUME NEW f \in 1 .. Len(stack) PROVE Append(Callers, Top)[f] = stack[f]
    <3>1. f \in 1 .. Len(Callers) \/ f = Len(Callers) + 1
      BY <1>4
    <3>2. f \in 1 .. Len(Callers) => Callers[f] = stack[f]
      BY <1>2
    <3> QED
      BY <1>4, <2>2, <2>3, <3>1, <3>2
  <2> QED
    BY <1>4, <2>1, <2>4
<1>6. InHand(stages, stack, 0, ret) /\ EmptyHanded(stack) /\ (stack[Len(stack)].pc = "start" => ret = 0)
  BY DEF Holding, HandsInv
<1>7. InHand(stages, Callers, Top.left, ret)
  BY <1>1, <1>2, <1>3, <1>5, <1>6, PushedInHand
<1>8. (Top.pc \in EmptyPcs => Top.left = 0) /\ (Top.pc = "start" => ret = 0)
  BY <1>4, <1>6 DEF EmptyHanded
<1>9. EmptyHanded(Callers)
  BY <1>2, <1>4, <1>6 DEF EmptyHanded
<1>10. Callers # << >> => Callers[Len(Callers)].pc # "start"
  <2> SUFFICES ASSUME Callers # << >> PROVE Callers[Len(Callers)].pc # "start"
    OBVIOUS
  <2>1. Len(Callers) \in 1 .. Len(stack) - 1 /\ Len(stack) > 1
    BY <1>2, <1>4
  <2>2. Callers[Len(Callers)] = stack[Len(stack) - 1]
    BY <1>2, <2>1
  <2> QED
    BY <1>3, <2>1, <2>2 DEF CallerOK
<1>11. \A f \in 1 .. Len(Callers) : Callers[f].left <= Len(stages)
  BY <1>2 DEF StackInv, FrameOK
<1>12. Top.left \in 0 .. Len(stages)
  BY <1>1, <1>3 DEF FrameOK, PlannerFrame
<1>13. ChildrenWithin(stages)
  <2> SUFFICES ASSUME NEW j \in 1 .. Len(stages)
               PROVE  stages[j].leftStage <= Len(stages) /\ stages[j].rightStage <= Len(stages)
    BY DEF ChildrenWithin
  <2>1. StageOK(tokens, stages, stages[j], j - 1)
    BY <1>1 DEF StagesInv
  <2>2. stages[j].leftStage \in Nat /\ stages[j].leftStage <= j - 1
        /\ stages[j].rightStage \in Nat /\ stages[j].rightStage <= j - 1
    BY <2>1 DEF StageOK, StageRecord
  <2> QED
    BY <1>1, <2>2
<1> QED
  BY <1>1, <1>2, <1>3, <1>7, <1>8, <1>9, <1>10, <1>11, <1>12, <1>13

(* The hands after a step: the function returns, goes on or calls another.   *)
LEMMA ReturnsHeld ==
  ASSUME Holding, NEW right, InHand(stages', Callers, 0, right), Return(right)
  PROVE  HandsInv(stages, stack, ret)'
BY InHands DEF Return, HandsInv, EmptyHanded

LEMMA Fresh ==
  ASSUME NEW fn \in PlannerFns, NEW depth \in Nat
  PROVE  NewFrame(fn, depth) \in PlannerFrame /\ NewFrame(fn, depth).left = 0
<1>1. "start" \in Pcs
  BY DEF Pcs
<1> QED
  BY <1>1 DEF NewFrame, PlannerFrame, NilStage

LEMMA PushedEmpty ==
  ASSUME NEW p \in Seq(PlannerFrame), EmptyHanded(p), NEW frame \in PlannerFrame,
         frame.pc \in EmptyPcs => frame.left = 0
  PROVE  /\ EmptyHanded(Append(p, frame)) /\ Append(p, frame) \in Seq(PlannerFrame)
         /\ Append(p, frame)[Len(Append(p, frame))] = frame
BY DEF EmptyHanded

LEMMA GoesOnHeld ==
  ASSUME Holding, PlanIInv', NEW frame \in PlannerFrame, NEW right \in Nat, InHand(stages', Callers, frame.left, right),
         frame.pc \in EmptyPcs => frame.left = 0, frame.pc = "start" => right = 0,
         stack' = Append(Callers, frame), ret' = right
  PROVE  HandsInv(stages, stack, ret)'
<1>1. Callers \in Seq(PlannerFrame) /\ EmptyHanded(Callers) /\ stages' \in Seq(StageRecord)
  BY InHands DEF PlanIInv, StagesInv
<1>2. InHand(stages', stack', 0, ret')
  BY <1>1, PushedInHand
<1>3. EmptyHanded(stack') /\ stack'[Len(stack')] = frame
  BY <1>1, PushedEmpty
<1> QED
  BY <1>2, <1>3 DEF HandsInv, EmptyHanded

LEMMA CallsHeld ==
  ASSUME Holding, PlanIInv', NEW self \in PlannerFrame, InHand(stages', Callers, self.left, 0),
         self.pc \in EmptyPcs => self.left = 0, NEW fn \in PlannerFns, Call(self, fn)
  PROVE  HandsInv(stages, stack, ret)'
<1>1. Callers \in Seq(PlannerFrame) /\ EmptyHanded(Callers) /\ stages' \in Seq(StageRecord)
  BY InHands DEF PlanIInv, StagesInv
<1>2. PICK below : below = Append(Callers, self)
  OBVIOUS
<1>3. below \in Seq(PlannerFrame) /\ EmptyHanded(below)
  BY <1>1, <1>2, PushedEmpty
<1>4. DepthOf(self) \in Nat
  BY DEF DepthOf, PlannerFrame
<1>5. PICK frame \in PlannerFrame : frame = NewFrame(fn, DepthOf(self)) /\ frame.left = 0
  <2>1. NewFrame(fn, DepthOf(self)) \in PlannerFrame /\ NewFrame(fn, DepthOf(self)).left = 0
    BY <1>4, Fresh
  <2> QED
    BY <2>1
<1>6. stack' = Append(below, frame) /\ ret' = 0
  BY <1>2, <1>5 DEF Call, NilStage
<1>7. InHand(stages', below, 0, 0)
  BY <1>1, <1>2, PushedInHand
<1>8. InHand(stages', stack', 0, ret')
  BY <1>1, <1>3, <1>5, <1>6, <1>7, PushedInHand
<1>9. EmptyHanded(stack')
  BY <1>3, <1>5, <1>6, PushedEmpty
<1> QED
  BY <1>6, <1>8, <1>9 DEF HandsInv, EmptyHanded

LEMMA BecomesHeld ==
  ASSUME Holding, PlanIInv', InHand(stages', Callers, 0, 0), NEW fn \in PlannerFns, Become(fn)
  PROVE  HandsInv(stages, stack, ret)'
<1>1. Top.depth \in Nat
  BY InHands DEF PlannerFrame
<1>2. PICK frame \in PlannerFrame : frame = NewFrame(fn, Top.depth) /\ frame.left = 0
  <2>1. NewFrame(fn, Top.depth) \in PlannerFrame /\ NewFrame(fn, Top.depth).left = 0
    BY <1>1, Fresh
  <2> QED
    BY <2>1
<1>3. stack' = Append(Callers, frame) /\ ret' = 0
  BY <1>2 DEF Become, NilStage
<1> QED
  BY <1>2, <1>3, GoesOnHeld

LEMMA ContinuesHeld ==
  ASSUME Holding, PlanIInv', NEW right \in Nat, InHand(stages', Callers, 0, right),
         NEW pc \in Pcs \ { "start" }, Continue(pc, right)
  PROVE  HandsInv(stages, stack, ret)'
<1>1. PICK frame : frame = [Top EXCEPT !.pc = pc, !.left = NilStage]
  OBVIOUS
<1>2. Moved(frame, Top, pc, 0, Top.at)
  BY <1>1, InHands, Moves DEF NilStage
<1>3. stack' = Append(Callers, frame) /\ ret' = right
  BY <1>1 DEF Continue
<1> QED
  BY <1>2, <1>3, GoesOnHeld DEF Moved

(* The function makes a stage of what it has in its hands. *)
LEMMA BuildsHeld ==
  ASSUME Holding, PlanIInv', NEW stage, Build(stage), stage.leftStage = Top.left, stage.rightStage = ret
  PROVE  InHand(stages', Callers, 0, Last) /\ InHand(stages', Callers, Last, 0)
<1>1. stages' \in Seq(StageRecord) /\ stages' = Append(stages, stage) /\ stages \in Seq(StageRecord)
  BY InHands DEF PlanIInv, StagesInv, Build
<1>2. stage \in StageRecord
  <2>1. Len(stages) + 1 \in 1 .. Len(stages') /\ stages'[Len(stages) + 1] = stage
    BY <1>1
  <2> QED
    BY <1>1, <2>1
<1>3. InHand(stages', Callers, 0, Last)
  BY <1>1, <1>2, InHands, BuiltInHand DEF Last
<1> QED
  BY <1>1, <1>3, OtherInHand

LEMMA BuildsReturns ==
  ASSUME Holding, PlanIInv', NEW stage, Build(stage), stage.leftStage = Top.left, stage.rightStage = ret,
         Return(Last)
  PROVE  HandsInv(stages, stack, ret)'
<1>1. PICK last : last = Last
  OBVIOUS
<1>2. InHand(stages', Callers, 0, last) /\ Return(last)
  BY <1>1, BuildsHeld DEF Return
<1> QED
  BY <1>2, ReturnsHeld

LEMMA BuildsContinues ==
  ASSUME Holding, PlanIInv', NEW stage, Build(stage), stage.leftStage = Top.left, stage.rightStage = ret,
         NEW pc \in Pcs \ { "start" }, Continue(pc, Last)
  PROVE  HandsInv(stages, stack, ret)'
<1>1. PICK last : last = Last
  OBVIOUS
<1>2. InHand(stages', Callers, 0, last) /\ Continue(pc, last) /\ last \in Nat
  BY <1>1, BuildsHeld, InHands DEF Continue, Last
<1> QED
  BY <1>2, ContinuesHeld

(* The function asks for its first operand, with empty hands. *)
LEMMA AsksHeld ==
  ASSUME Holding, PlanIInv', Top.pc = "start", stages' = stages, NEW self \in PlannerFrame,
         self.left = Top.left, NEW fn \in PlannerFns, Call(self, fn)
  PROVE  HandsInv(stages, stack, ret)'
<1>1. Top.left = 0 /\ ret = 0 /\ InHand(stages', Callers, 0, 0)
  BY InHands DEF EmptyPcs
<1> QED
  BY <1>1, CallsHeld

(* It takes what was returned to the left, and asks for the next operand.    *)
LEMMA TakesHeld ==
  ASSUME Holding, PlanIInv', Top.pc \in EmptyPcs, stages' = stages,
         NEW pc \in Pcs \ EmptyPcs, NEW fn \in PlannerFns,
         Call([Top EXCEPT !.pc = pc, !.left = ret, !.at = index + 1], fn)
  PROVE  HandsInv(stages, stack, ret)'
<1>1. PICK self : self = [Top EXCEPT !.pc = pc, !.left = ret, !.at = index + 1]
  OBVIOUS
<1>2. Top \in PlannerFrame /\ ret \in Nat /\ index + 1 \in Nat
  BY InHands, Reads DEF Holding
<1>3. Moved(self, Top, pc, ret, index + 1)
  BY <1>1, <1>2, Moves, Zenon
<1>4. InHand(stages', Callers, 0, ret) /\ stages' \in Seq(StageRecord)
  BY InHands
<1>5. InHand(stages', Callers, self.left, 0)
  BY <1>3, <1>4, OtherInHand DEF Moved
<1>6. Call(self, fn)
  BY <1>1
<1> QED
  BY <1>3, <1>5, <1>6, CallsHeld DEF Moved

-----------------------------------------------------------------------------
(* The steps, hand by hand *)

LEMMA HeldAt ==
  ASSUME HeldIInv, NEW fns, NEW pc, At(fns, pc)
  PROVE  Holding /\ Top.fn \in fns /\ Top.pc = pc
BY DEF At, Holding, HeldIInv

LEMMA LevelHeld ==
  ASSUME HeldIInv, PlanIInv', LevelStep
  PROVE  HandsInv(stages, stack, ret)'
<1>1. Holding /\ Top.fn \in Levels
  BY HeldAt DEF LevelStep, PlanLeft, TakeOperator, LeaveLevel, PlanRight
<1>2. CASE PlanLeft
  <2>1. Top.pc = "start" /\ stages' = stages
    BY <1>2 DEF PlanLeft, At
  <2>2. CASE precedencePlanner[Top.fn].next = "none"
    <3>1. PICK pc, right : pc = "left" /\ right = 0
      OBVIOUS
    <3>2. Continue(pc, right)
      BY <1>2, <2>2, <3>1 DEF PlanLeft, NilStage
    <3>3. InHand(stages', Callers, 0, right) /\ pc \in Pcs \ { "start" } /\ right \in Nat
      BY <1>1, <2>1, <3>1, InHands DEF EmptyPcs, Pcs
    <3> QED
      BY <1>1, <3>2, <3>3, ContinuesHeld
  <2>3. CASE precedencePlanner[Top.fn].next # "none"
    <3>1. PICK self, fn : self = [Top EXCEPT !.pc = "left"] /\ fn = precedencePlanner[Top.fn].next
      OBVIOUS
    <3>2. Call(self, fn)
      BY <1>2, <2>3, <3>1 DEF PlanLeft
    <3>3. Moved(self, Top, "left", Top.left, Top.at)
      BY <1>1, <3>1, InHands, Moves DEF Pcs, PlannerFrame
    <3>4. fn \in PlannerFns
      BY <1>1, <2>3, <3>1, LevelTable
    <3> QED
      BY <1>1, <2>1, <3>2, <3>3, <3>4, AsksHeld DEF Moved
  <2> QED
    BY <2>2, <2>3
<1>3. CASE TakeOperator
  <2>1. Top.pc \in EmptyPcs /\ stages' = stages
    BY <1>3 DEF TakeOperator, At, EmptyPcs
  <2>2. PICK pc, fn : pc = "right" /\ fn = precedencePlanner[Top.fn].nextRight
    OBVIOUS
  <2>3. Call([Top EXCEPT !.pc = pc, !.left = ret, !.at = index + 1], fn)
    BY <1>3, <2>2 DEF TakeOperator
  <2>4. fn \in PlannerFns /\ pc \in Pcs \ EmptyPcs
    BY <1>1, <2>2, LevelTable DEF Pcs, EmptyPcs
  <2> QED
    BY <1>1, <2>1, <2>3, <2>4, TakesHeld
<1>4. CASE LeaveLevel
  <2>1. PICK right : right = ret
    OBVIOUS
  <2>2. Return(right) /\ InHand(stages', Callers, 0, right)
    BY <1>1, <1>4, <2>1, InHands DEF LeaveLevel, At, EmptyPcs, Return
  <2> QED
    BY <1>1, <2>2, ReturnsHeld
<1>5. CASE PlanRight
  <2>1. PICK stage :
          stage = OperatorStage(precedencePlanner[Top.fn].validSymbols[tokens[Top.at].value], Top.left, ret)
    OBVIOUS
  <2>2. Build(stage) /\ Return(Last)
    BY <1>5, <2>1 DEF PlanRight
  <2>3. stage.leftStage = Top.left /\ stage.rightStage = ret
    BY <2>1 DEF OperatorStage, NewStage
  <2> QED
    BY <1>1, <2>2, <2>3, BuildsReturns
<1> QED
  BY <1>2, <1>3, <1>4, <1>5 DEF LevelStep

LEMMA TernaryTakesHeld ==
  ASSUME HeldIInv, PlanIInv', NEW text, NEW pc \in Pcs \ EmptyPcs, NEW fn \in PlannerFns,
         TakeTernary(text, pc, fn)
  PROVE  HandsInv(stages, stack, ret)'
<1>1. Holding /\ Top.pc \in EmptyPcs /\ stages' = stages
  BY HeldAt DEF TakeTernary, EmptyPcs
<1>2. Call([Top EXCEPT !.pc = pc, !.left = ret, !.at = index + 1], fn)
  BY DEF TakeTernary
<1> QED
  BY <1>1, <1>2, TakesHeld

LEMMA TernaryHeld ==
  ASSUME HeldIInv, PlanIInv', TernaryStep
  PROVE  HandsInv(stages, stack, ret)'
<1>1. Holding
  BY HeldAt DEF TernaryStep, PlanCondition, TakeTernary, TakeCoalesce, TakeQuestion, TakeBareColon,
                LeaveTernary, PlanCoalesce, PlanTrueBranch, PlanFalseBranch
<1>2. /\ { "coalesce", "true", "false" } \subseteq Pcs \ EmptyPcs /\ "left" \in Pcs \ { "start" }
      /\ { "planTernary", "planTernaryInner", "planLogicalOr" } \subseteq PlannerFns
  BY DEF Pcs, EmptyPcs, PlannerFns, TernaryFns, Levels, precedencePlanner
<1>3. CASE PlanCondition
  <2>1. Top.pc = "start" /\ stages' = stages
    BY <1>3 DEF PlanCondition, At
  <2>2. PICK self, fn : self = [Top EXCEPT !.pc = "left"] /\ fn = "planLogicalOr"
    OBVIOUS
  <2>3. Call(self, fn)
    BY <1>3, <2>2 DEF PlanCondition
  <2>4. Moved(self, Top, "left", Top.left, Top.at)
    BY <1>1, <2>2, InHands, Moves DEF Pcs, PlannerFrame
  <2> QED
    BY <1>1, <1>2, <2>1, <2>2, <2>3, <2>4, AsksHeld DEF Moved
<1>4. CASE TakeCoalesce \/ TakeQuestion \/ TakeBareColon
  BY <1>2, <1>4, TernaryTakesHeld DEF TakeCoalesce, TakeQuestion, TakeBareColon
<1>5. CASE LeaveTernary
  <2>1. PICK right : right = ret
    OBVIOUS
  <2>2. Return(right) /\ InHand(stages', Callers, 0, right)
    BY <1>1, <1>5, <2>1, InHands DEF LeaveTernary, At, EmptyPcs, Return
  <2> QED
    BY <1>1, <2>2, ReturnsHeld
<1>6. CASE PlanCoalesce
  <2>1. PICK stage, pc : stage = OperatorStage("COALESCE", Top.left, ret) /\ pc = "left"
    OBVIOUS
  <2>2. Build(stage) /\ Continue(pc, Last)
    BY <1>6, <2>1 DEF PlanCoalesce
  <2>3. stage.leftStage = Top.left /\ stage.rightStage = ret
    BY <2>1 DEF OperatorStage, NewStage
  <2> QED
    BY <1>1, <1>2, <2>1, <2>2, <2>3, BuildsContinues
<1>7. CASE PlanTrueBranch
  <2>1. PICK stage : stage = OperatorStage("TERNARY_TRUE", Top.left, ret)
    OBVIOUS
  <2>2. Build(stage)
    BY <1>7, <2>1 DEF PlanTrueBranch
  <2>3. stage.leftStage = Top.left /\ stage.rightStage = ret
    BY <2>1 DEF OperatorStage, NewStage
  <2>4. CASE IsTernary(":")
    <3>1. PICK self, fn : self = [Top EXCEPT !.pc = "false", !.left = Last, !.at = index + 1] /\ fn = Top.fn
      OBVIOUS
    <3>2. Call(self, fn)
      BY <1>7, <2>4, <3>1 DEF PlanTrueBranch
    <3>3. Top \in PlannerFrame /\ Last \in Nat /\ index + 1 \in Nat /\ "false" \in Pcs
      BY <1>1, <1>2, InHands, Reads DEF Holding, Last
    <3>4. Moved(self, Top, "false", Last, index + 1)
      BY <3>1, <3>3, Moves, Zenon
    <3>5. fn \in PlannerFns
      BY <3>1, <3>3 DEF PlannerFrame
    <3>6. InHand(stages', Callers, self.left, 0)
      BY <1>1, <2>2, <2>3, <3>4, BuildsHeld DEF Moved
    <3>7. self.pc \notin EmptyPcs /\ self \in PlannerFrame
      BY <1>2, <3>4 DEF Moved
    <3> QED
      BY <1>1, <3>2, <3>5, <3>6, <3>7, CallsHeld
  <2>5. CASE ~IsTernary(":")
    <3>1. Return(Last)
      BY <1>7, <2>5 DEF PlanTrueBranch
    <3> QED
      BY <1>1, <2>2, <2>3, <3>1, BuildsReturns
  <2> QED
    BY <2>4, <2>5
<1>8. CASE PlanFalseBranch
  <2>1. PICK stage : stage = OperatorStage("TERNARY_FALSE", Top.left, ret)
    OBVIOUS
  <2>2. Build(stage) /\ Return(Last)
    BY <1>8, <2>1 DEF PlanFalseBranch
  <2>3. stage.leftStage = Top.left /\ stage.rightStage = ret
    BY <2>1 DEF OperatorStage, NewStage
  <2> QED
    BY <1>1, <2>2, <2>3, BuildsReturns
<1> QED
  BY <1>3, <1>4, <1>5, <1>6, <1>7, <1>8 DEF TernaryStep

(* A step that fails ends the planning: it leaves no hands to check.         *)
LEMMA FunctionHeld ==
  ASSUME HeldIInv, PlanIInv', FunctionStep
  PROVE  \/ HandsInv(stages, stack, ret)' /\ plan' = "running"
         \/ plan' = "rejected"
<1>1. Holding /\ plan = "running"
  BY HeldAt DEF FunctionStep, TakeFunction, NoFunction, PlanFunctionCall, At
<1>2. "call" \in Pcs /\ "planAccessor" \in PlannerFns
  BY DEF Pcs, PlannerFns
<1>3. CASE TakeFunction
  <2>1. Top.pc = "start" /\ stages' = stages /\ plan' = plan
    BY <1>3 DEF TakeFunction, At, Keep
  <2>2. PICK self, fn : self = [Top EXCEPT !.pc = "call", !.at = index + 1] /\ fn = "planAccessor"
    OBVIOUS
  <2>3. Call(self, fn)
    BY <1>3, <2>2 DEF TakeFunction
  <2>4. Top \in PlannerFrame /\ index + 1 \in Nat
    BY <1>1, InHands, Reads DEF Holding
  <2>5. Moved(self, Top, "call", Top.left, index + 1)
    BY <1>2, <2>2, <2>4, Moves, Zenon DEF PlannerFrame
  <2> QED
    BY <1>1, <1>2, <2>1, <2>2, <2>3, <2>5, AsksHeld DEF Moved
<1>4. CASE NoFunction
  <2>1. Top.pc = "start" /\ stages' = stages /\ plan' # "panic"
    BY <1>4 DEF NoFunction, At, PlanIInv, NoPanic
  <2>2. PICK fn : fn = "planAccessor"
    OBVIOUS
  <2>3. Become(fn) /\ plan' = plan
    BY <1>4, <2>1, <2>2 DEF NoFunction
  <2>4. InHand(stages', Callers, 0, 0)
    BY <1>1, <2>1, InHands DEF EmptyPcs
  <2> QED
    BY <1>1, <1>2, <2>2, <2>3, <2>4, BecomesHeld
<1>5. CASE PlanFunctionCall
  <2>1. Top.left = 0
    BY <1>1, <1>5, InHands DEF PlanFunctionCall, At, EmptyPcs
  <2>2. CASE Fail
    BY <2>2 DEF Fail
  <2>3. CASE ~Fail
    <3>1. PICK stage : stage = OperatorStage("FUNCTIONAL", NilStage, ret)
      OBVIOUS
    <3>2. Build(stage) /\ Return(Last) /\ plan' = plan
      BY <1>5, <2>3, <3>1 DEF PlanFunctionCall, Keep
    <3>3. stage.leftStage = Top.left /\ stage.rightStage = ret
      BY <2>1, <3>1 DEF OperatorStage, NewStage, NilStage
    <3> QED
      BY <1>1, <3>2, <3>3, BuildsReturns
  <2> QED
    BY <2>2, <2>3
<1> QED
  BY <1>3, <1>4, <1>5 DEF FunctionStep

LEMMA AccessorHeld ==
  ASSUME HeldIInv, PlanIInv', AccessorStep
  PROVE  \/ HandsInv(stages, stack, ret)' /\ plan' = "running"
         \/ plan' = "rejected"
<1>1. Holding /\ plan = "running"
  BY HeldAt DEF AccessorStep, TakeField, TakeEmptyMethod, TakeMethod, PlanMethodArgs, PlanAccess, NoAccessor,
                At
<1>2. /\ { "access", "args" } \subseteq Pcs \ { "start" }
      /\ { "planSeparator", "planValue" } \subseteq PlannerFns
  BY DEF Pcs, PlannerFns, Levels, precedencePlanner
<1>3. Top \in PlannerFrame /\ Top.left \in Nat /\ index + 1 \in Nat
  BY <1>1, InHands, Reads DEF Holding
<1>4. Moved([Top EXCEPT !.pc = "access", !.at = index + 1], Top, "access", Top.left, index + 1)
  BY <1>2, <1>3, Moves, Zenon
<1>5. CASE TakeField
  <2>1. Top.pc = "start" /\ stages' = stages /\ plan' = plan
    BY <1>5 DEF TakeField, At, Keep
  <2>2. PICK frame, right : frame = [Top EXCEPT !.pc = "access", !.at = index + 1] /\ right = 0
    OBVIOUS
  <2>3. stack' = Append(Callers, frame) /\ ret' = right
    BY <1>5, <2>2 DEF TakeField, NilStage
  <2>4. frame \in PlannerFrame /\ frame.left = 0 /\ frame.pc = "access"
    BY <1>1, <1>4, <2>1, <2>2, InHands DEF Moved, EmptyPcs
  <2>5. InHand(stages', Callers, frame.left, right) /\ right \in Nat
    BY <1>1, <2>1, <2>2, <2>4, InHands DEF EmptyPcs
  <2> QED
    BY <1>1, <2>1, <2>3, <2>4, <2>5, GoesOnHeld
<1>6. CASE TakeEmptyMethod
  <2>1. Top.pc = "start" /\ plan' = plan /\ Top.left = 0 /\ ret = 0
    BY <1>1, <1>6, InHands DEF TakeEmptyMethod, At, Keep, EmptyPcs
  <2>2. PICK frame, right, stage :
          /\ frame = [Top EXCEPT !.pc = "access", !.at = index + 1] /\ right = Last
          /\ stage = LiteralStage("collectedArgs", index + 2)
    OBVIOUS
  <2>3. stack' = Append(Callers, frame) /\ ret' = right /\ Build(stage)
    BY <1>6, <2>2 DEF TakeEmptyMethod
  <2>4. frame \in PlannerFrame /\ frame.left = 0 /\ frame.pc = "access"
    BY <1>4, <2>1, <2>2 DEF Moved
  <2>5. stage.leftStage = Top.left /\ stage.rightStage = ret
    BY <2>1, <2>2 DEF LiteralStage, NewStage, NilStage
  <2>6. InHand(stages', Callers, frame.left, right) /\ right \in Nat
    BY <1>1, <2>2, <2>3, <2>4, <2>5, BuildsHeld, InHands DEF Last
  <2> QED
    BY <1>1, <2>1, <2>3, <2>4, <2>6, GoesOnHeld
<1>7. CASE TakeMethod
  <2>1. CASE Fail
    BY <2>1 DEF Fail
  <2>2. CASE ~Fail
    <3>1. PICK self, fn : self = [Top EXCEPT !.pc = "args", !.at = index + 1] /\ fn = "planSeparator"
      OBVIOUS
    <3>2. Call(self, fn) /\ Top.pc = "start" /\ stages' = stages /\ plan' = plan
      BY <1>7, <2>2, <3>1 DEF TakeMethod, At, Keep
    <3>3. Moved(self, Top, "args", Top.left, index + 1)
      BY <1>2, <1>3, <3>1, Moves, Zenon
    <3> QED
      BY <1>1, <1>2, <3>1, <3>2, <3>3, AsksHeld DEF Moved
  <2> QED
    BY <2>1, <2>2
<1>8. CASE PlanMethodArgs
  <2>1. Top.left = 0
    BY <1>1, <1>8, InHands DEF PlanMethodArgs, At, EmptyPcs
  <2>2. CASE Fail
    BY <2>2 DEF Fail
  <2>3. CASE ~Fail
    <3>1. PICK stage, pc :
            /\ stage = IF ret = NilStage
                         THEN LiteralStage("collectedArgs", Top.at + 1)
                         ELSE NewStage("NOOP", "ensureCollectedArgs", NilStage, ret, Top.at + 1)
            /\ pc = "access"
      OBVIOUS
    <3>2. Build(stage) /\ Continue(pc, Last) /\ plan' = plan
      BY <1>8, <2>3, <3>1 DEF PlanMethodArgs, Keep
    <3>3. stage.leftStage = Top.left /\ stage.rightStage = ret
      BY <2>1, <3>1 DEF LiteralStage, NewStage, NilStage
    <3> QED
      BY <1>1, <1>2, <3>1, <3>2, <3>3, BuildsContinues
  <2> QED
    BY <2>2, <2>3
<1>9. CASE PlanAccess
  <2>1. Top.left = 0
    BY <1>1, <1>9, InHands DEF PlanAccess, At, EmptyPcs
  <2>2. CASE Fail
    BY <2>2 DEF Fail
  <2>3. CASE ~Fail
    <3>1. PICK stage : stage = OperatorStage("ACCESS", NilStage, ret)
      OBVIOUS
    <3>2. Build(stage) /\ Return(Last) /\ plan' = plan
      BY <1>9, <2>3, <3>1 DEF PlanAccess, Keep
    <3>3. stage.leftStage = Top.left /\ stage.rightStage = ret
      BY <2>1, <3>1 DEF OperatorStage, NewStage, NilStage
    <3> QED
      BY <1>1, <3>2, <3>3, BuildsReturns
  <2> QED
    BY <2>2, <2>3
<1>10. CASE NoAccessor
  <2>1. InHand(stages', Callers, 0, 0) /\ plan' = plan
    BY <1>1, <1>10, InHands DEF NoAccessor, At, EmptyPcs, Keep
  <2>2. PICK fn, right : fn = "planValue" /\ right = 0
    OBVIOUS
  <2>3. Become(fn) \/ Return(right)
    BY <1>10, <2>2 DEF NoAccessor, NilStage
  <2> QED
    BY <1>1, <1>2, <2>1, <2>2, <2>3, BecomesHeld, ReturnsHeld
<1> QED
  BY <1>5, <1>6, <1>7, <1>8, <1>9, <1>10 DEF AccessorStep

(* An empty clause after "in" or a function makes two stages of nothing: a   *)
(* literal, and the packer that holds it.                                    *)
LEMMA EmptyClauseHeld ==
  ASSUME Holding, PlanIInv', Top.left = 0, ret = 0, NEW literal, NEW noop,
         literal.leftStage = 0, literal.rightStage = 0, noop.leftStage = 0, noop.rightStage = Last,
         stages' = Append(Append(stages, literal), noop), Return(Last + 1)
  PROVE  HandsInv(stages, stack, ret)'
<1>1. stages' \in Seq(StageRecord)
  BY DEF PlanIInv, StagesInv
<1>11. /\ stages \in Seq(StageRecord) /\ ChildrenWithin(stages) /\ Len(stages) \in Nat
       /\ InHand(stages, Callers, 0, 0) /\ Callers \in Seq(PlannerFrame)
       /\ \A f \in 1 .. Len(Callers) : Callers[f].left <= Len(stages)
  BY InHands
<1>2. PICK one : one = Append(stages, literal)
  OBVIOUS
<1>3. /\ stages' = Append(one, noop) /\ Len(stages') = Len(stages) + 2
      /\ stages'[Len(stages) + 1] = literal /\ stages'[Len(stages) + 2] = noop
  BY <1>1, <1>2, <1>11
<1>4. literal \in StageRecord /\ noop \in StageRecord
  BY <1>1, <1>3, <1>11
<1>5. /\ one \in Seq(StageRecord) /\ Len(one) = Len(stages) + 1
      /\ \A j \in 1 .. Len(stages) : one[j] = stages[j]
      /\ \A j \in 1 .. Len(one) : one[j] = stages'[j]
  BY <1>1, <1>2, <1>3, <1>4, <1>11
<1>6. InHand(one, Callers, 0, Last)
  <2>1. /\ InHand(stages, Callers, literal.leftStage, literal.rightStage)
        /\ literal.leftStage <= Len(stages) /\ literal.rightStage <= Len(stages)
    BY <1>11
  <2> QED
    BY <1>2, <1>4, <1>11, <2>1, BuiltInHand DEF Last
<1>7. \A f \in 1 .. Len(Callers) : Callers[f].left <= Len(one)
  <2> SUFFICES ASSUME NEW f \in 1 .. Len(Callers) PROVE Callers[f].left <= Len(one)
    OBVIOUS
  <2>1. Callers[f] \in PlannerFrame
    BY <1>11
  <2>2. Callers[f].left \in Nat /\ Callers[f].left <= Len(stages)
    BY <1>11, <2>1 DEF PlannerFrame
  <2> QED
    BY <1>5, <1>11, <2>2
<1>8. ChildrenWithin(one)
  <2> SUFFICES ASSUME NEW j \in 1 .. Len(one)
               PROVE  one[j].leftStage <= Len(one) /\ one[j].rightStage <= Len(one)
    BY DEF ChildrenWithin
  <2>1. CASE j \in 1 .. Len(stages)
    <3>1. one[j] = stages[j] /\ stages[j] \in StageRecord
      BY <1>5, <1>11, <2>1
    <3>2. stages[j].leftStage \in Nat /\ stages[j].rightStage \in Nat
      BY <3>1 DEF StageRecord
    <3>3. stages[j].leftStage <= Len(stages) /\ stages[j].rightStage <= Len(stages)
      BY <1>11, <2>1 DEF ChildrenWithin
    <3> QED
      BY <1>5, <1>11, <3>1, <3>2, <3>3
  <2>2. CASE j \notin 1 .. Len(stages)
    <3>1. one[j] = literal
      BY <1>2, <1>4, <1>5, <1>11, <2>2
    <3> QED
      BY <1>5, <1>11, <3>1
  <2> QED
    BY <2>1, <2>2
<1>9. PICK last : last = Last + 1
  OBVIOUS
<1>10. InHand(stages', Callers, 0, last) /\ Return(last)
  <2>1. /\ InHand(one, Callers, noop.leftStage, noop.rightStage)
        /\ noop.leftStage <= Len(one) /\ noop.rightStage <= Len(one)
    BY <1>5, <1>6, <1>11 DEF Last
  <2> QED
    BY <2>1, <1>3, <1>4, <1>5, <1>6, <1>7, <1>8, <1>9, <1>11, BuiltInHand DEF Last, Return
<1> QED
  BY <1>10, ReturnsHeld

LEMMA ValueHeld ==
  ASSUME HeldIInv, PlanIInv', ValueStep
  PROVE  \/ HandsInv(stages, stack, ret)' /\ plan' = "running"
         \/ plan' = "rejected"
<1>1. Holding /\ plan = "running"
  BY HeldAt DEF ValueStep, TakeValue, NoValue, TakePrefix, Unplannable, TakeClause, CloseClause, At
<1>2. "clause" \in Pcs /\ { "planSeparator", "planPrefix" } \subseteq PlannerFns
  BY DEF Pcs, PlannerFns, Levels, precedencePlanner
<1>3. CASE Fail
  BY <1>3 DEF Fail
<1>4. CASE TakeValue /\ ~Fail
  <2>1. Top.left = 0 /\ ret = 0
    BY <1>1, <1>4, InHands DEF TakeValue, At, EmptyPcs
  <2>2. PICK stage :
          stage = IF Token.kind = "VARIABLE"
                    THEN NewStage("VALUE", "parameter", NilStage, NilStage, index + 1)
                    ELSE LiteralStage("constant", index + 1)
    OBVIOUS
  <2>3. Build(stage) /\ Return(Last) /\ plan' = plan
    BY <1>4, <2>2 DEF TakeValue, Keep
  <2>4. stage.leftStage = Top.left /\ stage.rightStage = ret
    BY <2>1, <2>2 DEF LiteralStage, NewStage, NilStage
  <2> QED
    BY <1>1, <2>3, <2>4, BuildsReturns
<1>5. CASE NoValue \/ TakePrefix
  <2>1. InHand(stages', Callers, 0, 0) /\ plan' = plan
    BY <1>1, <1>5, InHands DEF NoValue, TakePrefix, At, EmptyPcs, Keep
  <2>2. PICK fn, right : fn = "planPrefix" /\ right = 0
    OBVIOUS
  <2>3. Become(fn) \/ Return(right)
    BY <1>5, <2>2 DEF NoValue, TakePrefix, NilStage
  <2> QED
    BY <1>1, <1>2, <2>1, <2>2, <2>3, BecomesHeld, ReturnsHeld
<1>6. CASE TakeClause /\ ~Fail
  <2>1. PICK self, fn : self = [Top EXCEPT !.pc = "clause", !.at = index + 1] /\ fn = "planSeparator"
    OBVIOUS
  <2>2. Call(self, fn) /\ Top.pc = "start" /\ stages' = stages /\ plan' = plan
    BY <1>6, <2>1 DEF TakeClause, At, Keep
  <2>3. Top \in PlannerFrame /\ Top.left \in Nat /\ index + 1 \in Nat
    BY <1>1, InHands, Reads DEF Holding
  <2>4. Moved(self, Top, "clause", Top.left, index + 1)
    BY <1>2, <2>1, <2>3, Moves, Zenon
  <2> QED
    BY <1>1, <1>2, <2>1, <2>2, <2>4, AsksHeld DEF Moved
<1>7. CASE CloseClause /\ ~Fail
  <2>1. Top.left = 0 /\ plan' = plan
    BY <1>1, <1>7, InHands DEF CloseClause, At, EmptyPcs
  <2>2. CASE ret = NilStage /\ (AfterIn \/ AfterFunction)
    <3>1. PICK literal, noop :
            /\ literal = LiteralStage(IF AfterIn THEN "emptySlice" ELSE "collectedArgs", Top.at)
            /\ noop = NewStage("NOOP", ClauseOperator, NilStage, Last, Top.at)
      OBVIOUS
    <3>2. stages' = Append(Append(stages, literal), noop) /\ Return(Last + 1)
      BY <1>7, <2>2, <3>1 DEF CloseClause
    <3>3. /\ literal.leftStage = 0 /\ literal.rightStage = 0
          /\ noop.leftStage = 0 /\ noop.rightStage = Last
      BY <3>1 DEF LiteralStage, NewStage, NilStage
    <3> QED
      BY <1>1, <2>1, <2>2, <3>2, <3>3, EmptyClauseHeld DEF NilStage
  <2>3. CASE ~(ret = NilStage /\ (AfterIn \/ AfterFunction))
    <3>1. PICK stage : stage = NewStage("NOOP", ClauseOperator, NilStage, ret, Top.at)
      OBVIOUS
    <3>2. Build(stage) /\ Return(Last)
      BY <1>7, <2>3, <3>1 DEF CloseClause
    <3>3. stage.leftStage = Top.left /\ stage.rightStage = ret
      BY <2>1, <3>1 DEF NewStage, NilStage
    <3> QED
      BY <1>1, <2>1, <3>2, <3>3, BuildsReturns
  <2> QED
    BY <2>2, <2>3
<1> QED
  BY <1>3, <1>4, <1>5, <1>6, <1>7 DEF ValueStep, Unplannable

-----------------------------------------------------------------------------
(* Every stage is held once, throughout *)

LEMMA NothingHeld ==
  ASSUME NEW p, \A f \in 1 .. Len(p) : p[f].left = 0 PROVE InHand(<< >>, p, 0, 0)
<1>1. HeldWith(<< >>, p, 0, 0)
  BY DEF HeldWith
<1>2. PostOrdered(<< >>) /\ Closed(<< >>, 0, 0)
  BY DEF PostOrdered, Closed
<1>3. OrderedWith(<< >>, p, 0, 0)
  <2>1. /\ Closed(<< >>, 0, Len(<< >>)) /\ \A f \in 1 .. Len(p) : Closed(<< >>, p[f].left, Len(<< >>))
        /\ \A f, h \in 1 .. Len(p) : f < h => p[h].left = 0 \/ p[f].left < p[h].left
    BY <1>2
  <2> QED
    BY <1>2, <2>1 DEF OrderedWith
<1> QED
  BY <1>1, <1>3 DEF InHand

LEMMA HeldInit == PlanInit => HeldIInv
BY PlanInitIInv DEF PlanInit, HeldIInv

LEMMA HeldStep == HeldIInv /\ [PlanNext \/ Returned]_allVars => HeldIInv'
<1> SUFFICES ASSUME HeldIInv, [PlanNext \/ Returned]_allVars PROVE HeldIInv'
  OBVIOUS
<1>1. PlanIInv /\ PlanIInv'
  BY PlanStepIInv DEF HeldIInv
<1>2. CASE UNCHANGED planVars
  BY <1>1, <1>2 DEF HeldIInv, planVars
<1>3. CASE PlanStart
  <2>1. stages' = << >> /\ ret' = 0 /\ plan' = "running"
    BY <1>1, <1>3 DEF PlanStart, PlanIInv
  <2>2. PICK frame : frame = NewFrame("planSeparator", 0)
    OBVIOUS
  <2>3. frame.left = 0
    BY <2>2 DEF NewFrame, NilStage
  <2>4. stack' = <<frame>> \/ stack' = << >>
    BY <1>3, <2>2 DEF PlanStart
  <2>5. \A f \in 1 .. Len(stack') : stack'[f].left = 0
    BY <2>3, <2>4
  <2>6. EmptyHanded(stack') /\ InHand(<< >>, stack', 0, 0)
    BY <2>5, NothingHeld DEF EmptyHanded
  <2> QED
    BY <1>1, <2>1, <2>6 DEF HeldIInv, HandsInv
<1>4. CASE PlanDone
  BY <1>1, <1>4 DEF PlanDone, HeldIInv, HandsInv
<1>5. CASE LevelStep
  <2>1. plan' = "running"
    BY <1>5 DEF LevelStep, PlanLeft, TakeOperator, LeaveLevel, PlanRight, At, Keep
  <2> QED
    BY <1>1, <1>5, <2>1, LevelHeld DEF HeldIInv, HandsInv
<1>6. CASE TernaryStep
  <2>1. plan' = "running"
    BY <1>6 DEF TernaryStep, PlanCondition, TakeTernary, TakeCoalesce, TakeQuestion, TakeBareColon, LeaveTernary,
                PlanCoalesce, PlanTrueBranch, PlanFalseBranch, At, Keep
  <2> QED
    BY <1>1, <1>6, <2>1, TernaryHeld DEF HeldIInv, HandsInv
<1>7. CASE FunctionStep \/ AccessorStep \/ ValueStep
  BY <1>1, <1>7, FunctionHeld, AccessorHeld, ValueHeld DEF HeldIInv, HandsInv
<1>8. CASE Returned \/ UNCHANGED allVars
  BY <1>2, <1>8 DEF Returned, allVars
<1> QED
  BY <1>2, <1>3, <1>4, <1>5, <1>6, <1>7, <1>8 DEF PlanNext, PlanStep

LEMMA HeldInvariance == PlanSpec => []HeldIInv
BY HeldInit, HeldStep, PTL DEF PlanSpec

(* Throughout the descent every stage made is held in exactly one place: no  *)
(* operand of an expression is dropped, and none is put into the tree twice. *)
THEOREM EveryStageHeldOnce == PlanSpec => []HeldOnce
<1>1. HeldIInv => HeldOnce
  <2> SUFFICES ASSUME HeldIInv, plan \in { "running", "planned" }, NEW k \in Stages
               PROVE  Cardinality(Holders(k)) = 1
    BY DEF HeldOnce
  <2>1. /\ stages \in Seq(StageRecord) /\ stack \in Seq(PlannerFrame) /\ InHand(stages, stack, 0, ret)
    BY DEF HeldIInv, HandsInv, PlanIInv, StagesInv, StackInv
  <2>2. k \in 1 .. Len(stages) /\ k # 0
    BY <2>1 DEF Stages
  <2>3. Holders(k) = OtherHolders(stages, stack, k) \cup (IF ret = k THEN { <<"ret", 0>> } ELSE { })
    BY <2>1 DEF Holders, OtherHolders, Stages
  <2>4. PICK h : Holders(k) = { h }
    BY <2>1, <2>2, <2>3 DEF InHand, HeldWith
  <2> QED
    BY <2>4, FS_Singleton
<1> QED
  BY <1>1, HeldInvariance, PTL

=============================================================================
