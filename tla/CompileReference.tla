-------------------------- MODULE CompileReference --------------------------
(***************************************************************************)
(* The tree that reorderStages and elideLiterals work on, compared with    *)
(* the tree a reader sees in the tokens (ExpressionTree).                  *)
(***************************************************************************)
EXTENDS Compile

Reader == INSTANCE ExpressionTree
Written == Reader!Tree(tokens)

(* The tree below stage k of the heap.  A clause's own stage shows only if it *)
(* packs what it returns, and packing an empty argument list shows nothing.   *)
RECURSIVE Unfold(_, _)
Unfold(heap, k) ==
  LET stage == heap[k]
      left == Unfold(heap, stage.leftStage)
      right == Unfold(heap, stage.rightStage)
      empty == Reader!Leaf("collectedArgs", stage.at)
  IN  IF k = NilStage THEN Reader!None
      ELSE CASE stage.operator = "noopStageRight" -> right
             [] stage.operator = "ensureCollectedArgs" ->
                  IF right = empty THEN empty
                  ELSE Reader!Node(stage.operator, stage.at, Reader!None, right)
             [] OTHER -> Reader!Node(stage.operator, stage.at, left, right)

Reordered == compile = "reorder" /\ work = << >>

(* The parentheses that open at token p pack what is in them, and all that   *)
(* is in them is another pair of parentheses.                                *)
ClauseEnd(p) ==
  CHOOSE q \in p + 1 .. Len(tokens) :
    Open(tokens, q) = Open(tokens, p - 1) /\ \A r \in p .. q - 1 : Open(tokens, r) # Open(tokens, p - 1)

PackedTwice ==
  \E p \in 2 .. Len(tokens) - 3 :
    /\ tokens[p].kind = "CLAUSE" /\ tokens[p + 1].kind = "CLAUSE"
    /\ tokens[p - 1].kind \in { "FUNCTION", "ACCESSOR" } \/ Reader!IsIn(tokens[p - 1])
    /\ ClauseEnd(p) = ClauseEnd(p + 1) + 1

(* The descent, which builds every level from the right, and the mirroring  *)
(* of the runs it leaves, found by walking down right children only,        *)
(* together give the tree of the written expression: operators of one       *)
(* strength are read from the left, ternaries from the right, parentheses   *)
(* group, and every operator has the operands that were written next to it. *)
(* (Doubled parentheses lose their packer, see ArgumentsStayPacked.)        *)
ReadAsWritten == Reordered /\ ~PackedTwice => Unfold(program, root) = Written

=============================================================================
