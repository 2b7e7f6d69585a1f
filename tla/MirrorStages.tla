---------------------------- MODULE MirrorStages ----------------------------
(***************************************************************************)
(* mirrorStageSubtree of stagePlanner.go: the in-place rewrite that turns  *)
(* a right-leaning chain of same-precedence stages                         *)
(*                                                                         *)
(*     o0 op0 (o1 op1 (o2 op2 ... op[n-1] on))                             *)
(*                                                                         *)
(* into the left-leaning chain that evaluates them left to right.  The     *)
(* chain is the slice stages of the code, indexed from 0 as there; every   *)
(* stage is a heap cell with a left child, a right child and the           *)
(* information that swapWith exchanges (symbol, operator, type checks).    *)
(* The function works by four loops of pointer swaps; each iteration is a  *)
(* step here, so that what holds between two swaps can be stated.          *)
(***************************************************************************)
EXTENDS Integers

CONSTANT
  Lengths  \* the chain lengths the caller may pass

(* reorderStages calls the function only when len(identicalPrecedences) > 1. *)
ASSUME LengthsAssumption == Lengths \subseteq { n \in Nat : n > 1 }

VARIABLES
  stagesLength,  \* len(stages)
  leftStage,     \* leftStage[k] is stages[k].leftStage
  rightStage,    \* rightStage[k] is stages[k].rightStage
  info,          \* info[k] is the number of the operator stages[k] carries
  pc,            \* the loop that is running
  i              \* its loop counter

vars == <<stagesLength, leftStage, rightStage, info, pc, i>>

(* What a child pointer may refer to: a stage of the chain, or one of the   *)
(* stagesLength + 1 operands of the chain.                                  *)
Stage(k) == <<"stage", k>>
Operand(k) == <<"operand", k>>

Index == 0 .. stagesLength - 1

Refs == { Stage(k) : k \in 1 .. stagesLength - 1 }
          \cup { Operand(k) : k \in 0 .. stagesLength }

-----------------------------------------------------------------------------

Init ==
  /\ stagesLength \in Lengths
  /\ leftStage = [k \in Index |-> Operand(k)]
  /\ rightStage = [k \in Index |-> IF k + 1 < stagesLength
                                     THEN Stage(k + 1)
                                     ELSE Operand(stagesLength)]
  /\ info = [k \in Index |-> k]
  /\ pc = "reverse"
  /\ i = 0

(* Mutant: a swap without the carryStage overwrites the right child first. *)
ReverseWithoutCarry ==
  /\ pc = "reverse" /\ i < stagesLength
  /\ rightStage' = [rightStage EXCEPT ![i] = leftStage[i]]
  /\ i' = i + 1
  /\ UNCHANGED <<stagesLength, leftStage, info, pc>>

(* for _, frontStage = range stages: exchange the children of one stage. *)
ReverseChildren ==
  /\ pc = "reverse" /\ i < stagesLength
  /\ leftStage' = [leftStage EXCEPT ![i] = rightStage[i]]
  /\ rightStage' = [rightStage EXCEPT ![i] = leftStage[i]]
  /\ i' = i + 1
  /\ UNCHANGED <<stagesLength, info, pc>>

(* Mutant: the next loop goes on with the counter of the first one. *)
SwapEndsKeepingCounter ==
  /\ pc = "reverse" /\ i = stagesLength
  /\ LET end == stagesLength - 1 IN
       /\ leftStage' = [leftStage EXCEPT ![end] = rightStage[0]]
       /\ rightStage' = [rightStage EXCEPT ![0] = leftStage[end]]
  /\ pc' = "rights"
  /\ UNCHANGED <<stagesLength, info, i>>

(* The left child of the last stage and the right child of the root change *)
(* places; then the loop over the inner stages starts at 0.                *)
SwapEnds ==
  /\ pc = "reverse" /\ i = stagesLength
  /\ LET end == stagesLength - 1 IN
       /\ leftStage' = [leftStage EXCEPT ![end] = rightStage[0]]
       /\ rightStage' = [rightStage EXCEPT ![0] = leftStage[end]]
  /\ pc' = "rights"
  /\ i' = 0
  /\ UNCHANGED <<stagesLength, info>>

(* Mutant: the bound of the loop is one too low. *)
MoreRightsButOne == i < (stagesLength - 2) \div 2

(* i < (stagesLength-2)/2+1: the integer division of the code. *)
MoreRights == i < (stagesLength - 2) \div 2 + 1

(* The right children of stages[i+1] and stages[stagesLength-i-1] change places. *)
SwapRights ==
  /\ pc = "rights" /\ MoreRights
  /\ LET front == i + 1
         inverse == stagesLength - i - 1
     IN  rightStage' = [rightStage EXCEPT ![front] = rightStage[inverse],
                                          ![inverse] = rightStage[front]]
  /\ i' = i + 1
  /\ UNCHANGED <<stagesLength, leftStage, info, pc>>

RightsDone ==
  /\ pc = "rights" /\ ~MoreRights
  /\ pc' = "infos"
  /\ i' = 0
  /\ UNCHANGED <<stagesLength, leftStage, rightStage, info>>

(* frontStage.swapWith(inverseStage): everything but the children changes places. *)
SwapWith ==
  /\ pc = "infos" /\ i < stagesLength \div 2
  /\ LET inverse == stagesLength - i - 1
     IN  info' = [info EXCEPT ![i] = info[inverse], ![inverse] = info[i]]
  /\ i' = i + 1
  /\ UNCHANGED <<stagesLength, leftStage, rightStage, pc>>

InfosDone ==
  /\ pc = "infos" /\ ~(i < stagesLength \div 2)
  /\ pc' = "done"
  /\ UNCHANGED <<stagesLength, leftStage, rightStage, info, i>>

Returned == pc = "done" /\ UNCHANGED vars

Next ==
  \/ ReverseChildren \/ SwapEnds \/ SwapRights \/ RightsDone
  \/ SwapWith \/ InfosDone \/ Returned

Spec == Init /\ [][Next]_vars

-----------------------------------------------------------------------------

(* Type invariant: children are references into the chain or its operands,  *)
(* the information of a stage is that of some stage, and each loop counter  *)
(* stays within its own loop.                                               *)
TypeOK ==
  /\ stagesLength \in Lengths
  /\ leftStage \in [Index -> Refs]
  /\ rightStage \in [Index -> Refs]
  /\ info \in [Index -> Index]
  /\ pc \in {"reverse", "rights", "infos", "done"}
  /\ i \in 0 .. stagesLength
  /\ pc # "reverse" => i <= stagesLength \div 2

(* The pointer slots of the chain. *)
Child(side, k) == IF side = "left" THEN leftStage[k] ELSE rightStage[k]

(* Between any two of the swaps, no subtree of the expression is lost and   *)
(* none hangs in two places: two different child slots never hold the same  *)
(* reference.  (There are as many slots as references, so each reference is *)
(* held by exactly one.)  A swap through a stale carryStage would break it. *)
NothingLost ==
  \A s, t \in {"left", "right"}, j, k \in Index :
     Child(s, j) = Child(t, k) => s = t /\ j = k

(* When the function returns, the chain leans to the left and its operators *)
(* are in the order that undoes the mirroring: stages[k] applies operator   *)
(* n-1-k to stages[k+1] (the first operand, at the end of the chain) and to *)
(* operand n-k.  So operands and operators are read in the order in which   *)
(* they were written, and the leftmost operator is evaluated first.         *)
Mirrored ==
  pc = "done" =>
    \A k \in Index :
      /\ info[k] = stagesLength - 1 - k
      /\ leftStage[k] = IF k + 1 < stagesLength THEN Stage(k + 1) ELSE Operand(0)
      /\ rightStage[k] = Operand(stagesLength - k)

=============================================================================
