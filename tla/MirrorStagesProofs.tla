------------------------- MODULE MirrorStagesProofs -------------------------
(***************************************************************************)
(* Proofs about MirrorStages for chains of every length.  The inductive    *)
(* invariant says, for each of the four loops of mirrorStageSubtree, which *)
(* slots the iterations so far have brought to their final place.          *)
(***************************************************************************)
EXTENDS MirrorStages, TLAPS

(* The chain handed over by the planner, and the chain with its ends swapped *)
(* after the reversal loop. *)
RightLeaning(k) == IF k + 1 < stagesLength THEN Stage(k + 1) ELSE Operand(stagesLength)
LeftLeaning(k) == IF k + 1 < stagesLength THEN Stage(k + 1) ELSE Operand(0)

ReverseInv ==
  pc = "reverse" =>
    \A k \in Index :
      /\ leftStage[k] = IF k < i THEN RightLeaning(k) ELSE Operand(k)
      /\ rightStage[k] = IF k < i THEN Operand(k) ELSE RightLeaning(k)
      /\ info[k] = k

RightsInv ==
  pc = "rights" =>
    \A k \in Index :
      /\ leftStage[k] = LeftLeaning(k)
      /\ rightStage[k] = IF k = 0 \/ k <= i \/ k >= stagesLength - i
                           THEN Operand(stagesLength - k)
                           ELSE Operand(k)
      /\ info[k] = k

InfosInv ==
  pc = "infos" =>
    \A k \in Index :
      /\ leftStage[k] = LeftLeaning(k)
      /\ rightStage[k] = Operand(stagesLength - k)
      /\ info[k] = IF k < i \/ k > stagesLength - 1 - i
                     THEN stagesLength - 1 - k
                     ELSE k

IInv == TypeOK /\ ReverseInv /\ RightsInv /\ InfosInv /\ Mirrored

-----------------------------------------------------------------------------

(* References of different sorts, or with different numbers, are different. *)
LEMMA RefsDiffer ==
  ASSUME NEW j \in Int, NEW k \in Int
  PROVE  /\ Stage(j) # Operand(k)
         /\ Stage(j) = Stage(k) => j = k
         /\ Operand(j) = Operand(k) => j = k
BY DEF Stage, Operand

(* The lengths of the chains are numbers above one. *)
LEMMA LengthIsNat ==
  ASSUME TypeOK
  PROVE  stagesLength \in Nat /\ stagesLength > 1 /\ i \in Nat
BY LengthsAssumption DEF TypeOK

LEMMA InitIInv == Init => IInv
<1> SUFFICES ASSUME Init PROVE IInv
  OBVIOUS
<1>1. stagesLength \in Nat /\ stagesLength > 1
  BY LengthsAssumption DEF Init
<1>2. \A k \in Index : Operand(k) \in Refs /\ RightLeaning(k) \in Refs
  BY <1>1 DEF Index, Refs, RightLeaning
<1>3. TypeOK
  <2>1. rightStage = [k \in Index |-> RightLeaning(k)]
    BY DEF Init, RightLeaning
  <2>2. leftStage \in [Index -> Refs] /\ rightStage \in [Index -> Refs]
    BY <1>2, <2>1 DEF Init
  <2> QED
    BY <1>1, <2>2 DEF Init, TypeOK
<1>4. ReverseInv
  BY <1>1 DEF Init, ReverseInv, Index, RightLeaning
<1> QED
  BY <1>3, <1>4 DEF Init, IInv, RightsInv, InfosInv, Mirrored

LEMMA StepIInv == IInv /\ [Next]_vars => IInv'
<1> SUFFICES ASSUME IInv, [Next]_vars PROVE IInv'
  OBVIOUS
<1>0. stagesLength \in Nat /\ stagesLength > 1 /\ i \in Nat
  BY LengthIsNat DEF IInv
<1>1. CASE ReverseChildren
  <2> USE <1>0, <1>1 DEF ReverseChildren, IInv
  <2>1. i \in Index /\ Index' = Index
    BY DEF Index
  <2>2. TypeOK'
    BY <2>1 DEF TypeOK, Refs
  <2>3. ReverseInv'
    BY <2>1 DEF TypeOK, ReverseInv, RightLeaning, Index
  <2> QED
    BY <2>2, <2>3 DEF RightsInv, InfosInv, Mirrored
<1>2. CASE SwapEnds
  <2> USE <1>0, <1>2 DEF SwapEnds, IInv
  <2>1. 0 \in Index /\ stagesLength - 1 \in Index /\ Index' = Index
    BY DEF Index
  <2>2. TypeOK'
    BY <2>1 DEF TypeOK, Refs
  <2>3. RightsInv'
    <3>1. \A k \in Index : leftStage[k] = RightLeaning(k) /\ rightStage[k] = Operand(k)
                             /\ info[k] = k
      BY DEF ReverseInv, Index
    <3> QED
      BY <2>1, <3>1 DEF TypeOK, RightsInv, RightLeaning, LeftLeaning, Index
  <2> QED
    BY <2>2, <2>3 DEF ReverseInv, InfosInv, Mirrored
<1>3. CASE SwapRights
  <2> USE <1>0, <1>3 DEF SwapRights, IInv
  <2>1. /\ i + 1 \in Index /\ stagesLength - i - 1 \in Index /\ Index' = Index
        /\ i + 1 <= stagesLength - i - 1
        /\ i + 1 <= stagesLength \div 2
    BY DEF Index, MoreRights
  <2>2. TypeOK'
    BY <2>1 DEF TypeOK, Refs
  <2>3. RightsInv'
    <3>1. ASSUME NEW k \in Index
          PROVE  rightStage'[k] = IF k = 0 \/ k <= i' \/ k >= stagesLength - i'
                                    THEN Operand(stagesLength - k)
                                    ELSE Operand(k)
      <4>1. /\ rightStage[i + 1] = Operand(i + 1)
                \/ (i + 1 = stagesLength - i - 1 /\ rightStage[i + 1] = Operand(stagesLength - (i + 1)))
            /\ rightStage[stagesLength - i - 1] = Operand(stagesLength - i - 1)
        BY <2>1 DEF RightsInv, Index
      <4> QED
        BY <2>1, <4>1 DEF TypeOK, RightsInv, Index
    <3> QED
      BY <2>1, <3>1 DEF RightsInv, LeftLeaning
  <2> QED
    BY <2>2, <2>3 DEF ReverseInv, InfosInv, Mirrored
<1>4. CASE RightsDone
  <2> USE <1>0, <1>4 DEF RightsDone, IInv
  <2>1. Index' = Index
    BY DEF Index
  <2>2. TypeOK'
    BY <2>1 DEF TypeOK, Refs
  <2>3. InfosInv'
    <3>1. i >= stagesLength \div 2
      BY DEF MoreRights
    <3> QED
      BY <2>1, <3>1 DEF RightsInv, InfosInv, LeftLeaning, Index
  <2> QED
    BY <2>2, <2>3 DEF ReverseInv, RightsInv, Mirrored
<1>5. CASE SwapWith
  <2> USE <1>0, <1>5 DEF SwapWith, IInv
  <2>1. /\ i \in Index /\ stagesLength - i - 1 \in Index /\ Index' = Index
        /\ i < stagesLength - i - 1
    BY DEF Index
  <2>2. TypeOK'
    BY <2>1 DEF TypeOK, Refs
  <2>3. InfosInv'
    <3>1. ASSUME NEW k \in Index
          PROVE  info'[k] = IF k < i' \/ k > stagesLength - 1 - i'
                              THEN stagesLength - 1 - k
                              ELSE k
      <4>1. info[i] = i /\ info[stagesLength - i - 1] = stagesLength - i - 1
        BY <2>1 DEF InfosInv
      <4>2. CASE k = i \/ k = stagesLength - i - 1
        <5>1. info'[i] = info[stagesLength - i - 1] /\ info'[stagesLength - i - 1] = info[i]
          BY <2>1 DEF TypeOK
        <5> QED
          BY <2>1, <4>1, <4>2, <5>1 DEF Index
      <4>3. CASE k # i /\ k # stagesLength - i - 1
        <5>1. info'[k] = info[k]
          BY <2>1, <4>3 DEF TypeOK
        <5> QED
          BY <4>3, <5>1 DEF InfosInv, Index
      <4> QED
        BY <4>2, <4>3
    <3>2. \A k \in Index : leftStage'[k] = LeftLeaning(k)'
                             /\ rightStage'[k] = Operand(stagesLength' - k)
      BY DEF InfosInv, LeftLeaning
    <3> QED
      BY <2>1, <3>1, <3>2 DEF InfosInv
  <2> QED
    BY <2>2, <2>3 DEF ReverseInv, RightsInv, Mirrored
<1>6. CASE InfosDone
  <2> USE <1>0, <1>6 DEF InfosDone, IInv
  <2>1. Index' = Index /\ i >= stagesLength \div 2
    BY DEF Index
  <2>2. TypeOK'
    BY <2>1 DEF TypeOK, Refs
  <2>3. Mirrored'
    BY <2>1 DEF InfosInv, Mirrored, LeftLeaning, Index
  <2> QED
    BY <2>2, <2>3 DEF ReverseInv, RightsInv, InfosInv
<1>7. CASE Returned \/ UNCHANGED vars
  <2> USE <1>7 DEF Returned, vars, IInv
  <2>1. Index' = Index /\ Refs' = Refs
    BY DEF Index, Refs
  <2>2. TypeOK'
    BY <2>1 DEF TypeOK
  <2>3. ReverseInv' /\ RightsInv' /\ InfosInv' /\ Mirrored'
    BY <2>1 DEF ReverseInv, RightsInv, InfosInv, Mirrored, RightLeaning, LeftLeaning
  <2> QED
    BY <2>2, <2>3
<1> QED
  BY <1>1, <1>2, <1>3, <1>4, <1>5, <1>6, <1>7 DEF Next

(* The loop invariants hold throughout every run, for chains of any length. *)
THEOREM Invariance == Spec => []IInv
BY InitIInv, StepIInv, PTL DEF Spec

(* Every swap of mirrorStageSubtree stays inside the slice and moves        *)
(* references of the chain only.                                            *)
THEOREM TypeCorrect == Spec => []TypeOK
<1>1. IInv => TypeOK
  BY DEF IInv
<1> QED
  BY <1>1, Invariance, PTL

(* A chain of any length comes out leaning to the left with its operators   *)
(* and operands in the order in which they were written.                    *)
THEOREM MirrorIsCorrect == Spec => []Mirrored
<1>1. IInv => Mirrored
  BY DEF IInv
<1> QED
  BY <1>1, Invariance, PTL

(* Between any two pointer swaps of mirrorStageSubtree, on a chain of any   *)
(* length, no subtree is referred to twice and so none is lost.             *)
THEOREM NoStageLost == Spec => []NothingLost
<1>1. IInv => NothingLost
  <2> SUFFICES ASSUME IInv,
                      NEW s \in {"left", "right"}, NEW t \in {"left", "right"},
                      NEW j \in Index, NEW k \in Index,
                      Child(s, j) = Child(t, k)
               PROVE  s = t /\ j = k
    BY DEF NothingLost
  <2>0. stagesLength \in Nat /\ stagesLength > 1 /\ i \in Nat /\ j \in Int /\ k \in Int
    BY LengthIsNat DEF IInv, Index
  <2> USE <2>0, RefsDiffer DEF IInv, Child, Index
  <2>1. CASE pc = "reverse"
    BY <2>1 DEF ReverseInv, RightLeaning
  <2>2. CASE pc = "rights"
    <3> DEFINE held(m) == IF m = 0 \/ m <= i \/ m >= stagesLength - i
                            THEN stagesLength - m ELSE m
    <3>1. \A m \in Index : leftStage[m] = LeftLeaning(m) /\ rightStage[m] = Operand(held(m))
      BY <2>2 DEF RightsInv
    <3>2. held(j) \in Int \ {0} /\ held(k) \in Int \ {0} /\ (held(j) = held(k) => j = k)
      OBVIOUS
    <3> HIDE DEF held
    <3> QED
      BY <3>1, <3>2 DEF LeftLeaning
  <2>3. CASE pc = "infos"
    <3>1. /\ leftStage[j] = LeftLeaning(j) /\ rightStage[j] = Operand(stagesLength - j)
          /\ leftStage[k] = LeftLeaning(k) /\ rightStage[k] = Operand(stagesLength - k)
      BY <2>3 DEF InfosInv
    <3> QED
      BY <3>1, SMTT(30) DEF LeftLeaning
  <2>4. CASE pc = "done"
    <3>1. /\ leftStage[j] = LeftLeaning(j) /\ rightStage[j] = Operand(stagesLength - j)
          /\ leftStage[k] = LeftLeaning(k) /\ rightStage[k] = Operand(stagesLength - k)
      BY <2>4 DEF Mirrored, LeftLeaning
    <3> QED
      BY <3>1, SMTT(30) DEF LeftLeaning
  <2> QED
    BY <2>1, <2>2, <2>3, <2>4 DEF TypeOK
<1> QED
  BY <1>1, Invariance, PTL

=============================================================================
