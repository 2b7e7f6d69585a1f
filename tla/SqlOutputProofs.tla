-------------------------- MODULE SqlOutputProofs --------------------------
(***************************************************************************)
(* Proofs about ToSQLQuery.                                                *)
(***************************************************************************)
EXTENDS SqlOutput, SequenceTheorems, WellFoundedInduction, TLAPS

(***************************************************************************)
(* Functions on numbers that are defined from their value at the number    *)
(* before.                                                                 *)
(***************************************************************************)

(* Induction for sets of numbers. *)
LEMMA Induction ==
  ASSUME NEW T, 0 \in T, \A m \in Nat : m \in T => m + 1 \in T
  PROVE  Nat \subseteq T
<1> SUFFICES ASSUME Nat \ T # { } PROVE FALSE
  OBVIOUS
<1> DEFINE Others == Nat \ T
<1>1. Others \in SUBSET Nat /\ Others # { }
  OBVIOUS
<1> HIDE DEF Others
<1>2. PICK x \in Others : \A y \in Others : <<y, x>> \notin OpToRel(<, Nat)
  BY <1>1, NatLessThanWellFounded, WFMin
<1>3. \A y \in Others : <<y, x>> \in OpToRel(<, Nat) <=> y < x
  BY <1>1 DEF OpToRel
<1>4. \A y \in Others : ~(y < x)
  BY <1>2, <1>3, Zenon
<1>5. x \in Nat /\ x \notin T
  BY DEF Others
<1>6. x # 0 /\ x - 1 \in Nat /\ (x - 1) + 1 = x /\ x - 1 < x
  BY <1>5
<1>7. x - 1 \notin T
  BY <1>5, <1>6
<1> QED
  BY <1>4, <1>6, <1>7 DEF Others

(* Whatever a step makes of a number and the value before it, there is a     *)
(* function of the values.                                                   *)
Computes(f, n, V, base, step) ==
  /\ f \in [0 .. n -> V]
  /\ f[0] = base
  /\ \A k \in 0 .. n - 1 : f[k + 1] = step[<<k, f[k]>>]

LEMMA Recursion ==
  ASSUME NEW V, NEW base \in V, NEW step \in [Nat \X V -> V], NEW m0 \in Nat
  PROVE  \E f : Computes(f, m0, V, base, step)
<1> DEFINE Values(n) ==
      { f \in [0 .. n -> V] : f[0] = base /\ \A k \in 0 .. n - 1 : f[k + 1] = step[<<k, f[k]>>] }
           Reached == { n \in Nat : Values(n) # { } }
<1>1. 0 \in Reached
  <2>1. [k \in 0 .. 0 |-> base] \in Values(0)
    OBVIOUS
  <2> QED
    BY <2>1
<1>2. ASSUME NEW m \in Nat, m \in Reached PROVE m + 1 \in Reached
  <2>1. PICK f \in [0 .. m -> V] : f[0] = base /\ \A k \in 0 .. m - 1 : f[k + 1] = step[<<k, f[k]>>]
    BY <1>2
  <2> DEFINE longer == [k \in 0 .. m + 1 |-> IF k = m + 1 THEN step[<<m, f[m]>>] ELSE f[k]]
  <2>2. step[<<m, f[m]>>] \in V
    OBVIOUS
  <2>3. longer \in [0 .. m + 1 -> V]
    BY <2>2
  <2>4. longer[m + 1] = step[<<m, f[m]>>] /\ \A k \in 0 .. m : longer[k] = f[k]
    OBVIOUS
  <2> HIDE DEF longer
  <2>5. ASSUME NEW k \in 0 .. m PROVE longer[k + 1] = step[<<k, longer[k]>>]
    <3>1. CASE k = m
      BY <2>4, <3>1
    <3>2. CASE k \in 0 .. m - 1
      <4>1. k \in 0 .. m /\ k + 1 \in 0 .. m
        BY <3>2
      <4> QED
        BY <2>1, <2>4, <3>2, <4>1
    <3> QED
      BY <3>1, <3>2
  <2>6. longer[0] = base
    BY <2>1, <2>4
  <2>7. longer \in Values(m + 1)
    BY <2>3, <2>5, <2>6
  <2> HIDE DEF Values
  <2> QED
    BY <2>7
<1> HIDE DEF Reached
<1>3. Nat \subseteq Reached
  BY <1>1, <1>2, Induction
<1> QED
  BY <1>3 DEF Reached, Computes

-----------------------------------------------------------------------------
(***************************************************************************)
(* Runs of numbers                                                         *)
(***************************************************************************)

(* Consecutive numbers, and sequences of such that follow one another from   *)
(* 1 to n.                                                                   *)
IsRun(p) == p \in Seq(Nat) /\ Len(p) > 0 /\ \A j \in 1 .. Len(p) : p[j] = p[1] + j - 1
Follows(p, q) == q[1] = p[1] + Len(p)
Chained(parts, n) ==
  /\ parts \in Seq(Seq(Nat))
  /\ \A k \in 1 .. Len(parts) : IsRun(parts[k])
  /\ \A k \in 1 .. Len(parts) - 1 : Follows(parts[k], parts[k + 1])
  /\ Len(parts) = 0 => n = 0
  /\ Len(parts) > 0 =>
       parts[1][1] = 1 /\ n + 1 = parts[Len(parts)][1] + Len(parts[Len(parts)])

LEMMA RunsJoin ==
  ASSUME NEW p, NEW q, IsRun(p), IsRun(q), Follows(p, q)
  PROVE  IsRun(p \o q) /\ (p \o q)[1] = p[1] /\ Len(p \o q) = Len(p) + Len(q)
<1>1. /\ p \in Seq(Nat) /\ Len(p) \in Nat /\ Len(p) > 0
      /\ q \in Seq(Nat) /\ Len(q) \in Nat /\ Len(q) > 0
      /\ p[1] \in Nat /\ q[1] \in Nat /\ q[1] = p[1] + Len(p)
  BY DEF IsRun, Follows
<1>2. p \o q \in Seq(Nat) /\ Len(p \o q) = Len(p) + Len(q)
  BY <1>1
<1>3. \A j \in 1 .. Len(p) + Len(q) :
        (p \o q)[j] = IF j <= Len(p) THEN p[j] ELSE q[j - Len(p)]
  BY <1>1
<1>4. (p \o q)[1] = p[1]
  BY <1>1, <1>3
<1>5. ASSUME NEW j \in 1 .. Len(p) + Len(q) PROVE (p \o q)[j] = p[1] + j - 1
  <2>1. CASE j <= Len(p)
    <3>1. j \in 1 .. Len(p)
      BY <1>1, <2>1
    <3> QED
      BY <1>3, <2>1, <3>1 DEF IsRun
  <2>2. CASE ~(j <= Len(p))
    <3>1. j - Len(p) \in 1 .. Len(q)
      BY <1>1, <2>2
    <3>2. q[j - Len(p)] = q[1] + (j - Len(p)) - 1
      BY <3>1 DEF IsRun
    <3>3. (p \o q)[j] = q[j - Len(p)]
      BY <1>3, <2>2
    <3>4. j \in Int
      OBVIOUS
    <3>5. q[1] + (j - Len(p)) - 1 = p[1] + j - 1
      BY <1>1, <3>4
    <3> QED
      BY <3>2, <3>3, <3>5
  <2> QED
    BY <2>1, <2>2
<1>6. PICK r : r = p \o q
  OBVIOUS
<1>7. r \in Seq(Nat) /\ Len(r) = Len(p) + Len(q) /\ r[1] = p[1]
  BY <1>2, <1>4, <1>6
<1>8. \A j \in 1 .. Len(p) + Len(q) : r[j] = r[1] + j - 1
  BY <1>5, <1>6, <1>7
<1>9. IsRun(r)
  BY <1>1, <1>7, <1>8 DEF IsRun
<1> QED
  BY <1>6, <1>7, <1>9

LEMMA RunFromOne ==
  ASSUME NEW p, NEW n \in Nat, IsRun(p), p[1] = 1, Len(p) = n
  PROVE  p = [k \in 1 .. n |-> k]
<1>1. p \in Seq(Nat) /\ \A j \in 1 .. n : p[j] = j
  BY DEF IsRun
<1>2. p = [j \in 1 .. n |-> p[j]]
  BY <1>1
<1> QED
  BY <1>1, <1>2

(* The recursion of FlattenSeq.                                              *)
Joined(parts) ==
  CHOOSE f : f = [i \in 1 .. Len(parts) |-> IF i = 1 THEN parts[i] ELSE f[i - 1] \o parts[i]]

LEMMA FlattenIsJoined ==
  ASSUME NEW parts, Len(parts) # 0
  PROVE  FlattenSeq(parts) = Joined(parts)[Len(parts)]
BY DEF FlattenSeq, Joined

LEMMA JoinedExists ==
  ASSUME NEW parts \in Seq(Seq(Nat)), Len(parts) > 0
  PROVE  Joined(parts) =
           [i \in 1 .. Len(parts) |->
              IF i = 1 THEN parts[i] ELSE Joined(parts)[i - 1] \o parts[i]]
<1> DEFINE m == Len(parts)
           V == Seq(Nat)
           step == [p \in Nat \X V |-> IF p[1] + 2 \in 1 .. m THEN p[2] \o parts[p[1] + 2] ELSE p[2]]
<1>1. m \in Nat /\ m - 1 \in Nat /\ \A i \in 1 .. m : parts[i] \in V
  OBVIOUS
<1>2. step \in [Nat \X V -> V]
  <2>1. ASSUME NEW p \in Nat \X V
        PROVE  (IF p[1] + 2 \in 1 .. m THEN p[2] \o parts[p[1] + 2] ELSE p[2]) \in V
    <3>1. p[2] \in V
      OBVIOUS
    <3>2. CASE p[1] + 2 \in 1 .. m
      <4>1. parts[p[1] + 2] \in V
        BY <1>1, <3>2
      <4> QED
        BY <3>1, <3>2, <4>1
    <3> QED
      BY <3>1, <3>2
  <2> QED
    BY <2>1
<1>3. PICK f \in [0 .. m - 1 -> V] :
        f[0] = parts[1] /\ \A k \in 0 .. (m - 1) - 1 : f[k + 1] = step[<<k, f[k]>>]
  <2>1. parts[1] \in V
    BY <1>1
  <2> HIDE DEF step, V
  <2>2. \E f : Computes(f, m - 1, V, parts[1], step)
    BY <1>1, <1>2, <2>1, Recursion
  <2> QED
    BY <2>2 DEF Computes
<1> DEFINE g == [i \in 1 .. m |-> f[i - 1]]
<1>4. ASSUME NEW i \in 1 .. m
      PROVE  g[i] = IF i = 1 THEN parts[i] ELSE g[i - 1] \o parts[i]
  <2>1. CASE i = 1
    BY <1>3, <2>1
  <2>2. CASE i # 1
    <3>1. /\ i - 2 \in 0 .. (m - 1) - 1 /\ (i - 2) + 1 = i - 1 /\ (i - 2) + 2 = i
          /\ i - 1 \in 1 .. m /\ i - 2 \in 0 .. m - 1 /\ (i - 1) - 1 = i - 2 /\ i - 2 \in Nat
      BY <1>1, <2>2
    <3>2. f[i - 2] \in V
      BY <3>1
    <3>3. f[i - 1] = step[<<i - 2, f[i - 2]>>]
      <4> HIDE DEF step
      <4>1. \A k \in 0 .. (m - 1) - 1 : f[k + 1] = step[<<k, f[k]>>]
        BY <1>3
      <4>2. f[(i - 2) + 1] = step[<<i - 2, f[i - 2]>>]
        BY <3>1, <4>1
      <4> QED
        BY <3>1, <4>2
    <3>4. step[<<i - 2, f[i - 2]>>] = f[i - 2] \o parts[i]
      BY <3>1, <3>2
    <3>5. g[i] = f[i - 1] /\ g[i - 1] = f[i - 2]
      BY <3>1
    <3> QED
      BY <2>2, <3>3, <3>4, <3>5
  <2> QED
    BY <2>1, <2>2
<1>5. g = [i \in 1 .. m |-> IF i = 1 THEN parts[i] ELSE g[i - 1] \o parts[i]]
  <2>1. g = [i \in 1 .. m |-> g[i]]
    OBVIOUS
  <2> HIDE DEF g
  <2> QED
    BY <1>4, <2>1
<1> HIDE DEF g
<1> QED
  BY <1>5 DEF Joined

LEMMA Flattened ==
  ASSUME NEW parts, NEW n \in Nat, Chained(parts, n)
  PROVE  FlattenSeq(parts) = [k \in 1 .. n |-> k]
<1>1. parts \in Seq(Seq(Nat)) /\ Len(parts) \in Nat
  BY DEF Chained
<1>2. CASE Len(parts) = 0
  <2>1. FlattenSeq(parts) = parts /\ parts = << >>
    BY <1>1, <1>2 DEF FlattenSeq
  <2>2. n = 0 /\ [k \in 1 .. 0 |-> k] = << >>
    BY <1>2 DEF Chained
  <2> QED
    BY <2>1, <2>2
<1>3. CASE Len(parts) > 0
  <2> DEFINE g == Joined(parts)
             Good == { i \in Nat : i + 1 <= Len(parts) =>
                         /\ IsRun(g[i + 1]) /\ g[i + 1][1] = 1
                         /\ Len(g[i + 1]) + 1 = parts[i + 1][1] + Len(parts[i + 1]) }
  <2>1. g = [i \in 1 .. Len(parts) |-> IF i = 1 THEN parts[i] ELSE g[i - 1] \o parts[i]]
    BY <1>1, <1>3, JoinedExists
  <2>2. g[1] = parts[1] /\ \A i \in 2 .. Len(parts) : g[i] = g[i - 1] \o parts[i]
    <3> HIDE DEF g
    <3>1. 1 \in 1 .. Len(parts) /\ \A i \in 2 .. Len(parts) : i \in 1 .. Len(parts) /\ i # 1
      BY <1>1, <1>3
    <3>2. \A i \in 1 .. Len(parts) : g[i] = IF i = 1 THEN parts[i] ELSE g[i - 1] \o parts[i]
      BY <2>1
    <3> QED
      BY <3>1, <3>2
  <2> HIDE DEF g
  <2>3. 0 \in Good
    <3>1. IsRun(parts[1]) /\ parts[1][1] = 1
      BY <1>1, <1>3 DEF Chained
    <3>2. Len(parts[1]) \in Nat
      BY <3>1 DEF IsRun
    <3> QED
      BY <2>2, <3>1, <3>2
  <2>4. ASSUME NEW m \in Nat, m \in Good PROVE m + 1 \in Good
    <3> SUFFICES ASSUME (m + 1) + 1 <= Len(parts)
                 PROVE  /\ IsRun(g[m + 2]) /\ g[m + 2][1] = 1
                        /\ Len(g[m + 2]) + 1 = parts[m + 2][1] + Len(parts[m + 2])
      <4>1. (m + 1) + 1 = m + 2
        OBVIOUS
      <4> QED
        BY <4>1
    <3>1. /\ m + 1 <= Len(parts) /\ m + 1 \in 1 .. Len(parts) - 1 /\ m + 2 \in 2 .. Len(parts)
          /\ m + 2 \in 1 .. Len(parts) /\ (m + 1) + 1 = m + 2 /\ (m + 2) - 1 = m + 1
      BY <1>1
    <3>2. /\ IsRun(g[m + 1]) /\ g[m + 1][1] = 1
          /\ Len(g[m + 1]) + 1 = parts[m + 1][1] + Len(parts[m + 1])
      BY <2>4, <3>1
    <3>3. IsRun(parts[m + 2]) /\ parts[m + 2][1] = parts[m + 1][1] + Len(parts[m + 1])
      BY <3>1 DEF Chained, Follows
    <3>4. Len(g[m + 1]) \in Nat /\ Len(parts[m + 2]) \in Nat /\ parts[m + 2][1] \in Nat
      <4>1. g[m + 1] \in Seq(Nat) /\ parts[m + 2] \in Seq(Nat) /\ Len(parts[m + 2]) > 0
        BY <3>2, <3>3 DEF IsRun
      <4> QED
        BY <4>1
    <3>5. Follows(g[m + 1], parts[m + 2])
      BY <3>2, <3>3, <3>4 DEF Follows
    <3>6. g[m + 2] = g[m + 1] \o parts[m + 2]
      BY <2>2, <3>1
    <3>7. /\ IsRun(g[m + 2]) /\ g[m + 2][1] = g[m + 1][1]
          /\ Len(g[m + 2]) = Len(g[m + 1]) + Len(parts[m + 2])
      <4>1. PICK p, q : p = g[m + 1] /\ q = parts[m + 2]
        OBVIOUS
      <4>2. IsRun(p) /\ IsRun(q) /\ Follows(p, q)
        BY <3>2, <3>3, <3>5, <4>1
      <4>3. IsRun(p \o q) /\ (p \o q)[1] = p[1] /\ Len(p \o q) = Len(p) + Len(q)
        BY <4>2, RunsJoin
      <4>4. p \o q = g[m + 2]
        BY <3>6, <4>1
      <4>5. IsRun(g[m + 2])
        BY <4>3, <4>4, Zenon
      <4>6. g[m + 2][1] = g[m + 1][1]
        BY <4>1, <4>3, <4>4, Zenon
      <4>7. Len(g[m + 2]) = Len(g[m + 1]) + Len(parts[m + 2])
        BY <4>1, <4>3, <4>4, Zenon
      <4> QED
        BY <4>5, <4>6, <4>7
    <3>8. parts[m + 2][1] = Len(g[m + 1]) + 1
      BY <3>2, <3>3
    <3>9. Len(g[m + 2]) + 1 = parts[m + 2][1] + Len(parts[m + 2])
      <4>1. PICK a \in Nat, b \in Nat : a = Len(g[m + 1]) /\ b = Len(parts[m + 2])
        BY <3>4
      <4>2. Len(g[m + 2]) = a + b /\ parts[m + 2][1] = a + 1
        BY <3>7, <3>8, <4>1, Zenon
      <4>3. (a + b) + 1 = (a + 1) + b
        OBVIOUS
      <4> QED
        BY <4>1, <4>2, <4>3, Zenon
    <3> QED
      BY <3>2, <3>7, <3>9
  <2> HIDE DEF Good
  <2>5. Nat \subseteq Good
    BY <2>3, <2>4, Induction
  <2>6. Len(parts) - 1 \in Good /\ (Len(parts) - 1) + 1 = Len(parts)
    BY <1>1, <1>3, <2>5
  <2>7. /\ IsRun(g[Len(parts)]) /\ g[Len(parts)][1] = 1
        /\ Len(g[Len(parts)]) + 1 = parts[Len(parts)][1] + Len(parts[Len(parts)])
    BY <1>1, <2>6 DEF Good
  <2>8. Len(g[Len(parts)]) = n
    <3>1. Len(g[Len(parts)]) \in Nat
      BY <2>7 DEF IsRun
    <3> QED
      BY <1>3, <2>7, <3>1 DEF Chained
  <2>9. FlattenSeq(parts) = g[Len(parts)]
    BY <1>3, FlattenIsJoined DEF g
  <2> QED
    BY <2>7, <2>8, <2>9, RunFromOne
<1> QED
  BY <1>1, <1>2, <1>3

-----------------------------------------------------------------------------
(***************************************************************************)
(* The calls that return when an operand is written                        *)
(***************************************************************************)

Operator == [at : Nat, left : Seq(Nat)]
Waits(operator) == Append(operator.left, operator.at)
Apply(operator, right) ==
  IF operator.left = << >> THEN Signed(operator.at, right)
                           ELSE SqlCall(operator.at, operator.left, right)

(* The recursion of Completed on the operators waiting.                      *)
Nested(waiting, operand) ==
  CHOOSE f : f = [k \in 0 .. Len(waiting) |->
                    IF k = 0 THEN operand
                             ELSE Apply(waiting[Len(waiting) + 1 - k], f[k - 1])]

LEMMA CompletedIsNested ==
  ASSUME NEW operand
  PROVE  Completed(operand) = Nested(pending, operand)[Len(pending)]
BY DEF Completed, Nested, Apply

(* Whether it has an operand on the left or none, an operator puts what it   *)
(* waits with before what it gets.                                           *)
LEMMA ApplyJoins ==
  ASSUME NEW operator \in Operator, NEW right \in Seq(Nat)
  PROVE  Apply(operator, right) = Waits(operator) \o right
<1>1. PICK left \in Seq(Nat), at \in Nat : operator.left = left /\ operator.at = at
  BY DEF Operator
<1>2. CASE left = << >>
  <2>1. Append(left, at) = <<at>>
    BY <1>2
  <2> QED
    BY <1>1, <1>2, <2>1 DEF Apply, Waits, Signed
<1>3. CASE left # << >>
  <2>1. Append(left, at) = left \o <<at>>
    OBVIOUS
  <2> QED
    BY <1>1, <1>3, <2>1 DEF Apply, Waits, SqlCall
<1> QED
  BY <1>2, <1>3

LEMMA NestedExists ==
  ASSUME NEW waiting \in Seq(Operator), NEW operand \in Seq(Nat)
  PROVE  Nested(waiting, operand) =
           [k \in 0 .. Len(waiting) |->
              IF k = 0 THEN operand
                       ELSE Apply(waiting[Len(waiting) + 1 - k], Nested(waiting, operand)[k - 1])]
<1> DEFINE n == Len(waiting)
           V == Seq(Nat)
           step == [p \in Nat \X V |->
                      IF n - p[1] \in 1 .. n THEN Apply(waiting[n - p[1]], p[2]) ELSE p[2]]
<1>1. n \in Nat /\ \A i \in 1 .. n : waiting[i] \in Operator
  OBVIOUS
<1>2. step \in [Nat \X V -> V]
  <2>1. ASSUME NEW p \in Nat \X V
        PROVE  (IF n - p[1] \in 1 .. n THEN Apply(waiting[n - p[1]], p[2]) ELSE p[2]) \in V
    <3>1. p[2] \in V
      OBVIOUS
    <3>2. CASE n - p[1] \in 1 .. n
      <4>1. PICK operator \in Operator : operator = waiting[n - p[1]]
        BY <1>1, <3>2
      <4>2. operator.left \in Seq(Nat) /\ operator.at \in Nat
        BY DEF Operator
      <4>3. Waits(operator) \in Seq(Nat)
        BY <4>2 DEF Waits
      <4>4. PICK right \in Seq(Nat) : right = p[2]
        BY <3>1
      <4>5. Apply(operator, right) = Waits(operator) \o right
        BY ApplyJoins
      <4>6. Waits(operator) \o right \in Seq(Nat)
        BY <4>3
      <4> QED
        BY <3>2, <4>1, <4>4, <4>5, <4>6
    <3> QED
      BY <3>1, <3>2
  <2> QED
    BY <2>1
<1>3. PICK f \in [0 .. n -> V] :
        f[0] = operand /\ \A k \in 0 .. n - 1 : f[k + 1] = step[<<k, f[k]>>]
  <2>1. operand \in V
    OBVIOUS
  <2> HIDE DEF step, V
  <2>2. \E f : Computes(f, n, V, operand, step)
    BY <1>1, <1>2, <2>1, Recursion
  <2> QED
    BY <2>2 DEF Computes
<1>4. ASSUME NEW k \in 0 .. n
      PROVE  f[k] = IF k = 0 THEN operand ELSE Apply(waiting[n + 1 - k], f[k - 1])
  <2>1. CASE k = 0
    BY <1>3, <2>1
  <2>2. CASE k # 0
    <3>1. /\ k - 1 \in 0 .. n - 1 /\ (k - 1) + 1 = k /\ n - (k - 1) = n + 1 - k
          /\ k - 1 \in 0 .. n /\ k - 1 \in Nat /\ n - (k - 1) \in 1 .. n
      BY <1>1, <2>2
    <3>2. f[k - 1] \in V
      BY <3>1
    <3>3. f[k] = step[<<k - 1, f[k - 1]>>]
      BY <1>3, <3>1
    <3>4. step[<<k - 1, f[k - 1]>>] = Apply(waiting[n - (k - 1)], f[k - 1])
      BY <3>1, <3>2
    <3> QED
      BY <2>2, <3>1, <3>3, <3>4
  <2> QED
    BY <2>1, <2>2
<1>5. f = [k \in 0 .. n |-> IF k = 0 THEN operand ELSE Apply(waiting[n + 1 - k], f[k - 1])]
  <2>1. f = [k \in 0 .. n |-> f[k]]
    OBVIOUS
  <2> QED
    BY <1>4, <2>1
<1> QED
  BY <1>5 DEF Nested

(* If the operators wait with runs that follow one another up to the         *)
(* operand, the text that is written is the run of all of them.              *)
LEMMA NestedRuns ==
  ASSUME NEW waiting \in Seq(Operator), NEW i \in Nat,
         \A k \in 1 .. Len(waiting) : IsRun(Waits(waiting[k])),
         \A k \in 1 .. Len(waiting) - 1 : Follows(Waits(waiting[k]), Waits(waiting[k + 1])),
         Len(waiting) > 0 => Follows(Waits(waiting[Len(waiting)]), <<i>>)
  PROVE  LET text == Nested(waiting, <<i>>)[Len(waiting)]
         IN  /\ IsRun(text)
             /\ text[1] + Len(text) = i + 1
             /\ text[1] = IF Len(waiting) = 0 THEN i ELSE Waits(waiting[1])[1]
<1> DEFINE n == Len(waiting)
           g == Nested(waiting, <<i>>)
           first(k) == IF k = 0 THEN i ELSE Waits(waiting[n + 1 - k])[1]
           Good == { k \in Nat : k <= n =>
                       IsRun(g[k]) /\ g[k][1] + Len(g[k]) = i + 1 /\ g[k][1] = first(k) }
<1>1. n \in Nat /\ \A k \in 1 .. n : waiting[k] \in Operator
  OBVIOUS
<1>2. g[0] = <<i>> /\ \A k \in 1 .. n : g[k] = Apply(waiting[n + 1 - k], g[k - 1])
  <2>1. <<i>> \in Seq(Nat)
    OBVIOUS
  <2>2. g = [k \in 0 .. n |-> IF k = 0 THEN <<i>> ELSE Apply(waiting[n + 1 - k], g[k - 1])]
    BY <2>1, NestedExists
  <2> HIDE DEF g
  <2>3. \A k \in 0 .. n : g[k] = IF k = 0 THEN <<i>> ELSE Apply(waiting[n + 1 - k], g[k - 1])
    BY <2>2
  <2>4. 0 \in 0 .. n /\ \A k \in 1 .. n : k \in 0 .. n /\ k # 0
    BY <1>1
  <2> QED
    BY <2>3, <2>4
<1> HIDE DEF g
<1>3. 0 \in Good
  <2>1. IsRun(<<i>>) /\ <<i>>[1] = i /\ Len(<<i>>) = 1
    BY DEF IsRun
  <2> QED
    BY <1>2, <2>1
<1>4. ASSUME NEW k \in Nat, k \in Good PROVE k + 1 \in Good
  <2> SUFFICES ASSUME k + 1 <= n
               PROVE  /\ IsRun(g[k + 1])
                      /\ g[k + 1][1] + Len(g[k + 1]) = i + 1 /\ g[k + 1][1] = first(k + 1)
    OBVIOUS
  <2>1. /\ k <= n /\ n - k \in 1 .. n /\ n + 1 - (k + 1) = n - k /\ (k + 1) - 1 = k /\ k + 1 \in 1 .. n
        /\ k + 1 # 0
    BY <1>1
  <2>2. PICK q : q = g[k]
    OBVIOUS
  <2>3. IsRun(q) /\ q[1] + Len(q) = i + 1 /\ q[1] = first(k)
    BY <1>4, <2>1, <2>2
  <2>4. PICK operator \in Operator : operator = waiting[n - k]
    BY <1>1, <2>1
  <2>5. PICK p : p = Waits(operator)
    OBVIOUS
  <2>6. IsRun(p)
    BY <2>1, <2>4, <2>5
  <2>7. Follows(p, q)
    <3>1. CASE k = 0
      <4>1. n - k = n /\ q = <<i>>
        BY <1>1, <1>2, <2>2, <3>1
      <4> QED
        BY <1>1, <2>1, <2>4, <2>5, <4>1
    <3>2. CASE k # 0
      <4>1. n - k \in 1 .. n - 1 /\ n - k + 1 = n + 1 - k
        BY <1>1, <2>1, <3>2
      <4>2. Follows(Waits(waiting[n - k]), Waits(waiting[n - k + 1]))
        BY <4>1
      <4>3. q[1] = Waits(waiting[n - k + 1])[1]
        BY <2>3, <3>2, <4>1
      <4> QED
        BY <2>4, <2>5, <4>2, <4>3 DEF Follows
    <3> QED
      BY <3>1, <3>2
  <2>8. g[k + 1] = p \o q
    <3>1. g[k + 1] = Apply(operator, q)
      BY <1>2, <2>1, <2>2, <2>4
    <3>2. q \in Seq(Nat)
      BY <2>3 DEF IsRun
    <3> QED
      BY <2>5, <3>1, <3>2, ApplyJoins
  <2>9. PICK r : r = p \o q
    OBVIOUS
  <2>10. IsRun(r) /\ r[1] = p[1] /\ Len(r) = Len(p) + Len(q)
    BY <2>3, <2>6, <2>7, <2>9, RunsJoin
  <2>11. r[1] + Len(r) = i + 1
    <3>1. Len(p) \in Nat /\ Len(q) \in Nat /\ p[1] \in Nat /\ q[1] \in Nat
      <4>1. p \in Seq(Nat) /\ Len(p) > 0 /\ q \in Seq(Nat) /\ Len(q) > 0
        BY <2>3, <2>6 DEF IsRun
      <4> QED
        BY <4>1
    <3>2. q[1] = p[1] + Len(p)
      BY <2>7 DEF Follows
    <3>3. q[1] + Len(q) = i + 1 /\ r[1] = p[1] /\ Len(r) = Len(p) + Len(q)
      BY <2>3, <2>10
    <3> HIDE DEF g
    <3> QED
      BY <3>1, <3>2, <3>3
  <2>12. r[1] = first(k + 1)
    BY <2>1, <2>4, <2>5, <2>10
  <2>13. g[k + 1] = r
    BY <2>8, <2>9
  <2> QED
    BY <2>10, <2>11, <2>12, <2>13
<1> HIDE DEF Good
<1>5. n \in Good
  BY <1>1, <1>3, <1>4, Induction
<1>6. IsRun(g[n]) /\ g[n][1] + Len(g[n]) = i + 1 /\ g[n][1] = first(n)
  BY <1>1, <1>5 DEF Good
<1>7. first(n) = IF n = 0 THEN i ELSE Waits(waiting[1])[1]
  <2>1. n + 1 - n = 1
    BY <1>1
  <2> QED
    BY <2>1
<1> QED
  BY <1>6, <1>7 DEF g

(* A run in the place of the last parts of a chain that begins where they    *)
(* begin, or behind a chain.                                                 *)
LEMMA ChainGoesOn ==
  ASSUME NEW s \in Seq(Seq(Nat)), NEW t \in Seq(Seq(Nat)), NEW p, NEW n \in Nat, NEW m \in Nat,
         Chained(s \o t, n), IsRun(p), p[1] + Len(p) = m + 1,
         p[1] = IF Len(t) = 0 THEN n + 1 ELSE t[1][1]
  PROVE  Chained(Append(s, p), m)
<1>1. Len(s) \in Nat /\ Len(t) \in Nat /\ Len(s \o t) = Len(s) + Len(t) /\ p \in Seq(Nat)
  BY DEF IsRun
<1>2. PICK all : all = s \o t
  OBVIOUS
<1>3. /\ Chained(all, n) /\ Len(all) = Len(s) + Len(t) /\ Len(all) \in Nat
      /\ \A k \in 1 .. Len(s) : all[k] = s[k]
      /\ Len(t) > 0 => all[Len(s) + 1] = t[1]
  <2>1. Chained(all, n) /\ Len(all) = Len(s) + Len(t) /\ Len(all) \in Nat
    BY <1>1, <1>2
  <2>2. \A k \in 1 .. Len(s) : (s \o t)[k] = s[k]
    BY <1>1
  <2>3. Len(t) > 0 => (s \o t)[Len(s) + 1] = t[1]
    BY <1>1
  <2> QED
    BY <1>2, <2>1, <2>2, <2>3
<1>4. PICK a : a = Append(s, p)
  OBVIOUS
<1>5. /\ a \in Seq(Seq(Nat)) /\ Len(a) = Len(s) + 1
      /\ a[Len(s) + 1] = p /\ \A k \in 1 .. Len(s) : a[k] = s[k]
  BY <1>1, <1>4
<1>lengths. PICK ls \in Nat, lt \in Nat :
              ls = Len(s) /\ lt = Len(t) /\ Len(all) = ls + lt /\ Len(a) = ls + 1
  BY <1>1, <1>3, <1>5
<1>6. ASSUME NEW k \in 1 .. Len(a) PROVE IsRun(a[k])
  <2>1. CASE k \in 1 .. Len(s)
    <3>1. k \in 1 .. Len(all)
      BY <1>lengths, <2>1
    <3>2. all[k] = a[k]
      BY <1>3, <1>5, <2>1
    <3> QED
      BY <1>3, <3>1, <3>2 DEF Chained
  <2>2. CASE k = Len(s) + 1
    BY <1>5, <2>2
  <2> QED
    BY <1>1, <1>5, <2>1, <2>2
<1>7. ASSUME NEW k \in 1 .. Len(a) - 1 PROVE Follows(a[k], a[k + 1])
  <2>1. k \in 1 .. Len(s) /\ a[k] = s[k] /\ all[k] = s[k]
    BY <1>1, <1>3, <1>5
  <2>2. CASE k < Len(s)
    <3>1. k \in 1 .. Len(all) - 1 /\ k + 1 \in 1 .. Len(s)
      <4>1. k \in 1 .. ls /\ k < ls
        BY <1>lengths, <2>1, <2>2
      <4> QED
        BY <1>lengths, <4>1
    <3>2. all[k + 1] = a[k + 1]
      BY <1>3, <1>5, <3>1
    <3> QED
      BY <1>3, <2>1, <3>1, <3>2 DEF Chained
  <2>3. CASE k = Len(s) /\ Len(t) = 0
    <3>1. Len(all) = k /\ Len(all) > 0
      BY <1>1, <1>3, <2>1, <2>3
    <3>2. n + 1 = all[k][1] + Len(all[k])
      BY <1>3, <3>1 DEF Chained
    <3> QED
      BY <1>5, <2>1, <2>3, <3>2 DEF Follows
  <2>4. CASE k = Len(s) /\ Len(t) # 0
    <3>1. k \in 1 .. Len(all) - 1 /\ Len(t) > 0
      BY <1>1, <1>3, <2>1, <2>4
    <3>2. Follows(all[k], all[k + 1])
      BY <1>3, <3>1 DEF Chained
    <3>3. all[k + 1] = t[1]
      BY <1>3, <2>4, <3>1
    <3> QED
      BY <1>5, <2>1, <2>4, <3>2, <3>3 DEF Follows
  <2> QED
    BY <1>1, <2>1, <2>2, <2>3, <2>4
<1>8. a[1][1] = 1
  <2>1. CASE Len(s) = 0 /\ Len(t) = 0
    <3>1. n = 0
      BY <1>1, <1>3, <2>1 DEF Chained
    <3> QED
      BY <1>5, <2>1, <3>1
  <2>2. CASE Len(s) = 0 /\ Len(t) # 0
    <3>1. Len(all) > 0 /\ all[1] = t[1]
      BY <1>1, <1>3, <2>2
    <3>2. all[1][1] = 1
      BY <1>3, <3>1 DEF Chained
    <3> QED
      BY <1>5, <2>2, <3>1, <3>2
  <2>3. CASE Len(s) # 0
    <3>1. Len(all) > 0 /\ 1 \in 1 .. Len(s)
      BY <1>1, <1>3, <2>3
    <3>2. all[1][1] = 1
      BY <1>3, <3>1 DEF Chained
    <3>3. all[1] = a[1]
      BY <1>3, <1>5, <3>1
    <3> QED
      BY <3>2, <3>3
  <2> QED
    BY <2>1, <2>2, <2>3
<1>9. m + 1 = a[Len(a)][1] + Len(a[Len(a)])
  BY <1>5
<1>10. Chained(a, m)
  BY <1>1, <1>5, <1>6, <1>7, <1>8, <1>9 DEF Chained
<1> QED
  BY <1>4, <1>10

-----------------------------------------------------------------------------
(***************************************************************************)
(* The invariant                                                           *)
(***************************************************************************)

Awaits(token) == BecomesCall(token) \/ BecomesSign(token)

(* The transactions and what the operators wait with are, one behind the     *)
(* other, the tokens read.  Operators wait only for the token behind the     *)
(* last of them, so what a call takes back is always the last thing read.    *)
SqlIInv ==
  /\ tokens \in Expressions
  /\ index \in 0 .. Len(tokens)
  /\ transactions \in Seq(Seq(1 .. index) \ { << >> })
  /\ pending \in Seq([at : 1 .. index, left : Seq(1 .. index)])
  /\ Chained(transactions \o Awaiting, index)
  /\ pending # << >> => index > 0 /\ Awaits(tokens[index])
  /\ \A k \in 1 .. index : ~Unsupported(tokens[k])
  /\ result \in { "running", "done", "unsupported", "missing token" }
  /\ result = "done" => index = Len(tokens) /\ pending = << >>
  /\ result = "unsupported" => NoSql
  /\ MissesOnlyAtEnds

(* What the table says of the tokens of an expression.                       *)
LEMMA NoCallAfterOperator ==
  ASSUME NEW t \in Expressions, NEW k \in 1 .. Len(t) - 1, Awaits(t[k])
  PROVE  ~BecomesCall(t[k + 1])
<1>1. t[k].kind \in { "TERNARY", "MODIFIER", "PREFIX" }
  BY DEF Awaits, BecomesCall, BecomesSign
<1>2. canTransitionTo(t[k].kind, t[k + 1].kind)
  BY <1>1, ExpressionsAssumption DEF OperatorKinds
<1>3. t[k + 1].kind \notin { "TERNARY", "MODIFIER" }
  <2>1. CASE t[k].kind = "TERNARY"
    BY <1>2, <2>1 DEF canTransitionTo, validNextKinds, StartKinds
  <2>2. CASE t[k].kind = "MODIFIER"
    BY <1>2, <2>2 DEF canTransitionTo, validNextKinds, StartKinds
  <2>3. CASE t[k].kind = "PREFIX"
    BY <1>2, <2>3 DEF canTransitionTo, validNextKinds, StartKinds
  <2> QED
    BY <1>1, <2>1, <2>2, <2>3
<1> QED
  BY <1>3 DEF BecomesCall

LEMMA SqlTypes ==
  ASSUME SqlIInv
  PROVE  /\ tokens \in Seq(ExpressionToken) /\ Len(tokens) \in Nat /\ index \in Nat
         /\ transactions \in Seq(Seq(Nat)) /\ pending \in Seq(Operator)
         /\ Awaiting \in Seq(Seq(Nat)) /\ Len(Awaiting) = Len(pending)
         /\ \A k \in 1 .. Len(pending) : Awaiting[k] = Waits(pending[k])
<1>1. tokens \in Seq(ExpressionToken)
  BY ExpressionsAssumption DEF SqlIInv
<1>2. Len(tokens) \in Nat /\ index \in Nat
  <2>1. PICK S : S = ExpressionToken
    OBVIOUS
  <2>2. tokens \in Seq(S)
    BY <1>1, <2>1
  <2>3. Len(tokens) \in Nat
    BY <2>2
  <2>4. index \in 0 .. Len(tokens)
    BY DEF SqlIInv
  <2> QED
    BY <2>3, <2>4
<1>3. Seq(1 .. index) \subseteq Seq(Nat)
  BY <1>2, SeqMonotonic
<1>4. transactions \in Seq(Seq(Nat))
  <2>1. Seq(1 .. index) \ { << >> } \subseteq Seq(Nat)
    BY <1>3
  <2> QED
    BY <2>1, SeqMonotonic DEF SqlIInv
<1>5. pending \in Seq(Operator)
  <2>1. [at : 1 .. index, left : Seq(1 .. index)] \subseteq Operator
    BY <1>2, <1>3 DEF Operator
  <2> QED
    BY <2>1, SeqMonotonic DEF SqlIInv
<1>6. PICK p \in Seq(Operator) : p = pending
  BY <1>5
<1>7. Awaiting = [k \in 1 .. Len(p) |-> Waits(p[k])]
  BY <1>6 DEF Awaiting, Waits
<1>8. ASSUME NEW k \in 1 .. Len(p) PROVE Waits(p[k]) \in Seq(Nat)
  <2>1. p[k] \in Operator
    OBVIOUS
  <2>2. p[k].left \in Seq(Nat) /\ p[k].at \in Nat
    BY <2>1 DEF Operator
  <2> QED
    BY <2>2 DEF Waits
<1>9. /\ Awaiting \in Seq(Seq(Nat)) /\ Len(Awaiting) = Len(p)
      /\ \A k \in 1 .. Len(p) : Awaiting[k] = Waits(p[k])
  <2>1. PICK a : a = [k \in 1 .. Len(p) |-> Waits(p[k])]
    OBVIOUS
  <2>2. a \in [1 .. Len(p) -> Seq(Nat)] /\ Len(p) \in Nat
    BY <1>8, <2>1
  <2>3. a \in Seq(Seq(Nat)) /\ Len(a) = Len(p)
    <3>1. PICK S : S = Seq(Nat)
      OBVIOUS
    <3>2. a \in [1 .. Len(p) -> S] /\ Len(p) \in Nat
      BY <2>2, <3>1
    <3>3. a \in Seq(S) /\ Len(a) = Len(p)
      BY <3>2
    <3> QED
      BY <3>1, <3>3
  <2>4. \A k \in 1 .. Len(p) : a[k] = Waits(p[k])
    BY <2>1
  <2>5. Awaiting = a
    BY <1>7, <2>1
  <2> QED
    BY <2>3, <2>4, <2>5
<1> QED
  BY <1>1, <1>2, <1>4, <1>5, <1>6, <1>9

(* What is written when an operand comes: the run of everything that waited  *)
(* for it.                                                                   *)
LEMMA WriteKeeps ==
  ASSUME SqlIInv, Write
  PROVE  /\ IsRun(Completed(Plain(index + 1))) /\ Completed(Plain(index + 1))[1] >= 1
         /\ Completed(Plain(index + 1))[1] + Len(Completed(Plain(index + 1))) = index + 2
         /\ Chained(Append(transactions, Completed(Plain(index + 1))), index + 1)
<1>1. PICK s, t, p, n : s = transactions /\ t = Awaiting /\ p = pending /\ n = index
  OBVIOUS
<1>2. /\ s \in Seq(Seq(Nat)) /\ t \in Seq(Seq(Nat)) /\ p \in Seq(Operator) /\ n \in Nat
      /\ Len(t) = Len(p) /\ \A k \in 1 .. Len(p) : t[k] = Waits(p[k])
  BY <1>1, SqlTypes
<1>3. PICK all : all = s \o t
  OBVIOUS
<1>4. Chained(all, n) /\ Chained(s \o t, n)
  BY <1>1, <1>3 DEF SqlIInv
<1>5. PICK ls \in Nat, lp \in Nat :
        ls = Len(s) /\ lp = Len(p) /\ lp = Len(t) /\ Len(all) = ls + lp
  BY <1>2, <1>3
<1>6. \A k \in 1 .. lp : all[ls + k] = t[k]
  <2>1. \A k \in 1 .. Len(t) : (s \o t)[Len(s) + k] = t[k]
    BY <1>2
  <2> QED
    BY <1>3, <1>5, <2>1
<1>7. ASSUME NEW k \in 1 .. lp PROVE IsRun(Waits(p[k]))
  <2>1. ls + k \in 1 .. Len(all) /\ all[ls + k] = Waits(p[k])
    BY <1>2, <1>5, <1>6
  <2> QED
    BY <1>4, <2>1 DEF Chained
<1>8. ASSUME NEW k \in 1 .. lp - 1 PROVE Follows(Waits(p[k]), Waits(p[k + 1]))
  <2>1. k \in 1 .. lp /\ k + 1 \in 1 .. lp /\ ls + k \in 1 .. Len(all) - 1
        /\ (ls + k) + 1 = ls + (k + 1)
    BY <1>5
  <2>2. all[ls + k] = Waits(p[k]) /\ all[(ls + k) + 1] = Waits(p[k + 1])
    BY <1>2, <1>5, <1>6, <2>1
  <2> QED
    BY <1>4, <2>1, <2>2 DEF Chained
<1>9. ASSUME lp > 0 PROVE Follows(Waits(p[lp]), <<n + 1>>)
  <2>1. lp \in 1 .. lp /\ Len(all) > 0 /\ Len(all) = ls + lp
    BY <1>5, <1>9
  <2>2. all[Len(all)] = Waits(p[lp])
    BY <1>2, <1>5, <1>6, <2>1
  <2>3. n + 1 = all[Len(all)][1] + Len(all[Len(all)])
    BY <1>4, <2>1 DEF Chained
  <2> QED
    BY <2>2, <2>3 DEF Follows
<1>10. PICK text : text = Nested(p, <<n + 1>>)[Len(p)]
  OBVIOUS
<1>11. /\ IsRun(text) /\ text[1] + Len(text) = (n + 1) + 1
       /\ text[1] = IF Len(p) = 0 THEN n + 1 ELSE Waits(p[1])[1]
  <2>1. n + 1 \in Nat
    BY <1>2
  <2> QED
    BY <1>2, <1>5, <1>7, <1>8, <1>9, <1>10, <2>1, NestedRuns
<1>12. Completed(Plain(index + 1)) = text
  BY <1>1, <1>10, CompletedIsNested DEF Plain
<1>13. text[1] = IF Len(t) = 0 THEN n + 1 ELSE t[1][1]
  <2>1. CASE lp = 0
    BY <1>5, <1>11, <2>1
  <2>2. CASE lp # 0
    <3>1. 1 \in 1 .. lp
      BY <2>2
    <3>2. t[1] = Waits(p[1])
      BY <1>2, <1>5, <3>1
    <3> QED
      BY <1>5, <1>11, <2>2, <3>2
  <2> QED
    BY <2>1, <2>2
<1>14. Chained(Append(s, text), n + 1)
  <2>1. n + 1 \in Nat
    BY <1>2
  <2> QED
    BY <1>2, <1>4, <1>11, <1>13, <2>1, ChainGoesOn
<1>15. text[1] >= 1
  <2>1. CASE lp = 0
    BY <1>2, <1>5, <1>11, <2>1
  <2>2. CASE lp # 0
    <3>1. PICK R : R = [at : 1 .. n, left : Seq(1 .. n)]
      OBVIOUS
    <3>2. p \in Seq(R) /\ 1 \in 1 .. Len(p)
      <4>1. pending \in Seq([at : 1 .. index, left : Seq(1 .. index)])
        BY DEF SqlIInv
      <4>2. [at : 1 .. index, left : Seq(1 .. index)] = R
        BY <1>1, <3>1
      <4>3. 1 \in 1 .. Len(p)
        BY <1>5, <2>2
      <4> QED
        BY <1>1, <4>1, <4>2, <4>3
    <3>3. p[1] \in R
      BY <3>2
    <3>4. PICK left \in Seq(1 .. n), at \in 1 .. n : left = p[1].left /\ at = p[1].at
      BY <3>1, <3>3
    <3>5. PICK w : w = Append(left, at)
      OBVIOUS
    <3>6. w \in Seq(1 .. n) /\ Len(w) > 0
      BY <3>5
    <3>7. w[1] \in 1 .. n
      <4>1. PICK S : S = 1 .. n
        OBVIOUS
      <4>2. w \in Seq(S) /\ Len(w) > 0
        BY <3>6, <4>1
      <4>3. w[1] \in S
        BY <4>2
      <4> QED
        BY <4>1, <4>3
    <3>8. Waits(p[1]) = w
      BY <3>4, <3>5 DEF Waits
    <3>9. text[1] = w[1]
      BY <1>5, <1>11, <2>2, <3>8
    <3> QED
      BY <1>2, <3>7, <3>9
  <2> QED
    BY <2>1, <2>2
<1>16. (n + 1) + 1 = n + 2
  BY <1>2
<1> QED
  BY <1>1, <1>11, <1>12, <1>14, <1>15, <1>16

(* A call takes back the last thing read, because nothing waits.             *)
LEMMA StartCallKeeps ==
  ASSUME SqlIInv, StartCall
  PROVE  /\ pending = << >> /\ transactions # << >>
         /\ Last(transactions) \in Seq(1 .. index)
         /\ Rollback \in Seq(Seq(1 .. index) \ { << >> })
         /\ Chained(Append(Rollback, Append(Last(transactions), index + 1)), index + 1)
<1>1. pending = << >>
  <2> SUFFICES ASSUME pending # << >> PROVE FALSE
    OBVIOUS
  <2>1. PICK t, n : t = tokens /\ n = index
    OBVIOUS
  <2>2. t \in Expressions /\ n \in Nat /\ n > 0 /\ Awaits(t[n]) /\ Len(t) \in Nat
    BY <2>1, SqlTypes DEF SqlIInv
  <2>3. n < Len(t) /\ BecomesCall(t[n + 1])
    BY <2>1 DEF StartCall, More, Token
  <2>4. n \in 1 .. Len(t) - 1
    BY <2>2, <2>3
  <2> QED
    BY <2>2, <2>3, <2>4, NoCallAfterOperator
<1>2. PICK S, s, n : S = Seq(1 .. index) \ { << >> } /\ s = transactions /\ n = index
  OBVIOUS
<1>3. s \in Seq(S) /\ s # << >> /\ s \in Seq(Seq(Nat)) /\ n \in Nat
  BY <1>2, SqlTypes DEF SqlIInv, StartCall
<1>4. PICK ls \in Nat : ls = Len(s) /\ ls > 0
  BY <1>3
<1>5. s[ls] \in S /\ s[ls] \in Seq(Nat)
  BY <1>3, <1>4
<1>6. Last(transactions) = s[ls]
  BY <1>2, <1>4 DEF Last
<1>7. PICK front : front = SubSeq(s, 1, ls - 1)
  OBVIOUS
<1>8. Rollback = front
  BY <1>2, <1>4, <1>7 DEF Rollback, Front
<1>9. /\ front \in Seq(S) /\ front \in Seq(Seq(Nat)) /\ Len(front) = ls - 1
      /\ \A k \in 1 .. ls - 1 : front[k] = s[k]
  <2>1. 1 \in Int /\ ls - 1 \in Int /\ \A k \in 1 .. ls - 1 : k \in 1 .. ls
    BY <1>4
  <2>2. \A k \in 1 .. ls - 1 : s[k] \in S /\ s[k] \in Seq(Nat)
    BY <1>3, <1>4, <2>1
  <2>3. PICK V : V = Seq(Nat)
    OBVIOUS
  <2>4. front = [k \in 1 .. ls - 1 |-> s[k]]
    BY <1>4, <1>7
  <2>5. front \in [1 .. ls - 1 -> S] /\ front \in [1 .. ls - 1 -> V] /\ ls - 1 \in Nat
    BY <1>4, <2>2, <2>3, <2>4
  <2>6. front \in Seq(S) /\ front \in Seq(V) /\ Len(front) = ls - 1
    BY <2>5
  <2>7. \A k \in 1 .. ls - 1 : front[k] = s[k]
    BY <2>4
  <2> QED
    BY <2>3, <2>6, <2>7
<1>10. PICK back : back = <<s[ls]>>
  OBVIOUS
<1>11. /\ back \in Seq(Seq(Nat)) /\ Len(back) = 1 /\ back[1] = s[ls]
       /\ front \o back = s
  <2>1. PICK V : V = Seq(Nat)
    OBVIOUS
  <2>2. back \in Seq(V) /\ Len(back) = 1 /\ back[1] = s[ls]
    BY <1>5, <1>10, <2>1
  <2>3. front \in Seq(V) /\ s \in Seq(V)
    BY <1>3, <1>9, <2>1
  <2>4. Len(front \o back) = ls
    <3>1. Len(front \o back) = Len(front) + Len(back)
      BY <2>2, <2>3, ConcatProperties
    <3>2. (ls - 1) + 1 = ls
      BY <1>4
    <3>3. Len(front) = ls - 1
      BY <1>9
    <3> QED
      BY <2>2, <3>1, <3>2, <3>3, Zenon
  <2>5. ASSUME NEW k \in 1 .. ls PROVE (front \o back)[k] = s[k]
    <3>1. CASE k = ls
      <4>1. Len(front) = ls - 1
        BY <1>9
      <4>2. k > Len(front) /\ k <= Len(front) + Len(back) /\ k - Len(front) = 1
        BY <1>4, <2>2, <3>1, <4>1
      <4>3. (front \o back)[k] = back[k - Len(front)]
        <5>1. \A i \in 1 .. Len(front) + Len(back) :
                (front \o back)[i] = IF i <= Len(front) THEN front[i] ELSE back[i - Len(front)]
          BY <2>2, <2>3, ConcatProperties
        <5>2. k \in 1 .. Len(front) + Len(back) /\ ~(k <= Len(front))
          BY <1>4, <2>2, <4>1, <4>2
        <5> QED
          BY <5>1, <5>2
      <4> QED
        BY <2>2, <3>1, <4>2, <4>3
    <3>2. CASE k # ls
      <4>1. k \in 1 .. ls - 1
        BY <1>4, <3>2
      <4> QED
        BY <1>4, <1>9, <2>2, <2>3, <4>1
    <3> QED
      BY <3>1, <3>2
  <2>6. front \o back \in Seq(V)
    BY <2>2, <2>3
  <2>7. front \o back = s
    BY <1>4, <2>3, <2>4, <2>5, <2>6, SeqEqual
  <2> QED
    BY <2>1, <2>2, <2>7
<1>12. Chained(s, n)
  <2>1. Awaiting = << >>
    BY <1>1 DEF Awaiting
  <2>2. transactions \o Awaiting = s
    BY <1>2, <1>3, <2>1
  <2> QED
    BY <1>2, <2>2 DEF SqlIInv
<1>13. PICK last : last = s[ls]
  OBVIOUS
<1>14. IsRun(last) /\ n + 1 = last[1] + Len(last)
  BY <1>4, <1>12, <1>13 DEF Chained
<1>15. PICK p : p = Append(last, n + 1)
  OBVIOUS
<1>16. IsRun(p) /\ p[1] = last[1] /\ p[1] + Len(p) = (n + 1) + 1
  <2>1. IsRun(<<n + 1>>) /\ Len(<<n + 1>>) = 1 /\ <<n + 1>>[1] = n + 1
    BY <1>3 DEF IsRun
  <2>2. Follows(last, <<n + 1>>)
    BY <1>14, <2>1 DEF Follows
  <2>3. last \in Seq(Nat)
    BY <1>14 DEF IsRun
  <2>4. last \o <<n + 1>> = p
    BY <1>3, <1>15, <2>3
  <2>5. IsRun(p) /\ p[1] = last[1] /\ Len(p) = Len(last) + 1
    BY <1>14, <2>1, <2>2, <2>4, RunsJoin
  <2>6. Len(last) \in Nat /\ last[1] \in Nat
    <3>1. Len(last) > 0
      BY <1>14 DEF IsRun
    <3> QED
      BY <2>3, <3>1
  <2> QED
    BY <1>14, <2>5, <2>6
<1>17. Chained(Append(front, p), n + 1)
  <2>1. p[1] = IF Len(back) = 0 THEN n + 1 ELSE back[1][1]
    BY <1>11, <1>13, <1>16
  <2>2. Chained(front \o back, n) /\ n + 1 \in Nat
    BY <1>3, <1>11, <1>12
  <2> QED
    BY <1>3, <1>9, <1>11, <1>16, <2>1, <2>2, ChainGoesOn
<1> QED
  BY <1>1, <1>2, <1>3, <1>5, <1>6, <1>8, <1>9, <1>13, <1>15, <1>17

(* A sign goes behind what waits.                                            *)
LEMMA StartSignKeeps ==
  ASSUME SqlIInv
  PROVE  Chained(Append(transactions \o Awaiting, <<index + 1>>), index + 1)
<1>1. PICK s, n : s = transactions \o Awaiting /\ n = index
  OBVIOUS
<1>2. s \in Seq(Seq(Nat)) /\ n \in Nat /\ Chained(s, n)
  <2>1. PICK V : V = Seq(Nat)
    OBVIOUS
  <2>2. transactions \in Seq(V) /\ Awaiting \in Seq(V)
    BY <2>1, SqlTypes
  <2>3. s \in Seq(V)
    BY <1>1, <2>2
  <2> QED
    BY <1>1, <2>1, <2>3, SqlTypes DEF SqlIInv
<1>3. << >> \in Seq(Seq(Nat)) /\ Len(<< >>) = 0 /\ s \o << >> = s
  BY <1>2
<1>4. PICK p : p = <<n + 1>>
  OBVIOUS
<1>5. IsRun(p) /\ p[1] = n + 1 /\ p[1] + Len(p) = (n + 1) + 1
  BY <1>2, <1>4 DEF IsRun
<1>6. Chained(Append(s, p), n + 1)
  <2>1. p[1] = IF Len(<< >>) = 0 THEN n + 1 ELSE << >>[1][1]
    BY <1>3, <1>5
  <2>2. n + 1 \in Nat /\ Chained(s \o << >>, n)
    BY <1>2, <1>3
  <2> QED
    BY <1>2, <1>3, <1>5, <2>1, <2>2, ChainGoesOn
<1> QED
  BY <1>1, <1>4, <1>6

-----------------------------------------------------------------------------
(***************************************************************************)
(* The invariant is kept                                                   *)
(***************************************************************************)

LEMMA SqlInitial == SqlInit => SqlIInv
<1> SUFFICES ASSUME SqlInit PROVE SqlIInv
  OBVIOUS
<1>1. /\ tokens \in Expressions /\ index = 0 /\ transactions = << >> /\ pending = << >>
      /\ result = "running"
  BY DEF SqlInit
<1>2. 0 \in 0 .. Len(tokens)
  <2>1. PICK S : S = ExpressionToken
    OBVIOUS
  <2>2. tokens \in Seq(S)
    BY <1>1, <2>1, ExpressionsAssumption
  <2>3. Len(tokens) \in Nat
    BY <2>2
  <2> QED
    BY <2>3
<1>3. Awaiting = << >> /\ transactions \o Awaiting = << >>
  BY <1>1 DEF Awaiting
<1>4. Chained(<< >>, 0)
  BY DEF Chained
<1>5. << >> \in Seq(Seq(1 .. 0) \ { << >> }) /\ << >> \in Seq([at : 1 .. 0, left : Seq(1 .. 0)])
  OBVIOUS
<1> QED
  BY <1>1, <1>2, <1>3, <1>4, <1>5 DEF SqlIInv, MissesOnlyAtEnds

(* With a token more, what was of the type still is.                         *)
LEMMA TypesGrow ==
  ASSUME NEW n \in Nat
  PROVE  /\ Seq(1 .. n) \subseteq Seq(1 .. n + 1)
         /\ Seq(Seq(1 .. n) \ { << >> }) \subseteq Seq(Seq(1 .. n + 1) \ { << >> })
         /\ Seq([at : 1 .. n, left : Seq(1 .. n)])
              \subseteq Seq([at : 1 .. n + 1, left : Seq(1 .. n + 1)])
<1>1. Seq(1 .. n) \subseteq Seq(1 .. n + 1)
  <2>1. 1 .. n \subseteq 1 .. n + 1
    OBVIOUS
  <2> QED
    BY <2>1, SeqMonotonic
<1>2. Seq(Seq(1 .. n) \ { << >> }) \subseteq Seq(Seq(1 .. n + 1) \ { << >> })
  <2>1. Seq(1 .. n) \ { << >> } \subseteq Seq(1 .. n + 1) \ { << >> }
    BY <1>1
  <2> QED
    BY <2>1, SeqMonotonic
<1>3. Seq([at : 1 .. n, left : Seq(1 .. n)]) \subseteq Seq([at : 1 .. n + 1, left : Seq(1 .. n + 1)])
  <2>1. [at : 1 .. n, left : Seq(1 .. n)] \subseteq [at : 1 .. n + 1, left : Seq(1 .. n + 1)]
    <3>1. 1 .. n \subseteq 1 .. n + 1
      OBVIOUS
    <3> QED
      BY <1>1, <3>1
  <2> QED
    BY <2>1, SeqMonotonic
<1> QED
  BY <1>1, <1>2, <1>3

(* The steps that read a token: what is left to show of each is the shape of *)
(* the output and of what waits.                                             *)
LEMMA TokenRead ==
  ASSUME SqlIInv, result = "running", More, ~Unsupported(Token),
         index' = index + 1, tokens' = tokens, result' = result,
         transactions' \in Seq(Seq(1 .. index + 1) \ { << >> }),
         pending' \in Seq([at : 1 .. index + 1, left : Seq(1 .. index + 1)]),
         Chained((transactions \o Awaiting)', index + 1),
         pending' # << >> => Awaits(Token)
  PROVE  SqlIInv'
<1>1. PICK n, t : n = index /\ t = tokens
  OBVIOUS
<1>2. n \in Nat /\ Len(t) \in Nat /\ n \in 0 .. Len(t) /\ n < Len(t)
  BY <1>1, SqlTypes DEF SqlIInv, More
<1>3. n + 1 \in 0 .. Len(t) /\ n + 1 > 0
  BY <1>2
<1>4. \A k \in 1 .. n + 1 : ~Unsupported(t[k])
  <2>1. \A k \in 1 .. n : ~Unsupported(t[k])
    BY <1>1 DEF SqlIInv
  <2>2. ~Unsupported(t[n + 1])
    BY <1>1 DEF Token
  <2>3. \A k \in 1 .. n + 1 : k \in 1 .. n \/ k = n + 1
    BY <1>2
  <2> QED
    BY <2>1, <2>2, <2>3
<1>5. t \in Expressions
  BY <1>1 DEF SqlIInv
<1>6. pending' # << >> => Awaits(t[n + 1])
  BY <1>1 DEF Token
<1>7. index' = n + 1 /\ tokens' = t
  BY <1>1
<1> QED
  BY <1>1, <1>3, <1>4, <1>5, <1>6, <1>7 DEF SqlIInv, MissesOnlyAtEnds

LEMMA RunWithin ==
  ASSUME NEW p, NEW m \in Nat, IsRun(p), p[1] >= 1, p[1] + Len(p) = m + 1
  PROVE  p \in Seq(1 .. m) \ { << >> }
<1>1. p \in Seq(Nat) /\ Len(p) \in Nat /\ Len(p) > 0 /\ p[1] \in Nat
  <2>1. p \in Seq(Nat) /\ Len(p) > 0
    BY DEF IsRun
  <2> QED
    BY <2>1
<1>2. ASSUME NEW j \in 1 .. Len(p) PROVE p[j] \in 1 .. m
  <2>1. p[j] = p[1] + j - 1
    BY DEF IsRun
  <2> QED
    BY <1>1, <2>1
<1>3. p = [j \in 1 .. Len(p) |-> p[j]]
  BY <1>1
<1>4. p \in Seq(1 .. m)
  BY <1>1, <1>2, <1>3
<1>5. p # << >>
  BY <1>1
<1> QED
  BY <1>4, <1>5

LEMMA WriteStep == SqlIInv /\ Write => SqlIInv'
<1> SUFFICES ASSUME SqlIInv, Write PROVE SqlIInv'
  OBVIOUS
<1>1. PICK text, s, n : text = Completed(Plain(index + 1)) /\ s = transactions /\ n = index
  OBVIOUS
<1>2. /\ IsRun(text) /\ text[1] >= 1 /\ text[1] + Len(text) = n + 2
      /\ Chained(Append(s, text), n + 1) /\ n \in Nat
  BY <1>1, WriteKeeps, SqlTypes
<1>3. PICK S : S = Seq(1 .. n + 1) \ { << >> }
  OBVIOUS
<1>4. text \in S
  <2>1. n + 1 \in Nat /\ (n + 1) + 1 = n + 2
    BY <1>2
  <2> QED
    BY <1>2, <1>3, <2>1, RunWithin
<1>5. s \in Seq(S)
  BY <1>1, <1>2, <1>3, TypesGrow DEF SqlIInv
<1>6. /\ result = "running" /\ More /\ ~Unsupported(Token) /\ index' = index + 1
      /\ tokens' = tokens /\ result' = result /\ pending' = << >> /\ transactions' = Append(s, text)
  BY <1>1 DEF Write
<1>7. transactions' \in Seq(S)
  BY <1>4, <1>5, <1>6
<1>8. (transactions \o Awaiting)' = Append(s, text)
  <2>1. Awaiting' = << >>
    BY <1>6 DEF Awaiting
  <2> QED
    BY <1>6, <1>7, <2>1
<1>9. << >> \in Seq([at : 1 .. index + 1, left : Seq(1 .. index + 1)])
  OBVIOUS
<1> QED
  BY <1>1, <1>2, <1>3, <1>6, <1>7, <1>8, <1>9, TokenRead

LEMMA StartCallStep == SqlIInv /\ StartCall => SqlIInv'
<1> SUFFICES ASSUME SqlIInv, StartCall PROVE SqlIInv'
  OBVIOUS
<1>1. PICK last, front, n : last = Last(transactions) /\ front = Rollback /\ n = index
  OBVIOUS
<1>2. /\ pending = << >> /\ last \in Seq(1 .. n) /\ front \in Seq(Seq(1 .. n) \ { << >> })
      /\ Chained(Append(front, Append(last, n + 1)), n + 1) /\ n \in Nat
  BY <1>1, StartCallKeeps, SqlTypes
<1>3. PICK S : S = Seq(1 .. n + 1) \ { << >> }
  OBVIOUS
<1>4. front \in Seq(S) /\ last \in Seq(1 .. n + 1) /\ n + 1 \in 1 .. n + 1
  BY <1>2, <1>3, TypesGrow
<1>5. PICK operator : operator = [at |-> n + 1, left |-> last]
  OBVIOUS
<1>6. /\ result = "running" /\ More /\ ~Unsupported(Token) /\ index' = index + 1 /\ BecomesCall(Token)
      /\ tokens' = tokens /\ result' = result
      /\ pending' = <<operator>> /\ transactions' = front
  <2>1. Append(<< >>, operator) = <<operator>>
    OBVIOUS
  <2> QED
    BY <1>1, <1>2, <1>5, <2>1 DEF StartCall
<1>7. pending' \in Seq([at : 1 .. n + 1, left : Seq(1 .. n + 1)])
  <2>1. PICK R : R = [at : 1 .. n + 1, left : Seq(1 .. n + 1)]
    OBVIOUS
  <2>2. operator \in R
    BY <1>4, <1>5, <2>1
  <2>3. <<operator>> \in Seq(R)
    BY <2>2
  <2> QED
    BY <1>6, <2>1, <2>3
<1>8. (transactions \o Awaiting)' = Append(front, Append(last, n + 1))
  <2>1. PICK p : p = <<operator>>
    OBVIOUS
  <2>2. DOMAIN p = 1 .. 1 /\ p[1] = operator
    BY <2>1
  <2>3. operator.left = last /\ operator.at = n + 1
    BY <1>5
  <2>4. Awaiting' = [k \in DOMAIN p |-> Append(p[k].left, p[k].at)]
    BY <1>6, <2>1 DEF Awaiting
  <2>5. PICK w : w = Append(last, n + 1)
    OBVIOUS
  <2>6. Awaiting' = <<w>>
    <3>1. \A k \in DOMAIN p : Append(p[k].left, p[k].at) = w
      BY <2>2, <2>3, <2>5
    <3>2. Awaiting' = [k \in 1 .. 1 |-> w]
      BY <2>2, <2>4, <3>1
    <3>3. [k \in 1 .. 1 |-> w] = <<w>>
      OBVIOUS
    <3> QED
      BY <3>2, <3>3
  <2>7. front \o <<w>> = Append(front, w)
    BY <1>4
  <2> QED
    BY <1>6, <2>5, <2>6, <2>7
<1>9. Awaits(Token)
  BY <1>6 DEF Awaits
<1> QED
  BY <1>1, <1>2, <1>3, <1>4, <1>6, <1>7, <1>8, <1>9, TokenRead

LEMMA StartSignStep == SqlIInv /\ StartSign => SqlIInv'
<1> SUFFICES ASSUME SqlIInv, StartSign PROVE SqlIInv'
  OBVIOUS
<1>1. PICK s, p, a, n : s = transactions /\ p = pending /\ a = Awaiting /\ n = index
  OBVIOUS
<1>2. /\ s \in Seq(Seq(Nat)) /\ p \in Seq(Operator) /\ a \in Seq(Seq(Nat)) /\ n \in Nat
      /\ Len(a) = Len(p) /\ \A k \in 1 .. Len(p) : a[k] = Waits(p[k])
  BY <1>1, SqlTypes
<1>3. Chained(Append(s \o a, <<n + 1>>), n + 1)
  BY <1>1, StartSignKeeps
<1>4. PICK operator : operator = [at |-> n + 1, left |-> << >>]
  OBVIOUS
<1>5. /\ result = "running" /\ More /\ ~Unsupported(Token) /\ index' = index + 1 /\ BecomesSign(Token)
      /\ tokens' = tokens /\ result' = result
      /\ pending' = Append(p, operator) /\ transactions' = s
  BY <1>1, <1>4 DEF StartSign
<1>6. transactions' \in Seq(Seq(1 .. n + 1) \ { << >> })
  BY <1>1, <1>2, <1>5, TypesGrow DEF SqlIInv
<1>7. pending' \in Seq([at : 1 .. n + 1, left : Seq(1 .. n + 1)])
  <2>1. PICK R : R = [at : 1 .. n + 1, left : Seq(1 .. n + 1)]
    OBVIOUS
  <2>2. p \in Seq(R)
    BY <1>1, <1>2, <2>1, TypesGrow DEF SqlIInv
  <2>3. operator \in R
    <3>1. << >> \in Seq(1 .. n + 1) /\ n + 1 \in 1 .. n + 1
      BY <1>2
    <3> QED
      BY <1>4, <2>1, <3>1
  <2>4. Append(p, operator) \in Seq(R)
    BY <2>2, <2>3
  <2> QED
    BY <1>5, <2>1, <2>4
<1>8. (transactions \o Awaiting)' = Append(s \o a, <<n + 1>>)
  <2>1. PICK q : q = Append(p, operator)
    OBVIOUS
  <2>2. /\ DOMAIN q = 1 .. Len(p) + 1 /\ q[Len(p) + 1] = operator
        /\ \A k \in 1 .. Len(p) : q[k] = p[k]
    BY <1>2, <2>1
  <2>3. Awaiting' = [k \in DOMAIN q |-> Append(q[k].left, q[k].at)]
    BY <1>5, <2>1 DEF Awaiting
  <2>4. PICK w : w = <<n + 1>>
    OBVIOUS
  <2>5. Append(operator.left, operator.at) = w
    <3>1. operator.left = << >> /\ operator.at = n + 1
      BY <1>4
    <3>2. Append(<< >>, n + 1) = <<n + 1>>
      OBVIOUS
    <3> QED
      BY <2>4, <3>1, <3>2
  <2>6. \A k \in 1 .. Len(p) : Append(q[k].left, q[k].at) = a[k]
    BY <1>2, <2>2 DEF Waits
  <2>7. PICK b : b = Append(a, w)
    OBVIOUS
  <2>8. b = [k \in 1 .. Len(p) + 1 |-> b[k]] /\ b[Len(p) + 1] = w /\ \A k \in 1 .. Len(p) : b[k] = a[k]
    <3>1. PICK V : V = Seq(Nat)
      OBVIOUS
    <3>2. a \in Seq(V) /\ w \in V
      BY <1>2, <2>4, <3>1
    <3>3. PICK l \in Nat : l = Len(a) /\ l = Len(p)
      BY <1>2
    <3>4. b \in Seq(V) /\ Len(b) = l + 1 /\ b[l + 1] = w /\ \A k \in 1 .. l : b[k] = a[k]
      <4>1. /\ Append(a, w) \in Seq(V) /\ Len(Append(a, w)) = Len(a) + 1
            /\ Append(a, w)[Len(a) + 1] = w
            /\ \A k \in 1 .. Len(a) : Append(a, w)[k] = a[k]
        BY <3>2, AppendProperties
      <4> QED
        BY <2>7, <3>3, <4>1
    <3>5. b = [k \in 1 .. l + 1 |-> b[k]]
      BY <3>4
    <3> QED
      BY <3>3, <3>4, <3>5
  <2>9. \A k \in 1 .. Len(p) + 1 : Append(q[k].left, q[k].at) = b[k]
    <3>1. \A k \in 1 .. Len(p) + 1 : k \in 1 .. Len(p) \/ k = Len(p) + 1
      BY <1>2
    <3> QED
      BY <2>2, <2>5, <2>6, <2>8, <3>1
  <2>10. Awaiting' = b
    BY <2>2, <2>3, <2>8, <2>9
  <2>11. s \o Append(a, w) = Append(s \o a, w)
    <3>1. PICK V : V = Seq(Nat)
      OBVIOUS
    <3>2. s \in Seq(V) /\ a \in Seq(V) /\ w \in V
      BY <1>2, <2>4, <3>1
    <3> QED
      BY <3>2
  <2> QED
    BY <1>5, <2>4, <2>7, <2>10, <2>11
<1>9. Awaits(Token)
  BY <1>5 DEF Awaits
<1> QED
  BY <1>1, <1>3, <1>5, <1>6, <1>7, <1>8, <1>9, TokenRead

(* At the end and at an error nothing but the result changes.                *)
LEMMA EndKeeps ==
  ASSUME SqlIInv, UNCHANGED <<tokens, index, transactions, pending>>,
         result' \in { "running", "done", "unsupported", "missing token" },
         result' = "done" => index = Len(tokens) /\ pending = << >>,
         result' = "unsupported" => NoSql,
         result' = "missing token" => BecomesCall(tokens[1]) \/ Last(tokens).kind \in OperatorKinds
  PROVE  SqlIInv'
<1>1. Awaiting' = Awaiting /\ NoSql' = NoSql
  BY DEF Awaiting, NoSql, More, Token
<1> QED
  BY <1>1 DEF SqlIInv, MissesOnlyAtEnds

LEMMA FailStep == SqlIInv /\ Fail => SqlIInv'
<1> SUFFICES ASSUME SqlIInv, Fail PROVE SqlIInv'
  OBVIOUS
<1>1. PICK t, n : t = tokens /\ n = index
  OBVIOUS
<1>2. /\ t \in Expressions /\ n \in Nat /\ Len(t) \in Nat /\ n \in 0 .. Len(t)
      /\ DOMAIN t = 1 .. Len(t)
  <2>1. PICK S : S = ExpressionToken
    OBVIOUS
  <2>2. t \in Seq(S)
    BY <1>1, <2>1, SqlTypes
  <2>3. Len(t) \in Nat /\ DOMAIN t = 1 .. Len(t)
    BY <2>2
  <2>4. t \in Expressions /\ n \in 0 .. Len(t)
    BY <1>1 DEF SqlIInv
  <2> QED
    BY <2>3, <2>4
<1>3. ASSUME ~NoSql PROVE BecomesCall(tokens[1]) \/ Last(tokens).kind \in OperatorKinds
  <2>1. CASE NoToken
    <3>1. n = Len(t) /\ Awaits(t[n])
      <4>1. ~(n < Len(t)) /\ pending # << >>
        BY <1>1, <2>1 DEF NoToken, More
      <4>2. Awaits(t[n])
        BY <1>1, <4>1 DEF SqlIInv
      <4>3. n = Len(t)
        <5>1. PICK l \in Nat : l = Len(t)
          BY <1>2
        <5>2. n \in 0 .. l /\ ~(n < l)
          BY <1>2, <4>1, <5>1
        <5> QED
          BY <5>1, <5>2
      <4> QED
        BY <4>2, <4>3
    <3>2. t[n].kind \in OperatorKinds
      BY <3>1 DEF Awaits, BecomesCall, BecomesSign, OperatorKinds
    <3> QED
      BY <1>1, <3>1, <3>2 DEF Last
  <2>2. CASE NoPriorToken
    <3>1. n < Len(t) /\ BecomesCall(t[n + 1]) /\ transactions = << >>
      BY <1>1, <2>2 DEF NoPriorToken, More, Token
    <3>2. CASE n = 0
      BY <1>1, <3>1, <3>2
    <3>3. CASE n # 0
      <4>1. pending # << >>
        <5> SUFFICES ASSUME pending = << >> PROVE FALSE
          OBVIOUS
        <5>1. Awaiting = << >>
          BY DEF Awaiting
        <5>2. transactions \o Awaiting = << >>
          BY <3>1, <5>1
        <5>3. Chained(<< >>, n)
          BY <1>1, <5>2 DEF SqlIInv
        <5> QED
          BY <3>3, <5>3 DEF Chained
      <4>2. Awaits(t[n])
        BY <1>1, <4>1 DEF SqlIInv
      <4>3. n \in 1 .. Len(t) - 1
        BY <1>2, <3>1, <3>3
      <4> QED
        BY <1>2, <3>1, <4>2, <4>3, NoCallAfterOperator
    <3> QED
      BY <3>2, <3>3
  <2> QED
    BY <1>3, <2>1, <2>2 DEF Fail
<1>4. result' = IF NoSql THEN "unsupported" ELSE "missing token"
  BY DEF Fail
<1> QED
  BY <1>3, <1>4, EndKeeps DEF Fail

LEMMA SqlDoneStep == SqlIInv /\ SqlDone => SqlIInv'
<1> SUFFICES ASSUME SqlIInv, SqlDone PROVE SqlIInv'
  OBVIOUS
<1>1. index = Len(tokens)
  <2>1. index \in Nat /\ Len(tokens) \in Nat /\ index \in 0 .. Len(tokens) /\ ~(index < Len(tokens))
    BY SqlTypes DEF SqlIInv, SqlDone, More
  <2> QED
    BY <2>1
<1> QED
  BY <1>1, EndKeeps DEF SqlDone

LEMMA SqlStep == SqlIInv /\ [SqlNext \/ Returned]_sqlVars => SqlIInv'
<1> SUFFICES ASSUME SqlIInv, [SqlNext \/ Returned]_sqlVars PROVE SqlIInv'
  OBVIOUS
<1>1. CASE UNCHANGED sqlVars
  <2>1. Awaiting' = Awaiting /\ NoSql' = NoSql
    BY <1>1 DEF Awaiting, NoSql, More, Token, sqlVars
  <2> QED
    BY <1>1, <2>1 DEF SqlIInv, MissesOnlyAtEnds, sqlVars
<1> QED
  BY <1>1, WriteStep, StartCallStep, StartSignStep, SqlDoneStep, FailStep DEF SqlNext, Returned

THEOREM SqlInvariance == SqlSpec => []SqlIInv
BY SqlInitial, SqlStep, PTL DEF SqlSpec

-----------------------------------------------------------------------------
(***************************************************************************)
(* The theorems                                                            *)
(***************************************************************************)

(* The output stream stays within the tokens read, for every expression.     *)
THEOREM SqlTypeCorrect == SqlSpec => []SqlTypeOK
<1>1. SqlIInv => SqlTypeOK
  BY SqlTypes DEF SqlIInv, SqlTypeOK
<1> QED
  BY <1>1, SqlInvariance, PTL

(* The query that ToSQLQuery writes holds every token of the expression once *)
(* and in order, whatever calls and signs are nested.                        *)
THEOREM EveryTokenKept == SqlSpec => []KeepsTokens
<1>1. SqlIInv => KeepsTokens
  <2> SUFFICES ASSUME SqlIInv PROVE KeepsTokens
    OBVIOUS
  <2>1. PICK all, n : all = transactions \o Awaiting /\ n = index
    OBVIOUS
  <2>2. Chained(all, n) /\ n \in Nat
    BY <2>1, SqlTypes DEF SqlIInv
  <2>3. FlattenSeq(all) = [k \in 1 .. n |-> k]
    BY <2>2, Flattened
  <2> QED
    BY <2>1, <2>3 DEF KeepsTokens
<1> QED
  BY <1>1, SqlInvariance, PTL

(* Of the tokens of an expression SQL has something for the supported ones.  *)
LEMMA SupportedKinds ==
  ASSUME NEW token \in ExpressionToken
  PROVE  SqlHas(token) <=> ~Unsupported(token)
<1>1. token.kind \in TokenKinds
  BY DEF ExpressionToken, OperatorKinds, TokenKinds
<1> QED
  BY <1>1 DEF SqlHas, Unsupported, TokenKinds

(* ToSQLQuery fails only for the first token that SQL has nothing for, and   *)
(* for an operator at an end of the list, and it writes no query that leaves *)
(* one out.                                                                  *)
THEOREM FailuresExplained == SqlSpec => []FailsOnlyUnsupported
<1>1. SqlIInv => FailsOnlyUnsupported
  <2> SUFFICES ASSUME SqlIInv PROVE FailsOnlyUnsupported
    OBVIOUS
  <2>1. PICK t, n, S : t = tokens /\ n = index /\ S = ExpressionToken
    OBVIOUS
  <2>2. t \in Seq(S) /\ DOMAIN t = 1 .. Len(t) /\ Len(t) \in Nat /\ n \in 0 .. Len(t)
    <3>1. t \in Seq(S) /\ n \in 0 .. Len(t)
      BY <2>1, SqlTypes DEF SqlIInv
    <3> QED
      BY <3>1
  <2>3. \A k \in 1 .. Len(t) : SqlHas(t[k]) <=> ~Unsupported(t[k])
    <3>1. \A k \in 1 .. Len(t) : t[k] \in S
      BY <2>2
    <3> QED
      BY <2>1, <3>1, SupportedKinds
  <2>4. \A k \in 1 .. n : SqlHas(t[k])
    <3>1. \A k \in 1 .. n : ~Unsupported(t[k])
      BY <2>1 DEF SqlIInv
    <3>2. \A k \in 1 .. n : k \in 1 .. Len(t)
      BY <2>2
    <3> QED
      BY <2>3, <3>1, <3>2
  <2>5. ASSUME result = "unsupported" PROVE n < Len(t) /\ ~SqlHas(t[n + 1])
    <3>1. n < Len(t) /\ Unsupported(t[n + 1])
      BY <2>1, <2>5 DEF SqlIInv, NoSql, More, Token
    <3>2. n + 1 \in 1 .. Len(t)
      BY <2>2, <3>1
    <3> QED
      BY <2>3, <3>1, <3>2
  <2>6. ASSUME result = "done" PROVE \A k \in DOMAIN t : SqlHas(t[k])
    BY <2>1, <2>2, <2>4, <2>6 DEF SqlIInv
  <2>7. MissesOnlyAtEnds
    BY DEF SqlIInv
  <2> QED
    BY <2>1, <2>4, <2>5, <2>6, <2>7 DEF FailsOnlyUnsupported, More, Token
<1> QED
  BY <1>1, SqlInvariance, PTL

=============================================================================
