---------------------------- MODULE LexerProofs ----------------------------
(***************************************************************************)
(* Proofs about the lexer and its stream, for every encoding that keeps    *)
(* UTF-8's promise, all strings of bytes, whatever unicode says of a rune  *)
(* and strconv and time of a text.                                         *)
(***************************************************************************)
EXTENDS Lexer, SequenceTheorems, WellFoundedInduction, TLAPS

(***************************************************************************)
(* Functions on numbers that are defined from their value at other numbers *)
(***************************************************************************)

(* Induction for sets of numbers. *)
LEMMA Induction ==
  ASSUME NEW T, 0 \in T, \A m \in Nat : m \in T => m + 1 \in T
  PROVE  Nat \subseteq T
<1> SUFFICES ASSUME Nat \ T # { } PROVE FALSE
  OBVIOUS
<1> DEFINE Others == Nat \ T
<1>1. Others \in SUBSET Nat /\ Others # { }
  OBVIOUS
<1> HIDE DEF Others
<1>2. PICK x \in Others : \A y \in Others : <<y, x>> \notin OpToRel(<, Nat)
  BY <1>1, NatLessThanWellFounded, WFMin
<1>3. \A y \in Others : <<y, x>> \in OpToRel(<, Nat) <=> y < x
  BY <1>1 DEF OpToRel
<1>4. \A y \in Others : ~(y < x)
  BY <1>2, <1>3, Zenon
<1>5. x \in Nat /\ x \notin T
  BY DEF Others
<1>6. x # 0 /\ x - 1 \in Nat /\ (x - 1) + 1 = x /\ x - 1 < x
  BY <1>5
<1>7. x - 1 \notin T
  BY <1>5, <1>6
<1> QED
  BY <1>4, <1>6, <1>7 DEF Others

(* What is put together from the end: a step makes it of a number and of     *)
(* what was made at a greater one.                                           *)
PutTogether(f, n, base, step, jump) ==
  f = [k \in 0..n |-> IF k = n THEN base ELSE step[<<k, f[jump[k]]>>]]

Parts(n, V, base, step, jump) ==
  /\ n \in Nat /\ base \in V /\ step \in [Nat \X V -> V] /\ jump \in [0..(n - 1) -> Nat]
  /\ \A k \in 0..(n - 1) : jump[k] \in (k + 1)..n

LEMMA Together ==
  ASSUME NEW n, NEW V, NEW base, NEW step, NEW jump, Parts(n, V, base, step, jump)
  PROVE  \E f \in [0..n -> V] : PutTogether(f, n, base, step, jump)
<1> /\ n \in Nat /\ base \in V /\ step \in [Nat \X V -> V] /\ jump \in [0..(n - 1) -> Nat]
    /\ \A k \in 0..(n - 1) : jump[k] \in (k + 1)..n
  BY DEF Parts
<1> DEFINE F == [0..n -> V]
           From(f, m) == \A k \in 0..(n - 1) : k >= n - m => f[k] = step[<<k, f[jump[k]]>>]
           Reached == { m \in Nat : \E f \in F : f[n] = base /\ From(f, m) }
<1>1. 0 \in Reached
  <2>1. PICK f : f = [k \in 0..n |-> base]
    OBVIOUS
  <2>2. f \in F /\ f[n] = base /\ From(f, 0)
    BY <2>1
  <2> QED
    BY <2>2
<1>2. ASSUME NEW m \in Nat, m \in Reached PROVE m + 1 \in Reached
  <2>1. PICK f \in F : f[n] = base /\ From(f, m)
    BY <1>2
  <2>2. CASE m + 1 > n
    <3>1. From(f, m + 1)
      BY <2>1, <2>2
    <3> HIDE DEF From
    <3> QED
      BY <2>1, <3>1
  <2>3. CASE m + 1 <= n
    <3>1. PICK low \in 0..(n - 1) : low = n - (m + 1)
      BY <2>3
    <3>2. jump[low] \in 0..n /\ jump[low] # low /\ f[jump[low]] \in V
      BY <2>1, <3>1
    <3>3. PICK longer : longer = [f EXCEPT ![low] = step[<<low, f[jump[low]]>>]]
      OBVIOUS
    <3>4. longer \in F
      BY <2>1, <3>2, <3>3
    <3>5. longer[low] = step[<<low, f[jump[low]]>>] /\ \A k \in 0..n : k # low => longer[k] = f[k]
      BY <2>1, <3>1, <3>3
    <3>6. longer[n] = base
      BY <2>1, <3>1, <3>5
    <3>7. ASSUME NEW k \in 0..(n - 1), k >= n - (m + 1) PROVE longer[k] = step[<<k, longer[jump[k]]>>]
      <4>1. jump[k] \in 0..n /\ jump[k] # low /\ (k = low \/ k >= n - m)
        BY <3>1, <3>7
      <4>2. longer[jump[k]] = f[jump[k]]
        BY <3>5, <4>1
      <4>3. CASE k = low
        BY <3>5, <4>2, <4>3
      <4>4. CASE k # low
        <5>1. f[k] = step[<<k, f[jump[k]]>>]
          BY <2>1, <4>1, <4>4
        <5>2. longer[k] = f[k]
          BY <3>5, <4>4
        <5> QED
          BY <4>2, <5>1, <5>2
      <4> QED
        BY <4>3, <4>4
    <3>8. From(longer, m + 1)
      BY <3>7
    <3> HIDE DEF From, F
    <3> QED
      BY <3>4, <3>6, <3>8
  <2>4. n \in Nat /\ m \in Nat
    OBVIOUS
  <2> HIDE DEF Reached
  <2> QED
    BY <2>2, <2>3, <2>4
<1>3. Nat \subseteq Reached
  <2> HIDE DEF Reached
  <2> QED
    BY <1>1, <1>2, Induction
<1>4. PICK f \in F : f[n] = base /\ \A k \in 0..(n - 1) : f[k] = step[<<k, f[jump[k]]>>]
  <2>1. PICK f \in F : f[n] = base /\ From(f, n)
    <3> HIDE DEF From, F
    <3> QED
      BY <1>3
  <2>2. \A k \in 0..(n - 1) : k >= n - n
    OBVIOUS
  <2> QED
    BY <2>1, <2>2
<1>5. PutTogether(f, n, base, step, jump)
  <2>1. \A k \in 0..n : k = n \/ k \in 0..(n - 1)
    OBVIOUS
  <2>2. f = [k \in 0..n |-> f[k]]
    OBVIOUS
  <2> QED
    BY <1>4, <2>1, <2>2 DEF PutTogether
<1> QED
  BY <1>5

(* A sequence put together from the end is the only one of its definition.   *)
Strung(f, n, head, jump) ==
  f = [k \in 0..n |-> IF k = n THEN << >> ELSE head[k] \o f[jump[k]]]

Links(S, n, head, jump) ==
  /\ n \in Nat /\ head \in [0..(n - 1) -> Seq(S)] /\ jump \in [0..(n - 1) -> Nat]
  /\ \A k \in 0..(n - 1) : jump[k] \in (k + 1)..n

LEMMA StrungTogether ==
  ASSUME NEW S, NEW n, NEW head, NEW jump, Links(S, n, head, jump)
  PROVE  \E f \in [0..n -> Seq(S)] :
           Strung(f, n, head, jump) /\ \A g : Strung(g, n, head, jump) => g = f
<1> /\ n \in Nat /\ head \in [0..(n - 1) -> Seq(S)] /\ jump \in [0..(n - 1) -> Nat]
    /\ \A k \in 0..(n - 1) : jump[k] \in (k + 1)..n
  BY DEF Links
<1> DEFINE V == Seq(S)
           step == [p \in Nat \X V |-> IF p[1] \in 0..(n - 1) THEN head[p[1]] \o p[2] ELSE p[2]]
<1>1. step \in [Nat \X V -> V]
  <2>1. ASSUME NEW p \in Nat \X V
        PROVE  (IF p[1] \in 0..(n - 1) THEN head[p[1]] \o p[2] ELSE p[2]) \in V
    <3>1. p[2] \in Seq(S)
      OBVIOUS
    <3>2. ASSUME p[1] \in 0..(n - 1) PROVE head[p[1]] \o p[2] \in Seq(S)
      <4>1. head[p[1]] \in Seq(S)
        BY <3>2
      <4> QED
        BY <3>1, <4>1, ConcatProperties
    <3> QED
      BY <3>1, <3>2
  <2> QED
    BY <2>1
<1>2. ASSUME NEW k \in 0..(n - 1), NEW v \in V PROVE step[<<k, v>>] = head[k] \o v
  <2>1. PICK p : p = <<k, v>>
    OBVIOUS
  <2>2. p \in Nat \X V /\ p[1] = k /\ p[2] = v
    BY <2>1
  <2>3. step[p] = IF p[1] \in 0..(n - 1) THEN head[p[1]] \o p[2] ELSE p[2]
    BY <2>2
  <2> HIDE DEF step, V
  <2>4. step[p] = head[k] \o v
    BY <2>2, <2>3
  <2> QED
    BY <2>1, <2>4
<1>3. << >> \in V
  OBVIOUS
<1> HIDE DEF step, V
<1>4. PICK f \in [0..n -> V] : PutTogether(f, n, << >>, step, jump)
  <2>1. Parts(n, V, << >>, step, jump)
    BY <1>1, <1>3 DEF Parts
  <2> QED
    BY <2>1, Together
<1>5. f[n] = << >> /\ \A k \in 0..(n - 1) : f[jump[k]] \in V /\ f[k] = head[k] \o f[jump[k]]
  <2>1. \A k \in 0..n : f[k] = IF k = n THEN << >> ELSE step[<<k, f[jump[k]]>>]
    BY <1>4 DEF PutTogether
  <2>2. n \in 0..n /\ \A k \in 0..(n - 1) : k \in 0..n /\ k # n /\ jump[k] \in 0..n
    OBVIOUS
  <2>3. f[n] = << >>
    BY <2>1, <2>2
  <2>4. ASSUME NEW k \in 0..(n - 1) PROVE f[jump[k]] \in V /\ f[k] = head[k] \o f[jump[k]]
    <3>1. f[jump[k]] \in V
      BY <1>4, <2>2
    <3>2. f[k] = step[<<k, f[jump[k]]>>]
      BY <2>1, <2>2
    <3> QED
      BY <1>2, <3>1, <3>2
  <2> QED
    BY <2>3, <2>4
<1>6. Strung(f, n, head, jump)
  <2>1. \A k \in 0..n : k = n \/ k \in 0..(n - 1)
    OBVIOUS
  <2>2. f = [k \in 0..n |-> f[k]]
    BY <1>4
  <2>3. \A k \in 0..n : f[k] = IF k = n THEN << >> ELSE head[k] \o f[jump[k]]
    BY <1>5, <2>1
  <2> QED
    BY <2>2, <2>3 DEF Strung
<1>7. ASSUME NEW g, Strung(g, n, head, jump) PROVE g = f
  <2>1. \A k \in 0..n : g[k] = IF k = n THEN << >> ELSE head[k] \o g[jump[k]]
    BY <1>7 DEF Strung
  <2>2. g[n] = << >> /\ \A k \in 0..(n - 1) : g[k] = head[k] \o g[jump[k]]
    <3>1. n \in 0..n /\ \A k \in 0..(n - 1) : k \in 0..n /\ k # n
      OBVIOUS
    <3> QED
      BY <2>1, <3>1
  <2>3. g = [k \in 0..n |-> g[k]]
    BY <1>7 DEF Strung
  <2> DEFINE Same == { m \in Nat : \A k \in 0..n : k >= n - m => g[k] = f[k] }
  <2>4. 0 \in Same
    <3>1. \A k \in 0..n : k >= n - 0 => k = n
      OBVIOUS
    <3> QED
      BY <1>5, <2>2, <3>1
  <2>5. ASSUME NEW m \in Nat, m \in Same PROVE m + 1 \in Same
    <3>1. ASSUME NEW k \in 0..n, k >= n - (m + 1) PROVE g[k] = f[k]
      <4>1. CASE k >= n - m
        BY <2>5, <4>1
      <4>2. CASE ~(k >= n - m)
        <5>1. k \in 0..(n - 1)
          BY <4>2
        <5>2. jump[k] \in 0..n /\ jump[k] >= n - m
          BY <3>1, <5>1
        <5>3. g[jump[k]] = f[jump[k]]
          BY <2>5, <5>2
        <5> QED
          BY <1>5, <2>2, <5>1, <5>3
      <4> QED
        BY <4>1, <4>2
    <3> QED
      BY <3>1
  <2>6. Nat \subseteq Same
    <3> HIDE DEF Same
    <3> QED
      BY <2>4, <2>5, Induction
  <2>7. \A k \in 0..n : g[k] = f[k]
    <3>1. n \in Same
      BY <2>6
    <3>2. \A k \in 0..n : k >= n - n
      OBVIOUS
    <3> QED
      BY <3>1, <3>2
  <2>8. f = [k \in 0..n |-> f[k]]
    BY <1>4
  <2> QED
    BY <2>3, <2>7, <2>8
<1> QED
  BY <1>4, <1>6, <1>7 DEF V

-----------------------------------------------------------------------------
(***************************************************************************)
(* What is decoded                                                         *)
(***************************************************************************)

Runes == Ascii \cup DOMAIN Encoding

(* The members of a part of a sequence.                                      *)
LEMMA Part ==
  ASSUME NEW S, NEW s \in Seq(S), NEW i \in 1..Len(s), NEW j \in i..Len(s)
  PROVE  /\ SubSeq(s, i, j) \in Seq(S) /\ Len(SubSeq(s, i, j)) = (j - i) + 1
         /\ \A k \in 1..((j - i) + 1) : SubSeq(s, i, j)[k] = s[(i + k) - 1]
         /\ SubSeq(s, i, j)[1] = s[i]
<1>1. \A k \in i..j : k \in 1..Len(s) /\ s[k] \in S
  BY ElementOfSeq
<1>2. i \in Int /\ j \in Int /\ i <= j /\ 1 \in 1..((j - i) + 1) /\ (i + 1) - 1 = i
  OBVIOUS
<1>3. /\ SubSeq(s, i, j) \in Seq(S) /\ Len(SubSeq(s, i, j)) = (j - i) + 1
      /\ \A k \in 1..((j - i) + 1) : SubSeq(s, i, j)[k] = s[(i + k) - 1]
  BY <1>1, <1>2, SubSeqProperties
<1> QED
  BY <1>2, <1>3

(* A part of a sequence that is one long.                                    *)
LEMMA OneOf ==
  ASSUME NEW S, NEW s \in Seq(S), NEW i \in 1..Len(s)
  PROVE  SubSeq(s, i, i) = <<s[i]>>
<1>1. i \in Int /\ i < i + 1 /\ i + 1 \in Int /\ i \in i..Len(s) /\ s[i] \in S
  BY ElementOfSeq
<1>2. SubSeq(s, i, i) = <<s[i]>> \o SubSeq(s, i + 1, i)
  BY <1>1, SubSeqRecursiveFirst
<1>3. SubSeq(s, i + 1, i) = << >>
  BY <1>1, SubSeqEmpty
<1>4. <<s[i]>> \in Seq(S)
  BY <1>1
<1> QED
  BY <1>2, <1>3, <1>4, ConcatEmptySeq

(* Texts that are joined in either order.                                    *)
LEMMA JoinedThrice ==
  ASSUME NEW x \in Seq(Bytes), NEW y \in Seq(Bytes), NEW z \in Seq(Bytes)
  PROVE  (x \o y) \o z = x \o (y \o z)
BY ConcatAssociative

(* A rune has at least one byte.                                             *)
LEMMA EncodeType ==
  ASSUME NEW r \in Runes
  PROVE  Encode(r) \in Seq(Bytes) /\ Len(Encode(r)) > 0 /\ RuneLen(r) = Len(Encode(r))
<1>1. CASE r \in DOMAIN Encoding
  <2>1. Encode(r) = Encoding[r]
    BY <1>1 DEF Encode
  <2>2. Encoding[r] \in Seq(Bytes \ Ascii) /\ Len(Encoding[r]) > 1
    BY <1>1, EncodingAssumption
  <2>3. Encoding[r] \in Seq(Bytes)
    BY <2>2
  <2> QED
    BY <2>1, <2>2, <2>3 DEF RuneLen
<1>2. CASE r \notin DOMAIN Encoding
  <2>1. Encode(r) = <<r>> /\ r \in Bytes
    BY <1>2, EncodingAssumption DEF Encode, Runes
  <2> QED
    BY <2>1 DEF RuneLen
<1> QED
  BY <1>1, <1>2

(* An encoding is found, or a single byte is taken.                          *)
LEMMA Decoded ==
  ASSUME NEW bytes \in Seq(Bytes), NEW at \in Nat
  PROVE  LET d == DecodeRune(bytes, at) IN
         \/ \E r \in DOMAIN Encoding : r \in EncodedBetween(bytes, at, at + Len(Encoding[r]))
                                       /\ d.rune = r /\ d.width = Len(Encoding[r])
         \/ /\ \A r \in DOMAIN Encoding : r \notin EncodedBetween(bytes, at, at + Len(Encoding[r]))
            /\ d.rune = IF bytes[at + 1] \in Ascii THEN bytes[at + 1] ELSE RuneError
            /\ d.width = 1
<1>1. \A r \in DOMAIN Encoding : RuneLen(r) = Len(Encoding[r])
  BY DEF RuneLen, Encode
<1>2. PICK d : d = DecodeRune(bytes, at)
  OBVIOUS
<1>3. CASE \E r \in DOMAIN Encoding : r \in EncodedBetween(bytes, at, at + RuneLen(r))
  <2>1. PICK r : r = CHOOSE c \in DOMAIN Encoding : c \in EncodedBetween(bytes, at, at + RuneLen(c))
    OBVIOUS
  <2>2. r \in DOMAIN Encoding /\ r \in EncodedBetween(bytes, at, at + RuneLen(r))
    BY <1>3, <2>1
  <2>3. d = [rune |-> r, width |-> RuneLen(r)]
    BY <1>2, <1>3, <2>1 DEF DecodeRune
  <2>4. d.rune = r /\ d.width = Len(Encoding[r]) /\ r \in EncodedBetween(bytes, at, at + Len(Encoding[r]))
    BY <1>1, <2>2, <2>3
  <2> QED
    BY <1>2, <2>2, <2>4
<1>4. CASE ~\E r \in DOMAIN Encoding : r \in EncodedBetween(bytes, at, at + RuneLen(r))
  <2>1. d = [rune |-> IF bytes[at + 1] \in Ascii THEN bytes[at + 1] ELSE RuneError, width |-> 1]
    BY <1>2, <1>4 DEF DecodeRune
  <2>2. d.rune = (IF bytes[at + 1] \in Ascii THEN bytes[at + 1] ELSE RuneError) /\ d.width = 1
    BY <2>1
  <2>3. \A r \in DOMAIN Encoding : r \notin EncodedBetween(bytes, at, at + Len(Encoding[r]))
    BY <1>1, <1>4
  <2> QED
    BY <1>2, <2>2, <2>3
<1> QED
  BY <1>3, <1>4

(* Every place of a string has a rune, which stands there as it is encoded   *)
(* unless it is RuneError.                                                   *)
LEMMA DecodeFacts ==
  ASSUME NEW bytes \in Seq(Bytes), NEW at \in Nat
  PROVE  LET d == DecodeRune(bytes, at) IN
         /\ d.width \in Nat \ { 0 }
         /\ at < Len(bytes) =>
              /\ at + d.width <= Len(bytes) /\ d.rune \in Runes
              /\ d.rune # RuneError =>
                   d.width = RuneLen(d.rune) /\ SubSeq(bytes, at + 1, at + d.width) = Encode(d.rune)
<1>1. PICK d : d = DecodeRune(bytes, at)
  OBVIOUS
<1>2. CASE \E r \in DOMAIN Encoding : r \in EncodedBetween(bytes, at, at + Len(Encoding[r]))
                                       /\ d.rune = r /\ d.width = Len(Encoding[r])
  <2>1. PICK r \in DOMAIN Encoding : r \in EncodedBetween(bytes, at, at + Len(Encoding[r]))
                                       /\ d.rune = r /\ d.width = Len(Encoding[r])
    BY <1>2
  <2>2. at + Len(Encoding[r]) <= Len(bytes) /\ SubSeq(bytes, at + 1, at + Len(Encoding[r])) = Encoding[r]
    BY <2>1 DEF EncodedBetween
  <2>3. Len(Encoding[r]) \in Nat \ { 0 }
    BY EncodingAssumption
  <2>4. Encode(r) = Encoding[r] /\ RuneLen(r) = Len(Encoding[r]) /\ r \in Runes
    BY DEF Encode, RuneLen, Runes
  <2> QED
    BY <1>1, <2>1, <2>2, <2>3, <2>4
<1>3. CASE /\ d.rune = IF bytes[at + 1] \in Ascii THEN bytes[at + 1] ELSE RuneError
           /\ d.width = 1
  <2>1. d.rune \in Runes
    BY <1>3, EncodingAssumption DEF Runes
  <2>2. ASSUME at < Len(bytes), d.rune # RuneError
        PROVE  d.width = RuneLen(d.rune) /\ SubSeq(bytes, at + 1, at + d.width) = Encode(d.rune)
    <3>1. d.rune = bytes[at + 1] /\ d.rune \notin DOMAIN Encoding
      BY <1>3, <2>2, EncodingAssumption
    <3>2. Encode(d.rune) = <<bytes[at + 1]>> /\ RuneLen(d.rune) = 1
      BY <3>1 DEF Encode, RuneLen
    <3>3. SubSeq(bytes, at + 1, at + 1) = <<bytes[at + 1]>>
      <4>1. at + 1 \in 1..Len(bytes)
        BY <2>2
      <4> QED
        BY <4>1, OneOf
    <3> QED
      BY <1>3, <3>2, <3>3
  <2> QED
    BY <1>1, <1>3, <2>1, <2>2
<1> QED
  BY <1>1, <1>2, <1>3, Decoded

(* How many bytes the first runes take, as BytesOf counts them.              *)
Upto(bytes) ==
  CHOOSE upto : upto =
    [n \in 0..Len(bytes) |-> IF n = 0 THEN 0 ELSE upto[n - 1] + DecodeRune(bytes, upto[n - 1]).width]

LEMMA BytesOfUpto ==
  ASSUME NEW bytes, NEW n
  PROVE  BytesOf(bytes, n) = Upto(bytes)[n]
BY DEF BytesOf, Upto

LEMMA UptoType ==
  ASSUME NEW bytes \in Seq(Bytes)
  PROVE  /\ Upto(bytes) \in [0..Len(bytes) -> Nat] /\ Upto(bytes)[0] = 0
         /\ \A n \in 0..(Len(bytes) - 1) :
              Upto(bytes)[n + 1] = Upto(bytes)[n] + DecodeRune(bytes, Upto(bytes)[n]).width
<1>1. PICK L \in Nat : L = Len(bytes)
  OBVIOUS
<1>2. PICK width : width = [at \in Nat |-> DecodeRune(bytes, at).width]
  OBVIOUS
<1>3. width \in [Nat -> Nat] /\ \A at \in Nat : DecodeRune(bytes, at).width = width[at]
  BY <1>2, DecodeFacts
<1> DEFINE step == [p \in Nat \X Nat |-> p[2] + width[p[2]]]
           jump == [k \in 0..(L - 1) |-> k + 1]
<1>4. step \in [Nat \X Nat -> Nat]
  <2>1. ASSUME NEW p \in Nat \X Nat PROVE p[2] + width[p[2]] \in Nat
    <3>1. p[2] \in Nat
      OBVIOUS
    <3>2. width[p[2]] \in Nat
      BY <1>3, <3>1
    <3> QED
      BY <3>1, <3>2
  <2> QED
    BY <2>1
<1>5. jump \in [0..(L - 1) -> Nat] /\ \A k \in 0..(L - 1) : jump[k] = k + 1 /\ jump[k] \in (k + 1)..L
  BY <1>1
<1>6. \A k, at \in Nat : step[<<k, at>>] = at + width[at]
  OBVIOUS
<1> HIDE DEF step, jump
<1>14. PICK f \in [0..L -> Nat] : PutTogether(f, L, 0, step, jump)
  <2>1. Parts(L, Nat, 0, step, jump)
    BY <1>4, <1>5 DEF Parts
  <2> QED
    BY <2>1, Together
<1>15. f[L] = 0 /\ \A k \in 0..(L - 1) : f[k] = f[k + 1] + width[f[k + 1]]
  <2>1. \A k \in 0..L : f[k] = IF k = L THEN 0 ELSE step[<<k, f[jump[k]]>>]
    BY <1>14 DEF PutTogether
  <2>2. L \in 0..L /\ \A k \in 0..(L - 1) : k \in 0..L /\ k # L /\ k + 1 \in 0..L
    BY <1>1
  <2>3. f[L] = 0
    BY <2>1, <2>2
  <2>4. ASSUME NEW k \in 0..(L - 1) PROVE f[k] = f[k + 1] + width[f[k + 1]]
    <3>1. f[k] = step[<<k, f[k + 1]>>]
      BY <1>5, <2>1, <2>2
    <3>2. k \in Nat /\ f[k + 1] \in Nat
      BY <1>14, <2>2
    <3> QED
      BY <1>6, <3>1, <3>2
  <2> QED
    BY <2>3, <2>4
<1>7. PICK u : u = [n \in 0..L |-> f[L - n]]
  OBVIOUS
<1>8. /\ u \in [0..L -> Nat] /\ u[0] = 0
      /\ \A n \in 0..(L - 1) : u[n + 1] = u[n] + width[u[n]]
  <2>1. L - 0 = L /\ \A n \in 0..L : L - n \in 0..L
    BY <1>1
  <2>2. \A n \in 0..(L - 1) : L - (n + 1) \in 0..(L - 1) /\ (L - (n + 1)) + 1 = L - n /\ n + 1 \in 0..L
                              /\ n \in 0..L
    BY <1>1
  <2> QED
    BY <1>1, <1>14, <1>15, <1>7, <2>1, <2>2
<1>9. u = [n \in 0..L |-> IF n = 0 THEN 0 ELSE u[n - 1] + DecodeRune(bytes, u[n - 1]).width]
  <2>1. ASSUME NEW n \in 0..L
        PROVE  u[n] = IF n = 0 THEN 0 ELSE u[n - 1] + DecodeRune(bytes, u[n - 1]).width
    <3>1. CASE n = 0
      BY <1>8, <3>1
    <3>2. CASE n # 0
      <4>1. n - 1 \in 0..(L - 1) /\ (n - 1) + 1 = n /\ n - 1 \in 0..L
        BY <1>1, <3>2
      <4> QED
        BY <1>3, <1>8, <3>2, <4>1
    <3> QED
      BY <3>1, <3>2
  <2>2. u = [n \in 0..L |-> u[n]]
    BY <1>8
  <2> QED
    BY <2>1, <2>2
<1>10. PICK upto : /\ upto = Upto(bytes)
                   /\ upto = [n \in 0..L |-> IF n = 0 THEN 0
                                             ELSE upto[n - 1] + DecodeRune(bytes, upto[n - 1]).width]
  <2> DEFINE Counts(c) == c = [n \in 0..L |-> IF n = 0 THEN 0
                                              ELSE c[n - 1] + DecodeRune(bytes, c[n - 1]).width]
  <2>1. Upto(bytes) = CHOOSE c : Counts(c)
    BY <1>1 DEF Upto
  <2>2. Counts(u)
    BY <1>9
  <2> HIDE DEF Counts
  <2>3. Counts(Upto(bytes))
    BY <2>1, <2>2
  <2> QED
    BY <2>3 DEF Counts
<1>11. upto \in [0..L -> Nat]
  <2> DEFINE Typed == { n \in Nat : n <= L => upto[n] \in Nat }
  <2>1. 0 \in Typed
    BY <1>10
  <2>2. ASSUME NEW n \in Nat, n \in Typed PROVE n + 1 \in Typed
    <3> SUFFICES ASSUME n + 1 <= L PROVE upto[n + 1] \in Nat
      OBVIOUS
    <3>1. upto[n] \in Nat /\ n + 1 \in 0..L /\ n + 1 # 0 /\ (n + 1) - 1 = n
      BY <2>2
    <3>2. upto[n + 1] = upto[n] + DecodeRune(bytes, upto[n]).width
      BY <1>10, <3>1
    <3> QED
      <4>1. DecodeRune(bytes, upto[n]).width = width[upto[n]] /\ width[upto[n]] \in Nat
        BY <1>3, <3>1
      <4> QED
        BY <3>1, <3>2, <4>1
  <2>3. Nat \subseteq Typed
    <3> HIDE DEF Typed
    <3> QED
      BY <2>1, <2>2, Induction
  <2>4. \A n \in 0..L : upto[n] \in Nat
    BY <1>1, <2>3
  <2>5. upto = [n \in 0..L |-> upto[n]]
    BY <1>10
  <2> QED
    BY <2>4, <2>5
<1>12. upto[0] = 0 /\ \A n \in 0..(L - 1) : upto[n + 1] = upto[n] + DecodeRune(bytes, upto[n]).width
  <2>1. 0 \in 0..L /\ \A n \in 0..(L - 1) : n + 1 \in 0..L /\ n + 1 # 0 /\ (n + 1) - 1 = n
    BY <1>1
  <2> QED
    BY <1>10, <2>1
<1> QED
  BY <1>1, <1>10, <1>11, <1>12


(* The runes from each byte on.                                              *)
RunesFrom(bytes) ==
  CHOOSE from : from =
    [at \in 0..Len(bytes) |->
      IF at = Len(bytes) THEN << >>
      ELSE LET d == DecodeRune(bytes, at) IN <<d.rune>> \o from[at + d.width]]

LEMMA RunesOfFrom ==
  ASSUME NEW bytes
  PROVE  RunesOf(bytes) = RunesFrom(bytes)[0]
BY DEF RunesOf, RunesFrom

LEMMA RunesFromType ==
  ASSUME NEW bytes \in Seq(Bytes)
  PROVE  /\ RunesFrom(bytes) \in [0..Len(bytes) -> Seq(Runes)] /\ RunesFrom(bytes)[Len(bytes)] = << >>
         /\ \A at \in 0..(Len(bytes) - 1) :
              LET d == DecodeRune(bytes, at) IN
                RunesFrom(bytes)[at] = <<d.rune>> \o RunesFrom(bytes)[at + d.width]
<1>1. PICK L \in Nat : L = Len(bytes)
  OBVIOUS
<1>2. PICK head : head = [at \in 0..(L - 1) |-> <<DecodeRune(bytes, at).rune>>]
  OBVIOUS
<1>3. PICK jump : jump = [at \in 0..(L - 1) |-> at + DecodeRune(bytes, at).width]
  OBVIOUS
<1>4. ASSUME NEW at \in 0..(L - 1)
      PROVE  <<DecodeRune(bytes, at).rune>> \in Seq(Runes) /\ at + DecodeRune(bytes, at).width \in (at + 1)..L
  <2>1. at \in Nat /\ at < Len(bytes)
    BY <1>1
  <2>2. PICK d : d = DecodeRune(bytes, at)
    OBVIOUS
  <2>3. d.width \in Nat \ { 0 } /\ at + d.width <= Len(bytes) /\ d.rune \in Runes
    BY <2>1, <2>2, DecodeFacts
  <2>4. <<d.rune>> \in Seq(Runes) /\ at + d.width \in (at + 1)..L
    BY <1>1, <2>3
  <2> QED
    BY <2>2, <2>4
<1>5. Links(Runes, L, head, jump)
  <2>1. head \in [0..(L - 1) -> Seq(Runes)]
    BY <1>2, <1>4
  <2>2. \A k \in 0..(L - 1) : jump[k] \in (k + 1)..L /\ jump[k] \in Nat
    BY <1>3, <1>4
  <2>3. jump \in [0..(L - 1) -> Nat]
    BY <1>3, <2>2
  <2> QED
    BY <2>1, <2>2, <2>3 DEF Links
<1>6. PICK f \in [0..L -> Seq(Runes)] : Strung(f, L, head, jump) /\ \A g : Strung(g, L, head, jump) => g = f
  BY <1>5, StrungTogether
<1> DEFINE From(g) == g = [at \in 0..L |->
                           IF at = L THEN << >>
                           ELSE LET d == DecodeRune(bytes, at) IN <<d.rune>> \o g[at + d.width]]
<1>7. ASSUME NEW g PROVE From(g) <=> Strung(g, L, head, jump)
  <2>1. \A at \in 0..L : at # L => /\ head[at] = <<DecodeRune(bytes, at).rune>>
                                   /\ jump[at] = at + DecodeRune(bytes, at).width
    BY <1>2, <1>3
  <2>2. [at \in 0..L |-> IF at = L THEN << >>
                         ELSE LET d == DecodeRune(bytes, at) IN <<d.rune>> \o g[at + d.width]]
          = [k \in 0..L |-> IF k = L THEN << >> ELSE head[k] \o g[jump[k]]]
    BY <2>1
  <2> QED
    BY <2>2 DEF Strung
<1>8. RunesFrom(bytes) = CHOOSE g : From(g)
  BY <1>1 DEF RunesFrom
<1>9. From(f)
  BY <1>6, <1>7
<1>10. RunesFrom(bytes) = f
  <2> HIDE DEF From
  <2> QED
    BY <1>6, <1>7, <1>8, <1>9
<1>11. f[L] = << >> /\ \A at \in 0..(L - 1) :
         LET d == DecodeRune(bytes, at) IN f[at] = <<d.rune>> \o f[at + d.width]
  <2>1. L \in 0..L /\ \A at \in 0..(L - 1) : at \in 0..L /\ at # L
    OBVIOUS
  <2> QED
    BY <1>9, <2>1
<1> QED
  BY <1>1, <1>10, <1>11

(* What a text means from each of its runes on.                              *)
Given(from, body, quoted) ==
  from = [i \in 1..(Len(body) + 2) |->
           IF i > Len(body) THEN << >>
           ELSE IF body[i] = "\\" THEN (IF i = Len(body) THEN << >> ELSE Encode(body[i + 1])) \o from[i + 2]
           ELSE IF body[i] \in Spaces /\ ~quoted THEN from[i + 1]
           ELSE Encode(body[i]) \o from[i + 1]]

LEMMA MeaningGiven ==
  ASSUME NEW body \in Seq(Runes), NEW quoted \in BOOLEAN
  PROVE  Given(MeaningFrom(body, quoted), body, quoted)
<1>1. PICK L \in Nat : L = Len(body)
  OBVIOUS
<1> DEFINE first == [k \in 0..L |->
             IF k = L THEN << >>
             ELSE IF body[k + 1] = "\\" THEN IF k + 1 = L THEN << >> ELSE Encode(body[k + 2])
             ELSE IF body[k + 1] \in Spaces /\ ~quoted THEN << >> ELSE Encode(body[k + 1])]
           next == [k \in 0..L |-> IF k < L /\ body[k + 1] = "\\" THEN k + 2 ELSE k + 1]
<1>2. first \in [0..L -> Seq(Bytes)]
  <2>1. \A i \in 1..L : Encode(body[i]) \in Seq(Bytes)
    <3>1. \A i \in 1..L : body[i] \in Runes
      BY <1>1, ElementOfSeq
    <3> QED
      BY <3>1, EncodeType
  <2>2. \A k \in 0..L : k # L => k + 1 \in 1..L /\ (k + 1 # L => k + 2 \in 1..L)
    OBVIOUS
  <2>3. << >> \in Seq(Bytes)
    OBVIOUS
  <2> QED
    BY <2>1, <2>2, <2>3
<1>3. next \in [0..L -> Nat] /\ \A k \in 0..L : next[k] \in (k + 1)..(L + 1)
  OBVIOUS
<1>4. /\ first[L] = << >> /\ next[L] = L + 1
      /\ \A i \in 1..L : /\ first[i - 1] = IF body[i] = "\\" THEN IF i = L THEN << >> ELSE Encode(body[i + 1])
                                           ELSE IF body[i] \in Spaces /\ ~quoted THEN << >> ELSE Encode(body[i])
                         /\ next[i - 1] = IF body[i] = "\\" THEN i + 1 ELSE i
  <2>1. \A i \in 1..L : i - 1 \in 0..L /\ i - 1 # L /\ i - 1 < L /\ (i - 1) + 1 = i /\ (i - 1) + 2 = i + 1
    OBVIOUS
  <2> QED
    BY <2>1
<1> HIDE DEF first, next
<1>5. PICK f \in [0..(L + 1) -> Seq(Bytes)] : Strung(f, L + 1, first, next)
  <2>1. (L + 1) - 1 = L /\ L + 1 \in Nat
    OBVIOUS
  <2>2. Links(Bytes, L + 1, first, next)
    BY <1>2, <1>3, <2>1 DEF Links
  <2> QED
    BY <2>2, StrungTogether
<1>6. f[L + 1] = << >> /\ \A k \in 0..L : f[k] = first[k] \o f[next[k]] /\ f[next[k]] \in Seq(Bytes)
  <2>1. \A k \in 0..(L + 1) : f[k] = IF k = L + 1 THEN << >> ELSE first[k] \o f[next[k]]
    BY <1>5 DEF Strung
  <2>2. L + 1 \in 0..(L + 1) /\ \A k \in 0..L : k \in 0..(L + 1) /\ k # L + 1 /\ next[k] \in 0..(L + 1)
    BY <1>3
  <2> QED
    BY <1>5, <2>1, <2>2
<1>7. PICK g : g = [i \in 1..(L + 2) |-> f[i - 1]]
  OBVIOUS
<1>8. ASSUME NEW i \in 1..(L + 2)
      PROVE  g[i] = IF i > L THEN << >>
                    ELSE IF body[i] = "\\" THEN (IF i = L THEN << >> ELSE Encode(body[i + 1])) \o g[i + 2]
                    ELSE IF body[i] \in Spaces /\ ~quoted THEN g[i + 1]
                    ELSE Encode(body[i]) \o g[i + 1]
  <2>1. g[i] = f[i - 1]
    BY <1>7
  <2>2. CASE i = L + 2
    BY <1>6, <2>1, <2>2
  <2>3. CASE i = L + 1
    <3>1. L \in 0..L
      OBVIOUS
    <3>2. f[L] = << >>
      <4>1. f[L] = first[L] \o f[next[L]]
        BY <1>6, <3>1
      <4>2. f[L] = << >> \o << >>
        BY <1>4, <1>6, <4>1
      <4> QED
        BY <4>2
    <3> QED
      BY <2>1, <2>3, <3>2
  <2>4. CASE i \in 1..L
    <3>1. f[i - 1] = first[i - 1] \o f[next[i - 1]] /\ f[next[i - 1]] \in Seq(Bytes)
      <4>1. i - 1 \in 0..L
        BY <2>4
      <4> QED
        BY <1>6, <4>1
    <3>2. g[i + 1] = f[i] /\ g[i + 2] = f[i + 1]
      <4>1. i + 1 \in 1..(L + 2) /\ i + 2 \in 1..(L + 2) /\ (i + 1) - 1 = i /\ (i + 2) - 1 = i + 1
        BY <2>4
      <4> QED
        BY <1>7, <4>1
    <3>3. ~(i > L)
      BY <2>4
    <3>4. CASE body[i] = "\\"
      <4>1. first[i - 1] = (IF i = L THEN << >> ELSE Encode(body[i + 1])) /\ next[i - 1] = i + 1
        BY <1>4, <2>4, <3>4
      <4>2. f[i - 1] = (IF i = L THEN << >> ELSE Encode(body[i + 1])) \o f[i + 1]
        BY <3>1, <4>1
      <4> QED
        BY <2>1, <3>2, <3>3, <3>4, <4>2
    <3>5. CASE body[i] # "\\" /\ body[i] \in Spaces /\ ~quoted
      <4>1. first[i - 1] = << >> /\ next[i - 1] = i
        BY <1>4, <2>4, <3>5
      <4>2. f[i - 1] = << >> \o f[i] /\ f[i] \in Seq(Bytes)
        BY <3>1, <4>1
      <4>3. f[i - 1] = f[i]
        BY <4>2, ConcatEmptySeq
      <4> QED
        BY <2>1, <3>2, <3>3, <3>5, <4>3
    <3>6. CASE body[i] # "\\" /\ ~(body[i] \in Spaces /\ ~quoted)
      <4>1. first[i - 1] = Encode(body[i]) /\ next[i - 1] = i
        BY <1>4, <2>4, <3>6
      <4>2. f[i - 1] = Encode(body[i]) \o f[i]
        BY <3>1, <4>1
      <4> QED
        BY <2>1, <3>2, <3>3, <3>6, <4>2
    <3> QED
      BY <3>4, <3>5, <3>6
  <2> QED
    BY <2>2, <2>3, <2>4
<1>9. Given(g, body, quoted)
  <2>1. g = [i \in 1..(L + 2) |-> g[i]]
    BY <1>7
  <2> QED
    BY <1>1, <1>8, <2>1 DEF Given
<1>10. MeaningFrom(body, quoted) = CHOOSE h : Given(h, body, quoted)
  BY DEF MeaningFrom, Given
<1> QED
  BY <1>9, <1>10

LEMMA MeaningFacts ==
  ASSUME NEW body \in Seq(Runes), NEW quoted \in BOOLEAN
  PROVE  LET from == MeaningFrom(body, quoted) IN
         /\ \A i \in 1..(Len(body) + 2) : from[i] \in Seq(Bytes)
         /\ from[Len(body) + 1] = << >> /\ from[Len(body) + 2] = << >>
         /\ \A i \in 1..Len(body) :
              /\ body[i] = "\\" /\ i = Len(body) => from[i] = << >>
              /\ body[i] = "\\" /\ i # Len(body) => from[i] = Encode(body[i + 1]) \o from[i + 2]
              /\ body[i] # "\\" /\ body[i] \in Spaces /\ ~quoted => from[i] = from[i + 1]
              /\ body[i] # "\\" /\ (body[i] \notin Spaces \/ quoted) => from[i] = Encode(body[i]) \o from[i + 1]
<1>1. PICK L \in Nat : L = Len(body)
  OBVIOUS
<1>2. PICK from : from = MeaningFrom(body, quoted)
  OBVIOUS
<1>3. \A i \in 1..(L + 2) :
        from[i] = IF i > L THEN << >>
                  ELSE IF body[i] = "\\" THEN (IF i = L THEN << >> ELSE Encode(body[i + 1])) \o from[i + 2]
                  ELSE IF body[i] \in Spaces /\ ~quoted THEN from[i + 1]
                  ELSE Encode(body[i]) \o from[i + 1]
  <2>1. Given(from, body, quoted)
    BY <1>2, MeaningGiven
  <2>2. from = [i \in 1..(L + 2) |->
                 IF i > L THEN << >>
                 ELSE IF body[i] = "\\" THEN (IF i = L THEN << >> ELSE Encode(body[i + 1])) \o from[i + 2]
                 ELSE IF body[i] \in Spaces /\ ~quoted THEN from[i + 1]
                 ELSE Encode(body[i]) \o from[i + 1]]
    BY <1>1, <2>1 DEF Given
  <2> QED
    BY <2>2
<1>4. from[L + 1] = << >> /\ from[L + 2] = << >>
  <2>1. L + 1 \in 1..(L + 2) /\ L + 1 > L /\ L + 2 \in 1..(L + 2) /\ L + 2 > L
    OBVIOUS
  <2> QED
    BY <1>3, <2>1
<1>5. \A i \in 1..L : Encode(body[i]) \in Seq(Bytes)
  <2>1. \A i \in 1..L : body[i] \in Runes
    BY <1>1, ElementOfSeq
  <2> QED
    BY <2>1, EncodeType
<1> DEFINE Typed == { n \in Nat : \A i \in 1..(L + 2) : i >= (L + 1) - n => from[i] \in Seq(Bytes) }
<1>6. 0 \in Typed
  <2>1. \A i \in 1..(L + 2) : i >= (L + 1) - 0 => i = L + 1 \/ i = L + 2
    OBVIOUS
  <2>2. << >> \in Seq(Bytes)
    OBVIOUS
  <2> QED
    BY <1>4, <2>1, <2>2
<1>7. ASSUME NEW n \in Nat, n \in Typed PROVE n + 1 \in Typed
  <2>1. ASSUME NEW i \in 1..(L + 2), i >= (L + 1) - (n + 1) PROVE from[i] \in Seq(Bytes)
    <3>1. CASE i >= (L + 1) - n
      BY <1>7, <3>1
    <3>2. CASE ~(i >= (L + 1) - n)
      <4>1. i \in 1..L /\ i + 1 >= (L + 1) - n /\ i + 2 >= (L + 1) - n
            /\ i + 1 \in 1..(L + 2) /\ i + 2 \in 1..(L + 2) /\ (i # L => i + 1 \in 1..L)
        BY <2>1, <3>2
      <4>2. from[i + 1] \in Seq(Bytes) /\ from[i + 2] \in Seq(Bytes)
        BY <1>7, <4>1
      <4>3. \A s \in Seq(Bytes) : s \o from[i + 1] \in Seq(Bytes) /\ s \o from[i + 2] \in Seq(Bytes)
        BY <4>2, ConcatProperties
      <4>4. << >> \in Seq(Bytes)
        OBVIOUS
      <4>5. Encode(body[i]) \in Seq(Bytes) /\ (i # L => Encode(body[i + 1]) \in Seq(Bytes)) /\ ~(i > L)
        BY <1>5, <4>1
      <4> HIDE DEF Typed
      <4> QED
        BY <1>3, <4>2, <4>3, <4>4, <4>5
    <3> QED
      BY <3>1, <3>2
  <2> QED
    BY <2>1
<1>8. Nat \subseteq Typed
  <2> HIDE DEF Typed
  <2> QED
    BY <1>6, <1>7, Induction
<1>9. \A i \in 1..(L + 2) : from[i] \in Seq(Bytes)
  <2>1. L + 1 \in Typed /\ \A i \in 1..(L + 2) : i >= (L + 1) - (L + 1)
    BY <1>8
  <2> QED
    BY <2>1
<1>10. ASSUME NEW i \in 1..L
       PROVE  /\ body[i] = "\\" /\ i = L => from[i] = << >>
              /\ body[i] = "\\" /\ i # L => from[i] = Encode(body[i + 1]) \o from[i + 2]
              /\ body[i] # "\\" /\ body[i] \in Spaces /\ ~quoted => from[i] = from[i + 1]
              /\ body[i] # "\\" /\ (body[i] \notin Spaces \/ quoted) => from[i] = Encode(body[i]) \o from[i + 1]
  <2>1. i \in 1..(L + 2) /\ ~(i > L)
    OBVIOUS
  <2>2. ASSUME body[i] = "\\", i = L PROVE from[i] = << >>
    <3>1. from[i] = << >> \o from[i + 2] /\ from[i + 2] = << >>
      BY <1>3, <1>4, <2>1, <2>2
    <3> QED
      BY <3>1
  <2>3. ASSUME body[i] = "\\", i # L PROVE from[i] = Encode(body[i + 1]) \o from[i + 2]
    BY <1>3, <2>1, <2>3
  <2>4. ASSUME body[i] # "\\", body[i] \in Spaces, ~quoted PROVE from[i] = from[i + 1]
    BY <1>3, <2>1, <2>4
  <2>5. ASSUME body[i] # "\\", body[i] \notin Spaces \/ quoted PROVE from[i] = Encode(body[i]) \o from[i + 1]
    BY <1>3, <2>1, <2>5
  <2> QED
    BY <2>2, <2>3, <2>4, <2>5
<1> QED
  BY <1>1, <1>2, <1>4, <1>9, <1>10

(* The first rune of what is left and the rest of it.                        *)
LEMMA FromNext ==
  ASSUME NEW bytes \in Seq(Bytes), NEW at \in 0..(Len(bytes) - 1)
  PROVE  LET d == DecodeRune(bytes, at)
             from == RunesFrom(bytes)
         IN /\ d.rune \in Runes /\ d.width \in Nat \ { 0 } /\ at + d.width \in 0..Len(bytes)
            /\ from[at] \in Seq(Runes) /\ from[at + d.width] \in Seq(Runes)
            /\ Len(from[at]) = Len(from[at + d.width]) + 1
            /\ from[at][1] = d.rune
            /\ \A i \in 1..Len(from[at + d.width]) : from[at][i + 1] = from[at + d.width][i]
<1>1. PICK d : d = DecodeRune(bytes, at)
  OBVIOUS
<1>2. PICK from : from = RunesFrom(bytes)
  OBVIOUS
<1>3. d.rune \in Runes /\ d.width \in Nat \ { 0 } /\ at + d.width \in 0..Len(bytes)
  <2>1. at \in Nat /\ at < Len(bytes) /\ Len(bytes) \in Nat
    OBVIOUS
  <2>2. d.width \in Nat \ { 0 } /\ at + d.width <= Len(bytes) /\ d.rune \in Runes
    BY <1>1, <2>1, DecodeFacts
  <2> QED
    BY <2>1, <2>2
<1>4. from \in [0..Len(bytes) -> Seq(Runes)] /\ from[at] = <<d.rune>> \o from[at + d.width]
  BY <1>1, <1>2, RunesFromType
<1>5. PICK rest \in Seq(Runes) : rest = from[at + d.width]
  BY <1>3, <1>4
<1>6. from[at] \in Seq(Runes)
  <2>1. at \in 0..Len(bytes)
    OBVIOUS
  <2> QED
    BY <1>4, <2>1
<1>7. PICK r : r = d.rune
  OBVIOUS
<1>8. <<r>> \o rest \in Seq(Runes) /\ Len(<<r>> \o rest) = Len(rest) + 1
      /\ (<<r>> \o rest)[1] = r /\ \A i \in 1..Len(rest) : (<<r>> \o rest)[i + 1] = rest[i]
  <2>1. <<r>> \in Seq(Runes) /\ Len(<<r>>) = 1 /\ <<r>>[1] = r
    BY <1>3, <1>7
  <2> QED
    BY <2>1
<1>9. from[at] = <<r>> \o rest
  BY <1>4, <1>5, <1>7
<1> QED
  BY <1>1, <1>2, <1>3, <1>5, <1>6, <1>7, <1>8, <1>9

(* The runes of a string are decoded at the places that BytesOf counts.      *)
LEMMA Places ==
  ASSUME NEW bytes \in Seq(Bytes)
  PROVE  LET runes == RunesOf(bytes)
             upto == Upto(bytes)
         IN /\ runes \in Seq(Runes) /\ Len(runes) <= Len(bytes)
            /\ \A n \in 0..Len(runes) : upto[n] \in 0..Len(bytes)
            /\ \A n \in 0..(Len(runes) - 1) :
                 /\ upto[n] < Len(bytes) /\ upto[n + 1] = upto[n] + DecodeRune(bytes, upto[n]).width
                 /\ runes[n + 1] = DecodeRune(bytes, upto[n]).rune
            /\ upto[0] = 0 /\ upto[Len(runes)] = Len(bytes)
<1>1. PICK L \in Nat : L = Len(bytes)
  OBVIOUS
<1>2. PICK from \in [0..L -> Seq(Runes)] : from = RunesFrom(bytes)
  BY <1>1, RunesFromType
<1>3. PICK runes \in Seq(Runes) : runes = RunesOf(bytes) /\ runes = from[0]
  <2>1. 0 \in 0..L
    OBVIOUS
  <2> QED
    BY <1>2, <2>1, RunesOfFrom
<1>4. PICK N \in Nat : N = Len(runes)
  OBVIOUS
<1>5. PICK upto \in [0..L -> Nat] :
        /\ upto = Upto(bytes) /\ upto[0] = 0
        /\ \A n \in 0..(L - 1) : upto[n + 1] = upto[n] + DecodeRune(bytes, upto[n]).width
  BY <1>1, UptoType
<1> DEFINE At(n) == /\ n <= L /\ upto[n] \in n..L
                    /\ Len(from[upto[n]]) = N - n
                    /\ \A i \in 1..(N - n) : from[upto[n]][i] = runes[n + i]
           Reached == { n \in Nat : n <= N => At(n) }
<1>6. 0 \in Reached
  BY <1>3, <1>4, <1>5
<1>7. ASSUME NEW n \in 0..(N - 1), At(n)
      PROVE  /\ upto[n] < L /\ upto[n + 1] = upto[n] + DecodeRune(bytes, upto[n]).width
             /\ runes[n + 1] = DecodeRune(bytes, upto[n]).rune /\ At(n + 1)
  <2>1. PICK at \in n..L : at = upto[n]
    BY <1>7
  <2>2. Len(from[at]) = N - n /\ \A i \in 1..(N - n) : from[at][i] = runes[n + i]
    BY <1>7, <2>1
  <2>3. at < L
    <3>1. from[L] = << >>
      BY <1>1, <1>2, RunesFromType
    <3>2. N - n > 0
      OBVIOUS
    <3> QED
      BY <2>2, <3>1, <3>2
  <2>4. PICK d : d = DecodeRune(bytes, at)
    OBVIOUS
  <2>5. /\ d.width \in Nat \ { 0 } /\ at + d.width \in 0..L
        /\ from[at + d.width] \in Seq(Runes) /\ Len(from[at]) = Len(from[at + d.width]) + 1
        /\ from[at][1] = d.rune
        /\ \A i \in 1..Len(from[at + d.width]) : from[at][i + 1] = from[at + d.width][i]
    <3>1. at \in 0..(Len(bytes) - 1)
      BY <1>1, <2>3
    <3> QED
      BY <1>1, <1>2, <2>4, <3>1, FromNext
  <2>13. PICK w \in Nat \ { 0 } : w = d.width
    BY <2>5
  <2>6. PICK next \in 0..L : next = at + w
    BY <2>5, <2>13
  <2>14. from[next] \in Seq(Runes) /\ Len(from[at]) = Len(from[next]) + 1
    BY <2>5, <2>6, <2>13
  <2>7. upto[n + 1] = next
    <3>1. n \in 0..(L - 1)
      BY <2>3
    <3> QED
      BY <1>5, <2>1, <2>4, <2>6, <2>13, <3>1
  <2>8. next \in (n + 1)..L /\ n + 1 <= L
    BY <2>3, <2>6
  <2>9. Len(from[next]) = N - (n + 1)
    <3>1. PICK m \in Nat : m = Len(from[next])
      BY <2>14
    <3>2. m + 1 = N - n
      BY <2>2, <2>14, <3>1
    <3>3. m = N - (n + 1)
      BY <3>2
    <3> QED
      BY <3>1, <3>3
  <2>10. ASSUME NEW i \in 1..(N - (n + 1)) PROVE from[next][i] = runes[(n + 1) + i]
    <3>1. from[at][i + 1] = from[next][i]
      BY <2>5, <2>6, <2>9, <2>13
    <3>2. i + 1 \in 1..(N - n) /\ n + (i + 1) = (n + 1) + i
      OBVIOUS
    <3> QED
      BY <2>2, <3>1, <3>2
  <2>11. At(n + 1)
    BY <2>7, <2>8, <2>9, <2>10
  <2>12. runes[n + 1] = d.rune
    <3>1. 1 \in 1..(N - n)
      OBVIOUS
    <3> QED
      BY <2>2, <2>5, <3>1
  <2> HIDE DEF At
  <2> QED
    BY <2>1, <2>3, <2>4, <2>6, <2>7, <2>11, <2>12, <2>13
<1>8. ASSUME NEW n \in Nat, n \in Reached PROVE n + 1 \in Reached
  <2>1. CASE n + 1 <= N
    <3>1. n \in 0..(N - 1) /\ n <= N
      BY <2>1
    <3>2. At(n)
      BY <1>8, <3>1
    <3>3. At(n + 1)
      BY <1>7, <3>1, <3>2
    <3> HIDE DEF At
    <3> QED
      BY <3>3
  <2>2. CASE ~(n + 1 <= N)
    <3> HIDE DEF At
    <3> QED
      BY <2>2
  <2> QED
    BY <2>1, <2>2
<1>9. Nat \subseteq Reached
  <2> HIDE DEF Reached
  <2> QED
    BY <1>6, <1>8, Induction
<1>10. \A n \in 0..N : At(n)
  <2>1. \A n \in 0..N : n \in Nat /\ n <= N
    OBVIOUS
  <2> HIDE DEF At
  <2> QED
    BY <1>9, <2>1
<1>11. N <= L /\ \A n \in 0..N : upto[n] \in 0..L
  <2>1. \A n \in 0..N : n <= L /\ upto[n] \in n..L
    BY <1>10
  <2>2. N \in 0..N /\ \A n \in 0..N : n \in Nat
    OBVIOUS
  <2>3. N <= L
    BY <2>1, <2>2
  <2>4. ASSUME NEW n \in 0..N PROVE upto[n] \in 0..L
    <3>1. upto[n] \in n..L /\ n \in Nat
      BY <2>1
    <3> QED
      BY <3>1
  <2> QED
    BY <2>3, <2>4
<1>12. \A n \in 0..(N - 1) : /\ upto[n] < L /\ upto[n + 1] = upto[n] + DecodeRune(bytes, upto[n]).width
                             /\ runes[n + 1] = DecodeRune(bytes, upto[n]).rune
  <2>1. \A n \in 0..(N - 1) : n \in 0..N
    OBVIOUS
  <2> HIDE DEF At
  <2> QED
    BY <1>7, <1>10, <2>1
<1>13. upto[N] = L
  <2>1. upto[N] \in 0..L /\ Len(from[upto[N]]) = 0
    BY <1>10
  <2>2. ASSUME upto[N] # L PROVE FALSE
    <3>1. PICK at \in 0..(Len(bytes) - 1) : at = upto[N]
      BY <1>1, <2>1, <2>2
    <3>2. PICK d : d = DecodeRune(bytes, at)
      OBVIOUS
    <3>3. from[at + d.width] \in Seq(Runes) /\ Len(from[at]) = Len(from[at + d.width]) + 1
      BY <1>2, <3>2, FromNext
    <3> QED
      BY <2>1, <3>1, <3>3
  <2> QED
    BY <2>2
<1> QED
  BY <1>1, <1>3, <1>4, <1>5, <1>11, <1>12, <1>13

(* Every byte before a rune belongs to one of the runes before it.           *)
LEMMA Boundaries ==
  ASSUME NEW bytes \in Seq(Bytes), NEW n \in 0..Len(RunesOf(bytes)), NEW b \in 0..(Upto(bytes)[n] - 1)
  PROVE  \E j \in 0..(n - 1) :
           /\ Upto(bytes)[j] <= b /\ b < Upto(bytes)[j + 1] /\ Upto(bytes)[j + 1] <= Upto(bytes)[n]
<1>1. PICK N \in Nat : N = Len(RunesOf(bytes))
  BY Places
<1>2. PICK upto : upto = Upto(bytes)
  OBVIOUS
<1>3. upto[0] = 0 /\ \A m \in 0..N : upto[m] \in Nat
  BY <1>1, <1>2, Places
<1>4. \A m \in 0..(N - 1) : upto[m] < upto[m + 1]
  <2>1. ASSUME NEW m \in 0..(N - 1) PROVE upto[m] < upto[m + 1]
    <3>1. PICK w : w = DecodeRune(bytes, upto[m]).width
      OBVIOUS
    <3>2. upto[m + 1] = upto[m] + w /\ upto[m] \in Nat
      BY <1>1, <1>2, <1>3, <3>1, Places
    <3>3. w \in Nat \ { 0 }
      BY <3>1, <3>2, DecodeFacts
    <3> QED
      BY <3>2, <3>3
  <2> QED
    BY <2>1
<1> HIDE <1>2
<1> DEFINE Covered == { m \in Nat : m <= N => \A c \in 0..(upto[m] - 1) : \E j \in 0..(m - 1) :
                                      upto[j] <= c /\ c < upto[j + 1] /\ upto[j + 1] <= upto[m] }
<1>5. 0 \in Covered
  BY <1>3
<1>6. ASSUME NEW m \in Nat, m \in Covered PROVE m + 1 \in Covered
  <2>1. ASSUME m + 1 <= N, NEW c \in 0..(upto[m + 1] - 1)
        PROVE  \E j \in 0..m : upto[j] <= c /\ c < upto[j + 1] /\ upto[j + 1] <= upto[m + 1]
    <3>1. m \in 0..(N - 1) /\ m \in 0..N /\ m + 1 \in 0..N
      BY <2>1
    <3>2. upto[m] \in Nat /\ upto[m + 1] \in Nat /\ upto[m] < upto[m + 1]
      BY <1>3, <1>4, <3>1
    <3>3. CASE c < upto[m]
      <4>1. PICK j \in 0..(m - 1) : upto[j] <= c /\ c < upto[j + 1] /\ upto[j + 1] <= upto[m]
        <5>1. c \in 0..(upto[m] - 1) /\ m <= N
          BY <3>1, <3>2, <3>3
        <5> QED
          BY <1>6, <5>1
      <4>2. j + 1 \in 0..N /\ upto[j + 1] \in Nat /\ j \in 0..m
        BY <1>3, <3>1
      <4>3. upto[j + 1] <= upto[m + 1]
        BY <3>2, <4>1, <4>2
      <4> QED
        BY <4>1, <4>2, <4>3
    <3>4. CASE ~(c < upto[m])
      <4>1. m \in 0..m /\ upto[m] <= c /\ c < upto[m + 1] /\ upto[m + 1] <= upto[m + 1]
        BY <3>2, <3>4
      <4> QED
        BY <4>1
    <3> QED
      BY <3>3, <3>4
  <2>2. (m + 1) - 1 = m
    OBVIOUS
  <2> QED
    BY <2>1, <2>2
<1>7. Nat \subseteq Covered
  <2> HIDE DEF Covered
  <2> QED
    BY <1>5, <1>6, Induction
<1>8. n \in Covered /\ n <= N
  BY <1>1, <1>7
<1>9. b \in 0..(upto[n] - 1)
  BY <1>2
<1> QED
  BY <1>2, <1>8, <1>9

(* Two encodings that end at one place are equally long.                     *)
LEMMA EndTogether ==
  ASSUME NEW bytes \in Seq(Bytes), NEW at \in Nat, NEW q \in DOMAIN Encoding, NEW r \in DOMAIN Encoding,
         q \in EncodedBetween(bytes, at - Len(Encoding[q]), at),
         r \in EncodedBetween(bytes, at - Len(Encoding[r]), at)
  PROVE  Len(Encoding[r]) <= Len(Encoding[q])
<1>1. PICK m \in Nat : m = Len(Encoding[q])
  BY EncodingAssumption
<1>2. PICK n \in Nat : n = Len(Encoding[r])
  BY EncodingAssumption
<1>3. m > 1 /\ n > 1
  BY <1>1, <1>2, EncodingAssumption
<1>4. /\ 0 <= at - m /\ at <= Len(bytes) /\ SubSeq(bytes, (at - m) + 1, at) = Encoding[q]
      /\ 0 <= at - n /\ SubSeq(bytes, (at - n) + 1, at) = Encoding[r]
  BY <1>1, <1>2 DEF EncodedBetween
<1> SUFFICES ASSUME n > m PROVE FALSE
  BY <1>1, <1>2
<1>5. Encoding[q][1] = bytes[(at - m) + 1]
  <2>1. PICK i \in 1..Len(bytes) : i = (at - m) + 1
    BY <1>3, <1>4
  <2>2. at \in i..Len(bytes)
    BY <1>3, <1>4, <2>1
  <2> QED
    BY <1>4, <2>1, <2>2, Part
<1>6. Encoding[r][(n - m) + 1] = bytes[(at - m) + 1]
  <2>1. PICK i \in 1..Len(bytes) : i = (at - n) + 1
    BY <1>3, <1>4
  <2>2. at \in i..Len(bytes) /\ (n - m) + 1 \in 1..((at - i) + 1) /\ (i + ((n - m) + 1)) - 1 = (at - m) + 1
    BY <1>3, <1>4, <2>1
  <2>3. SubSeq(bytes, i, at)[(n - m) + 1] = bytes[(i + ((n - m) + 1)) - 1]
    BY <2>2, Part
  <2> QED
    BY <1>4, <2>1, <2>2, <2>3
<1>7. (n - m) + 1 \in 2..Len(Encoding[r])
  BY <1>2, <1>3
<1> QED
  BY <1>5, <1>6, <1>7, EncodingAssumption

(* What stands before RuneError in the source takes as many bytes when it is *)
(* read backwards: an encoding of RuneError ends there, or a byte at which   *)
(* no encoding ends, since one that did would begin inside another or at the *)
(* place of an earlier rune that reaches less far.                           *)
LEMMA LastWidth ==
  ASSUME NEW bytes \in Seq(Bytes), NEW n \in 0..(Len(RunesOf(bytes)) - 1),
         RunesOf(bytes)[n + 1] = RuneError
  PROVE  DecodeLastRune(bytes, Upto(bytes)[n + 1]).width = DecodeRune(bytes, Upto(bytes)[n]).width
<1>1. PICK upto : upto = Upto(bytes)
  OBVIOUS
<1>2. PICK a \in Nat : a = upto[n]
  BY <1>1, Places
<1>3. PICK d : d = DecodeRune(bytes, a)
  OBVIOUS
<1>4. PICK w \in Nat \ { 0 } : w = d.width
  BY <1>3, DecodeFacts
<1>5. d.rune = RuneError /\ a < Len(bytes) /\ upto[n + 1] = a + w
  BY <1>1, <1>2, <1>3, <1>4, Places
<1>6. PICK e \in Nat : e = a + w /\ e = upto[n + 1]
  BY <1>5
<1>7. e <= Len(bytes)
  BY <1>3, <1>4, <1>5, <1>6, DecodeFacts
<1>8. \A r \in DOMAIN Encoding : RuneLen(r) = Len(Encoding[r]) /\ Len(Encoding[r]) \in Nat
                                /\ Len(Encoding[r]) > 1
  BY EncodingAssumption DEF RuneLen, Encode
<1>9. CASE \E r \in DOMAIN Encoding : r \in EncodedBetween(bytes, a, a + Len(Encoding[r]))
                                      /\ d.rune = r /\ d.width = Len(Encoding[r])
  <2>1. RuneError \in DOMAIN Encoding /\ w = Len(Encoding[RuneError])
        /\ RuneError \in EncodedBetween(bytes, a, e)
    BY <1>4, <1>5, <1>6, <1>9
  <2>2. e - w = a
    BY <1>6
  <2>3. RuneError \in EncodedBetween(bytes, e - Len(Encoding[RuneError]), e)
    BY <2>1, <2>2
  <2>4. \E r \in DOMAIN Encoding : r \in EncodedBetween(bytes, e - RuneLen(r), e)
    BY <1>8, <2>1, <2>3
  <2>5. PICK c : c = CHOOSE r \in DOMAIN Encoding : r \in EncodedBetween(bytes, e - RuneLen(r), e)
    OBVIOUS
  <2>6. c \in DOMAIN Encoding /\ c \in EncodedBetween(bytes, e - Len(Encoding[c]), e)
    BY <1>8, <2>4, <2>5
  <2>7. Len(Encoding[c]) = w
    <3>1. Len(Encoding[c]) <= w /\ w <= Len(Encoding[c])
      BY <2>1, <2>3, <2>6, EndTogether
    <3> QED
      BY <1>8, <2>6, <3>1
  <2>8. DecodeLastRune(bytes, e) = [rune |-> c, width |-> RuneLen(c)]
    BY <2>4, <2>5 DEF DecodeLastRune
  <2>9. DecodeLastRune(bytes, e).width = w
    BY <1>8, <2>6, <2>7, <2>8
  <2> QED
    BY <1>1, <1>2, <1>3, <1>4, <1>6, <2>9
<1>10. CASE d.width = 1
  <2>1. w = 1 /\ e = a + 1
    BY <1>4, <1>6, <1>10
  <2>2. ASSUME NEW c \in DOMAIN Encoding, c \in EncodedBetween(bytes, e - Len(Encoding[c]), e)
        PROVE  FALSE
    <3>1. PICK k \in Nat : k = Len(Encoding[c])
      BY <1>8
    <3>2. k > 1 /\ 0 <= e - k /\ SubSeq(bytes, (e - k) + 1, e) = Encoding[c]
      BY <1>8, <2>2, <3>1 DEF EncodedBetween
    <3>3. PICK b \in Nat : b = e - k
      BY <3>2
    <3>4. b < a /\ b + k = e
      BY <2>1, <3>2, <3>3
    <3>5. PICK j \in 0..(n - 1) : upto[j] <= b /\ b < upto[j + 1] /\ upto[j + 1] <= a
      <4>1. b \in 0..(a - 1) /\ n \in 0..Len(RunesOf(bytes))
        BY <3>4, Places
      <4> QED
        BY <1>1, <1>2, <4>1, Boundaries
    <3>6. PICK q \in Nat : q = upto[j]
      <4>1. j \in 0..Len(RunesOf(bytes))
        BY Places
      <4> QED
        BY <1>1, <4>1, Places
    <3>7. PICK u : u = DecodeRune(bytes, q)
      OBVIOUS
    <3>8. upto[j + 1] = q + u.width
      <4>1. j \in 0..(Len(RunesOf(bytes)) - 1)
        BY Places
      <4> QED
        BY <1>1, <3>6, <3>7, <4>1, Places
    <3>9. PICK v \in Nat \ { 0 } : v = u.width
      BY <3>7, DecodeFacts
    <3>10. q <= b /\ b < q + v /\ q + v <= a
      BY <3>5, <3>6, <3>8, <3>9
    <3>11. Encoding[c][1] = bytes[b + 1]
      <4>1. b + 1 \in 1..Len(bytes) /\ e \in (b + 1)..Len(bytes)
        BY <1>7, <3>2, <3>4
      <4> QED
        BY <3>2, <3>3, <4>1, Part
    <3>12. c \in EncodedBetween(bytes, b, b + Len(Encoding[c]))
      BY <2>2, <3>1, <3>3, <3>4
    <3>13. CASE \E r \in DOMAIN Encoding : r \in EncodedBetween(bytes, q, q + Len(Encoding[r]))
                                            /\ u.rune = r /\ u.width = Len(Encoding[r])
      <4>1. PICK r \in DOMAIN Encoding : r \in EncodedBetween(bytes, q, q + v) /\ v = Len(Encoding[r])
        BY <3>9, <3>13
      <4>2. q + v <= Len(bytes) /\ SubSeq(bytes, q + 1, q + v) = Encoding[r]
        BY <4>1 DEF EncodedBetween
      <4>3. (b - q) + 1 \in 1..v
        BY <3>10
      <4>4. Encoding[r][(b - q) + 1] = bytes[b + 1]
        <5>1. q + 1 \in 1..Len(bytes) /\ q + v \in (q + 1)..Len(bytes)
              /\ ((q + v) - (q + 1)) + 1 = v /\ ((q + 1) + ((b - q) + 1)) - 1 = b + 1
          BY <4>2
        <5>2. SubSeq(bytes, q + 1, q + v)[(b - q) + 1] = bytes[((q + 1) + ((b - q) + 1)) - 1]
          BY <4>3, <5>1, Part
        <5> QED
          BY <4>2, <5>1, <5>2
      <4>5. CASE b = q
        <5>1. Encoding[r][1] = Encoding[c][1]
          <6>1. (b - q) + 1 = 1
            BY <4>5
          <6> QED
            BY <3>11, <4>4, <6>1
        <5>2. v = k
          BY <3>1, <4>1, <5>1, EncodingAssumption
        <5> QED
          BY <2>1, <3>4, <3>10, <4>5, <5>2
      <4>6. CASE b # q
        <5>1. (b - q) + 1 \in 2..Len(Encoding[r])
          BY <3>10, <4>1, <4>3, <4>6
        <5> QED
          BY <3>11, <4>4, <5>1, EncodingAssumption
      <4> QED
        BY <4>5, <4>6
    <3>14. CASE /\ \A r \in DOMAIN Encoding : r \notin EncodedBetween(bytes, q, q + Len(Encoding[r]))
                /\ u.width = 1
      <4>1. b = q
        BY <3>9, <3>10, <3>14
      <4> QED
        BY <3>12, <3>14, <4>1
    <3> QED
      BY <3>7, <3>13, <3>14, Decoded
  <2>3. ~\E r \in DOMAIN Encoding : r \in EncodedBetween(bytes, e - RuneLen(r), e)
    BY <1>8, <2>2
  <2>4. DecodeLastRune(bytes, e).width = 1
    BY <2>3 DEF DecodeLastRune
  <2> QED
    BY <1>1, <1>2, <1>3, <1>6, <1>10, <2>4
<1> QED
  BY <1>3, <1>9, <1>10, Decoded

-----------------------------------------------------------------------------
(***************************************************************************)
(* The stream                                                              *)
(***************************************************************************)

StreamRecord ==
  [open : { TRUE }, sourceString : Seq(Bytes), source : Seq(Runes),
   strPosition : Nat, position : Nat, length : Nat]

(* A stream that is open, wherever it stands.                                *)
InSync(s) ==
  /\ s \in StreamRecord
  /\ s.source = RunesOf(s.sourceString) /\ s.length = Len(s.source)
  /\ s.position \in 0..s.length /\ s.strPosition = BytesOf(s.sourceString, s.position)

(* Where the cursors of a stream stand.                                      *)
LEMMA InSyncFacts ==
  ASSUME NEW s, InSync(s)
  PROVE  /\ s \in StreamRecord /\ s.source \in Seq(Runes) /\ s.sourceString \in Seq(Bytes)
         /\ s.position \in Nat /\ s.length \in Nat /\ s.position <= s.length /\ s.length = Len(s.source)
         /\ s.source = RunesOf(s.sourceString) /\ s.strPosition = Upto(s.sourceString)[s.position]
         /\ s.strPosition \in 0..Len(s.sourceString)
<1>1. s \in StreamRecord /\ s.sourceString \in Seq(Bytes) /\ s.source \in Seq(Runes) /\ s.length \in Nat
      /\ s.position \in Nat
  BY DEF InSync, StreamRecord
<1>2. s.position \in 0..Len(RunesOf(s.sourceString))
  BY DEF InSync
<1>3. s.strPosition = Upto(s.sourceString)[s.position]
  BY BytesOfUpto DEF InSync
<1>4. s.strPosition \in 0..Len(s.sourceString)
  BY <1>1, <1>2, <1>3, Places
<1>5. s.position <= s.length /\ s.length = Len(s.source) /\ s.source = RunesOf(s.sourceString)
  BY DEF InSync
<1> QED
  BY <1>1, <1>3, <1>4, <1>5

(* A stream is determined by its string and where it stands.                 *)
LEMMA SameStream ==
  ASSUME NEW s, NEW t, InSync(s), InSync(t), s.sourceString = t.sourceString, s.position = t.position
  PROVE  s = t
<1>1. /\ s \in StreamRecord /\ t \in StreamRecord /\ s.source = t.source /\ s.length = t.length
      /\ s.strPosition = t.strPosition
  BY DEF InSync
<1>2. s.open = t.open
  BY <1>1 DEF StreamRecord
<1> QED
  BY <1>1, <1>2 DEF StreamRecord

(* A character is read: both cursors move over it, and rewinding takes both  *)
(* back to where they were.                                                  *)
LEMMA ReadInSync ==
  ASSUME NEW s, InSync(s), canRead(s)
  PROVE  LET t == readCharacter(s) IN
         /\ InSync(t) /\ t.position = s.position + 1
         /\ t.sourceString = s.sourceString /\ t.source = s.source /\ t.length = s.length
         /\ Rune(s) \in Runes /\ s.strPosition < t.strPosition
         /\ Rune(s) # RuneError =>
              /\ t.strPosition = s.strPosition + RuneLen(Rune(s))
              /\ SubSeq(s.sourceString, s.strPosition + 1, t.strPosition) = Encode(Rune(s))
         /\ rewind(t) = s
<1>1. PICK bytes \in Seq(Bytes) : bytes = s.sourceString
  BY InSyncFacts
<1>2. PICK n \in Nat : n = s.position
  BY InSyncFacts
<1>3. PICK N \in Nat : N = Len(RunesOf(bytes)) /\ N = s.length /\ N = Len(s.source)
  BY <1>1, InSyncFacts
<1>4. n \in 0..(N - 1) /\ n + 1 \in 0..N
  BY <1>2, <1>3 DEF canRead
<1>5. PICK p \in Nat : p = s.strPosition /\ p = Upto(bytes)[n]
  BY <1>1, <1>2, InSyncFacts
<1>6. PICK d : d = DecodeRune(bytes, p)
  OBVIOUS
<1>7. PICK w \in Nat \ { 0 } : w = d.width
  <2>1. DecodeRune(bytes, p).width \in Nat \ { 0 }
    BY DecodeFacts
  <2> QED
    BY <1>6, <2>1
<1>8. p < Len(bytes) /\ Upto(bytes)[n + 1] = p + w /\ RunesOf(bytes)[n + 1] = d.rune
  <2>1. n \in 0..(Len(RunesOf(bytes)) - 1)
    BY <1>3, <1>4
  <2>2. PICK places : places = Upto(bytes)
    OBVIOUS
  <2>3. places[n] < Len(bytes) /\ places[n + 1] = places[n] + DecodeRune(bytes, places[n]).width
        /\ RunesOf(bytes)[n + 1] = DecodeRune(bytes, places[n]).rune
    BY <2>1, <2>2, Places
  <2> QED
    BY <1>5, <1>6, <1>7, <2>2, <2>3
<1>9. Rune(s) = d.rune
  BY <1>1, <1>2, <1>8, InSyncFacts DEF Rune
<1>10. /\ d.rune \in Runes
       /\ d.rune # RuneError => w = RuneLen(d.rune) /\ SubSeq(bytes, p + 1, p + w) = Encode(d.rune)
  BY <1>6, <1>7, <1>8, DecodeFacts
<1>11. (IF Rune(s) = RuneError THEN DecodeRune(s.sourceString, s.strPosition).width ELSE RuneLen(Rune(s))) = w
  BY <1>1, <1>5, <1>6, <1>7, <1>9, <1>10
<1>12. PICK t : t = [s EXCEPT !.position = n + 1, !.strPosition = p + w]
  OBVIOUS
<1>13. t = readCharacter(s)
  BY <1>2, <1>5, <1>11, <1>12 DEF readCharacter
<1>14. /\ t.position = n + 1 /\ t.strPosition = p + w /\ t.open = s.open
       /\ t.sourceString = s.sourceString /\ t.source = s.source /\ t.length = s.length
  BY <1>12, InSyncFacts DEF StreamRecord
<1>15. t \in StreamRecord
  <2>1. s \in StreamRecord /\ n + 1 \in Nat /\ p + w \in Nat
    BY InSyncFacts
  <2> QED
    BY <1>12, <2>1 DEF StreamRecord
<1>16. t.strPosition = BytesOf(t.sourceString, t.position)
  BY <1>1, <1>8, <1>14, BytesOfUpto
<1>17. InSync(t)
  <2>1. t.source = RunesOf(t.sourceString) /\ t.length = Len(t.source)
    BY <1>14, InSyncFacts
  <2>2. t.position \in 0..t.length
    BY <1>3, <1>4, <1>14
  <2> QED
    BY <1>15, <1>16, <2>1, <2>2 DEF InSync
<1>18. rewind(t) = s
  <2>1. t.position - 1 = n /\ ~(t.position <= 0)
    BY <1>14
  <2>2. t.source[t.position] = d.rune
    <3>1. t.source = RunesOf(bytes)
      BY <1>1, <1>14, InSyncFacts
    <3>2. t.source[t.position] = RunesOf(bytes)[n + 1]
      BY <1>14, <3>1
    <3> QED
      BY <1>8, <3>2
  <2>3. d.rune = RuneError => DecodeLastRune(t.sourceString, t.strPosition).width = w
    <3>1. ASSUME d.rune = RuneError PROVE DecodeLastRune(bytes, p + w).width = w
      <4>1. RunesOf(bytes)[n + 1] = RuneError /\ n \in 0..(Len(RunesOf(bytes)) - 1)
        BY <1>3, <1>4, <1>8, <3>1
      <4>2. DecodeLastRune(bytes, Upto(bytes)[n + 1]).width = DecodeRune(bytes, Upto(bytes)[n]).width
        BY <4>1, LastWidth
      <4> QED
        BY <1>5, <1>6, <1>7, <1>8, <4>2
    <3> QED
      BY <1>1, <1>14, <3>1
  <2>4. (IF t.source[t.position] = RuneError THEN DecodeLastRune(t.sourceString, t.strPosition).width
         ELSE RuneLen(t.source[t.position])) = w
    BY <1>10, <2>2, <2>3
  <2>5. t.strPosition - w = p
    BY <1>14
  <2>6. rewind(t) = [t EXCEPT !.position = n, !.strPosition = p]
    BY <2>1, <2>4, <2>5 DEF rewind
  <2>7. PICK u : u = [t EXCEPT !.position = n, !.strPosition = p]
    OBVIOUS
  <2>8. /\ u.position = n /\ u.strPosition = p /\ u.open = t.open
        /\ u.sourceString = t.sourceString /\ u.source = t.source /\ u.length = t.length
    BY <1>15, <2>7 DEF StreamRecord
  <2>9. u \in StreamRecord
    BY <1>15, <2>7 DEF StreamRecord
  <2>10. /\ u.position = s.position /\ u.strPosition = s.strPosition /\ u.open = s.open
         /\ u.sourceString = s.sourceString /\ u.source = s.source /\ u.length = s.length
    BY <1>2, <1>5, <1>14, <2>8
  <2>11. s \in StreamRecord
    BY InSyncFacts
  <2>12. u = s
    <3>1. u = [open |-> u.open, sourceString |-> u.sourceString, source |-> u.source,
               strPosition |-> u.strPosition, position |-> u.position, length |-> u.length]
      BY <2>9 DEF StreamRecord
    <3>2. s = [open |-> s.open, sourceString |-> s.sourceString, source |-> s.source,
               strPosition |-> s.strPosition, position |-> s.position, length |-> s.length]
      BY <2>11 DEF StreamRecord
    <3> QED
      BY <2>10, <3>1, <3>2
  <2> QED
    BY <2>6, <2>7, <2>12
<1> QED
  BY <1>1, <1>2, <1>5, <1>7, <1>9, <1>10, <1>13, <1>14, <1>17, <1>18

(* A new stream stands at the start of the runes of its expression when the  *)
(* one from the pool is empty.                                               *)
LEMMA NewInSync ==
  ASSUME NEW string \in Expressions, pooled = << >>
  PROVE  LET s == NewLexerStream(string) IN InSync(s) /\ s.position = 0 /\ s.open
<1>1. string \in Seq(Bytes)
  BY EncodingAssumption
<1>2. PICK runes \in Seq(Runes) : runes = RunesOf(string)
  BY <1>1, Places
<1>3. pooled \o RunesOf(string) = runes
  BY <1>2
<1>4. PICK s : s = [open |-> TRUE, sourceString |-> string, source |-> runes,
                    strPosition |-> 0, position |-> 0, length |-> Len(runes)]
  OBVIOUS
<1>5. s = NewLexerStream(string)
  BY <1>3, <1>4 DEF NewLexerStream
<1>6. s \in StreamRecord
  BY <1>1, <1>4 DEF StreamRecord
<1>7. BytesOf(string, 0) = 0
  BY <1>1, BytesOfUpto, UptoType
<1>8. InSync(s) /\ s.position = 0 /\ s.open
  BY <1>2, <1>4, <1>6, <1>7 DEF InSync
<1> QED
  BY <1>5, <1>8

(* What an open stream says of the invariant of the streams.                 *)
LEMMA InSyncStream ==
  ASSUME InSync(stream)
  PROVE  stream.open /\ stream # Closed /\ StreamInSync
<1>1. stream.open = TRUE
  BY DEF InSync, StreamRecord
<1>2. stream # Closed
  BY <1>1 DEF Closed
<1>3. SourceOfExpression /\ CursorsInSync
  BY DEF InSync, SourceOfExpression, CursorsInSync
<1> QED
  BY <1>1, <1>2, <1>3 DEF StreamInSync

-----------------------------------------------------------------------------
(***************************************************************************)
(* The invariant                                                           *)
(***************************************************************************)

Modes == Quoted \cup { "hex", "numeric", "name", "symbol" }
ReaderRecord ==
  [mode : Modes, first : Nat, start : Nat, buffer : Seq(Bytes), reuse : BOOLEAN,
   trim : BOOLEAN, conditioned : BOOLEAN, finished : BOOLEAN]
TokenRecord == [kind : TokenKinds \ { "UNKNOWN", "PATTERN" }, text : Seq(Bytes), first : Nat, last : Nat]

(* What a token begins with that is not of its text.                         *)
Opening(mode) == IF mode = "hex" THEN 2 ELSE IF mode \in Quoted THEN 1 ELSE 0
Opener(mode) == IF mode = "bracket" THEN "[" ELSE mode

(* What was read up to the cursor means what is in the buffer, however the   *)
(* text goes on.                                                             *)
BufferMeant(r, s) ==
  LET b == r.first + Opening(r.mode)
  IN \A e \in s.position..s.length :
       LET from == MeaningFrom(SubSeq(s.source, b + 1, e), r.mode \in Quoted)
       IN from[1] = r.buffer \o from[(s.position - b) + 1]

(* The part of the source string up to the byte cursor is the buffer too.    *)
CutOut(r, s) ==
  SubSeq(s.sourceString, r.start + 1, s.strPosition - (IF r.trim THEN 1 ELSE 0))

(* The first rune says what is being read.                                   *)
FirstFits(r, s) ==
  LET first == s.source[r.first + 1]
  IN /\ r.first < s.length /\ r.first + Opening(r.mode) <= s.position
     /\ r.mode \in Quoted => first = Opener(r.mode)
     /\ r.mode \notin Quoted => first \notin { "[", "'", "\"" } /\ (r.mode # "symbol" => first # "\\")
     /\ r.mode \in { "numeric", "name" } => Goes(r.mode, first)
     /\ first \notin Spaces
     /\ r.mode = "hex" => first = "0" /\ s.source[r.first + 2] = "x"
     /\ r.mode \in { "name", "symbol" } => first # "0"
     /\ r.mode = "numeric" /\ first = "0" /\ s.position >= r.first + 2 => s.source[r.first + 2] # "x"

(* How the text ends.                                                        *)
EndFits(r, s) ==
  /\ ~r.finished => ~r.conditioned /\ ~r.trim
  /\ r.conditioned /\ r.mode \in Quoted => canRead(s) /\ Rune(s) = Closing(Opener(r.mode))
  /\ r.finished /\ s.position = r.first => r.mode = "symbol"

ReaderOK(r, s) ==
  /\ FirstFits(r, s) /\ EndFits(r, s)
  /\ s.position = r.first + Opening(r.mode) => r.buffer = << >>
  /\ r.start <= s.strPosition /\ (r.reuse => CutOut(r, s) = r.buffer)
  /\ BufferMeant(r, s)

(* All that lies between the tokens is white space.                          *)
SpaceBetween(ts, source, upto) ==
  \A k \in 0..Len(ts) :
    \A i \in ((IF k = 0 THEN 0 ELSE ts[k].last) + 1)..(IF k + 1 <= Len(ts) THEN ts[k + 1].first ELSE upto) :
      source[i] \in Spaces

(* One token that is as it is written.                                       *)
TokenWritten(token, source) ==
  /\ source[token.first + 1] \in { "[", "'", "\"" } =>
       /\ token.last > token.first + 1
       /\ source[token.last] = Closing(source[token.first + 1])
       /\ token.kind \in { "VARIABLE", "STRING", "TIME" }
  /\ token.text = Meaning(SubSeq(source, token.first + 1, token.last))

(* Where the white space after the last token ends.                          *)
Beginning == IF reader = NoReader THEN stream.position ELSE reader.first

TokensOK ==
  /\ tokens \in Seq(TokenRecord)
  /\ \A k \in DOMAIN tokens : tokens[k].first < tokens[k].last

SourceOK ==
  /\ InSync(stream)
  /\ SpaceBetween(tokens, stream.source, Beginning)
  /\ \A k \in DOMAIN tokens : TokenWritten(tokens[k], stream.source) /\ tokens[k].last <= stream.position
  /\ reader # NoReader => ReaderOK(reader, stream)

LexIInv ==
  /\ pooled = << >> /\ status \in { "reading", "done", "failed" } /\ TokensOK
  /\ reader \in ReaderRecord \cup { NoReader }
  /\ status # "reading" => stream = Closed
  /\ status = "reading" => SourceOK

(* The invariant holds what the text of the tokens shows.                    *)
LEMMA SpaceOnly ==
  TokensOK /\ SpaceBetween(tokens, stream.source, Beginning) => OnlySpaceBetween
<1> SUFFICES ASSUME TokensOK, SpaceBetween(tokens, stream.source, Beginning) PROVE OnlySpaceBetween
  OBVIOUS
<1>1. PICK n \in Nat : n = Len(tokens)
  BY DEF TokensOK
<1>2. PICK ends : ends = [k \in 0..n |-> IF k = 0 THEN 0 ELSE tokens[k].last]
  OBVIOUS
<1>3. PICK next : next = [k \in 1..(n + 1) |-> IF k <= n THEN tokens[k].first ELSE Beginning]
  OBVIOUS
<1>4. ASSUME NEW k \in 0..n, NEW i \in (ends[k] + 1)..next[k + 1] PROVE stream.source[i] \in Spaces
  <2>1. ends[k] = IF k = 0 THEN 0 ELSE tokens[k].last
    BY <1>2
  <2>2. next[k + 1] = IF k + 1 <= n THEN tokens[k + 1].first ELSE Beginning
    <3>1. k + 1 \in 1..(n + 1)
      OBVIOUS
    <3> QED
      BY <1>3, <3>1
  <2> QED
    BY <1>1, <1>4, <2>1, <2>2 DEF SpaceBetween
<1> QED
  BY <1>1, <1>2, <1>3, <1>4 DEF OnlySpaceBetween, Beginning

LEMMA IInvText == LexIInv => TextAsWritten
<1> SUFFICES ASSUME LexIInv, stream.open PROVE OnlySpaceBetween /\ LiteralsClosed /\
      \A k \in DOMAIN tokens : tokens[k].text = Meaning(SubSeq(stream.source, tokens[k].first + 1, tokens[k].last))
  BY DEF TextAsWritten
<1>1. status = "reading"
  <2>1. ASSUME stream = Closed PROVE FALSE
    BY <2>1 DEF Closed
  <2> QED
    BY <2>1 DEF LexIInv
<1>2. SpaceBetween(tokens, stream.source, Beginning) /\ \A k \in DOMAIN tokens : TokenWritten(tokens[k], stream.source)
  BY <1>1 DEF LexIInv, SourceOK
<1>3. OnlySpaceBetween
  BY <1>2, SpaceOnly DEF LexIInv
<1>4. LiteralsClosed
  BY <1>2 DEF LiteralsClosed, TokenWritten
<1> QED
  BY <1>2, <1>3, <1>4 DEF TokenWritten

LEMMA IInvStream == LexIInv => StreamInSync
<1> SUFFICES ASSUME LexIInv PROVE StreamInSync
  OBVIOUS
<1>1. CASE status = "reading"
  BY <1>1, InSyncStream DEF LexIInv, SourceOK
<1>2. CASE status # "reading"
  <2>1. ~stream.open
    BY <1>2 DEF LexIInv, Closed
  <2> QED
    BY <2>1 DEF StreamInSync, SourceOfExpression, CursorsInSync
<1> QED
  BY <1>1, <1>2

LEMMA IInvType == LexIInv => LexerTypeOK
<1> SUFFICES ASSUME LexIInv PROVE LexerTypeOK
  OBVIOUS
<1>1. stream.open <=> status = "reading"
  <2>1. CASE status = "reading"
    BY <2>1, InSyncStream DEF LexIInv, SourceOK
  <2>2. CASE status # "reading"
    BY <2>2 DEF LexIInv, Closed
  <2> QED
    BY <2>1, <2>2
<1>2. ASSUME NEW k \in DOMAIN tokens
      PROVE  tokens[k].kind \in TokenKinds \ { "UNKNOWN", "PATTERN" } /\ tokens[k].first < tokens[k].last
  <2>1. tokens[k] \in TokenRecord /\ tokens[k].first < tokens[k].last
    BY ElementOfSeq DEF LexIInv, TokensOK
  <2> QED
    BY <2>1 DEF TokenRecord
<1>3. ASSUME reader # NoReader PROVE reader \in ReaderRecord /\ reader.start \in Nat /\ reader.first \in Nat
  BY <1>3 DEF LexIInv, ReaderRecord
<1>4. ASSUME reader # NoReader, stream.open PROVE reader.first <= stream.position
  <2>1. FirstFits(reader, stream) /\ InSync(stream)
    BY <1>1, <1>4 DEF LexIInv, SourceOK, ReaderOK
  <2>2. reader.first + Opening(reader.mode) <= stream.position
    BY <2>1 DEF FirstFits
  <2>3. Opening(reader.mode) \in Nat /\ reader.first \in Nat /\ stream.position \in Nat
    BY <1>3, <1>4, <2>1, InSyncFacts DEF Opening
  <2> QED
    BY <2>2, <2>3
<1>5. status \in { "reading", "done", "failed" }
  BY DEF LexIInv
<1> QED
  BY <1>1, <1>2, <1>3, <1>4, <1>5 DEF LexerTypeOK

-----------------------------------------------------------------------------
(***************************************************************************)
(* The steps                                                               *)
(***************************************************************************)

(* A call begins with nothing read.                                          *)
LEMMA BegunIInv ==
  ASSUME pooled = << >>, pooled' = << >>, tokens' = << >>, reader' = NoReader, status' = "reading",
         NEW string \in Expressions, stream' = NewLexerStream(string)
  PROVE  LexIInv'
<1>1. InSync(stream') /\ stream'.position = 0
  BY NewInSync
<1>2. SpaceBetween(tokens', stream'.source, Beginning')
  BY <1>1 DEF SpaceBetween, Beginning
<1>3. SourceOK'
  BY <1>1, <1>2 DEF SourceOK
<1>4. TokensOK'
  BY DEF TokensOK
<1> QED
  BY <1>3, <1>4 DEF LexIInv

LEMMA InitIInv == LexInit => LexIInv
<1> SUFFICES ASSUME LexInit PROVE LexIInv
  OBVIOUS
<1>1. PICK string \in Expressions : stream = NewLexerStream(string)
  BY DEF LexInit
<1>2. InSync(stream) /\ stream.position = 0
  BY <1>1, NewInSync DEF LexInit
<1>3. SpaceBetween(tokens, stream.source, Beginning)
  BY <1>2 DEF SpaceBetween, Beginning, LexInit
<1>4. SourceOK
  BY <1>2, <1>3 DEF SourceOK, LexInit
<1>5. TokensOK
  BY DEF TokensOK, LexInit
<1> QED
  BY <1>4, <1>5 DEF LexIInv, LexInit

(* A call ends with a closed stream.                                         *)
LEMMA EndedIInv ==
  ASSUME LexIInv, stream' = Closed, pooled' = << >>, UNCHANGED <<tokens, reader>>, status' \in { "done", "failed" }
  PROVE  LexIInv'
<1>1. TokensOK'
  BY DEF LexIInv, TokensOK
<1> QED
  BY <1>1 DEF LexIInv

LEMMA FailIInv == LexIInv /\ Fail => LexIInv'
<1> SUFFICES ASSUME LexIInv, Fail PROVE LexIInv'
  OBVIOUS
<1>1. stream' = Closed /\ pooled' = << >> /\ status' \in { "done", "failed" }
  BY DEF LexIInv, Fail, Abandon
<1> QED
  BY <1>1, EndedIInv DEF Fail

(* Characters are read with no token added: what lies before the next token  *)
(* may only grow by white space.                                             *)
LEMMA MovedIInv ==
  ASSUME LexIInv, status = "reading", UNCHANGED <<pooled, tokens, status>>,
         InSync(stream'), stream'.source = stream.source, stream.position <= stream'.position,
         reader' \in ReaderRecord \cup { NoReader }, reader' # NoReader => ReaderOK(reader', stream'),
         SpaceBetween(tokens, stream.source, Beginning')
  PROVE  LexIInv'
<1>1. TokensOK'
  BY DEF LexIInv, TokensOK
<1>2. SpaceBetween(tokens', stream'.source, Beginning')
  OBVIOUS
<1>3. ASSUME NEW k \in DOMAIN tokens'
      PROVE  TokenWritten(tokens'[k], stream'.source) /\ tokens'[k].last <= stream'.position
  <2>1. TokenWritten(tokens[k], stream.source) /\ tokens[k].last <= stream.position
    BY <1>3 DEF LexIInv, SourceOK
  <2>2. tokens[k].last \in Nat
    <3>1. tokens[k] \in TokenRecord
      BY <1>3, ElementOfSeq DEF LexIInv, TokensOK
    <3> QED
      BY <3>1 DEF TokenRecord
  <2>3. stream.position \in Nat /\ stream'.position \in Nat
    BY InSyncFacts DEF LexIInv, SourceOK
  <2>4. tokens[k].last <= stream'.position
    BY <2>1, <2>2, <2>3
  <2> QED
    BY <2>1, <2>4
<1>4. SourceOK'
  BY <1>2, <1>3 DEF SourceOK
<1> QED
  BY <1>1, <1>4 DEF LexIInv

(* A token is added: it begins where the white space ends.                   *)
LEMMA EmittedIInv ==
  ASSUME LexIInv, status = "reading", NEW kind \in TokenKinds \ { "UNKNOWN", "PATTERN" },
         NEW text \in Seq(Bytes), NEW s, InSync(s), s.source = stream.source,
         stream.position <= s.position, Beginning < s.position, Beginning \in Nat,
         TokenWritten([kind |-> kind, text |-> text, first |-> Beginning, last |-> s.position], stream.source),
         Emit(kind, text, Beginning, s)
  PROVE  LexIInv'
<1>1. PICK token : token = [kind |-> kind, text |-> text, first |-> Beginning, last |-> s.position]
  OBVIOUS
<1>2. token \in TokenRecord /\ token.first = Beginning /\ token.last = s.position
  <2>1. s.position \in Nat
    BY InSyncFacts
  <2> QED
    BY <1>1, <2>1 DEF TokenRecord
<1>3. tokens' = Append(tokens, token) /\ stream' = s /\ reader' = NoReader /\ UNCHANGED <<pooled, status>>
  BY <1>1 DEF Emit
<1>4. PICK n \in Nat : n = Len(tokens)
  BY DEF LexIInv, TokensOK
<1>5. /\ tokens' \in Seq(TokenRecord) /\ Len(tokens') = n + 1 /\ tokens'[n + 1] = token
      /\ \A k \in 1..n : tokens'[k] = tokens[k]
  <2>1. tokens \in Seq(TokenRecord)
    BY DEF LexIInv, TokensOK
  <2> QED
    BY <1>2, <1>3, <1>4, <2>1, AppendProperties
<1>6. DOMAIN tokens' = 1..(n + 1) /\ DOMAIN tokens = 1..n
  BY <1>4, <1>5 DEF LexIInv, TokensOK
<1>7. \A k \in 1..(n + 1) : k = n + 1 \/ k \in 1..n
  OBVIOUS
<1>8. TokensOK'
  <2>1. ASSUME NEW k \in 1..(n + 1) PROVE tokens'[k].first < tokens'[k].last
    <3>1. CASE k = n + 1
      BY <1>2, <1>5, <3>1
    <3>2. CASE k \in 1..n
      BY <1>5, <1>6, <3>2 DEF LexIInv, TokensOK
    <3> QED
      BY <1>7, <3>1, <3>2
  <2> QED
    BY <1>5, <1>6, <2>1 DEF TokensOK
<1>9. ASSUME NEW k \in 1..(n + 1)
      PROVE  TokenWritten(tokens'[k], s.source) /\ tokens'[k].last <= s.position
  <2>1. CASE k = n + 1
    BY <1>1, <1>2, <1>5, <2>1, InSyncFacts
  <2>2. CASE k \in 1..n
    <3>1. TokenWritten(tokens[k], stream.source) /\ tokens[k].last <= stream.position
      BY <1>6, <2>2 DEF LexIInv, SourceOK
    <3>2. tokens[k].last \in Nat
      <4>1. tokens[k] \in TokenRecord
        BY <1>4, <2>2, ElementOfSeq DEF LexIInv, TokensOK
      <4> QED
        BY <4>1 DEF TokenRecord
    <3>3. stream.position \in Nat /\ s.position \in Nat
      BY InSyncFacts DEF LexIInv, SourceOK
    <3>4. tokens[k].last <= s.position
      BY <3>1, <3>2, <3>3
    <3> QED
      BY <1>5, <2>2, <3>1, <3>4
  <2> QED
    BY <1>7, <2>1, <2>2
<1>10. SpaceBetween(tokens', s.source, s.position)
  <2>1. ASSUME NEW k \in 0..(n + 1),
               NEW i \in ((IF k = 0 THEN 0 ELSE tokens'[k].last) + 1)..
                         (IF k + 1 <= n + 1 THEN tokens'[k + 1].first ELSE s.position)
        PROVE  s.source[i] \in Spaces
    <3>1. CASE k = n + 1
      <4>1. i \in (s.position + 1)..s.position
        BY <1>2, <1>5, <3>1
      <4>2. s.position \in Nat
        BY InSyncFacts
      <4> QED
        BY <4>1, <4>2
    <3>2. CASE k \in 0..n
      <4>1. (IF k = 0 THEN 0 ELSE tokens'[k].last) = (IF k = 0 THEN 0 ELSE tokens[k].last)
        BY <1>5, <3>2
      <4>2. (IF k + 1 <= n + 1 THEN tokens'[k + 1].first ELSE s.position)
              = (IF k + 1 <= n THEN tokens[k + 1].first ELSE Beginning)
        <5>1. CASE k = n
          BY <1>2, <1>5, <5>1
        <5>2. CASE k # n
          <6>1. k + 1 \in 1..n
            BY <3>2, <5>2
          <6> QED
            BY <1>5, <6>1
        <5> QED
          BY <5>1, <5>2
      <4>3. SpaceBetween(tokens, stream.source, Beginning)
        BY DEF LexIInv, SourceOK
      <4> QED
        BY <1>4, <2>1, <3>2, <4>1, <4>2, <4>3 DEF SpaceBetween
    <3> QED
      BY <3>1, <3>2
  <2> QED
    BY <1>5, <2>1 DEF SpaceBetween
<1>11. SourceOK'
  <2>1. Beginning' = s.position
    BY <1>3 DEF Beginning
  <2> QED
    BY <1>3, <1>6, <1>9, <1>10, <2>1 DEF SourceOK
<1> QED
  BY <1>3, <1>8, <1>11 DEF LexIInv

(* What the next character adds to what was read.                            *)
LEMMA MeaningNext ==
  ASSUME NEW source \in Seq(Runes), NEW b \in Nat, NEW at \in b..(Len(source) - 1),
         NEW e \in (at + 1)..Len(source), NEW quoted \in BOOLEAN
  PROVE  LET from == MeaningFrom(SubSeq(source, b + 1, e), quoted)
             i == (at - b) + 1
             rune == source[at + 1]
         IN /\ from[i] \in Seq(Bytes) /\ from[i + 1] \in Seq(Bytes) /\ from[i + 2] \in Seq(Bytes)
            /\ from[(e - b) + 1] = << >>
            /\ rune = "\\" /\ at + 1 = e => from[i] = << >>
            /\ rune = "\\" /\ at + 1 # e => from[i] = Encode(source[at + 2]) \o from[i + 2]
            /\ rune # "\\" /\ rune \in Spaces /\ ~quoted => from[i] = from[i + 1]
            /\ rune # "\\" /\ (rune \notin Spaces \/ quoted) => from[i] = Encode(rune) \o from[i + 1]
<1>1. PICK i \in Nat : i = (at - b) + 1
  OBVIOUS
<1>2. PICK body : body = SubSeq(source, b + 1, e)
  OBVIOUS
<1>3. PICK from : from = MeaningFrom(body, quoted)
  OBVIOUS
<1>4. b + 1 \in 1..Len(source) /\ e \in (b + 1)..Len(source) /\ (e - (b + 1)) + 1 = e - b
  OBVIOUS
<1>5. body \in Seq(Runes) /\ Len(body) = e - b /\ \A k \in 1..(e - b) : body[k] = source[((b + 1) + k) - 1]
  BY <1>2, <1>4, Part
<1>6. i \in 1..(e - b) /\ ((b + 1) + i) - 1 = at + 1 /\ (i = e - b <=> at + 1 = e)
      /\ (i # e - b => i + 1 \in 1..(e - b) /\ ((b + 1) + (i + 1)) - 1 = at + 2)
      /\ i \in 1..((e - b) + 2) /\ i + 1 \in 1..((e - b) + 2) /\ i + 2 \in 1..((e - b) + 2)
  BY <1>1
<1>7. body[i] = source[at + 1] /\ (i # e - b => body[i + 1] = source[at + 2])
  BY <1>5, <1>6
<1>8. /\ from[i] \in Seq(Bytes) /\ from[i + 1] \in Seq(Bytes) /\ from[i + 2] \in Seq(Bytes)
      /\ from[(e - b) + 1] = << >>
  BY <1>3, <1>5, <1>6, MeaningFacts
<1>9. i \in 1..Len(body)
  BY <1>5, <1>6
<1>10. /\ body[i] = "\\" /\ i = e - b => from[i] = << >>
       /\ body[i] = "\\" /\ i # e - b => from[i] = Encode(body[i + 1]) \o from[i + 2]
       /\ body[i] # "\\" /\ body[i] \in Spaces /\ ~quoted => from[i] = from[i + 1]
       /\ body[i] # "\\" /\ (body[i] \notin Spaces \/ quoted) => from[i] = Encode(body[i]) \o from[i + 1]
  BY <1>3, <1>5, <1>9, MeaningFacts
<1>11. /\ source[at + 1] = "\\" /\ at + 1 = e => from[i] = << >>
       /\ source[at + 1] = "\\" /\ at + 1 # e => from[i] = Encode(source[at + 2]) \o from[i + 2]
       /\ source[at + 1] # "\\" /\ source[at + 1] \in Spaces /\ ~quoted => from[i] = from[i + 1]
       /\ source[at + 1] # "\\" /\ (source[at + 1] \notin Spaces \/ quoted)
            => from[i] = Encode(source[at + 1]) \o from[i + 1]
  BY <1>6, <1>7, <1>10
<1> QED
  BY <1>1, <1>2, <1>3, <1>8, <1>11

LEMMA OpeningType ==
  ASSUME NEW q \in ReaderRecord
  PROVE  /\ q.first \in Nat /\ q.start \in Nat /\ Opening(q.mode) \in 0..2 /\ q.first + Opening(q.mode) \in Nat
         /\ q.buffer \in Seq(Bytes) /\ q.mode \in Modes /\ q # NoReader
<1>1. q.first \in Nat /\ q.start \in Nat /\ q.buffer \in Seq(Bytes) /\ q.mode \in Modes
  BY DEF ReaderRecord
<1>2. Opening(q.mode) \in 0..2
  BY DEF Opening
<1>3. q # NoReader
  <2>1. q.mode # "none"
    BY <1>1 DEF Modes, Quoted
  <2>2. NoReader.mode = "none"
    BY DEF NoReader
  <2> QED
    BY <2>1, <2>2
<1> QED
  BY <1>1, <1>2, <1>3

(* What is in the buffer before a character, and what the character adds.    *)
LEMMA MeantNext ==
  ASSUME NEW q \in ReaderRecord, NEW s, InSync(s), canRead(s), BufferMeant(q, s),
         q.first + Opening(q.mode) <= s.position, NEW e \in (s.position + 1)..s.length
  PROVE  LET b == q.first + Opening(q.mode)
             from == MeaningFrom(SubSeq(s.source, b + 1, e), q.mode \in Quoted)
             i == (s.position - b) + 1
         IN /\ from[1] = q.buffer \o from[i]
            /\ from[i] \in Seq(Bytes) /\ from[i + 1] \in Seq(Bytes) /\ from[i + 2] \in Seq(Bytes)
            /\ from[(e - b) + 1] = << >>
            /\ Rune(s) = "\\" /\ s.position + 1 = e => from[i] = << >>
            /\ Rune(s) = "\\" /\ s.position + 1 # e => from[i] = Encode(s.source[s.position + 2]) \o from[i + 2]
            /\ Rune(s) # "\\" /\ Rune(s) \in Spaces /\ q.mode \notin Quoted => from[i] = from[i + 1]
            /\ Rune(s) # "\\" /\ (Rune(s) \notin Spaces \/ q.mode \in Quoted) => from[i] = Encode(Rune(s)) \o from[i + 1]
<1>1. PICK b \in Nat : b = q.first + Opening(q.mode)
  BY OpeningType
<1>2. PICK quoted \in BOOLEAN : quoted <=> q.mode \in Quoted
  <2>1. CASE q.mode \in Quoted
    BY <2>1
  <2>2. CASE q.mode \notin Quoted
    BY <2>2
  <2> QED
    BY <2>1, <2>2
<1>3. PICK source \in Seq(Runes) : source = s.source
  BY InSyncFacts
<1>4. PICK at \in Nat : at = s.position
  BY InSyncFacts
<1>5. at \in b..(Len(source) - 1) /\ e \in (at + 1)..Len(source) /\ e \in s.position..s.length
  BY <1>1, <1>3, <1>4, InSyncFacts DEF canRead
<1>6. PICK from : from = MeaningFrom(SubSeq(source, b + 1, e), quoted)
                  /\ from = MeaningFrom(SubSeq(source, b + 1, e), q.mode \in Quoted)
  BY <1>2
<1>7. PICK i : i = (at - b) + 1
  OBVIOUS
<1>8. from[1] = q.buffer \o from[i]
  BY <1>1, <1>2, <1>3, <1>4, <1>5, <1>6, <1>7 DEF BufferMeant
<1>9. Rune(s) = source[at + 1]
  BY <1>3, <1>4 DEF Rune
<1>10. /\ from[i] \in Seq(Bytes) /\ from[i + 1] \in Seq(Bytes) /\ from[i + 2] \in Seq(Bytes)
       /\ from[(e - b) + 1] = << >>
       /\ Rune(s) = "\\" /\ at + 1 = e => from[i] = << >>
       /\ Rune(s) = "\\" /\ at + 1 # e => from[i] = Encode(source[at + 2]) \o from[i + 2]
       /\ Rune(s) # "\\" /\ Rune(s) \in Spaces /\ ~quoted => from[i] = from[i + 1]
       /\ Rune(s) # "\\" /\ (Rune(s) \notin Spaces \/ quoted) => from[i] = Encode(Rune(s)) \o from[i + 1]
  <2>1. LET begun == MeaningFrom(SubSeq(source, b + 1, e), quoted)
            k == (at - b) + 1
            rune == source[at + 1]
        IN /\ begun[k] \in Seq(Bytes) /\ begun[k + 1] \in Seq(Bytes) /\ begun[k + 2] \in Seq(Bytes)
           /\ begun[(e - b) + 1] = << >>
           /\ rune = "\\" /\ at + 1 = e => begun[k] = << >>
           /\ rune = "\\" /\ at + 1 # e => begun[k] = Encode(source[at + 2]) \o begun[k + 2]
           /\ rune # "\\" /\ rune \in Spaces /\ ~quoted => begun[k] = begun[k + 1]
           /\ rune # "\\" /\ (rune \notin Spaces \/ quoted) => begun[k] = Encode(rune) \o begun[k + 1]
    BY <1>5, MeaningNext
  <2> QED
    BY <1>6, <1>7, <1>9, <2>1
<1> QED
  BY <1>1, <1>2, <1>3, <1>4, <1>6, <1>7, <1>8, <1>10

(* A character was read into a text that goes on or ends.                    *)
LEMMA AdvancedOK ==
  ASSUME NEW q \in ReaderRecord, NEW s, ReaderOK(q, s), InSync(s),
         NEW r \in ReaderRecord, NEW t, InSync(t),
         r.mode = q.mode, r.first = q.first, r.start = q.start,
         t.source = s.source, t.length = s.length, s.strPosition <= t.strPosition,
         t.position = s.position + 1 \/ (t.position = s.position + 2 /\ Rune(s) = "\\"),
         q.mode = "numeric" => Rune(s) # "x",
         ~r.finished => ~r.conditioned /\ ~r.trim, ~(r.conditioned /\ r.mode \in Quoted),
         r.reuse => CutOut(r, t) = r.buffer, BufferMeant(r, t)
  PROVE  ReaderOK(r, t)
<1>1. PICK first \in Nat : first = q.first /\ first = r.first
  BY OpeningType
<1>2. PICK at \in Nat : at = s.position
  BY InSyncFacts
<1>3. PICK open \in 0..2 : open = Opening(q.mode)
  BY OpeningType
<1>4. first + open <= at /\ first < s.length /\ at < t.position /\ t.position \in Nat
  <2>1. first + open <= at /\ first < s.length
    BY <1>1, <1>2, <1>3 DEF ReaderOK, FirstFits
  <2>2. t.position = at + 1 \/ t.position = at + 2
    BY <1>2
  <2> QED
    BY <2>1, <2>2
<1>5. ASSUME q.mode = "numeric", s.source[first + 1] = "0", t.position >= first + 2
      PROVE  s.source[first + 2] # "x"
  <2>1. CASE at >= first + 2
    BY <1>1, <1>2, <1>5, <2>1 DEF ReaderOK, FirstFits
  <2>2. CASE at = first + 1
    <3>1. Rune(s) = s.source[first + 2]
      BY <1>2, <2>2 DEF Rune
    <3> QED
      BY <1>5, <3>1
  <2>3. CASE at = first
    <3>1. Rune(s) = "0"
      BY <1>2, <1>5, <2>3 DEF Rune
    <3>2. t.position = first + 1
      BY <1>2, <2>3, <3>1
    <3> QED
      BY <1>5, <3>2
  <2> QED
    BY <1>3, <1>4, <2>1, <2>2, <2>3
<1>6. r.first + Opening(r.mode) <= t.position
  BY <1>1, <1>3, <1>4
<1>7. FirstFits(r, t)
  BY <1>1, <1>4, <1>5, <1>6 DEF ReaderOK, FirstFits
<1>8. EndFits(r, t)
  <2>1. t.position # r.first
    BY <1>1, <1>3, <1>4
  <2> QED
    BY <2>1 DEF EndFits
<1>9. t.position # r.first + Opening(r.mode)
  BY <1>1, <1>3, <1>4
<1>10. r.start <= t.strPosition
  <2>1. q.start <= s.strPosition /\ q.start \in Nat /\ s.strPosition \in Nat /\ t.strPosition \in Nat
    BY OpeningType, InSyncFacts DEF ReaderOK
  <2> QED
    BY <2>1
<1> QED
  BY <1>7, <1>8, <1>9, <1>10 DEF ReaderOK

(* readUntilFalse: what every turn begins with.                              *)
LEMMA ScanFacts ==
  ASSUME LexIInv, status = "reading", reader # NoReader
  PROVE  /\ reader \in ReaderRecord /\ ReaderOK(reader, stream) /\ InSync(stream)
         /\ Beginning = reader.first /\ SpaceBetween(tokens, stream.source, reader.first)
         /\ reader.first + Opening(reader.mode) <= stream.position
         /\ ~reader.finished => ~reader.conditioned /\ ~reader.trim
<1>1. /\ reader \in ReaderRecord /\ ReaderOK(reader, stream) /\ InSync(stream)
      /\ SpaceBetween(tokens, stream.source, Beginning)
  BY DEF LexIInv, SourceOK
<1>2. Beginning = reader.first
  BY DEF Beginning
<1> QED
  BY <1>1, <1>2 DEF ReaderOK, FirstFits, EndFits

LEMMA TurnIInv ==
  ASSUME LexIInv, status = "reading", reader # NoReader, NEW r \in ReaderRecord, NEW s, Turn(r, s),
         InSync(s), s.source = stream.source, stream.position <= s.position,
         r.first = reader.first, ReaderOK(r, s)
  PROVE  LexIInv'
<1>1. reader' = r /\ stream' = s /\ UNCHANGED <<pooled, tokens, status>>
  BY DEF Turn
<1>2. r # NoReader
  BY OpeningType
<1>3. Beginning' = reader.first
  BY <1>1, <1>2 DEF Beginning
<1>4. SpaceBetween(tokens, stream.source, Beginning')
  BY <1>3, ScanFacts
<1> QED
  BY <1>1, <1>2, <1>4, MovedIInv

(* What one reusable character adds to the part of the source string.        *)
LEMMA CutNext ==
  ASSUME NEW q \in ReaderRecord, NEW s, InSync(s), canRead(s), ~q.trim, CutOut(q, s) = q.buffer,
         q.start <= s.strPosition, Rune(s) \notin DOMAIN Encoding \ { RuneSelf }
  PROVE  LET t == readCharacter(s) IN
         /\ SubSeq(s.sourceString, q.start + 1, t.strPosition) = q.buffer \o Encode(Rune(s))
         /\ Rune(s) \in Spaces => t.strPosition - 1 = s.strPosition
<1>1. PICK bytes \in Seq(Bytes) : bytes = s.sourceString
  BY InSyncFacts
<1>2. PICK start \in Nat : start = q.start
  BY OpeningType
<1>3. PICK t : t = readCharacter(s)
  OBVIOUS
<1>4. PICK c \in Runes : c = Rune(s)
  BY ReadInSync
<1>5. c # RuneError
  <2>1. RuneError \in DOMAIN Encoding
    BY EncodingAssumption
  <2>2. RuneError # RuneSelf
    BY DEF RuneError, RuneSelf
  <2> QED
    BY <1>4, <2>1, <2>2
<1>6. /\ InSync(t) /\ t.sourceString = bytes /\ s.strPosition < t.strPosition
      /\ t.strPosition = s.strPosition + RuneLen(c)
      /\ SubSeq(bytes, s.strPosition + 1, t.strPosition) = Encode(c)
  BY <1>1, <1>3, <1>4, <1>5, ReadInSync
<1>7. PICK p \in Nat : p = s.strPosition
  BY InSyncFacts
<1>8. PICK p2 \in Nat : p2 = t.strPosition /\ p2 <= Len(bytes)
  BY <1>6, InSyncFacts
<1>9. SubSeq(bytes, start + 1, p) = q.buffer
  BY <1>1, <1>2, <1>7 DEF CutOut
<1>10. SubSeq(bytes, start + 1, p2) = q.buffer \o Encode(c)
  <2>1. start + 1 \in 1..(Len(bytes) + 1) /\ p \in ((start + 1) - 1)..Len(bytes) /\ p2 \in p..Len(bytes)
    BY <1>2, <1>6, <1>7, <1>8
  <2>2. SubSeq(bytes, start + 1, p) \o SubSeq(bytes, p + 1, p2) = SubSeq(bytes, start + 1, p2)
    BY <2>1, ConcatAdjacentSubSeq
  <2> QED
    BY <1>6, <1>7, <1>8, <1>9, <2>2
<1>11. ASSUME c \in Spaces PROVE p2 - 1 = p
  <2>1. c # RuneSelf
    BY <1>11, LexerAssumption
  <2>2. c \notin DOMAIN Encoding
    BY <1>4, <2>1
  <2>3. RuneLen(c) = 1
    BY <2>2 DEF RuneLen, Encode
  <2> QED
    BY <1>6, <1>7, <1>8, <2>3
<1> QED
  BY <1>1, <1>2, <1>3, <1>4, <1>7, <1>8, <1>10, <1>11

(* A character that is part of the text.                                     *)
LEMMA ReadPartIInv == LexIInv /\ ReadPart => LexIInv'
<1> SUFFICES ASSUME LexIInv, ReadPart PROVE LexIInv'
  OBVIOUS
<1>1. status = "reading" /\ reader # NoReader /\ ~reader.finished /\ canRead(stream) /\ Character # "\\"
      /\ (Character \notin Spaces \/ reader.mode \in Quoted) /\ Goes(reader.mode, Character)
  BY DEF ReadPart, Scanning, Breaks, Skips
<1>2. /\ reader \in ReaderRecord /\ ReaderOK(reader, stream) /\ InSync(stream)
      /\ reader.first + Opening(reader.mode) <= stream.position /\ ~reader.conditioned /\ ~reader.trim
  BY <1>1, ScanFacts
<1>3. PICK t : t = Second
  OBVIOUS
<1>4. /\ InSync(t) /\ t.position = stream.position + 1 /\ t.sourceString = stream.sourceString
      /\ t.source = stream.source /\ t.length = stream.length /\ stream.strPosition < t.strPosition
      /\ Character \in Runes
  BY <1>1, <1>2, <1>3, ReadInSync DEF Second, Character
<1>5. PICK code \in Seq(Bytes) : code = Encode(Character)
  BY <1>4, EncodeType
<1>6. PICK r : r = Write(Character)
  OBVIOUS
<1>7. reader.buffer \in Seq(Bytes) /\ reader.first \in Nat /\ reader.start \in Nat
  BY <1>2, OpeningType
<1>8. /\ r \in ReaderRecord /\ r.mode = reader.mode /\ r.first = reader.first /\ r.start = reader.start
      /\ r.buffer = reader.buffer \o code /\ r.reuse = Reusable /\ r.trim = reader.trim
      /\ r.conditioned = reader.conditioned /\ r.finished = reader.finished
  <2>1. PICK buffer \in Seq(Bytes) : buffer = reader.buffer \o code
    BY <1>7, ConcatProperties
  <2>2. Reusable \in BOOLEAN
    BY <1>2 DEF Reusable, ReaderRecord
  <2>3. r = [reader EXCEPT !.buffer = buffer, !.reuse = Reusable]
    BY <1>5, <1>6, <2>1 DEF Write
  <2> QED
    BY <1>2, <2>1, <2>2, <2>3 DEF ReaderRecord
<1>9. BufferMeant(r, t)
  <2>1. ASSUME NEW e \in t.position..t.length
        PROVE  LET b == r.first + Opening(r.mode)
                   from == MeaningFrom(SubSeq(t.source, b + 1, e), r.mode \in Quoted)
               IN from[1] = r.buffer \o from[(t.position - b) + 1]
    <3>1. PICK b \in Nat : b = reader.first + Opening(reader.mode)
      BY <1>2, OpeningType
    <3>2. PICK from : from = MeaningFrom(SubSeq(stream.source, b + 1, e), reader.mode \in Quoted)
      OBVIOUS
    <3>3. PICK i : i = (stream.position - b) + 1
      OBVIOUS
    <3>4. e \in (stream.position + 1)..stream.length
      BY <1>4
    <3>5. from[1] = reader.buffer \o from[i] /\ from[i] = code \o from[i + 1] /\ from[i + 1] \in Seq(Bytes)
      <4>1. BufferMeant(reader, stream)
        BY <1>2 DEF ReaderOK
      <4>2. Rune(stream) # "\\" /\ (Rune(stream) \notin Spaces \/ reader.mode \in Quoted)
        BY <1>1 DEF Character
      <4>3. /\ from[1] = reader.buffer \o from[i] /\ from[i + 1] \in Seq(Bytes)
            /\ from[i] = Encode(Rune(stream)) \o from[i + 1]
        BY <1>1, <1>2, <3>1, <3>2, <3>3, <3>4, <4>1, <4>2, MeantNext
      <4>4. code = Encode(Rune(stream))
        BY <1>5 DEF Character
      <4>5. from[i] = code \o from[i + 1]
        BY <4>3, <4>4
      <4> QED
        BY <4>3, <4>5
    <3>6. from[1] = (reader.buffer \o code) \o from[i + 1]
      <4>1. PICK rest \in Seq(Bytes) : rest = from[i + 1]
        BY <3>5
      <4>2. PICK buffer \in Seq(Bytes) : buffer = reader.buffer
        BY <1>7
      <4>3. (buffer \o code) \o rest = buffer \o (code \o rest)
        BY ConcatAssociative
      <4> QED
        BY <3>5, <4>1, <4>2, <4>3
    <3>7. (t.position - b) + 1 = i + 1
      BY <1>2, <1>4, <3>3, InSyncFacts
    <3> QED
      BY <1>4, <1>8, <3>1, <3>2, <3>6, <3>7
  <2> QED
    BY <2>1 DEF BufferMeant
<1>10. ASSUME r.reuse PROVE CutOut(r, t) = r.buffer
  <2>1. reader.reuse /\ Character \notin DOMAIN Encoding \ { RuneSelf }
    BY <1>8, <1>10 DEF Reusable, International
  <2>2. CutOut(reader, stream) = reader.buffer /\ reader.start <= stream.strPosition
    BY <1>2, <2>1 DEF ReaderOK
  <2>3. SubSeq(stream.sourceString, reader.start + 1, t.strPosition) = reader.buffer \o code
    BY <1>1, <1>2, <1>3, <1>5, <2>1, <2>2, CutNext DEF Character, Second
  <2>4. t.strPosition - 0 = t.strPosition
    BY <1>4, InSyncFacts
  <2> QED
    BY <1>2, <1>4, <1>8, <2>3, <2>4 DEF CutOut
<1>11. ASSUME reader.mode = "numeric" PROVE Character # "x"
  <2>1. isNumeric(Character)
    BY <1>1, <1>11 DEF Goes
  <2> QED
    BY <2>1, LexerAssumption DEF isNumeric
<1>12. stream.position <= t.position /\ stream.strPosition <= t.strPosition
  BY <1>2, <1>4, InSyncFacts
<1>13. ReaderOK(r, t)
  BY <1>2, <1>4, <1>8, <1>9, <1>10, <1>11, <1>12, AdvancedOK DEF Character
<1>14. Turn(r, t)
  BY <1>3, <1>6 DEF ReadPart
<1> QED
  BY <1>1, <1>4, <1>8, <1>12, <1>13, <1>14, TurnIInv

(* The text stops where the cursor is.                                       *)
LEMMA StoppedOK ==
  ASSUME NEW q \in ReaderRecord, NEW s, ReaderOK(q, s), NEW r \in ReaderRecord,
         r.mode = q.mode, r.first = q.first, r.start = q.start, r.buffer = q.buffer, r.trim = q.trim,
         r.reuse => q.reuse, EndFits(r, s)
  PROVE  ReaderOK(r, s)
<1>1. FirstFits(r, s)
  BY DEF ReaderOK, FirstFits
<1>2. BufferMeant(r, s)
  BY DEF ReaderOK, BufferMeant
<1>3. r.reuse => CutOut(r, s) = r.buffer
  BY DEF ReaderOK, CutOut
<1> QED
  BY <1>1, <1>2, <1>3 DEF ReaderOK

(* The character that ends the text is taken back.                           *)
LEMMA ReadEndIInv == LexIInv /\ ReadEnd => LexIInv'
<1> SUFFICES ASSUME LexIInv, ReadEnd PROVE LexIInv'
  OBVIOUS
<1>1. status = "reading" /\ reader # NoReader /\ ~reader.finished /\ canRead(stream) /\ Character # "\\"
      /\ ~Goes(reader.mode, Character)
  BY DEF ReadEnd, Scanning
<1>2. /\ reader \in ReaderRecord /\ ReaderOK(reader, stream) /\ InSync(stream) /\ FirstFits(reader, stream)
      /\ reader.first + Opening(reader.mode) <= stream.position /\ ~reader.conditioned /\ ~reader.trim
  BY <1>1, ScanFacts DEF ReaderOK
<1>3. rewind(Second) = stream
  BY <1>1, <1>2, ReadInSync DEF Second
<1>4. PICK r : r = [reader EXCEPT !.conditioned = TRUE, !.reuse = Reusable, !.finished = TRUE]
  OBVIOUS
<1>5. Turn(r, stream)
  BY <1>3, <1>4 DEF ReadEnd
<1>6. Reusable \in BOOLEAN
  BY <1>2 DEF Reusable, ReaderRecord
<1>7. /\ r \in ReaderRecord /\ r.mode = reader.mode /\ r.first = reader.first /\ r.start = reader.start
      /\ r.buffer = reader.buffer /\ r.reuse = Reusable /\ r.trim = reader.trim /\ r.conditioned /\ r.finished
  BY <1>2, <1>4, <1>6 DEF ReaderRecord
<1>8. ASSUME reader.mode \in Quoted PROVE Character = Closing(Opener(reader.mode))
  <2>1. CASE reader.mode = "bracket"
    BY <1>1, <2>1 DEF Goes, Closing, Opener
  <2>2. CASE reader.mode \in { "'", "\"" }
    BY <1>1, <2>2 DEF Goes, Closing, Opener
  <2> QED
    BY <1>8, <2>1, <2>2 DEF Quoted
<1>9. ASSUME stream.position = reader.first PROVE reader.mode = "symbol"
  <2>1. Opening(reader.mode) = 0
    <3>1. PICK open \in 0..2 : open = Opening(reader.mode)
      BY <1>2, OpeningType
    <3>2. reader.first \in Nat /\ reader.first + open <= reader.first
      BY <1>2, <1>9, <3>1, OpeningType
    <3> QED
      BY <3>1, <3>2
  <2>2. reader.mode \in Modes
    BY <1>2, OpeningType
  <2>3. reader.mode \in { "numeric", "name", "symbol" }
    BY <2>1, <2>2 DEF Opening, Modes
  <2>4. Character = stream.source[reader.first + 1]
    BY <1>9 DEF Character, Rune
  <2>5. reader.mode \in { "numeric", "name" } => Goes(reader.mode, Character)
    BY <1>2, <2>4 DEF FirstFits
  <2> QED
    BY <1>1, <2>3, <2>5
<1>10. EndFits(r, stream)
  BY <1>1, <1>7, <1>8, <1>9 DEF EndFits, Character
<1>11. ReaderOK(r, stream)
  BY <1>2, <1>7, <1>10, StoppedOK DEF Reusable
<1>12. stream.position <= stream.position
  BY <1>2, InSyncFacts
<1> QED
  BY <1>1, <1>2, <1>5, <1>7, <1>11, <1>12, TurnIInv

(* The text ends with the source.                                            *)
LEMMA SourceEndsIInv == LexIInv /\ SourceEnds => LexIInv'
<1> SUFFICES ASSUME LexIInv, SourceEnds PROVE LexIInv'
  OBVIOUS
<1>1. status = "reading" /\ reader # NoReader /\ ~reader.finished /\ ~canRead(stream)
  BY DEF SourceEnds, Scanning
<1>2. /\ reader \in ReaderRecord /\ ReaderOK(reader, stream) /\ InSync(stream) /\ FirstFits(reader, stream)
      /\ ~reader.conditioned
  BY <1>1, ScanFacts DEF ReaderOK
<1>3. PICK r : r = [reader EXCEPT !.finished = TRUE]
  OBVIOUS
<1>4. Turn(r, stream)
  BY <1>3 DEF SourceEnds
<1>5. /\ r \in ReaderRecord /\ r.mode = reader.mode /\ r.first = reader.first /\ r.start = reader.start
      /\ r.buffer = reader.buffer /\ r.reuse = reader.reuse /\ r.trim = reader.trim
      /\ r.conditioned = reader.conditioned /\ r.finished
  BY <1>2, <1>3 DEF ReaderRecord
<1>6. stream.position # reader.first
  <2>1. reader.first < stream.length
    BY <1>2 DEF FirstFits
  <2> QED
    BY <1>1, <2>1 DEF canRead
<1>7. EndFits(r, stream)
  BY <1>2, <1>5, <1>6 DEF EndFits
<1>8. ReaderOK(r, stream)
  BY <1>2, <1>5, <1>7, StoppedOK
<1>9. stream.position <= stream.position
  BY <1>2, InSyncFacts
<1> QED
  BY <1>1, <1>2, <1>4, <1>5, <1>8, <1>9, TurnIInv

(* White space that is read without a trace in the buffer.                   *)
LEMMA SpaceMeant ==
  ASSUME NEW q \in ReaderRecord, NEW s, ReaderOK(q, s), InSync(s), canRead(s), Rune(s) \in Spaces,
         q.mode \notin Quoted, NEW r, r.mode = q.mode, r.first = q.first, r.buffer = q.buffer
  PROVE  BufferMeant(r, readCharacter(s))
<1>1. PICK t : t = readCharacter(s)
  OBVIOUS
<1>2. t.position = s.position + 1 /\ t.source = s.source /\ t.length = s.length
  BY <1>1, ReadInSync
<1>3. Rune(s) # "\\"
  BY LexerAssumption DEF Punctuation
<1>4. BufferMeant(q, s) /\ q.first + Opening(q.mode) <= s.position
  BY DEF ReaderOK, FirstFits
<1>5. ASSUME NEW e \in t.position..t.length
      PROVE  LET b == r.first + Opening(r.mode)
                 from == MeaningFrom(SubSeq(t.source, b + 1, e), r.mode \in Quoted)
             IN from[1] = r.buffer \o from[(t.position - b) + 1]
  <2>1. PICK b \in Nat : b = q.first + Opening(q.mode)
    BY OpeningType
  <2>2. PICK from : from = MeaningFrom(SubSeq(s.source, b + 1, e), q.mode \in Quoted)
    OBVIOUS
  <2>3. PICK i : i = (s.position - b) + 1
    OBVIOUS
  <2>4. e \in (s.position + 1)..s.length
    BY <1>2
  <2>5. from[1] = q.buffer \o from[i] /\ from[i] = from[i + 1]
    BY <1>3, <1>4, <2>1, <2>2, <2>3, <2>4, MeantNext
  <2>6. (t.position - b) + 1 = i + 1
    BY <1>2, <2>3, InSyncFacts
  <2> QED
    BY <1>2, <2>1, <2>2, <2>5, <2>6
<1> QED
  BY <1>1, <1>5 DEF BufferMeant

(* White space ends the text and is cut off again.                           *)
LEMMA BreakAtSpaceIInv == LexIInv /\ BreakAtSpace => LexIInv'
<1> SUFFICES ASSUME LexIInv, BreakAtSpace PROVE LexIInv'
  OBVIOUS
<1>1. status = "reading" /\ reader # NoReader /\ ~reader.finished /\ canRead(stream)
      /\ Character \in Spaces /\ reader.mode \notin Quoted
  BY DEF BreakAtSpace, Scanning, Breaks
<1>2. /\ reader \in ReaderRecord /\ ReaderOK(reader, stream) /\ InSync(stream)
      /\ ~reader.conditioned /\ ~reader.trim
  BY <1>1, ScanFacts
<1>3. PICK t : t = Second
  OBVIOUS
<1>4. /\ InSync(t) /\ t.position = stream.position + 1 /\ t.sourceString = stream.sourceString
      /\ t.source = stream.source /\ t.length = stream.length /\ stream.strPosition < t.strPosition
  BY <1>1, <1>2, <1>3, ReadInSync DEF Second
<1>5. PICK r : r = [reader EXCEPT !.conditioned = TRUE, !.trim = TRUE, !.reuse = Reusable, !.finished = TRUE]
  OBVIOUS
<1>6. Turn(r, t)
  BY <1>3, <1>5 DEF BreakAtSpace
<1>7. Reusable \in BOOLEAN
  BY <1>2 DEF Reusable, ReaderRecord
<1>8. /\ r \in ReaderRecord /\ r.mode = reader.mode /\ r.first = reader.first /\ r.start = reader.start
      /\ r.buffer = reader.buffer /\ r.reuse = Reusable /\ r.trim /\ r.conditioned /\ r.finished
  BY <1>2, <1>5, <1>7 DEF ReaderRecord
<1>9. BufferMeant(r, t)
  BY <1>1, <1>2, <1>3, <1>8, SpaceMeant DEF Character, Second
<1>10. ASSUME r.reuse PROVE CutOut(r, t) = r.buffer
  <2>1. reader.reuse /\ Character \notin DOMAIN Encoding \ { RuneSelf }
    BY <1>8, <1>10 DEF Reusable, International
  <2>2. CutOut(reader, stream) = reader.buffer /\ reader.start <= stream.strPosition
    BY <1>2, <2>1 DEF ReaderOK
  <2>3. t.strPosition - 1 = stream.strPosition
    BY <1>1, <1>2, <1>3, <2>1, <2>2, CutNext DEF Character, Second
  <2>4. stream.strPosition - 0 = stream.strPosition
    BY <1>2, InSyncFacts
  <2> QED
    BY <1>2, <1>4, <1>8, <2>2, <2>3, <2>4 DEF CutOut
<1>11. Character # "x"
  BY <1>1, LexerAssumption
<1>12. stream.position <= t.position /\ stream.strPosition <= t.strPosition
  BY <1>2, <1>4, InSyncFacts
<1>13. ReaderOK(r, t)
  BY <1>1, <1>2, <1>4, <1>8, <1>9, <1>10, <1>11, <1>12, AdvancedOK DEF Character
<1> QED
  BY <1>1, <1>4, <1>6, <1>8, <1>12, <1>13, TurnIInv

LEMMA SkipInsideIInv == LexIInv /\ SkipInside => LexIInv'
<1> SUFFICES ASSUME LexIInv, SkipInside PROVE LexIInv'
  OBVIOUS
<1>1. status = "reading" /\ reader # NoReader /\ ~reader.finished /\ canRead(stream)
      /\ Character \in Spaces /\ reader.mode \notin Quoted
  BY DEF SkipInside, Scanning, Skips
<1>2. /\ reader \in ReaderRecord /\ ReaderOK(reader, stream) /\ InSync(stream)
      /\ ~reader.conditioned /\ ~reader.trim
  BY <1>1, ScanFacts
<1>3. PICK t : t = Second
  OBVIOUS
<1>4. /\ InSync(t) /\ t.position = stream.position + 1
      /\ t.source = stream.source /\ t.length = stream.length /\ stream.strPosition < t.strPosition
  BY <1>1, <1>2, <1>3, ReadInSync DEF Second
<1>5. PICK r : r = [reader EXCEPT !.reuse = FALSE]
  OBVIOUS
<1>6. Turn(r, t)
  BY <1>3, <1>5 DEF SkipInside
<1>7. /\ r \in ReaderRecord /\ r.mode = reader.mode /\ r.first = reader.first /\ r.start = reader.start
      /\ r.buffer = reader.buffer /\ ~r.reuse /\ r.trim = reader.trim
      /\ r.conditioned = reader.conditioned /\ r.finished = reader.finished
  BY <1>2, <1>5 DEF ReaderRecord
<1>8. BufferMeant(r, t)
  BY <1>1, <1>2, <1>3, <1>7, SpaceMeant DEF Character, Second
<1>9. Character # "x"
  BY <1>1, LexerAssumption
<1>10. stream.position <= t.position /\ stream.strPosition <= t.strPosition
  BY <1>2, <1>4, InSyncFacts
<1>11. ReaderOK(r, t)
  BY <1>1, <1>2, <1>4, <1>7, <1>8, <1>9, <1>10, AdvancedOK DEF Character
<1> QED
  BY <1>1, <1>4, <1>6, <1>7, <1>10, <1>11, TurnIInv

(* A backslash and the character it escapes.                                 *)
LEMMA ReadEscapedIInv == LexIInv /\ ReadEscaped => LexIInv'
<1> SUFFICES ASSUME LexIInv, ReadEscaped PROVE LexIInv'
  OBVIOUS
<1>1. status = "reading" /\ reader # NoReader /\ ~reader.finished /\ canRead(stream) /\ Character = "\\"
      /\ canRead(Second)
  BY DEF ReadEscaped, Scanning
<1>2. /\ reader \in ReaderRecord /\ ReaderOK(reader, stream) /\ InSync(stream)
      /\ reader.first + Opening(reader.mode) <= stream.position /\ ~reader.conditioned /\ ~reader.trim
  BY <1>1, ScanFacts
<1>3. PICK u : u = Second
  OBVIOUS
<1>4. /\ InSync(u) /\ u.position = stream.position + 1 /\ u.source = stream.source
      /\ u.length = stream.length /\ stream.strPosition < u.strPosition
  BY <1>1, <1>2, <1>3, ReadInSync DEF Second
<1>5. PICK t : t = readCharacter(u)
  OBVIOUS
<1>6. /\ InSync(t) /\ t.position = u.position + 1 /\ t.source = u.source
      /\ t.length = u.length /\ u.strPosition < t.strPosition /\ Rune(u) \in Runes
  BY <1>1, <1>3, <1>4, <1>5, ReadInSync
<1>7. PICK code \in Seq(Bytes) : code = Encode(Rune(u))
  BY <1>6, EncodeType
<1>8. PICK buffer \in Seq(Bytes) : buffer = reader.buffer
  BY <1>2, OpeningType
<1>9. PICK longer \in Seq(Bytes) : longer = buffer \o code
  BY ConcatProperties
<1>10. PICK r : r = [reader EXCEPT !.buffer = longer, !.reuse = FALSE]
  OBVIOUS
<1>11. Turn(r, t)
  BY <1>3, <1>5, <1>7, <1>8, <1>9, <1>10 DEF ReadEscaped
<1>12. /\ r \in ReaderRecord /\ r.mode = reader.mode /\ r.first = reader.first /\ r.start = reader.start
       /\ r.buffer = longer /\ ~r.reuse /\ r.trim = reader.trim
       /\ r.conditioned = reader.conditioned /\ r.finished = reader.finished
  BY <1>2, <1>10 DEF ReaderRecord
<1>13. BufferMeant(r, t)
  <2>1. ASSUME NEW e \in t.position..t.length
        PROVE  LET b == r.first + Opening(r.mode)
                   from == MeaningFrom(SubSeq(t.source, b + 1, e), r.mode \in Quoted)
               IN from[1] = r.buffer \o from[(t.position - b) + 1]
    <3>1. PICK b \in Nat : b = reader.first + Opening(reader.mode)
      BY <1>2, OpeningType
    <3>2. PICK from : from = MeaningFrom(SubSeq(stream.source, b + 1, e), reader.mode \in Quoted)
      OBVIOUS
    <3>3. PICK i : i = (stream.position - b) + 1
      OBVIOUS
    <3>4. PICK at \in Nat : at = stream.position
      BY <1>2, InSyncFacts
    <3>5. e \in (at + 1)..stream.length /\ at + 1 # e
      BY <1>4, <1>6, <3>4
    <3>6. BufferMeant(reader, stream)
      BY <1>2 DEF ReaderOK
    <3>7. /\ from[1] = reader.buffer \o from[i] /\ from[i + 2] \in Seq(Bytes)
          /\ Rune(stream) = "\\" /\ at + 1 # e => from[i] = Encode(stream.source[at + 2]) \o from[i + 2]
      BY <1>1, <1>2, <3>1, <3>2, <3>3, <3>4, <3>5, <3>6, MeantNext
    <3>8. Rune(u) = stream.source[at + 2]
      <4>1. (at + 1) + 1 = at + 2
        OBVIOUS
      <4> QED
        BY <1>4, <3>4, <4>1 DEF Rune
    <3>9. from[i] = code \o from[i + 2]
      BY <1>1, <1>7, <3>5, <3>7, <3>8 DEF Character
    <3>10. PICK rest \in Seq(Bytes) : rest = from[i + 2]
      BY <3>7
    <3>11. (buffer \o code) \o rest = buffer \o (code \o rest)
      BY JoinedThrice, Zenon
    <3>12. from[1] = longer \o rest
      BY <1>8, <1>9, <3>7, <3>9, <3>10, <3>11
    <3>13. (t.position - b) + 1 = i + 2
      <4>1. u.position = at + 1 /\ t.position = u.position + 1 /\ i = (at - b) + 1
        BY <1>4, <1>6, <3>3, <3>4
      <4>2. t.position = at + 2
        BY <4>1
      <4> QED
        BY <4>1, <4>2
    <3> QED
      BY <1>4, <1>6, <1>12, <3>1, <3>2, <3>10, <3>12, <3>13
  <2> QED
    BY <2>1 DEF BufferMeant
<1>14. stream.position <= t.position /\ stream.strPosition <= t.strPosition
       /\ t.position = stream.position + 2
  BY <1>2, <1>4, <1>6, InSyncFacts
<1>15. Character # "x"
  BY <1>1
<1>16. ReaderOK(r, t)
  BY <1>1, <1>2, <1>4, <1>6, <1>12, <1>13, <1>14, <1>15, AdvancedOK DEF Character
<1> QED
  BY <1>1, <1>4, <1>6, <1>11, <1>12, <1>14, <1>16, TurnIInv

(* A backslash that ends the source.                                         *)
LEMMA ReadIncompleteIInv == LexIInv /\ ReadIncomplete => LexIInv'
<1> SUFFICES ASSUME LexIInv, ReadIncomplete PROVE LexIInv'
  OBVIOUS
<1>1. status = "reading" /\ reader # NoReader /\ ~reader.finished /\ canRead(stream) /\ Character = "\\"
      /\ ~canRead(Second)
  BY DEF ReadIncomplete, Scanning
<1>2. /\ reader \in ReaderRecord /\ ReaderOK(reader, stream) /\ InSync(stream)
      /\ reader.first + Opening(reader.mode) <= stream.position /\ ~reader.conditioned /\ ~reader.trim
  BY <1>1, ScanFacts
<1>3. PICK t : t = Second
  OBVIOUS
<1>4. /\ InSync(t) /\ t.position = stream.position + 1 /\ t.source = stream.source
      /\ t.length = stream.length /\ stream.strPosition < t.strPosition
  BY <1>1, <1>2, <1>3, ReadInSync DEF Second
<1>5. PICK r : r = [reader EXCEPT !.reuse = FALSE, !.finished = TRUE]
  OBVIOUS
<1>6. Turn(r, t)
  BY <1>3, <1>5 DEF ReadIncomplete
<1>7. /\ r \in ReaderRecord /\ r.mode = reader.mode /\ r.first = reader.first /\ r.start = reader.start
      /\ r.buffer = reader.buffer /\ ~r.reuse /\ r.trim = reader.trim
      /\ r.conditioned = reader.conditioned /\ r.finished
  BY <1>2, <1>5 DEF ReaderRecord
<1>8. BufferMeant(r, t)
  <2>1. ASSUME NEW e \in t.position..t.length
        PROVE  LET b == r.first + Opening(r.mode)
                   from == MeaningFrom(SubSeq(t.source, b + 1, e), r.mode \in Quoted)
               IN from[1] = r.buffer \o from[(t.position - b) + 1]
    <3>1. PICK b \in Nat : b = reader.first + Opening(reader.mode)
      BY <1>2, OpeningType
    <3>2. PICK from : from = MeaningFrom(SubSeq(stream.source, b + 1, e), reader.mode \in Quoted)
      OBVIOUS
    <3>3. PICK i : i = (stream.position - b) + 1
      OBVIOUS
    <3>4. e \in (stream.position + 1)..stream.length /\ stream.position + 1 = e /\ t.position = e
      BY <1>1, <1>2, <1>3, <1>4, InSyncFacts DEF canRead
    <3>5. BufferMeant(reader, stream)
      BY <1>2 DEF ReaderOK
    <3>6. from[1] = reader.buffer \o from[i] /\ from[(e - b) + 1] = << >>
          /\ (Rune(stream) = "\\" /\ stream.position + 1 = e => from[i] = << >>)
      BY <1>1, <1>2, <3>1, <3>2, <3>3, <3>4, <3>5, MeantNext
    <3>7. from[i] = << >>
      BY <1>1, <3>4, <3>6 DEF Character
    <3> QED
      BY <1>4, <1>7, <3>1, <3>2, <3>4, <3>6, <3>7
  <2> QED
    BY <2>1 DEF BufferMeant
<1>9. stream.position <= t.position /\ stream.strPosition <= t.strPosition
  BY <1>2, <1>4, InSyncFacts
<1>10. Character # "x"
  BY <1>1
<1>11. ReaderOK(r, t)
  BY <1>2, <1>4, <1>7, <1>8, <1>9, <1>10, AdvancedOK DEF Character
<1> QED
  BY <1>1, <1>4, <1>6, <1>7, <1>9, <1>11, TurnIInv

-----------------------------------------------------------------------------
(***************************************************************************)
(* Tokens begin                                                            *)
(***************************************************************************)

LEMMA BeginFacts ==
  ASSUME LexIInv, Begins
  PROVE  /\ status = "reading" /\ reader = NoReader /\ InSync(stream) /\ canRead(stream)
         /\ First = stream.source[stream.position + 1] /\ First \notin Spaces
         /\ stream.position \in Nat /\ stream.position < stream.length /\ Beginning = stream.position
         /\ SpaceBetween(tokens, stream.source, stream.position)
         /\ InSync(Second) /\ Second.position = stream.position + 1
         /\ Second.source = stream.source /\ Second.length = stream.length
         /\ rewind(Second) = stream
<1>1. status = "reading" /\ reader = NoReader /\ canRead(stream) /\ First \notin Spaces
  BY DEF Begins, Reading, First
<1>2. InSync(stream) /\ SpaceBetween(tokens, stream.source, Beginning)
  BY <1>1 DEF LexIInv, SourceOK
<1>3. Beginning = stream.position
  BY <1>1 DEF Beginning
<1>4. /\ InSync(Second) /\ Second.position = stream.position + 1
      /\ Second.source = stream.source /\ Second.length = stream.length
      /\ rewind(Second) = stream
  BY <1>1, <1>2, ReadInSync DEF Second
<1>5. stream.position \in Nat /\ stream.position < stream.length
  BY <1>1, <1>2, InSyncFacts DEF canRead
<1>6. First = stream.source[stream.position + 1]
  BY DEF First, Rune
<1> QED
  BY <1>1, <1>2, <1>3, <1>4, <1>5, <1>6

(* What begins a text says how it is read.                                   *)
OpensAs(mode, first, next) ==
  /\ mode \in Quoted => first = Opener(mode)
  /\ mode \notin Quoted => first \notin { "[", "'", "\"" } /\ (mode # "symbol" => first # "\\")
  /\ mode \in { "numeric", "name" } => Goes(mode, first)
  /\ mode = "hex" => first = "0" /\ next = "x"
  /\ mode \in { "name", "symbol" } => first # "0"

(* A text begins after what opens it.                                        *)
LEMMA BegunOK ==
  ASSUME LexIInv, Begins, NEW mode \in Modes, NEW s, InSync(s), s.source = stream.source,
         s.length = stream.length, s.position = stream.position + Opening(mode),
         OpensAs(mode, First, stream.source[stream.position + 2]), StartReader(mode, s)
  PROVE  LexIInv'
<1>1. PICK r : r = Reader(mode, stream.position, s)
  OBVIOUS
<1>2. PICK first \in Nat : first = stream.position /\ first < stream.length
  BY BeginFacts
<1>3. PICK start \in Nat : start = s.strPosition /\ start <= Len(s.sourceString)
  BY InSyncFacts
<1>4. /\ r \in ReaderRecord /\ r.mode = mode /\ r.first = first /\ r.start = start /\ r.buffer = << >>
      /\ r.reuse = TRUE /\ ~r.trim /\ ~r.conditioned /\ ~r.finished
  BY <1>1, <1>2, <1>3 DEF Reader, ReaderRecord
<1>5. PICK open \in 0..2 : open = Opening(mode) /\ (mode \notin Quoted \cup { "hex" } => open = 0)
  <2>1. Opening(mode) \in 0..2
    BY <1>4, OpeningType
  <2>2. mode \notin Quoted \cup { "hex" } => Opening(mode) = 0
    BY DEF Opening
  <2> QED
    BY <2>1, <2>2
<1>6. /\ First = s.source[first + 1] /\ First \notin Spaces
  BY <1>2, BeginFacts
<1>7. FirstFits(r, s)
  <2>1. r.first + Opening(r.mode) <= s.position /\ r.first < s.length
    BY <1>2, <1>4, <1>5
  <2>2. mode = "numeric" => ~(s.position >= first + 2)
    BY <1>2, <1>5 DEF Quoted
  <2> QED
    BY <1>2, <1>4, <1>6, <2>1, <2>2 DEF FirstFits, OpensAs
<1>8. EndFits(r, s)
  BY <1>4 DEF EndFits
<1>9. CutOut(r, s) = r.buffer
  <2>1. start - 0 = start /\ start + 1 \in Int /\ start \in Int /\ start < start + 1
    OBVIOUS
  <2>2. SubSeq(s.sourceString, start + 1, start) = << >>
    BY <2>1, SubSeqEmpty
  <2> QED
    BY <1>3, <1>4, <2>1, <2>2 DEF CutOut
<1>10. BufferMeant(r, s)
  <2>1. ASSUME NEW e \in s.position..s.length
        PROVE  LET b == r.first + Opening(r.mode)
                   from == MeaningFrom(SubSeq(s.source, b + 1, e), r.mode \in Quoted)
               IN from[1] = r.buffer \o from[(s.position - b) + 1]
    <3>1. PICK b \in Nat : b = r.first + Opening(r.mode) /\ b = s.position
      BY <1>2, <1>4, <1>5
    <3>2. PICK source \in Seq(Runes) : source = s.source /\ Len(source) = s.length
      BY InSyncFacts
    <3>3. PICK body \in Seq(Runes) : body = SubSeq(source, b + 1, e)
      <4>1. CASE b + 1 <= e
        <5>1. b + 1 \in 1..Len(source) /\ e \in (b + 1)..Len(source)
          BY <3>1, <3>2, <4>1
        <5> QED
          BY <5>1, Part
      <4>2. CASE ~(b + 1 <= e)
        <5>1. b + 1 \in Int /\ e \in Int /\ e < b + 1
          BY <4>2
        <5>2. SubSeq(source, b + 1, e) = << >>
          BY <5>1, SubSeqEmpty
        <5>3. << >> \in Seq(Runes)
          OBVIOUS
        <5> QED
          BY <5>2, <5>3
      <4> QED
        BY <4>1, <4>2
    <3>4. PICK from : from = MeaningFrom(body, r.mode \in Quoted)
      OBVIOUS
    <3>5. from[1] \in Seq(Bytes)
      <4>1. (r.mode \in Quoted) \in BOOLEAN
        OBVIOUS
      <4>2. 1 \in 1..(Len(body) + 2)
        OBVIOUS
      <4> QED
        BY <3>4, <4>1, <4>2, MeaningFacts
    <3>6. from[1] = << >> \o from[1]
      BY <3>5, ConcatEmptySeq
    <3>7. (s.position - b) + 1 = 1
      BY <3>1
    <3> QED
      BY <1>4, <3>1, <3>2, <3>3, <3>4, <3>6, <3>7
  <2> QED
    BY <2>1 DEF BufferMeant
<1>11. ReaderOK(r, s)
  BY <1>3, <1>4, <1>7, <1>8, <1>9, <1>10 DEF ReaderOK
<1>12. reader' = r /\ stream' = s /\ UNCHANGED <<pooled, tokens, status>>
  BY <1>1 DEF StartReader
<1>13. Beginning' = stream.position
  <2>1. r # NoReader
    BY <1>4, OpeningType
  <2> QED
    BY <1>2, <1>4, <1>12, <2>1 DEF Beginning
<1>14. stream.position <= s.position
  BY <1>2, <1>5
<1> QED
  BY <1>4, <1>11, <1>12, <1>13, <1>14, BeginFacts, MovedIInv

LEMMA StartHexIInv == LexIInv /\ StartHex => LexIInv'
<1> SUFFICES ASSUME LexIInv, StartHex PROVE LexIInv'
  OBVIOUS
<1>1. Begins /\ First = "0" /\ canRead(Second) /\ Rune(Second) = "x"
  BY DEF StartHex, IsHex
<1>2. PICK s : s = readCharacter(Second)
  OBVIOUS
<1>3. InSync(s) /\ s.position = Second.position + 1 /\ s.source = Second.source /\ s.length = Second.length
  BY <1>1, <1>2, BeginFacts, ReadInSync
<1>4. s.position = stream.position + Opening("hex") /\ Rune(Second) = stream.source[stream.position + 2]
  <2>1. PICK at \in Nat : at = stream.position
    BY <1>1, BeginFacts
  <2>2. Second.position = at + 1 /\ Second.source = stream.source
    BY <1>1, <2>1, BeginFacts
  <2>3. s.position = at + 2
    BY <1>3, <2>2
  <2>4. Rune(Second) = stream.source[(at + 1) + 1]
    BY <2>2 DEF Rune
  <2>5. (at + 1) + 1 = at + 2
    OBVIOUS
  <2> QED
    BY <2>1, <2>3, <2>4, <2>5 DEF Opening
<1>5. "hex" \in Modes /\ "hex" \notin Quoted
  BY DEF Modes, Quoted
<1>6. OpensAs("hex", First, stream.source[stream.position + 2])
  BY <1>1, <1>4, <1>5 DEF OpensAs
<1>7. StartReader("hex", s)
  BY <1>2 DEF StartHex
<1> QED
  BY <1>1, <1>3, <1>4, <1>5, <1>6, <1>7, BeginFacts, BegunOK

(* The looks ahead of readToken are taken back.                              *)
LEMMA StartNumericIInv == LexIInv /\ StartNumeric => LexIInv'
<1> SUFFICES ASSUME LexIInv, StartNumeric PROVE LexIInv'
  OBVIOUS
<1>1. Begins /\ isNumeric(First)
  BY DEF StartNumeric
<1>2. rewind(Second) = stream /\ InSync(stream) /\ stream.position \in Nat
  BY <1>1, BeginFacts
<1>3. canRead(Second) => rewind(readCharacter(Second)) = Second
  BY <1>1, BeginFacts, ReadInSync
<1>4. (IF First = "0" /\ canRead(Second) THEN rewind(rewind(readCharacter(Second))) ELSE rewind(Second)) = stream
  BY <1>2, <1>3
<1>5. StartReader("numeric", stream)
  BY <1>4 DEF StartNumeric
<1>6. "numeric" \in Modes /\ "numeric" \notin Quoted /\ Opening("numeric") = 0
  BY DEF Modes, Quoted, Opening
<1>7. OpensAs("numeric", First, stream.source[stream.position + 2])
  <2>1. Goes("numeric", First)
    BY <1>1 DEF Goes
  <2>2. First \notin { "[", "'", "\"", "\\" }
    BY <1>1, LexerAssumption DEF isNumeric, Punctuation
  <2> QED
    BY <1>6, <2>1, <2>2 DEF OpensAs
<1>8. stream.position = stream.position + Opening("numeric")
  BY <1>2, <1>6
<1> QED
  BY <1>1, <1>2, <1>5, <1>6, <1>7, <1>8, BegunOK

LEMMA StartNameIInv == LexIInv /\ StartName => LexIInv'
<1> SUFFICES ASSUME LexIInv, StartName PROVE LexIInv'
  OBVIOUS
<1>1. Begins /\ First \in Letters
  BY DEF StartName
<1>2. rewind(Second) = stream /\ InSync(stream) /\ stream.position \in Nat
  BY <1>1, BeginFacts
<1>3. StartReader("name", stream)
  BY <1>2 DEF StartName
<1>4. "name" \in Modes /\ "name" \notin Quoted /\ Opening("name") = 0
  BY DEF Modes, Quoted, Opening
<1>5. OpensAs("name", First, stream.source[stream.position + 2])
  <2>1. Goes("name", First)
    BY <1>1 DEF Goes, isVariableName
  <2>2. First \notin { "[", "'", "\"", "\\", "0" }
    BY <1>1, LexerAssumption DEF Punctuation
  <2> QED
    BY <1>4, <2>1, <2>2 DEF OpensAs
<1>6. stream.position = stream.position + Opening("name")
  BY <1>2, <1>4
<1> QED
  BY <1>1, <1>2, <1>3, <1>4, <1>5, <1>6, BegunOK

LEMMA StartSymbolIInv == LexIInv /\ StartSymbol => LexIInv'
<1> SUFFICES ASSUME LexIInv, StartSymbol PROVE LexIInv'
  OBVIOUS
<1>1. Begins /\ ~isNumeric(First) /\ First \notin { "[", "'", "\"" }
  BY DEF StartSymbol
<1>2. rewind(Second) = stream /\ InSync(stream) /\ stream.position \in Nat
  BY <1>1, BeginFacts
<1>3. StartReader("symbol", stream)
  BY <1>2 DEF StartSymbol
<1>4. "symbol" \in Modes /\ "symbol" \notin Quoted /\ Opening("symbol") = 0
  BY DEF Modes, Quoted, Opening
<1>5. OpensAs("symbol", First, stream.source[stream.position + 2])
  <2>1. First # "0"
    BY <1>1, LexerAssumption DEF isNumeric
  <2> QED
    BY <1>1, <1>4, <2>1 DEF OpensAs
<1>6. stream.position = stream.position + Opening("symbol")
  BY <1>2, <1>4
<1> QED
  BY <1>1, <1>2, <1>3, <1>4, <1>5, <1>6, BegunOK

LEMMA StartQuotedIInv == LexIInv /\ StartQuoted => LexIInv'
<1> SUFFICES ASSUME LexIInv, StartQuoted PROVE LexIInv'
  OBVIOUS
<1>1. Begins /\ First \in { "[", "'", "\"" }
  BY DEF StartQuoted, isNotQuote
<1>2. PICK mode : mode = IF First = "[" THEN "bracket" ELSE First
  OBVIOUS
<1>3. mode \in Quoted /\ First = Opener(mode)
  BY <1>1, <1>2 DEF Quoted, Opener
<1>4. mode \in Modes /\ Opening(mode) = 1 /\ mode # "hex" /\ mode \notin { "numeric", "name", "symbol" }
  BY <1>3 DEF Modes, Quoted, Opening
<1>5. StartReader(mode, Second)
  BY <1>2 DEF StartQuoted
<1>6. OpensAs(mode, First, stream.source[stream.position + 2])
  BY <1>3, <1>4 DEF OpensAs
<1>7. InSync(Second) /\ Second.source = stream.source /\ Second.length = stream.length
      /\ Second.position = stream.position + Opening(mode)
  BY <1>1, <1>4, BeginFacts
<1> QED
  BY <1>1, <1>4, <1>5, <1>6, <1>7, BegunOK

-----------------------------------------------------------------------------
(***************************************************************************)
(* Tokens end                                                              *)
(***************************************************************************)

(* The text is what is in the buffer, and means what was read.               *)
LEMMA EndFacts ==
  ASSUME LexIInv, NEW mode, Ends(mode)
  PROVE  /\ status = "reading" /\ reader # NoReader /\ reader.finished /\ reader.mode = mode
         /\ reader \in ReaderRecord /\ ReaderOK(reader, stream) /\ InSync(stream)
         /\ Beginning = reader.first /\ reader.first \in Nat /\ stream.position \in Nat
         /\ reader.first + Opening(mode) <= stream.position
         /\ Text \in Seq(Bytes)
         /\ stream.position = reader.first + Opening(mode) => Text = << >>
         /\ LET b == reader.first + Opening(mode)
            IN MeaningFrom(SubSeq(stream.source, b + 1, stream.position), mode \in Quoted)[1] = Text
<1>1. status = "reading" /\ reader # NoReader /\ reader.finished /\ reader.mode = mode
  BY DEF Ends
<1>2. /\ reader \in ReaderRecord /\ ReaderOK(reader, stream) /\ InSync(stream)
      /\ Beginning = reader.first /\ reader.first + Opening(mode) <= stream.position
  BY <1>1, ScanFacts
<1>3. PICK buffer \in Seq(Bytes) : buffer = reader.buffer
  BY <1>2, OpeningType
<1>4. Text = buffer
  <2>1. CASE reader.reuse
    <3>1. CutOut(reader, stream) = buffer
      BY <1>2, <1>3, <2>1 DEF ReaderOK
    <3>2. Text = CutOut(reader, stream)
      BY <2>1 DEF Text, ReusedText, CutOut
    <3> QED
      BY <3>1, <3>2
  <2>2. CASE ~reader.reuse
    BY <1>3, <2>2 DEF Text
  <2> QED
    BY <2>1, <2>2
<1>5. PICK b \in Nat : b = reader.first + Opening(mode)
  BY <1>1, <1>2, OpeningType
<1>6. PICK at \in b..stream.length : at = stream.position
  BY <1>2, <1>5, InSyncFacts
<1>7. PICK source \in Seq(Runes) : source = stream.source /\ Len(source) = stream.length
  BY <1>2, InSyncFacts
<1>8. PICK body \in Seq(Runes) : body = SubSeq(source, b + 1, at) /\ Len(body) = at - b
  <2>1. CASE b + 1 <= at
    <3>1. b + 1 \in 1..Len(source) /\ at \in (b + 1)..Len(source) /\ (at - (b + 1)) + 1 = at - b
      BY <1>6, <1>7, <2>1
    <3>2. /\ SubSeq(source, b + 1, at) \in Seq(Runes)
          /\ Len(SubSeq(source, b + 1, at)) = (at - (b + 1)) + 1
      BY <3>1, Part
    <3> QED
      BY <3>1, <3>2
  <2>2. CASE ~(b + 1 <= at)
    <3>1. b + 1 \in Int /\ at \in Int /\ at < b + 1 /\ at - b = 0
      BY <1>6, <2>2
    <3>2. SubSeq(source, b + 1, at) = << >> /\ << >> \in Seq(Runes) /\ Len(<< >>) = 0
      BY <3>1, SubSeqEmpty
    <3> QED
      BY <3>1, <3>2
  <2> QED
    BY <2>1, <2>2
<1>9. PICK from : from = MeaningFrom(body, mode \in Quoted)
  OBVIOUS
<1>10. from[1] = buffer \o from[(at - b) + 1]
  <2>1. at \in stream.position..stream.length
    BY <1>6
  <2>2. BufferMeant(reader, stream)
    BY <1>2 DEF ReaderOK
  <2> QED
    BY <1>1, <1>3, <1>5, <1>6, <1>7, <1>8, <1>9, <2>1, <2>2 DEF BufferMeant
<1>11. from[(at - b) + 1] = << >>
  <2>1. (mode \in Quoted) \in BOOLEAN
    OBVIOUS
  <2> QED
    BY <1>8, <1>9, <2>1, MeaningFacts
<1>12. from[1] = buffer
  BY <1>3, <1>10, <1>11, ConcatEmptySeq
<1>13. stream.position = reader.first + Opening(mode) => buffer = << >>
  BY <1>1, <1>2, <1>3 DEF ReaderOK
<1>14. reader.first \in Nat /\ stream.position \in Nat
  BY <1>2, OpeningType, InSyncFacts
<1>15. MeaningFrom(SubSeq(stream.source, b + 1, stream.position), mode \in Quoted)[1] = Text
  BY <1>4, <1>6, <1>7, <1>8, <1>9, <1>12
<1> QED
  BY <1>1, <1>2, <1>3, <1>4, <1>5, <1>13, <1>14, <1>15

(* Whether a token is between brackets or quotes.                            *)
Delimited(runes) == runes[1] \in { "[", "'", "\"" }

(* The meaning of a token that is no literal.                                *)
LEMMA PlainMeaning ==
  ASSUME NEW runes, ~Delimited(runes)
  PROVE  /\ Len(runes) > 2 /\ runes[1] = "0" /\ runes[2] = "x" =>
              Meaning(runes) = MeaningFrom(SubSeq(runes, 3, Len(runes)), FALSE)[1]
         /\ ~(Len(runes) > 2 /\ runes[1] = "0" /\ runes[2] = "x") =>
              Meaning(runes) = MeaningFrom(runes, FALSE)[1]
<1>1. PICK quoted \in BOOLEAN : quoted <=> runes[1] \in { "[", "'", "\"" }
  <2>1. FALSE \in BOOLEAN /\ (FALSE <=> runes[1] \in { "[", "'", "\"" })
    BY DEF Delimited
  <2> QED
    BY <2>1
<1>2. quoted = FALSE
  BY <1>1 DEF Delimited
<1>3. \A body : MeaningFrom(body, runes[1] \in { "[", "'", "\"" }) = MeaningFrom(body, quoted)
  BY <1>1
<1>4. CASE Len(runes) > 2 /\ runes[1] = "0" /\ runes[2] = "x"
  <2>1. Meaning(runes) = MeaningFrom(SubSeq(runes, 3, Len(runes)), runes[1] \in { "[", "'", "\"" })[1]
    BY <1>4, Zenon DEF Meaning, Delimited
  <2> QED
    BY <1>2, <1>3, <1>4, <2>1
<1>5. CASE ~(Len(runes) > 2 /\ runes[1] = "0" /\ runes[2] = "x")
  <2>1. Meaning(runes) = MeaningFrom(runes, runes[1] \in { "[", "'", "\"" })[1]
    BY <1>5, Zenon DEF Meaning, Delimited
  <2> QED
    BY <1>2, <1>3, <1>5, <2>1
<1> QED
  BY <1>4, <1>5

(* A text that ends where the next character stands.                         *)
LEMMA PlainIInv ==
  ASSUME LexIInv, NEW mode, Ends(mode), mode \notin Quoted,
         stream.position # reader.first + Opening(mode),
         NEW kind \in TokenKinds \ { "UNKNOWN", "PATTERN" }, Emit(kind, Text, reader.first, stream)
  PROVE  LexIInv'
<1>1. PICK first \in Nat : first = reader.first /\ first = Beginning
  BY EndFacts
<1>2. PICK source \in Seq(Runes) : source = stream.source /\ Len(source) = stream.length
  BY EndFacts, InSyncFacts
<1>3. PICK open \in 0..2 : open = Opening(mode) /\ (mode = "hex" => open = 2) /\ (mode # "hex" => open = 0)
  BY DEF Opening
<1>4. PICK at \in (first + open + 1)..Len(source) : at = stream.position
  <2>1. PICK at \in Nat : at = stream.position
    BY EndFacts
  <2>2. at <= Len(source) /\ first + open <= at /\ at # first + open
    BY <1>1, <1>2, <1>3, <2>1, EndFacts, InSyncFacts
  <2> QED
    BY <2>1, <2>2
<1>5. PICK runes : runes = SubSeq(source, first + 1, at)
  OBVIOUS
<1>6. /\ runes \in Seq(Runes) /\ Len(runes) = at - first /\ runes[1] = source[first + 1]
      /\ at - first >= 2 => runes[2] = source[first + 2]
  <2>1. first + 1 \in 1..Len(source) /\ at \in (first + 1)..Len(source) /\ (at - (first + 1)) + 1 = at - first
    BY <1>3, <1>4
  <2>2. /\ runes \in Seq(Runes) /\ Len(runes) = at - first /\ runes[1] = source[first + 1]
        /\ \A k \in 1..(at - first) : runes[k] = source[((first + 1) + k) - 1]
    BY <1>5, <2>1, Part
  <2>3. at - first >= 2 => 2 \in 1..(at - first) /\ ((first + 1) + 2) - 1 = first + 2
    BY <2>1
  <2> QED
    BY <2>2, <2>3
<1>7. FirstFits(reader, stream) /\ reader.mode = mode /\ mode \in Modes
  BY EndFacts, OpeningType DEF ReaderOK
<1>8. ~Delimited(runes)
  BY <1>1, <1>2, <1>6, <1>7 DEF FirstFits, Delimited
<1>15. /\ mode = "hex" => source[first + 1] = "0" /\ source[first + 2] = "x"
       /\ mode \in { "name", "symbol" } => source[first + 1] # "0"
       /\ mode = "numeric" /\ source[first + 1] = "0" /\ at >= first + 2 => source[first + 2] # "x"
  BY <1>1, <1>2, <1>4, <1>7 DEF FirstFits
<1>9. MeaningFrom(SubSeq(source, (first + open) + 1, at), FALSE)[1] = Text
  <2>1. (mode \in Quoted) = FALSE
    OBVIOUS
  <2> QED
    BY <1>1, <1>2, <1>3, <1>4, <2>1, EndFacts
<1>10. Meaning(runes) = Text
  <2>1. CASE mode = "hex"
    <3>1. Len(runes) > 2 /\ runes[1] = "0" /\ runes[2] = "x"
      <4>1. at - first > 2
        BY <1>3, <1>4, <2>1
      <4> QED
        BY <1>6, <1>15, <2>1, <4>1
    <3>2. Meaning(runes) = MeaningFrom(SubSeq(runes, 3, Len(runes)), FALSE)[1]
      BY <1>8, <3>1, PlainMeaning, Zenon
    <3>3. SubSeq(runes, 3, Len(runes)) = SubSeq(source, (first + open) + 1, at)
      <4>1. /\ first + 1 \in 1..Len(source) /\ at \in 1..Len(source)
            /\ 3 \in 1..((at - (first + 1)) + 1) /\ Len(runes) \in 1..((at - (first + 1)) + 1)
            /\ ((first + 1) + 3) - 1 = (first + open) + 1 /\ ((first + 1) + Len(runes)) - 1 = at
        <5>1. Len(runes) = at - first /\ open = 2 /\ at \in (first + 3)..Len(source)
          BY <1>3, <1>4, <1>6, <2>1
        <5> QED
          BY <5>1
      <4> QED
        BY <1>5, <4>1, SubSeqOfSubSeq
    <3> QED
      BY <1>9, <3>2, <3>3
  <2>2. CASE mode # "hex"
    <3>1. ~(Len(runes) > 2 /\ runes[1] = "0" /\ runes[2] = "x")
      <4>1. ASSUME Len(runes) > 2, runes[1] = "0", runes[2] = "x" PROVE FALSE
        <5>1. mode \in { "numeric", "name", "symbol" }
          BY <1>7, <2>2 DEF Modes
        <5>2. source[first + 1] = "0" /\ source[first + 2] = "x" /\ at >= first + 2
          BY <1>6, <4>1
        <5> QED
          BY <1>15, <5>1, <5>2
      <4> QED
        BY <4>1
    <3>2. Meaning(runes) = MeaningFrom(runes, FALSE)[1]
      BY <1>8, <3>1, PlainMeaning, Zenon
    <3>3. (first + open) + 1 = first + 1
      BY <1>3, <2>2
    <3> QED
      BY <1>5, <1>9, <3>2, <3>3
  <2> QED
    BY <2>1, <2>2
<1>11. PICK token : token = [kind |-> kind, text |-> Text, first |-> first, last |-> at]
  OBVIOUS
<1>12. token.first = first /\ token.last = at /\ token.text = Text
  BY <1>11
<1>13. TokenWritten(token, source)
  BY <1>5, <1>6, <1>8, <1>10, <1>12 DEF TokenWritten, Delimited
<1>14. Beginning < stream.position /\ stream.position <= stream.position
  BY <1>1, <1>3, <1>4
<1> QED
  BY <1>1, <1>2, <1>4, <1>11, <1>13, <1>14, EndFacts, EmittedIInv

LEMMA QuotedMeaning ==
  ASSUME NEW runes, Delimited(runes)
  PROVE  Meaning(runes) = MeaningFrom(SubSeq(runes, 2, Len(runes) - 1), TRUE)[1]
<1>1. PICK quoted \in BOOLEAN : quoted <=> runes[1] \in { "[", "'", "\"" }
  <2>1. TRUE \in BOOLEAN /\ (TRUE <=> runes[1] \in { "[", "'", "\"" })
    BY DEF Delimited
  <2> QED
    BY <2>1
<1>2. quoted = TRUE
  BY <1>1 DEF Delimited
<1>3. \A body : MeaningFrom(body, runes[1] \in { "[", "'", "\"" }) = MeaningFrom(body, quoted)
  BY <1>1
<1>4. Meaning(runes) = MeaningFrom(SubSeq(runes, 2, Len(runes) - 1), runes[1] \in { "[", "'", "\"" })[1]
  BY Zenon DEF Meaning, Delimited
<1> QED
  BY <1>2, <1>3, <1>4

(* A literal that ends at its own terminator, which is skipped.              *)
LEMMA LiteralIInv ==
  ASSUME LexIInv, NEW mode \in Quoted, Ends(mode), reader.conditioned,
         NEW kind \in { "VARIABLE", "STRING", "TIME" }, Emit(kind, Text, reader.first, forward(stream))
  PROVE  LexIInv'
<1>1. PICK first \in Nat : first = reader.first /\ first = Beginning
  BY EndFacts
<1>2. PICK source \in Seq(Runes) : source = stream.source /\ Len(source) = stream.length
  BY EndFacts, InSyncFacts
<1>3. Opening(mode) = 1
  BY DEF Opening, Quoted
<1>4. canRead(stream) /\ Rune(stream) = Closing(Opener(mode))
  BY EndFacts DEF ReaderOK, EndFits
<1>5. PICK at \in (first + 1)..(Len(source) - 1) : at = stream.position
  <2>1. PICK at \in Nat : at = stream.position
    BY EndFacts
  <2>2. at < Len(source) /\ first + 1 <= at
    BY <1>1, <1>2, <1>3, <1>4, <2>1, EndFacts DEF canRead
  <2> QED
    BY <2>1, <2>2
<1>6. PICK s : s = forward(stream)
  OBVIOUS
<1>7. InSync(s) /\ s.position = at + 1 /\ s.source = source
  BY <1>2, <1>4, <1>5, <1>6, EndFacts, ReadInSync DEF forward
<1>8. PICK runes : runes = SubSeq(source, first + 1, at + 1)
  OBVIOUS
<1>9. runes \in Seq(Runes) /\ Len(runes) = (at - first) + 1 /\ runes[1] = source[first + 1]
  <2>1. first + 1 \in 1..Len(source) /\ at + 1 \in (first + 1)..Len(source)
        /\ ((at + 1) - (first + 1)) + 1 = (at - first) + 1
    BY <1>5
  <2>2. /\ runes \in Seq(Runes) /\ Len(runes) = ((at + 1) - (first + 1)) + 1 /\ runes[1] = source[first + 1]
    BY <1>8, <2>1, Part
  <2> QED
    BY <2>1, <2>2
<1>10. source[first + 1] = Opener(mode)
  BY <1>1, <1>2, EndFacts DEF ReaderOK, FirstFits
<1>11. Opener(mode) \in { "[", "'", "\"" }
  BY DEF Opener, Quoted
<1>12. Meaning(runes) = Text
  <2>1. Meaning(runes) = MeaningFrom(SubSeq(runes, 2, Len(runes) - 1), TRUE)[1]
    <3>1. Delimited(runes)
      BY <1>9, <1>10, <1>11 DEF Delimited
    <3> QED
      BY <3>1, QuotedMeaning, Zenon
  <2>2. SubSeq(runes, 2, Len(runes) - 1) = SubSeq(source, (first + 1) + 1, at)
    <3>1. /\ first + 1 \in 1..Len(source) /\ at + 1 \in 1..Len(source)
          /\ 2 \in 1..(((at + 1) - (first + 1)) + 1) /\ Len(runes) - 1 \in 1..(((at + 1) - (first + 1)) + 1)
          /\ ((first + 1) + 2) - 1 = (first + 1) + 1 /\ ((first + 1) + (Len(runes) - 1)) - 1 = at
      <4>1. PICK len \in Nat : len = Len(runes) /\ len = (at - first) + 1
        BY <1>5, <1>9
      <4>2. first + 1 \in 1..Len(source) /\ at + 1 \in 1..Len(source)
        BY <1>5
      <4>3. 2 \in 1..(((at + 1) - (first + 1)) + 1) /\ len - 1 \in 1..(((at + 1) - (first + 1)) + 1)
        <5>1. ((at + 1) - (first + 1)) + 1 = len /\ len > 1
          BY <1>5, <4>1
        <5> QED
          BY <4>1, <5>1
      <4>4. ((first + 1) + 2) - 1 = (first + 1) + 1 /\ ((first + 1) + (len - 1)) - 1 = at
        <5>1. at \in Int /\ len = (at - first) + 1
          BY <1>5, <4>1
        <5> QED
          BY <5>1
      <4> QED
        BY <4>1, <4>2, <4>3, <4>4
    <3> QED
      BY <1>8, <3>1, SubSeqOfSubSeq
  <2>3. MeaningFrom(SubSeq(source, (first + 1) + 1, at), mode \in Quoted)[1] = Text
    BY <1>1, <1>2, <1>3, <1>5, EndFacts
  <2>4. (mode \in Quoted) = TRUE
    OBVIOUS
  <2> QED
    BY <2>1, <2>2, <2>3, <2>4
<1>13. PICK token : token = [kind |-> kind, text |-> Text, first |-> first, last |-> at + 1]
  OBVIOUS
<1>14. token.first = first /\ token.last = at + 1 /\ token.text = Text /\ token.kind = kind
  BY <1>13
<1>15. source[at + 1] = Closing(source[first + 1])
  BY <1>2, <1>4, <1>5, <1>10 DEF Rune
<1>16. TokenWritten(token, source)
  <2>1. token.last > token.first + 1
    BY <1>5, <1>14
  <2> QED
    BY <1>8, <1>12, <1>14, <1>15, <2>1 DEF TokenWritten
<1>17. Beginning < s.position /\ stream.position <= s.position
  BY <1>1, <1>5, <1>7
<1>18. kind \in TokenKinds \ { "UNKNOWN", "PATTERN" }
  BY DEF TokenKinds
<1> QED
  BY <1>1, <1>2, <1>6, <1>7, <1>13, <1>16, <1>17, <1>18, EndFacts, EmittedIInv

(* A separator or a parenthesis is its own text.                             *)
LEMMA SingleIInv == LexIInv /\ Single => LexIInv'
<1> SUFFICES ASSUME LexIInv, Single PROVE LexIInv'
  OBVIOUS
<1>1. Begins /\ First \in { ",", "(", ")" }
  BY DEF Single, SingleKind
<1>2. PICK kind : kind = SingleKind[First]
  OBVIOUS
<1>3. kind \in TokenKinds \ { "UNKNOWN", "PATTERN" }
  BY <1>1, <1>2 DEF SingleKind, TokenKinds
<1>4. PICK at \in Nat : at = stream.position /\ at = Beginning /\ at < stream.length
  BY <1>1, BeginFacts
<1>5. PICK source \in Seq(Runes) : source = stream.source /\ Len(source) = stream.length
  BY <1>1, BeginFacts, InSyncFacts
<1>6. PICK c : c = First /\ c = source[at + 1]
  BY <1>1, <1>4, <1>5, BeginFacts
<1>7. c \in Bytes /\ c \notin DOMAIN Encoding /\ c \notin Spaces /\ c # "\\" /\ c \notin { "[", "'", "\"" }
  <2>1. c \in Ascii /\ c \notin Spaces
    BY <1>1, <1>6, LexerAssumption DEF Punctuation
  <2>2. c \in Bytes
    BY <2>1, EncodingAssumption
  <2>3. c \notin DOMAIN Encoding
    BY <2>1, EncodingAssumption
  <2>4. c # "\\" /\ c \notin { "[", "'", "\"" }
    BY <1>1, <1>6
  <2> QED
    BY <2>1, <2>2, <2>3, <2>4
<1>8. <<c>> \in Seq(Bytes) /\ Encode(c) = <<c>>
  <2>1. <<c>> \in Seq(Bytes)
    <3>1. c \in Bytes
      BY <1>7
    <3> QED
      BY <3>1
  <2>2. Encode(c) = <<c>>
    BY <1>7 DEF Encode
  <2> QED
    BY <2>1, <2>2
<1>9. SubSeq(source, at + 1, at + 1) = <<c>>
  <2>1. at + 1 \in 1..Len(source)
    BY <1>4, <1>5
  <2> QED
    BY <1>6, <2>1, OneOf
<1>10. PICK runes \in Seq(Runes) : runes = <<c>>
  <2>1. c \in Runes
    <3>1. at + 1 \in 1..Len(source)
      BY <1>4, <1>5
    <3> QED
      BY <1>6, <3>1, ElementOfSeq
  <2>2. <<c>> \in Seq(Runes)
    BY <2>1
  <2> QED
    BY <2>2
<1>11. Len(runes) = 1 /\ runes[1] = c
  BY <1>10
<1>12. Meaning(runes) = <<c>>
  <2>1. Meaning(runes) = MeaningFrom(runes, FALSE)[1]
    <3>1. ~Delimited(runes)
      BY <1>7, <1>11 DEF Delimited
    <3>2. ~(Len(runes) > 2 /\ runes[1] = "0" /\ runes[2] = "x")
      BY <1>11
    <3> QED
      BY <3>1, <3>2, PlainMeaning, Zenon
  <2>2. PICK from : from = MeaningFrom(runes, FALSE)
    OBVIOUS
  <2>3. 1 \in 1..Len(runes) /\ FALSE \in BOOLEAN
    BY <1>11
  <2>4. from[1] = Encode(runes[1]) \o from[1 + 1] /\ from[Len(runes) + 1] = << >>
    BY <1>7, <1>11, <2>2, <2>3, MeaningFacts
  <2>5. from[1] = <<c>> \o << >>
    BY <1>8, <1>11, <2>4
  <2> QED
    BY <1>8, <2>1, <2>2, <2>5, ConcatEmptySeq
<1>13. PICK text \in Seq(Bytes) : text = <<c>>
  BY <1>8
<1>14. PICK token : token = [kind |-> kind, text |-> text, first |-> at, last |-> at + 1]
  OBVIOUS
<1>15. token.first = at /\ token.last = at + 1 /\ token.text = text
  BY <1>14
<1>16. TokenWritten(token, source)
  BY <1>6, <1>7, <1>9, <1>10, <1>12, <1>13, <1>15 DEF TokenWritten
<1>17. InSync(Second) /\ Second.position = at + 1 /\ Second.source = source
  BY <1>1, <1>4, <1>5, BeginFacts
<1>18. Emit(kind, text, Beginning, Second)
  BY <1>2, <1>4, <1>6, <1>13 DEF Single
<1>19. stream.position <= Second.position /\ Beginning < Second.position /\ Beginning \in Nat
  BY <1>4, <1>17
<1>20. status = "reading"
  BY <1>1, BeginFacts
<1> QED
  BY <1>3, <1>4, <1>5, <1>14, <1>16, <1>17, <1>18, <1>19, <1>20, EmittedIInv

(* A name or a number has at least the rune it begins with.                  *)
LEMMA NotEmpty ==
  ASSUME LexIInv, NEW mode \in { "name", "numeric" }, Ends(mode)
  PROVE  mode \notin Quoted /\ stream.position # reader.first + Opening(mode)
<1>1. mode \notin Quoted /\ Opening(mode) = 0 /\ mode # "symbol"
  BY DEF Quoted, Opening
<1>2. stream.position # reader.first
  BY <1>1, EndFacts DEF ReaderOK, EndFits
<1> QED
  BY <1>1, <1>2, EndFacts

LEMMA NumberIInv == LexIInv /\ Number => LexIInv'
<1> SUFFICES ASSUME LexIInv, Number PROVE LexIInv'
  OBVIOUS
<1>1. "NUMERIC" \in TokenKinds \ { "UNKNOWN", "PATTERN" }
  BY DEF TokenKinds
<1>2. CASE Ends("hex") /\ ParseUint(Text) /\ Emit("NUMERIC", Text, reader.first, stream)
  <2>1. "hex" \notin Quoted
    BY DEF Quoted
  <2>2. Text # << >>
    BY <1>2, LexerAssumption
  <2>3. stream.position # reader.first + Opening("hex")
    BY <1>2, <2>2, EndFacts
  <2> QED
    BY <1>1, <1>2, <2>1, <2>3, PlainIInv
<1>3. CASE Ends("numeric") /\ Emit("NUMERIC", Text, reader.first, stream)
  BY <1>1, <1>3, NotEmpty, PlainIInv
<1>4. CASE Fail
  BY <1>4, FailIInv
<1> QED
  BY <1>2, <1>3, <1>4 DEF Number

LEMMA NameIInv == LexIInv /\ Name => LexIInv'
<1> SUFFICES ASSUME LexIInv, Name PROVE LexIInv'
  OBVIOUS
<1>1. PICK kind : kind = CASE Text \in Functions -> "FUNCTION"
                           [] Boolean(Text) -> "BOOLEAN"
                           [] In(Text) -> "COMPARATOR"
                           [] OTHER -> "VARIABLE"
  OBVIOUS
<1>2. kind \in TokenKinds \ { "UNKNOWN", "PATTERN" } /\ "ACCESSOR" \in TokenKinds \ { "UNKNOWN", "PATTERN" }
  BY <1>1 DEF TokenKinds
<1>3. Ends("name") /\ "name" \notin Quoted /\ stream.position # reader.first + Opening("name")
  BY NotEmpty DEF Name
<1>4. CASE Emit("ACCESSOR", Text, reader.first, stream)
  BY <1>2, <1>3, <1>4, PlainIInv
<1>5. CASE Emit(kind, Text, reader.first, stream)
  BY <1>2, <1>3, <1>5, PlainIInv
<1>6. CASE Fail
  BY <1>6, FailIInv
<1> QED
  BY <1>1, <1>4, <1>5, <1>6 DEF Name

(* The empty text is no operator, so what is emitted has at least a rune.    *)
LEMMA OperatorSymbolIInv == LexIInv /\ OperatorSymbol => LexIInv'
<1> SUFFICES ASSUME LexIInv, OperatorSymbol PROVE LexIInv'
  OBVIOUS
<1>1. PICK s : s = Symbol(Text)
  OBVIOUS
<1>2. PICK kind : kind = CASE canTransitionTo(State, "PREFIX") /\ s \in DOMAIN prefixSymbols -> "PREFIX"
                           [] s \in modifierSymbols -> "MODIFIER"
                           [] s \in logicalSymbols -> "LOGICALOP"
                           [] s \in DOMAIN comparatorSymbols -> "COMPARATOR"
                           [] s \in DOMAIN ternarySymbols -> "TERNARY"
                           [] OTHER -> "invalid"
  OBVIOUS
<1>3. Ends("symbol") /\ IF kind = "invalid" THEN Fail ELSE Emit(kind, Text, reader.first, stream)
  BY <1>1, <1>2 DEF OperatorSymbol
<1>4. CASE kind = "invalid"
  BY <1>3, <1>4, FailIInv
<1>5. CASE kind # "invalid"
  <2>1. s \in DOMAIN prefixSymbols \cup modifierSymbols \cup logicalSymbols
              \cup DOMAIN comparatorSymbols \cup DOMAIN ternarySymbols
    BY <1>2, <1>5
  <2>2. Text # << >>
    BY <1>1, <2>1, LexerAssumption
  <2>3. kind \in TokenKinds \ { "UNKNOWN", "PATTERN" }
    BY <1>2, <1>5 DEF TokenKinds
  <2>4. "symbol" \notin Quoted
    BY DEF Quoted
  <2>5. stream.position # reader.first + Opening("symbol")
    BY <1>3, <2>2, EndFacts
  <2> QED
    BY <1>3, <1>5, <2>3, <2>4, <2>5, PlainIInv
<1> QED
  BY <1>4, <1>5

LEMMA LiteralsIInv == LexIInv /\ (BracketName \/ String) => LexIInv'
<1> SUFFICES ASSUME LexIInv, BracketName \/ String PROVE LexIInv'
  OBVIOUS
<1>1. CASE Ends("bracket") /\ reader.conditioned /\ Emit("VARIABLE", Text, reader.first, forward(stream))
  <2>1. "bracket" \in Quoted
    BY DEF Quoted
  <2> QED
    BY <1>1, <2>1, LiteralIInv
<1>2. ASSUME NEW q \in { "'", "\"" }, Ends(q), reader.conditioned,
             Emit(IF tryParseTime(Text) THEN "TIME" ELSE "STRING", Text, reader.first, forward(stream))
      PROVE  LexIInv'
  <2>1. q \in Quoted
    BY DEF Quoted
  <2>2. PICK kind \in { "TIME", "STRING" } : kind = IF tryParseTime(Text) THEN "TIME" ELSE "STRING"
    OBVIOUS
  <2> QED
    BY <1>2, <2>1, <2>2, LiteralIInv
<1>3. CASE Fail
  BY <1>3, FailIInv
<1> QED
  BY <1>1, <1>2, <1>3 DEF BracketName, String

-----------------------------------------------------------------------------
(***************************************************************************)
(* The theorems                                                            *)
(***************************************************************************)

LEMMA SkipSpaceIInv == LexIInv /\ SkipSpace => LexIInv'
<1> SUFFICES ASSUME LexIInv, SkipSpace PROVE LexIInv'
  OBVIOUS
<1>1. status = "reading" /\ reader = NoReader /\ canRead(stream) /\ Rune(stream) \in Spaces
      /\ stream' = readCharacter(stream) /\ UNCHANGED <<pooled, tokens, reader, status>>
  BY DEF SkipSpace, Reading
<1>2. InSync(stream) /\ SpaceBetween(tokens, stream.source, Beginning) /\ Beginning = stream.position
  BY <1>1 DEF LexIInv, SourceOK, Beginning
<1>3. InSync(stream') /\ stream'.position = stream.position + 1 /\ stream'.source = stream.source
  BY <1>1, <1>2, ReadInSync
<1>4. PICK at \in Nat : at = stream.position
  BY <1>2, InSyncFacts
<1>5. PICK n \in Nat : n = Len(tokens)
  BY DEF LexIInv, TokensOK
<1>6. SpaceBetween(tokens, stream.source, at + 1)
  <2>1. ASSUME NEW k \in 0..n,
               NEW i \in ((IF k = 0 THEN 0 ELSE tokens[k].last) + 1)..(IF k + 1 <= n THEN tokens[k + 1].first ELSE at + 1)
        PROVE  stream.source[i] \in Spaces
    <3>1. PICK low \in Nat : low = IF k = 0 THEN 0 ELSE tokens[k].last
      <4>1. ASSUME k # 0 PROVE tokens[k].last \in Nat
        <5>1. tokens[k] \in TokenRecord
          BY <1>5, <4>1, ElementOfSeq DEF LexIInv, TokensOK
        <5> QED
          BY <5>1 DEF TokenRecord
      <4> QED
        BY <4>1
    <3>2. \A j \in (low + 1)..(IF k + 1 <= n THEN tokens[k + 1].first ELSE at) : stream.source[j] \in Spaces
      BY <1>2, <1>4, <1>5, <3>1 DEF SpaceBetween
    <3>3. CASE k + 1 <= n
      BY <2>1, <3>1, <3>2, <3>3
    <3>4. CASE ~(k + 1 <= n)
      <4>1. i \in (low + 1)..(at + 1) /\ i \in Int
        BY <2>1, <3>1, <3>4
      <4>2. CASE i = at + 1
        BY <1>1, <1>4, <4>2 DEF Rune
      <4>3. CASE i # at + 1
        <5>1. i \in (low + 1)..at
          BY <4>1, <4>3
        <5> QED
          BY <3>2, <3>4, <5>1
      <4> QED
        BY <4>2, <4>3
    <3> QED
      BY <3>3, <3>4
  <2> QED
    BY <1>5, <2>1 DEF SpaceBetween
<1>7. Beginning' = at + 1
  BY <1>1, <1>3, <1>4 DEF Beginning
<1>8. stream.position <= stream'.position
  BY <1>3, <1>4
<1>9. reader' \in ReaderRecord \cup { NoReader }
  BY <1>1
<1> QED
  BY <1>1, <1>3, <1>6, <1>7, <1>8, <1>9, MovedIInv

LEMMA NextIInv == LexIInv /\ [LexNext]_vars => LexIInv'
<1> SUFFICES ASSUME LexIInv, [LexNext]_vars PROVE LexIInv'
  OBVIOUS
<1>1. CASE LexDone
  <2>1. stream' = Closed /\ pooled' = << >> /\ status' \in { "done", "failed" } /\ UNCHANGED <<tokens, reader>>
    BY <1>1 DEF LexDone, Close
  <2> QED
    BY <2>1, EndedIInv
<1>2. CASE SkipSpace
  BY <1>2, SkipSpaceIInv
<1>3. CASE Start
  BY <1>3, StartHexIInv, StartNumericIInv, SingleIInv, StartQuotedIInv, StartNameIInv, StartSymbolIInv DEF Start
<1>4. CASE ReadUntilFalse
  BY <1>4, ReadEscapedIInv, ReadIncompleteIInv, BreakAtSpaceIInv, SkipInsideIInv, ReadPartIInv, ReadEndIInv,
     SourceEndsIInv DEF ReadUntilFalse
<1>5. CASE Token
  BY <1>5, NumberIInv, LiteralsIInv, NameIInv, OperatorSymbolIInv DEF Token
<1>6. CASE LexAgain
  <2>1. PICK string \in Later : stream' = NewLexerStream(string)
    BY <1>6 DEF LexAgain
  <2>2. string \in Expressions /\ pooled = << >>
    BY LexerAssumption DEF LexIInv
  <2> QED
    BY <1>6, <2>1, <2>2, BegunIInv DEF LexAgain
<1>7. CASE UNCHANGED vars
  <2>1. stream' = stream /\ pooled' = pooled /\ tokens' = tokens /\ reader' = reader /\ status' = status
    BY <1>7 DEF vars
  <2>2. TokensOK'
    BY <2>1 DEF LexIInv, TokensOK
  <2>3. Beginning' = Beginning
    BY <2>1 DEF Beginning
  <2>4. ASSUME status = "reading" PROVE SourceOK'
    BY <2>1, <2>3, <2>4 DEF LexIInv, SourceOK
  <2> QED
    BY <2>1, <2>2, <2>4 DEF LexIInv
<1> QED
  BY <1>1, <1>2, <1>3, <1>4, <1>5, <1>6, <1>7 DEF LexNext, LexStep

(* Both cursors of the open stream stand at a rune of the expression, the    *)
(* buffer holds the meaning of what readUntilFalse has read, and the part of *)
(* the source string it may be cut out of is that buffer.                    *)
THEOREM LexInvariant == LexSpec => []LexIInv
BY InitIInv, NextIInv, PTL DEF LexSpec

(* Tokens have a kind that the lexer gives and at least one rune, the stream *)
(* is open exactly while parseTokens reads, and a text never begins after    *)
(* the cursor.                                                               *)
THEOREM LexerTypeCorrect == LexSpec => []LexerTypeOK
BY LexInvariant, IInvType, PTL

(* Whatever bytes an expression is made of, the rune cursor and the byte     *)
(* cursor of lexerStream stand at the same place after every read, rewind    *)
(* and look ahead, and a stream from the pool holds its own expression only. *)
THEOREM CursorsStayInSync == LexSpec => []StreamInSync
BY LexInvariant, IInvStream, PTL

(* For every expression, every token of readToken has the text that is       *)
(* written at its place, literals end at their own terminator, and nothing   *)
(* but white space lies between the tokens.                                  *)
THEOREM TokensAsWritten == LexSpec => []TextAsWritten
BY LexInvariant, IInvText, PTL


-----------------------------------------------------------------------------
(***************************************************************************)
(* Why a call ends                                                         *)
(***************************************************************************)

(* Steps of a call take it on: what is still to be begun gets shorter, or a  *)
(* text is begun there, or what is read of it gets longer or is finished.    *)
LexAdvances ==
  status = "reading" /\ status' = "reading" =>
    \/ Beginning < Beginning'
    \/ /\ Beginning' = Beginning /\ reader' # NoReader
       /\ \/ reader = NoReader /\ ~reader'.finished
          \/ reader # NoReader /\ ~reader.finished /\ (reader'.finished \/ stream.position < stream'.position)

(* A token is not empty, and what comes next begins where it ends.           *)
LEMMA EmitAdvances ==
  ASSUME LexIInv, LexIInv', NEW kind, NEW text, NEW first, NEW s, Emit(kind, text, first, s), first = Beginning
  PROVE  LexAdvances
<1>1. PICK token : token = [kind |-> kind, text |-> text, first |-> first, last |-> s.position]
  OBVIOUS
<1>2. token.first = first /\ token.last = s.position
  BY <1>1
<1>3. tokens' = Append(tokens, token) /\ stream' = s /\ reader' = NoReader
  BY <1>1 DEF Emit
<1>4. PICK n \in Nat : n = Len(tokens)
  BY DEF LexIInv, TokensOK
<1>5. tokens \in Seq(TokenRecord) /\ tokens' \in Seq(TokenRecord)
  BY DEF LexIInv, TokensOK
<1>6. n + 1 \in DOMAIN tokens' /\ tokens'[n + 1] = token
  <2>1. ASSUME NEW S, NEW q \in Seq(S), NEW e, Append(q, e) \in Seq(S)
        PROVE  Len(q) + 1 \in DOMAIN Append(q, e) /\ Append(q, e)[Len(q) + 1] = e
    <3>1. e \in S
      <4>1. Append(q, e) = q \o <<e>> /\ Len(Append(q, e)) = Len(q) + 1
        OBVIOUS
      <4> QED
        BY <2>1, <4>1, ElementOfSeq
    <3> QED
      BY <3>1, AppendProperties
  <2> QED
    BY <1>3, <1>4, <1>5, <2>1
<1>7. tokens'[n + 1].first < tokens'[n + 1].last
  BY <1>6 DEF LexIInv, TokensOK
<1>8. Beginning' = s.position
  BY <1>3 DEF Beginning
<1> QED
  BY <1>2, <1>6, <1>7, <1>8 DEF LexAdvances

LEMMA TokenAdvances == LexIInv /\ LexIInv' /\ Token => LexAdvances
<1> SUFFICES ASSUME LexIInv, LexIInv', Token PROVE LexAdvances
  OBVIOUS
<1>1. reader # NoReader
  BY DEF Token, Number, BracketName, String, Name, OperatorSymbol, Ends
<1>2. reader.first = Beginning
  BY <1>1 DEF Beginning
<1>3. CASE Fail
  BY <1>3 DEF Fail, LexAdvances
<1>4. ASSUME NEW kind, NEW text, NEW s, Emit(kind, text, reader.first, s) PROVE LexAdvances
  BY <1>2, <1>4, EmitAdvances
<1>5. CASE Number
  BY <1>3, <1>4, <1>5 DEF Number
<1>6. CASE BracketName
  BY <1>3, <1>4, <1>6 DEF BracketName
<1>7. CASE String
  BY <1>3, <1>4, <1>7 DEF String
<1>8. CASE Name
  BY <1>3, <1>4, <1>8 DEF Name
<1>9. CASE OperatorSymbol
  BY <1>3, <1>4, <1>9 DEF OperatorSymbol
<1> QED
  BY <1>5, <1>6, <1>7, <1>8, <1>9 DEF Token

LEMMA StartAdvances == LexIInv /\ LexIInv' /\ Start => LexAdvances
<1> SUFFICES ASSUME LexIInv, LexIInv', Start PROVE LexAdvances
  OBVIOUS
<1>1. Begins
  BY DEF Start, StartHex, StartNumeric, Single, StartQuoted, StartName, StartSymbol
<1>2. reader = NoReader /\ Beginning = stream.position
  BY <1>1, BeginFacts
<1>3. ASSUME NEW mode, mode # "none", NEW s, StartReader(mode, s) PROVE LexAdvances
  <2>1. PICK r : r = Reader(mode, stream.position, s)
    OBVIOUS
  <2>2. r.mode = mode /\ r.first = stream.position /\ ~r.finished
    BY <2>1 DEF Reader
  <2>3. NoReader.mode = "none"
    BY DEF NoReader
  <2>4. reader' = r
    BY <1>3, <2>1 DEF StartReader
  <2>5. reader' # NoReader
    BY <1>3, <2>2, <2>3, <2>4
  <2>6. Beginning' = Beginning
    BY <1>2, <2>2, <2>4, <2>5 DEF Beginning
  <2> QED
    BY <1>2, <2>2, <2>4, <2>5, <2>6 DEF LexAdvances
<1>4. CASE Single
  <2>1. Emit(SingleKind[First], <<First>>, stream.position, Second)
    BY <1>4 DEF Single
  <2> QED
    BY <1>2, <2>1, EmitAdvances
<1>5. CASE StartQuoted
  <2>1. PICK mode : mode = IF First = "[" THEN "bracket" ELSE First
    OBVIOUS
  <2>2. mode # "none" /\ StartReader(mode, Second)
    BY <1>5, <2>1 DEF StartQuoted, isNotQuote
  <2> QED
    BY <1>3, <2>2
<1>6. CASE StartHex
  BY <1>3, <1>6 DEF StartHex
<1>7. CASE StartNumeric
  BY <1>3, <1>7 DEF StartNumeric
<1>8. CASE StartName
  BY <1>3, <1>8 DEF StartName
<1>9. CASE StartSymbol
  BY <1>3, <1>9 DEF StartSymbol
<1> QED
  BY <1>4, <1>5, <1>6, <1>7, <1>8, <1>9 DEF Start

(* A turn of readUntilFalse takes a character or is the last one.            *)
LEMMA TurnAdvances == LexIInv /\ ReadUntilFalse => LexAdvances
<1> SUFFICES ASSUME LexIInv, ReadUntilFalse PROVE LexAdvances
  OBVIOUS
<1>1. status = "reading" /\ reader # NoReader /\ ~reader.finished
  BY DEF ReadUntilFalse, ReadEscaped, ReadIncomplete, BreakAtSpace, SkipInside, ReadPart, ReadEnd, SourceEnds, Scanning
<1>2. reader \in ReaderRecord /\ InSync(stream) /\ Beginning = reader.first
  BY <1>1, ScanFacts
<1>3. ASSUME NEW r, NEW s, Turn(r, s), r.mode = reader.mode, r.first = reader.first,
             r.finished \/ stream.position < s.position
      PROVE  LexAdvances
  <2>1. reader' = r /\ stream' = s
    BY <1>3 DEF Turn
  <2>2. reader.mode # "none"
    BY <1>2 DEF ReaderRecord, Modes, Quoted
  <2>3. r # NoReader
    BY <1>3, <2>2 DEF NoReader
  <2>4. Beginning' = Beginning
    BY <1>2, <1>3, <2>1, <2>3 DEF Beginning
  <2> QED
    BY <1>1, <1>3, <2>1, <2>3, <2>4 DEF LexAdvances
<1>4. ASSUME canRead(stream)
      PROVE  InSync(Second) /\ stream.position < Second.position
             /\ (canRead(Second) => stream.position < readCharacter(Second).position)
  <2>1. InSync(Second) /\ Second.position = stream.position + 1
    BY <1>2, <1>4, ReadInSync DEF Second
  <2>2. PICK at \in Nat : at = stream.position
    BY <1>2, InSyncFacts
  <2>3. canRead(Second) => readCharacter(Second).position = Second.position + 1
    BY <2>1, ReadInSync
  <2> QED
    BY <2>1, <2>2, <2>3
<1>5. CASE ReadEscaped
  <2>1. PICK r : r = [reader EXCEPT !.buffer = @ \o Encode(Rune(Second)), !.reuse = FALSE]
    OBVIOUS
  <2>2. r.mode = reader.mode /\ r.first = reader.first
    BY <1>2, <2>1 DEF ReaderRecord
  <2> QED
    BY <1>3, <1>4, <1>5, <2>1, <2>2 DEF ReadEscaped
<1>6. CASE ReadIncomplete
  <2>1. PICK r : r = [reader EXCEPT !.reuse = FALSE, !.finished = TRUE]
    OBVIOUS
  <2>2. r.mode = reader.mode /\ r.first = reader.first /\ r.finished
    BY <1>2, <2>1 DEF ReaderRecord
  <2> QED
    BY <1>3, <1>6, <2>1, <2>2 DEF ReadIncomplete
<1>7. CASE BreakAtSpace
  <2>1. PICK r : r = [reader EXCEPT !.conditioned = TRUE, !.trim = TRUE, !.reuse = Reusable, !.finished = TRUE]
    OBVIOUS
  <2>2. r.mode = reader.mode /\ r.first = reader.first /\ r.finished
    BY <1>2, <2>1 DEF ReaderRecord
  <2> QED
    BY <1>3, <1>7, <2>1, <2>2 DEF BreakAtSpace
<1>8. CASE SkipInside
  <2>1. PICK r : r = [reader EXCEPT !.reuse = FALSE]
    OBVIOUS
  <2>2. r.mode = reader.mode /\ r.first = reader.first
    BY <1>2, <2>1 DEF ReaderRecord
  <2> QED
    BY <1>3, <1>4, <1>8, <2>1, <2>2 DEF SkipInside
<1>9. CASE ReadPart
  <2>1. PICK r : r = Write(Character)
    OBVIOUS
  <2>2. r.mode = reader.mode /\ r.first = reader.first
    BY <1>2, <2>1 DEF ReaderRecord, Write
  <2> QED
    BY <1>3, <1>4, <1>9, <2>1, <2>2 DEF ReadPart
<1>10. CASE ReadEnd
  <2>1. PICK r : r = [reader EXCEPT !.conditioned = TRUE, !.reuse = Reusable, !.finished = TRUE]
    OBVIOUS
  <2>2. r.mode = reader.mode /\ r.first = reader.first /\ r.finished
    BY <1>2, <2>1 DEF ReaderRecord
  <2> QED
    BY <1>3, <1>10, <2>1, <2>2 DEF ReadEnd
<1>11. CASE SourceEnds
  <2>1. PICK r : r = [reader EXCEPT !.finished = TRUE]
    OBVIOUS
  <2>2. r.mode = reader.mode /\ r.first = reader.first /\ r.finished
    BY <1>2, <2>1 DEF ReaderRecord
  <2> QED
    BY <1>3, <1>11, <2>1, <2>2 DEF SourceEnds
<1> QED
  BY <1>5, <1>6, <1>7, <1>8, <1>9, <1>10, <1>11 DEF ReadUntilFalse

(* No step of parseTokens leaves the lexer where it was: it adds a token     *)
(* that is not empty, skips white space, begins a text, or takes a character *)
(* of one or finishes it, also where two rewinds follow each other.          *)
THEOREM LexerAdvances == LexSpec => [][LexAdvances]_vars
<1>1. LexIInv /\ LexIInv' /\ LexNext => LexAdvances
  <2> SUFFICES ASSUME LexIInv, LexIInv', LexNext PROVE LexAdvances
    OBVIOUS
  <2>1. CASE LexDone
    BY <2>1 DEF LexDone, LexAdvances
  <2>2. CASE SkipSpace
    <3>1. InSync(stream) /\ Beginning = stream.position
      BY <2>2 DEF SkipSpace, Reading, LexIInv, SourceOK, Beginning
    <3>2. stream'.position = stream.position + 1 /\ reader' = reader /\ reader = NoReader
      BY <2>2, <3>1, ReadInSync DEF SkipSpace, Reading
    <3>3. Beginning' = stream'.position
      BY <3>2 DEF Beginning
    <3>4. stream.position \in Nat
      BY <3>1, InSyncFacts
    <3> QED
      BY <3>1, <3>2, <3>3, <3>4 DEF LexAdvances
  <2>3. CASE LexAgain
    BY <2>3 DEF LexAgain, LexAdvances
  <2> QED
    BY <2>1, <2>2, <2>3, StartAdvances, TurnAdvances, TokenAdvances DEF LexNext, LexStep
<1>2. LexIInv /\ LexIInv' /\ [LexNext]_vars => [LexAdvances]_vars
  BY <1>1
<1> QED
  BY <1>2, LexInvariant, PTL DEF LexSpec
=============================================================================
