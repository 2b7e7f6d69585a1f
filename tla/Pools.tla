-------------------------------- MODULE Pools --------------------------------
(***************************************************************************)
(* The four pools (sync.Pool) of the package and the calls that use them:  *)
(* parseTokens takes a lexer stream and, while it reads a token, a buffer; *)
(* checkBalance, planStages and ToSQLQuery take a token stream; Eval takes *)
(* a wrapper for the parameters and calls user code, which may call the    *)
(* package again.  An object that is not put back is garbage, and garbage  *)
(* and pooled objects are collected at any time, so that New may return    *)
(* any object that nobody has.                                             *)
(***************************************************************************)
EXTENDS Process, Integers, SequencesExt

CONSTANTS
  Objects,    \* bound: how many objects of a kind there are at a time
  MaxDepth    \* bound: calls in progress on one goroutine

ASSUME DepthAssumption == MaxDepth \in Nat

VARIABLES
  pooled,    \* how often an object is in its pool
  contents,  \* whether it holds data of the call that has it, and of earlier ones
  calls      \* the calls in progress on each goroutine, the outermost first

poolVars == <<pooled, contents, calls>>

(* The functions that use a pool, and the kind of object they take from it.  *)
PoolUsers ==
  { "parseTokens", "readUntilFalse", "checkBalance", "planStages", "ToSQLQuery", "Eval" }
KindOf(function) ==
  CASE function = "parseTokens" -> "lexerStream"
    [] function = "readUntilFalse" -> "buffer"
    [] function \in { "checkBalance", "planStages", "ToSQLQuery" } -> "tokenStream"
    [] function = "Eval" -> "sanitizedParameters"
AllObjects == { KindOf(function) : function \in PoolUsers } \X Objects

PoolsInit ==
  /\ pooled = [o \in AllObjects |-> 0]
  /\ contents = [o \in AllObjects |-> { }]
  /\ calls = [g \in Goroutines |-> << >>]

Innermost(g) == Last(calls[g])
InnermostIs(g, functions) == calls[g] # << >> /\ Innermost(g).function \in functions

(* The objects that calls have, and those that are in a pool or unknown to  *)
(* everybody.                                                                *)
Used == UNION { { calls[g][k].object : k \in DOMAIN calls[g] } : g \in Goroutines }
Pooled(function) == { o \in AllObjects : o[1] = KindOf(function) /\ pooled[o] > 0 }
New(function) == { o \in AllObjects : o[1] = KindOf(function) /\ pooled[o] = 0 } \ Used

-----------------------------------------------------------------------------
(* Get *)

(* Who may call: the goroutine, parseTokens for a token, and user code that  *)
(* an evaluation has called.                                                 *)
MayCall(g, function) ==
  /\ Len(calls[g]) < MaxDepth
  /\ IF function = "readUntilFalse"
       THEN InnermostIs(g, { "parseTokens" })
       ELSE calls[g] = << >> \/ InnermostIs(g, { "Eval" })

(* What an object holds for a new call: newTokenStream and Eval assign all   *)
(* fields, newLexerStream appends the source to what the stream has, and     *)
(* readUntilFalse starts with an empty buffer.                               *)
Prepared(function, content) ==
  CASE function = "readUntilFalse" -> { }
    [] function = "parseTokens" -> content \cup { "now" }
    [] OTHER -> { "now" }

Enter(g, function, object, content) ==
  /\ MayCall(g, function)
  /\ calls' = [calls EXCEPT ![g] = Append(@, [function |-> function, object |-> object])]
  /\ contents' = [contents EXCEPT ![object] = Prepared(function, content)]
  /\ pooled' = [pooled EXCEPT ![object] = IF @ = 0 THEN 0 ELSE @ - 1]

(* Mutant: a call gets whatever the pools have. *)
ReuseAny(g) ==
  \E function \in PoolUsers : \E object \in UNION { Pooled(f) : f \in PoolUsers } :
    Enter(g, function, object, contents[object])

(* A call gets an object that was put back, or a new one. *)
Reuse(g) ==
  \E function \in PoolUsers : \E object \in Pooled(function) :
    Enter(g, function, object, contents[object])
Allocate(g) ==
  \E function \in PoolUsers : \E object \in New(function) : Enter(g, function, object, { })

(* A character of the token is written into the buffer. *)
WriteBuffer(g) ==
  /\ InnermostIs(g, { "readUntilFalse" })
  /\ contents' = [contents EXCEPT ![Innermost(g).object] = @ \cup { "now" }]
  /\ UNCHANGED <<pooled, calls>>

-----------------------------------------------------------------------------
(* Put *)

(* Mutant: close leaves the source in a lexer stream. *)
LeftUncleared(function, content) ==
  IF function = "readUntilFalse" THEN { } ELSE { "before" }

(* What an object holds when it is put back: lexer streams and buffers are   *)
(* cleared, token streams keep their tokens and wrappers the parameters.     *)
Left(function, content) ==
  IF function \in { "parseTokens", "readUntilFalse" } THEN { } ELSE { "before" }

(* Mutant: planStages closes its stream on an error, and again on the way out. *)
ReturnTwice(g) ==
  /\ InnermostIs(g, PoolUsers \ { "ToSQLQuery" })
  /\ \E puts \in { 1 } \cup (IF Innermost(g).function = "planStages" THEN { 2 } ELSE { }) :
       pooled' = [pooled EXCEPT ![Innermost(g).object] = @ + puts]
  /\ contents' = [contents EXCEPT ![Innermost(g).object] = Left(Innermost(g).function, @)]
  /\ calls' = [calls EXCEPT ![g] = Front(@)]

(* What garbage holds is of no interest.                                     *)
Forgotten(objects) == [o \in AllObjects |-> IF o \in objects THEN { } ELSE contents[o]]

(* The call puts its object back and returns, with a result or with an       *)
(* error; ToSQLQuery never does.                                             *)
Return(g) ==
  /\ InnermostIs(g, PoolUsers \ { "ToSQLQuery" })
  /\ pooled' = [pooled EXCEPT ![Innermost(g).object] = @ + 1]
  /\ contents' = [contents EXCEPT ![Innermost(g).object] = Left(Innermost(g).function, @)]
  /\ calls' = [calls EXCEPT ![g] = Front(@)]

(* The call returns without: ToSQLQuery, and parseTokens when a token cannot *)
(* be read.                                                                  *)
Abandon(g) ==
  /\ InnermostIs(g, { "ToSQLQuery", "parseTokens" })
  /\ calls' = [calls EXCEPT ![g] = Front(@)]
  /\ contents' = Forgotten({ Innermost(g).object })
  /\ UNCHANGED pooled

(* Parameters.Get panics, and the panic ends evaluations up to one whose     *)
(* function stage recovers it, or all of them.                               *)
Panic(g) ==
  /\ InnermostIs(g, { "Eval" })
  /\ \E n \in 0 .. Len(calls[g]) - 1 :
       /\ calls' = [calls EXCEPT ![g] = SubSeq(@, 1, n)]
       /\ contents' = Forgotten({ calls[g][k].object : k \in n + 1 .. Len(calls[g]) })
  /\ UNCHANGED pooled

(* The garbage collector takes an object out of a pool. *)
CollectPooled ==
  \E o \in AllObjects :
    /\ pooled[o] > 0
    /\ pooled' = [pooled EXCEPT ![o] = @ - 1]
    /\ contents' = Forgotten({ o })
    /\ UNCHANGED calls

PoolsNext ==
  \/ \E g \in Goroutines :
       Reuse(g) \/ Allocate(g) \/ WriteBuffer(g) \/ Return(g) \/ Abandon(g) \/ Panic(g)
  \/ CollectPooled

PoolsSpec == PoolsInit /\ [][PoolsNext]_poolVars

-----------------------------------------------------------------------------

(* The places where calls have objects. *)
Places == { place \in Goroutines \X (1 .. MaxDepth) : place[2] \in DOMAIN calls[place[1]] }
ObjectAt(place) == calls[place[1]][place[2]].object

(* Type invariant. *)
PoolsTypeOK ==
  /\ pooled \in [AllObjects -> Nat]
  /\ contents \in [AllObjects -> SUBSET { "now", "before" }]
  /\ \A g \in Goroutines :
       /\ calls[g] \in Seq([function : PoolUsers, object : AllObjects])
       /\ \A k \in DOMAIN calls[g] : calls[g][k].object[1] = KindOf(calls[g][k].function)

(* Nobody else has the object of a call: it is in no pool and no other call, *)
(* of another goroutine or further out on the same one, uses it; and an      *)
(* object is in its pool once.                                               *)
UsedOnce ==
  /\ \A o \in AllObjects : pooled[o] <= 1
  /\ \A p \in Places : pooled[ObjectAt(p)] = 0
  /\ \A p, q \in Places : p # q => ObjectAt(p) # ObjectAt(q)

(* A call finds nothing in its object but what it has put there: no rune of  *)
(* another source, no character of another token, not the tokens or the      *)
(* parameters of another expression.                                         *)
OwnContents == \A p \in Places : "before" \notin contents[ObjectAt(p)]

=============================================================================
