--------------------------- MODULE ExpressionTree ---------------------------
(***************************************************************************)
(* What a reader takes an expression to mean, independent of how govaluate *)
(* computes it: the tree of a list of tokens, found by splitting the list  *)
(* at its weakest operator, and the outcome of a tree for the parameters.  *)
(* Definitions only; they are what the compiled stages are compared with.  *)
(***************************************************************************)
EXTENDS Values, FiniteSets

(* A node has an operator, the number of its token, and a left and a right   *)
(* subtree.  None is a missing operand, which counts as nil.                 *)
None == << >>
Node(operator, at, left, right) == <<operator, at, left, right>>
Leaf(operator, at) == Node(operator, at, None, None)

(* The operators from the weakest to the strongest.  Those of one set are    *)
(* read from the left, except that a ternary is read from the right.         *)
Strengths ==
  << { "SEPARATE" }, { "TERNARY_TRUE", "TERNARY_FALSE", "COALESCE" }, { "OR" }, { "AND" },
     { "EQ", "NEQ", "GT", "LT", "GTE", "LTE", "REQ", "NREQ", "IN" }, { "BITWISE_OR" },
     { "BITWISE_XOR" }, { "BITWISE_AND" }, { "BITWISE_LSHIFT", "BITWISE_RSHIFT" },
     { "PLUS", "MINUS" }, { "MULTIPLY", "DIVIDE", "MODULUS" }, { "EXPONENT" } >>

ModifierTables ==
  { bitwiseAndSymbols, bitwiseXorSymbols, bitwiseOrSymbols, bitwiseShiftSymbols,
    additiveSymbols, multiplicativeSymbols, exponentialSymbolsS }

InfixTables ==
  [ COMPARATOR |-> comparatorSymbols, TERNARY |-> ternarySymbols, SEPARATOR |-> separatorSymbols,
    LOGICALOP |-> Table({ <<"&&", "AND">>, <<"||", "OR">> }),
    MODIFIER |-> Table(UNION { { <<text, table[text]>> : text \in DOMAIN table } :
                                 table \in ModifierTables }) ]

SymbolOf(token) == InfixTables[token.kind][token.value]
StrengthOf(token) == CHOOSE s \in DOMAIN Strengths : SymbolOf(token) \in Strengths[s]

(* How many parentheses the first n tokens leave open. *)
Nesting(t, n) ==
  Cardinality({ k \in 1 .. n : t[k].kind = "CLAUSE" })
    - Cardinality({ k \in 1 .. n : t[k].kind = "CLAUSE_CLOSE" })

(* The infix operators from a to b that are in no parentheses there. *)
Infixes(t, a, b) ==
  { p \in a .. b : t[p].kind \in DOMAIN InfixTables /\ Nesting(t, p) = Nesting(t, a - 1) }

Least(ps) == CHOOSE p \in ps : \A q \in ps : p <= q
Greatest(ps) == CHOOSE p \in ps : \A q \in ps : q <= p

(* The first question mark or colon, and the colon that belongs to it: the   *)
(* first one with as many colons as question marks in between.               *)
Marks(t, ps) == { p \in ps : t[p].value \in { "?", ":" } }
Between(t, ps, text, p, q) == Cardinality({ m \in ps : p < m /\ m < q /\ t[m].value = text })
OwnColons(t, ps, p) ==
  { q \in ps : p < q /\ t[q].value = ":" /\ Between(t, ps, "?", p, q) = Between(t, ps, ":", p, q) }

IsIn(token) == token = [kind |-> "COMPARATOR", value |-> "in"]

(* A node for the arguments in the parentheses that open at token p, and for *)
(* the array in the parentheses there, when "in" comes before them.          *)
Arguments(p, inner) ==
  IF inner = None THEN Leaf("collectedArgs", p) ELSE Node("ensureCollectedArgs", p, None, inner)
Members(p, inner) ==
  IF inner = None THEN Leaf("emptySlice", p)
  ELSE IF inner[1] = "SEPARATE" THEN inner
  ELSE Node("ensureSlice", p, None, inner)

(* The tree of the tokens of t: tree[a, b] is that of the ones from a to b. *)
Tree(t) ==
  LET tree[a \in 1 .. Len(t) + 1, b \in 0 .. Len(t)] ==
        LET infixes == Infixes(t, a, b)
            weakest == Least({ StrengthOf(t[p]) : p \in infixes })
            candidates == { p \in infixes : StrengthOf(t[p]) = weakest }
            marks == Marks(t, candidates)
            question == Least(marks)
            colon == Least(OwnColons(t, marks, question))
            split(p) == Node(SymbolOf(t[p]), p, tree[a, p - 1], tree[p + 1, b])
            ternary ==
              Node("TERNARY_FALSE", colon,
                   Node("TERNARY_TRUE", question, tree[a, question - 1], tree[question + 1, colon - 1]),
                   tree[colon + 1, b])
            operand ==
              CASE t[a].kind = "PREFIX" -> Node(prefixSymbols[t[a].value], a, None, tree[a + 1, b])
                [] t[a].kind = "FUNCTION" ->
                     Node("FUNCTIONAL", a, None, Arguments(a + 1, tree[a + 2, b - 1]))
                [] t[a].kind = "ACCESSOR" ->
                     Node("ACCESS", a, None,
                          IF a = b THEN None ELSE Arguments(a + 1, tree[a + 2, b - 1]))
                [] t[a].kind = "CLAUSE" ->
                     IF a > 1 /\ IsIn(t[a - 1]) THEN Members(a, tree[a + 1, b - 1])
                                               ELSE tree[a + 1, b - 1]
                [] t[a].kind = "VARIABLE" -> Leaf("parameter", a)
                [] OTHER -> Leaf("constant", a)
        IN  IF a > b THEN None
            ELSE IF infixes = { } THEN operand
            ELSE IF marks = { } THEN split(Greatest(candidates))
            ELSE IF t[question].value = "?" /\ OwnColons(t, marks, question) # { } THEN ternary
            ELSE split(question)
  IN  tree[1, Len(t)]

-----------------------------------------------------------------------------
(* The outcome of a tree, when Get has returned what env says for the       *)
(* parameters asked for so far; Needs(at) means it depends on one more.     *)

Needs(at) == <<"needs", at>>
Asked(env, at) == IF at \in DOMAIN env THEN env[at] ELSE Needs(at)

(* The left value alone decides the outcome; a constant of the type of the   *)
(* question mark's left side does not matter any more.                       *)
Decides(operator, l) ==
  \/ operator \in { "AND", "TERNARY_TRUE" } /\ l = Bool(FALSE)
  \/ operator = "OR" /\ l = Bool(TRUE)
  \/ operator \in { "COALESCE", "TERNARY_FALSE" } /\ l # Nil
Decision(operator, l) == IF operator = "TERNARY_TRUE" THEN Nil ELSE l

(* A function or an accessor returns a value, or its failure is an error. *)
Called(outcome) == IF IsValue(outcome) THEN outcome ELSE Error

(* The outcome of a node for the values of its subtrees. *)
Combined(operator, l, r, checks) ==
  CASE operator = "ensureSlice" -> Value(ensureSlice(r))
    [] operator = "ensureCollectedArgs" -> Value(ensureCollectedArgs(r))
    [] operator = "FUNCTIONAL" -> Called(Function(FunctionArgs(r)))
    [] OTHER -> IF checks /\ ~TypeChecked(operator, l, r) THEN Error ELSE Apply(operator, l, r)

(* What Continue makes of the value of an outcome, or an outcome without a   *)
(* value as it is.                                                           *)
Then(outcome, Continue(_)) ==
  CHOOSE result \in { IF IsValue(o) THEN Continue(o[2]) ELSE o : o \in { outcome } } : TRUE

RECURSIVE Meaning(_, _, _, _)
Meaning(x, constants, checks, env) ==
  LET right(l) ==
        Then(Meaning(x[4], constants, checks, env),
             LAMBDA r : IF x[1] = "ACCESS"
                          THEN Then(Asked(env, x[2]), LAMBDA v : Called(Access(v, AccessorArgs(r))))
                          ELSE Combined(x[1], l, r, checks))
  IN  IF x = None THEN Value(Nil)
      ELSE CASE x[1] = "parameter" -> Asked(env, x[2])
             [] x[1] = "constant" -> Value(constants[x[2]])
             [] x[1] = "emptySlice" -> Value(Slice(<< >>))
             [] x[1] = "collectedArgs" -> Value(Args(<< >>))
             [] OTHER ->
                  Then(Meaning(x[3], constants, checks, env),
                       LAMBDA l : IF Decides(x[1], l) THEN Value(Decision(x[1], l)) ELSE right(l))

=============================================================================
