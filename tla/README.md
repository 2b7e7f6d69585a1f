# govaluate in TLA+

govaluate turns the text of an expression into tokens, checks them, plans a tree
of *evaluation stages*, rewrites that tree twice, and then evaluates it any
number of times against parameters the user supplies. This directory holds a
model of that pipeline from the characters to the answer, of the SQL output and
of everything expressions share, the TLC runs that check it, and TLAPS proofs of
what matters most. All definitions are translated from
`src/`; `PROJECT.json` maps each to its lines.

- [The system](#the-system)
- [The modules](#the-modules)
- [The runs](#the-runs)
- [What is proved](#what-is-proved)
- [Abstractions](#abstractions)
- [Findings](#findings)
- [The plan](#the-plan)

## The system

### Components

| component | state | operations | what makes it correct |
|---|---|---|---|
| tokens and tables (`TokenKind.go`, `OperatorSymbol.go`) | none | the tables from texts to symbols, the rank of a symbol | planner levels and ranks say the same order |
| lexer (`lexerStream.go`, `readToken` in `parsing.go`) | a rune and a byte cursor | read, rewind, classify a token | the two cursors agree, a rewind undoes exactly what was read |
| syntax check (`checkBalance`, `checkExpressionSyntax`, `optimizeTokens`) | the list, a position, the state of the table | one pass each over the list | accepts exactly the table's language; compiles literal patterns and changes nothing else |
| stage planner (`stagePlanner.go`) | the token stream, the Go stack of the descent, the stages | one function per precedence level, ternaries, functions, accessors, values | ends, reads no token too many, uses every operand once |
| reordering (`reorderStages`, `mirrorStageSubtree`) | the stages, the run collected so far | walk down the right children, mirror a run of one rank | operators of one rank are read from the left, nothing is lost |
| elision (`elideLiterals`, `elideStage`) | the stages | replace an operator between literals by its value | no answer changes; failures are left to the evaluation |
| evaluation (`Eval`, `evaluateStage`) | the Go stack | left, short circuit, right, type check, operator | the answer of the written expression; no parameter asked for in vain; no panic with `ChecksTypes` |
| parameters (`parameters.go`, `sanitizedParameters.go`) | a pooled wrapper | `Get` of the user, conversion of numbers | one evaluation sees its own parameters |
| functions and accessors (`evaluationStage.go`) | a cache of reflection results | calls of user code, `recover` | arguments arrive as written, a panic becomes an error, the cache does not change a result |
| regex cache (`evaluationStage.go`) | a shared map | look up, compile and store, reset | a cached pattern is what compiling would give |
| stage cache (`cache.go`, build tag `cache`) | shared maps of weak pointers | look up or make a leaf stage, clean-up by the collector | a shared stage is never written to |
| pools (`tokenStream.go`, `lexerStream.go`, `parsing.go`, `EvaluableExpression.go`) | four `sync.Pool`s | take, give back, leave out | an object has one user, who finds nothing of others in it |
| token samples (`parsing.go`) | a window of counts under a mutex | average, add | the window is that of the last counts; nobody keeps the mutex |
| argument arrays (`separatorStage`) | the user's slices and those made for arguments | append, call | a list holds its own arguments for as long as anybody has it |
| token accessors (`Tokens`, `Vars`, `CleanupTokens`) | the caller's token slice | show, forget | an expression shows the tokens it was planned from |
| SQL output (`EvaluableExpression_sql.go`) | a list of transactions | one per token, some take back the last | the text means what the tree means |

### How they interact

A constructor runs in the goroutine of its caller: tokens → `checkBalance` →
`checkExpressionSyntax` → `optimizeTokens` → `planStages` (the descent, then
`reorderStages`, then `elideLiterals`, then a check that every stage has an
operator). Any pass may refuse the list. `Eval` may then be called at any time
and calls out to the user: `Parameters.Get`, functions, methods found by
reflection. The descent and the evaluation share the stages; the passes between
them rewrite the stages *in place*. The caches and pools are shared by all
goroutines of the process.

### What is hard

- **A wrong tree that looks right.** The descent is right-recursive, so every
  left-associative chain comes out backwards and is mirrored later, in place,
  by four loops over child slots. Which stages form a chain is decided from
  their ranks alone, walking down right children while the walk itself
  changes what it walks over.
- **A table in another file.** `planFunction` reads a token without asking
  whether there is one, and `planValue` skips the end of a clause without
  looking at it: whether that is right depends on the table of the syntax
  checker, and on a count of parentheses that does not check their order.
- **Types found out late.** An operator asserts the types of its operands;
  the checks that protect it travel separately, in fields that mirroring
  copies and elision replaces, and a skipped right side is a number standing in
  for a value that does not exist.
- **Constant folding runs user-visible operators at compile time**, where a
  failure has to be invisible.
- **Sharing.** Leaf stages (build tag `cache`), regexes, accessor results,
  pooled objects, the caller's token slice and the user's arrays are shared
  between evaluations.

## The modules

Each module of the pipeline continues the specification of the one before it, so
the last one is the whole run of a constructor and one evaluation.

```
Tokens
  └─ SyntaxCheck ── SyntaxCheckProofs
       └─ StagePlanner ── StagePlannerProofs
            └─ Compile ─┬─ CompileReference
       (Values) ────────┘
                 └─ Evaluation ── EvaluationProofs
                      └─ EvaluationReference ── INSTANCE Expression
MirrorStages ── MirrorStagesProofs            (ExpressionTree)
```

**Tokens** has the token kinds, the successor table of the syntax checker and
the operator tables. A token is `[kind, value]`; the value of an operator is
its text, any other value says only what the code can tell about an
`interface{}` (`ok`, `nil`, wrong type, a pattern that does not compile, ...).

**SyntaxCheck** is the three passes, one action per iteration; `given` is the
caller's list, `tokens` what `optimizeTokens` makes of it, `index` the
position, `parens` and `state` the pass's variables. It is compared with the
token language stated over the whole list (`WellFormed` and its parts). A list
may come from the lexer or from `NewEvaluableExpressionFromTokens`, so nothing
is assumed of it but the types of its tokens.

**StagePlanner** is the recursive descent with its stack made explicit: a frame
for every planner function that has not returned. A step runs the top function
from one call to the next (`pc`). `stages` is the heap of stages; a
stage is a place in it and `NilStage` is nil. A `next()` that is undone by
`rewind()` is a test of `Token`. `precedencePlanner` is the table `init()`
builds; the ternary modes, functions, accessors, values and clauses are
actions of their own. `misclosed` counts the clauses that were closed by
something else than a `CLAUSE_CLOSE`; it is history and guards nothing.

**MirrorStages** is `mirrorStageSubtree` with `swapWith` alone, one action per
swap, for a chain of any length. It is a module of its own because the
invariants of its four loops are the point; in **Compile** the same function is
one step, an operator that computes its effect.

**Compile** is `reorderStages` and `elideLiterals`, again with explicit stacks:
an iteration of the walk is `WalkRight` (go down, and reorder the left subtree
first) followed by `PassTernary`, `ExtendRun` or `BreakRun`; `ElideChild` and
`ElideStage` are the visits of the elision. `program` is the heap as these
passes rewrite it, `literals` gives every literal token a value of its type.

**Values** is the value domain and the stage functions of `evaluationStage.go`
with their failures: an outcome is a value, an error, a failed type assertion
or the panic of comparing uncomparable values. Arithmetic, order, patterns,
functions and accessors are operator parameters.

**Evaluation** is `Eval` and `evaluateStage` with its stack. `Get` returns any
of `ParameterValues` or an error, on every call; `env` records what it
returned.

**ExpressionTree**, **Expression** are the abstract specification: the tree a
reader sees in the tokens (split at the weakest operator, the last one of a
left-associative level) and an evaluation that asks for a parameter only if the
outcome depends on it. They know no stages, runs or short circuits.
**CompileReference** and **EvaluationReference** compare the two: the tree after
reordering is the tree of the reader, and every behaviour of `Evaluation` is a
behaviour of `Expression` under the mapping of `Promise`.

The other modules stand beside the pipeline, because what they are about is
invisible in it: characters, or what is shared.

```
Tokens ─┬─ Lexer ─┬─ MCLexer            LexerStream is EXTENDed by Lexer
        │         └─ LexerProofs
        └─ SqlOutput ─┬─ MCSqlOutput
                      └─ SqlOutputProofs
SyntaxCheck ── TokenSharing ─┬─ MCSyntaxCheck
                             └─ TokenSharingProofs

Process ─┬─ RegexCache ─────┐
         ├─ StageCache ─────┤   StageCache ── INSTANCE StageSource
         ├─ Accessors ──────┤
         ├─ TokenSamples ───┼─ MCShared ── SharedProofs
         ├─ Pools ──────────┤
         └─ ArgumentArrays ─┘
```

**LexerStream** is `lexerStream`: the source as bytes and as runes with a cursor
into each. `readCharacter`, `rewind(1)` and `rewind(-1)` (`forward`) are
operators from stream to stream; `unicode/utf8` is external and modelled by the
table `Encoding`.

**Lexer** is `parseTokens`, `readToken` and `readUntilFalse` on such a stream.
`reader` holds the local variables of `readUntilFalse`: what is being read
(`mode`, which stands for the condition function and the two flags), the buffer,
and `reuse`, `trim`, `conditioned`. A turn of its loop is an action; so is the
start of a token and what is made of its text. `LexAgain` reads another source
with a stream from the pool, which is left as the previous source left it.
Whether a text is a number or a date, and what unicode says of a rune, are
constants.

**SqlOutput** is `ToSQLQuery`. A transaction is kept as the numbers of the tokens
it was written from, that of an operator between those of its operands. The
recursive calls of `findNextSQLString` form the stack `pending`, and `Completed`
is what the outermost one returns.

**TokenSharing** runs the passes of SyntaxCheck on the same slice again and again
(`CallAgain`); `expressions` are those that were built, `Accept` and `Reject` end
a call, `CleanupTokens` cuts an expression's slice to nothing.

**Process** declares `Goroutines`, which the modules of shared structures have in
common.

**Accessors** is the loop of `makeAccessorStage` for several goroutines over
`accessorLookupCache`. A struct type is a table of members in the order
reflection sorts them; a method of the pointer type is in the pointer's method
set only, so that the same method has two indices. `LoadLookup` and
`StoreLookup` are `resolveAccessor`.

**RegexCache** is `compileRegex` and `ResetRegexCache`, one action per operation on
the `sync.Map`. `Range` promises little about keys that come and go while it
runs: `RangeVisit` may come to such a key or not.

**StageCache** is the cache of leaf stages, and with `cacheTag` false the build
without it. A stage is a place in memory that is free again when no weak pointer
names it; the collector (`CollectStage`) may take a stage whenever only weak
pointers do. **StageSource** is what both builds promise the planner: a stage in
use that was made for the key asked for.

**TokenSamples** has the two critical sections of `parseTokens`, **Pools** the
stack of package calls on each goroutine with the pooled object of each.

**ArgumentArrays** is a heap of arrays with capacities under
`ensureCollectedArgsStage`, `separatorStage` and `makeFunctionStage`. A separator
appends to *any* `[]interface{}` it finds on its left (`SeparateSlice`): the
user's slice, or the list that a function was called with, which
`makeFunctionStage` hands over itself, spare capacity included, and which the
function may keep and return, whole or cut shorter, to any expression that calls
it. Each list remembers the values it was given (`given`) and the slice it was
begun with (`left`).

**MCShared** puts these six together. `ProcessSpec` is their composition, in which
the same goroutines take steps of all of them in any order. They have no variable
in common and none calls another one while it holds a lock or between two steps on
its structure, so TLC on the product would only repeat each of them in every state
of the others. What TLC checks is `Spec`, their sum: a behaviour is about one
`part`, and there is one type invariant and one liveness property over all. The
theorems are about `ProcessSpec`, and `SumIsProcess` says that the behaviours of the
sum are some of its behaviours.

The remaining modules, `MC*`, choose inputs and constants for TLC.

## The runs

| run | module | states it asks about |
|---|---|---|
| `mirror` | MirrorStages | chains of 2 to 12 stages |
| `syntax_check` | MCSyntaxCheck | lists of up to 3 tokens of any kinds, of up to 6 around clauses, of up to 4 around patterns, of up to 5 around patterns and ternaries; three calls with each |
| `compile` | MCCompile | balanced lists the table admits: 8 tokens of clauses, 9 of ternaries, 7 of calls; every two of twelve operators between three operands; values of refused types (all from MCStagePlanner); chains of 6 operators; 6 tokens of prefixes |
| `evaluation` | MCEvaluation | all pairs, selected triples and 26 longer shapes of operands, literals and parameters |
| `lexer` | MCLexer | sources of up to 3 of 12 characters, five encodings in between ten beginnings and eight ends, 21 longer ones; after each of them another one with the same stream |
| `sql_output` | MCSqlOutput | lists a constructor lets through: 4 tokens of any kind, 6 of calls, signs and parentheses |
| `shared` | MCShared | two goroutines, and: two patterns; two cached keys and one that panics, four places in memory, both builds; two struct types with four names, seven accessors; three parses, a window of two; calls two deep, two objects of a kind; three argument lists of up to three arguments that begin with values, with a slice with or without spare capacity, or with one another, cut by up to one element |

What they show:

- `mirror`: between any two swaps each operand is in exactly one place
  (`NothingLost`), and at the end the chain is the left-leaning one of the
  written order (`Mirrored`). The loops depend on the length only through
  `n/2` and its parity and move at most two ends at a time; 12 covers both
  parities several times over. The theorems cover every length.
- `syntax_check`: the passes accept exactly the well-formed lists
  (`AcceptedWellFormed`, `RejectedMalformed`) and compile the literal patterns
  and leave everything else alone (`PatternsPrecompiled`). On a slice that is
  used again, an expression shows what it was planned from whatever is done to
  the slice (`TokensAsPlanned`), a list that was refused stays refused, and one
  that was accepted is refused later for one reason only (`VerdictsStand`). The
  table looks at two neighbours, a pattern at its operator: three tokens of any
  kind hold every combination, and the longer alphabets add nesting and lists
  with two patterns, of which the second fails. Every call compiles all it can,
  so the third call shows nothing new.
- `compile`, the descent: it never reads past the end (`NoPanic`), a planned
  expression had its clauses closed by the right tokens (`ClausesMatched`),
  every stage is in exactly one place at every moment (`HeldOnce`), function
  arguments are packed (`ArgumentsPacked`). The
  alphabets are the parts of the planner that interact; 8 tokens nest three
  clauses and 9 hold a ternary in each branch of a ternary.
- `compile`, the passes: the tree is the reader's (`ReadAsWritten`), leaf stages that the
  stage cache would share are never written to (`LeavesUntouched`), runs hold
  stages of different places (`CompileTypeOK`), and the descent and both passes
  end (`CompileReturns`). A chain of six
  operators of three ranks has runs that begin, break and begin again.
- `evaluation`: same outcome, same parameters asked for in the same order as the
  abstract expression (`EvaluatesAsWritten`), no failed assertion under
  `ChecksTypes` (`TypeChecksSuffice`), every evaluation answers. Parameters are
  nil, true, false, an `int`, a string, an array, or an error, independently for
  every `Get`. Three operands are what two operators need; the longer shapes
  are there for nesting (ternary in ternary, call in call, clause in clause,
  constant left part).

- `lexer`: the stream is that of the source it was opened with, and its cursors
  agree wherever the source is not valid UTF-8 or holds the replacement character
  itself (`StreamInSync`). Each token has the text written at its place,
  whichever of the two ways the text was taken, the tokens with white space
  between them are all of the source, and literals end at their own terminator
  (`TextAsWritten`); every source comes to an end (`LexEnds`). Three characters
  hold every look-ahead; the pieces put a rune of two or three bytes, or a broken
  one, next to each of the places where the lexer decides how to take the text.
- `sql_output`: the query names every token once and in order (`KeepsTokens`); an
  error is that of the first token SQL has nothing for (`SqlHas` is the table of
  those it has something for), or says that one is missing at an end of the list,
  and no query leaves such a token out (`FailsOnlyUnsupported`). That the order of
  tokens is kept does not mean that calls get their operands: see `sql_operands`. A call takes back
  one transaction; six tokens hold a call in the operand of a call and two in a
  row.
- `shared`, regexes: answers are those of compiling (`AnswersCompiled`), a reset
  leaves nothing that is older than itself (`ResetDropsOld`). Two goroutines are a
  reset beside a compile or beside another reset; two patterns let one be put
  back behind the range while the range goes on to the other.
- `shared`, stages: nobody has a collected stage and entries are of their key
  (`StagesSafe`) although a late delete may throw a new one away, and the cache
  implements StageSource (`KeepsPromise`), also in the build without it and
  although an unhashable constant may panic in the map. The four places are as
  few as let two constructors always find a free one (`EnoughStages`), so memory
  is used again. `Uncacheable` is empty: such a constant is treated as every key
  is without the tag.
- `shared`, accessors: the index of a lookup picks the member the expression names
  on the receiver at hand, and an access only fails to find a member that Go
  would find if that is a method of the pointer type (`AccessesAsDeclared`). In
  the types the two method sets are numbered differently, which is all that an
  index can get wrong.
- `shared`, samples: the window is that of the last counts and the hint that is
  read belongs to it (`HintOfLast`). A window of two is full after two parses
  and slides with the third.
- `shared`, pools: an object has one user (`UsedOnce`) and holds nothing of others
  when it is used (`OwnContents`), also after errors that leave objects out,
  panics, and user code that calls the package again. Depth two is an evaluation
  in the user code of another, or a buffer in use within a lexer stream in use.
- `shared`, arguments: the arguments of a list that is gathered or kept, and the
  elements of the user's slice, change only behind a slice that is *shared*:
  separators found it on their left twice (nested, one after the other or in two
  goroutines), or once after user code had cut it out of a longer one
  (`ChangedOnlyIfShared`). Lists that begin with no slice, and those that begin with
  one nobody else begins with, stay. That it happens with a shared one is the finding
  of `nested_calls`. Three lists hold a function's list, kept with room to spare, and
  two others that begin with it.
- `shared`, all: every compile, reset, demand for a stage, access and parse ends
  whatever the other goroutine does (`CallsReturn`). The patterns are finitely many:
  whether the `Range` of a reset ends while others store ever new keys is not asked.

The `violation` runs are described under [Findings](#findings).

**Fairness.** Each specification of sequential code has weak fairness of its whole
next-state action and of nothing else. The constructor and `Eval` are sequential code
without locks, channels or I/O, run by one goroutine until they return; the
scheduler eventually runs a runnable goroutine. In `Evaluation` it includes that
the user's `Get` and functions return; `Lexer` has it for the steps of a call, not
for another call. The concurrent specifications (`Accessors`, `RegexCache`,
`StageCache`, `TokenSamples`) have weak fairness of each goroutine's steps, and
none of new calls, drops or the collector. `TokenSamples` has strong fairness of
taking the mutex: a `sync.Mutex` is handed to a goroutine that has waited for a
millisecond. `TokenSharing`, `Pools`, `ArgumentArrays` and `SqlOutput` are only asked
for safety and have none.

**Deadlock.** A finished constructor, evaluation or query stutters explicitly
(`Returned` and its like), so a state in which the code would hang is a deadlock
for TLC. Deadlock is not checked in `syntax_check`, `shared`, `nested_calls` and
`accessor_cache`, where the bounds on calls, parses and lists let a behaviour end;
`CallsReturn` says there that nobody is left waiting.

## What is proved

Every invariant a run checks is a theorem as well, for every value of the
constants, except the two comparisons with the abstract specification
(`ReadAsWritten` and the refinement `EvaluatesAsWritten`).

| theorems | module | about |
|---|---|---|
| `TypeCorrect`, `NoStageLost`, `MirrorIsCorrect` | MirrorStagesProofs | mirroring, for every length |
| `CheckTypeCorrect`, `OnlyWellFormedAccepted`, `OnlyMalformedRejected`, `LiteralPatternsCompiled` | SyntaxCheckProofs | the three passes, for every list |
| `TokensStayAsPlanned`, `VerdictsAlwaysStand`, `EveryCallChecks` | TokenSharingProofs | any number of constructors on one slice |
| `PlanTypeCorrect`, `NeverPanics`, `AllClausesMatched`, `AllArgumentsPacked`, `EveryStageHeldOnce` | StagePlannerProofs | the descent, for every list |
| `CompileTypeCorrect`, `LeavesStayUntouched`, `EvaluationTypeCorrect`, `TypeChecksAlwaysSuffice` | EvaluationProofs | compilation and evaluation, for every list, all literals and parameters |
| `RunsMirroredByLoops` | EvaluationProofs | the one step of `Compile` that mirrors a run is what the loops of `MirrorStages` do |
| `LexInvariant`, `LexerTypeCorrect`, `CursorsStayInSync`, `TokensAsWritten`, `LexerAdvances` | LexerProofs | the stream and the lexer, for every string of bytes and every encoding of the kind of UTF-8 |
| `SqlTypeCorrect`, `EveryTokenKept`, `FailuresExplained` | SqlOutputProofs | the SQL output, for every list |
| `AllAnswersCompiled`, `ResetsDropOld`, `AllStagesSafe`, `PromiseKept`, `AllAccessesAsDeclared` | SharedProofs | the three caches, for any goroutines, keys, types and names |
| `ObjectsUsedOnce`, `ContentsStayOwn`, `HintsOfLast`, `ArgumentsChangeOnlyIfShared` | SharedProofs | pools, samples, argument arrays |
| `AllPartsSafe`, `SharedPromiseKept` | SharedProofs | the shared parts together, used by the same goroutines in any order (`ProcessSpec`) |
| `SumIsProcess`, `SharedTypeCorrect` | SharedProofs | the sum of the parts that TLC checks |

### Assumptions

The pipeline assumes `InputsAssumption` (the inputs are sequences of tokens of the
kinds in `Tokens`) and nothing of the constants of `Values`; `MirrorStages` that
lengths are naturals greater than one. `SqlOutput` assumes of the lists of an
expression that an operator is followed by what the table allows
(`ExpressionsAssumption`), as the syntax check has seen to; without it a call could
take back what stands before a sign that waits. `LexerStream` assumes of the
encoding what UTF-8 promises (`EncodingAssumption`): bytes of longer runes are not
ASCII, the first byte of a rune says how long it is and is found at no later place
of any rune. Nothing is assumed of the strings that are parsed, which need not be
UTF-8. `LexerAssumption` has what the code takes for granted of unicode (letters,
digits and spaces are distinct classes, and the punctuation is in none of them) and
that the empty text is no number and no operator. The shared parts assume that a
pattern that compiles is one (`RegexAssumption`), that bounds are naturals
(`DepthAssumption`, `SizesAssumption`, `SamplesAssumption`), that the placeholder of
"no goroutine" is none (`SamplesAssumption`), and that the declared members are
those of the types (`AccessorAssumption`). All are checked by TLC in the runs.
How many goroutines there are is nowhere assumed.

### The arguments

- **MirrorStages.** The invariant is one clause per loop: which child slots
  are already final, which still hold the written chain, and that the carried
  stage is the one missing. `NothingLost` and `Mirrored` follow from it.
- **SyntaxCheck.** `CheckIInv` says for each pass that the prefix up to `index`
  satisfies that pass's condition and that `tokens` is `given` with the
  patterns of the prefix compiled; at the end the prefix is the list.
- **TokenSharing.** A call on a slice that was used before meets patterns where
  there were strings. `SharingIInv` says that the slice is always the given list
  with some of its literal patterns compiled (`CompiledFrom`), and that after an
  accepting call nothing is left to compile and no pass can fail on it except where
  a ternary follows a pattern (`Settled`); so each expression keeps showing what it
  was planned from. That a list which was rejected stays rejected is
  `CompilingRepairsNothing`: the table allows a pattern nothing it denies a string.
- **StagePlanner.** `NoPanic` is not inductive: that `planFunction` has a token
  to read follows from the token before it, which the syntax check allowed
  there only if the list goes on. `PlanIInv` keeps `CheckIInv`, gives every
  frame the tokens and stages it may refer to (`FrameOK`), and links a frame to
  the one that called it (`DepthLink`, `CallerOK`). `ClausesMatched` needs a
  count: every clause that was closed by another token leaves one open
  parenthesis behind, so the open parentheses at `index` are at least those the
  stack waits for plus `misclosed`. At the end of a balanced list none is
  open and the stack is empty, so `misclosed` is 0. `ArgumentsPacked` needs
  that the frame above a waiting function call is the one for the clause
  right behind the name.
- **HeldOnce.** A planner function has two hands, what its frame keeps for the left
  and what the last call returned. `HeldWith` says that every stage is held exactly
  once, by a child slot of a stage, by a frame or by one of the hands (`InHand` adds the
  order: frames hold stages in the order they were made). It is inductive
  only with `PostOrdered`: a stage is made after its children, the right one last,
  so that a subtree is a closed interval of stages that ends with its root; a
  function that gives up what it holds then gives it to one stage only. `HeldIInv`
  keeps this beside `PlanIInv`.
- **LeavesUntouched.** `mirrorStageSubtree` writes to all stages of a run, and a run
  may be made while the frames below it have collected stages of their own, so
  what a frame will still write to has to be known. `PassesIInv` gives every frame
  of `reorderStages` a *base* (`WalkBehind`): what it has left to walk is the interval between its
  base and its next stage, closed and as the planner made it; the stages of its run
  lie above, those of the frames on top of it at or below its base. A run of more
  than one stage has the rank of an operator, and a stage of a rank other than
  "value" is no leaf; and rank and leafhood are still those the planner gave,
  because mirroring moves them only within a run of one rank. The elision writes
  only to a stage that has a child.
- **TypeChecksSuffice** says that a panic does not happen *at the
  end of a call*; what has to be kept is that the checks and the symbol of a
  stage are those of its operator (`Fits`) wherever swaps and elision put them,
  and that children stay in the heap. `EvaluationIInv` keeps this through the
  descent (`OperatorFits` in `PlanIInv`), `StartReorder`, mirroring
  (`MirrorKeeps`), elision, which adds a stage and redirects a child
  (`ElideStageKeeps`), and evaluation. `ChecksSuffice` then shows, symbol by
  symbol, that what passes `TypeChecked` fails no assertion of `Apply`.
- **EvaluationTypeOK** is about a stack whose frames are linked by the child slots of
  a tree that the passes rewrote. `CallsIInv` keeps `PassesIInv`, that the tree no
  longer changes, that each call is at the child the one around it waits for
  (`Linked`), and that every operator ends with an outcome, never with the mark of
  an answer that is still to come (`OperatorsAnswer`).
- **Mirroring, in `Compile` and in `MirrorStages`.** `RunBehind` says that what
  `reorderStages` has collected in a run is, stage by stage, a chain of right
  children as they are in the program, whatever was mirrored to the left of it in
  the meantime. `Loops` is `MirrorStages` with that run; `Shows` says what a
  configuration of its loops means in the heap of `Compile`. The initial state of
  the loops shows the program, and what they leave (`Mirrored`, by
  `MirrorIsCorrect`) shows `mirrorStageSubtree(run)`, for runs of every length.
- **Lexer.** A cursor in bytes that goes back looks at bytes only, while
  `CursorsInSync` is about runes, so the invariant has to say that the byte cursor is
  at a place where decoding from the front would stand too. That going back from there
  finds the same place (`LastWidth`) is where the promise of UTF-8 is needed, also
  among bytes that are no rune. `LexIInv` keeps this, and for a text that is being
  read: what the buffer holds is the meaning of the runes read so far
  (`BufferMeant`), and while the text may be cut out of the source string, the bytes
  from its start to the cursor are that buffer (`CutOut`); what may stand first in a
  text of each mode (`FirstFits`) and last (`EndFits`). `TextAsWritten` follows when
  a token is made of it. That the runes, bytes and meanings are well defined, and how
  they continue from one place to the next, are lemmas (`Upto`, `Together`,
  `StrungTogether`). `LexerAdvances` is the part of `LexEnds` that needs no fairness:
  each step of a call takes it on, so that none repeats for ever although the code
  rewinds up to two runes before it reads on.
- **SqlOutput.** The transactions and what the operators wait with are, one behind
  the other, runs of consecutive numbers from 1 to `index` (`Chained`). A call takes
  back the last transaction; that this is the last thing read is so because
  nothing can wait then: the token before would be an operator, and the table
  allows no operator of two operands there. `NestedRuns` shows that the calls
  which return with an operand join what waited with it in order.
- **Regex cache.** A compiled expression in the map is that of its key; while a
  reset ranges, what is cached was touched since or is still due (`RangeInv`).
- **Stage cache.** What a call has in its hands was made for its key (`CallInv`),
  and a place is free only when neither a user, a call nor a pointer of the map
  refers to it. `PromiseKept` maps each step to a step of StageSource or a stutter.
- **Accessors.** An index within a sorted method set determines the name, for
  values and for pointers separately (`LookupPicks`); an entry is one that some
  receiver of the type would give (`LookupsInv`).
- **Pools.** No object of a call is in its pool or in another call (`ObjectsOwned`),
  and a lexer stream goes back empty, because `newLexerStream` appends to what is
  there (`StreamsCleared`).
- **Samples.** The critical sections exclude each other, the window holds the last
  counts, and between the sections the hint is their average.
- **Argument arrays.** A value in a list may change while a third list is gathered
  in the same array, or be copied, changed already, into a new array when the list
  outgrows its own. So the invariant is about places: a place of an array is
  `Exposed` when a shared slice of that array ends before it, and what a list was
  given is at its place, or the place is exposed in the array the list is in or in
  the one it was begun in (`Kept`). An append writes behind the end of a slice, and
  what is there belongs to a list that goes on behind that end. If the slice is one
  that was called, some list was begun with it (`Continued`), and the append makes it
  shared; if it is the list being gathered, either nobody is in its way in the array
  it was begun in unless that place is exposed (`Unhindered`), or it has an array for
  itself (`Alone`). The user's slice is treated as one more list that was called.
- **The parts together.** Each part's invariant is over its own variables, so a step
  of one part leaves the others' as they are (`ProcessSteps`).

The provers have no induction for operators. `Least` and `Induction` derive it for
sets of numbers from the well-foundedness of `<` (and again in SqlOutputProofs and
LexerProofs, which have other variables); `Recursion` gives from it the functions that are
defined from their value at the number before, such as those in `Total`,
`Completed` and `FlattenSeq`.

### Only model-checked

- Liveness (`CompileReturns`, `Answers`, `LexEnds`, `CallsReturn`), which needs
  `ENABLED`.
- The comparisons with `ExpressionTree` (`ReadAsWritten`, `EvaluatesAsWritten`): the
  tree of a list and what it means are recursive definitions over data, out of reach
  of the provers.

## Abstractions

- **Numbers** are free terms: two computations differ as soon as an operator or
  an operand differs. Rounding, overflow, and that NaN is not equal to itself,
  are not represented.
- **Strings** are sequences of printed pieces, so concatenation is associative
  and nothing else is known of it.
- **Arrays** of `Evaluation` are immutable sequences of type `[]interface{}` or
  `collectedArgs`; that `separatorStage` appends to a shared array is the
  subject of `ArgumentArrays`, where capacity grows to twice the length (Go's
  factor is external, and any growth leaves the old array alone). User code
  there reads its slices and cuts them shorter from the end (by at most `MaxCut` in
  the runs, by any length in the theorem); that it writes into them itself, extends
  them beyond their length or takes a part from the middle is left out. Arrays of
  other element types are left out.
- **Patterns, order, functions, accessors** are open constants; the runs give
  them a choice that depends on all arguments and includes failures, the proofs
  leave them open. Panics of functions and accessors become errors
  (`Recovered`).
- **Stages** are those of the build without the tag `cache`; `LeavesUntouched`
  is the condition under which sharing them would be sound.
- `mirrorStageSubtree` is one step of `Compile`: no other goroutine sees the
  stages of an expression before its constructor has returned, and that the step
  is what the loops do is `RunsMirroredByLoops`.
- `validateEvaluationStages` refuses a stage without an operator; `PlanTypeOK`
  says there is none, so the step that ends compilation has no guard.
- **Characters** are one representative or a few of each class the lexer tells
  apart; a name is put together from them, a number or date is a text that a
  constant says is one.
- **SQL text** is the numbers of its tokens; formatting of values is left out.
  A `NUMERIC` of another type than `float64`, which the planner converts, is
  refused by `ToSQLQuery`; it is one of the values of a wrong type.
- **Reflection** is a table of members; embedded structs, variadic methods and
  the conversion of arguments appear as what they lead to.
- **Keys of the stage cache** are equal or not; that a NaN constant never
  finds its entry and that 0 and -0 share one is not represented. Entries of
  collected stages are deleted only when their key is asked for again.
- **Concurrent constructors on one token slice** are a data race, excluded in
  `TokenSharing`; concurrent evaluations that write into one array are in
  `ArgumentArrays`, where each write is atomic.
- `CleanupTokens` cuts the slice to length 0 and keeps its array, so it saves no
  memory although its comment says so; the model has lengths only.
- Error texts, the type names in them, and the `String` methods are left out.
- `ReadAsWritten` excludes lists in which a clause that packs its content
  contains nothing but another clause (`PackedTwice`): there the code differs,
  see below.

## Findings

Each of these is a run that TLC must find violated:

1. **Doubled parentheses lose their packer** (`doubled_clause`, code bug).
   `reorderStages` takes the two clause stages of `f((a))` for a run of one rank
   and mirrors them. The packer of the arguments ends up below the plain one, so
   the function is called with a bare value: a nil `a` is dropped and an array
   is unpacked.
2. **`in` may panic under `ChecksTypes`** (`in_panic`). `inStage` compares with
   `==`; with an array on the left and an array of the same type inside the one
   on the right, Go panics. The field's comment promises an error message.
3. **Arguments of nested calls overwrite each other** (`nested_calls`, code bug).
   `separatorStage` appends to any slice on its left. With capacity to spare the
   arguments land in the array of that slice: `f(a, 1, g(a, 2))` calls `f`
   with 2 where it has 1, and concurrent evaluations race. No parameter is
   needed: `f(h(), 1, g(h(), 2))` does the same if `h` returns one slice twice,
   such as the arguments it was first called with. `ChangedOnlyIfShared` says when
   it can happen at all.
4. **A missing method is remembered for pointers too** (`accessor_cache`). The cache
   of accessors is keyed by the value type; a lookup by value of a method that only
   the pointer has makes later accesses by pointer fail. Its comment calls the lookups
   stable. `AccessesAsDeclared` says that nothing else is missed.
5. **SQL calls take single tokens for operands** (`sql_operands`, code bug):
   `(a + b) % c` is written `( [a] + [b] MOD(), [c])`, since the last transaction is
   the closing parenthesis. The right operand is one token too: `a ?? b * c` is
   `COALESCE([a], [b]) * [c]`, although `*` binds stronger. `KeepsTokens` shows that
   no token is lost on the way.

Other places where the code differs from what a reader expects. The models follow
the code; the property that comes nearest, and holds, is named:

- **The order of operators is not that of C**: `a & b == c` is read as
  `(a & b) == c`, and `==` binds as strongly as `<`, where `src/README.md` says that
  the standard order is respected. `ReadAsWritten` says that the planner's levels and
  the ranks of the reordering, which are two tables, at least agree with each other.
- **The end of a clause is not looked at**: in `((1)2)` the token that is skipped
  as `)` is the `2`. It does no harm: `ClausesMatched`, which is also proved,
  shows that such a list is always refused in the end.
- **A slice before a comma is spread**: `f(a, 1)` is called with the elements of
  `a` and 1, `f(a)` with one argument (`SeparateSlice` in `ArgumentArrays`).
- **A constant may panic the stage cache** (build tag `cache`): `canCacheConstant`
  looks at the outermost kind, and a struct that holds a slice cannot be hashed
  (`HashPanics`). `KeepsPromise` shows that nothing is left behind.
- **An escaped operator is an operator**: `\-a` at the start of a token is a minus
  sign (`Start` in `Lexer`).
- **Tokens of an expression may be refused**: a string that was compiled to a
  pattern may not be followed by `?` or `??`, so the `Tokens()` of
  `s =~ 'x' ? 1 : 2` are no expression any more. `VerdictsStand` says that
  nothing else changes a verdict.

## The plan

Done: the pipeline from characters to the answer, the SQL output, and all that
expressions share.

Done too are the proofs of every safety property but two: what the lexer reads
(`LexerProofs`), and that the mirroring of `Compile` is that of `MirrorStages`.

Left is the proof of `ReadAsWritten` and, on top of it, of `EvaluatesAsWritten`: the
planner would have to be shown to split every clause where the reader does, by an
induction over the lists of a grammar.

### Not modelled

Nothing that changes state is left out. What is not in the model is data:
formatting of numbers, dates and SQL values, error texts and `String` methods,
the parsing of numbers and dates (`strconv`, `time`), regular expression
matching, and the Go runtime's reflection, pools and collector, which are
external and appear as the outcomes they can have.
