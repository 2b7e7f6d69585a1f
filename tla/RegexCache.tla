----------------------------- MODULE RegexCache -----------------------------
(***************************************************************************)
(* compileRegex, called by evaluations in any number of goroutines for     *)
(* patterns that come from parameters, and ResetRegexCache, which any      *)
(* goroutine may call meanwhile.  A sync.Map makes each load, store and    *)
(* delete atomic and nothing more.                                         *)
(***************************************************************************)
EXTENDS Process

CONSTANTS
  Patterns,      \* the sources of patterns
  Valid          \* the patterns that compile

ASSUME RegexAssumption == Valid \subseteq Patterns

VARIABLES
  regexCompileCache,   \* the entry of each pattern, or NotCompiled
  compiles,            \* what each goroutine is doing
  visited,             \* the keys each reset has visited in its Range
  due,                 \* the keys that were there when it began
  touched              \* the keys stored or deleted since it began

regexVars == <<regexCompileCache, compiles, visited, due, touched>>

NotCompiled == "missing"
Compile(source) == IF source \in Valid THEN "pattern" ELSE "error"
RegexEntries == { "pattern", "error" }

NoSource == "none"
NoCompile == [pc |-> "idle", source |-> NoSource, result |-> NotCompiled]
RegexSteps == { "idle", "load", "store", "answered", "range", "delete", "reset" }

RegexInit ==
  /\ regexCompileCache = [p \in Patterns |-> NotCompiled]
  /\ compiles = [g \in Goroutines |-> NoCompile]
  /\ visited = [g \in Goroutines |-> {}]
  /\ due = [g \in Goroutines |-> {}]
  /\ touched = [g \in Goroutines |-> {}]

Cached == { p \in Patterns : regexCompileCache[p] # NotCompiled }
Ready(g) == compiles[g].pc \in { "idle", "answered", "reset" }
Resetting(g) == compiles[g].pc \in { "range", "delete", "reset" }
Touch(p) == touched' = [g \in Goroutines |-> IF Resetting(g) THEN touched[g] \cup { p } ELSE { }]

----------------------------------------------------------------------------
(* regexStage has a string for a pattern.                                    *)
CompileRegex(g, source) ==
  /\ Ready(g)
  /\ compiles' = [compiles EXCEPT ![g] = [pc |-> "load", source |-> source, result |-> NotCompiled]]
  /\ touched' = [touched EXCEPT ![g] = {}]
  /\ UNCHANGED <<regexCompileCache, visited, due>>

(* Mutant: an entry counts as a pattern, its error is forgotten. *)
ErrorlessLoad(g) ==
  /\ compiles[g].pc = "load"
  /\ IF compiles[g].source \in Cached
     THEN compiles' = [compiles EXCEPT ![g].pc = "answered", ![g].result = "pattern"]
     ELSE compiles' = [compiles EXCEPT ![g].pc = "store"]
  /\ UNCHANGED <<regexCompileCache, visited, due, touched>>

(* The entry that is there is the answer, an error too.                      *)
LoadRegex(g) ==
  /\ compiles[g].pc = "load"
  /\ IF compiles[g].source \in Cached
     THEN compiles' = [compiles EXCEPT ![g].pc = "answered", ![g].result = regexCompileCache[compiles[g].source]]
     ELSE compiles' = [compiles EXCEPT ![g].pc = "store"]
  /\ UNCHANGED <<regexCompileCache, visited, due, touched>>

(* Mutant: what was stored is looked up again. *)
ReloadingStore(g) ==
  /\ compiles[g].pc = "store"
  /\ LET p == compiles[g].source
     IN /\ regexCompileCache' = [regexCompileCache EXCEPT ![p] = Compile(p)]
        /\ compiles' = [compiles EXCEPT ![g].pc = "load"]
        /\ Touch(p)
  /\ UNCHANGED <<visited, due>>

(* Mutant: the entry of a pattern that does not compile is nil. *)
NilStore(g) ==
  /\ compiles[g].pc = "store"
  /\ LET p == compiles[g].source
     IN /\ regexCompileCache' =
              [regexCompileCache EXCEPT ![p] = IF p \in Valid THEN "pattern" ELSE "nil"]
        /\ compiles' = [compiles EXCEPT ![g].pc = "answered", ![g].result = Compile(p)]
        /\ Touch(p)
  /\ UNCHANGED <<visited, due>>

(* Compiled outside any lock, stored over what others may have stored.       *)
StoreRegex(g) ==
  /\ compiles[g].pc = "store"
  /\ LET p == compiles[g].source
     IN /\ regexCompileCache' = [regexCompileCache EXCEPT ![p] = Compile(p)]
        /\ compiles' = [compiles EXCEPT ![g].pc = "answered", ![g].result = Compile(p)]
        /\ Touch(p)
  /\ UNCHANGED <<visited, due>>

(* ResetRegexCache begins to range over the entries.                         *)
Reset(g) ==
  /\ Ready(g)
  /\ compiles' = [compiles EXCEPT ![g] = [NoCompile EXCEPT !.pc = "range"]]
  /\ due' = [due EXCEPT ![g] = Cached]
  /\ visited' = [visited EXCEPT ![g] = {}]
  /\ touched' = [touched EXCEPT ![g] = {}]
  /\ UNCHANGED regexCompileCache

(* Range comes to a key, to none twice; a key stored or deleted meanwhile it *)
(* may come to or not.                                                       *)
RangeVisit(g, p) ==
  /\ compiles[g].pc = "range"
  /\ p \in (Cached \cup touched[g]) \ visited[g]
  /\ visited' = [visited EXCEPT ![g] = @ \cup { p }]
  /\ compiles' = [compiles EXCEPT ![g].pc = "delete", ![g].source = p]
  /\ UNCHANGED <<regexCompileCache, due, touched>>

(* Mutant: the function given to Range returns false, which ends it. *)
StoppingDelete(g) ==
  /\ compiles[g].pc = "delete"
  /\ regexCompileCache' = [regexCompileCache EXCEPT ![compiles[g].source] = NotCompiled]
  /\ compiles' = [compiles EXCEPT ![g] = [NoCompile EXCEPT !.pc = "reset"]]
  /\ Touch(compiles[g].source)
  /\ visited' = [visited EXCEPT ![g] = {}]
  /\ due' = [due EXCEPT ![g] = {}]

(* The function it is given deletes by the key, whatever is stored there by  *)
(* now.                                                                      *)
DeleteRegex(g) ==
  /\ compiles[g].pc = "delete"
  /\ regexCompileCache' = [regexCompileCache EXCEPT ![compiles[g].source] = NotCompiled]
  /\ compiles' = [compiles EXCEPT ![g] = [NoCompile EXCEPT !.pc = "range"]]
  /\ Touch(compiles[g].source)
  /\ UNCHANGED <<visited, due>>

(* Range ends when it has visited all keys that were there all the time.     *)
RangeEnds(g) ==
  /\ compiles[g].pc = "range"
  /\ due[g] \subseteq visited[g] \cup touched[g]
  /\ compiles' = [compiles EXCEPT ![g] = [NoCompile EXCEPT !.pc = "reset"]]
  /\ visited' = [visited EXCEPT ![g] = {}]
  /\ due' = [due EXCEPT ![g] = {}]
  /\ UNCHANGED <<regexCompileCache, touched>>

RegexStep(g) ==
  LoadRegex(g) \/ StoreRegex(g) \/ DeleteRegex(g) \/ RangeEnds(g) \/ \E p \in Patterns : RangeVisit(g, p)

RegexNext ==
  \E g \in Goroutines : RegexStep(g) \/ Reset(g) \/ \E p \in Patterns : CompileRegex(g, p)

(* Every goroutine that can go on is run.                                    *)
RegexFairness == \A g \in Goroutines : WF_regexVars(RegexStep(g))

RegexSpec == RegexInit /\ [][RegexNext]_regexVars /\ RegexFairness

----------------------------------------------------------------------------
(* The cache, the compiles and the keys of the resets have their types.      *)
RegexTypeOK ==
  /\ regexCompileCache \in [Patterns -> RegexEntries \cup { NotCompiled }]
  /\ compiles \in [Goroutines -> [pc : RegexSteps, source : Patterns \cup { NoSource },
                                  result : RegexEntries \cup { NotCompiled }]]
  /\ visited \in [Goroutines -> SUBSET Patterns]
  /\ due \in [Goroutines -> SUBSET Patterns]
  /\ touched \in [Goroutines -> SUBSET Patterns]

(* "Concurrent compiles of the same pattern are benign" (the comment on      *)
(* regexCompileCache): whatever the order of loads, stores and deletes, an   *)
(* evaluation gets what compiling its own pattern gives, errors included.    *)
AnswersCompiled ==
  \A g \in Goroutines : compiles[g].pc = "answered" => compiles[g].result = Compile(compiles[g].source)

(* ResetRegexCache "drops all entries": when it returns, an entry that is    *)
(* there was stored after it was called; an older one is gone, also when     *)
(* another reset or a compile was under way.                                 *)
ResetDropsOld ==
  \A g \in Goroutines : compiles[g].pc = "reset" => Cached \subseteq touched[g]

=============================================================================
