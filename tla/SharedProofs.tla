---------------------------- MODULE SharedProofs ----------------------------
(***************************************************************************)
(* Proofs about what the expressions of a process share, for any number of *)
(* goroutines, keys, types and names: the three caches, with the           *)
(* refinement of StageSource, the pools, the token counts and the arrays   *)
(* of slice parameters; and about all shared parts together.               *)
(***************************************************************************)
EXTENDS MCShared, FiniteSetTheorems, SequenceTheorems, WellFoundedInduction, TLAPS

(***************************************************************************)
(* RegexCache                                                              *)
(***************************************************************************)

(* A goroutine that has a pattern to look up, to store or to delete.         *)
SourcesInv ==
  \A g \in Goroutines :
    compiles[g].pc \in { "load", "store", "answered", "delete" } => compiles[g].source \in Patterns

(* What is stored for a pattern is what compiling it gives.                  *)
EntriesInv == \A p \in Cached : regexCompileCache[p] = Compile(p)

(* During a reset an entry was stored since it began, or Range still has to  *)
(* come to its key, or the function given to Range is about to delete it.    *)
RangeInv ==
  \A g \in Goroutines :
    /\ compiles[g].pc = "range" => Cached \subseteq touched[g] \cup (due[g] \ visited[g])
    /\ compiles[g].pc = "delete" =>
         Cached \subseteq touched[g] \cup (due[g] \ visited[g]) \cup { compiles[g].source }

RegexIInv ==
  RegexTypeOK /\ SourcesInv /\ EntriesInv /\ AnswersCompiled /\ RangeInv /\ ResetDropsOld

LEMMA RegexInitIInv == RegexInit => RegexIInv
BY DEF RegexInit, RegexIInv, RegexTypeOK, SourcesInv, EntriesInv, AnswersCompiled, RangeInv,
       ResetDropsOld, Cached, NoCompile, RegexSteps, RegexEntries, NotCompiled

LEMMA CompileType ==
  \A p : Compile(p) \in RegexEntries /\ Compile(p) # NotCompiled
BY DEF Compile, RegexEntries, NotCompiled

(* Storing or deleting the entry of a pattern touches it for the resets that *)
(* are under way, and no other entry appears.                                *)
LEMMA TouchedByAll ==
  ASSUME RegexTypeOK, NEW p \in Patterns, Touch(p),
         NEW e \in RegexEntries \cup { NotCompiled },
         regexCompileCache' = [regexCompileCache EXCEPT ![p] = e]
  PROVE  /\ regexCompileCache' \in [Patterns -> RegexEntries \cup { NotCompiled }]
         /\ touched' \in [Goroutines -> SUBSET Patterns]
         /\ Cached' = IF e = NotCompiled THEN Cached \ { p } ELSE Cached \cup { p }
         /\ \A q \in Patterns \ { p } : regexCompileCache'[q] = regexCompileCache[q]
         /\ \A g \in Goroutines : Resetting(g) => touched'[g] = touched[g] \cup { p }
BY DEF RegexTypeOK, Touch, Cached, Resetting

LEMMA RegexStepIInv == RegexIInv /\ [RegexNext]_regexVars => RegexIInv'
<1> SUFFICES ASSUME RegexIInv, [RegexNext]_regexVars PROVE RegexIInv'
  OBVIOUS
<1> USE DEF RegexIInv
<1>1. ASSUME NEW g \in Goroutines, NEW p \in Patterns, CompileRegex(g, p) PROVE RegexIInv'
  <2> USE <1>1 DEF CompileRegex
  <2>1. RegexTypeOK'
    BY DEF RegexTypeOK, RegexSteps
  <2>2. SourcesInv' /\ EntriesInv' /\ AnswersCompiled'
    BY DEF RegexTypeOK, SourcesInv, EntriesInv, Cached, AnswersCompiled
  <2>3. RangeInv' /\ ResetDropsOld'
    BY DEF RegexTypeOK, RangeInv, ResetDropsOld, Cached
  <2> QED
    BY <2>1, <2>2, <2>3
<1>2. ASSUME NEW g \in Goroutines, LoadRegex(g) PROVE RegexIInv'
  <2> DEFINE Call == [pc : RegexSteps, source : Patterns \cup { NoSource },
                      result : RegexEntries \cup { NotCompiled }]
  <2>1. PICK p \in Patterns : p = compiles[g].source
    BY <1>2 DEF LoadRegex, SourcesInv
  <2>2. PICK call : /\ call \in Call /\ compiles' = [compiles EXCEPT ![g] = call]
                    /\ call.source = p /\ call.pc \in { "answered", "store" }
                    /\ call.pc = "answered" => call.result = regexCompileCache[p] /\ p \in Cached
    <3>1. CASE p \in Cached
      <4>1. PICK call : call = [compiles[g] EXCEPT !.pc = "answered", !.result = regexCompileCache[p]]
        OBVIOUS
      <4>2. /\ call \in Call /\ call.source = p /\ call.pc = "answered"
            /\ call.result = regexCompileCache[p]
        BY <2>1, <4>1 DEF RegexTypeOK, RegexSteps
      <4>3. compiles' = [compiles EXCEPT ![g] = call]
        BY <1>2, <2>1, <3>1, <4>1 DEF LoadRegex, RegexTypeOK
      <4> QED
        BY <3>1, <4>2, <4>3
    <3>2. CASE p \notin Cached
      <4>1. PICK call : call = [compiles[g] EXCEPT !.pc = "store"]
        OBVIOUS
      <4>2. call \in Call /\ call.source = p /\ call.pc = "store"
        BY <2>1, <4>1 DEF RegexTypeOK, RegexSteps
      <4>3. compiles' = [compiles EXCEPT ![g] = call]
        BY <1>2, <2>1, <3>2, <4>1 DEF LoadRegex, RegexTypeOK
      <4> QED
        BY <4>2, <4>3
    <3> QED
      BY <3>1, <3>2
  <2>3. UNCHANGED <<regexCompileCache, visited, due, touched>>
    BY <1>2 DEF LoadRegex
  <2>4. RegexTypeOK'
    BY <2>2, <2>3 DEF RegexTypeOK
  <2>5. SourcesInv' /\ EntriesInv'
    BY <2>1, <2>2, <2>3 DEF RegexTypeOK, SourcesInv, EntriesInv, Cached
  <2>6. AnswersCompiled'
    BY <2>1, <2>2, <2>3 DEF RegexTypeOK, EntriesInv, AnswersCompiled
  <2>7. RangeInv' /\ ResetDropsOld'
    BY <2>2, <2>3 DEF RegexTypeOK, RangeInv, ResetDropsOld, Cached
  <2> QED
    BY <2>4, <2>5, <2>6, <2>7
<1>3. ASSUME NEW g \in Goroutines, StoreRegex(g) PROVE RegexIInv'
  <2>1. PICK p \in Patterns : p = compiles[g].source
    BY <1>3 DEF StoreRegex, SourcesInv
  <2>2. /\ Touch(p)
        /\ regexCompileCache' = [regexCompileCache EXCEPT ![p] = Compile(p)]
        /\ compiles' = [compiles EXCEPT ![g].pc = "answered", ![g].result = Compile(p)]
        /\ UNCHANGED <<visited, due>>
        /\ compiles[g].pc = "store"
    BY <1>3, <2>1 DEF StoreRegex
  <2>8. Compile(p) \in RegexEntries /\ Compile(p) # NotCompiled
    BY CompileType
  <2>3. /\ Cached' = Cached \cup { p }
        /\ \A q \in Patterns \ { p } : regexCompileCache'[q] = regexCompileCache[q]
        /\ \A h \in Goroutines : Resetting(h) => touched'[h] = touched[h] \cup { p }
        /\ regexCompileCache' \in [Patterns -> RegexEntries \cup { NotCompiled }]
        /\ touched' \in [Goroutines -> SUBSET Patterns]
    BY <2>2, <2>8, TouchedByAll
  <2>4. RegexTypeOK'
    <3>1. compiles' \in [Goroutines -> [pc : RegexSteps, source : Patterns \cup { NoSource },
                                        result : RegexEntries \cup { NotCompiled }]]
      <4>1. PICK call : call = [compiles[g] EXCEPT !.pc = "answered", !.result = Compile(p)]
        OBVIOUS
      <4>2. call \in [pc : RegexSteps, source : Patterns \cup { NoSource },
                      result : RegexEntries \cup { NotCompiled }]
        BY <2>8, <4>1 DEF RegexTypeOK, RegexSteps
      <4>3. compiles' = [compiles EXCEPT ![g] = call]
        BY <2>2, <4>1 DEF RegexTypeOK
      <4> QED
        BY <4>2, <4>3 DEF RegexTypeOK
    <3> QED
      BY <2>2, <2>3, <3>1 DEF RegexTypeOK
  <2>5. SourcesInv' /\ AnswersCompiled'
    BY <2>1, <2>2 DEF RegexTypeOK, SourcesInv, AnswersCompiled
  <2>6. EntriesInv'
    BY <2>1, <2>2, <2>3 DEF RegexTypeOK, EntriesInv, Cached
  <2>7. RangeInv' /\ ResetDropsOld'
    BY <2>2, <2>3 DEF RegexTypeOK, RangeInv, ResetDropsOld, Resetting
  <2> QED
    BY <2>4, <2>5, <2>6, <2>7
<1>4. ASSUME NEW g \in Goroutines, Reset(g) PROVE RegexIInv'
  <2> USE <1>4 DEF Reset
  <2>1. Cached' = Cached /\ Cached \subseteq Patterns
    BY DEF Cached
  <2>2. RegexTypeOK'
    BY <2>1 DEF RegexTypeOK, NoCompile, RegexSteps
  <2>3. SourcesInv' /\ EntriesInv' /\ AnswersCompiled'
    BY <2>1 DEF RegexTypeOK, SourcesInv, EntriesInv, AnswersCompiled, NoCompile
  <2>4. RangeInv' /\ ResetDropsOld'
    BY <2>1 DEF RegexTypeOK, RangeInv, ResetDropsOld, NoCompile
  <2> QED
    BY <2>2, <2>3, <2>4
<1>5. ASSUME NEW g \in Goroutines, NEW p \in Patterns, RangeVisit(g, p) PROVE RegexIInv'
  <2>1. Cached' = Cached
    BY <1>5 DEF RangeVisit, Cached
  <2>2. RegexTypeOK'
    <3>1. PICK call : call = [compiles[g] EXCEPT !.pc = "delete", !.source = p]
      OBVIOUS
    <3>2. call \in [pc : RegexSteps, source : Patterns \cup { NoSource },
                    result : RegexEntries \cup { NotCompiled }]
      BY <1>5, <3>1 DEF RangeVisit, RegexTypeOK, RegexSteps
    <3>3. compiles' = [compiles EXCEPT ![g] = call]
      BY <1>5, <3>1 DEF RangeVisit, RegexTypeOK
    <3>4. /\ visited' \in [Goroutines -> SUBSET Patterns]
          /\ UNCHANGED <<regexCompileCache, due, touched>>
      BY <1>5 DEF RangeVisit, RegexTypeOK
    <3> QED
      BY <3>2, <3>3, <3>4 DEF RegexTypeOK
  <2>3. SourcesInv' /\ EntriesInv' /\ AnswersCompiled'
    BY <1>5, <2>1 DEF RangeVisit, RegexTypeOK, SourcesInv, EntriesInv, AnswersCompiled
  <2>4. RangeInv' /\ ResetDropsOld'
    BY <1>5, <2>1 DEF RangeVisit, RegexTypeOK, RangeInv, ResetDropsOld
  <2> QED
    BY <2>2, <2>3, <2>4
<1>6. ASSUME NEW g \in Goroutines, DeleteRegex(g) PROVE RegexIInv'
  <2>1. PICK p \in Patterns : p = compiles[g].source
    BY <1>6 DEF DeleteRegex, SourcesInv
  <2>2. /\ Touch(p)
        /\ regexCompileCache' = [regexCompileCache EXCEPT ![p] = NotCompiled]
        /\ compiles' = [compiles EXCEPT ![g] = [NoCompile EXCEPT !.pc = "range"]]
        /\ UNCHANGED <<visited, due>>
        /\ compiles[g].pc = "delete"
    BY <1>6, <2>1 DEF DeleteRegex
  <2>3. /\ Cached' = Cached \ { p }
        /\ \A q \in Patterns \ { p } : regexCompileCache'[q] = regexCompileCache[q]
        /\ \A h \in Goroutines : Resetting(h) => touched'[h] = touched[h] \cup { p }
        /\ regexCompileCache' \in [Patterns -> RegexEntries \cup { NotCompiled }]
        /\ touched' \in [Goroutines -> SUBSET Patterns]
    BY <2>1, <2>2, TouchedByAll
  <2>4. RegexTypeOK'
    BY <2>2, <2>3 DEF RegexTypeOK, NoCompile, RegexSteps
  <2>5. SourcesInv' /\ AnswersCompiled'
    BY <2>2 DEF RegexTypeOK, SourcesInv, AnswersCompiled, NoCompile
  <2>6. EntriesInv'
    BY <2>3 DEF EntriesInv, Cached
  <2>7. RangeInv' /\ ResetDropsOld'
    BY <2>1, <2>2, <2>3 DEF RegexTypeOK, RangeInv, ResetDropsOld, Resetting, NoCompile
  <2> QED
    BY <2>4, <2>5, <2>6, <2>7
<1>7. ASSUME NEW g \in Goroutines, RangeEnds(g) PROVE RegexIInv'
  <2> USE <1>7 DEF RangeEnds
  <2>1. Cached' = Cached
    BY DEF Cached
  <2>2. RegexTypeOK'
    BY DEF RegexTypeOK, NoCompile, RegexSteps
  <2>3. SourcesInv' /\ EntriesInv' /\ AnswersCompiled'
    BY <2>1 DEF RegexTypeOK, SourcesInv, EntriesInv, AnswersCompiled, NoCompile
  <2>4. RangeInv' /\ ResetDropsOld'
    BY <2>1 DEF RegexTypeOK, RangeInv, ResetDropsOld, NoCompile
  <2> QED
    BY <2>2, <2>3, <2>4
<1>8. CASE UNCHANGED regexVars
  BY <1>8 DEF regexVars, RegexTypeOK, SourcesInv, EntriesInv, AnswersCompiled, RangeInv,
              ResetDropsOld, Cached
<1> QED
  BY <1>1, <1>2, <1>3, <1>4, <1>5, <1>6, <1>7, <1>8 DEF RegexNext, RegexStep

LEMMA RegexInvariant == RegexSpec => []RegexIInv
BY RegexInitIInv, RegexStepIInv, PTL DEF RegexSpec

(* Whatever other goroutines store and delete meanwhile, an evaluation gets  *)
(* the pattern or the error that compiling its own pattern gives             *)
(* (compileRegex).                                                           *)
THEOREM AllAnswersCompiled == RegexSpec => []AnswersCompiled
BY RegexInvariant, PTL DEF RegexIInv

(* When ResetRegexCache returns, no entry is left that is older than its     *)
(* call, although it deletes entry by entry while others store.              *)
THEOREM ResetsDropOld == RegexSpec => []ResetDropsOld
BY RegexInvariant, PTL DEF RegexIInv

-----------------------------------------------------------------------------
(***************************************************************************)
(* StageCache                                                              *)
(***************************************************************************)

(* What a constructor has at each step: a key unless it is idle, an entry    *)
(* while it looks at one, a stage made for its key before it returns; only   *)
(* keys that can be hashed get as far as the maps.                           *)
CallInv(g) ==
  LET call == stageCalls[g] IN
  /\ call.key = Nothing <=> call.pc \in { "idle", "panicked" }
  /\ call.entry # Nothing <=> call.pc = "value"
  /\ call.stage # Nothing <=> call.pc \in { "store", "return" }
  /\ call.stage # Nothing => madeFor[call.stage] = call.key
  /\ call.pc \in { "value", "delete", "store" } => call.key \in Hashable
  /\ call.pc = "make" /\ canCacheConstant(call.key) => call.key \in Hashable

StageIInv == StageTypeOK /\ StagesSafe /\ \A g \in Goroutines : CallInv(g)

(* A step of a constructor that changes no call but its own.                 *)
StepOf(g) ==
  /\ stageCalls' \in [Goroutines -> StageCalls]
  /\ \A h \in Goroutines \ { g } : stageCalls'[h] = stageCalls[h]

(* The stages in hand change by the one of the call.                         *)
LEMMA InHandChanges ==
  ASSUME StageTypeOK, NEW g \in Goroutines, StepOf(g)
  PROVE  /\ stageCalls[g].stage = Nothing => InHand' = InHand \cup ({ stageCalls'[g].stage } \ { Nothing })
         /\ stageCalls'[g].stage = stageCalls[g].stage => InHand' = InHand
         /\ stageCalls'[g].stage = Nothing => /\ InHand' \subseteq InHand
                                              /\ InHand \subseteq InHand' \cup { stageCalls[g].stage }
BY DEF StageTypeOK, StepOf, InHand

(* The step keeps the invariant if it changes nothing else, and its own call *)
(* fits.                                                                     *)
LEMMA CallsStay ==
  ASSUME StageIInv, NEW g \in Goroutines, StepOf(g), CallInv(g)', UNCHANGED <<cacheTag, madeFor>>
  PROVE  \A h \in Goroutines : CallInv(h)'
BY DEF StageIInv, StepOf, CallInv, canCacheConstant

LEMMA StageInitIInv == StageInit => StageIInv
<1> SUFFICES ASSUME StageInit PROVE StageIInv
  OBVIOUS
<1>1. NoStageCall \in StageCalls
  BY DEF NoStageCall, StageCalls, StageSteps
<1>2. StageTypeOK
  BY <1>1 DEF StageInit, StageTypeOK
<1>3. InHand = { }
  BY DEF StageInit, InHand, NoStageCall
<1> QED
  BY <1>2, <1>3 DEF StageInit, StageIInv, StagesSafe, UsedStagesAlive, EntriesOfTheirKey, CallInv, NoStageCall

LEMMA StageStepIInv == StageIInv /\ [StageNext]_stageVars => StageIInv'
<1> SUFFICES ASSUME StageIInv, [StageNext]_stageVars PROVE StageIInv'
  OBVIOUS
<1>t. StageTypeOK /\ UsedStagesAlive /\ EntriesOfTheirKey /\ \A g \in Goroutines : CallInv(g)
  BY DEF StageIInv, StagesSafe
<1>1. ASSUME NEW g \in Goroutines, NEW k \in Keys, AskStage(g, k) PROVE StageIInv'
  <2>1. /\ stageCalls[g].stage = Nothing
        /\ UNCHANGED <<cacheTag, madeFor, collected, stageMap, held>>
    BY <1>1, <1>t DEF AskStage, CallInv
  <2>2. /\ StepOf(g)
        /\ stageCalls'[g] = [pc |-> IF canCacheConstant(k) THEN "load" ELSE "make", key |-> k,
                             entry |-> Nothing, stage |-> Nothing]
    BY <1>1, <1>t DEF AskStage, StageTypeOK, StepOf, NoStageCall, StageCalls, StageSteps
  <2>3. StageTypeOK'
    BY <1>t, <2>1, <2>2 DEF StageTypeOK, StepOf
  <2>4. CallInv(g)'
    BY <2>1, <2>2, StageCacheAssumption DEF CallInv, canCacheConstant
  <2>5. InHand' = InHand
    BY <1>t, <2>1, <2>2, InHandChanges
  <2>6. StagesSafe'
    BY <1>t, <2>1, <2>2, <2>5 DEF StagesSafe, UsedStagesAlive, EntriesOfTheirKey, StepOf
  <2> QED
    BY <2>1, <2>2, <2>3, <2>4, <2>6, CallsStay DEF StageIInv
<1>2. ASSUME NEW g \in Goroutines, LoadStage(g) PROVE StageIInv'
  <2>1. /\ stageCalls[g].pc = "load" /\ stageCalls[g].key \in Hashable
        /\ stageCalls[g].stage = Nothing
        /\ UNCHANGED <<cacheTag, madeFor, collected, stageMap, held>>
    BY <1>2, <1>t DEF LoadStage, CallInv
  <2>2. PICK entry \in StageIds \cup { Nothing } : entry = stageMap[stageCalls[g].key]
    BY <1>t, <2>1 DEF StageTypeOK
  <2>3. /\ StepOf(g)
        /\ stageCalls'[g].pc = IF entry = Nothing THEN "make" ELSE "value"
        /\ stageCalls'[g].entry = entry
        /\ stageCalls'[g].key = stageCalls[g].key
        /\ stageCalls'[g].stage = stageCalls[g].stage
    BY <1>2, <1>t, <2>2 DEF LoadStage, StageTypeOK, StepOf, StageCalls, StageSteps
  <2>4. StageTypeOK'
    BY <1>t, <2>1, <2>3 DEF StageTypeOK, StepOf
  <2>5. CallInv(g)'
    BY <2>1, <2>3, StageCacheAssumption DEF CallInv, Keys
  <2>6. InHand' = InHand
    BY <1>t, <2>3, InHandChanges
  <2>7. StagesSafe'
    BY <1>t, <2>1, <2>2, <2>3, <2>6 DEF StagesSafe, UsedStagesAlive, EntriesOfTheirKey, StepOf
  <2> QED
    BY <2>1, <2>3, <2>4, <2>5, <2>7, CallsStay DEF StageIInv
<1>3. ASSUME NEW g \in Goroutines, HashPanics(g) PROVE StageIInv'
  <2>1. /\ stageCalls[g].stage = Nothing
        /\ UNCHANGED <<cacheTag, madeFor, collected, stageMap, held>>
    BY <1>3, <1>t DEF HashPanics, CallInv
  <2>2. /\ StepOf(g)
        /\ stageCalls'[g] = [pc |-> "panicked", key |-> Nothing, entry |-> Nothing, stage |-> Nothing]
    BY <1>3, <1>t DEF HashPanics, StageTypeOK, StepOf, NoStageCall, StageCalls, StageSteps
  <2>3. StageTypeOK'
    BY <1>t, <2>1, <2>2 DEF StageTypeOK, StepOf
  <2>4. CallInv(g)'
    BY <2>2 DEF CallInv
  <2>5. InHand' = InHand
    BY <1>t, <2>1, <2>2, InHandChanges
  <2>6. StagesSafe'
    BY <1>t, <2>1, <2>2, <2>5 DEF StagesSafe, UsedStagesAlive, EntriesOfTheirKey, StepOf
  <2> QED
    BY <2>1, <2>2, <2>3, <2>4, <2>6, CallsStay DEF StageIInv
<1>4. ASSUME NEW g \in Goroutines, StageValue(g) PROVE StageIInv'
  <2>1. /\ stageCalls[g].pc = "value" /\ stageCalls[g].key \in Hashable
        /\ stageCalls[g].stage = Nothing
        /\ UNCHANGED <<cacheTag, madeFor, collected, stageMap, held>>
    BY <1>4, <1>t DEF StageValue, CallInv
  <2>2. PICK entry \in StageIds : entry = stageCalls[g].entry /\ madeFor[entry] = stageCalls[g].key
    BY <1>t, <2>1 DEF StageTypeOK, StageCalls, CallInv, EntriesOfTheirKey
  <2>3. /\ StepOf(g)
        /\ stageCalls'[g].pc = IF entry \in collected THEN "delete" ELSE "return"
        /\ stageCalls'[g].stage = IF entry \in collected THEN Nothing ELSE entry
        /\ stageCalls'[g].entry = Nothing
        /\ stageCalls'[g].key = stageCalls[g].key
    <3>1. PICK call : call = [stageCalls[g] EXCEPT !.stage = IF entry \in collected THEN Nothing ELSE entry,
                !.entry = Nothing, !.pc = IF entry \in collected THEN "delete" ELSE "return"]
      OBVIOUS
    <3>2. stageCalls[g] \in StageCalls
      BY <1>t DEF StageTypeOK
    <3>3. /\ call \in StageCalls
          /\ call.pc = IF entry \in collected THEN "delete" ELSE "return"
          /\ call.stage = IF entry \in collected THEN Nothing ELSE entry
          /\ call.entry = Nothing /\ call.key = stageCalls[g].key
      BY <3>1, <3>2 DEF StageCalls, StageSteps
    <3>4. stageCalls' = [stageCalls EXCEPT ![g] = call]
      BY <1>4, <1>t, <2>2, <3>1 DEF StageValue, StageTypeOK
    <3> QED
      BY <1>t, <3>3, <3>4 DEF StageTypeOK, StepOf
  <2>4. StageTypeOK'
    BY <1>t, <2>1, <2>3 DEF StageTypeOK, StepOf
  <2>5. CallInv(g)'
    BY <2>1, <2>2, <2>3, StageCacheAssumption DEF CallInv, Keys
  <2>6. InHand' = InHand \cup (IF entry \in collected THEN { } ELSE { entry })
    BY <1>t, <2>1, <2>2, <2>3, StageCacheAssumption, InHandChanges
  <2>7. StagesSafe'
    BY <1>t, <2>1, <2>3, <2>6 DEF StagesSafe, UsedStagesAlive, EntriesOfTheirKey, StepOf
  <2> QED
    BY <2>1, <2>3, <2>4, <2>5, <2>7, CallsStay DEF StageIInv
<1>5. ASSUME NEW g \in Goroutines, DeleteStage(g) PROVE StageIInv'
  <2>1. /\ stageCalls[g].pc = "delete" /\ stageCalls[g].key \in Hashable
        /\ UNCHANGED <<cacheTag, madeFor, collected, held>>
        /\ stageMap' = [stageMap EXCEPT ![stageCalls[g].key] = Nothing]
    BY <1>5, <1>t DEF DeleteStage, CallInv
  <2>2. /\ StepOf(g)
        /\ stageCalls'[g].pc = "make"
        /\ stageCalls'[g].stage = stageCalls[g].stage
        /\ stageCalls'[g].entry = stageCalls[g].entry
        /\ stageCalls'[g].key = stageCalls[g].key
    BY <1>5, <1>t DEF DeleteStage, StageTypeOK, StepOf, StageCalls, StageSteps
  <2>3. StageTypeOK'
    BY <1>t, <2>1, <2>2 DEF StageTypeOK, StepOf
  <2>4. CallInv(g)'
    BY <1>t, <2>1, <2>2, StageCacheAssumption DEF CallInv, Keys
  <2>5. InHand' = InHand
    BY <1>t, <2>2, InHandChanges
  <2>6. StagesSafe'
    BY <1>t, <2>1, <2>2, <2>5 DEF StagesSafe, UsedStagesAlive, EntriesOfTheirKey, StepOf, StageTypeOK
  <2> QED
    BY <2>1, <2>2, <2>3, <2>4, <2>6, CallsStay DEF StageIInv
<1>6. ASSUME NEW g \in Goroutines, MakeStage(g) PROVE StageIInv'
  <2>1. PICK s \in StageIds : s = FreePlace /\ s \notin held \cup InHand \cup Named
    BY <1>6 DEF MakeStage, FreePlace, Free
  <2>2. PICK k \in Keys : k = stageCalls[g].key
    BY <1>6, <1>t DEF MakeStage, StageTypeOK, StageCalls, CallInv
  <2>3. /\ stageCalls[g].pc = "make" /\ stageCalls[g].stage = Nothing /\ stageCalls[g].entry = Nothing
        /\ UNCHANGED <<cacheTag, stageMap, held>>
        /\ madeFor' = [madeFor EXCEPT ![s] = k]
        /\ collected' = collected \ { s }
    BY <1>6, <1>t, <2>1, <2>2 DEF MakeStage, CallInv
  <2>4. /\ StepOf(g)
        /\ stageCalls'[g].pc = IF canCacheConstant(k) THEN "store" ELSE "return"
        /\ stageCalls'[g].stage = s
        /\ stageCalls'[g].entry = stageCalls[g].entry
        /\ stageCalls'[g].key = k
    BY <1>6, <1>t, <2>1, <2>2 DEF MakeStage, StageTypeOK, StepOf, StageCalls, StageSteps
  <2>5. StageTypeOK'
    BY <1>t, <2>3, <2>4 DEF StageTypeOK, StepOf
  <2>6. InHand' = InHand \cup { s }
    BY <1>t, <2>3, <2>4, StageCacheAssumption, InHandChanges
  <2>7. StagesSafe'
    <3>1. \A h \in Goroutines : stageCalls'[h].entry = stageCalls[h].entry
                                 /\ stageCalls[h].entry # s
                                 /\ (stageCalls[h].entry # Nothing => stageCalls'[h].key = stageCalls[h].key)
      BY <2>1, <2>3, <2>4 DEF StepOf, Named
    <3>2. \A x \in Hashable : stageMap[x] # s
      BY <2>1 DEF Named
    <3>3. EntriesOfTheirKey'
      BY <1>t, <2>3, <3>1, <3>2 DEF EntriesOfTheirKey, StageTypeOK, StageCalls
    <3>4. UsedStagesAlive'
      BY <1>t, <2>3, <2>6 DEF UsedStagesAlive
    <3> QED
      BY <3>3, <3>4 DEF StagesSafe
  <2>8. ASSUME NEW h \in Goroutines PROVE CallInv(h)'
    <3>1. CASE h = g
      BY <1>t, <2>2, <2>3, <2>4, <3>1, StageCacheAssumption DEF CallInv, canCacheConstant, StageTypeOK
    <3>2. CASE h # g
      <4>1. stageCalls'[h] = stageCalls[h] /\ CallInv(h)
        BY <1>t, <2>4, <3>2 DEF StepOf
      <4>2. stageCalls[h].stage # s /\ stageCalls[h].stage \in StageIds \cup { Nothing }
        BY <1>t, <2>1, StageCacheAssumption DEF InHand, StageTypeOK, StageCalls
      <4>3. stageCalls[h].stage # Nothing => madeFor'[stageCalls[h].stage] = madeFor[stageCalls[h].stage]
        BY <1>t, <2>3, <4>2 DEF StageTypeOK
      <4> QED
        BY <2>3, <4>1, <4>3 DEF CallInv, canCacheConstant
    <3> QED
      BY <3>1, <3>2
  <2> QED
    BY <2>5, <2>7, <2>8 DEF StageIInv
<1>7. ASSUME NEW g \in Goroutines, StoreStage(g) PROVE StageIInv'
  <2>1. /\ stageCalls[g].pc = "store" /\ stageCalls[g].key \in Hashable
        /\ stageCalls[g].stage \in StageIds /\ madeFor[stageCalls[g].stage] = stageCalls[g].key
        /\ UNCHANGED <<cacheTag, madeFor, collected, held>>
        /\ stageMap' = [stageMap EXCEPT ![stageCalls[g].key] = stageCalls[g].stage]
    BY <1>7, <1>t DEF StoreStage, CallInv, StageTypeOK, StageCalls
  <2>2. /\ StepOf(g)
        /\ stageCalls'[g].pc = "return"
        /\ stageCalls'[g].stage = stageCalls[g].stage
        /\ stageCalls'[g].entry = stageCalls[g].entry
        /\ stageCalls'[g].key = stageCalls[g].key
    BY <1>7, <1>t DEF StoreStage, StageTypeOK, StepOf, StageCalls, StageSteps
  <2>3. StageTypeOK'
    BY <1>t, <2>1, <2>2 DEF StageTypeOK, StepOf
  <2>4. CallInv(g)'
    BY <1>t, <2>1, <2>2, StageCacheAssumption DEF CallInv, Keys
  <2>5. InHand' = InHand
    BY <1>t, <2>2, InHandChanges
  <2>6. StagesSafe'
    BY <1>t, <2>1, <2>2, <2>5 DEF StagesSafe, UsedStagesAlive, EntriesOfTheirKey, StepOf, StageTypeOK
  <2> QED
    BY <2>1, <2>2, <2>3, <2>4, <2>6, CallsStay DEF StageIInv
<1>8. ASSUME NEW g \in Goroutines, ReturnStage(g) PROVE StageIInv'
  <2>1. /\ stageCalls[g].pc = "return" /\ stageCalls[g].stage \in StageIds
        /\ UNCHANGED <<cacheTag, madeFor, collected, stageMap>>
        /\ held' = held \cup { stageCalls[g].stage }
    BY <1>8, <1>t DEF ReturnStage, CallInv, StageTypeOK, StageCalls
  <2>2. /\ StepOf(g)
        /\ stageCalls'[g] = [pc |-> "idle", key |-> Nothing, entry |-> Nothing, stage |-> Nothing]
    BY <1>8, <1>t DEF ReturnStage, StageTypeOK, StepOf, NoStageCall, StageCalls, StageSteps
  <2>3. StageTypeOK'
    BY <1>t, <2>1, <2>2 DEF StageTypeOK, StepOf
  <2>4. CallInv(g)'
    BY <2>2 DEF CallInv
  <2>5. InHand' \subseteq InHand /\ stageCalls[g].stage \in InHand
    BY <1>t, <2>1, <2>2, StageCacheAssumption, InHandChanges DEF InHand
  <2>6. StagesSafe'
    BY <1>t, <2>1, <2>2, <2>5 DEF StagesSafe, UsedStagesAlive, EntriesOfTheirKey, StepOf
  <2> QED
    BY <2>1, <2>2, <2>3, <2>4, <2>6, CallsStay DEF StageIInv
<1>9. ASSUME NEW s \in StageIds, Drop(s) PROVE StageIInv'
  BY <1>9, <1>t DEF Drop, StageIInv, StageTypeOK, StagesSafe, UsedStagesAlive, EntriesOfTheirKey, InHand,
                    CallInv, canCacheConstant
<1>10. ASSUME NEW s \in StageIds, CollectStage(s) PROVE StageIInv'
  BY <1>10, <1>t DEF CollectStage, StageIInv, StageTypeOK, StagesSafe, UsedStagesAlive, EntriesOfTheirKey,
                     InHand, CallInv, canCacheConstant
<1>11. CASE UNCHANGED stageVars
  BY <1>11, <1>t DEF stageVars, StageIInv, StageTypeOK, StagesSafe, UsedStagesAlive, EntriesOfTheirKey,
                     InHand, CallInv, canCacheConstant
<1> QED
  BY <1>1, <1>2, <1>3, <1>4, <1>5, <1>6, <1>7, <1>8, <1>9, <1>10, <1>11 DEF StageNext, StageStep

LEMMA StageInvariant == StageSpec => []StageIInv
BY StageInitIInv, StageStepIInv, PTL DEF StageSpec

(* No expression and no constructor has a stage that the collector has       *)
(* taken, and no stage of another name or constant is found under a key      *)
(* (getParamFromMap, getConstantFromMap).                                    *)
THEOREM AllStagesSafe == StageSpec => []StagesSafe
BY StageInvariant, PTL DEF StageIInv

(* The initial states of both builds are those of StageSource, and every     *)
(* step is one of StageSource or leaves what it speaks of unchanged.         *)
LEMMA PromisedInit == StageInit => Source!SourceInit
BY DEF StageInit, Source!SourceInit, InHand, NoStageCall, Nothing, Source!Nothing

LEMMA PromisedStep == StageIInv /\ [StageNext]_stageVars => [Source!SourceNext]_(Source!svars)
<1> SUFFICES ASSUME StageIInv, [StageNext]_stageVars PROVE [Source!SourceNext]_(Source!svars)
  OBVIOUS
<1> DEFINE asked == [g \in Goroutines |-> stageCalls[g].key]
           inUse == held \cup InHand
<1>t. StageTypeOK /\ UsedStagesAlive /\ EntriesOfTheirKey /\ \A g \in Goroutines : CallInv(g)
  BY DEF StageIInv, StagesSafe
<1>n. Source!Nothing = Nothing
  BY DEF Nothing, Source!Nothing
<1>s. ASSUME UNCHANGED <<madeFor, inUse, asked>> PROVE [Source!SourceNext]_(Source!svars)
  BY <1>s DEF Source!svars
<1>1. ASSUME NEW g \in Goroutines, NEW k \in Keys, AskStage(g, k) PROVE Source!Ask(g, k)
  <2>1. /\ stageCalls[g].stage = Nothing /\ stageCalls[g].key = Nothing
        /\ UNCHANGED <<madeFor, held>>
    BY <1>1, <1>t DEF AskStage, CallInv
  <2>2. /\ StepOf(g) /\ stageCalls'[g].key = k /\ stageCalls'[g].stage = Nothing
    BY <1>1, <1>t DEF AskStage, StageTypeOK, StepOf, NoStageCall, StageCalls, StageSteps
  <2>3. InHand' = InHand
    BY <1>t, <2>1, <2>2, InHandChanges
  <2>4. asked[g] = Nothing /\ asked' = [asked EXCEPT ![g] = k]
    BY <2>1, <2>2 DEF StepOf
  <2> QED
    BY <1>n, <2>1, <2>3, <2>4 DEF Source!Ask
<1>2. ASSUME NEW g \in Goroutines, LoadStage(g) PROVE UNCHANGED <<madeFor, inUse, asked>>
  <2>1. PICK entry \in StageIds \cup { Nothing } : entry = stageMap[stageCalls[g].key]
    BY <1>2, <1>t DEF LoadStage, StageTypeOK
  <2>2. /\ StepOf(g)
        /\ stageCalls'[g].pc = IF entry = Nothing THEN "make" ELSE "value"
        /\ stageCalls'[g].entry = entry
        /\ stageCalls'[g].key = stageCalls[g].key
        /\ stageCalls'[g].stage = stageCalls[g].stage
    BY <1>2, <1>t, <2>1 DEF LoadStage, StageTypeOK, StepOf, StageCalls, StageSteps
  <2>3. InHand' = InHand /\ asked' = asked
    BY <1>t, <2>2, InHandChanges DEF StepOf
  <2> QED
    BY <1>2, <2>3 DEF LoadStage
<1>3. ASSUME NEW g \in Goroutines, HashPanics(g) PROVE Source!Fail(g)
  <2>1. stageCalls[g].stage = Nothing /\ stageCalls[g].key # Nothing
    BY <1>3, <1>t DEF HashPanics, CallInv
  <2>2. StepOf(g) /\ stageCalls'[g].key = Nothing /\ stageCalls'[g].stage = Nothing
    BY <1>3, <1>t DEF HashPanics, StageTypeOK, StepOf, NoStageCall, StageCalls, StageSteps
  <2>3. InHand' = InHand
    BY <1>t, <2>1, <2>2, InHandChanges
  <2>4. asked[g] # Nothing /\ asked' = [asked EXCEPT ![g] = Nothing]
    BY <2>1, <2>2 DEF StepOf
  <2> QED
    BY <1>3, <1>n, <2>3, <2>4 DEF HashPanics, Source!Fail
<1>4. ASSUME NEW g \in Goroutines, StageValue(g)
      PROVE  \/ UNCHANGED <<madeFor, inUse, asked>>
             \/ \E k \in Keys, s \in StageIds : Source!Make(k, s)
  <2>1. PICK s \in StageIds : s = stageCalls[g].entry /\ madeFor[s] = stageCalls[g].key
    BY <1>4, <1>t DEF StageValue, CallInv, StageTypeOK, StageCalls, EntriesOfTheirKey
  <2>2. PICK k \in Keys : k = stageCalls[g].key
    BY <1>4, <1>t DEF StageValue, CallInv, StageTypeOK, StageCalls
  <2>3. /\ StepOf(g) /\ stageCalls'[g].key = stageCalls[g].key
        /\ stageCalls'[g].stage = IF s \in collected THEN Nothing ELSE s
        /\ stageCalls[g].stage = Nothing
    BY <1>4, <1>t, <2>1 DEF StageValue, CallInv, StageTypeOK, StepOf, StageCalls, StageSteps
  <2>4. asked' = asked /\ asked[g] = k
    BY <2>2, <2>3 DEF StepOf
  <2>5. inUse' = inUse \cup (IF s \in collected THEN { } ELSE { s })
    <3>1. InHand' = InHand \cup ({ stageCalls'[g].stage } \ { Nothing })
      BY <1>t, <2>3, InHandChanges
    <3>2. held' = held
      BY <1>4 DEF StageValue
    <3> QED
      BY <2>1, <2>3, <3>1, <3>2, StageCacheAssumption
  <2>6. madeFor' = madeFor /\ madeFor = [madeFor EXCEPT ![s] = k]
    BY <1>4, <1>t, <2>1, <2>2 DEF StageValue, StageTypeOK
  <2>7. CASE s \in collected \cup inUse
    BY <2>4, <2>5, <2>6, <2>7
  <2>8. CASE s \notin collected \cup inUse
    BY <2>4, <2>5, <2>6, <2>8 DEF Source!Make
  <2> QED
    BY <2>7, <2>8
<1>5. ASSUME NEW g \in Goroutines, DeleteStage(g) PROVE UNCHANGED <<madeFor, inUse, asked>>
  <2>1. StepOf(g) /\ stageCalls'[g].key = stageCalls[g].key /\ stageCalls'[g].stage = stageCalls[g].stage
    BY <1>5, <1>t DEF DeleteStage, StageTypeOK, StepOf, StageCalls, StageSteps
  <2>2. InHand' = InHand /\ asked' = asked
    BY <1>t, <2>1, InHandChanges DEF StepOf
  <2> QED
    BY <1>5, <2>2 DEF DeleteStage
<1>6. ASSUME NEW g \in Goroutines, MakeStage(g) PROVE \E k \in Keys, s \in StageIds : Source!Make(k, s)
  <2>1. PICK s \in StageIds : s = FreePlace /\ s \notin held \cup InHand
    BY <1>6 DEF MakeStage, FreePlace, Free
  <2>2. PICK k \in Keys : k = stageCalls[g].key
    BY <1>6, <1>t DEF MakeStage, CallInv, StageTypeOK, StageCalls
  <2>3. /\ StepOf(g) /\ stageCalls'[g].key = k /\ stageCalls'[g].stage = s
        /\ stageCalls[g].stage = Nothing
    BY <1>6, <1>t, <2>1, <2>2 DEF MakeStage, CallInv, StageTypeOK, StepOf, StageCalls, StageSteps
  <2>4. asked' = asked /\ asked[g] = k
    BY <2>2, <2>3 DEF StepOf
  <2>5. inUse' = inUse \cup { s }
    <3>1. InHand' = InHand \cup { s }
      BY <1>t, <2>3, StageCacheAssumption, InHandChanges
    <3>2. held' = held
      BY <1>6 DEF MakeStage
    <3> QED
      BY <3>1, <3>2
  <2>6. madeFor' = [madeFor EXCEPT ![s] = k]
    BY <1>6, <2>1, <2>2 DEF MakeStage
  <2> QED
    BY <2>1, <2>4, <2>5, <2>6 DEF Source!Make
<1>7. ASSUME NEW g \in Goroutines, StoreStage(g) PROVE UNCHANGED <<madeFor, inUse, asked>>
  <2>1. StepOf(g) /\ stageCalls'[g].key = stageCalls[g].key /\ stageCalls'[g].stage = stageCalls[g].stage
    BY <1>7, <1>t DEF StoreStage, StageTypeOK, StepOf, StageCalls, StageSteps
  <2>2. InHand' = InHand /\ asked' = asked
    BY <1>t, <2>1, InHandChanges DEF StepOf
  <2> QED
    BY <1>7, <2>2 DEF StoreStage
<1>8. ASSUME NEW g \in Goroutines, ReturnStage(g) PROVE \E s \in StageIds : Source!Answer(g, s)
  <2>1. PICK s \in StageIds : /\ s = stageCalls[g].stage /\ s \in InHand
                              /\ madeFor[s] = asked[g] /\ asked[g] # Nothing
    BY <1>8, <1>t, StageCacheAssumption DEF ReturnStage, CallInv, StageTypeOK, StageCalls, InHand
  <2>2. StepOf(g) /\ stageCalls'[g].key = Nothing /\ stageCalls'[g].stage = Nothing
    BY <1>8, <1>t DEF ReturnStage, StageTypeOK, StepOf, NoStageCall, StageCalls, StageSteps
  <2>3. asked' = [asked EXCEPT ![g] = Nothing]
    BY <2>2 DEF StepOf
  <2>4. inUse' = inUse
    BY <1>8, <1>t, <2>1, <2>2, InHandChanges DEF ReturnStage
  <2> QED
    BY <1>8, <1>n, <2>1, <2>3, <2>4 DEF ReturnStage, Source!Answer
<1>9. ASSUME NEW s \in StageIds, Drop(s)
      PROVE  Source!Release(s) \/ UNCHANGED <<madeFor, inUse, asked>>
  BY <1>9 DEF Drop, InHand, Source!Release
<1>10. ASSUME NEW s \in StageIds, CollectStage(s) PROVE UNCHANGED <<madeFor, inUse, asked>>
  BY <1>10 DEF CollectStage, InHand
<1>11. ASSUME UNCHANGED stageVars PROVE UNCHANGED <<madeFor, inUse, asked>>
  BY <1>11 DEF stageVars, InHand
<1> HIDE DEF asked, inUse
<1> QED
  BY <1>s, <1>1, <1>2, <1>3, <1>4, <1>5, <1>6, <1>7, <1>8, <1>9, <1>10, <1>11
     DEF StageNext, StageStep, Source!SourceNext

(* Both builds keep the promise of StageSource: a constructor gets a stage   *)
(* that was made for the name or the constant it asked for.                  *)
THEOREM PromiseKept == StageSpec => KeepsPromise
BY StageInvariant, PromisedInit, PromisedStep, PTL DEF StageSpec, KeepsPromise, Source!SourceSpec

-----------------------------------------------------------------------------
(***************************************************************************)
(* Accessors                                                               *)
(***************************************************************************)

(* The index of a member in the sorted set of the members determines it.     *)
LEMMA IndexDeterminesName ==
  ASSUME NEW set \in SUBSET Names, NEW name \in set
  PROVE  IndexIn(set, name) \in 0..NumNames /\ NamesAt(set, IndexIn(set, name)) = { name }
<1> DEFINE UpTo(n) == { m \in set : m <= n }
<1>1. NumNames \in Nat /\ Names = 1..NumNames
  BY AccessorAssumption DEF Names
<1>2. IsFiniteSet(Names) /\ Cardinality(Names) = NumNames
  BY <1>1, FS_Interval
<1>3. ASSUME NEW n PROVE IsFiniteSet(UpTo(n)) /\ Cardinality(UpTo(n)) \in 0..NumNames
  <2>1. UpTo(n) \in SUBSET Names
    OBVIOUS
  <2> HIDE DEF UpTo
  <2>2. IsFiniteSet(UpTo(n)) /\ Cardinality(UpTo(n)) <= NumNames
    BY <1>2, <2>1, FS_Subset
  <2>3. Cardinality(UpTo(n)) \in Nat
    BY <2>2, FS_CardinalityType
  <2> QED
    BY <1>1, <2>2, <2>3
<1>4. ASSUME NEW n \in set, NEW m \in set, n < m PROVE Cardinality(UpTo(n)) # Cardinality(UpTo(m))
  <2>0. \A x \in set : x \in Int
    BY <1>1
  <2>1. UpTo(n) \in SUBSET UpTo(m)
    BY <1>4, <2>0
  <2>2. m \in UpTo(m) /\ m \notin UpTo(n)
    BY <1>4, <2>0
  <2> HIDE DEF UpTo
  <2> QED
    BY <1>3, <2>1, <2>2, FS_Subset
<1>5. \A n : IndexIn(set, n) = Cardinality(UpTo(n))
  BY DEF IndexIn
<1>6. \A n \in set : n # name => n < name \/ name < n
  BY <1>1
<1> HIDE DEF UpTo
<1>7. ASSUME NEW n \in set, n # name PROVE IndexIn(set, n) # IndexIn(set, name)
  BY <1>4, <1>5, <1>6, <1>7
<1> QED
  BY <1>3, <1>5, <1>7 DEF NamesAt

(* The lookups that can be stored for a name.                                *)
LookupsOf(type, name) == { Resolved(type, ptr, name) : ptr \in BOOLEAN }

LEMMA LookupPicks ==
  ASSUME NEW type \in Types, NEW name \in Names, NEW lookup \in LookupsOf(type, name)
  PROVE  /\ lookup \in Lookups /\ lookup # NotLookedUp
         /\ lookup.kind # "none" => /\ Indexed(type, lookup) = { name }
                                    /\ Declares[type][name].kind = lookup.kind
         /\ lookup.kind = "none" => Declares[type][name].kind \in { "none", "ptrMethod" }
<1>1. /\ FieldsOf(type) \in SUBSET Names /\ MethodSet(type) \in SUBSET Names
      /\ PtrMethodSet(type) \in SUBSET Names
  BY DEF FieldsOf, MethodSet, PtrMethodSet, Declaring
<1>2. /\ name \in FieldsOf(type) <=> Declares[type][name].kind = "field"
      /\ name \in MethodSet(type) <=> Declares[type][name].kind = "method"
      /\ name \in PtrMethodSet(type) <=> Declares[type][name].kind \in { "method", "ptrMethod" }
  BY DEF FieldsOf, MethodSet, PtrMethodSet, Declaring
<1>3. Declares[type][name].kind \in MemberKinds
  BY AccessorAssumption DEF Members
<1>4. PICK ptr \in BOOLEAN : lookup = Resolved(type, ptr, name)
  BY DEF LookupsOf
<1>0. 0 \in 0..NumNames
  BY AccessorAssumption
<1>5. CASE name \in FieldsOf(type)
  <2>1. lookup = [kind |-> "field", idx |-> IndexIn(FieldsOf(type), name)]
    BY <1>4, <1>5 DEF Resolved
  <2> QED
    BY <1>1, <1>2, <1>5, <2>1, IndexDeterminesName DEF Lookups, LookupKinds, NotLookedUp, Indexed
<1>6. CASE name \in MethodSet(type)
  <2>1. lookup = [kind |-> "method", idx |-> IndexIn(MethodSet(type), name)]
    BY <1>2, <1>4, <1>6 DEF Resolved
  <2> QED
    BY <1>1, <1>2, <1>6, <2>1, IndexDeterminesName DEF Lookups, LookupKinds, NotLookedUp, Indexed
<1>7. CASE name \notin FieldsOf(type) \cup MethodSet(type) /\ name \in PtrMethodSet(type) /\ ptr
  <2>1. lookup = [kind |-> "ptrMethod", idx |-> IndexIn(PtrMethodSet(type), name)]
    BY <1>2, <1>4, <1>7 DEF Resolved
  <2> QED
    BY <1>1, <1>2, <1>7, <2>1, IndexDeterminesName DEF Lookups, LookupKinds, NotLookedUp, Indexed
<1>8. CASE name \notin FieldsOf(type) \cup MethodSet(type) /\ ~(name \in PtrMethodSet(type) /\ ptr)
  <2>1. lookup = NoLookup
    BY <1>2, <1>4, <1>8 DEF Resolved
  <2> QED
    BY <1>0, <1>2, <1>3, <1>8, <2>1 DEF Lookups, LookupKinds, NotLookedUp, NoLookup, MemberKinds
<1> QED
  BY <1>5, <1>6, <1>7, <1>8

(* An evaluation under way has come to its value by the names before the     *)
(* one it is at, and uses a lookup of that name.                             *)
Evals == [pc : { "member", "resolve", "use", "done" }, request : Requests, value : AccessValues,
          i : Nat, lookup : Lookups, outcome : Outcomes]

EvalInv(g) ==
  Self(g).pc # "idle" =>
    LET names == Len(Self(g).request.pair) IN
    /\ Self(g) \in Evals
    /\ Self(g).i \in 1..(names + 1)
    /\ Self(g).pc \in { "resolve", "use" } => Self(g).i <= names /\ Self(g).value.type \in Types
    /\ Self(g).pc = "use" => Self(g).lookup \in LookupsOf(Self(g).value.type, Name(g))
    /\ Self(g).pc # "done" =>
         \E path \in [0..(Self(g).i - 1) -> AccessValues] :
           Path(Self(g).request, Self(g).i - 1, path) /\ path[Self(g).i - 1] = Self(g).value
    /\ Self(g).pc = "done" =>
         \/ AsDeclared(Self(g).request, Self(g).outcome)
         \/ /\ Self(g).outcome = "noMember" /\ Self(g).value.ptr
            /\ Declares[Self(g).value.type][Name(g)].kind = "ptrMethod"

LookupsInv ==
  \A type \in Types, name \in Names :
    accessorLookupCache[<<type, name>>] \in LookupsOf(type, name) \cup { NotLookedUp }

AccessorIInv ==
  /\ accessorLookupCache = [k \in Types \X Names |-> accessorLookupCache[k]]
  /\ evals = [g \in Goroutines |-> evals[g]]
  /\ LookupsInv
  /\ \A g \in Goroutines : EvalInv(g)

LEMMA AccessorInvSuffices == AccessorIInv => AccessorTypeOK /\ AccessesAsDeclared
<1> SUFFICES ASSUME AccessorIInv PROVE AccessorTypeOK /\ AccessesAsDeclared
  OBVIOUS
<1>1. \A type \in Types, name \in Names : LookupsOf(type, name) \subseteq Lookups
  BY LookupPicks
<1>2. accessorLookupCache \in [Types \X Names -> Lookups \cup { NotLookedUp }]
  <2>1. ASSUME NEW k \in Types \X Names PROVE accessorLookupCache[k] \in Lookups \cup { NotLookedUp }
    <3>1. PICK type \in Types, name \in Names : k = <<type, name>>
      OBVIOUS
    <3> QED
      BY <1>1, <3>1 DEF AccessorIInv, LookupsInv
  <2> QED
    BY <2>1 DEF AccessorIInv
<1>3. AccessorTypeOK
  BY <1>2 DEF AccessorIInv, EvalInv, AccessorTypeOK, Evals
<1>4. ASSUME NEW g \in Goroutines, Self(g).pc = "use", ~Unusable(g)
      PROVE  Indexed(Self(g).value.type, Self(g).lookup) = { Name(g) }
  <2>1. /\ Self(g).value.type \in Types /\ Self(g).request \in Requests
        /\ Self(g).i \in 1..Len(Self(g).request.pair)
        /\ Self(g).lookup \in LookupsOf(Self(g).value.type, Name(g))
    BY <1>4 DEF AccessorIInv, EvalInv, Evals
  <2>2. Name(g) \in Names
    BY <2>1, AccessorAssumption DEF Name
  <2> QED
    BY <1>4, <2>1, <2>2, LookupPicks DEF Unusable
<1>5. OnlyPointerMethodsMissed
  BY DEF AccessorIInv, EvalInv, OnlyPointerMethodsMissed
<1> QED
  BY <1>3, <1>4, <1>5 DEF AccessesAsDeclared, PicksTheNamedMember

LEMMA AccessorInitIInv == AccessorInit => AccessorIInv
BY DEF AccessorInit, AccessorIInv, LookupsInv, EvalInv, Self

(* A step of one evaluation leaves the others and what is known of them.     *)
LEMMA EvalsStay ==
  ASSUME AccessorIInv, NEW g \in Goroutines,
         evals' = [evals EXCEPT ![g] = evals'[g]], EvalInv(g)', LookupsInv',
         accessorLookupCache' = [k \in Types \X Names |-> accessorLookupCache'[k]]
  PROVE  AccessorIInv'
<1>1. ASSUME NEW h \in Goroutines, h # g PROVE EvalInv(h)'
  <2>1. Self(h)' = Self(h) /\ Name(h)' = Name(h)
    BY <1>1 DEF Self, Name, AccessorIInv
  <2> QED
    BY <2>1 DEF AccessorIInv, EvalInv
<1> QED
  BY <1>1 DEF AccessorIInv

(* How an evaluation ends once its path has come to its i-th name.           *)
LEMMA EndsAsDeclared ==
  ASSUME NEW request \in Requests, NEW i \in 1..(Len(request.pair) + 1), NEW outcome,
         NEW path \in [0..(i - 1) -> AccessValues], Path(request, i - 1, path),
         Ended(request, i - 1, path, outcome)
  PROVE  AsDeclared(request, outcome)
<1>1. Len(request.pair) \in Nat
  BY AccessorAssumption
<1>2. i - 1 \in 0..Len(request.pair)
  BY <1>1
<1> QED
  BY <1>2 DEF AsDeclared

(* A member that gives a value takes the path one name further.              *)
LEMMA PathGrows ==
  ASSUME NEW request \in Requests, NEW i \in 1..Len(request.pair),
         NEW path \in [0..(i - 1) -> AccessValues], Path(request, i - 1, path),
         Gives(path[i - 1], request.pair[i], request.args) = "value"
  PROVE  LET given == Declares[path[i - 1].type][request.pair[i]].gives
         IN \E longer \in [0..i -> AccessValues] : Path(request, i, longer) /\ longer[i] = given
<1> DEFINE given == Declares[path[i - 1].type][request.pair[i]].gives
           longer == [k \in 0..i |-> IF k = i THEN given ELSE path[k]]
<1>1. Len(request.pair) \in Nat /\ request.pair[i] \in Names
  BY AccessorAssumption
<1>2. path[i - 1] \in AccessValues /\ path[i - 1].type # Plain
  BY <1>1 DEF Gives
<1>3. path[i - 1].type \in Types
  BY <1>2 DEF AccessValues, ValueOf, NotAStruct
<1>4. given \in AccessValues
  BY <1>1, <1>3, AccessorAssumption DEF Members
<1>5. \A k \in 0..(i - 1) : k \in 0..i /\ longer[k] = path[k]
  BY <1>1
<1>6. longer \in [0..i -> AccessValues] /\ longer[i] = given
  BY <1>1, <1>4
<1>7. longer[0] = request.param
  BY <1>1, <1>5 DEF Path
<1>8. ASSUME NEW k \in 1..i
      PROVE  /\ Gives(longer[k - 1], request.pair[k], request.args) = "value"
             /\ longer[k] = Declares[longer[k - 1].type][request.pair[k]].gives
  <2>1. k - 1 \in 0..(i - 1) /\ (k = i \/ k \in 1..(i - 1))
    BY <1>1
  <2>2. longer[k - 1] = path[k - 1]
    BY <1>5, <2>1
  <2>3. CASE k = i
    BY <1>6, <2>2, <2>3
  <2>4. CASE k \in 1..(i - 1)
    <3> HIDE DEF longer
    <3>1. longer[k] = path[k]
      <4>1. k \in 0..(i - 1)
        BY <2>4
      <4> QED
        BY <1>5, <4>1
    <3> QED
      BY <2>2, <2>4, <3>1 DEF Path
  <2> QED
    BY <2>1, <2>3, <2>4
<1> HIDE DEF longer
<1> QED
  BY <1>6, <1>7, <1>8 DEF Path

(* What is known of an evaluation that has not ended.                        *)
LEMMA UnderWay ==
  ASSUME AccessorIInv, NEW g \in Goroutines, Self(g).pc \in { "member", "resolve", "use" }
  PROVE  \E request \in Requests : \E i \in 1..(Len(request.pair) + 1) :
         \E value \in AccessValues : \E path \in [0..(i - 1) -> AccessValues] :
           /\ request = evals[g].request /\ i = evals[g].i /\ value = evals[g].value
           /\ Path(request, i - 1, path) /\ path[i - 1] = value
BY DEF AccessorIInv, EvalInv, Evals, Self

(* An ending that the declarations explain.                                  *)
LEMMA EndsWell ==
  ASSUME AccessorIInv, NEW g \in Goroutines, Self(g).pc \in { "member", "use" },
         NEW outcome \in Outcomes, Ends(g, outcome), UNCHANGED accessorLookupCache,
         \/ AsDeclared(Self(g).request, outcome)
         \/ /\ outcome = "noMember" /\ Self(g).value.ptr
            /\ Declares[Self(g).value.type][Name(g)].kind = "ptrMethod"
  PROVE  AccessorIInv'
<1>1. evals' = [evals EXCEPT ![g] = evals'[g]] /\ Self(g) \in Evals
  BY DEF AccessorIInv, EvalInv, Ends, Self
<1>2. /\ Self(g)'.pc = "done" /\ Self(g)'.outcome = outcome
      /\ Self(g)'.request = Self(g).request /\ Self(g)'.value = Self(g).value
      /\ Self(g)'.i = Self(g).i /\ Self(g)'.lookup = Self(g).lookup
  BY <1>1 DEF AccessorIInv, Ends, Self, Evals
<1>3. Self(g)' \in Evals
  BY <1>1 DEF AccessorIInv, Ends, Self, Evals
<1>4. Name(g)' = Name(g)
  BY <1>2 DEF Name
<1>5. LookupsInv'
  BY DEF AccessorIInv, LookupsInv
<1>6. Self(g).i \in 1..(Len(Self(g).request.pair) + 1)
  BY DEF AccessorIInv, EvalInv
<1>7. EvalInv(g)'
  BY <1>2, <1>3, <1>4, <1>6 DEF EvalInv
<1> QED
  BY <1>1, <1>5, <1>7, EvalsStay DEF AccessorIInv

LEMMA BeginAccessIInv ==
  ASSUME AccessorIInv, NEW g \in Goroutines, BeginAccess(g)
  PROVE  AccessorIInv'
<1>1. PICK r \in Requests :
        evals' = [evals EXCEPT ![g] =
          [pc |-> "member", request |-> r, value |-> r.param, i |-> 1,
           lookup |-> NoLookup, outcome |-> "pending"]]
  BY DEF BeginAccess
<1>2. /\ Self(g)'.pc = "member" /\ Self(g)'.request = r /\ Self(g)'.value = r.param
      /\ Self(g)'.i = 1 /\ evals' = [evals EXCEPT ![g] = evals'[g]]
  BY <1>1 DEF AccessorIInv, Self
<1>3. r.param \in AccessValues /\ Len(r.pair) \in Nat
  BY AccessorAssumption
<1>4. Self(g)' \in Evals
  <2>1. NoLookup \in Lookups
    BY AccessorAssumption DEF NoLookup, Lookups, LookupKinds
  <2> QED
    BY <1>1, <1>3, <2>1 DEF AccessorIInv, Self, Evals, Outcomes
<1>5. /\ [k \in 0..0 |-> r.param] \in [0..(1 - 1) -> AccessValues]
      /\ Path(r, 1 - 1, [k \in 0..0 |-> r.param]) /\ [k \in 0..0 |-> r.param][1 - 1] = r.param
  BY <1>3 DEF Path
<1>6. EvalInv(g)'
  BY <1>2, <1>3, <1>4, <1>5 DEF EvalInv
<1> QED
  BY <1>2, <1>6, EvalsStay DEF BeginAccess, AccessorIInv, LookupsInv

LEMMA LoadLookupIInv ==
  ASSUME AccessorIInv, NEW g \in Goroutines, LoadLookup(g)
  PROVE  AccessorIInv'
<1>1. /\ Self(g) \in Evals /\ Self(g).pc = "member" /\ Self(g).i <= Len(Self(g).request.pair)
      /\ Self(g).i \in 1..(Len(Self(g).request.pair) + 1) /\ Self(g).value.type # Plain
      /\ \E path \in [0..(Self(g).i - 1) -> AccessValues] :
           Path(Self(g).request, Self(g).i - 1, path) /\ path[Self(g).i - 1] = Self(g).value
  BY DEF LoadLookup, AccessorIInv, EvalInv
<1>2. Self(g).value.type \in Types
  BY <1>1 DEF Evals, AccessValues, ValueOf, NotAStruct
<1>3. Name(g) \in Names
  BY <1>1, AccessorAssumption DEF Name, Evals
<1>4. PICK cached : cached = accessorLookupCache[Key(g)]
  OBVIOUS
<1>5. cached \in LookupsOf(Self(g).value.type, Name(g)) \cup { NotLookedUp }
  BY <1>2, <1>3, <1>4 DEF AccessorIInv, LookupsInv, Key
<1>6. /\ evals' = [evals EXCEPT ![g] = evals'[g]]
      /\ Self(g)'.pc = IF cached = NotLookedUp THEN "resolve" ELSE "use"
      /\ Self(g)'.lookup = IF cached = NotLookedUp THEN NoLookup ELSE cached
      /\ Self(g)'.request = Self(g).request /\ Self(g)'.value = Self(g).value
      /\ Self(g)'.i = Self(g).i /\ Self(g)'.outcome = Self(g).outcome
  BY <1>1, <1>4 DEF LoadLookup, AccessorIInv, Self, Evals
<1>7. Self(g)'.lookup \in Lookups
  BY <1>2, <1>3, <1>5, <1>6, LookupPicks, AccessorAssumption DEF NoLookup, Lookups, LookupKinds
<1>8. Self(g)' \in Evals
  BY <1>1, <1>4, <1>6, <1>7 DEF LoadLookup, AccessorIInv, Self, Evals
<1>9. Name(g)' = Name(g)
  BY <1>6 DEF Name
<1>10. EvalInv(g)'
  BY <1>1, <1>2, <1>5, <1>6, <1>8, <1>9 DEF EvalInv
<1> QED
  BY <1>6, <1>10, EvalsStay DEF LoadLookup, AccessorIInv, LookupsInv

LEMMA StoreLookupIInv ==
  ASSUME AccessorIInv, NEW g \in Goroutines, StoreLookup(g)
  PROVE  AccessorIInv'
<1>1. /\ Self(g) \in Evals /\ Self(g).pc = "resolve" /\ Self(g).i <= Len(Self(g).request.pair)
      /\ Self(g).i \in 1..(Len(Self(g).request.pair) + 1) /\ Self(g).value.type \in Types
      /\ \E path \in [0..(Self(g).i - 1) -> AccessValues] :
           Path(Self(g).request, Self(g).i - 1, path) /\ path[Self(g).i - 1] = Self(g).value
  BY DEF StoreLookup, AccessorIInv, EvalInv
<1>2. Name(g) \in Names
  BY <1>1, AccessorAssumption DEF Name, Evals
<1>3. PICK type \in Types, name \in Names : type = Self(g).value.type /\ name = Name(g)
  BY <1>1, <1>2
<1>4. PICK result : result = Resolved(type, Self(g).value.ptr, name)
  OBVIOUS
<1>5. result \in LookupsOf(type, name)
  <2>1. result = Resolved(type, TRUE, name) \/ result = Resolved(type, FALSE, name)
    BY <1>4 DEF Resolved
  <2> QED
    BY <2>1 DEF LookupsOf
<1>6. /\ evals' = [evals EXCEPT ![g] = evals'[g]]
      /\ Self(g)'.pc = "use" /\ Self(g)'.lookup = result
      /\ Self(g)'.request = Self(g).request /\ Self(g)'.value = Self(g).value
      /\ Self(g)'.i = Self(g).i /\ Self(g)'.outcome = Self(g).outcome
  BY <1>1, <1>3, <1>4 DEF StoreLookup, AccessorIInv, Self, Evals
<1>7. Self(g)'.lookup \in Lookups
  BY <1>5, <1>6, LookupPicks
<1>8. Self(g)' \in Evals
  BY <1>1, <1>6, <1>7 DEF StoreLookup, AccessorIInv, Self, Evals
<1>9. Name(g)' = Name(g)
  BY <1>6 DEF Name
<1>10. EvalInv(g)'
  BY <1>1, <1>3, <1>5, <1>6, <1>8, <1>9 DEF EvalInv
<1>11. accessorLookupCache' = [accessorLookupCache EXCEPT ![<<type, name>>] = result]
  BY <1>3, <1>4 DEF StoreLookup, Key
<1>12. LookupsInv' /\ accessorLookupCache' = [k \in Types \X Names |-> accessorLookupCache'[k]]
  BY <1>5, <1>11 DEF AccessorIInv, LookupsInv
<1> QED
  BY <1>6, <1>10, <1>12, EvalsStay

LEMMA UseMemberIInv ==
  ASSUME AccessorIInv, NEW g \in Goroutines, UseMember(g)
  PROVE  AccessorIInv'
<1>1. /\ Self(g) \in Evals /\ Self(g).pc = "use" /\ Self(g).i <= Len(Self(g).request.pair)
      /\ Self(g).value.type \in Types /\ ~Unusable(g)
      /\ Self(g).lookup \in LookupsOf(Self(g).value.type, Name(g))
  BY DEF UseMember, AccessorIInv, EvalInv
<1>2. PICK request \in Requests :
        \E i \in 1..(Len(request.pair) + 1) : \E value \in AccessValues :
        \E path \in [0..(i - 1) -> AccessValues] :
          /\ request = evals[g].request /\ i = evals[g].i /\ value = evals[g].value
          /\ Path(request, i - 1, path) /\ path[i - 1] = value
  BY <1>1, UnderWay
<1>3. PICK i \in 1..(Len(request.pair) + 1), value \in AccessValues :
        \E path \in [0..(i - 1) -> AccessValues] :
          /\ request = evals[g].request /\ i = evals[g].i /\ value = evals[g].value
          /\ Path(request, i - 1, path) /\ path[i - 1] = value
  BY <1>2
<1>4. PICK path \in [0..(i - 1) -> AccessValues] :
          /\ request = evals[g].request /\ i = evals[g].i /\ value = evals[g].value
          /\ Path(request, i - 1, path) /\ path[i - 1] = value
  BY <1>3
<1>5. PICK name \in Names, lookup \in Lookups :
        name = request.pair[i] /\ lookup = Self(g).lookup
  BY <1>1, <1>4, AccessorAssumption DEF Self, Evals
<1>6. /\ i \in 1..Len(request.pair) /\ Name(g) = name /\ value.type \in Types /\ value = Self(g).value
      /\ lookup \in LookupsOf(value.type, name)
      /\ lookup.kind # "none" /\ (lookup.kind = "ptrMethod" => value.ptr)
  BY <1>1, <1>4, <1>5 DEF Self, Name, Unusable
<1>7. /\ Indexed(value.type, lookup) = { name } /\ Declares[value.type][name].kind = lookup.kind
  BY <1>6, LookupPicks
<1>8. Has(value, name)
  <2>1. lookup.kind \in LookupKinds
    BY DEF Lookups
  <2> QED
    BY <1>6, <1>7, <2>1 DEF Has, LookupKinds
<1>9. PICK took : took = Took(Declares[value.type][name], request.args)
  OBVIOUS
<1>10. took = Gives(path[i - 1], request.pair[i], request.args)
  BY <1>4, <1>5, <1>6, <1>8, <1>9, AccessorAssumption DEF Gives
<1>11. PICK given : given = Declares[value.type][name].gives
  OBVIOUS
<1>12. IF took = "value"
       THEN evals' = [evals EXCEPT ![g].pc = "member", ![g].i = @ + 1, ![g].value = given]
       ELSE Ends(g, took)
  BY <1>4, <1>5, <1>6, <1>7, <1>9, <1>11 DEF UseMember, Self
<1>13. CASE took = "value"
  <2>0. evals' = [evals EXCEPT ![g] = [evals[g] EXCEPT !.pc = "member", !.i = i + 1, !.value = given]]
    BY <1>4, <1>12, <1>13 DEF AccessorIInv
  <2>1. /\ evals' = [evals EXCEPT ![g] = evals'[g]]
        /\ Self(g)'.pc = "member" /\ Self(g)'.value = given /\ Self(g)'.i = i + 1
        /\ Self(g)'.request = request /\ Self(g)'.lookup = Self(g).lookup
        /\ Self(g)'.outcome = Self(g).outcome
    BY <1>1, <1>4, <2>0 DEF AccessorIInv, Self, Evals
  <2>2. /\ given \in AccessValues
        /\ \E longer \in [0..i -> AccessValues] : Path(request, i, longer) /\ longer[i] = given
    <3>1. given = Declares[path[i - 1].type][request.pair[i]].gives
      BY <1>4, <1>5, <1>11
    <3>2. \E longer \in [0..i -> AccessValues] : Path(request, i, longer) /\ longer[i] = given
      <4>1. /\ path \in [0..(i - 1) -> AccessValues] /\ Path(request, i - 1, path)
            /\ Gives(path[i - 1], request.pair[i], request.args) = "value"
        BY <1>4, <1>10, <1>13
      <4> QED
        BY <1>6, <3>1, <4>1, PathGrows
    <3>3. given \in AccessValues
      BY <1>6, <1>11, AccessorAssumption DEF Members
    <3> QED
      BY <3>2, <3>3
  <2>3. (i + 1) - 1 = i /\ i + 1 \in 1..(Len(request.pair) + 1) /\ i + 1 \in Nat
    BY <1>6, AccessorAssumption
  <2>4. Self(g)' \in Evals
    BY <1>1, <2>0, <2>2, <2>3 DEF AccessorIInv, Self, Evals
  <2>5. EvalInv(g)'
    BY <2>1, <2>2, <2>3, <2>4 DEF EvalInv
  <2> QED
    BY <2>1, <2>5, EvalsStay DEF UseMember, AccessorIInv, LookupsInv
<1>14. CASE took # "value"
  <2>1. took \in Outcomes
    BY <1>9 DEF Took, Outcomes
  <2>2. Ended(request, i - 1, path, took)
    <3>1. i - 1 # Len(request.pair) /\ (i - 1) + 1 = i
      BY <1>6, AccessorAssumption
    <3> QED
      BY <1>10, <1>14, <3>1 DEF Ended
  <2>3. AsDeclared(request, took)
    BY <1>4, <2>2, EndsAsDeclared
  <2>4. request = Self(g).request
    BY <1>4 DEF Self
  <2> QED
    BY <1>1, <1>12, <1>14, <2>1, <2>3, <2>4, EndsWell DEF UseMember
<1> QED
  BY <1>13, <1>14

LEMMA EndingsIInv ==
  ASSUME AccessorIInv, NEW g \in Goroutines, PathEnds(g) \/ NotStruct(g) \/ NoMember(g)
  PROVE  AccessorIInv'
<1>1. /\ Self(g) \in Evals /\ Self(g).pc \in { "member", "use" }
      /\ Self(g).pc = "use" => /\ Self(g).i <= Len(Self(g).request.pair) /\ Self(g).value.type \in Types
                               /\ Self(g).lookup \in LookupsOf(Self(g).value.type, Name(g))
  BY DEF PathEnds, NotStruct, NoMember, AccessorIInv, EvalInv
<1>2. PICK request \in Requests :
        \E i \in 1..(Len(request.pair) + 1) : \E value \in AccessValues :
        \E path \in [0..(i - 1) -> AccessValues] :
          /\ request = evals[g].request /\ i = evals[g].i /\ value = evals[g].value
          /\ Path(request, i - 1, path) /\ path[i - 1] = value
  BY <1>1, UnderWay
<1>3. PICK i \in 1..(Len(request.pair) + 1), value \in AccessValues :
        \E path \in [0..(i - 1) -> AccessValues] :
          /\ request = evals[g].request /\ i = evals[g].i /\ value = evals[g].value
          /\ Path(request, i - 1, path) /\ path[i - 1] = value
  BY <1>2
<1>4. PICK path \in [0..(i - 1) -> AccessValues] :
          /\ request = evals[g].request /\ i = evals[g].i /\ value = evals[g].value
          /\ Path(request, i - 1, path) /\ path[i - 1] = value
  BY <1>3
<1>5. Self(g).request = request /\ Self(g).value = value /\ Self(g).i = i
  BY <1>4 DEF Self
<1>6. Len(request.pair) \in Nat /\ (i - 1) + 1 = i
  BY AccessorAssumption
<1>7. CASE PathEnds(g)
  <2>1. i - 1 = Len(request.pair)
    BY <1>5, <1>6, <1>7 DEF PathEnds
  <2>2. AsDeclared(request, "value")
    BY <1>4, <2>1, EndsAsDeclared DEF Ended
  <2> QED
    BY <1>1, <1>5, <1>7, <2>2, EndsWell DEF PathEnds, Outcomes
<1>8. CASE NotStruct(g)
  <2>1. Ended(request, i - 1, path, "notStruct")
    BY <1>4, <1>5, <1>6, <1>8 DEF NotStruct, Ended, Gives
  <2>2. AsDeclared(request, "notStruct")
    BY <1>4, <2>1, EndsAsDeclared
  <2> QED
    BY <1>1, <1>5, <1>8, <2>2, EndsWell DEF NotStruct, Outcomes
<1>9. CASE NoMember(g)
  <2>1. PICK name \in Names, lookup \in Lookups :
          name = request.pair[i] /\ lookup = Self(g).lookup
    BY <1>1, <1>5, <1>9, AccessorAssumption DEF NoMember, Self, Evals
  <2>2. Name(g) = name
    BY <1>5, <2>1 DEF Name
  <2>3. /\ value.type \in Types /\ i <= Len(request.pair) /\ lookup \in LookupsOf(value.type, name)
        /\ lookup.kind = "none" \/ (lookup.kind = "ptrMethod" /\ ~value.ptr)
    BY <1>1, <1>5, <1>9, <2>1, <2>2 DEF NoMember, Unusable
  <2>4. Declares[value.type][name].kind \in { "none", "ptrMethod" }
    BY <2>3, LookupPicks
  <2>5. CASE Declares[value.type][name].kind = "ptrMethod" /\ value.ptr
    BY <1>1, <1>5, <1>9, <2>2, <2>5, EndsWell DEF NoMember, Outcomes
  <2>6. CASE ~(Declares[value.type][name].kind = "ptrMethod" /\ value.ptr)
    <3>1. ~Has(value, name)
      BY <2>4, <2>6 DEF Has
    <3>2. value.type # Plain /\ i - 1 # Len(request.pair)
      BY <1>6, <2>3, AccessorAssumption
    <3>3. Ended(request, i - 1, path, "noMember")
      BY <1>4, <1>6, <2>1, <3>1, <3>2 DEF Ended, Gives
    <3>4. AsDeclared(request, "noMember")
      BY <1>4, <3>3, EndsAsDeclared
    <3> QED
      BY <1>1, <1>5, <1>9, <3>4, EndsWell DEF NoMember, Outcomes
  <2> QED
    BY <2>5, <2>6
<1> QED
  BY <1>7, <1>8, <1>9

LEMMA AccessorStepIInv == AccessorIInv /\ [AccessorNext]_accessorVars => AccessorIInv'
<1> SUFFICES ASSUME AccessorIInv, [AccessorNext]_accessorVars PROVE AccessorIInv'
  OBVIOUS
<1>1. ASSUME NEW g \in Goroutines, BeginAccess(g) PROVE AccessorIInv'
  BY <1>1, BeginAccessIInv
<1>2. ASSUME NEW g \in Goroutines, LoadLookup(g) PROVE AccessorIInv'
  BY <1>2, LoadLookupIInv
<1>3. ASSUME NEW g \in Goroutines, StoreLookup(g) PROVE AccessorIInv'
  BY <1>3, StoreLookupIInv
<1>4. ASSUME NEW g \in Goroutines, UseMember(g) PROVE AccessorIInv'
  BY <1>4, UseMemberIInv
<1>5. ASSUME NEW g \in Goroutines, PathEnds(g) \/ NotStruct(g) \/ NoMember(g) PROVE AccessorIInv'
  BY <1>5, EndingsIInv
<1>6. CASE UNCHANGED accessorVars
  BY <1>6 DEF accessorVars, AccessorIInv, LookupsInv, EvalInv, Self, Name
<1> QED
  BY <1>1, <1>2, <1>3, <1>4, <1>5, <1>6 DEF AccessorNext, AccessStep

LEMMA AccessorInvariant == AccessorSpec => []AccessorIInv
BY AccessorInitIInv, AccessorStepIInv, PTL DEF AccessorSpec

(* The lookups that goroutines share never lead an accessor to a member that *)
(* its expression does not name, whatever types, method sets and paths there *)
(* are and however the evaluations interleave; the cache stays well typed.   *)
THEOREM AllAccessesAsDeclared == AccessorSpec => [](AccessorTypeOK /\ AccessesAsDeclared)
BY AccessorInvariant, AccessorInvSuffices, PTL

-----------------------------------------------------------------------------
(***************************************************************************)
(* Pools                                                                   *)
(***************************************************************************)

PoolCalls == { c \in [function : PoolUsers, object : AllObjects] : c.object[1] = KindOf(c.function) }
ObjectOf(g, k) == calls[g][k].object

PoolsTyped ==
  /\ pooled \in [AllObjects -> { 0, 1 }]
  /\ contents \in [AllObjects -> SUBSET { "now", "before" }]
  /\ calls \in [Goroutines -> Seq(PoolCalls)]
  /\ \A g \in Goroutines : Len(calls[g]) <= MaxDepth

(* No call has an object that is in its pool or that another call has.       *)
ObjectsOwned ==
  /\ \A g \in Goroutines : \A k \in DOMAIN calls[g] :
       pooled[ObjectOf(g, k)] = 0 /\ "before" \notin contents[ObjectOf(g, k)]
  /\ \A g, h \in Goroutines : \A k \in DOMAIN calls[g] : \A j \in DOMAIN calls[h] :
       ObjectOf(g, k) = ObjectOf(h, j) => g = h /\ k = j

(* Lexer streams are put back empty: newLexerStream appends to what is there.*)
StreamsCleared ==
  \A o \in AllObjects : o[1] = "lexerStream" /\ pooled[o] = 1 => "before" \notin contents[o]

PoolsIInv == PoolsTyped /\ ObjectsOwned /\ StreamsCleared

LEMMA PoolsInvSuffices == PoolsIInv => PoolsTypeOK /\ UsedOnce /\ OwnContents
<1> SUFFICES ASSUME PoolsIInv PROVE PoolsTypeOK /\ UsedOnce /\ OwnContents
  OBVIOUS
<1>1. PoolsTypeOK
  <2>1. pooled \in [AllObjects -> Nat]
    BY DEF PoolsIInv, PoolsTyped
  <2>2. ASSUME NEW g \in Goroutines
        PROVE  /\ calls[g] \in Seq([function : PoolUsers, object : AllObjects])
               /\ \A k \in DOMAIN calls[g] : calls[g][k].object[1] = KindOf(calls[g][k].function)
    <3>1. calls[g] \in Seq(PoolCalls)
      BY DEF PoolsIInv, PoolsTyped
    <3>2. \A k \in DOMAIN calls[g] : calls[g][k] \in PoolCalls
      BY <3>1
    <3>3. PoolCalls \subseteq [function : PoolUsers, object : AllObjects]
      BY DEF PoolCalls
    <3>4. calls[g] \in Seq([function : PoolUsers, object : AllObjects])
      BY <3>1, <3>3, SeqMonotonic
    <3> QED
      BY <3>2, <3>4 DEF PoolCalls
  <2> QED
    BY <2>1, <2>2 DEF PoolsIInv, PoolsTyped, PoolsTypeOK
<1>2. ASSUME NEW p \in Places
      PROVE  /\ p[1] \in Goroutines /\ p[2] \in DOMAIN calls[p[1]] /\ p = <<p[1], p[2]>>
             /\ ObjectAt(p) = ObjectOf(p[1], p[2])
  BY DEF Places, ObjectAt, ObjectOf
<1>3. \A o \in AllObjects : pooled[o] <= 1
  BY DEF PoolsIInv, PoolsTyped
<1>4. \A p, q \in Places : p # q => ObjectAt(p) # ObjectAt(q)
  BY <1>2 DEF PoolsIInv, ObjectsOwned
<1>5. \A p \in Places : pooled[ObjectAt(p)] = 0 /\ "before" \notin contents[ObjectAt(p)]
  BY <1>2 DEF PoolsIInv, ObjectsOwned
<1> QED
  BY <1>1, <1>3, <1>4, <1>5 DEF UsedOnce, OwnContents

(* The object of a call is one of its kind.                                  *)
LEMMA CallsInHand ==
  ASSUME PoolsIInv, NEW g \in Goroutines, NEW k \in DOMAIN calls[g]
  PROVE  calls[g][k] \in PoolCalls /\ ObjectOf(g, k) \in AllObjects
<1>1. calls[g] \in Seq(PoolCalls)
  BY DEF PoolsIInv, PoolsTyped
<1>2. calls[g][k] \in PoolCalls
  BY <1>1
<1> QED
  BY <1>2 DEF PoolCalls, ObjectOf

LEMMA PoolsInitIInv == PoolsInit => PoolsIInv
BY DepthAssumption DEF PoolsInit, PoolsIInv, PoolsTyped, ObjectsOwned, StreamsCleared, PoolCalls

(* A call gets an object that no call has.                                   *)
LEMMA EnterIInv ==
  ASSUME PoolsIInv, NEW g \in Goroutines, NEW function \in PoolUsers, NEW object \in AllObjects,
         object[1] = KindOf(function), NEW content \in SUBSET { "now", "before" },
         function = "parseTokens" => "before" \notin content,
         \A h \in Goroutines : \A k \in DOMAIN calls[h] : ObjectOf(h, k) # object,
         Enter(g, function, object, content)
  PROVE  PoolsIInv'
<1> DEFINE call == [function |-> function, object |-> object]
<1>1. call \in PoolCalls /\ calls \in [Goroutines -> Seq(PoolCalls)]
  BY DEF PoolCalls, PoolsIInv, PoolsTyped
<1>2. calls' = [calls EXCEPT ![g] = Append(calls[g], call)] /\ Len(calls[g]) < MaxDepth
  BY DEF Enter, MayCall
<1>3. PICK prepared \in SUBSET { "now", "before" } :
        "before" \notin prepared /\ contents' = [contents EXCEPT ![object] = prepared]
  <2>1. Prepared(function, content) \in SUBSET { "now", "before" } /\ "before" \notin Prepared(function, content)
    BY DEF Prepared
  <2> QED
    BY <2>1 DEF Enter
<1>4. /\ pooled' \in [AllObjects -> { 0, 1 }] /\ pooled'[object] = 0
      /\ \A o \in AllObjects : o # object => pooled'[o] = pooled[o]
  BY DEF Enter, PoolsIInv, PoolsTyped
<1>5. /\ Len(calls'[g]) = Len(calls[g]) + 1 /\ DOMAIN calls'[g] = 1..(Len(calls[g]) + 1)
      /\ calls'[g][Len(calls[g]) + 1] = call
      /\ \A k \in DOMAIN calls[g] : k # Len(calls[g]) + 1 /\ calls'[g][k] = calls[g][k]
      /\ DOMAIN calls[g] = 1..Len(calls[g]) /\ Len(calls[g]) \in Nat
  BY <1>1, <1>2
<1>6. \A h \in Goroutines : h # g => calls'[h] = calls[h]
  BY <1>1, <1>2
<1> HIDE DEF call
<1>7. PoolsTyped'
  <2>1. calls' \in [Goroutines -> Seq(PoolCalls)]
    BY <1>1, <1>2
  <2>2. \A h \in Goroutines : Len(calls'[h]) <= MaxDepth
    BY <1>2, <1>5, <1>6, DepthAssumption DEF PoolsIInv, PoolsTyped
  <2> QED
    BY <1>3, <1>4, <2>1, <2>2 DEF PoolsIInv, PoolsTyped
<1>8. ASSUME NEW h \in Goroutines, NEW k \in DOMAIN calls'[h]
      PROVE  \/ h = g /\ k = Len(calls[g]) + 1 /\ ObjectOf(h, k)' = object
             \/ k \in DOMAIN calls[h] /\ ObjectOf(h, k)' = ObjectOf(h, k) /\ ObjectOf(h, k) # object
  <2>1. CASE h = g /\ k = Len(calls[g]) + 1
    BY <1>5, <2>1 DEF ObjectOf, call
  <2>2. CASE h = g /\ k \in DOMAIN calls[g]
    BY <1>5, <2>2 DEF ObjectOf
  <2>3. CASE h # g
    BY <1>6, <2>3 DEF ObjectOf
  <2> QED
    BY <1>5, <2>1, <2>2, <2>3
<1>9. ObjectsOwned'
  <2>1. \A h \in Goroutines : \A k \in DOMAIN calls[h] : ObjectOf(h, k) \in AllObjects
    BY CallsInHand
  <2>2. ASSUME NEW h \in Goroutines, NEW k \in DOMAIN calls'[h]
        PROVE  pooled'[ObjectOf(h, k)'] = 0 /\ "before" \notin contents'[ObjectOf(h, k)']
    BY <1>3, <1>4, <1>8, <2>1 DEF PoolsIInv, PoolsTyped, ObjectsOwned
  <2>3. ASSUME NEW h \in Goroutines, NEW i \in Goroutines, NEW k \in DOMAIN calls'[h],
               NEW j \in DOMAIN calls'[i], ObjectOf(h, k)' = ObjectOf(i, j)'
        PROVE  h = i /\ k = j
    BY <1>8, <2>3 DEF PoolsIInv, ObjectsOwned
  <2> QED
    BY <2>2, <2>3 DEF ObjectsOwned
<1>10. StreamsCleared'
  BY <1>3, <1>4 DEF StreamsCleared, PoolsIInv, PoolsTyped
<1> QED
  BY <1>7, <1>9, <1>10 DEF PoolsIInv

(* Calls end: the innermost ones of a goroutine, and what the others have    *)
(* stays as it was.                                                          *)
LEMMA CallsEnd ==
  ASSUME PoolsIInv, NEW g \in Goroutines, NEW n \in 0..(Len(calls[g]) - 1),
         calls' = [calls EXCEPT ![g] = SubSeq(calls[g], 1, n)],
         pooled' \in [AllObjects -> { 0, 1 }], contents' \in [AllObjects -> SUBSET { "now", "before" }],
         \A o \in AllObjects :
           \/ \E k \in (n + 1)..Len(calls[g]) : o = ObjectOf(g, k)
           \/ pooled'[o] = pooled[o] /\ contents'[o] = contents[o],
         StreamsCleared'
  PROVE  PoolsIInv'
<1>1. /\ calls[g] \in Seq(PoolCalls) /\ Len(calls[g]) \in Nat /\ DOMAIN calls[g] = 1..Len(calls[g])
      /\ calls \in [Goroutines -> Seq(PoolCalls)]
  BY DEF PoolsIInv, PoolsTyped
<1>2. /\ calls'[g] \in Seq(PoolCalls) /\ Len(calls'[g]) = n /\ DOMAIN calls'[g] = 1..n
      /\ \A k \in 1..n : k \in DOMAIN calls[g] /\ calls'[g][k] = calls[g][k]
      /\ calls'[g] = SubSeq(calls[g], 1, n)
  BY <1>1
<1>3. \A h \in Goroutines : h # g => calls'[h] = calls[h]
  BY <1>1
<1>4. PoolsTyped'
  <2>1. calls' \in [Goroutines -> Seq(PoolCalls)]
    BY <1>1, <1>2
  <2>2. \A h \in Goroutines : Len(calls'[h]) <= MaxDepth
    BY <1>1, <1>2, <1>3, DepthAssumption DEF PoolsIInv, PoolsTyped
  <2> QED
    BY <2>1, <2>2 DEF PoolsTyped
<1>5. ASSUME NEW h \in Goroutines, NEW k \in DOMAIN calls'[h]
      PROVE  /\ k \in DOMAIN calls[h] /\ ObjectOf(h, k)' = ObjectOf(h, k)
             /\ pooled'[ObjectOf(h, k)] = pooled[ObjectOf(h, k)]
             /\ contents'[ObjectOf(h, k)] = contents[ObjectOf(h, k)]
  <2>1. k \in DOMAIN calls[h] /\ ObjectOf(h, k)' = ObjectOf(h, k) /\ (h = g => k <= n)
    BY <1>2, <1>3 DEF ObjectOf
  <2>2. ObjectOf(h, k) \in AllObjects
    BY <2>1, CallsInHand
  <2>3. ASSUME NEW j \in (n + 1)..Len(calls[g]) PROVE ObjectOf(h, k) # ObjectOf(g, j)
    <3>1. j \in DOMAIN calls[g] /\ ~(h = g /\ k = j)
      BY <1>1, <1>2, <2>1
    <3> QED
      BY <2>1, <3>1 DEF PoolsIInv, ObjectsOwned
  <2> QED
    BY <2>1, <2>2, <2>3
<1>6. ObjectsOwned'
  BY <1>5 DEF PoolsIInv, ObjectsOwned
<1> QED
  BY <1>4, <1>6 DEF PoolsIInv

(* The innermost call of a goroutine and its object.                         *)
LEMMA InnermostInHand ==
  ASSUME PoolsIInv, NEW g \in Goroutines, NEW functions, InnermostIs(g, functions)
  PROVE  /\ Len(calls[g]) \in DOMAIN calls[g] /\ Len(calls[g]) \in Nat /\ Len(calls[g]) > 0
         /\ Innermost(g) = calls[g][Len(calls[g])] /\ Innermost(g) \in PoolCalls
         /\ Innermost(g).object = ObjectOf(g, Len(calls[g])) /\ Innermost(g).object \in AllObjects
         /\ Innermost(g).object[1] = KindOf(Innermost(g).function)
         /\ Front(calls[g]) = SubSeq(calls[g], 1, Len(calls[g]) - 1)
<1>1. calls[g] \in Seq(PoolCalls) /\ calls[g] # << >>
  BY DEF PoolsIInv, PoolsTyped, InnermostIs
<1>2. Len(calls[g]) \in DOMAIN calls[g] /\ Len(calls[g]) \in Nat /\ Len(calls[g]) > 0
  BY <1>1
<1>3. Innermost(g) = calls[g][Len(calls[g])]
  BY DEF Innermost, Last
<1>4. Innermost(g) \in PoolCalls /\ Innermost(g).object = ObjectOf(g, Len(calls[g]))
  BY <1>2, <1>3, CallsInHand DEF ObjectOf
<1> QED
  BY <1>2, <1>3, <1>4 DEF PoolCalls, Front

LEMMA ForgottenType ==
  ASSUME PoolsIInv, NEW objects
  PROVE  /\ Forgotten(objects) \in [AllObjects -> SUBSET { "now", "before" }]
         /\ \A o \in AllObjects : Forgotten(objects)[o] = IF o \in objects THEN { } ELSE contents[o]
BY DEF PoolsIInv, PoolsTyped, Forgotten

LEMMA PoolsStepIInv == PoolsIInv /\ [PoolsNext]_poolVars => PoolsIInv'
<1> SUFFICES ASSUME PoolsIInv, [PoolsNext]_poolVars PROVE PoolsIInv'
  OBVIOUS
<1>1. ASSUME NEW g \in Goroutines, Reuse(g) PROVE PoolsIInv'
  <2>1. PICK function \in PoolUsers : \E object \in Pooled(function) : Enter(g, function, object, contents[object])
    BY <1>1 DEF Reuse
  <2>2. PICK object \in AllObjects :
          /\ object[1] = KindOf(function) /\ pooled[object] > 0 /\ Enter(g, function, object, contents[object])
    BY <2>1 DEF Pooled
  <2>3. pooled[object] = 1 /\ contents[object] \in SUBSET { "now", "before" }
    BY <2>2 DEF PoolsIInv, PoolsTyped
  <2>4. function = "parseTokens" => "before" \notin contents[object]
    BY <2>2, <2>3 DEF PoolsIInv, StreamsCleared, KindOf
  <2>5. \A h \in Goroutines : \A k \in DOMAIN calls[h] : ObjectOf(h, k) # object
    BY <2>3 DEF PoolsIInv, ObjectsOwned
  <2>6. PICK content \in SUBSET { "now", "before" } : content = contents[object]
    BY <2>3
  <2> QED
    BY <2>2, <2>4, <2>5, <2>6, EnterIInv
<1>2. ASSUME NEW g \in Goroutines, Allocate(g) PROVE PoolsIInv'
  <2>1. PICK function \in PoolUsers : \E object \in New(function) : Enter(g, function, object, { })
    BY <1>2 DEF Allocate
  <2>2. PICK object \in AllObjects :
          object[1] = KindOf(function) /\ object \notin Used /\ Enter(g, function, object, { })
    BY <2>1 DEF New
  <2>3. \A h \in Goroutines : \A k \in DOMAIN calls[h] : ObjectOf(h, k) # object
    BY <2>2 DEF Used, ObjectOf
  <2> QED
    BY <2>2, <2>3, EnterIInv
<1>3. ASSUME NEW g \in Goroutines, WriteBuffer(g) PROVE PoolsIInv'
  <2>1. Innermost(g) \in PoolCalls /\ Innermost(g).function = "readUntilFalse"
    BY <1>3, InnermostInHand DEF WriteBuffer, InnermostIs
  <2>2. PICK object \in AllObjects : object = Innermost(g).object /\ object[1] # "lexerStream"
    BY <2>1 DEF PoolCalls, KindOf
  <2>3. contents' = [contents EXCEPT ![object] = contents[object] \cup { "now" }] /\ UNCHANGED <<pooled, calls>>
    BY <1>3, <2>2 DEF WriteBuffer
  <2>4. contents' \in [AllObjects -> SUBSET { "now", "before" }]
    BY <2>3 DEF PoolsIInv, PoolsTyped
  <2>5. \A o \in AllObjects : "before" \in contents'[o] => "before" \in contents[o]
    BY <2>3 DEF PoolsIInv, PoolsTyped
  <2>6. ObjectsOwned'
    BY <2>3, <2>5, CallsInHand DEF PoolsIInv, ObjectsOwned, ObjectOf
  <2> QED
    BY <2>3, <2>4, <2>5, <2>6 DEF PoolsIInv, PoolsTyped, StreamsCleared
<1>4. ASSUME NEW g \in Goroutines, Return(g) PROVE PoolsIInv'
  <2>1. InnermostIs(g, PoolUsers \ { "ToSQLQuery" })
    BY <1>4 DEF Return
  <2>2. PICK n \in 0..(Len(calls[g]) - 1) : n = Len(calls[g]) - 1
    BY <2>1, InnermostInHand
  <2>3. PICK object \in AllObjects : /\ object = Innermost(g).object /\ object = ObjectOf(g, n + 1)
                                      /\ object[1] = KindOf(Innermost(g).function)
    BY <2>1, <2>2, InnermostInHand
  <2>4. PICK left \in SUBSET { "now", "before" } :
          left = Left(Innermost(g).function, contents[object]) /\ (object[1] = "lexerStream" => left = { })
    <3>1. Left(Innermost(g).function, contents[object]) \in SUBSET { "now", "before" }
      BY DEF Left
    <3>2. Innermost(g).function \in PoolUsers
      BY <2>1 DEF InnermostIs
    <3>3. object[1] = "lexerStream" => Left(Innermost(g).function, contents[object]) = { }
      BY <2>3, <3>2 DEF Left, KindOf, PoolUsers
    <3> QED
      BY <3>1, <3>3
  <2>5. calls' = [calls EXCEPT ![g] = SubSeq(calls[g], 1, n)]
    BY <1>4, <2>1, <2>2, InnermostInHand DEF Return
  <2>6. pooled[object] = 0
    BY <2>1, <2>2, <2>3, InnermostInHand DEF PoolsIInv, ObjectsOwned
  <2>7. /\ pooled' \in [AllObjects -> { 0, 1 }] /\ contents' \in [AllObjects -> SUBSET { "now", "before" }]
        /\ \A o \in AllObjects : o # object => pooled'[o] = pooled[o] /\ contents'[o] = contents[o]
        /\ contents'[object] = left
    BY <1>4, <2>3, <2>4, <2>6 DEF Return, PoolsIInv, PoolsTyped
  <2>8. StreamsCleared'
    BY <2>4, <2>7 DEF PoolsIInv, StreamsCleared
  <2>9. n + 1 \in (n + 1)..Len(calls[g])
    BY <2>1, <2>2, InnermostInHand
  <2> QED
    BY <2>3, <2>5, <2>7, <2>8, <2>9, CallsEnd
<1>5. ASSUME NEW g \in Goroutines, Abandon(g) PROVE PoolsIInv'
  <2>1. InnermostIs(g, { "ToSQLQuery", "parseTokens" })
    BY <1>5 DEF Abandon
  <2>2. PICK n \in 0..(Len(calls[g]) - 1) : n = Len(calls[g]) - 1
    BY <2>1, InnermostInHand
  <2>3. calls' = [calls EXCEPT ![g] = SubSeq(calls[g], 1, n)]
    BY <1>5, <2>1, <2>2, InnermostInHand DEF Abandon
  <2>4. n + 1 \in (n + 1)..Len(calls[g]) /\ Innermost(g).object = ObjectOf(g, n + 1)
    BY <2>1, <2>2, InnermostInHand
  <2>5. /\ contents' \in [AllObjects -> SUBSET { "now", "before" }]
        /\ \A o \in AllObjects : contents'[o] = IF o = ObjectOf(g, n + 1) THEN { } ELSE contents[o]
    BY <1>5, <2>4, ForgottenType DEF Abandon
  <2>6. pooled' = pooled /\ pooled \in [AllObjects -> { 0, 1 }]
    BY <1>5 DEF Abandon, PoolsIInv, PoolsTyped
  <2>7. StreamsCleared'
    BY <2>5, <2>6 DEF PoolsIInv, StreamsCleared
  <2> QED
    BY <2>3, <2>4, <2>5, <2>6, <2>7, CallsEnd
<1>6. ASSUME NEW g \in Goroutines, Panic(g) PROVE PoolsIInv'
  <2>1. PICK n \in 0..(Len(calls[g]) - 1) :
          /\ calls' = [calls EXCEPT ![g] = SubSeq(calls[g], 1, n)]
          /\ contents' = Forgotten({ calls[g][k].object : k \in n + 1 .. Len(calls[g]) })
    BY <1>6 DEF Panic
  <2>2. /\ contents' \in [AllObjects -> SUBSET { "now", "before" }]
        /\ \A o \in AllObjects :
             \/ contents'[o] = contents[o]
             \/ contents'[o] = { } /\ \E k \in (n + 1)..Len(calls[g]) : o = ObjectOf(g, k)
    BY <2>1, ForgottenType DEF ObjectOf
  <2>3. pooled' = pooled /\ pooled \in [AllObjects -> { 0, 1 }]
    BY <1>6 DEF Panic, PoolsIInv, PoolsTyped
  <2>4. StreamsCleared'
    BY <2>2, <2>3 DEF PoolsIInv, StreamsCleared
  <2> QED
    BY <2>1, <2>2, <2>3, <2>4, CallsEnd
<1>7. ASSUME CollectPooled PROVE PoolsIInv'
  <2>1. PICK object \in AllObjects : /\ pooled[object] > 0 /\ contents' = Forgotten({ object })
                                      /\ pooled' = [pooled EXCEPT ![object] = @ - 1] /\ UNCHANGED calls
    BY <1>7 DEF CollectPooled
  <2>2. /\ contents' \in [AllObjects -> SUBSET { "now", "before" }]
        /\ \A o \in AllObjects : contents'[o] = IF o = object THEN { } ELSE contents[o]
    BY <2>1, ForgottenType
  <2>3. pooled' \in [AllObjects -> { 0, 1 }] /\ \A o \in AllObjects : pooled'[o] = 0 \/ pooled'[o] = pooled[o]
    BY <2>1 DEF PoolsIInv, PoolsTyped
  <2>4. PoolsTyped'
    BY <2>1, <2>2, <2>3 DEF PoolsIInv, PoolsTyped
  <2>5. ObjectsOwned'
    <3>1. \A o \in AllObjects : /\ "before" \in contents'[o] => "before" \in contents[o]
                                /\ pooled[o] = 0 => pooled'[o] = 0
      BY <2>2, <2>3
    <3>2. ASSUME NEW g \in Goroutines, NEW k \in DOMAIN calls[g]
          PROVE  pooled'[ObjectOf(g, k)] = 0 /\ "before" \notin contents'[ObjectOf(g, k)]
      <4>1. pooled[ObjectOf(g, k)] = 0 /\ "before" \notin contents[ObjectOf(g, k)]
        BY DEF PoolsIInv, ObjectsOwned
      <4> QED
        BY <3>1, <4>1, CallsInHand
    <3>3. \A g, k : ObjectOf(g, k)' = ObjectOf(g, k)
      BY <2>1 DEF ObjectOf
    <3>4. \A g \in Goroutines : \A k \in DOMAIN calls'[g] :
            pooled'[ObjectOf(g, k)'] = 0 /\ "before" \notin contents'[ObjectOf(g, k)']
      BY <2>1, <3>2, <3>3
    <3>5. \A g, h \in Goroutines : \A k \in DOMAIN calls'[g] : \A j \in DOMAIN calls'[h] :
            ObjectOf(g, k)' = ObjectOf(h, j)' => g = h /\ k = j
      BY <2>1, <3>3 DEF PoolsIInv, ObjectsOwned
    <3> QED
      BY <3>4, <3>5 DEF ObjectsOwned
  <2>6. StreamsCleared'
    BY <2>2, <2>3 DEF PoolsIInv, StreamsCleared
  <2> QED
    BY <2>4, <2>5, <2>6 DEF PoolsIInv
<1>8. CASE UNCHANGED poolVars
  BY <1>8 DEF poolVars, PoolsIInv, PoolsTyped, ObjectsOwned, StreamsCleared, ObjectOf
<1> QED
  BY <1>1, <1>2, <1>3, <1>4, <1>5, <1>6, <1>7, <1>8 DEF PoolsNext

LEMMA PoolsInvariant == PoolsSpec => []PoolsIInv
BY PoolsInitIInv, PoolsStepIInv, PTL DEF PoolsSpec

(* An object of a pool is in one call's hands at a time, on any number of    *)
(* goroutines and with calls of any depth, panics and collections included.  *)
THEOREM ObjectsUsedOnce == PoolsSpec => [](PoolsTypeOK /\ UsedOnce)
BY PoolsInvariant, PoolsInvSuffices, PTL

(* Nothing of one expression is seen by a call for another.                  *)
THEOREM ContentsStayOwn == PoolsSpec => []OwnContents
BY PoolsInvariant, PoolsInvSuffices, PTL

-----------------------------------------------------------------------------
(***************************************************************************)
(* Token samples                                                           *)
(***************************************************************************)

(* A set of numbers has a least one, and so there is induction for sets.     *)
LEMMA Least ==
  ASSUME NEW T \in SUBSET Nat, T # { }
  PROVE  \E x \in T : \A y \in T : x <= y
<1>1. PICK x \in T : \A y \in T : <<y, x>> \notin OpToRel(<, Nat)
  BY NatLessThanWellFounded, WFMin
<1>2. \A y \in T : <<y, x>> \in OpToRel(<, Nat) <=> y < x
  BY DEF OpToRel
<1>3. \A y \in T : ~(y < x)
  BY <1>1, <1>2, Zenon
<1> QED
  BY <1>3

LEMMA Induction ==
  ASSUME NEW T, 0 \in T, \A m \in Nat : m \in T => m + 1 \in T
  PROVE  Nat \subseteq T
<1> SUFFICES ASSUME Nat \ T # { } PROVE FALSE
  OBVIOUS
<1>1. PICK x \in Nat \ T : \A y \in Nat \ T : x <= y
  BY Least
<1>2. x - 1 \in Nat /\ (x - 1) + 1 = x /\ ~(x <= x - 1)
  BY <1>1
<1> QED
  BY <1>1, <1>2

LEMMA Greatest ==
  ASSUME NEW n \in Nat, NEW T \in SUBSET (1..n), T # { }
  PROVE  \E x \in T : \A y \in T : y <= x
<1> DEFINE Below == { n - x : x \in T }
<1>1. Below \in SUBSET Nat /\ Below # { }
  <2>1. \A x \in T : n - x \in Nat
    OBVIOUS
  <2>2. PICK x : x \in T
    OBVIOUS
  <2>3. n - x \in Below
    BY <2>2
  <2> QED
    BY <2>1, <2>3
<1>2. PICK b \in Below : \A c \in Below : b <= c
  <2> HIDE DEF Below
  <2> QED
    BY <1>1, Least
<1>3. PICK x \in T : b = n - x
  OBVIOUS
<1>4. \A y \in T : n - x <= n - y
  BY <1>2, <1>3
<1> QED
  BY <1>4

(* The total that the loop over the samples comes to is a number.            *)
LEMMA TotalIsNat ==
  ASSUME NEW s \in Seq(Nat)
  PROVE  Total(s) \in Nat
<1> DEFINE n == Len(s)
           sum == CHOOSE f : f = [k \in 0..n |-> IF k = 0 THEN 0 ELSE f[k - 1] + s[k]]
           Partial(m) == { f \in [0..m -> Nat] : f[0] = 0 /\ \A k \in 1..m : f[k] = f[k - 1] + s[k] }
           Reached == { m \in Nat : m <= n => Partial(m) # { } }
<1>1. Total(s) = sum[n]
  BY DEF Total
<1>2. n \in Nat /\ \A k \in 1..n : s[k] \in Nat
  OBVIOUS
<1>3. Partial(0) # { }
  <2>1. [k \in 0..0 |-> 0] \in Partial(0)
    OBVIOUS
  <2> QED
    BY <2>1
<1>4. ASSUME NEW m \in Nat, m + 1 <= n, Partial(m) # { } PROVE Partial(m + 1) # { }
  <2>1. PICK f \in [0..m -> Nat] : f[0] = 0 /\ \A k \in 1..m : f[k] = f[k - 1] + s[k]
    BY <1>4
  <2> DEFINE longer == [k \in 0..(m + 1) |-> IF k = m + 1 THEN f[m] + s[m + 1] ELSE f[k]]
  <2>2. f[m] + s[m + 1] \in Nat
    BY <1>2, <1>4
  <2>3. longer \in [0..(m + 1) -> Nat]
    BY <2>2
  <2>4. longer[m + 1] = f[m] + s[m + 1] /\ \A k \in 0..m : longer[k] = f[k]
    OBVIOUS
  <2> HIDE DEF longer
  <2>5. ASSUME NEW k \in 1..(m + 1) PROVE longer[k] = longer[k - 1] + s[k]
    <3>1. CASE k = m + 1
      BY <2>4, <3>1
    <3>2. CASE k \in 1..m
      <4>1. k - 1 \in 0..m /\ k \in 0..m
        BY <3>2
      <4> QED
        BY <2>1, <2>4, <3>2, <4>1
    <3> QED
      BY <3>1, <3>2
  <2>6. longer \in Partial(m + 1)
    BY <2>1, <2>3, <2>4, <2>5
  <2> QED
    BY <2>6
<1>5. Nat \subseteq Reached
  <2>1. 0 \in Reached
    BY <1>3
  <2>2. \A m \in Nat : m \in Reached => m + 1 \in Reached
    <3> HIDE DEF Partial
    <3> QED
      BY <1>2, <1>4
  <2> HIDE DEF Reached
  <2> QED
    BY <2>1, <2>2, Induction
<1>6. PICK f \in Partial(n) : TRUE
  <2> HIDE DEF Partial
  <2> QED
    BY <1>2, <1>5
<1>7. f = [k \in 0..n |-> IF k = 0 THEN 0 ELSE f[k - 1] + s[k]]
  BY <1>2
<1>8. sum = [k \in 0..n |-> IF k = 0 THEN 0 ELSE sum[k - 1] + s[k]]
  BY <1>7
<1> HIDE DEF sum
<1> DEFINE Typed == { m \in Nat : m <= n => sum[m] \in Nat }
<1>9. Nat \subseteq Typed
  <2>1. 0 \in Typed
    BY <1>2, <1>8
  <2>2. \A m \in Nat : m \in Typed => m + 1 \in Typed
    <3> SUFFICES ASSUME NEW m \in Nat, sum[m] \in Nat, m + 1 <= n PROVE sum[m + 1] \in Nat
      BY <1>2
    <3>1. m + 1 \in 0 .. n /\ m + 1 # 0 /\ (m + 1) - 1 = m /\ s[m + 1] \in Nat
      BY <1>2
    <3>2. sum[m + 1] = sum[m] + s[m + 1]
      BY <1>8, <3>1
    <3> QED
      BY <3>1, <3>2
  <2> HIDE DEF Typed
  <2> QED
    BY <2>1, <2>2, Induction
<1> QED
  BY <1>1, <1>2, <1>9

(* The newest counts, and how they change when the window moves on by one.   *)
Before(n) == IF n > Window THEN n - Window ELSE 0
Newest(s) == SubSeq(s, Before(Len(s)) + 1, Len(s))

LEMMA WindowMoves ==
  ASSUME NEW s \in Seq(Counts), NEW c \in Counts
  PROVE  /\ Newest(s) \in Seq(Counts) /\ Len(Newest(s)) <= Window
         /\ Append(IF Len(Newest(s)) = Window THEN Tail(Newest(s)) ELSE Newest(s), c) = Newest(Append(s, c))
<1>1. Window \in Nat \ {0} /\ Len(s) \in Nat /\ Len(Append(s, c)) = Len(s) + 1 /\ Append(s, c) \in Seq(Counts)
  BY SamplesAssumption
<1>2. CASE Len(s) < Window
  <2>1. Before(Len(s)) = 0 /\ Before(Len(s) + 1) = 0
    BY <1>1, <1>2 DEF Before
  <2>2. Newest(s) = SubSeq(s, 1, Len(s)) /\ Newest(Append(s, c)) = SubSeq(Append(s, c), 1, Len(s) + 1)
    BY <1>1, <2>1 DEF Newest
  <2>3. SubSeq(s, 1, Len(s)) = s /\ SubSeq(Append(s, c), 1, Len(s) + 1) = Append(s, c)
    BY <1>1
  <2>4. Newest(s) = s /\ Newest(Append(s, c)) = Append(s, c)
    BY <2>2, <2>3
  <2> QED
    BY <1>1, <1>2, <2>4
<1>3. CASE Len(s) >= Window
  <2>1. PICK low \in Nat : low = Len(s) - Window
    BY <1>1, <1>3
  <2>2. low < Len(s) /\ low + 1 = Len(s) + 1 - Window /\ Len(s) + 1 > Window
    BY <1>1, <2>1
  <2>3. Newest(s) = SubSeq(s, low + 1, Len(s))
    <3>1. Before(Len(s)) = low
      BY <1>1, <1>3, <2>1 DEF Before
    <3> QED
      BY <3>1 DEF Newest
  <2>4. Newest(Append(s, c)) = SubSeq(Append(s, c), low + 2, Len(s) + 1)
    <3>1. Before(Len(s) + 1) + 1 = low + 2
      BY <1>1, <2>1, <2>2 DEF Before
    <3> QED
      BY <1>1, <3>1 DEF Newest
  <2>5. /\ SubSeq(s, low + 1, Len(s)) \in Seq(Counts) /\ Len(SubSeq(s, low + 1, Len(s))) = Window
        /\ Tail(SubSeq(s, low + 1, Len(s))) = SubSeq(s, low + 2, Len(s))
        /\ Append(SubSeq(s, low + 2, Len(s)), c) = SubSeq(Append(s, c), low + 2, Len(s) + 1)
    <3>1. Len(s) - low = Window /\ low \in 0 .. Len(s) - 1
      BY <1>1, <2>1, <2>2
    <3>2. SubSeq(s, low + 1, Len(s)) \in Seq(Counts) /\ Len(SubSeq(s, low + 1, Len(s))) = Window
      BY <1>1, <3>1
    <3>3. Tail(SubSeq(s, low + 1, Len(s))) = SubSeq(s, low + 2, Len(s))
      BY <1>1, <3>1
    <3>4. Append(SubSeq(s, low + 2, Len(s)), c) = SubSeq(Append(s, c), low + 2, Len(s) + 1)
      BY <1>1, <3>1
    <3> QED
      BY <3>2, <3>3, <3>4
  <2>6. /\ Newest(s) \in Seq(Counts) /\ Len(Newest(s)) = Window
        /\ Append(Tail(Newest(s)), c) = Newest(Append(s, c))
    BY <2>3, <2>4, <2>5
  <2> QED
    BY <1>1, <2>6
<1> QED
  BY <1>1, <1>2, <1>3

(* A goroutine is inside a critical section exactly while it has the mutex.  *)
Exclusive ==
  \A g \in Goroutines :
    parses[g].pc \in { "capacity", "append", "average", "unlock" } <=> samplesMu = g

(* The count that will be added is that of the tokens read.                  *)
Counting == \A g \in Goroutines : parses[g].pc \in { "sample", "append" } => parses[g].count \in Counts

(* Between two critical sections the hint is the average of the samples.     *)
Averaged ==
  /\ \A g \in Goroutines : parses[g].pc = "average" => samples # << >>
  /\ (\A g \in Goroutines : parses[g].pc # "average") =>
       averageTokens = IF samples = << >> THEN 1 ELSE Total(samples) \div Len(samples)

SamplesIInv == SamplesTypeOK /\ Exclusive /\ Counting /\ WindowOfLast /\ Averaged

LEMMA SamplesInitIInv == SamplesInit => SamplesIInv
<1> SUFFICES ASSUME SamplesInit PROVE SamplesIInv
  OBVIOUS
<1>1. SamplesTypeOK
  BY SamplesAssumption DEF SamplesInit, SamplesTypeOK, At, ParseSteps
<1>2. Exclusive /\ Counting /\ Averaged
  BY SamplesAssumption DEF SamplesInit, Exclusive, Counting, Averaged, At
<1>3. WindowOfLast
  BY SamplesAssumption DEF SamplesInit, WindowOfLast
<1> QED
  BY <1>1, <1>2, <1>3 DEF SamplesIInv

LEMMA SamplesNat == ASSUME SamplesIInv PROVE Total(samples) \in Nat /\ Len(samples) \in Nat
<1>1. samples \in Seq(Counts)
  BY DEF SamplesIInv, SamplesTypeOK
<1>2. samples \in Seq(Nat)
  BY <1>1, SamplesAssumption, SeqMonotonic
<1> QED
  BY <1>1, <1>2, TotalIsNat

(* What the steps of a goroutine have in common.                             *)
LEMMA ParsesMove ==
  ASSUME SamplesIInv, NEW g \in Goroutines, NEW pc \in ParseSteps, Goes(g, pc)
  PROVE  /\ parses' \in [Goroutines -> [pc : ParseSteps, hint : Nat, count : Counts \cup { 0 }]]
         /\ parses'[g].pc = pc /\ parses'[g].count = parses[g].count
         /\ \A h \in Goroutines : h # g => parses'[h] = parses[h]
BY DEF SamplesIInv, SamplesTypeOK, Goes

LEMMA SamplesStepIInv == SamplesIInv /\ [SamplesNext]_sampleVars => SamplesIInv'
<1> SUFFICES ASSUME SamplesIInv, [SamplesNext]_sampleVars PROVE SamplesIInv'
  OBVIOUS
<1>1. ASSUME NEW g \in Goroutines, Parse(g) PROVE SamplesIInv'
  <2>1. /\ parses' \in [Goroutines -> [pc : ParseSteps, hint : Nat, count : Counts \cup { 0 }]]
        /\ parses'[g].pc = "capacity" /\ \A h \in Goroutines : h # g => parses'[h] = parses[h]
    BY <1>1, ParsesMove DEF Parse, ParseSteps
  <2>2. SamplesTypeOK' /\ WindowOfLast'
    BY <1>1, <2>1 DEF Parse, Lock, SamplesIInv, SamplesTypeOK, WindowOfLast
  <2>3. Exclusive' /\ Counting' /\ Averaged'
    BY <1>1, <2>1, SamplesAssumption DEF Parse, Lock, SamplesIInv, Exclusive, Counting, Averaged
  <2> QED
    BY <2>2, <2>3 DEF SamplesIInv
<1>2. ASSUME NEW g \in Goroutines, MakeTokens(g) PROVE SamplesIInv'
  <2>1. /\ parses' \in [Goroutines -> [pc : ParseSteps, hint : Nat, count : Counts \cup { 0 }]]
        /\ parses'[g].pc = "parse" /\ \A h \in Goroutines : h # g => parses'[h] = parses[h]
    BY <1>2 DEF MakeTokens, At, SamplesIInv, SamplesTypeOK, ParseSteps
  <2>2. SamplesTypeOK' /\ WindowOfLast'
    BY <1>2, <2>1 DEF MakeTokens, Unlock, SamplesIInv, SamplesTypeOK, WindowOfLast
  <2>3. Exclusive' /\ Counting' /\ Averaged'
    BY <1>2, <2>1, SamplesAssumption DEF MakeTokens, Unlock, SamplesIInv, Exclusive, Counting, Averaged
  <2> QED
    BY <2>2, <2>3 DEF SamplesIInv
<1>3. ASSUME NEW g \in Goroutines, ReadFails(g) \/ TokensRead(g) PROVE SamplesIInv'
  <2>1. /\ parses' \in [Goroutines -> [pc : ParseSteps, hint : Nat, count : Counts \cup { 0 }]]
        /\ parses[g].pc = "parse" /\ parses'[g].pc \in { "idle", "sample" }
        /\ parses'[g].pc = "sample" => parses'[g].count \in Counts
        /\ \A h \in Goroutines : h # g => parses'[h] = parses[h]
        /\ UNCHANGED <<averageTokens, samples, samplesMu, counted>>
    <3>1. CASE ReadFails(g)
      BY <3>1, ParsesMove DEF ReadFails, ParseSteps
    <3>2. CASE TokensRead(g)
      <4>1. PICK n \in Counts : parses' = [parses EXCEPT ![g].pc = "sample", ![g].count = n]
        BY <3>2 DEF TokensRead
      <4>2. PICK parse : parse = [parses[g] EXCEPT !.pc = "sample", !.count = n]
        OBVIOUS
      <4>3. /\ parse \in [pc : ParseSteps, hint : Nat, count : Counts \cup { 0 }]
            /\ parse.pc = "sample" /\ parse.count = n
        BY <4>2 DEF SamplesIInv, SamplesTypeOK, ParseSteps
      <4>4. parses' = [parses EXCEPT ![g] = parse]
        BY <4>1, <4>2 DEF SamplesIInv, SamplesTypeOK
      <4> QED
        BY <3>2, <4>3, <4>4 DEF TokensRead, SamplesIInv, SamplesTypeOK
    <3> QED
      BY <1>3, <3>1, <3>2
  <2>2. SamplesTypeOK' /\ WindowOfLast'
    BY <2>1 DEF SamplesIInv, SamplesTypeOK, WindowOfLast
  <2>3. Exclusive' /\ Counting' /\ Averaged'
    BY <2>1, SamplesAssumption DEF SamplesIInv, Exclusive, Counting, Averaged
  <2> QED
    BY <2>2, <2>3 DEF SamplesIInv
<1>4. ASSUME NEW g \in Goroutines, LockSamples(g) PROVE SamplesIInv'
  <2>1. /\ parses' \in [Goroutines -> [pc : ParseSteps, hint : Nat, count : Counts \cup { 0 }]]
        /\ parses'[g].pc = "append" /\ parses'[g].count = parses[g].count
        /\ \A h \in Goroutines : h # g => parses'[h] = parses[h]
    BY <1>4, ParsesMove DEF LockSamples, ParseSteps
  <2>2. SamplesTypeOK' /\ WindowOfLast'
    BY <1>4, <2>1 DEF LockSamples, Lock, SamplesIInv, SamplesTypeOK, WindowOfLast
  <2>3. Exclusive' /\ Counting' /\ Averaged'
    BY <1>4, <2>1, SamplesAssumption DEF LockSamples, Lock, SamplesIInv, Exclusive, Counting, Averaged
  <2> QED
    BY <2>2, <2>3 DEF SamplesIInv
<1>5. ASSUME NEW g \in Goroutines, AppendSample(g) PROVE SamplesIInv'
  <2>1. /\ parses' \in [Goroutines -> [pc : ParseSteps, hint : Nat, count : Counts \cup { 0 }]]
        /\ parses'[g].pc = "average" /\ \A h \in Goroutines : h # g => parses'[h] = parses[h]
    BY <1>5, ParsesMove DEF AppendSample, ParseSteps
  <2>2. Exclusive' /\ Counting' /\ samples' # << >>
    <3>1. samplesMu' = samplesMu /\ parses[g].pc = "append"
      BY <1>5 DEF AppendSample
    <3>2. Exclusive'
      BY <2>1, <3>1 DEF SamplesIInv, Exclusive
    <3>3. Counting'
      BY <2>1 DEF SamplesIInv, Counting
    <3>4. samples' # << >>
      <4>1. PICK kept : kept = IF Len(samples) = Window THEN Tail(samples) ELSE samples
        OBVIOUS
      <4>2. kept \in Seq(Counts) /\ parses[g].count \in Counts
        BY <3>1, <4>1, SamplesAssumption DEF SamplesIInv, SamplesTypeOK, Counting
      <4>3. samples' = Append(kept, parses[g].count)
        BY <1>5, <4>1 DEF AppendSample
      <4> QED
        BY <4>2, <4>3
    <3> QED
      BY <3>2, <3>3, <3>4
  <2>3. Averaged'
    BY <2>1, <2>2, <1>5 DEF AppendSample, SamplesIInv, Exclusive, Counting, Averaged
  <2>4. SamplesTypeOK' /\ WindowOfLast'
    <3>1. PICK s \in Seq(Counts), c \in Counts : s = counted /\ c = parses[g].count
      BY <1>5 DEF AppendSample, SamplesIInv, SamplesTypeOK, Counting
    <3>2. samples = Newest(s)
      BY <3>1 DEF SamplesIInv, WindowOfLast, Newest, Before
    <3>3. samples' = Append(IF Len(samples) = Window THEN Tail(samples) ELSE samples, c)
      BY <1>5, <3>1 DEF AppendSample
    <3>4. counted' = Append(s, c) /\ UNCHANGED <<averageTokens, samplesMu>>
      BY <1>5, <3>1 DEF AppendSample
    <3>5. counted' \in Seq(Counts) /\ samples' = Newest(Append(s, c))
      BY <3>2, <3>3, <3>4, WindowMoves
    <3>6. samples' \in Seq(Counts) /\ Len(samples') <= Window
      BY <3>4, <3>5, WindowMoves
    <3>7. WindowOfLast'
      BY <3>4, <3>5 DEF WindowOfLast, Newest, Before
    <3> QED
      BY <2>1, <3>4, <3>5, <3>6, <3>7 DEF SamplesIInv, SamplesTypeOK
  <2> QED
    BY <2>2, <2>3, <2>4 DEF SamplesIInv
<1>6. ASSUME NEW g \in Goroutines, Average(g) PROVE SamplesIInv'
  <2>1. /\ parses' \in [Goroutines -> [pc : ParseSteps, hint : Nat, count : Counts \cup { 0 }]]
        /\ parses'[g].pc = "unlock" /\ \A h \in Goroutines : h # g => parses'[h] = parses[h]
    BY <1>6, ParsesMove DEF Average, ParseSteps
  <2>2. samples # << >> /\ averageTokens' = Total(samples) \div Len(samples) /\ samples' = samples
    BY <1>6 DEF Average, SamplesIInv, Averaged
  <2>3. averageTokens' \in Nat
    <3>1. Len(samples) > 0 /\ Total(samples) \in Nat /\ Len(samples) \in Nat
      BY <2>2, SamplesNat DEF SamplesIInv, SamplesTypeOK
    <3> QED
      BY <2>2, <3>1
  <2>4. SamplesTypeOK' /\ WindowOfLast'
    BY <1>6, <2>1, <2>3 DEF Average, SamplesIInv, SamplesTypeOK, WindowOfLast
  <2>5. Exclusive' /\ Counting' /\ Averaged'
    BY <1>6, <2>1, <2>2, SamplesAssumption DEF Average, SamplesIInv, Exclusive, Counting, Averaged
  <2> QED
    BY <2>4, <2>5 DEF SamplesIInv
<1>7. ASSUME NEW g \in Goroutines, UnlockSamples(g) PROVE SamplesIInv'
  <2>1. /\ parses' \in [Goroutines -> [pc : ParseSteps, hint : Nat, count : Counts \cup { 0 }]]
        /\ parses'[g].pc = "idle" /\ \A h \in Goroutines : h # g => parses'[h] = parses[h]
    BY <1>7, ParsesMove DEF UnlockSamples, ParseSteps
  <2>2. SamplesTypeOK' /\ WindowOfLast'
    BY <1>7, <2>1 DEF UnlockSamples, Unlock, SamplesIInv, SamplesTypeOK, WindowOfLast
  <2>3. Exclusive' /\ Counting' /\ Averaged'
    BY <1>7, <2>1, SamplesAssumption DEF UnlockSamples, Unlock, SamplesIInv, Exclusive, Counting, Averaged
  <2> QED
    BY <2>2, <2>3 DEF SamplesIInv
<1>8. CASE UNCHANGED sampleVars
  BY <1>8 DEF sampleVars, SamplesIInv, SamplesTypeOK, Exclusive, Counting, WindowOfLast, Averaged
<1> QED
  BY <1>1, <1>2, <1>3, <1>4, <1>5, <1>6, <1>7, <1>8 DEF SamplesNext, ParseStep

LEMMA SamplesInvariant == SamplesSpec => []SamplesIInv
BY SamplesInitIInv, SamplesStepIInv, PTL DEF SamplesSpec

LEMMA AverageBounds ==
  ASSUME NEW total \in Nat, NEW n \in Nat \ {0}, NEW average, average = total \div n
  PROVE  n * average <= total /\ total < n * (average + 1)
OBVIOUS

LEMMA SamplesInvSuffices == SamplesIInv => SamplesTypeOK /\ HintOfLast
<1> SUFFICES ASSUME SamplesIInv, NEW g \in Goroutines, parses[g].pc = "capacity"
             PROVE  IF samples = << >> THEN averageTokens = 1
                    ELSE /\ Len(samples) * averageTokens <= Total(samples)
                         /\ Total(samples) < Len(samples) * (averageTokens + 1)
  BY DEF SamplesIInv, HintOfLast, HintOfWindow
<1>1. \A h \in Goroutines : parses[h].pc # "average"
  BY DEF SamplesIInv, Exclusive
<1>2. averageTokens = IF samples = << >> THEN 1 ELSE Total(samples) \div Len(samples)
  BY <1>1 DEF SamplesIInv, Averaged
<1>3. CASE samples # << >>
  <2>1. PICK total \in Nat, n \in Nat \ {0} : total = Total(samples) /\ n = Len(samples)
    BY <1>3, SamplesNat DEF SamplesIInv, SamplesTypeOK
  <2> QED
    BY <1>2, <1>3, <2>1, AverageBounds
<1> QED
  BY <1>2, <1>3

(* Every constructor is given the average of the last counts as they are,    *)
(* for any window, any counts and any number of goroutines; nobody sees an   *)
(* average that another goroutine is about to replace.                       *)
THEOREM HintsOfLast == SamplesSpec => [](SamplesTypeOK /\ HintOfLast)
BY SamplesInvariant, SamplesInvSuffices, PTL

-----------------------------------------------------------------------------
(***************************************************************************)
(* Argument arrays                                                         *)
(***************************************************************************)

ArgumentValues ==
  { Unset } \cup { Element(k) : k \in 1..Elements }
    \cup { Operand(e, <<i, j>>) : e \in Goroutines, i \in Nat, j \in Nat }
Arrays == Seq(ArgumentValues)
Slices == [array : Nat, len : Nat]
ArgumentLists ==
  [slice : Slices, left : Slices, cut : BOOLEAN, given : Arrays, called : BOOLEAN]

(* The argument lists, and the user's slice as one of them.                  *)
UserId == << >>
Items == Ids \cup { UserId }
Item(id) == IF id = UserId THEN UserList ELSE List(id)

(* A slice of the array that ends behind at most len elements is shared: what *)
(* comes behind them may be written over.                                    *)
Exposed(array, len) == \E n \in 0..len : Shared([array |-> array, len |-> n])

ArgumentsTyped ==
  /\ heap \in Seq(Arrays) /\ UserArray \in DOMAIN heap
  /\ Len(heap[UserArray]) - Elements \in Spares
  /\ lists \in [Goroutines -> Seq(ArgumentLists)]

(* A slice lies in its array, and is longer than the one it was begun with   *)
(* if it is still in the array of that one.                                  *)
Placed ==
  /\ \A i \in Items :
       /\ Item(i).slice.array \in DOMAIN heap /\ Len(Item(i).given) = Item(i).slice.len
       /\ Item(i).slice.len <= Len(heap[Item(i).slice.array])
  /\ \A i \in Ids :
       /\ Item(i).slice.len >= 1 /\ Item(i).left.array \in DOMAIN heap \cup { NoSlice.array }
       /\ Item(i).left.array = Item(i).slice.array => Item(i).left.len < Item(i).slice.len

(* What a list was given is at its place, or was exposed in the array the    *)
(* list is in or in the one in which it was begun.                           *)
Kept ==
  \A i \in Items : \A k \in 1 .. Item(i).slice.len :
    \/ heap[Item(i).slice.array][k] = Item(i).given[k]
    \/ Exposed(Item(i).slice.array, k - 1) \/ Exposed(Item(i).left.array, k - 1)

(* Where a list goes on behind the end of one that was called, there is one  *)
(* that begins with the slice of that one.                                   *)
Continued ==
  \A i, j \in Items :
    Item(i).called /\ Item(j).slice.array = Item(i).slice.array /\ Item(j).slice.len > Item(i).slice.len =>
      \/ Exposed(Item(i).slice.array, Item(i).slice.len)
      \/ \E m \in Ids : Item(m).left = Item(i).slice

(* Nothing lies in the way of a list that is being gathered, in the array in *)
(* which it was begun;                                                       *)
Unhindered ==
  \A i \in Ids : \A j \in Items \ { i } :
    ~Item(i).called /\ Item(i).left.array = Item(i).slice.array /\ Item(j).slice.array = Item(i).slice.array =>
      Item(j).slice.len <= Item(i).left.len \/ Exposed(Item(i).left.array, Item(i).left.len)

(* and another array it has for itself.                                      *)
Alone ==
  \A i \in Ids :
    ~Item(i).called /\ Item(i).left.array # Item(i).slice.array =>
      /\ \A j \in Items \ { i } : Item(j).slice.array # Item(i).slice.array
      /\ \A j \in Ids : Item(j).left.array # Item(i).slice.array

ArgumentsIInv == ArgumentsTyped /\ Placed /\ Kept /\ Continued /\ Unhindered /\ Alone

LEMMA UserListTyped ==
  /\ UserList \in ArgumentLists /\ Elements \in Nat /\ UserList.called
  /\ UserList.slice.array = UserArray /\ UserList.slice.len = Elements
  /\ UserList.left = NoSlice /\ NoSlice \in Slices /\ NoSlice.array = 0
  /\ Len(UserList.given) = Elements /\ \A k \in 1..Elements : UserList.given[k] = Element(k)
<1>1. Elements \in Nat
  BY SizesAssumption
<1> DEFINE elements == [k \in 1 .. Elements |-> Element(k)]
<1>2. /\ elements \in Arrays /\ Len(elements) = Elements
      /\ \A k \in 1..Elements : elements[k] = Element(k)
  BY <1>1 DEF Arrays, ArgumentValues
<1>3. UserSlice \in Slices /\ NoSlice \in Slices /\ UserSlice.array = UserArray /\ UserSlice.len = Elements /\ NoSlice.array = 0
  BY <1>1 DEF Slices, UserSlice, NoSlice, UserArray
<1> HIDE DEF elements
<1>4. UserList = [slice |-> UserSlice, left |-> NoSlice, cut |-> FALSE, given |-> elements, called |-> TRUE]
  BY DEF UserList, elements
<1> QED
  BY <1>1, <1>2, <1>3, <1>4 DEF ArgumentLists

LEMMA IdsAreItems ==
  /\ UserId \notin Ids /\ Items = Ids \cup { UserId } /\ Item(UserId) = UserList
  /\ \A i \in Ids : Item(i) = List(i)
  /\ \A e, k : <<e, k>> \in Ids <=> e \in Goroutines /\ k \in DOMAIN lists[e]
  /\ \A e, k : Item(<<e, k>>) = lists[e][k]
<1>1. \A e, k : <<e, k>> # << >>
  OBVIOUS
<1>2. \A e, k : <<e, k>> \in Ids <=> e \in Goroutines /\ k \in DOMAIN lists[e]
  BY DEF Ids
<1>3. UserId \notin Ids
  BY <1>1 DEF Ids, UserId
<1>4. \A e, k : List(<<e, k>>) = lists[e][k]
  BY DEF List
<1> QED
  BY <1>1, <1>2, <1>3, <1>4 DEF Items, Item, UserId

LEMMA ItemsTyped ==
  ASSUME ArgumentsTyped
  PROVE  \A i \in Items : Item(i) \in ArgumentLists
<1>1. ASSUME NEW i \in Ids PROVE Item(i) \in ArgumentLists
  <2>1. PICK e \in Goroutines : \E k \in DOMAIN lists[e] : i = <<e, k>>
    BY DEF Ids
  <2>2. PICK k \in DOMAIN lists[e] : i = <<e, k>>
    BY <2>1
  <2> QED
    BY <2>2, IdsAreItems DEF ArgumentsTyped
<1> QED
  BY <1>1, IdsAreItems, UserListTyped

(* The numbers of an item.                                                   *)
LEMMA ItemNumbers ==
  ASSUME ArgumentsTyped, NEW i \in Items
  PROVE  /\ Item(i).slice \in Slices /\ Item(i).left \in Slices
         /\ Item(i).slice.array \in Nat /\ Item(i).slice.len \in Nat
         /\ Item(i).left.array \in Nat /\ Item(i).left.len \in Nat
         /\ Item(i).given \in Seq(ArgumentValues) /\ Item(i).called \in BOOLEAN
<1>1. Item(i) \in ArgumentLists
  BY ItemsTyped
<1> QED
  BY <1>1 DEF ArgumentLists, Slices, Arrays

LEMMA SharedItems ==
  \A slice : Shared(slice) <=>
    \E i \in Ids : /\ Item(i).left = slice
                   /\ Item(i).cut \/ \E j \in Ids : j # i /\ Item(j).left = slice
BY IdsAreItems DEF Shared

LEMMA ExposedFurther ==
  ASSUME NEW array, NEW len \in Nat, NEW longer \in Nat, len <= longer, Exposed(array, len)
  PROVE  Exposed(array, longer)
BY DEF Exposed

(* The end of a slice that was cut, or that begins two lists, is exposed.    *)
LEMMA SharingExposes ==
  ASSUME NEW i \in Ids, Item(i).left \in Slices,
         Item(i).cut \/ \E j \in Ids : j # i /\ Item(j).left = Item(i).left
  PROVE  Exposed(Item(i).left.array, Item(i).left.len)
<1>1. PICK slice \in Slices : slice = Item(i).left
  OBVIOUS
<1>2. slice = [array |-> slice.array, len |-> slice.len] /\ slice.len \in 0..slice.len
  BY DEF Slices
<1>3. Shared(slice)
  BY <1>1, SharedItems
<1> QED
  BY <1>1, <1>2, <1>3 DEF Exposed

(* A step sets one list, which begins where it began.                        *)
SetsItem(id, list) ==
  /\ Ids' = Ids \cup { id } /\ Items' = Items \cup { id } /\ id # UserId
  /\ Item(id)' = list
  /\ \A i \in Items \ { id } : Item(i)' = Item(i)
  /\ id \in Ids => list.left = Item(id).left /\ list.cut = Item(id).cut

LEMMA ExposedStays ==
  ASSUME NEW id, NEW list, SetsItem(id, list)
  PROVE  \A array, len : Exposed(array, len) => Exposed(array, len)'
<1>1. ASSUME NEW slice, Shared(slice) PROVE Shared(slice)'
  <2>1. \A i \in Ids : i \in Ids' /\ Item(i)'.left = Item(i).left /\ Item(i)'.cut = Item(i).cut
    BY IdsAreItems DEF SetsItem
  <2>2. \A i \in Ids' : List(i)' = Item(i)'
    BY IdsAreItems DEF SetsItem, Item
  <2>3. PICK i \in Ids : Item(i).left = slice /\ (Item(i).cut \/ \E j \in Ids : j # i /\ Item(j).left = slice)
    BY <1>1, SharedItems
  <2>4. i \in Ids' /\ List(i)'.left = slice /\ (List(i)'.cut \/ \E j \in Ids' : j # i /\ List(j)'.left = slice)
    BY <2>1, <2>2, <2>3
  <2> QED
    BY <2>4 DEF Shared
<1> QED
  BY <1>1 DEF Exposed

(* One place at most is written to; there may be new arrays.                 *)
Writes(h, array, place) ==
  /\ h \in Seq(Arrays) /\ DOMAIN heap \subseteq DOMAIN h
  /\ \A b \in DOMAIN heap :
       /\ Len(h[b]) = Len(heap[b])
       /\ \A k \in 1..Len(heap[b]) : h[b][k] = heap[b][k] \/ (b = array /\ k = place)

(* The slice that a value was appended to, or one that was allocated.        *)
HoldsAll(h, slice, values) ==
  /\ slice \in Slices /\ slice.array \in DOMAIN h /\ slice.len = Len(values)
  /\ slice.len <= Len(h[slice.array])
  /\ \A k \in 1..slice.len : h[slice.array][k] = values[k]

(* What is still there of an item after a step.                              *)
LEMMA ItemStays ==
  ASSUME ArgumentsTyped, NEW id, NEW list, SetsItem(id, list), NEW i \in Items', i # id
  PROVE  /\ i \in Items /\ Item(i)' = Item(i) /\ (i \in Ids' => i \in Ids)
         /\ Item(i).slice \in Slices /\ Item(i).left \in Slices
         /\ Item(i).slice.array \in Nat /\ Item(i).slice.len \in Nat
         /\ Item(i).left.array \in Nat /\ Item(i).left.len \in Nat
<1>1. i \in Items /\ Item(i)' = Item(i) /\ (i \in Ids' => i \in Ids)
  BY DEF SetsItem
<1> QED
  BY <1>1, ItemNumbers

(* A list that lies in its array and has what it was given, or is exposed.   *)
Fits(list) ==
  /\ list \in ArgumentLists /\ list.slice.array \in DOMAIN heap
  /\ list.slice.len >= 1 /\ Len(list.given) = list.slice.len
  /\ list.slice.len <= Len(heap[list.slice.array])
  /\ list.left.array \in DOMAIN heap \cup { NoSlice.array }
  /\ list.left.array = list.slice.array => list.left.len < list.slice.len
  /\ \A k \in 1 .. list.slice.len :
       \/ heap[list.slice.array][k] = list.given[k]
       \/ Exposed(list.slice.array, k - 1) \/ Exposed(list.left.array, k - 1)

(* Wherever a value is written, it is written behind a slice that is shared, *)
(* or over nothing.                                                          *)
LEMMA KeptStep ==
  ASSUME ArgumentsIInv, NEW id, NEW list, SetsItem(id, list), Fits(list)',
         NEW array, NEW place \in Nat, Writes(heap', array, place),
         \A j \in Items \ { id } :
           Item(j).slice.array = array /\ place \in 1 .. Item(j).slice.len => Exposed(array, place - 1)'
  PROVE  Placed' /\ Kept'
<1>1. ArgumentsTyped /\ Placed /\ Kept
  BY DEF ArgumentsIInv
<1>2. /\ DOMAIN heap \subseteq DOMAIN heap' /\ heap \in Seq(Arrays)
      /\ \A b \in DOMAIN heap : Len(heap'[b]) = Len(heap[b])
  BY <1>1 DEF Writes, ArgumentsTyped
<1>3. Item(id)' = list /\ list \in ArgumentLists
  BY DEF SetsItem, Fits
<1>4. ASSUME NEW i \in Items'
      PROVE  /\ Item(i)'.slice.array \in DOMAIN heap' /\ Len(Item(i)'.given) = Item(i)'.slice.len
             /\ Item(i)'.slice.len <= Len(heap'[Item(i)'.slice.array])
  <2>1. CASE i = id
    BY <1>3, <2>1 DEF Fits
  <2>2. CASE i # id
    BY <1>1, <1>2, <2>2, ItemStays DEF Placed
  <2> QED
    BY <2>1, <2>2
<1>5. ASSUME NEW i \in Ids'
      PROVE  /\ Item(i)'.slice.len >= 1 /\ Item(i)'.left.array \in DOMAIN heap' \cup { NoSlice.array }
             /\ Item(i)'.left.array = Item(i)'.slice.array => Item(i)'.left.len < Item(i)'.slice.len
  <2>1. CASE i = id
    BY <1>3, <2>1 DEF Fits
  <2>2. CASE i # id
    <3>1. i \in Items' /\ i \in Ids
      BY <2>2, IdsAreItems DEF SetsItem
    <3> QED
      BY <1>1, <1>2, <2>2, <3>1, ItemStays DEF Placed
  <2> QED
    BY <2>1, <2>2
<1>6. ASSUME NEW i \in Items', NEW k \in 1 .. Item(i)'.slice.len
      PROVE  \/ heap'[Item(i)'.slice.array][k] = Item(i)'.given[k]
             \/ Exposed(Item(i).slice.array, k - 1)' \/ Exposed(Item(i).left.array, k - 1)'
  <2>1. CASE i = id
    BY <1>3, <1>6, <2>1 DEF Fits
  <2>2. CASE i # id
    <3>1. i \in Items /\ Item(i)' = Item(i) /\ Item(i).slice.array \in DOMAIN heap /\ Item(i).slice.len \in Nat
      BY <1>1, <2>2, ItemStays DEF Placed
    <3>2. k \in 1 .. Len(heap[Item(i).slice.array])
      <4>1. Len(heap[Item(i).slice.array]) \in Nat /\ Item(i).slice.len <= Len(heap[Item(i).slice.array])
        BY <1>1, <1>2, <3>1 DEF Placed, Arrays
      <4> QED
        BY <1>6, <3>1, <4>1
    <3>3. CASE heap'[Item(i).slice.array][k] = heap[Item(i).slice.array][k]
      <4>1. \/ heap[Item(i).slice.array][k] = Item(i).given[k]
            \/ Exposed(Item(i).slice.array, k - 1) \/ Exposed(Item(i).left.array, k - 1)
        BY <1>1, <1>6, <3>1 DEF Kept
      <4> QED
        BY <3>1, <3>3, <4>1, ExposedStays
    <3>4. CASE Item(i).slice.array = array /\ k = place
      BY <1>6, <2>2, <3>1, <3>4
    <3> QED
      BY <3>1, <3>2, <3>3, <3>4 DEF Writes
  <2> QED
    BY <2>1, <2>2
<1>7. Placed'
  BY <1>4, <1>5 DEF Placed
<1>8. Kept'
  BY <1>6 DEF Kept
<1> QED
  BY <1>7, <1>8

(* A list that is begun with a slice has it of one that was called.          *)
LeftOf(list) ==
  \/ list.left = NoSlice
  \/ \E w \in Items : Item(w).called /\ Item(w).slice.array = list.left.array

(* A list gets an array of its own: it is begun, or outgrows the one it had. *)
LEMMA FreshStep ==
  ASSUME ArgumentsIInv, NEW id, NEW list, SetsItem(id, list), Fits(list)', ~list.called,
         Writes(heap', UserArray, 0), list.slice.array \notin DOMAIN heap \cup { NoSlice.array },
         IF id \in Ids THEN ~Item(id).called ELSE LeftOf(list)
  PROVE  Placed' /\ Kept' /\ Continued' /\ Unhindered' /\ Alone'
<1>1. ArgumentsTyped /\ Placed /\ Continued /\ Unhindered /\ Alone
  BY DEF ArgumentsIInv
<1>2. Placed' /\ Kept'
  BY KeptStep
<1>3. /\ Item(id)' = list /\ list \in ArgumentLists /\ id \notin { UserId } /\ Ids \subseteq Ids'
      /\ list.left.array \in Nat /\ list.slice.array \in Nat
  <2>1. Item(id)' = list /\ list \in ArgumentLists /\ id \notin { UserId } /\ Ids \subseteq Ids'
    BY DEF SetsItem, Fits
  <2> QED
    BY <2>1 DEF ArgumentLists, Slices
<1>4. ASSUME NEW i \in Items', i # id
      PROVE  /\ i \in Items /\ Item(i)' = Item(i) /\ (i \in Ids' => i \in Ids)
             /\ Item(i).slice.array \in DOMAIN heap /\ Item(i).slice.array # list.slice.array
             /\ Item(i).slice.array \in Nat /\ Item(i).slice.len \in Nat
             /\ Item(i).left.array \in Nat /\ Item(i).left.len \in Nat
             /\ i \in Ids => Item(i).left.array # list.slice.array
  BY <1>1, <1>4, ItemStays DEF Placed
<1>5. list.left.array # list.slice.array
  <2>1. CASE id \in Ids
    BY <1>1, <2>1 DEF SetsItem, Placed
  <2>2. CASE list.left = NoSlice
    BY <2>2
  <2>3. CASE \E w \in Items : Item(w).called /\ Item(w).slice.array = list.left.array
    BY <1>1, <2>3 DEF Placed
  <2> QED
    BY <2>1, <2>2, <2>3 DEF LeftOf
<1>6. ASSUME NEW i \in Items', NEW j \in Items', Item(i)'.called,
             Item(j)'.slice.array = Item(i)'.slice.array, Item(j)'.slice.len > Item(i)'.slice.len
      PROVE  \/ Exposed(Item(i).slice.array, Item(i).slice.len)'
             \/ \E m \in Ids' : Item(m)'.left = Item(i)'.slice
  <2>1. i # id
    BY <1>3, <1>6
  <2>2. j # id
    BY <1>3, <1>4, <1>6, <2>1
  <2>3. \/ Exposed(Item(i).slice.array, Item(i).slice.len)
        \/ \E m \in Ids : Item(m).left = Item(i).slice
    BY <1>1, <1>4, <1>6, <2>1, <2>2 DEF Continued
  <2>4. \A m \in Ids : m \in Ids' /\ Item(m)'.left = Item(m).left
    BY <1>3, IdsAreItems DEF SetsItem
  <2> QED
    BY <1>4, <2>1, <2>3, <2>4, ExposedStays
<1>7. ASSUME NEW i \in Ids', NEW j \in Items' \ { i }, ~Item(i)'.called,
             Item(i)'.left.array = Item(i)'.slice.array, Item(j)'.slice.array = Item(i)'.slice.array
      PROVE  \/ Item(j)'.slice.len <= Item(i)'.left.len
             \/ Exposed(Item(i).left.array, Item(i).left.len)'
  <2>1. i # id /\ i \in Items'
    BY <1>3, <1>5, <1>7, IdsAreItems DEF SetsItem
  <2>2. j # id
    BY <1>3, <1>4, <1>7, <2>1
  <2>3. Item(j).slice.len <= Item(i).left.len \/ Exposed(Item(i).left.array, Item(i).left.len)
    BY <1>1, <1>4, <1>7, <2>1, <2>2 DEF Unhindered
  <2> QED
    BY <1>4, <2>1, <2>2, <2>3, ExposedStays
<1>8. ASSUME NEW i \in Ids', ~Item(i)'.called, Item(i)'.left.array # Item(i)'.slice.array, NEW j \in Items' \ { i }
      PROVE  Item(j)'.slice.array # Item(i)'.slice.array
  <2>1. i \in Items'
    BY IdsAreItems DEF SetsItem
  <2>2. CASE i = id \/ j = id
    BY <1>3, <1>4, <1>8, <2>1, <2>2
  <2>3. CASE i # id /\ j # id
    BY <1>1, <1>4, <1>8, <2>1, <2>3 DEF Alone
  <2> QED
    BY <2>2, <2>3
<1>9. ASSUME NEW i \in Ids', ~Item(i)'.called, Item(i)'.left.array # Item(i)'.slice.array, NEW j \in Ids'
      PROVE  Item(j)'.left.array # Item(i)'.slice.array
  <2>1. i \in Items' /\ j \in Items'
    BY IdsAreItems DEF SetsItem
  <2>2. CASE i = id
    BY <1>3, <1>4, <1>5, <2>1, <2>2
  <2>3. CASE i # id /\ j # id
    BY <1>1, <1>4, <1>9, <2>1, <2>3 DEF Alone
  <2>4. CASE i # id /\ j = id
    <3>1. /\ i \in Ids /\ ~Item(i).called /\ Item(i).left.array # Item(i).slice.array
          /\ Item(i)' = Item(i) /\ Item(i).slice.array \in DOMAIN heap
      BY <1>4, <1>9, <2>1, <2>4
    <3>2. CASE id \in Ids
      BY <1>1, <1>3, <2>4, <3>1, <3>2 DEF Alone, SetsItem
    <3>3. CASE list.left = NoSlice
      <4>1. NoSlice.array \notin DOMAIN heap
        BY <1>1, UserListTyped DEF ArgumentsTyped
      <4> QED
        BY <1>3, <2>4, <3>1, <3>3, <4>1
    <3>4. CASE \E w \in Items : Item(w).called /\ Item(w).slice.array = list.left.array
      BY <1>1, <1>3, <2>4, <3>1, <3>4 DEF Alone
    <3> QED
      BY <3>2, <3>3, <3>4 DEF LeftOf
  <2> QED
    BY <2>2, <2>3, <2>4
<1>10. Continued'
  BY <1>6 DEF Continued
<1>11. Unhindered'
  BY <1>7 DEF Unhindered
<1>12. Alone'
  BY <1>8, <1>9 DEF Alone
<1> QED
  BY <1>2, <1>10, <1>11, <1>12

LEMMA SharingIsExposed ==
  \A i \in Ids :
    Item(i).left \in Slices /\ (Item(i).cut \/ \E j \in Ids : j # i /\ Item(j).left = Item(i).left) =>
      Exposed(Item(i).left.array, Item(i).left.len)
BY SharingExposes

LEMMA SharingIsExposedNext ==
  (\A i \in Ids :
     Item(i).left \in Slices /\ (Item(i).cut \/ \E j \in Ids : j # i /\ Item(j).left = Item(i).left) =>
       Exposed(Item(i).left.array, Item(i).left.len))'
BY SharingIsExposed, PTL

LEMMA SliceIs ==
  ASSUME NEW slice \in Slices, NEW array, NEW len, slice.array = array, slice.len = len
  PROVE  slice = [array |-> array, len |-> len]
BY DEF Slices

(* A list is begun in the array of a slice that has capacity to spare.       *)
LEMMA BeginInto ==
  ASSUME ArgumentsIInv, NEW id, id \notin Items, NEW list, SetsItem(id, list), Fits(list)', ~list.called,
         NEW array \in DOMAIN heap, NEW len \in Nat,
         list.slice = [array |-> array, len |-> len + 1], list.left = [array |-> array, len |-> len],
         Writes(heap', array, len + 1),
         NEW w \in Items, Item(w).called, Item(w).slice.array = array,
         len <= Item(w).slice.len, len < Item(w).slice.len => list.cut
  PROVE  Placed' /\ Kept' /\ Continued' /\ Unhindered' /\ Alone'
<1>1. ArgumentsTyped /\ Placed /\ Continued /\ Unhindered /\ Alone
  BY DEF ArgumentsIInv
<1>2. /\ Item(id)' = list /\ list \in ArgumentLists /\ id \in Ids' /\ id # UserId
      /\ list.slice.array = array /\ list.slice.len = len + 1
      /\ list.left.array = array /\ list.left.len = len /\ list.left \in Slices
  BY DEF SetsItem, Fits, ArgumentLists
<1>3. /\ array \in Nat /\ Item(w).slice \in Slices /\ Item(w).slice.len \in Nat
  BY <1>1, ItemNumbers
<1>4. ASSUME NEW i \in Items', i # id
      PROVE  /\ i \in Items /\ Item(i)' = Item(i) /\ (i \in Ids' => i \in Ids)
             /\ Item(i).slice \in Slices /\ Item(i).left \in Slices
             /\ Item(i).slice.array \in Nat /\ Item(i).slice.len \in Nat
             /\ Item(i).left.array \in Nat /\ Item(i).left.len \in Nat
  BY <1>1, <1>4, ItemStays
<1>5. \A m \in Ids : m \in Ids' /\ m # id /\ Item(m)' = Item(m)
  BY IdsAreItems DEF SetsItem
<1>6. ASSUME list.cut \/ \E j \in Ids : Item(j).left = list.left
      PROVE  Exposed(array, len)'
  <2>1. Item(id)'.left \in Slices /\ (Item(id)'.cut \/ \E j \in Ids' : j # id /\ Item(j)'.left = Item(id)'.left)
    BY <1>2, <1>5, <1>6
  <2>2. Exposed(Item(id).left.array, Item(id).left.len)'
    BY <1>2, <2>1, SharingIsExposedNext
  <2> QED
    BY <1>2, <2>2
<1>7. ASSUME NEW j \in Items, Item(j).slice.array = array, Item(j).slice.len > len
      PROVE  Exposed(array, len)'
  <2>1. CASE list.cut
    BY <1>6, <2>1
  <2>2. CASE ~list.cut
    <3>1. Item(w).slice.len = len /\ Item(w).slice = list.left
      <4>1. Item(w).slice.len = len
        BY <1>3, <2>2
      <4> QED
        BY <1>3, <4>1, SliceIs
    <3>2. Exposed(array, len) \/ \E m \in Ids : Item(m).left = list.left
      BY <1>1, <1>7, <3>1 DEF Continued
    <3> QED
      BY <1>6, <3>2, ExposedStays
  <2> QED
    BY <2>1, <2>2
<1>8. Placed' /\ Kept'
  <2>1. PICK place \in Nat : place = len + 1
    OBVIOUS
  <2>2. ASSUME NEW j \in Items \ { id }, Item(j).slice.array = array, place \in 1 .. Item(j).slice.len
        PROVE  Exposed(array, place - 1)'
    <3>1. Item(j).slice.len > len /\ place - 1 = len
      BY <1>1, <2>1, <2>2, ItemNumbers
    <3> QED
      BY <1>7, <2>2, <3>1
  <2> QED
    BY <2>1, <2>2, KeptStep
<1>9. ASSUME NEW i \in Items', NEW j \in Items', Item(i)'.called,
             Item(j)'.slice.array = Item(i)'.slice.array, Item(j)'.slice.len > Item(i)'.slice.len
      PROVE  \/ Exposed(Item(i).slice.array, Item(i).slice.len)'
             \/ \E m \in Ids' : Item(m)'.left = Item(i)'.slice
  <2>1. i # id
    BY <1>2, <1>9
  <2>2. ASSUME NEW k \in Items, Item(k).slice.array = Item(i).slice.array, Item(k).slice.len > Item(i).slice.len
        PROVE  \/ Exposed(Item(i).slice.array, Item(i).slice.len)'
               \/ \E m \in Ids' : Item(m)'.left = Item(i)'.slice
    <3>1. \/ Exposed(Item(i).slice.array, Item(i).slice.len)
          \/ \E m \in Ids : Item(m).left = Item(i).slice
      BY <1>1, <1>4, <1>9, <2>1, <2>2 DEF Continued
    <3> QED
      BY <1>4, <1>5, <2>1, <3>1, ExposedStays
  <2>3. CASE j # id
    BY <1>4, <1>9, <2>1, <2>2, <2>3
  <2>4. CASE j = id
    <3>1. Item(i).slice.array = array /\ Item(i).slice.len <= len
      BY <1>2, <1>4, <1>9, <2>1, <2>4
    <3>2. CASE Item(i).slice.len = len
      <4>1. Item(i)'.slice = list.left
        BY <1>4, <2>1, <3>1, <3>2, SliceIs
      <4> QED
        BY <1>2, <4>1
    <3>3. CASE Item(i).slice.len < len
      BY <1>3, <1>4, <2>1, <2>2, <3>1, <3>3
    <3> QED
      BY <1>4, <2>1, <3>1, <3>2, <3>3
  <2> QED
    BY <2>3, <2>4
<1>10. ASSUME NEW i \in Ids', NEW j \in Items' \ { i }, ~Item(i)'.called,
              Item(i)'.left.array = Item(i)'.slice.array, Item(j)'.slice.array = Item(i)'.slice.array
       PROVE  \/ Item(j)'.slice.len <= Item(i)'.left.len
              \/ Exposed(Item(i).left.array, Item(i).left.len)'
  <2>1. i \in Items'
    BY IdsAreItems DEF SetsItem
  <2>2. CASE i = id
    <3>1. j \in Items /\ Item(j)' = Item(j) /\ Item(j).slice.array = array /\ Item(j).slice.len \in Nat
      BY <1>2, <1>4, <1>10, <2>2
    <3>2. CASE Item(j).slice.len > len
      <4>1. Exposed(array, len)'
        BY <1>7, <3>1, <3>2
      <4> QED
        BY <1>2, <2>2, <4>1
    <3> QED
      BY <1>2, <2>2, <3>1, <3>2
  <2>3. CASE i # id /\ j # id
    <3>1. Item(j).slice.len <= Item(i).left.len \/ Exposed(Item(i).left.array, Item(i).left.len)
      BY <1>1, <1>4, <1>10, <2>1, <2>3 DEF Unhindered
    <3> QED
      BY <1>4, <2>1, <2>3, <3>1, ExposedStays
  <2>4. CASE i # id /\ j = id
    <3>1. /\ i \in Ids /\ Item(i)' = Item(i) /\ ~Item(i).called /\ Item(i).left \in Slices /\ Item(i).left.len \in Nat
          /\ Item(i).left.array = array /\ Item(i).slice.array = array
      BY <1>2, <1>4, <1>10, <2>1, <2>4
    <3>2. Item(w).slice.len <= Item(i).left.len \/ Exposed(array, Item(i).left.len)
      BY <1>1, <3>1 DEF Unhindered
    <3>3. CASE Exposed(array, Item(i).left.len)
      BY <3>1, <3>3, ExposedStays
    <3>4. CASE len + 1 <= Item(i).left.len
      BY <1>2, <2>4, <3>1, <3>4
    <3>5. CASE Item(w).slice.len <= Item(i).left.len /\ ~(len + 1 <= Item(i).left.len)
      <4>1. Item(i).left.len = len
        BY <1>3, <3>1, <3>5
      <4>2. Item(i).left = list.left
        BY <3>1, <4>1, SliceIs
      <4> QED
        BY <1>6, <3>1, <4>1, <4>2
    <3> QED
      BY <3>2, <3>3, <3>4, <3>5
  <2> QED
    BY <2>2, <2>3, <2>4, <1>10
<1>11. ASSUME NEW i \in Ids', ~Item(i)'.called, Item(i)'.left.array # Item(i)'.slice.array
       PROVE  /\ \A j \in Items' \ { i } : Item(j)'.slice.array # Item(i)'.slice.array
              /\ \A j \in Ids' : Item(j)'.left.array # Item(i)'.slice.array
  <2>1. i # id /\ i \in Items'
    BY <1>2, <1>11, IdsAreItems DEF SetsItem
  <2>2. i \in Ids /\ Item(i)' = Item(i) /\ i # w
    BY <1>4, <1>11, <2>1
  <2>3. /\ \A j \in Items \ { i } : Item(j).slice.array # Item(i).slice.array
        /\ \A j \in Ids : Item(j).left.array # Item(i).slice.array
    BY <1>1, <1>11, <2>2 DEF Alone
  <2>4. array # Item(i).slice.array
    BY <2>2, <2>3
  <2>5. \A j \in Ids' : j \in Items'
    BY IdsAreItems DEF SetsItem
  <2> QED
    BY <1>2, <1>4, <2>2, <2>3, <2>4, <2>5
<1>12. Continued'
  BY <1>9 DEF Continued
<1>13. Unhindered'
  BY <1>10 DEF Unhindered
<1>14. Alone'
  BY <1>11 DEF Alone
<1> QED
  BY <1>8, <1>12, <1>13, <1>14

(* What reaches as far as a list that is being gathered is exposed there.    *)
LEMMA GatheredAlone ==
  ASSUME ArgumentsIInv, NEW id \in Ids, ~Item(id).called, NEW j \in Items \ { id },
         Item(j).slice.array = Item(id).slice.array, Item(j).slice.len >= Item(id).slice.len
  PROVE  Exposed(Item(id).slice.array, Item(id).slice.len)
<1>1. ArgumentsTyped /\ Placed /\ Unhindered /\ Alone /\ id \in Items
  BY IdsAreItems DEF ArgumentsIInv
<1>2. /\ Item(id).slice.len \in Nat /\ Item(id).left.len \in Nat /\ Item(j).slice.len \in Nat
  BY <1>1, ItemNumbers
<1>3. Item(id).left.array = Item(id).slice.array
  BY <1>1 DEF Alone
<1>4. Item(id).left.len < Item(id).slice.len
  BY <1>1, <1>3 DEF Placed
<1>5. Exposed(Item(id).left.array, Item(id).left.len)
  BY <1>1, <1>2, <1>3, <1>4 DEF Unhindered
<1> QED
  BY <1>2, <1>3, <1>4, <1>5, ExposedFurther

(* A list that is being gathered gets longer within its array.               *)
LEMMA ExtendInto ==
  ASSUME ArgumentsIInv, NEW id \in Ids, ~Item(id).called, NEW list, SetsItem(id, list), Fits(list)', ~list.called,
         NEW array, NEW len \in Nat,
         Item(id).slice = [array |-> array, len |-> len], list.slice = [array |-> array, len |-> len + 1],
         Writes(heap', array, len + 1)
  PROVE  Placed' /\ Kept' /\ Continued' /\ Unhindered' /\ Alone'
<1>1. ArgumentsTyped /\ Placed /\ Continued /\ Unhindered /\ Alone
  BY DEF ArgumentsIInv
<1>2. /\ Item(id)' = list /\ list.left = Item(id).left /\ id \in Items
      /\ list.slice.array = array /\ list.slice.len = len + 1
      /\ Item(id).slice.array = array /\ Item(id).slice.len = len
      /\ Ids' = Ids /\ Items' = Items
  BY IdsAreItems DEF SetsItem
<1>3. ASSUME NEW i \in Items, i # id
      PROVE  /\ Item(i)' = Item(i) /\ Item(i).slice.len \in Nat /\ Item(i).left.len \in Nat
  BY <1>1, <1>3, ItemNumbers DEF SetsItem
<1>4. \A m \in Ids : Item(m)'.left = Item(m).left
  BY <1>2, <1>3, IdsAreItems
<1>5. ASSUME NEW j \in Items \ { id }, Item(j).slice.array = array, Item(j).slice.len >= len
      PROVE  Exposed(array, len)
  BY <1>2, <1>5, GatheredAlone
<1>6. Placed' /\ Kept'
  <2>1. PICK place \in Nat : place = len + 1
    OBVIOUS
  <2>2. ASSUME NEW j \in Items \ { id }, Item(j).slice.array = array, place \in 1 .. Item(j).slice.len
        PROVE  Exposed(array, place - 1)'
    <3>1. Item(j).slice.len >= len /\ place - 1 = len
      BY <1>3, <2>1, <2>2
    <3> QED
      BY <1>5, <2>2, <3>1, ExposedStays
  <2> QED
    BY <2>1, <2>2, KeptStep
<1>7. ASSUME NEW i \in Items, NEW j \in Items, Item(i)'.called,
             Item(j)'.slice.array = Item(i)'.slice.array, Item(j)'.slice.len > Item(i)'.slice.len
      PROVE  \/ Exposed(Item(i).slice.array, Item(i).slice.len)'
             \/ \E m \in Ids : Item(m)'.left = Item(i)'.slice
  <2>1. i # id /\ Item(i)' = Item(i) /\ Item(i).slice.len \in Nat
    BY <1>2, <1>3, <1>7
  <2>2. ASSUME Item(j).slice.array = Item(i).slice.array, Item(j).slice.len > Item(i).slice.len
        PROVE  \/ Exposed(Item(i).slice.array, Item(i).slice.len)'
               \/ \E m \in Ids : Item(m)'.left = Item(i)'.slice
    <3>1. \/ Exposed(Item(i).slice.array, Item(i).slice.len)
          \/ \E m \in Ids : Item(m).left = Item(i).slice
      BY <1>1, <1>7, <2>1, <2>2 DEF Continued
    <3> QED
      BY <1>4, <2>1, <3>1, ExposedStays
  <2>3. CASE j # id
    BY <1>3, <1>7, <2>1, <2>2, <2>3
  <2>4. CASE j = id
    <3>1. Item(i).slice.array = array /\ Item(i).slice.len <= len
      BY <1>2, <1>7, <2>1, <2>4
    <3>2. CASE Item(i).slice.len = len
      BY <1>5, <2>1, <3>1, <3>2, ExposedStays
    <3>3. CASE Item(i).slice.len < len
      BY <1>2, <2>2, <2>4, <3>1, <3>3
    <3> QED
      BY <2>1, <3>1, <3>2, <3>3
  <2> QED
    BY <2>3, <2>4
<1>8. ASSUME NEW i \in Ids, NEW j \in Items \ { i }, ~Item(i)'.called,
             Item(i)'.left.array = Item(i)'.slice.array, Item(j)'.slice.array = Item(i)'.slice.array
      PROVE  \/ Item(j)'.slice.len <= Item(i)'.left.len
             \/ Exposed(Item(i).left.array, Item(i).left.len)'
  <2>1. /\ i \in Items /\ ~Item(i).called /\ Item(i)'.left = Item(i).left
        /\ Item(i).left.array = Item(i).slice.array /\ Item(j).slice.array = Item(i).slice.array
        /\ Item(i).left.len \in Nat /\ Item(j).slice.len \in Nat /\ Item(i).slice.len \in Nat
    <3>1. i \in Items /\ Item(i)'.left = Item(i).left
      BY <1>4, IdsAreItems
    <3>2. \A k \in Items : Item(k)'.slice.array = Item(k).slice.array /\ (Item(k)'.called <=> Item(k).called)
      BY <1>2, <1>3
    <3> QED
      BY <1>1, <1>8, <3>1, <3>2, ItemNumbers
  <2>2. Item(j).slice.len <= Item(i).left.len \/ Exposed(Item(i).left.array, Item(i).left.len)
    BY <1>1, <2>1 DEF Unhindered
  <2>3. CASE Exposed(Item(i).left.array, Item(i).left.len)
    BY <2>1, <2>3, ExposedStays
  <2>4. CASE j # id
    BY <1>3, <2>1, <2>2, <2>3, <2>4
  <2>5. CASE j = id /\ ~Exposed(Item(i).left.array, Item(i).left.len)
    <3>1. Item(i).slice.array = array /\ len <= Item(i).left.len /\ Item(i).left.len < Item(i).slice.len
      BY <1>1, <1>2, <2>1, <2>2, <2>5 DEF Placed
    <3>2. Item(i).left.len # len
      BY <1>5, <2>1, <2>5, <3>1
    <3> QED
      BY <1>2, <2>1, <2>5, <3>1, <3>2
  <2> QED
    BY <2>3, <2>4, <2>5
<1>9. ASSUME NEW i \in Ids, ~Item(i)'.called, Item(i)'.left.array # Item(i)'.slice.array
      PROVE  /\ \A j \in Items \ { i } : Item(j)'.slice.array # Item(i)'.slice.array
             /\ \A j \in Ids : Item(j)'.left.array # Item(i)'.slice.array
  <2>1. \A k \in Items : Item(k)'.slice.array = Item(k).slice.array /\ (Item(k)'.called <=> Item(k).called)
    BY <1>2, <1>3
  <2>2. i \in Items
    BY IdsAreItems
  <2> QED
    BY <1>1, <1>4, <1>9, <2>1, <2>2 DEF Alone
<1>10. Continued'
  BY <1>2, <1>7 DEF Continued
<1>11. Unhindered'
  BY <1>2, <1>8 DEF Unhindered
<1>12. Alone'
  BY <1>2, <1>9 DEF Alone
<1> QED
  BY <1>6, <1>10, <1>11, <1>12

(* A list is called.                                                         *)
LEMMA CallStep ==
  ASSUME ArgumentsIInv, NEW id \in Ids, ~Item(id).called, NEW list, SetsItem(id, list), Fits(list)', list.called,
         list.slice = Item(id).slice, heap' = heap
  PROVE  Placed' /\ Kept' /\ Continued' /\ Unhindered' /\ Alone'
<1>1. ArgumentsTyped /\ Placed /\ Continued /\ Unhindered /\ Alone
  BY DEF ArgumentsIInv
<1>2. /\ Item(id)' = list /\ list.left = Item(id).left /\ id \in Items /\ Ids' = Ids /\ Items' = Items
  BY IdsAreItems DEF SetsItem
<1>3. \A i \in Items : i # id => Item(i)' = Item(i)
  BY DEF SetsItem
<1>4. \A i \in Items : /\ Item(i)'.slice = Item(i).slice /\ (i \in Ids => Item(i)'.left = Item(i).left)
                       /\ Item(i).slice.len \in Nat
  BY <1>1, <1>2, <1>3, ItemNumbers
<1>5. Placed' /\ Kept'
  <2>1. Writes(heap', UserArray, 0)
    BY <1>1 DEF Writes, ArgumentsTyped
  <2> QED
    BY <2>1, KeptStep
<1>6. ASSUME NEW i \in Items, NEW j \in Items, Item(i)'.called,
             Item(j)'.slice.array = Item(i)'.slice.array, Item(j)'.slice.len > Item(i)'.slice.len
      PROVE  \/ Exposed(Item(i).slice.array, Item(i).slice.len)'
             \/ \E m \in Ids : Item(m)'.left = Item(i)'.slice
  <2>1. \/ Exposed(Item(i).slice.array, Item(i).slice.len)
        \/ \E m \in Ids : Item(m).left = Item(i).slice
    <3>1. CASE i = id
      <4>1. /\ j \in Items \ { id } /\ Item(j).slice.array = Item(id).slice.array
            /\ Item(j).slice.len >= Item(id).slice.len
        BY <1>4, <1>6, <3>1
      <4> QED
        BY <3>1, <4>1, GatheredAlone
    <3>2. CASE i # id
      BY <1>1, <1>3, <1>4, <1>6, <3>2 DEF Continued
    <3> QED
      BY <3>1, <3>2
  <2> QED
    BY <1>4, <2>1, IdsAreItems, ExposedStays
<1>7. ASSUME NEW i \in Ids, NEW j \in Items \ { i }, ~Item(i)'.called,
             Item(i)'.left.array = Item(i)'.slice.array, Item(j)'.slice.array = Item(i)'.slice.array
      PROVE  \/ Item(j)'.slice.len <= Item(i)'.left.len
             \/ Exposed(Item(i).left.array, Item(i).left.len)'
  <2>1. i \in Items /\ i # id
    BY <1>2, <1>7, IdsAreItems
  <2>2. Item(j).slice.len <= Item(i).left.len \/ Exposed(Item(i).left.array, Item(i).left.len)
    BY <1>1, <1>3, <1>4, <1>7, <2>1 DEF Unhindered
  <2> QED
    BY <1>3, <1>4, <2>1, <2>2, ExposedStays
<1>8. ASSUME NEW i \in Ids, ~Item(i)'.called, Item(i)'.left.array # Item(i)'.slice.array
      PROVE  /\ \A j \in Items \ { i } : Item(j)'.slice.array # Item(i)'.slice.array
             /\ \A j \in Ids : Item(j)'.left.array # Item(i)'.slice.array
  <2>1. i \in Items /\ i # id /\ \A j \in Ids : j \in Items
    BY <1>2, <1>8, IdsAreItems
  <2> QED
    BY <1>1, <1>3, <1>4, <1>8, <2>1 DEF Alone
<1>9. Continued'
  BY <1>2, <1>6 DEF Continued
<1>10. Unhindered'
  BY <1>2, <1>7 DEF Unhindered
<1>11. Alone'
  BY <1>2, <1>8 DEF Alone
<1> QED
  BY <1>5, <1>9, <1>10, <1>11

LEMMA IdsAreItemsNext ==
  (/\ UserId \notin Ids /\ Items = Ids \cup { UserId } /\ Item(UserId) = UserList
   /\ \A i \in Ids : Item(i) = List(i)
   /\ \A e, k : <<e, k>> \in Ids <=> e \in Goroutines /\ k \in DOMAIN lists[e]
   /\ \A e, k : Item(<<e, k>>) = lists[e][k])'
BY IdsAreItems, PTL

LEMMA IdsArePairs ==
  \A i \in Ids : \E e \in Goroutines : \E k \in DOMAIN lists[e] : i = <<e, k>>
BY DEF Ids

LEMMA IdsArePairsNext ==
  (\A i \in Ids : \E e \in Goroutines : \E k \in DOMAIN lists[e] : i = <<e, k>>)'
BY IdsArePairs, PTL

LEMMA AppendPlaces ==
  ASSUME NEW S, NEW s \in Seq(S), NEW v \in S, NEW t, t = Append(s, v), NEW p, p = Len(s) + 1
  PROVE  /\ t \in Seq(S) /\ Len(s) \in Nat /\ Len(t) = p
         /\ DOMAIN t = DOMAIN s \cup { p } /\ p \notin DOMAIN s
         /\ t[p] = v /\ \A k \in DOMAIN s : t[k] = s[k]
<1>1. /\ Append(s, v) \in Seq(S) /\ Len(s) \in Nat /\ Len(Append(s, v)) = Len(s) + 1
      /\ DOMAIN s = 1 .. Len(s) /\ DOMAIN Append(s, v) = 1 .. Len(s) + 1
  OBVIOUS
<1>2. Append(s, v)[Len(s) + 1] = v /\ \A k \in 1 .. Len(s) : Append(s, v)[k] = s[k]
  OBVIOUS
<1> QED
  BY <1>1, <1>2

LEMMA FrontPlaces ==
  ASSUME NEW S, NEW s \in Seq(S), NEW n \in Nat, n <= Len(s), NEW t, t = SubSeq(s, 1, n)
  PROVE  t \in Seq(S) /\ Len(t) = n /\ DOMAIN t = 1 .. n /\ \A k \in 1 .. n : t[k] = s[k]
<1>1. Len(s) \in Nat
  OBVIOUS
<1>2. SubSeq(s, 1, n) \in Seq(S) /\ Len(SubSeq(s, 1, n)) = n
  BY <1>1
<1>3. \A k \in 1 .. n : SubSeq(s, 1, n)[k] = s[k]
  BY <1>1
<1> QED
  BY <1>2, <1>3

LEMMA AppendedFront ==
  ASSUME NEW S, NEW s \in Seq(S), NEW n \in Nat, n <= Len(s), NEW v \in S, NEW t, t = Append(SubSeq(s, 1, n), v)
  PROVE  t \in Seq(S) /\ Len(t) = n + 1 /\ t[n + 1] = v /\ \A k \in 1 .. n : t[k] = s[k]
<1>1. PICK front : front = SubSeq(s, 1, n)
  OBVIOUS
<1>2. front \in Seq(S) /\ Len(front) = n /\ DOMAIN front = 1 .. n /\ \A k \in 1 .. n : front[k] = s[k]
  BY <1>1, FrontPlaces
<1>3. PICK p : p = Len(front) + 1
  OBVIOUS
<1>4. t = Append(front, v)
  BY <1>1
<1>5. t \in Seq(S) /\ Len(t) = p /\ t[p] = v /\ \A k \in DOMAIN front : t[k] = front[k]
  BY <1>2, <1>3, <1>4, AppendPlaces
<1> QED
  BY <1>2, <1>3, <1>5

LEMMA ChangedPlaces ==
  ASSUME NEW S, NEW s \in Seq(S), NEW p \in DOMAIN s, NEW v \in S, NEW t, t = [s EXCEPT ![p] = v]
  PROVE  /\ t \in Seq(S) /\ Len(t) = Len(s) /\ DOMAIN t = DOMAIN s /\ t[p] = v
         /\ \A k \in DOMAIN s : k # p => t[k] = s[k]
OBVIOUS

(* One place of one goroutine's lists is set.                                *)
SetsPlace(e, p, list) ==
  /\ \A h \in Goroutines : h # e => lists'[h] = lists[h]
  /\ DOMAIN lists'[e] = DOMAIN lists[e] \cup { p } /\ lists'[e][p] = list
  /\ \A k \in DOMAIN lists[e] : k # p => lists'[e][k] = lists[e][k]

LEMMA ListsSet ==
  ASSUME NEW e \in Goroutines, NEW p, NEW list, SetsPlace(e, p, list),
         p \in DOMAIN lists[e] => list.left = lists[e][p].left /\ list.cut = lists[e][p].cut
  PROVE  SetsItem(<<e, p>>, list)
<1>1. PICK id : id = <<e, p>>
  OBVIOUS
<1>3. /\ \A h \in Goroutines : h # e => lists'[h] = lists[h]
      /\ DOMAIN lists'[e] = DOMAIN lists[e] \cup { p } /\ lists'[e][p] = list
      /\ \A k \in DOMAIN lists[e] : k # p => lists'[e][k] = lists[e][k]
  BY DEF SetsPlace
<1>4. Ids' = Ids \cup { id }
  <2>1. ASSUME NEW i \in Ids' PROVE i \in Ids \cup { id }
    <3>1. PICK h \in Goroutines : \E k \in DOMAIN lists'[h] : i = <<h, k>>
      BY IdsArePairsNext
    <3>2. PICK k \in DOMAIN lists'[h] : i = <<h, k>>
      BY <3>1
    <3>3. k \in DOMAIN lists[h] \/ (h = e /\ k = p)
      BY <1>3, <3>2
    <3> QED
      BY <1>1, <3>2, <3>3, IdsAreItems
  <2>2. ASSUME NEW i \in Ids PROVE i \in Ids'
    <3>1. PICK h \in Goroutines : \E k \in DOMAIN lists[h] : i = <<h, k>>
      BY IdsArePairs
    <3>2. PICK k \in DOMAIN lists[h] : i = <<h, k>>
      BY <3>1
    <3>3. k \in DOMAIN lists'[h]
      BY <1>3, <3>2
    <3> QED
      BY <3>2, <3>3, IdsAreItemsNext
  <2>3. id \in Ids'
    BY <1>1, <1>3, IdsAreItemsNext
  <2> QED
    BY <2>1, <2>2, <2>3
<1>5. Items' = Items \cup { id } /\ id # UserId
  BY <1>1, <1>4, IdsAreItems, IdsAreItemsNext
<1>6. Item(id)' = list
  BY <1>1, <1>3, IdsAreItemsNext
<1>7. ASSUME NEW i \in Items \ { id } PROVE Item(i)' = Item(i)
  <2>1. CASE i = UserId
    BY <2>1, IdsAreItems, IdsAreItemsNext DEF UserList
  <2>2. CASE i \in Ids
    <3>1. PICK h \in Goroutines : \E k \in DOMAIN lists[h] : i = <<h, k>>
      BY <2>2, IdsArePairs
    <3>2. PICK k \in DOMAIN lists[h] : i = <<h, k>>
      BY <3>1
    <3>3. lists'[h][k] = lists[h][k]
      BY <1>1, <1>3, <1>7, <3>2
    <3> QED
      BY <3>2, <3>3, IdsAreItems, IdsAreItemsNext
  <2> QED
    BY <2>1, <2>2, IdsAreItems
<1>8. id \in Ids => list.left = Item(id).left /\ list.cut = Item(id).cut
  BY <1>1, IdsAreItems
<1> QED
  BY <1>1, <1>4, <1>5, <1>6, <1>7, <1>8 DEF SetsItem

LEMMA ListBegun ==
  ASSUME ArgumentsTyped, NEW e \in Goroutines, NEW list \in ArgumentLists,
         lists' = [lists EXCEPT ![e] = Append(@, list)]
  PROVE  /\ lists' \in [Goroutines -> Seq(ArgumentLists)]
         /\ \E id : id \notin Items /\ SetsItem(id, list)
<1>1. lists \in [Goroutines -> Seq(ArgumentLists)] /\ lists[e] \in Seq(ArgumentLists)
  BY DEF ArgumentsTyped
<1>2. PICK p, longer : p = Len(lists[e]) + 1 /\ longer = Append(lists[e], list)
  OBVIOUS
<1>7. /\ longer \in Seq(ArgumentLists) /\ DOMAIN longer = DOMAIN lists[e] \cup { p } /\ p \notin DOMAIN lists[e]
      /\ longer[p] = list /\ \A k \in DOMAIN lists[e] : longer[k] = lists[e][k]
  BY <1>1, <1>2, AppendPlaces
<1>3. /\ lists' \in [Goroutines -> Seq(ArgumentLists)] /\ lists'[e] = longer
      /\ \A h \in Goroutines : h # e => lists'[h] = lists[h]
  <2>1. lists' = [lists EXCEPT ![e] = longer]
    BY <1>1, <1>2
  <2> QED
    BY <1>1, <1>7, <2>1
<1>4. SetsPlace(e, p, list)
  BY <1>7, <1>3 DEF SetsPlace
<1>5. SetsItem(<<e, p>>, list)
  BY <1>7, <1>4, ListsSet
<1>6. <<e, p>> \notin Items
  <2>1. <<e, p>> \notin Ids
    BY <1>7, IdsAreItems
  <2> QED
    BY <1>5, <2>1, IdsAreItems DEF SetsItem
<1> QED
  BY <1>3, <1>5, <1>6

LEMMA ListChanged ==
  ASSUME ArgumentsTyped, NEW e \in Goroutines, NEW p \in DOMAIN lists[e], NEW list \in ArgumentLists,
         lists' = [lists EXCEPT ![e][p] = list],
         list.left = lists[e][p].left, list.cut = lists[e][p].cut
  PROVE  /\ lists' \in [Goroutines -> Seq(ArgumentLists)] /\ <<e, p>> \in Ids
         /\ SetsItem(<<e, p>>, list) /\ Item(<<e, p>>) = lists[e][p]
<1>1. lists \in [Goroutines -> Seq(ArgumentLists)] /\ lists[e] \in Seq(ArgumentLists)
  BY DEF ArgumentsTyped
<1>2. PICK changed \in Seq(ArgumentLists) :
        /\ changed = [lists[e] EXCEPT ![p] = list] /\ DOMAIN changed = DOMAIN lists[e] /\ changed[p] = list
        /\ \A k \in DOMAIN lists[e] : k # p => changed[k] = lists[e][k]
  BY <1>1, ChangedPlaces
<1>3. /\ lists' \in [Goroutines -> Seq(ArgumentLists)] /\ lists'[e] = changed
      /\ \A h \in Goroutines : h # e => lists'[h] = lists[h]
  <2>1. lists' = [lists EXCEPT ![e] = changed]
    BY <1>1, <1>2
  <2> QED
    BY <1>1, <2>1
<1>4. SetsPlace(e, p, list)
  BY <1>2, <1>3 DEF SetsPlace
<1>5. SetsItem(<<e, p>>, list)
  BY <1>4, ListsSet
<1> QED
  BY <1>3, <1>5, IdsAreItems

LEMMA AllocatedHolds ==
  ASSUME heap \in Seq(Arrays), NEW values \in Arrays
  PROVE  /\ Writes(Allocated(values).heap, UserArray, 0)
         /\ HoldsAll(Allocated(values).heap, Allocated(values).slice, values)
         /\ Allocated(values).slice.array \notin DOMAIN heap \cup { NoSlice.array }
<1>1. Allocated(values).heap = Append(heap, values)
  BY DEF Allocated
<1>2. Allocated(values).slice = [array |-> Len(heap) + 1, len |-> Len(values)]
  BY DEF Allocated
<1>3. /\ Append(heap, values) \in Seq(Arrays) /\ DOMAIN heap \subseteq DOMAIN Append(heap, values)
      /\ \A b \in DOMAIN heap : Append(heap, values)[b] = heap[b]
      /\ Len(heap) + 1 \in DOMAIN Append(heap, values)
      /\ Append(heap, values)[Len(heap) + 1] = values /\ Len(heap) \in Nat
      /\ Len(heap) + 1 \notin DOMAIN heap /\ Len(heap) + 1 # 0
  OBVIOUS
<1>4. Len(values) \in Nat
  BY DEF Arrays
<1>5. Writes(Append(heap, values), UserArray, 0)
  BY <1>3 DEF Writes
<1>6. HoldsAll(Append(heap, values), [array |-> Len(heap) + 1, len |-> Len(values)], values)
  BY <1>3, <1>4 DEF HoldsAll, Slices
<1> QED
  BY <1>1, <1>2, <1>3, <1>5, <1>6, UserListTyped

(* A slice with these values, in the same array or in a new one.             *)
ExtendedBy(result, array, len, values) ==
  /\ HoldsAll(result.heap, result.slice, values)
  /\ \/ /\ Writes(result.heap, array, len + 1)
        /\ result.slice = [array |-> array, len |-> len + 1]
     \/ /\ Writes(result.heap, UserArray, 0)
        /\ result.slice.array \notin DOMAIN heap \cup { NoSlice.array }

LEMMA AppendedHolds ==
  ASSUME heap \in Seq(Arrays), NEW array \in DOMAIN heap, NEW len \in Nat, len <= Len(heap[array]),
         NEW slice, slice = [array |-> array, len |-> len], NEW value \in ArgumentValues, NEW result,
         result = Appended(slice, value), NEW values \in Arrays, Len(values) = len + 1, values[len + 1] = value,
         \A k \in 1..len : values[k] = heap[array][k]
  PROVE  ExtendedBy(result, array, len, values)
<1>1. PICK old \in Arrays : old = heap[array]
  OBVIOUS
<1>2. /\ old \in Seq(ArgumentValues) /\ Len(old) \in Nat /\ len <= Len(old)
      /\ slice.array = array /\ slice.len = len /\ array \in Nat
  BY <1>1 DEF Arrays
<1>3. \A k \in 1..len : values[k] = old[k]
  BY <1>1
<1>4. CASE len < Len(old)
  <2> DEFINE written == [old EXCEPT ![len + 1] = value]
  <2>1. /\ result.heap = [heap EXCEPT ![array] = written]
        /\ result.slice = [slice EXCEPT !.len = len + 1]
    BY <1>1, <1>2, <1>4 DEF Appended
  <2>2. /\ written \in Arrays /\ Len(written) = Len(old)
        /\ \A k \in 1..Len(old) : k # len + 1 => written[k] = old[k]
        /\ written[len + 1] = value
    BY <1>2, <1>4 DEF Arrays
  <2> HIDE DEF written
  <2>3. /\ result.heap \in Seq(Arrays) /\ DOMAIN result.heap = DOMAIN heap
        /\ result.heap[array] = written /\ \A b \in DOMAIN heap : b # array => result.heap[b] = heap[b]
    <3>1. written \in Arrays
      BY <2>2
    <3> HIDE DEF Arrays
    <3> QED
      BY <2>1, <3>1, ChangedPlaces
  <2>4. result.slice = [array |-> array, len |-> len + 1] /\ result.slice \in Slices
    BY <1>2, <2>1 DEF Slices
  <2>5. Writes(result.heap, array, len + 1)
    BY <1>1, <2>2, <2>3 DEF Writes
  <2>6. HoldsAll(result.heap, result.slice, values)
    <3>1. \A k \in 1 .. len + 1 : written[k] = values[k]
      BY <1>2, <1>3, <1>4, <2>2
    <3>2. result.slice.array = array /\ result.slice.len = len + 1
      BY <2>4
    <3>3. result.heap[array] = written /\ len + 1 <= Len(written)
      BY <1>2, <1>4, <2>2, <2>3
    <3> QED
      BY <2>3, <2>4, <3>1, <3>2, <3>3 DEF HoldsAll
  <2> QED
    BY <2>4, <2>5, <2>6 DEF ExtendedBy
<1>5. CASE len = Len(old)
  <2> DEFINE grown == [k \in 1 .. (IF len = 0 THEN 1 ELSE 2 * len) |->
                         IF k <= len THEN old[k] ELSE IF k = len + 1 THEN value ELSE Unset]
  <2>1. /\ result.heap = Append(heap, grown)
        /\ result.slice = [array |-> Len(heap) + 1, len |-> len + 1]
    BY <1>1, <1>2, <1>5 DEF Appended
  <2>2. PICK size \in Nat : size = (IF len = 0 THEN 1 ELSE 2 * len) /\ size >= len + 1
    OBVIOUS
  <2>3. Unset \in ArgumentValues
    BY DEF ArgumentValues
  <2>4. /\ grown \in Arrays /\ Len(grown) = size
        /\ \A k \in 1..len : grown[k] = old[k]
        /\ grown[len + 1] = value
    BY <1>2, <1>5, <2>2, <2>3 DEF Arrays
  <2> HIDE DEF grown
  <2>5. /\ result.heap \in Seq(Arrays) /\ DOMAIN heap \subseteq DOMAIN result.heap /\ Len(heap) \in Nat
        /\ result.heap[Len(heap) + 1] = grown /\ \A b \in DOMAIN heap : result.heap[b] = heap[b]
        /\ Len(heap) + 1 \in DOMAIN result.heap /\ Len(heap) + 1 \notin DOMAIN heap /\ Len(heap) + 1 # 0
    <3>1. PICK longer, p : longer = Append(heap, grown) /\ p = Len(heap) + 1
      OBVIOUS
    <3>3. /\ longer \in Seq(Arrays) /\ DOMAIN longer = DOMAIN heap \cup { p } /\ Len(heap) \in Nat
          /\ longer[p] = grown /\ \A b \in DOMAIN heap : longer[b] = heap[b] /\ p \notin DOMAIN heap
      BY <2>4, <3>1, AppendPlaces
    <3>2. p # 0
      BY <3>1, <3>3
    <3> QED
      BY <2>1, <3>1, <3>2, <3>3
  <2>6. /\ result.slice \in Slices /\ result.slice.array = Len(heap) + 1 /\ result.slice.len = len + 1
    BY <2>1, <2>5 DEF Slices
  <2>7. Writes(result.heap, UserArray, 0)
    BY <2>5 DEF Writes
  <2>8. HoldsAll(result.heap, result.slice, values)
    <3>1. \A k \in 1 .. len + 1 : grown[k] = values[k]
      <4>1. \A k \in 1 .. len + 1 : k \in 1..len \/ k = len + 1
        OBVIOUS
      <4> QED
        BY <1>3, <2>4, <4>1
    <3>2. len + 1 <= Len(grown)
      BY <2>2, <2>4
    <3>3. result.heap[result.slice.array] = grown /\ result.slice.array \in DOMAIN result.heap
      BY <2>5, <2>6
    <3>4. result.slice.len = len + 1 /\ result.slice.len = Len(values)
      BY <2>6
    <3> QED
      BY <2>6, <3>1, <3>2, <3>3, <3>4 DEF HoldsAll
  <2>9. result.slice.array \notin DOMAIN heap \cup { NoSlice.array }
    BY <2>5, <2>6, UserListTyped
  <2> QED
    BY <2>7, <2>8, <2>9 DEF ExtendedBy
<1>6. len < Len(old) \/ len = Len(old)
  BY <1>2
<1> QED
  BY <1>4, <1>5, <1>6

LEMMA TypedNext ==
  ASSUME ArgumentsTyped, NEW array, NEW place, Writes(heap', array, place),
         lists' \in [Goroutines -> Seq(ArgumentLists)]
  PROVE  ArgumentsTyped'
BY DEF ArgumentsTyped, Writes

(* A list that has what it was given fits.                                   *)
LEMMA HoldingFits ==
  ASSUME NEW list \in ArgumentLists, HoldsAll(heap', list.slice, list.given), Len(list.given) >= 1,
         list.left.array \in DOMAIN heap' \cup { NoSlice.array },
         list.left.array = list.slice.array => list.left.len < list.slice.len
  PROVE  Fits(list)'
<1>1. \A k \in 1 .. list.slice.len : heap'[list.slice.array][k] = list.given[k]
  BY DEF HoldsAll
<1> QED
  BY <1>1 DEF Fits, HoldsAll

LEMMA ListIs ==
  ASSUME NEW slice \in Slices, NEW left \in Slices, NEW cut \in BOOLEAN, NEW given \in Arrays,
         NEW list, list = ArgumentList(slice, left, cut, given)
  PROVE  /\ list \in ArgumentLists /\ ~list.called
         /\ list.slice = slice /\ list.left = left /\ list.cut = cut /\ list.given = given
BY DEF ArgumentList, ArgumentLists

(* A list is begun in an array of its own.                                   *)
LEMMA BeginFresh ==
  ASSUME ArgumentsIInv, NEW e \in Goroutines, NEW result, NEW left \in Slices, NEW cut \in BOOLEAN,
         NEW given \in Arrays, Len(given) >= 1, BeginList(e, result, left, cut, given),
         Writes(result.heap, UserArray, 0), HoldsAll(result.heap, result.slice, given),
         result.slice.array \notin DOMAIN heap \cup { NoSlice.array },
         left = NoSlice \/ \E w \in Items : Item(w).called /\ Item(w).slice.array = left.array
  PROVE  ArgumentsIInv'
<1>1. ArgumentsTyped /\ Placed /\ result.slice \in Slices
  BY DEF ArgumentsIInv, HoldsAll
<1>2. PICK list \in ArgumentLists :
        /\ list = ArgumentList(result.slice, left, cut, given) /\ ~list.called
        /\ list.slice = result.slice /\ list.left = left /\ list.cut = cut /\ list.given = given
  <2>1. PICK list : list = ArgumentList(result.slice, left, cut, given)
    OBVIOUS
  <2> QED
    BY <1>1, <2>1, ListIs
<1>3. heap' = result.heap /\ lists' = [lists EXCEPT ![e] = Append(@, list)]
  BY <1>2 DEF BeginList
<1>4. lists' \in [Goroutines -> Seq(ArgumentLists)] /\ \E id : id \notin Items /\ SetsItem(id, list)
  BY <1>1, <1>3, ListBegun
<1>5. PICK id : id \notin Items /\ SetsItem(id, list)
  BY <1>4
<1>6. left.array \in DOMAIN heap \cup { NoSlice.array } /\ DOMAIN heap \subseteq DOMAIN heap'
  BY <1>1, <1>3 DEF Placed, Writes
<1>7. Fits(list)'
  BY <1>2, <1>3, <1>6, HoldingFits
<1>8. LeftOf(list) /\ id \notin Ids
  BY <1>2, <1>5, IdsAreItems DEF LeftOf
<1>9. Placed' /\ Kept' /\ Continued' /\ Unhindered' /\ Alone'
  BY <1>2, <1>3, <1>5, <1>7, <1>8, FreshStep
<1>10. ArgumentsTyped'
  BY <1>1, <1>3, <1>4, TypedNext
<1> QED
  BY <1>9, <1>10 DEF ArgumentsIInv

LEMMA OperandTyped ==
  ASSUME ArgumentsTyped, NEW e \in Goroutines, NEW place \in Nat
  PROVE  NewOperand(e, place) \in ArgumentValues
<1>1. Len(lists[e]) + 1 \in Nat
  BY DEF ArgumentsTyped
<1> QED
  BY <1>1 DEF NewOperand, ArgumentValues

LEMMA CollectIInv ==
  ASSUME ArgumentsIInv, NEW e \in Goroutines, CollectArguments(e) \/ SeparateValue(e)
  PROVE  ArgumentsIInv'
<1>1. heap \in Seq(Arrays) /\ ArgumentsTyped
  BY DEF ArgumentsIInv, ArgumentsTyped
<1>2. PICK first \in ArgumentValues, second \in ArgumentValues : first = NewOperand(e, 1) /\ second = NewOperand(e, 2)
  BY <1>1, OperandTyped
<1>3. ASSUME NEW given \in Arrays, Len(given) >= 1, BeginList(e, Allocated(given), NoSlice, FALSE, given)
      PROVE  ArgumentsIInv'
  <2>1. PICK result : result = Allocated(given)
    OBVIOUS
  <2>2. /\ Writes(result.heap, UserArray, 0) /\ HoldsAll(result.heap, result.slice, given)
        /\ result.slice.array \notin DOMAIN heap \cup { NoSlice.array }
    BY <1>1, <2>1, AllocatedHolds
  <2>3. BeginList(e, result, NoSlice, FALSE, given)
    BY <1>3, <2>1
  <2> QED
    BY <1>3, <2>2, <2>3, BeginFresh, UserListTyped
<1>4. CASE CollectArguments(e)
  <2>1. <<first>> \in Arrays /\ Len(<<first>>) >= 1
    BY DEF Arrays
  <2>2. BeginList(e, Allocated(<<first>>), NoSlice, FALSE, <<first>>)
    BY <1>2, <1>4 DEF CollectArguments
  <2> QED
    BY <1>3, <2>1, <2>2
<1>5. CASE SeparateValue(e)
  <2>1. <<first, second>> \in Arrays /\ Len(<<first, second>>) >= 1
    BY DEF Arrays
  <2>2. BeginList(e, Allocated(<<first, second>>), NoSlice, FALSE, <<first, second>>)
    BY <1>2, <1>5 DEF SeparateValue
  <2> QED
    BY <1>3, <2>1, <2>2
<1> QED
  BY <1>4, <1>5

LEMMA SeparateSliceIInv ==
  ASSUME ArgumentsIInv, NEW e \in Goroutines, SeparateSlice(e)
  PROVE  ArgumentsIInv'
<1>1. /\ heap \in Seq(Arrays) /\ ArgumentsTyped /\ Placed
      /\ \A b \in DOMAIN heap : heap[b] \in Seq(ArgumentValues) /\ Len(heap[b]) \in Nat
  BY DEF ArgumentsIInv, ArgumentsTyped, Arrays
<1>2. PICK whole \in { list.slice : list \in { l \in AllLists : l.called } \cup { UserList } } :
        \E len \in { n \in 0 .. whole.len : whole.len <= n + MaxCut } :
          LET left == [array |-> whole.array, len |-> len]
              value == NewOperand(e, len + 1)
          IN  BeginList(e, Appended(left, value), left, len < whole.len, Append(Contents(left), value))
  BY DEF SeparateSlice
<1>3. PICK w \in Items : Item(w).called /\ Item(w).slice = whole
  BY <1>2, IdsAreItems, UserListTyped DEF AllLists
<1>4. /\ whole \in Slices /\ whole.array \in DOMAIN heap /\ whole.len \in Nat
      /\ whole.len <= Len(heap[whole.array])
  BY <1>1, <1>3, ItemNumbers DEF Placed
<1>5. PICK len \in 0 .. whole.len :
        BeginList(e, Appended([array |-> whole.array, len |-> len], NewOperand(e, len + 1)),
                  [array |-> whole.array, len |-> len], len < whole.len,
                  Append(Contents([array |-> whole.array, len |-> len]), NewOperand(e, len + 1)))
  BY <1>2
<1>6. PICK array \in DOMAIN heap : array = whole.array
  BY <1>4
<1>7. /\ len \in Nat /\ len <= Len(heap[array]) /\ array \in Nat /\ Len(heap[array]) \in Nat
      /\ len <= whole.len
  BY <1>1, <1>4, <1>6
<1>8. PICK value \in ArgumentValues : value = NewOperand(e, len + 1)
  BY <1>1, <1>7, OperandTyped
<1>9. PICK left \in Slices : left = [array |-> array, len |-> len] /\ left.array = array /\ left.len = len
  <2>1. PICK left : left = [array |-> array, len |-> len]
    OBVIOUS
  <2>2. left \in Slices /\ left.array = array /\ left.len = len
    BY <1>7, <2>1 DEF Slices
  <2> QED
    BY <2>1, <2>2
<1>10. PICK given : given = Append(SubSeq(heap[array], 1, len), value)
  OBVIOUS
<1>11. /\ given \in Seq(ArgumentValues) /\ Len(given) = len + 1 /\ given[len + 1] = value
       /\ \A k \in 1 .. len : given[k] = heap[array][k]
  BY <1>1, <1>7, <1>10, AppendedFront
<1>12. PICK result : result = Appended(left, value)
  OBVIOUS
<1>13. PICK cut \in BOOLEAN : cut = (len < whole.len)
  <2>1. CASE len < whole.len
    <3>1. (len < whole.len) = TRUE
      BY <2>1
    <3> QED
      BY <3>1, Zenon
  <2>2. CASE ~(len < whole.len)
    <3>1. (len < whole.len) = FALSE
      BY <2>2
    <3> QED
      BY <3>1, Zenon
  <2> QED
    BY <2>1, <2>2
<1>14. BeginList(e, result, left, cut, given)
  <2>1. given = Append(Contents(left), value)
    BY <1>9, <1>10 DEF Contents
  <2> QED
    BY <1>5, <1>6, <1>8, <1>9, <1>12, <1>13, <2>1
<1>15. given \in Arrays /\ Len(given) >= 1
  BY <1>7, <1>11 DEF Arrays
<1>16. /\ HoldsAll(result.heap, result.slice, given)
       /\ \/ /\ Writes(result.heap, array, len + 1)
             /\ result.slice = [array |-> array, len |-> len + 1]
          \/ /\ Writes(result.heap, UserArray, 0)
             /\ result.slice.array \notin DOMAIN heap \cup { NoSlice.array }
  <2>1. ExtendedBy(result, array, len, given)
    BY <1>1, <1>7, <1>9, <1>11, <1>12, <1>15, AppendedHolds
  <2> QED
    BY <2>1 DEF ExtendedBy
<1>17. CASE Writes(result.heap, UserArray, 0) /\ result.slice.array \notin DOMAIN heap \cup { NoSlice.array }
  <2>1. Item(w).called /\ Item(w).slice.array = left.array
    BY <1>3, <1>6, <1>9
  <2> QED
    BY <1>14, <1>15, <1>16, <1>17, <2>1, BeginFresh
<1>18. CASE Writes(result.heap, array, len + 1) /\ result.slice = [array |-> array, len |-> len + 1]
  <2>1. PICK slice \in Slices :
          slice = result.slice /\ slice = [array |-> array, len |-> len + 1] /\ slice.array = array /\ slice.len = len + 1
    BY <1>7, <1>18 DEF Slices
  <2>2. PICK list \in ArgumentLists :
          /\ list = ArgumentList(slice, left, cut, given) /\ ~list.called
          /\ list.slice = slice /\ list.left = left /\ list.cut = cut /\ list.given = given
    <3>1. PICK list : list = ArgumentList(slice, left, cut, given)
      OBVIOUS
    <3> QED
      BY <1>15, <2>1, <3>1, ListIs
  <2>3. heap' = result.heap /\ lists' = [lists EXCEPT ![e] = Append(@, list)]
    BY <1>14, <2>1, <2>2 DEF BeginList
  <2>4. lists' \in [Goroutines -> Seq(ArgumentLists)] /\ \E id : id \notin Items /\ SetsItem(id, list)
    BY <1>1, <2>3, ListBegun
  <2>5. PICK id : id \notin Items /\ SetsItem(id, list)
    BY <2>4
  <2>6. Fits(list)'
    <3>1. left.array \in DOMAIN heap' /\ left.len < slice.len
      BY <1>7, <1>9, <1>18, <2>1, <2>3 DEF Writes
    <3> QED
      BY <1>15, <1>16, <2>1, <2>2, <2>3, <3>1, HoldingFits
  <2>7. /\ Item(w).called /\ Item(w).slice.array = array /\ len <= Item(w).slice.len
        /\ len < Item(w).slice.len => list.cut
    BY <1>3, <1>6, <1>7, <1>13, <2>2
  <2>8. Placed' /\ Kept' /\ Continued' /\ Unhindered' /\ Alone'
    BY <1>7, <1>9, <1>18, <2>1, <2>2, <2>3, <2>5, <2>6, <2>7, BeginInto
  <2>9. ArgumentsTyped'
    BY <1>1, <1>18, <2>3, <2>4, TypedNext
  <2> QED
    BY <2>8, <2>9 DEF ArgumentsIInv
<1> QED
  BY <1>16, <1>17, <1>18

(* The list being gathered.                                                  *)
LEMMA CurrentInHand ==
  ASSUME ArgumentsTyped, NEW e \in Goroutines, Gathering(e)
  PROVE  CurrentIndex(e) \in DOMAIN lists[e] /\ ~lists[e][CurrentIndex(e)].called
<1> DEFINE uncalled == { k \in DOMAIN lists[e] : ~lists[e][k].called }
<1>1. DOMAIN lists[e] = 1..Len(lists[e]) /\ Len(lists[e]) \in Nat
  BY DEF ArgumentsTyped
<1>2. uncalled \in SUBSET (1..Len(lists[e])) /\ uncalled # { }
  BY <1>1 DEF Gathering
<1>3. PICK k \in uncalled : \A j \in uncalled : j <= k
  <2> HIDE DEF uncalled
  <2> QED
    BY <1>1, <1>2, Greatest
<1>4. \A j \in DOMAIN lists[e] : j > k => lists[e][j].called
  BY <1>1, <1>3
<1> QED
  BY <1>3, <1>4 DEF CurrentIndex

LEMMA SeparateArgumentsIInv ==
  ASSUME ArgumentsIInv, NEW e \in Goroutines, SeparateArguments(e)
  PROVE  ArgumentsIInv'
<1>1. /\ heap \in Seq(Arrays) /\ ArgumentsTyped /\ Placed /\ Kept /\ Alone
      /\ \A b \in DOMAIN heap : heap[b] \in Seq(ArgumentValues) /\ Len(heap[b]) \in Nat
      /\ lists \in [Goroutines -> Seq(ArgumentLists)]
  BY DEF ArgumentsIInv, ArgumentsTyped, Arrays
<1>2. PICK p \in DOMAIN lists[e] : p = CurrentIndex(e) /\ ~lists[e][p].called
  BY <1>1, CurrentInHand DEF SeparateArguments
<1>3. PICK id : id = <<e, p>>
  OBVIOUS
<1>4. PICK old \in ArgumentLists : old = lists[e][p] /\ ~old.called
  BY <1>1, <1>2
<1>5. id \in Ids /\ id \in Items /\ Item(id) = old
  BY <1>3, <1>4, IdsAreItems
<1>6. PICK array \in DOMAIN heap, len \in Nat : array = old.slice.array /\ len = old.slice.len
  BY <1>1, <1>5, ItemNumbers DEF Placed
<1>7. /\ len <= Len(heap[array]) /\ array \in Nat /\ Len(old.given) = len /\ len >= 1
      /\ old.slice = [array |-> array, len |-> len]
      /\ old.left \in Slices /\ old.left.array \in DOMAIN heap \cup { NoSlice.array }
      /\ old.left.array = array => old.left.len < len
      /\ old.given \in Seq(ArgumentValues)
  <2>1. len <= Len(heap[array]) /\ Len(old.given) = len
    BY <1>1, <1>5, <1>6 DEF Placed
  <2>3. /\ len >= 1 /\ old.left.array \in DOMAIN heap \cup { NoSlice.array }
        /\ old.left.array = array => old.left.len < len
    BY <1>1, <1>5, <1>6 DEF Placed
  <2>4. array \in Nat
    BY <1>1
  <2>2. old.slice \in Slices /\ old.left \in Slices /\ old.given \in Seq(ArgumentValues)
    BY <1>1, <1>5, ItemNumbers
  <2> QED
    BY <1>6, <2>1, <2>2, <2>3, <2>4, SliceIs
<1>8. PICK value \in ArgumentValues : value = NextOperand(e)
  <2>1. p \in Nat /\ Len(old.given) + 1 \in Nat
    BY <1>1, <1>2, <1>7
  <2>2. NextOperand(e) = Operand(e, <<p, Len(old.given) + 1>>)
    BY <1>2, <1>4 DEF NextOperand, CurrentList
  <2>3. Operand(e, <<p, Len(old.given) + 1>>) \in ArgumentValues
    BY <2>1 DEF ArgumentValues
  <2> QED
    BY <2>2, <2>3
<1>9. PICK values : values = Append(SubSeq(heap[array], 1, len), value)
  OBVIOUS
<1>10. /\ values \in Seq(ArgumentValues) /\ Len(values) = len + 1 /\ values[len + 1] = value
       /\ \A k \in 1 .. len : values[k] = heap[array][k]
  BY <1>1, <1>7, <1>9, AppendedFront
<1>11. PICK given, place : given = Append(old.given, value) /\ place = Len(old.given) + 1
  OBVIOUS
<1>12. /\ given \in Seq(ArgumentValues) /\ Len(given) = len + 1 /\ given[len + 1] = value
       /\ \A k \in 1 .. len : given[k] = old.given[k]
  <2>1. /\ given \in Seq(ArgumentValues) /\ Len(given) = place /\ given[place] = value
        /\ \A k \in DOMAIN old.given : given[k] = old.given[k]
    BY <1>7, <1>11, AppendPlaces
  <2>2. DOMAIN old.given = 1 .. len
    BY <1>7
  <2> QED
    BY <1>7, <1>11, <2>1, <2>2
<1>13. PICK slice, result : slice = [array |-> array, len |-> len] /\ result = Appended(slice, value)
  OBVIOUS
<1>14. /\ HoldsAll(result.heap, result.slice, values)
       /\ \/ /\ Writes(result.heap, array, len + 1)
             /\ result.slice = [array |-> array, len |-> len + 1]
          \/ /\ Writes(result.heap, UserArray, 0)
             /\ result.slice.array \notin DOMAIN heap \cup { NoSlice.array }
  <2>1. values \in Arrays
    BY <1>10 DEF Arrays
  <2>2. heap \in Seq(Arrays) /\ len <= Len(heap[array])
    BY <1>1, <1>7
  <2>3. ExtendedBy(result, array, len, values)
    BY <1>10, <1>13, <2>1, <2>2, AppendedHolds
  <2> QED
    BY <2>3 DEF ExtendedBy
<1>15. PICK longer \in Slices : longer = result.slice
  BY <1>14 DEF HoldsAll
<1>16. PICK list \in ArgumentLists :
         /\ list = [old EXCEPT !.slice = longer, !.given = given] /\ ~list.called
         /\ list.slice = longer /\ list.left = old.left /\ list.cut = old.cut /\ list.given = given
  <2>1. PICK list : list = [old EXCEPT !.slice = longer, !.given = given]
    OBVIOUS
  <2>2. given \in Arrays
    BY <1>12 DEF Arrays
  <2>3. list \in ArgumentLists /\ list.called = old.called
        /\ list.slice = longer /\ list.left = old.left /\ list.cut = old.cut /\ list.given = given
    BY <2>1, <2>2 DEF ArgumentLists
  <2> QED
    BY <1>4, <2>1, <2>3
<1>17. heap' = result.heap /\ lists' = [lists EXCEPT ![e][p] = list]
  <2>1. CurrentList(e) = old /\ NextOperand(e) = value /\ CurrentIndex(e) = p
    BY <1>2, <1>4, <1>8 DEF CurrentList
  <2>2. /\ heap' = Appended(old.slice, value).heap
        /\ lists' = [lists EXCEPT ![e][p] =
                       [old EXCEPT !.slice = Appended(old.slice, value).slice, !.given = Append(@, value)]]
    BY <2>1 DEF SeparateArguments
  <2>3. result = Appended(old.slice, value)
    BY <1>7, <1>13
  <2> QED
    BY <1>11, <1>15, <1>16, <2>2, <2>3
<1>18. lists' \in [Goroutines -> Seq(ArgumentLists)] /\ SetsItem(id, list)
  BY <1>1, <1>3, <1>4, <1>16, <1>17, ListChanged
<1>19. /\ longer.array \in DOMAIN heap' /\ longer.len = len + 1 /\ longer.len <= Len(heap'[longer.array])
       /\ \A k \in 1 .. len + 1 : heap'[longer.array][k] = values[k]
  BY <1>10, <1>14, <1>15, <1>17 DEF HoldsAll
<1>20. DOMAIN heap \subseteq DOMAIN heap'
  BY <1>14, <1>17 DEF Writes
<1>21. ASSUME NEW k \in 1 .. len + 1
       PROVE  heap'[longer.array][k] = given[k] \/ Exposed(array, k - 1) \/ Exposed(old.left.array, k - 1)
  <2>1. CASE k = len + 1
    BY <1>10, <1>12, <1>19, <2>1
  <2>2. CASE k \in 1 .. len
    <3>1. heap[array][k] = old.given[k] \/ Exposed(array, k - 1) \/ Exposed(old.left.array, k - 1)
      BY <1>1, <1>5, <1>6, <2>2 DEF Kept
    <3> QED
      BY <1>10, <1>12, <1>19, <2>2, <3>1
  <2> QED
    BY <2>1, <2>2
<1>22. CASE Writes(result.heap, array, len + 1) /\ result.slice = [array |-> array, len |-> len + 1]
  <2>1. longer.array = array /\ longer.len = len + 1 /\ longer = [array |-> array, len |-> len + 1]
    BY <1>15, <1>22
  <2>2. \A k \in 1 .. len + 1 :
          \/ heap'[longer.array][k] = given[k]
          \/ Exposed(longer.array, k - 1)' \/ Exposed(old.left.array, k - 1)'
    BY <1>18, <1>21, <2>1, ExposedStays
  <2>3. old.left.array = longer.array => old.left.len < longer.len
    <3>1. old.left.len \in Nat
      BY <1>7 DEF Slices
    <3> QED
      BY <1>7, <2>1, <3>1
  <2>4. Fits(list)'
    BY <1>7, <1>12, <1>16, <1>19, <1>20, <2>2, <2>3 DEF Fits
  <2>5. Placed' /\ Kept' /\ Continued' /\ Unhindered' /\ Alone'
    <3>1. /\ ~Item(id).called /\ Item(id).slice = [array |-> array, len |-> len]
          /\ list.slice = [array |-> array, len |-> len + 1] /\ ~list.called
      BY <1>4, <1>5, <1>7, <1>16, <2>1
    <3>2. Writes(heap', array, len + 1)
      BY <1>17, <1>22
    <3> QED
      BY <1>5, <1>18, <2>4, <3>1, <3>2, ExtendInto
  <2>6. ArgumentsTyped'
    BY <1>1, <1>17, <1>18, <1>22, TypedNext
  <2> QED
    BY <2>5, <2>6 DEF ArgumentsIInv
<1>23. CASE Writes(result.heap, UserArray, 0) /\ result.slice.array \notin DOMAIN heap \cup { NoSlice.array }
  <2>1. \A n : Exposed(array, n) => Exposed(old.left.array, n)
    <3>1. CASE old.left.array = array
      BY <3>1
    <3>2. CASE old.left.array # array
      <4>1. \A j \in Ids : Item(j).left.array # array
        BY <1>1, <1>4, <1>5, <1>6, <3>2 DEF Alone
      <4>2. \A n : ~Exposed(array, n)
        <5>1. ASSUME NEW other, Shared(other) PROVE other.array # array
          BY <4>1, <5>1, SharedItems
        <5>2. ASSUME NEW m, Shared([array |-> array, len |-> m]) PROVE FALSE
          <6>1. PICK other : other = [array |-> array, len |-> m]
            OBVIOUS
          <6> QED
            BY <5>1, <5>2, <6>1
        <5> QED
          BY <5>2 DEF Exposed
      <4> QED
        BY <4>2
    <3> QED
      BY <3>1, <3>2
  <2>2. \A k \in 1 .. len + 1 :
          \/ heap'[longer.array][k] = given[k]
          \/ Exposed(longer.array, k - 1)' \/ Exposed(old.left.array, k - 1)'
    BY <1>18, <1>21, <2>1, ExposedStays
  <2>3. old.left.array # longer.array
    BY <1>7, <1>15, <1>23
  <2>4. Fits(list)'
    BY <1>7, <1>12, <1>16, <1>19, <1>20, <2>2, <2>3 DEF Fits
  <2>5. Placed' /\ Kept' /\ Continued' /\ Unhindered' /\ Alone'
    <3>1. /\ ~Item(id).called /\ ~list.called
          /\ list.slice.array \notin DOMAIN heap \cup { NoSlice.array }
      BY <1>4, <1>5, <1>15, <1>16, <1>23
    <3>2. Writes(heap', UserArray, 0)
      BY <1>17, <1>23
    <3> QED
      BY <1>5, <1>18, <2>4, <3>1, <3>2, FreshStep
  <2>6. ArgumentsTyped'
    BY <1>1, <1>17, <1>18, <1>23, TypedNext
  <2> QED
    BY <2>5, <2>6 DEF ArgumentsIInv
<1> QED
  BY <1>14, <1>22, <1>23

LEMMA CallFunctionIInv ==
  ASSUME ArgumentsIInv, NEW e \in Goroutines, CallFunction(e)
  PROVE  ArgumentsIInv'
<1>1. /\ heap \in Seq(Arrays) /\ ArgumentsTyped /\ Placed /\ Kept /\ lists \in [Goroutines -> Seq(ArgumentLists)]
  BY DEF ArgumentsIInv, ArgumentsTyped
<1>2. PICK p \in DOMAIN lists[e] : p = CurrentIndex(e) /\ ~lists[e][p].called
  BY <1>1, CurrentInHand DEF CallFunction
<1>3. PICK id : id = <<e, p>>
  OBVIOUS
<1>4. PICK old \in ArgumentLists : old = lists[e][p] /\ ~old.called
  BY <1>1, <1>2
<1>5. id \in Ids /\ id \in Items /\ Item(id) = old
  BY <1>3, <1>4, IdsAreItems
<1>6. PICK list \in ArgumentLists :
        /\ list = [old EXCEPT !.called = TRUE] /\ list.called
        /\ list.slice = old.slice /\ list.left = old.left /\ list.cut = old.cut /\ list.given = old.given
  <2>1. PICK list : list = [old EXCEPT !.called = TRUE]
    OBVIOUS
  <2>2. /\ list \in ArgumentLists /\ list.called
        /\ list.slice = old.slice /\ list.left = old.left /\ list.cut = old.cut /\ list.given = old.given
    BY <2>1 DEF ArgumentLists
  <2> QED
    BY <2>1, <2>2
<1>7. heap' = heap /\ lists' = [lists EXCEPT ![e][p] = list]
  BY <1>1, <1>2, <1>4, <1>6 DEF CallFunction
<1>8. lists' \in [Goroutines -> Seq(ArgumentLists)] /\ SetsItem(id, list)
  BY <1>1, <1>3, <1>4, <1>6, <1>7, ListChanged
<1>9. Fits(list)'
  <2>1. \A k \in 1 .. list.slice.len :
          \/ heap[list.slice.array][k] = list.given[k]
          \/ Exposed(list.slice.array, k - 1) \/ Exposed(list.left.array, k - 1)
    BY <1>1, <1>5, <1>6 DEF Kept
  <2>2. \A k \in 1 .. list.slice.len :
          \/ heap'[list.slice.array][k] = list.given[k]
          \/ Exposed(list.slice.array, k - 1)' \/ Exposed(list.left.array, k - 1)'
    BY <1>7, <1>8, <2>1, ExposedStays
  <2>3. /\ list.slice.array \in DOMAIN heap /\ list.slice.len >= 1 /\ Len(list.given) = list.slice.len
        /\ list.slice.len <= Len(heap[list.slice.array])
        /\ list.left.array \in DOMAIN heap \cup { NoSlice.array }
        /\ list.left.array = list.slice.array => list.left.len < list.slice.len
    BY <1>1, <1>5, <1>6 DEF Placed
  <2> QED
    BY <1>7, <2>2, <2>3 DEF Fits
<1>10. Placed' /\ Kept' /\ Continued' /\ Unhindered' /\ Alone'
  BY <1>4, <1>5, <1>6, <1>7, <1>8, <1>9, CallStep
<1>11. ArgumentsTyped'
  BY <1>1, <1>7, <1>8 DEF ArgumentsTyped
<1> QED
  BY <1>10, <1>11 DEF ArgumentsIInv

LEMMA ArgumentsInitIInv == ArgumentsInit => ArgumentsIInv
<1> SUFFICES ASSUME ArgumentsInit PROVE ArgumentsIInv
  OBVIOUS
<1>1. PICK spare \in Spares :
        heap = << [k \in 1 .. Elements + spare |-> IF k <= Elements THEN Element(k) ELSE Unset] >>
  BY DEF ArgumentsInit
<1>2. PICK array : array = [k \in 1 .. Elements + spare |-> IF k <= Elements THEN Element(k) ELSE Unset]
  OBVIOUS
<1>3. Elements \in Nat /\ spare \in Nat
  BY SizesAssumption
<1>4. /\ array \in Arrays /\ Len(array) = Elements + spare /\ Len(array) - Elements = spare
      /\ \A k \in 1 .. Elements : array[k] = Element(k)
  BY <1>2, <1>3 DEF Arrays, ArgumentValues
<1>5. heap \in Seq(Arrays) /\ UserArray \in DOMAIN heap /\ heap[UserArray] = array
  BY <1>1, <1>2, <1>4 DEF UserArray
<1>6. ArgumentsTyped
  <2>1. lists \in [Goroutines -> Seq(ArgumentLists)]
    BY DEF ArgumentsInit
  <2> QED
    BY <1>4, <1>5, <2>1 DEF ArgumentsTyped
<1>7. Ids = { }
  <2>1. DOMAIN << >> = { }
    OBVIOUS
  <2>2. \A e \in Goroutines : lists[e] = << >>
    BY DEF ArgumentsInit
  <2> QED
    BY <2>1, <2>2 DEF Ids
<1>8. Items = { UserId } /\ Item(UserId) = UserList
  BY <1>7, IdsAreItems
<1>9. Placed
  <2>1. Elements <= Len(array)
    BY <1>3, <1>4
  <2> QED
    BY <1>5, <1>7, <1>8, <2>1, UserListTyped DEF Placed
<1>10. Kept
  BY <1>4, <1>5, <1>8, UserListTyped DEF Kept
<1>11. Continued
  BY <1>3, <1>8, UserListTyped DEF Continued
<1>12. Unhindered /\ Alone
  BY <1>7 DEF Unhindered, Alone
<1> QED
  BY <1>6, <1>9, <1>10, <1>11, <1>12 DEF ArgumentsIInv

LEMMA ArgumentsStepIInv == ArgumentsIInv /\ [ArgumentsNext]_argumentVars => ArgumentsIInv'
<1> SUFFICES ASSUME ArgumentsIInv, [ArgumentsNext]_argumentVars PROVE ArgumentsIInv'
  OBVIOUS
<1>1. ASSUME NEW e \in Goroutines, CollectArguments(e) \/ SeparateValue(e) PROVE ArgumentsIInv'
  BY <1>1, CollectIInv
<1>2. ASSUME NEW e \in Goroutines, SeparateSlice(e) PROVE ArgumentsIInv'
  BY <1>2, SeparateSliceIInv
<1>3. ASSUME NEW e \in Goroutines, SeparateArguments(e) PROVE ArgumentsIInv'
  BY <1>3, SeparateArgumentsIInv
<1>4. ASSUME NEW e \in Goroutines, CallFunction(e) PROVE ArgumentsIInv'
  BY <1>4, CallFunctionIInv
<1>5. CASE UNCHANGED argumentVars
  <2>1. heap' = heap /\ lists' = lists
    BY <1>5 DEF argumentVars
  <2>2. Ids' = Ids /\ Items' = Items
    BY <2>1 DEF Ids, Items
  <2>3. \A i : Item(i)' = Item(i) /\ List(i)' = List(i)
    BY <2>1 DEF Item, List, UserList
  <2>4. \A a, n : Exposed(a, n)' <=> Exposed(a, n)
    BY <2>2, <2>3 DEF Exposed, Shared
  <2>5. ArgumentsTyped' /\ Placed'
    BY <2>1, <2>2, <2>3 DEF ArgumentsIInv, ArgumentsTyped, Placed
  <2>6. Kept'
    BY <2>1, <2>2, <2>3, <2>4 DEF ArgumentsIInv, Kept
  <2>7. Continued'
    BY <2>2, <2>3, <2>4 DEF ArgumentsIInv, Continued
  <2>8. Unhindered' /\ Alone'
    BY <2>2, <2>3, <2>4 DEF ArgumentsIInv, Unhindered, Alone
  <2> QED
    BY <2>5, <2>6, <2>7, <2>8 DEF ArgumentsIInv
<1> QED
  BY <1>1, <1>2, <1>3, <1>4, <1>5 DEF ArgumentsNext

LEMMA ArgumentsInvariant == ArgumentsSpec => []ArgumentsIInv
BY ArgumentsInitIInv, ArgumentsStepIInv, PTL DEF ArgumentsSpec

LEMMA ArgumentsInvSuffices == ArgumentsIInv => ArgumentsTypeOK /\ ChangedOnlyIfShared
<1> SUFFICES ASSUME ArgumentsIInv PROVE ArgumentsTypeOK /\ ChangedOnlyIfShared
  OBVIOUS
<1>1. /\ ArgumentsTyped /\ Placed /\ Kept /\ Len(heap[UserArray]) - Elements \in Spares
      /\ \A b \in DOMAIN heap : heap[b] \in Seq(ArgumentValues) /\ Len(heap[b]) \in Nat
  BY DEF ArgumentsIInv, ArgumentsTyped, Arrays
<1>2. ArgumentsTypeOK
  <2>1. ASSUME NEW i \in Ids
        PROVE  List(i).slice.array \in DOMAIN heap /\ List(i).slice.len \in 1 .. Len(heap[List(i).slice.array])
    <3>1. i \in Items /\ List(i) = Item(i)
      BY IdsAreItems
    <3>2. Item(i).slice.len \in Nat /\ Item(i).slice.array \in DOMAIN heap /\ Item(i).slice.len >= 1
          /\ Item(i).slice.len <= Len(heap[Item(i).slice.array])
      BY <1>1, <3>1, ItemNumbers DEF Placed
    <3> QED
      BY <1>1, <3>1, <3>2
  <2> QED
    BY <1>1, <2>1 DEF ArgumentsTypeOK, AllLists
<1>3. ASSUME NEW list \in AllLists \cup { UserList }, Contents(list.slice) # list.given
      PROVE  \E array \in { list.slice.array, list.left.array } :
               \E len \in 0 .. list.slice.len - 1 : Shared([array |-> array, len |-> len])
  <2>1. PICK i \in Items : Item(i) = list
    BY IdsAreItems DEF AllLists
  <2>2. PICK array \in DOMAIN heap, len \in Nat : array = list.slice.array /\ len = list.slice.len
    BY <1>1, <2>1, ItemNumbers DEF Placed
  <2>3. len <= Len(heap[array]) /\ list.given \in Seq(ArgumentValues) /\ Len(list.given) = len
    BY <1>1, <2>1, <2>2, ItemNumbers DEF Placed
  <2>4. PICK holding : holding = SubSeq(heap[array], 1, len)
    OBVIOUS
  <2>5. holding \in Seq(ArgumentValues) /\ Len(holding) = len /\ \A k \in 1 .. len : holding[k] = heap[array][k]
    BY <1>1, <2>3, <2>4, FrontPlaces
  <2>6. holding # list.given
    BY <1>3, <2>2, <2>4 DEF Contents
  <2>7. PICK k \in 1 .. len : holding[k] # list.given[k]
    BY <2>3, <2>5, <2>6, SeqEqual
  <2>8. Exposed(list.slice.array, k - 1) \/ Exposed(list.left.array, k - 1)
    BY <1>1, <2>1, <2>2, <2>5, <2>7 DEF Kept
  <2>9. \A n \in 0 .. k - 1 : n \in 0 .. list.slice.len - 1
    BY <2>2
  <2> QED
    BY <2>8, <2>9 DEF Exposed
<1>4. ChangedOnlyIfShared
  BY <1>3 DEF ChangedOnlyIfShared
<1> QED
  BY <1>2, <1>4

(* Whatever slices, capacities, nestings and goroutines there are, arguments *)
(* and the elements of the user's slice are written over only behind a slice *)
(* that was put in front of other arguments twice, or was cut from them.     *)
THEOREM ArgumentsChangeOnlyIfShared == ArgumentsSpec => [](ArgumentsTypeOK /\ ChangedOnlyIfShared)
BY ArgumentsInvariant, ArgumentsInvSuffices, PTL

-----------------------------------------------------------------------------
(***************************************************************************)
(* The parts together                                                      *)
(***************************************************************************)

ProcessIInv == RegexIInv /\ StageIInv /\ AccessorIInv /\ SamplesIInv /\ PoolsIInv /\ ArgumentsIInv

LEMMA ProcessInitIInv == ProcessInit => ProcessIInv
BY RegexInitIInv, StageInitIInv, AccessorInitIInv, SamplesInitIInv, PoolsInitIInv, ArgumentsInitIInv
   DEF ProcessInit, ProcessIInv

(* A step of one part is a stutter of every other.                           *)
LEMMA ProcessSteps ==
  [ProcessNext]_processVars =>
    /\ [RegexNext]_regexVars /\ [StageNext]_stageVars /\ [AccessorNext]_accessorVars
    /\ [SamplesNext]_sampleVars /\ [PoolsNext]_poolVars /\ [ArgumentsNext]_argumentVars
<1>1. CASE UNCHANGED processVars
  BY <1>1 DEF processVars
<1>2. CASE ProcessNext
  BY <1>2 DEF ProcessNext, Only
<1> QED
  BY <1>1, <1>2

LEMMA ProcessStepIInv == ProcessIInv /\ [ProcessNext]_processVars => ProcessIInv'
BY ProcessSteps, RegexStepIInv, StageStepIInv, AccessorStepIInv, SamplesStepIInv, PoolsStepIInv,
   ArgumentsStepIInv
   DEF ProcessIInv

LEMMA ProcessInvariant == ProcessSpec => []ProcessIInv
BY ProcessInitIInv, ProcessStepIInv, PTL DEF ProcessSpec

LEMMA ProcessInvSuffices ==
  ProcessIInv =>
    /\ RegexTypeOK /\ StageTypeOK /\ AccessorTypeOK /\ SamplesTypeOK /\ PoolsTypeOK /\ ArgumentsTypeOK
    /\ AnswersCompiled /\ ResetDropsOld /\ StagesSafe /\ AccessesAsDeclared /\ HintOfLast
    /\ UsedOnce /\ OwnContents /\ ChangedOnlyIfShared
BY AccessorInvSuffices, SamplesInvSuffices, PoolsInvSuffices, ArgumentsInvSuffices
   DEF ProcessIInv, RegexIInv, StageIInv

(* What each part promises holds of the process as a whole, while the same   *)
(* goroutines take steps of all parts in any order, for any numbers of       *)
(* goroutines, keys, types, counts, objects and slices.                      *)
THEOREM AllPartsSafe ==
  ProcessSpec => [](/\ AnswersCompiled /\ ResetDropsOld /\ StagesSafe /\ AccessesAsDeclared /\ HintOfLast
                    /\ UsedOnce /\ OwnContents /\ ChangedOnlyIfShared)
BY ProcessInvariant, ProcessInvSuffices, PTL

(* The stage cache keeps the promise of StageSource while the other parts    *)
(* take steps between its own.                                               *)
THEOREM SharedPromiseKept == ProcessSpec => KeepsPromise
<1>1. ProcessInit => StageInit
  BY DEF ProcessInit
<1>2. ProcessSpec => [][StageNext]_stageVars /\ StageInit
  BY <1>1, ProcessSteps, PTL DEF ProcessSpec
<1>3. ProcessIInv => StageIInv
  BY DEF ProcessIInv
<1> QED
  BY <1>2, <1>3, ProcessInvariant, PromisedInit, PromisedStep, PTL DEF KeepsPromise, Source!SourceSpec

(* What is checked is a behaviour of the process.                            *)
THEOREM SumIsProcess == Spec => ProcessSpec
<1>1. Init => ProcessInit
  BY DEF Init
<1>2. [Next]_vars => [ProcessNext]_processVars
  <2>1. CASE UNCHANGED vars
    BY <2>1 DEF vars
  <2>2. CASE Next
    BY <2>2 DEF Next, About, ProcessNext
  <2> QED
    BY <2>1, <2>2
<1> QED
  BY <1>1, <1>2, PTL DEF Spec, ProcessSpec

(* In what is checked, the parts and what the behaviour is about stay within *)
(* their types.                                                              *)
THEOREM SharedTypeCorrect == Spec => []SharedTypeOK
<1>1. Init => part \in Parts
  BY DEF Init
<1>2. part \in Parts /\ [Next]_vars => (part \in Parts)'
  BY DEF Next, About, vars
<1>3. part \in Parts /\ ProcessIInv => SharedTypeOK
  BY ProcessInvSuffices DEF SharedTypeOK
<1> QED
  BY <1>1, <1>2, <1>3, SumIsProcess, ProcessInvariant, PTL DEF Spec

=============================================================================
