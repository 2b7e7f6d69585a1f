----------------------------- MODULE StageCache -----------------------------
(***************************************************************************)
(* getParameterStage and getConstantStage, called by constructors in any   *)
(* number of goroutines: with the build tag cache they share the stages    *)
(* through maps of weak pointers (cache.go), whose stages the garbage      *)
(* collector takes as soon as no expression refers to them; without it     *)
(* they make a stage each time (noCache.go).                               *)
(***************************************************************************)
EXTENDS Process, Naturals, FiniteSets

CONSTANTS
  Hashable,      \* keys of the maps: names, and constants that can be hashed
  Uncacheable,   \* constants whose type is a slice, a map or a function
  Unhashable,    \* other constants Go cannot hash: structs and arrays that hold such
  StageIds,      \* bound: the stages there can be at one time
  MaxHeld        \* bound: the stages expressions refer to at one time

Keys == Hashable \cup Uncacheable \cup Unhashable

Nothing == "nothing"

ASSUME StageCacheAssumption ==
  /\ Nothing \notin Keys /\ Nothing \notin StageIds
  /\ Hashable \cap (Uncacheable \cup Unhashable) = {} /\ Uncacheable \cap Unhashable = {}
  /\ MaxHeld \in Nat

VARIABLES
  cacheTag,    \* whether the program was built with the tag cache
  madeFor,     \* the key each stage in memory was made for, or Nothing
  collected,   \* the stages whose memory the collector has taken
  stageMap,    \* paramMap and constMap: the weak pointer stored under a key
  held,        \* the stages that expressions refer to
  stageCalls   \* what each constructor is doing

stageVars == <<cacheTag, madeFor, collected, stageMap, held, stageCalls>>

StageSteps == { "idle", "panicked", "load", "value", "delete", "make", "store", "return" }
NoStageCall == [pc |-> "idle", key |-> Nothing, entry |-> Nothing, stage |-> Nothing]
StageCalls == [pc : StageSteps, key : Keys \cup { Nothing }, entry : StageIds \cup { Nothing },
               stage : StageIds \cup { Nothing }]

StageInit ==
  /\ cacheTag \in BOOLEAN
  /\ madeFor = [s \in StageIds |-> Nothing]
  /\ collected = {}
  /\ stageMap = [k \in Hashable |-> Nothing]
  /\ held = {}
  /\ stageCalls = [g \in Goroutines |-> NoStageCall]

(* The stages a constructor has a strong pointer to: what it has just made,  *)
(* or what Value has returned to it.                                         *)
InHand == { stageCalls[g].stage : g \in Goroutines } \ { Nothing }

(* The stages some weak pointer still names.                                 *)
Named == { stageMap[k] : k \in Hashable } \cup { stageCalls[g].entry : g \in Goroutines }

(* Memory for a new stage: a collected stage stays what its weak pointers    *)
(* name, so its place is not free before they are gone.  Which of the free   *)
(* places a stage gets makes no difference to anybody.                       *)
Free(s) == s \notin held \cup InHand \cup Named
FreePlace == CHOOSE s \in StageIds : Free(s)

(* Without the tag there is no map to look into.                             *)
canCacheConstant(k) == cacheTag /\ k \notin Uncacheable

----------------------------------------------------------------------------
(* The planner comes to a parameter or a constant.                           *)
AskStage(g, k) ==
  /\ stageCalls[g].pc \in { "idle", "panicked" } /\ Cardinality(held) < MaxHeld
  /\ stageCalls' = [stageCalls EXCEPT ![g] =
       [NoStageCall EXCEPT !.pc = IF canCacheConstant(k) THEN "load" ELSE "make", !.key = k]]
  /\ UNCHANGED <<cacheTag, madeFor, collected, stageMap, held>>

(* getParamFromMap and getConstantFromMap: the load of the entry.            *)
LoadStage(g) ==
  /\ stageCalls[g].pc = "load" /\ stageCalls[g].key \in Hashable
  /\ LET entry == stageMap[stageCalls[g].key]
     IN stageCalls' = [stageCalls EXCEPT ![g].pc = IF entry = Nothing THEN "make" ELSE "value", ![g].entry = entry]
  /\ UNCHANGED <<cacheTag, madeFor, collected, stageMap, held>>

(* The load hashes its key first: for a constant that cannot be hashed it    *)
(* panics, and nothing recovers on the way out of the constructor.           *)
HashPanics(g) ==
  /\ stageCalls[g].pc = "load" /\ stageCalls[g].key \in Unhashable
  /\ stageCalls' = [stageCalls EXCEPT ![g] = [NoStageCall EXCEPT !.pc = "panicked"]]
  /\ UNCHANGED <<cacheTag, madeFor, collected, stageMap, held>>

(* Mutant: the weak pointer is taken for the stage. *)
UncheckedValue(g) ==
  /\ stageCalls[g].pc = "value"
  /\ stageCalls' = [stageCalls EXCEPT ![g].pc = "return", ![g].stage = stageCalls[g].entry, ![g].entry = Nothing]
  /\ UNCHANGED <<cacheTag, madeFor, collected, stageMap, held>>

(* Mutant: what Value returns is not compared with nil. *)
NilValue(g) ==
  /\ stageCalls[g].pc = "value"
  /\ LET entry == stageCalls[g].entry
     IN stageCalls' = [stageCalls EXCEPT ![g].pc = "return",
                               ![g].stage = IF entry \in collected THEN Nothing ELSE entry,
                               ![g].entry = Nothing]
  /\ UNCHANGED <<cacheTag, madeFor, collected, stageMap, held>>

(* Value: a strong pointer to the stage, or nil if it was collected.         *)
StageValue(g) ==
  /\ stageCalls[g].pc = "value"
  /\ LET entry == stageCalls[g].entry
     IN stageCalls' = [stageCalls EXCEPT ![g].pc = IF entry \in collected THEN "delete" ELSE "return",
                               ![g].stage = IF entry \in collected THEN Nothing ELSE entry,
                               ![g].entry = Nothing]
  /\ UNCHANGED <<cacheTag, madeFor, collected, stageMap, held>>

(* Mutant: the lookup is tried again and the entry stays. *)
RetryForDelete(g) ==
  /\ stageCalls[g].pc = "delete"
  /\ stageCalls' = [stageCalls EXCEPT ![g].pc = "load"]
  /\ UNCHANGED <<cacheTag, madeFor, collected, stageMap, held>>

(* The entry of a collected stage is deleted, by its key: another            *)
(* constructor may have stored a new stage there since.                      *)
DeleteStage(g) ==
  /\ stageCalls[g].pc = "delete"
  /\ stageMap' = [stageMap EXCEPT ![stageCalls[g].key] = Nothing]
  /\ stageCalls' = [stageCalls EXCEPT ![g].pc = "make"]
  /\ UNCHANGED <<cacheTag, madeFor, collected, held>>

(* The new stage; a constant that is not cacheable is returned at once.      *)
MakeStage(g) ==
  /\ stageCalls[g].pc = "make"
  /\ \E s \in StageIds : Free(s)
  /\ madeFor' = [madeFor EXCEPT ![FreePlace] = stageCalls[g].key]
  /\ collected' = collected \ { FreePlace }
  /\ stageCalls' = [stageCalls EXCEPT ![g].stage = FreePlace,
                            ![g].pc = IF canCacheConstant(stageCalls[g].key) THEN "store" ELSE "return"]
  /\ UNCHANGED <<cacheTag, stageMap, held>>

(* Mutant: the map is keyed by the text, which names and constants share. *)
OneKeyStore(g) ==
  /\ stageCalls[g].pc = "store"
  /\ stageMap' = [k \in Hashable |-> stageCalls[g].stage]
  /\ stageCalls' = [stageCalls EXCEPT ![g].pc = "return"]
  /\ UNCHANGED <<cacheTag, madeFor, collected, held>>

(* weak.Make and Store: the last constructor to store is the one shared.     *)
StoreStage(g) ==
  /\ stageCalls[g].pc = "store"
  /\ stageMap' = [stageMap EXCEPT ![stageCalls[g].key] = stageCalls[g].stage]
  /\ stageCalls' = [stageCalls EXCEPT ![g].pc = "return"]
  /\ UNCHANGED <<cacheTag, madeFor, collected, held>>

(* The stage becomes part of the expression.                                 *)
ReturnStage(g) ==
  /\ stageCalls[g].pc = "return"
  /\ held' = held \cup { stageCalls[g].stage }
  /\ stageCalls' = [stageCalls EXCEPT ![g] = NoStageCall]
  /\ UNCHANGED <<cacheTag, madeFor, collected, stageMap>>

(* The last expression that refers to a stage is forgotten.                  *)
Drop(s) ==
  /\ s \in held
  /\ held' = held \ { s }
  /\ UNCHANGED <<cacheTag, madeFor, collected, stageMap, stageCalls>>

(* The collector takes a stage that only weak pointers name.                 *)
CollectStage(s) ==
  /\ s \in Named /\ s \notin held \cup InHand \cup collected
  /\ collected' = collected \cup { s }
  /\ UNCHANGED <<cacheTag, madeFor, stageMap, held, stageCalls>>

StageStep(g) ==
  LoadStage(g) \/ HashPanics(g) \/ StageValue(g) \/ DeleteStage(g) \/ MakeStage(g) \/ StoreStage(g) \/ ReturnStage(g)

StageNext ==
  \/ \E g \in Goroutines : StageStep(g) \/ \E k \in Keys : AskStage(g, k)
  \/ \E s \in StageIds : Drop(s) \/ CollectStage(s)

(* Every goroutine that can go on is run; the collector promises nothing.    *)
StageFairness == \A g \in Goroutines : WF_stageVars(StageStep(g))

StageSpec == StageInit /\ [][StageNext]_stageVars /\ StageFairness

----------------------------------------------------------------------------
(* Stages, maps and calls have their types.                                  *)
StageTypeOK ==
  /\ cacheTag \in BOOLEAN
  /\ madeFor \in [StageIds -> Keys \cup { Nothing }]
  /\ collected \subseteq StageIds /\ held \subseteq StageIds
  /\ stageMap \in [Hashable -> StageIds \cup { Nothing }]
  /\ stageCalls \in [Goroutines -> StageCalls]

(* No expression and no constructor has a stage that was collected, however  *)
(* the collection, the look at the weak pointer and the other constructors'  *)
(* deletes and stores fall (getParamFromMap, getConstantFromMap).            *)
UsedStagesAlive == (held \cup InHand) \cap collected = {}

(* A weak pointer in a map, or loaded from it, names a stage of that key,    *)
(* also after a delete that came too late has thrown a new entry away.       *)
EntriesOfTheirKey ==
  /\ \A k \in Hashable : stageMap[k] # Nothing => madeFor[stageMap[k]] = k
  /\ \A g \in Goroutines : stageCalls[g].entry # Nothing => madeFor[stageCalls[g].entry] = stageCalls[g].key

(* The garbage collector takes no stage from under an expression, and no     *)
(* expression gets the stage of another name or constant.                    *)
StagesSafe == UsedStagesAlive /\ EntriesOfTheirKey

(* With and without the tag the callers see what StageSource promises: the   *)
(* stages in use are those of expressions and of constructors.               *)
Source == INSTANCE StageSource WITH
  inUse <- held \cup InHand,
  asked <- [g \in Goroutines |-> stageCalls[g].key]

KeepsPromise == Source!SourceSpec

=============================================================================
