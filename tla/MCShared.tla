------------------------------ MODULE MCShared ------------------------------
(***************************************************************************)
(* What the expressions of one process share: the regex cache, the stage   *)
(* cache, the cache of accessor lookups, the token counts, the pools and   *)
(* the arrays behind arguments.  The process is their composition, the     *)
(* steps of all of them in any order by the same goroutines.  No two parts *)
(* have a variable in common, and none is used while another one is        *)
(* locked, so what one of them does depends on no other: what is checked   *)
(* is their sum, in which a behaviour is about one part.                   *)
(***************************************************************************)
EXTENDS RegexCache, StageCache, Accessors, TokenSamples, Pools, ArgumentArrays

(* Stages that are few, but enough that two constructors always find a free  *)
(* one: the collector must reuse memory.                                     *)
ASSUME EnoughStages ==
  Cardinality(StageIds) >= MaxHeld + Cardinality(Goroutines) + Cardinality(Hashable) - 1

(* Two types whose method sets are numbered differently for values and for   *)
(* pointers, and accessors of one to three names on values and pointers.     *)
Declared(kind, in, out, gives) == [kind |-> kind, in |-> in, out |-> out, gives |-> gives]
Absent == Declared("none", 0, "nothing", NotAStruct)

MCTypes == { "T", "U" }

(* T: a pointer method sorted before the value method, a field of type U.    *)
(* U: methods whose results the loop cannot use, a field in a nil embedded   *)
(* struct, and a pointer method that fails.                                  *)
MCDeclares ==
  [T |-> << Declared("ptrMethod", 0, "value", ValueOf("U", TRUE)),
            Declared("method", 1, "valueAndNil", ValueOf("T", FALSE)),
            Declared("field", 0, "value", ValueOf("U", FALSE)),
            Absent >>,
   U |-> << Declared("method", 0, "value", NotAStruct),
            Declared("ptrMethod", 0, "valueAndError", NotAStruct),
            Declared("field", 0, "panic", NotAStruct),
            Declared("method", 1, "more", NotAStruct) >>]

Request(param, pair, args) == [param |-> param, pair |-> pair, args |-> args]

MCRequests ==
  { Request(ValueOf("T", FALSE), <<1>>, << >>), Request(ValueOf("T", TRUE), <<1, 2>>, << >>),
    Request(ValueOf("T", FALSE), <<2>>, <<"converts">>), Request(ValueOf("T", TRUE), <<2>>, <<"clashes">>),
    Request(ValueOf("T", TRUE), <<3, 1, 1>>, << >>),
    Request(ValueOf("U", TRUE), <<3>>, << >>), Request(ValueOf("U", FALSE), <<4>>, <<"same">>) }

----------------------------------------------------------------------------
(* The process. *)

processVars == <<regexVars, stageVars, accessorVars, sampleVars, poolVars, argumentVars>>

ProcessInit == RegexInit /\ StageInit /\ AccessorInit /\ SamplesInit /\ PoolsInit /\ ArgumentsInit

Only(own) ==
  /\ own # "regexes" => UNCHANGED regexVars
  /\ own # "stages" => UNCHANGED stageVars
  /\ own # "accessors" => UNCHANGED accessorVars
  /\ own # "samples" => UNCHANGED sampleVars
  /\ own # "pools" => UNCHANGED poolVars
  /\ own # "arguments" => UNCHANGED argumentVars

ProcessNext ==
  \/ Only("regexes") /\ RegexNext
  \/ Only("stages") /\ StageNext
  \/ Only("accessors") /\ AccessorNext
  \/ Only("samples") /\ SamplesNext
  \/ Only("pools") /\ PoolsNext
  \/ Only("arguments") /\ ArgumentsNext

ProcessSpec == ProcessInit /\ [][ProcessNext]_processVars

----------------------------------------------------------------------------
(* The sum. *)

VARIABLE part   \* what the behaviour is about

Parts == { "regexes", "stages", "accessors", "samples", "pools", "arguments" }

vars == <<part, processVars>>

(* A part that the behaviour is not about has one initial state and stays.   *)
Init ==
  /\ part \in Parts
  /\ ProcessInit
  /\ part # "stages" => cacheTag
  /\ part # "arguments" => Len(heap[UserArray]) = Elements

About(own) == part = own /\ UNCHANGED part /\ Only(own)

Next ==
  \/ About("regexes") /\ RegexNext
  \/ About("stages") /\ StageNext
  \/ About("accessors") /\ AccessorNext
  \/ About("samples") /\ SamplesNext
  \/ About("pools") /\ PoolsNext
  \/ About("arguments") /\ ArgumentsNext

Fairness == RegexFairness /\ StageFairness /\ AccessorFairness /\ SamplesFairness

Spec == Init /\ [][Next]_vars /\ Fairness

----------------------------------------------------------------------------
(* Type invariant.                                                           *)
SharedTypeOK ==
  /\ part \in Parts
  /\ RegexTypeOK /\ StageTypeOK /\ AccessorTypeOK /\ SamplesTypeOK /\ PoolsTypeOK /\ ArgumentsTypeOK

(* Whether a goroutine is in a call of one of the parts.                     *)
InCall(g) ==
  \/ ~Ready(g)
  \/ stageCalls[g].key # Nothing
  \/ Self(g).pc \in { "member", "resolve", "use" }
  \/ parses[g].pc # "idle"

(* Every call comes to its end, whatever the other goroutines do meanwhile:  *)
(* compiles and resets, however often entries are stored and deleted; the    *)
(* constructor's demand for a stage; the path of an accessor; and a parse,   *)
(* since nobody keeps the mutex of the samples and nobody waits for it for   *)
(* ever.                                                                     *)
CallsReturn == \A g \in Goroutines : InCall(g) ~> ~InCall(g)

=============================================================================
