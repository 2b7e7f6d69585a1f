---------------------------- MODULE StageSource ----------------------------
(***************************************************************************)
(* What the planner may rely on when it asks for the stage of a parameter  *)
(* or a constant, with and without the build tag cache: it gets a stage    *)
(* made for that very name or value, which may be one that another         *)
(* expression also uses, and never one that the collector has taken.       *)
(***************************************************************************)
CONSTANTS
  Goroutines,   \* the constructors that may run at the same time
  Keys,         \* the names of parameters and the values of constants
  StageIds      \* the stages there can be at one time

Nothing == "nothing"

VARIABLES
  madeFor,   \* the key each stage in memory was made for, or Nothing
  inUse,     \* the stages that constructors or expressions refer to
  asked      \* the key each constructor waits for, or Nothing

svars == <<madeFor, inUse, asked>>

SourceInit ==
  /\ madeFor = [s \in StageIds |-> Nothing]
  /\ inUse = {}
  /\ asked = [g \in Goroutines |-> Nothing]

Ask(g, k) ==
  /\ asked[g] = Nothing
  /\ asked' = [asked EXCEPT ![g] = k]
  /\ UNCHANGED <<madeFor, inUse>>

(* A new stage takes memory that nothing in use occupies.                    *)
Make(k, s) ==
  /\ \E g \in Goroutines : asked[g] = k
  /\ s \notin inUse
  /\ madeFor' = [madeFor EXCEPT ![s] = k]
  /\ inUse' = inUse \cup { s }
  /\ UNCHANGED asked

(* The constructor gets a stage that is in use already: by itself, if it was *)
(* made for it, or by others.                                                *)
Answer(g, s) ==
  /\ asked[g] # Nothing
  /\ s \in inUse
  /\ madeFor[s] = asked[g]
  /\ asked' = [asked EXCEPT ![g] = Nothing]
  /\ UNCHANGED <<madeFor, inUse>>

(* A constructor that panics gets no answer, and may ask again.              *)
Fail(g) ==
  /\ asked[g] # Nothing
  /\ asked' = [asked EXCEPT ![g] = Nothing]
  /\ UNCHANGED <<madeFor, inUse>>

(* The last reference to a stage goes, and with it the stage.                *)
Release(s) ==
  /\ inUse' = inUse \ { s }
  /\ UNCHANGED <<madeFor, asked>>

SourceNext ==
  \/ \E g \in Goroutines : Fail(g) \/ \E k \in Keys : Ask(g, k)
  \/ \E s \in StageIds :
       Release(s) \/ (\E k \in Keys : Make(k, s)) \/ (\E g \in Goroutines : Answer(g, s))

SourceSpec == SourceInit /\ [][SourceNext]_svars

=============================================================================
