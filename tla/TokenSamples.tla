---------------------------- MODULE TokenSamples ----------------------------
(***************************************************************************)
(* The token counts that parseTokens keeps of the last expressions, as a   *)
(* hint for the capacity of the next token slice.  Constructors in any     *)
(* number of goroutines read the average in one critical section of        *)
(* samplesMu and add their own count in another, unless they fail first.   *)
(***************************************************************************)
EXTENDS Process, Integers, Sequences

CONSTANTS
  Counts,       \* bound: the numbers of tokens an expression may have
  Window,       \* the capacity of samples
  MaxParses     \* bound: the expressions that are parsed

NoOne == "no one"

ASSUME SamplesAssumption ==
  /\ Counts \subseteq Nat /\ Window \in Nat \ {0} /\ MaxParses \in Nat
  /\ NoOne \notin Goroutines

VARIABLES
  averageTokens,   \* the hint
  samples,         \* the last counts, the oldest first
  samplesMu,       \* the goroutine that holds the mutex, or NoOne
  parses,          \* where each goroutine is in parseTokens, and its count
  counted          \* history: all counts in the order they were added

sampleVars == <<averageTokens, samples, samplesMu, parses, counted>>

ParseSteps == { "idle", "capacity", "parse", "sample", "append", "average", "unlock" }
At(pc, hint, count) == [pc |-> pc, hint |-> hint, count |-> count]

SamplesInit ==
  /\ averageTokens = 1
  /\ samples = << >>
  /\ samplesMu = NoOne
  /\ parses = [g \in Goroutines |-> At("idle", 0, 0)]
  /\ counted = << >>

Lock(g) == samplesMu = NoOne /\ samplesMu' = g
Unlock(g) == samplesMu = g /\ samplesMu' = NoOne
Goes(g, pc) == parses' = [parses EXCEPT ![g].pc = pc]

----------------------------------------------------------------------------
(* A constructor is called.                                                  *)
Parse(g) ==
  /\ parses[g].pc = "idle" /\ Len(counted) < MaxParses
  /\ Lock(g)
  /\ Goes(g, "capacity")
  /\ UNCHANGED <<averageTokens, samples, counted>>

(* make with the average as capacity, and the end of the critical section.   *)
MakeTokens(g) ==
  /\ parses[g].pc = "capacity"
  /\ parses' = [parses EXCEPT ![g] = At("parse", averageTokens, 0)]
  /\ Unlock(g)
  /\ UNCHANGED <<averageTokens, samples, counted>>

(* A token that cannot be read: parseTokens returns before it counts.        *)
ReadFails(g) ==
  /\ parses[g].pc = "parse"
  /\ Goes(g, "idle")
  /\ UNCHANGED <<averageTokens, samples, samplesMu, counted>>

(* All tokens are read.                                                      *)
TokensRead(g) ==
  /\ parses[g].pc = "parse"
  /\ \E n \in Counts : parses' = [parses EXCEPT ![g].pc = "sample", ![g].count = n]
  /\ UNCHANGED <<averageTokens, samples, samplesMu, counted>>

LockSamples(g) ==
  /\ parses[g].pc = "sample"
  /\ Lock(g)
  /\ Goes(g, "append")
  /\ UNCHANGED <<averageTokens, samples, counted>>

(* Mutant: the full window keeps its oldest count. *)
UnshiftedAppend(g) ==
  /\ parses[g].pc = "append"
  /\ samples' = IF Len(samples) = Window THEN [samples EXCEPT ![Window] = parses[g].count]
                ELSE Append(samples, parses[g].count)
  /\ counted' = Append(counted, parses[g].count)
  /\ Goes(g, "average")
  /\ UNCHANGED <<averageTokens, samplesMu>>

(* Mutant: the window has no end. *)
GrowingAppend(g) ==
  /\ parses[g].pc = "append"
  /\ samples' = Append(samples, parses[g].count)
  /\ counted' = Append(counted, parses[g].count)
  /\ Goes(g, "average")
  /\ UNCHANGED <<averageTokens, samplesMu>>

(* The count takes the place after the newest; a full window loses its       *)
(* oldest.                                                                   *)
AppendSample(g) ==
  /\ parses[g].pc = "append"
  /\ samples' = Append(IF Len(samples) = Window THEN Tail(samples) ELSE samples, parses[g].count)
  /\ counted' = Append(counted, parses[g].count)
  /\ Goes(g, "average")
  /\ UNCHANGED <<averageTokens, samplesMu>>

(* The loop over the samples.                                                *)
Total(s) ==
  LET total[k \in 0..Len(s)] == IF k = 0 THEN 0 ELSE total[k - 1] + s[k]
  IN  total[Len(s)]

(* Mutant: the total is divided by the capacity of the window. *)
CapacityAverage(g) ==
  /\ parses[g].pc = "average"
  /\ averageTokens' = Total(samples) \div Window
  /\ Goes(g, "unlock")
  /\ UNCHANGED <<samples, samplesMu, counted>>

Average(g) ==
  /\ parses[g].pc = "average"
  /\ averageTokens' = Total(samples) \div Len(samples)
  /\ Goes(g, "unlock")
  /\ UNCHANGED <<samples, samplesMu, counted>>

(* Mutant: the mutex is not given back. *)
LockedUnlockSamples(g) ==
  /\ parses[g].pc = "unlock"
  /\ Goes(g, "idle")
  /\ UNCHANGED <<averageTokens, samples, samplesMu, counted>>

(* The end of the critical section; checkBalance and the return follow.      *)
UnlockSamples(g) ==
  /\ parses[g].pc = "unlock"
  /\ Unlock(g)
  /\ Goes(g, "idle")
  /\ UNCHANGED <<averageTokens, samples, counted>>

ParseStep(g) ==
  \/ MakeTokens(g) \/ ReadFails(g) \/ TokensRead(g)
  \/ LockSamples(g) \/ AppendSample(g) \/ Average(g) \/ UnlockSamples(g)

SamplesNext == \E g \in Goroutines : Parse(g) \/ ParseStep(g)

(* Goroutines that can go on are run, and sync.Mutex hands itself over to a  *)
(* goroutine that has waited long: a lock asked for again and again is got.  *)
SamplesFairness == \A g \in Goroutines : WF_sampleVars(ParseStep(g)) /\ SF_sampleVars(LockSamples(g))

SamplesSpec == SamplesInit /\ [][SamplesNext]_sampleVars /\ SamplesFairness

----------------------------------------------------------------------------
(* The samples are a window of counts, the mutex has one holder.             *)
SamplesTypeOK ==
  /\ averageTokens \in Nat
  /\ samples \in Seq(Counts) /\ Len(samples) <= Window
  /\ samplesMu \in Goroutines \cup { NoOne }
  /\ parses \in [Goroutines -> [pc : ParseSteps, hint : Nat, count : Counts \cup { 0 }]]
  /\ counted \in Seq(Counts)

(* The samples are the counts of the last expressions in the order in which  *)
(* they were added, whichever goroutines added them and failed in between.   *)
WindowOfLast ==
  LET n == Len(counted)
  IN samples = SubSeq(counted, (IF n > Window THEN n - Window ELSE 0) + 1, n)

(* Whoever reads the average gets that of the samples there are then, and    *)
(* not one that another goroutine is about to replace (averageTokens is read *)
(* and written in different critical sections of samplesMu).                 *)
HintOfWindow ==
  \A g \in Goroutines :
    parses[g].pc = "capacity" =>
      IF samples = << >> THEN averageTokens = 1
      ELSE /\ Len(samples) * averageTokens <= Total(samples)
           /\ Total(samples) < Len(samples) * (averageTokens + 1)

(* The hint is the average of the last counts, whoever added them.           *)
HintOfLast == WindowOfLast /\ HintOfWindow

=============================================================================
