----------------------------- MODULE Accessors -----------------------------
(***************************************************************************)
(* Evaluations that go through accessors such as foo.Bar.Baz(1) at the     *)
(* same time (makeAccessorStage), and the cache they share of what         *)
(* reflection found (resolveAccessor).  The cache is keyed by the type of  *)
(* the struct and the name; whether a method of the pointer type is found  *)
(* also depends on whether the value at hand is a pointer.                 *)
(***************************************************************************)
EXTENDS Process, Naturals, Sequences, FiniteSets

CONSTANTS
  NumNames,     \* names are numbered as reflect sorts them
  Types,        \* the struct types of the values
  Declares,     \* what each type declares under each name
  Requests      \* the accessors to evaluate: parameter, names and arguments

Names == 1..NumNames

(* A value as the loop of makeAccessorStage sees it: a struct or a pointer   *)
(* to one.  Everything else, a nil pointer too, is a value of type Plain.    *)
Plain == "plain"
ValueOf(type, ptr) == [type |-> type, ptr |-> ptr]
NotAStruct == ValueOf(Plain, FALSE)
AccessValues == { ValueOf(t, p) : t \in Types, p \in BOOLEAN } \cup { NotAStruct }

(* A member: how many parameters it takes and what it returns.  A method     *)
(* with a pointer receiver is in the method set of the pointer type only.    *)
MemberKinds == { "none", "field", "method", "ptrMethod" }
Returns == { "nothing", "value", "valueAndNil", "valueAndError", "more", "panic" }
Members == [kind : MemberKinds, in : Nat, out : Returns, gives : AccessValues]

(* How an argument relates to the parameter it is for: of its kind, of a     *)
(* kind that converts to it, or neither (typeConvertParam, Call).            *)
ArgumentFits == { "same", "converts", "clashes" }

ASSUME AccessorAssumption ==
  /\ NumNames \in Nat
  /\ Plain \notin Types
  /\ Declares \in [Types -> [Names -> Members]]
  /\ \A r \in Requests :
        r.param \in AccessValues /\ r.pair \in Seq(Names) /\ r.args \in Seq(ArgumentFits)

VARIABLES
  accessorLookupCache,   \* the lookup of each type and name, or NotLookedUp
  evals                  \* what each goroutine is doing

accessorVars == <<accessorLookupCache, evals>>

LookupKinds == { "field", "method", "ptrMethod", "none" }
NotLookedUp == [kind |-> "missing", idx |-> 0]
NoLookup == [kind |-> "none", idx |-> 0]
Lookups == [kind : LookupKinds, idx : 0..NumNames]

Outcomes == { "pending", "value", "notStruct", "noMember", "badArguments", "badReturns", "error", "panic" }

----------------------------------------------------------------------------
(* Reflection: the fields and the method sets of a type, each member known   *)
(* by its index in the sorted set.                                           *)

Declaring(type, kinds) == { n \in Names : Declares[type][n].kind \in kinds }
FieldsOf(type) == Declaring(type, { "field" })
MethodSet(type) == Declaring(type, { "method" })
PtrMethodSet(type) == Declaring(type, { "method", "ptrMethod" })

IndexIn(set, name) == Cardinality({ n \in set : n <= name })
NamesAt(set, idx) == { n \in set : IndexIn(set, n) = idx }

(* resolveAccessor after a miss: a field, else a method of the value type,   *)
(* else, if the value came by a pointer, a method of the pointer type.       *)
Resolved(type, ptr, name) ==
  IF name \in FieldsOf(type) THEN [kind |-> "field", idx |-> IndexIn(FieldsOf(type), name)]
  ELSE IF name \in MethodSet(type) THEN [kind |-> "method", idx |-> IndexIn(MethodSet(type), name)]
  ELSE IF ptr /\ name \in PtrMethodSet(type)
       THEN [kind |-> "ptrMethod", idx |-> IndexIn(PtrMethodSet(type), name)]
       ELSE NoLookup

(* Mutant: every method is called on the value the parameter holds, pointer or not. *)
OnePointerIndexed(type, lookup) ==
  CASE lookup.kind = "field" -> NamesAt(FieldsOf(type), lookup.idx)
    [] lookup.kind \in { "method", "ptrMethod" } -> NamesAt(PtrMethodSet(type), lookup.idx)
    [] OTHER -> {}

(* Where the loop finds the member of a lookup: FieldByIndex and Method on   *)
(* the struct, Method on the pointer for a method of the pointer type.       *)
Indexed(type, lookup) ==
  CASE lookup.kind = "field" -> NamesAt(FieldsOf(type), lookup.idx)
    [] lookup.kind = "method" -> NamesAt(MethodSet(type), lookup.idx)
    [] lookup.kind = "ptrMethod" -> NamesAt(PtrMethodSet(type), lookup.idx)
    [] OTHER -> {}

(* The arguments handed to a method: as many as it takes, converted if their *)
(* kinds differ; reflect's Call panics for a value of another type.          *)
Accepts(member, args) ==
  Len(args) = member.in /\ \A k \in DOMAIN args : args[k] # "clashes"

(* How taking a member ends: every method of the path is called with the     *)
(* arguments of the expression; only a value, or a value and a nil error,    *)
(* lets the loop go on.  The deferred recover makes a panic an error.        *)
Took(member, args) ==
  CASE member.kind # "field" /\ ~Accepts(member, args) -> "badArguments"
    [] member.out \in { "value", "valueAndNil" } -> "value"
    [] member.out = "valueAndError" -> "error"
    [] member.out = "panic" -> "panic"
    [] OTHER -> "badReturns"

----------------------------------------------------------------------------
AccessorInit ==
  /\ accessorLookupCache = [k \in Types \X Names |-> NotLookedUp]
  /\ evals = [g \in Goroutines |-> [pc |-> "idle"]]

(* The goroutine's evaluation reaches an accessor and has its parameter.     *)
BeginAccess(g) ==
  /\ evals[g].pc \in { "idle", "done" }
  /\ \E r \in Requests :
        evals' = [evals EXCEPT ![g] =
          [pc |-> "member", request |-> r, value |-> r.param, i |-> 1,
           lookup |-> NoLookup, outcome |-> "pending"]]
  /\ UNCHANGED accessorLookupCache

Self(g) == evals[g]
Name(g) == Self(g).request.pair[Self(g).i]
Key(g) == <<Self(g).value.type, Name(g)>>

Ends(g, outcome) ==
  evals' = [evals EXCEPT ![g].pc = "done", ![g].outcome = outcome]

(* The end of the path: the value is the result.                             *)
PathEnds(g) ==
  /\ Self(g).pc = "member" /\ Self(g).i > Len(Self(g).request.pair)
  /\ Ends(g, "value")
  /\ UNCHANGED accessorLookupCache

NotStruct(g) ==
  /\ Self(g).pc = "member" /\ Self(g).i <= Len(Self(g).request.pair)
  /\ Self(g).value.type = Plain
  /\ Ends(g, "notStruct")
  /\ UNCHANGED accessorLookupCache

(* resolveAccessor: the load of the cache.                                   *)
LoadLookup(g) ==
  /\ Self(g).pc = "member" /\ Self(g).i <= Len(Self(g).request.pair)
  /\ Self(g).value.type # Plain
  /\ LET cached == accessorLookupCache[Key(g)]
     IN evals' = [evals EXCEPT
          ![g].pc = IF cached = NotLookedUp THEN "resolve" ELSE "use",
          ![g].lookup = IF cached = NotLookedUp THEN NoLookup ELSE cached]
  /\ UNCHANGED accessorLookupCache

(* resolveAccessor: reflection and the store, also of a negative result.     *)
StoreLookup(g) ==
  /\ Self(g).pc = "resolve"
  /\ LET result == Resolved(Self(g).value.type, Self(g).value.ptr, Name(g))
     IN /\ accessorLookupCache' = [accessorLookupCache EXCEPT ![Key(g)] = result]
        /\ evals' = [evals EXCEPT ![g].pc = "use", ![g].lookup = result]

(* Mutant: it is not asked whether the value is a pointer. *)
ByKindUnusable(g) == Self(g).lookup.kind = "none"

(* A lookup of nothing, or of a method of the pointer type for a value that  *)
(* is no pointer.                                                            *)
Unusable(g) ==
  Self(g).lookup.kind = "none" \/ (Self(g).lookup.kind = "ptrMethod" /\ ~Self(g).value.ptr)

NoMember(g) ==
  /\ Self(g).pc = "use" /\ Unusable(g)
  /\ Ends(g, "noMember")
  /\ UNCHANGED accessorLookupCache

(* Mutant: the loop goes on with the value of the member at the same name. *)
StuckUseMember(g) ==
  /\ Self(g).pc = "use" /\ ~Unusable(g)
  /\ \E n \in Indexed(Self(g).value.type, Self(g).lookup) :
        LET member == Declares[Self(g).value.type][n]
            took == Took(member, Self(g).request.args)
        IN IF took = "value"
           THEN evals' = [evals EXCEPT ![g].pc = "member",
                            ![g].value = IF member.gives = NotAStruct THEN @ ELSE member.gives]
           ELSE Ends(g, took)
  /\ UNCHANGED accessorLookupCache

(* Mutant: a method takes the name after it for its arguments. *)
SkippingUseMember(g) ==
  /\ Self(g).pc = "use" /\ ~Unusable(g)
  /\ \E n \in Indexed(Self(g).value.type, Self(g).lookup) :
        LET member == Declares[Self(g).value.type][n]
            took == Took(member, Self(g).request.args)
            skipped == IF member.kind = "field" THEN 1 ELSE 2
        IN IF took = "value"
           THEN evals' = [evals EXCEPT ![g].pc = "member", ![g].i = @ + skipped, ![g].value = member.gives]
           ELSE Ends(g, took)
  /\ UNCHANGED accessorLookupCache

(* FieldByIndex, or the call of the method, and on to the next name.         *)
UseMember(g) ==
  /\ Self(g).pc = "use" /\ ~Unusable(g)
  /\ \E n \in Indexed(Self(g).value.type, Self(g).lookup) :
        LET member == Declares[Self(g).value.type][n]
            took == Took(member, Self(g).request.args)
        IN IF took = "value"
           THEN evals' = [evals EXCEPT ![g].pc = "member", ![g].i = @ + 1, ![g].value = member.gives]
           ELSE Ends(g, took)
  /\ UNCHANGED accessorLookupCache

AccessStep(g) ==
  PathEnds(g) \/ NotStruct(g) \/ LoadLookup(g) \/ StoreLookup(g) \/ NoMember(g) \/ UseMember(g)

AccessorNext == \E g \in Goroutines : BeginAccess(g) \/ AccessStep(g)

(* The scheduler of Go runs every goroutine that can go on.                  *)
AccessorFairness == \A g \in Goroutines : WF_accessorVars(AccessStep(g))

AccessorSpec == AccessorInit /\ [][AccessorNext]_accessorVars /\ AccessorFairness

----------------------------------------------------------------------------
(* The cache holds lookups, the evaluations the positions of their paths.    *)
AccessorTypeOK ==
  /\ accessorLookupCache \in [Types \X Names -> Lookups \cup { NotLookedUp }]
  /\ \A g \in Goroutines :
        \/ Self(g).pc = "idle"
        \/ /\ Self(g).pc \in { "member", "resolve", "use", "done" }
           /\ Self(g).request \in Requests
           /\ Self(g).value \in AccessValues
           /\ Self(g).i \in 1..(Len(Self(g).request.pair) + 1)
           /\ Self(g).lookup \in Lookups
           /\ Self(g).outcome \in Outcomes

(* An index found for one receiver is used on another: the member it picks   *)
(* there must be the member the expression names, for values and pointers    *)
(* whose method sets count differently (the mIdx of resolveAccessor).        *)
PicksTheNamedMember ==
  \A g \in Goroutines :
    Self(g).pc = "use" /\ ~Unusable(g) =>
      Indexed(Self(g).value.type, Self(g).lookup) = { Name(g) }

(* What Go's own rules make of a name: a method of the pointer type belongs  *)
(* to pointers only.                                                         *)
Has(value, name) ==
  Declares[value.type][name].kind \in { "field", "method" } \cup (IF value.ptr THEN { "ptrMethod" } ELSE {})

(* How a value answers to a name.                                            *)
Gives(value, name, args) ==
  IF value.type = Plain THEN "notStruct"
  ELSE IF ~Has(value, name) THEN "noMember"
  ELSE Took(Declares[value.type][name], args)

(* The values that the first n names of an accessor lead to.                 *)
Path(request, n, path) ==
  /\ path[0] = request.param
  /\ \A k \in 1..n :
        /\ Gives(path[k - 1], request.pair[k], request.args) = "value"
        /\ path[k] = Declares[path[k - 1].type][request.pair[k]].gives

(* The outcome is that of the name the path ends at, or of its last value.   *)
Ended(request, n, path, outcome) ==
  IF n = Len(request.pair) THEN outcome = "value"
  ELSE /\ outcome = Gives(path[n], request.pair[n + 1], request.args)
       /\ outcome # "value"

AsDeclared(request, outcome) ==
  \E n \in 0..Len(request.pair) : \E path \in [0..n -> AccessValues] :
    Path(request, n, path) /\ Ended(request, n, path, outcome)

(* The comment on accessorLookupCache calls the lookups "stable for the      *)
(* lifetime of a process": what an access finds does not depend on which     *)
(* value of the type was looked up first.                                    *)
LookupsStable ==
  \A g \in Goroutines : Self(g).pc = "done" => AsDeclared(Self(g).request, Self(g).outcome)

(* The one difference that who asked first can make is that a pointer is     *)
(* refused a method of the pointer type.  No field and no method of the      *)
(* value type is missed, and nothing is reached that reflection would not    *)
(* reach, whoever filled the cache.                                          *)
OnlyPointerMethodsMissed ==
  \A g \in Goroutines :
    Self(g).pc = "done" =>
      \/ AsDeclared(Self(g).request, Self(g).outcome)
      \/ /\ Self(g).outcome = "noMember"
         /\ Self(g).value.ptr
         /\ Declares[Self(g).value.type][Name(g)].kind = "ptrMethod"

(* Whoever fills the cache, a field or a method is the one that the          *)
(* expression names, and only methods of pointers are ever missed.           *)
AccessesAsDeclared == PicksTheNamedMember /\ OnlyPointerMethodsMissed

=============================================================================
