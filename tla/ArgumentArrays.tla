---------------------------- MODULE ArgumentArrays ----------------------------
(***************************************************************************)
(* The arrays behind the arguments of functions.  A separator appends to   *)
(* the value on its left: to the arguments gathered so far, but also to    *)
(* any []interface{} that a parameter, an accessor or a function gave,     *)
(* which writes into the array of that slice if it has capacity to spare.  *)
(* Goroutines share the parameter, and a function is called with the slice *)
(* of its arguments itself, which it may keep and return, whole or cut     *)
(* shorter, to any expression that calls it.  In f(a, 1, g(a, 2)) the list *)
(* of g is gathered while that of f waits, in f(h(), 1, g(h(), 2)) too,    *)
(* and both begin with one slice.                                          *)
(*                                                                         *)
(* A slice is an array of the heap and a length; the capacity is that of   *)
(* the array.  The user's slice stands for every slice with or without     *)
(* capacity to spare that user code has made.                              *)
(***************************************************************************)
EXTENDS Process, Integers, Sequences, FiniteSetsExt

CONSTANTS
  Elements,      \* how many elements the parameter's slice has
  Spares,        \* how much capacity it may have beyond them
  MaxCut,        \* bound: by how much user code cuts a slice shorter
  MaxCalls,      \* bound: argument lists in all
  MaxArguments   \* bound: arguments in a list when a further one is added

ASSUME SizesAssumption ==
  /\ Elements \in Nat /\ Spares \subseteq Nat /\ MaxCut \in Nat
  /\ MaxCalls \in Nat /\ MaxArguments \in Nat

VARIABLES
  heap,   \* the arrays; the first one is the user's
  lists   \* per goroutine, the argument lists of its evaluation as they were begun

argumentVars == <<heap, lists>>

(* The parameter's elements, and the other operands.                         *)
Element(k) == <<"element", k>>
Operand(e, n) == <<"operand", e, n>>
Unset == << >>

UserArray == 1
UserSlice == [array |-> UserArray, len |-> Elements]
NoSlice == [array |-> 0, len |-> 0]

(* A list: its slice, the slice that its first separator found on the left,  *)
(* if any, whether that one was cut, the values that were put into it, and   *)
(* whether the function was called with it.                                  *)
ArgumentList(slice, left, cut, given) ==
  [slice |-> slice, left |-> left, cut |-> cut, given |-> given, called |-> FALSE]

(* The parameter, as a list that the user has put together.                  *)
UserList ==
  [slice |-> UserSlice, left |-> NoSlice, cut |-> FALSE,
   given |-> [k \in 1 .. Elements |-> Element(k)], called |-> TRUE]

ArgumentsInit ==
  /\ \E spare \in Spares :
       heap = << [k \in 1 .. Elements + spare |-> IF k <= Elements THEN Element(k) ELSE Unset] >>
  /\ lists = [e \in Goroutines |-> << >>]

(* What a slice holds now. *)
Contents(slice) == SubSeq(heap[slice.array], 1, slice.len)

Ids == UNION { { <<e, k>> : k \in DOMAIN lists[e] } : e \in Goroutines }
List(id) == lists[id[1]][id[2]]
AllLists == { List(id) : id \in Ids }

-----------------------------------------------------------------------------
(* append *)

(* A new array with these values. *)
Allocated(values) == [heap |-> Append(heap, values), slice |-> [array |-> Len(heap) + 1, len |-> Len(values)]]

(* Mutant: the value replaces the last one. *)
AppendedLast(slice, value) ==
  [heap |-> [heap EXCEPT ![slice.array][slice.len] = value], slice |-> slice]

(* Mutant: the slice gets longer, its array does not. *)
AppendedOver(slice, value) ==
  [heap |-> heap, slice |-> [slice EXCEPT !.len = @ + 1]]

(* The value goes into the array if that has room, or else into a copy with  *)
(* twice the capacity.                                                       *)
Appended(slice, value) ==
  LET grown == [k \in 1 .. (IF slice.len = 0 THEN 1 ELSE 2 * slice.len) |->
                  IF k <= slice.len THEN heap[slice.array][k]
                  ELSE IF k = slice.len + 1 THEN value ELSE Unset]
  IN  IF slice.len < Len(heap[slice.array])
        THEN [heap |-> [heap EXCEPT ![slice.array][slice.len + 1] = value],
              slice |-> [slice EXCEPT !.len = @ + 1]]
        ELSE [heap |-> Append(heap, grown), slice |-> [array |-> Len(heap) + 1, len |-> slice.len + 1]]

-----------------------------------------------------------------------------
(* The stages of an evaluation *)

(* The list being gathered: the one begun last of those not called yet.     *)
Gathering(e) == \E k \in DOMAIN lists[e] : ~lists[e][k].called
CurrentIndex(e) ==
  CHOOSE k \in DOMAIN lists[e] :
    ~lists[e][k].called /\ \A j \in DOMAIN lists[e] : j > k => lists[e][j].called
CurrentList(e) == lists[e][CurrentIndex(e)]

(* Operands that no other evaluation and no other place of this one has.     *)
NewOperand(e, place) == Operand(e, <<Len(lists[e]) + 1, place>>)
NextOperand(e) == Operand(e, <<CurrentIndex(e), Len(CurrentList(e).given) + 1>>)

ListsBegun == MapThenSumSet(LAMBDA g : Len(lists[g]), Goroutines)

(* A list is begun, also for a call among the arguments of another.          *)
BeginList(e, result, left, cut, given) ==
  /\ ListsBegun < MaxCalls
  /\ heap' = result.heap
  /\ lists' = [lists EXCEPT ![e] = Append(@, ArgumentList(result.slice, left, cut, given))]

(* ensureCollectedArgsStage, for a single operand, a slice too. *)
CollectArguments(e) ==
  LET single == <<NewOperand(e, 1)>>
  IN  BeginList(e, Allocated(single), NoSlice, FALSE, single)

(* Mutant: the first array that was made for two operands is used again. *)
SeparateValueScratch(e) ==
  LET pair == <<NewOperand(e, 1), NewOperand(e, 2)>>
  IN  BeginList(e, IF Len(heap) > 1
                   THEN [heap |-> [heap EXCEPT ![2] = pair], slice |-> [array |-> 2, len |-> 2]]
                   ELSE Allocated(pair), NoSlice, FALSE, pair)

(* separatorStage, the first separator of an argument list: with a value on  *)
(* its left that is no slice,                                                *)
SeparateValue(e) ==
  LET pair == <<NewOperand(e, 1), NewOperand(e, 2)>>
  IN  BeginList(e, Allocated(pair), NoSlice, FALSE, pair)

(* or with a slice: what user code has and may give to any expression is the *)
(* user's slice and the lists that functions were called with.               *)
SeparateSlice(e) ==
  \E whole \in { list.slice : list \in { l \in AllLists : l.called } \cup { UserList } } :
    \E len \in { n \in 0 .. whole.len : whole.len <= n + MaxCut } :
      LET left == [array |-> whole.array, len |-> len]
          value == NewOperand(e, len + 1)
      IN  BeginList(e, Appended(left, value), left, len < whole.len, Append(Contents(left), value))

(* A list that a separator has begun.                                        *)
Separated(list) == list.left # NoSlice \/ Len(list.given) > 1

(* Every further separator.                                                  *)
SeparateArguments(e) ==
  /\ Gathering(e) /\ Separated(CurrentList(e)) /\ Len(CurrentList(e).given) < MaxArguments
  /\ LET result == Appended(CurrentList(e).slice, NextOperand(e))
     IN  /\ heap' = result.heap
         /\ lists' = [lists EXCEPT ![e][CurrentIndex(e)] =
                        [CurrentList(e) EXCEPT !.slice = result.slice,
                                               !.given = Append(@, NextOperand(e))]]

(* The function is called with the slice, and keeps it. *)
CallFunction(e) ==
  /\ Gathering(e)
  /\ lists' = [lists EXCEPT ![e][CurrentIndex(e)].called = TRUE]
  /\ UNCHANGED heap

ArgumentsNext ==
  \E e \in Goroutines :
    CollectArguments(e) \/ SeparateValue(e) \/ SeparateSlice(e) \/ SeparateArguments(e) \/ CallFunction(e)

ArgumentsSpec == ArgumentsInit /\ [][ArgumentsNext]_argumentVars

-----------------------------------------------------------------------------

(* Type invariant: every slice lies within its array.                        *)
ArgumentsTypeOK ==
  /\ Len(heap[UserArray]) - Elements \in Spares
  /\ \A list \in AllLists :
       list.slice.array \in DOMAIN heap /\ list.slice.len \in 1 .. Len(heap[list.slice.array])

(* An argument list holds what was put into it for as long as anybody has    *)
(* it: no other separator, of its own evaluation or of a concurrent one,     *)
(* writes into it.  "Correctly handles nested functions" needs it.           *)
ArgumentsStay == \A list \in AllLists : Contents(list.slice) = list.given

(* A slice that separators found on their left twice, or once after user     *)
(* code had cut it out of a longer one.                                      *)
Shared(slice) ==
  \E i \in Ids :
    /\ List(i).left = slice
    /\ List(i).cut \/ \E j \in Ids \ { i } : List(j).left = slice

(* That is the only way in which arguments, kept ones included, or the       *)
(* elements of the user's slice are ever written over: a slice that ends     *)
(* within them was put in front of the arguments of two calls, nested in one *)
(* another, one after the other or concurrent, or is a part of them that     *)
(* user code cut off; a list that outgrows its array takes what was written  *)
(* there into its copy.  Arguments that begin with no slice, and those that  *)
(* begin with one which nobody else puts in front of others, stay.           *)
ChangedOnlyIfShared ==
  \A list \in AllLists \cup { UserList } :
    Contents(list.slice) # list.given =>
      \E array \in { list.slice.array, list.left.array } :
        \E len \in 0 .. list.slice.len - 1 : Shared([array |-> array, len |-> len])

=============================================================================
