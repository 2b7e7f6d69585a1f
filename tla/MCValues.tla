------------------------------ MODULE MCValues ------------------------------
(***************************************************************************)
(* What the model checker takes for the open constants of Values: numbers  *)
(* are terms, so that two ways to compute a number differ as soon as they  *)
(* apply another operator or other operands; the rest is a simple choice   *)
(* that depends on its arguments.                                          *)
(***************************************************************************)
EXTENDS Sequences

FreeArithmetic(symbol, l, r) == <<symbol, l, r>>
SomeLess(l, r) == l = <<"1">> /\ r # l
SomeCompiles(s) == s # << <<"chr", "(">> >>
SomeMatches(s, pattern) == s = pattern

(* A function that returns nothing but what it was called with, panics       *)
(* without arguments and fails for nil; an accessor that does the same for a *)
(* value and fails for nil, by a panic where it has arguments.               *)
Panic == <<"panic", "in the user's code">>
EchoFunction(args) ==
  IF args = << >> THEN Panic
  ELSE IF args = << <<"nil">> >> THEN <<"error">>
  ELSE <<"value", <<"num", <<"called", args>> >> >>
EchoAccess(v, args) ==
  IF v # <<"nil">> THEN <<"value", <<"num", <<"accessed", v, args>> >> >>
  ELSE IF args = << >> THEN <<"error">> ELSE Panic

One == <<"num", <<"1">> >>
True == <<"bool", TRUE>>
False == <<"bool", FALSE>>
Letter == <<"str", << <<"chr", "a">> >> >>
Pattern == <<"regex", << <<"chr", "a">> >> >>

=============================================================================
