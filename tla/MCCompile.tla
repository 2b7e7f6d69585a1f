----------------------------- MODULE MCCompile -----------------------------
(***************************************************************************)
(* Compile on the lists of MCStagePlanner and on longer chains of three    *)
(* operators, with and without prefixes, which leave longer runs.          *)
(***************************************************************************)
EXTENDS MCStagePlanner, CompileReference, MCValues

CONSTANT MaxRun

RunOperators == { T("MODIFIER", "-"), T("MODIFIER", "*"), T("COMPARATOR", "==") }

RunLists ==
  { [k \in 1 .. 2 * n + 1 |-> IF k % 2 = 1 THEN Number ELSE f[k \div 2]] :
      <<n, f>> \in UNION { { n } \X [1 .. n -> RunOperators] : n \in 3 .. MaxRun } }

PrefixLists ==
  Chains({ T("PREFIX", "-"), T("VARIABLE", "ok"), T("MODIFIER", "**"), T("LOGICALOP", "&&"),
           T("MODIFIER", "&") }, 6)

OneOfEach == { One, True, Letter, Pattern }

MCCompileInputs == MCInputs \cup RunLists \cup PrefixLists

=============================================================================
