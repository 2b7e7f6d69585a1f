------------------------------- MODULE Process -------------------------------
(***************************************************************************)
(* The process that all expressions of a program live in.  Its goroutines  *)
(* share the package's caches and pools, and the parameters they are given.*)
(***************************************************************************)
CONSTANT Goroutines   \* the goroutines that construct and evaluate

=============================================================================
