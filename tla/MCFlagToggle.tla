---------------------------- MODULE MCFlagToggle ----------------------------
(* Instances of FlagToggle for TLC. *)
EXTENDS FlagToggle, TLC

\* Calls of one kind are interchangeable.
Symmetry == Permutations(HttpCalls) \cup Permutations(McpCalls)
=============================================================================
