---------------------------- MODULE MCCallFiles ----------------------------
(* CallFiles for TLC: calls, browsers and names are interchangeable. *)
EXTENDS CallFiles, TLC

Symmetry == Permutations(Calls) \cup Permutations(Browsers) \cup Permutations(Names)
=============================================================================
