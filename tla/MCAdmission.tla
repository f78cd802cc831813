---------------------------- MODULE MCAdmission ----------------------------
(* Admission for TLC: calls, browsers and names are interchangeable. *)
EXTENDS Admission, TLC

Symmetry == Permutations(Calls) \cup Permutations(Sessions) \cup Permutations(Targets)
=============================================================================
