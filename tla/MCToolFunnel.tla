---------------------------- MODULE MCToolFunnel ----------------------------
(* TLC instances of ToolFunnel: its calls are alike until they are made. *)
EXTENDS ToolFunnel, TLC

Symmetry == Permutations(Calls)
=============================================================================
