--------------------------- MODULE PartVariables ----------------------------
(***************************************************************************)
(* The parts that share no state with one another use the same variables,  *)
(* each for its own: what a part's module calls a variable is the name of  *)
(* one of these, which no other variable of that part has.  The names that *)
(* parts of different groups have in common stand here.                    *)
(***************************************************************************)
CONSTANT None

VARIABLES part, v1, v2, v3, v4, v5, v6, v7, v8, v9, v10, v11, v12, v13, v14, v15, v16

vars == <<part, v1, v2, v3, v4, v5, v6, v7, v8, v9, v10, v11, v12, v13, v14, v15, v16>>

stage == v3
heard == v5
at == v10
told == v11
strayed == v4
attached == v7
selected == v8
fallback == v9
list == v11
asked == v4
failed == v4
shown == v9
document == v1
=============================================================================
