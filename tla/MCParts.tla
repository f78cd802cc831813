------------------------------ MODULE MCParts -------------------------------
(* TLC instances of the parts. *)
EXTENDS Parts, TLC

CONSTANTS p1, p2, p3, x1, x2, x3

KindDef == [k1 |-> "a", k2 |-> "a", k3 |-> "b"]
TreesDef == {{1, 4}, {1, 2, 4}}
ParentsDef == <<0, 1, 2, 3>>
BoxesDef == [width : {0, 1, 4, 9}, height : {1, 5, 9}]
BoundsDef == [width : {2, 3, 999}, height : {1, 4, 999}]
WorkDef ==
    [tool : {"fill_form"}, characters : {1000}, elements : {1, 4, 9, 12},
     timeout : {0}, fullSpeed : BOOLEAN]
    \cup [tool : {"navigate_page"}, characters : {0}, elements : {1},
          timeout : {-5, 40000, 90000}, fullSpeed : BOOLEAN]
TypeDef == [a |-> "log", b |-> "log", i |-> "issue"]
TracesDef == {{}, {1, 2}}
ChainsDef == {<<0, 0>>, <<2, 0>>, <<1, 0>>}

\* What x1 and x2 stand for is alike: pages, workers, files, calls.
Symmetry == Permutations({x1, x2})
=============================================================================
