------------------------------ MODULE MCBudgets ------------------------------
(* TLC instance of Budgets: calls of one action, whose retry is what counts. *)
EXTENDS Budgets

WorkDef ==
    [tool : {"type_text"}, characters : {0, 1000}, elements : {1}, timeout : {0},
     fullSpeed : BOOLEAN]
    \cup [tool : {"navigate_page"}, characters : {0}, elements : {1},
          timeout : {-5, 90000}, fullSpeed : BOOLEAN]
=============================================================================
