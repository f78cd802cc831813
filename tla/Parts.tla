------------------------------- MODULE Parts --------------------------------
(***************************************************************************)
(* The parts that share no state: a behaviour is one of the part it was    *)
(* begun with, and so one of CallSpec, PageSpec or AnswerSpec.             *)
(***************************************************************************)
EXTENDS CallParts, PageParts, AnswerParts

Init == CallInit \/ PageInit \/ AnswerInit

Next == CallNext \/ PageNext \/ AnswerNext

Spec == Init /\ [][Next]_vars

TypeOK == CallTypeOK /\ PageTypeOK /\ AnswerTypeOK
=============================================================================
