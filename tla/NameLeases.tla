----------------------------- MODULE NameLeases -----------------------------
(***************************************************************************)
(* What the front promises of the file names callers choose                *)
(* (chromectl/fileplan.mjs): a name is leased to one browser as long as    *)
(* any file of that browser uses it, and free after.                       *)
(***************************************************************************)
CONSTANTS Names, Browsers, Files, None

VARIABLES
    lessee,  \* [Names -> Browsers \cup {None}]
    users    \* [Names -> SUBSET (Browsers \X Files)] files that use the name

Init ==
    /\ lessee = [n \in Names |-> None]
    /\ users = [n \in Names |-> {}]

Take(b, f, n) ==
    /\ <<b, f>> \notin users[n]
    /\ lessee[n] \in {None, b}
    /\ lessee' = [lessee EXCEPT ![n] = b]
    /\ users' = [users EXCEPT ![n] = @ \cup {<<b, f>>}]

\* Some files let go of what they use; a name nobody uses any more is free.
LetGo ==
    /\ users' \in [Names -> SUBSET (Browsers \X Files)]
    /\ \A n \in Names : users'[n] \subseteq users[n]
    /\ lessee' = [n \in Names |-> IF users'[n] = {} THEN None ELSE lessee[n]]

Next == LetGo \/ \E b \in Browsers, f \in Files, n \in Names : Take(b, f, n)

Spec == Init /\ [][Next]_<<lessee, users>>
=============================================================================
