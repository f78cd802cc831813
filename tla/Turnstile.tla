----------------------------- MODULE Turnstile -----------------------------
(***************************************************************************)
(* What the tool funnel promises of its mutexes (src/ToolHandler.ts): at   *)
(* each turnstile at most one call is inside, the calls before it go in in *)
(* the order they came, and one may turn away before its turn.  How a      *)
(* place in the queue is given up is not the promise's concern.            *)
(***************************************************************************)
CONSTANTS Calls, Lanes, None

VARIABLES
    waiting,  \* [Lanes -> SUBSET Calls] calls before each turnstile
    ahead,    \* SUBSET (Calls \X Calls): which of them came before which
    inside    \* [Lanes -> Calls \cup {None}] the call each has let in

Init ==
    /\ waiting = [l \in Lanes |-> {}]
    /\ ahead = {}
    /\ inside = [l \in Lanes |-> None]

Queue(l, c) ==
    /\ \A k \in Lanes : c \notin waiting[k]
    /\ waiting' = [waiting EXCEPT ![l] = @ \cup {c}]
    /\ ahead' = ahead \cup (waiting[l] \X {c})
    /\ UNCHANGED inside

Leaves(l, c) ==
    /\ c \in waiting[l]
    /\ waiting' = [waiting EXCEPT ![l] = @ \ {c}]
    /\ ahead' = {p \in ahead : c # p[1] /\ c # p[2]}

TurnAway(l, c) == Leaves(l, c) /\ UNCHANGED inside

GoIn(l, c) ==
    /\ inside[l] = None
    /\ \A d \in waiting[l] : <<d, c>> \notin ahead
    /\ Leaves(l, c)
    /\ inside' = [inside EXCEPT ![l] = c]

GoOut(l) ==
    /\ inside[l] # None
    /\ inside' = [inside EXCEPT ![l] = None]
    /\ UNCHANGED <<waiting, ahead>>

Next ==
    \E l \in Lanes :
        \/ \E c \in Calls : Queue(l, c) \/ TurnAway(l, c) \/ GoIn(l, c)
        \/ GoOut(l)

Spec == Init /\ [][Next]_<<waiting, ahead, inside>>
=============================================================================
