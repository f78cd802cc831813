----------------------------- MODULE Admission -----------------------------
(***************************************************************************)
(* Which calls the front lets through to a browser                         *)
(* (chromectl/admission.mjs and its use by invoke of chromectl/front.mjs): *)
(* a call is held against what is already running, noted while it runs and *)
(* struck off when it ends.  The front cannot stop a call that has reached *)
(* the daemon; it can only decide not to start a second one behind it.     *)
(*                                                                         *)
(* What carries a call out -- the daemon, its MCP server, the browser --   *)
(* is seen from the front's side only: it begins at some time and ends at  *)
(* some time, or does not end at all.                                      *)
(***************************************************************************)
EXTENDS Naturals, FiniteSets

CONSTANTS
    Calls,        \* the requests that reach the front
    Sessions,     \* session ids, one per browser
    Targets,      \* the names callers give browsers
    MaxRestarts   \* bound: how often the front is restarted

ASSUME RestartsAreBounded == MaxRestarts \in Nat

VARIABLES
    command,        \* [Calls -> Command] what a call asks for
    target,         \* [Calls -> Targets] the name it gives the browser
    sessionId,      \* [Calls -> Sessions] the browser that name resolves to
    at,             \* [Calls -> Stage] where `invoke` stands for the call
    gone,           \* client.gone of the calls whose client left
    callsInFlight,  \* [Keys -> SUBSET Calls] the entries per browser
    carriedOut,     \* calls a daemon is carrying out
    behind,         \* history: [Calls -> SUBSET Calls] what nobody waited for
                    \* when the call was admitted
    forgotten,      \* history: calls struck off while they were carried out
    restarts        \* history: restarts so far

vars == <<command, target, sessionId, at, gone, callsInFlight, carriedOut, behind, forgotten,
          restarts>>
request == <<command, target, sessionId>>

ABANDONMENT_EXEMPT_COMMAND == "handle_dialog"
Command == {ABANDONMENT_EXEMPT_COMMAND, "click"}

\* "planning" is a call that has not reached the daemon yet.
InFlight == {"planning", "sent"}
Stage == {"away", "refused", "over"} \cup InFlight
Keys == Sessions \cup Targets

TypeOK ==
    /\ command \in [Calls -> Command]
    /\ target \in [Calls -> Targets]
    /\ sessionId \in [Calls -> Sessions]
    /\ at \in [Calls -> Stage]
    /\ gone \subseteq Calls
    /\ callsInFlight \in [Keys -> SUBSET Calls]
    /\ carriedOut \subseteq Calls
    /\ behind \in [Calls -> SUBSET Calls]
    /\ forgotten \subseteq Calls
    /\ restarts \in 0..MaxRestarts

Init ==
    /\ command \in [Calls -> Command]
    /\ target \in [Calls -> Targets]
    /\ sessionId \in [Calls -> Sessions]
    /\ at = [c \in Calls |-> "away"]
    /\ gone = {}
    /\ callsInFlight = [k \in Keys |-> {}]
    /\ carriedOut = {}
    /\ behind = [c \in Calls |-> {}]
    /\ forgotten = {}
    /\ restarts = 0

-----------------------------------------------------------------------------
(* The three functions that reach the map *)

\* Variant: the browser is known by the name the caller gave it.
keyByTarget(c) == target[c]

\* Names that arrive at one browser share its session id.
key(c) == sessionId[c]

abandonedCall(c) == callsInFlight[key(c)] \cap gone

exemptCall(c) == {d \in callsInFlight[key(c)] : command[d] = ABANDONMENT_EXEMPT_COMMAND}

\* Variant: the exempt command is admitted unconditionally.
assertAdmissibleAlways(c) ==
    command[c] = ABANDONMENT_EXEMPT_COMMAND \/ abandonedCall(c) = {}

assertAdmissible(c) ==
    IF command[c] = ABANDONMENT_EXEMPT_COMMAND THEN exemptCall(c) = {} ELSE abandonedCall(c) = {}

registerCall(c) == callsInFlight' = [callsInFlight EXCEPT ![key(c)] = @ \cup {c}]

\* Variant: the browser's key goes whether or not its set is empty.
unregisterBrowser(c) == callsInFlight' = [k \in Keys \ {key(c)} |-> callsInFlight[k]]

unregisterCall(c) == callsInFlight' = [callsInFlight EXCEPT ![key(c)] = @ \ {c}]

-----------------------------------------------------------------------------
(* invoke, seen from the map *)

\* What runs at the browser of c with nobody waiting for it.
Unwaited(c) ==
    {d \in Calls \ {c} : /\ sessionId[d] = sessionId[c]
                         /\ \/ at[d] \in InFlight /\ d \in gone
                            \/ at[d] = "over" /\ d \in carriedOut}

Admit(c) ==
    /\ at[c] = "away"
    /\ assertAdmissible(c)
    /\ registerCall(c)
    /\ at' = [at EXCEPT ![c] = "planning"]
    /\ behind' = [behind EXCEPT ![c] = Unwaited(c)]
    /\ UNCHANGED <<request, gone, carriedOut, forgotten, restarts>>

Refuse(c) ==
    /\ at[c] = "away"
    /\ ~assertAdmissible(c)
    /\ at' = [at EXCEPT ![c] = "refused"]
    /\ UNCHANGED <<request, gone, callsInFlight, carriedOut, behind, forgotten, restarts>>

\* The response's `close` before it was written: the caller gave up.
ClientCloses(c) ==
    /\ at[c] \in InFlight
    /\ c \notin gone
    /\ gone' = gone \cup {c}
    /\ UNCHANGED <<request, at, callsInFlight, carriedOut, behind, forgotten, restarts>>

\* The plan is made, the browser is there, the command is sent; that it may be
\* sent a second time is the lifecycle's.
SendCommand(c) ==
    /\ at[c] = "planning"
    /\ at' = [at EXCEPT ![c] = "sent"]
    /\ carriedOut' = carriedOut \cup {c}
    /\ UNCHANGED <<request, gone, callsInFlight, behind, forgotten, restarts>>

\* The tool has ended, or what carried it out has.
ToolEnds(c) ==
    /\ c \in carriedOut
    /\ carriedOut' = carriedOut \ {c}
    /\ UNCHANGED <<request, at, gone, callsInFlight, behind, forgotten, restarts>>

\* `finally`: with the answer, with an error before anything was sent, or with
\* the deadline, which leaves the daemon at work.
Ends(c) ==
    /\ at[c] \in InFlight
    /\ unregisterCall(c)
    /\ at' = [at EXCEPT ![c] = "over"]
    /\ forgotten' = forgotten \cup ({c} \cap carriedOut)
    /\ UNCHANGED <<request, gone, carriedOut, behind, restarts>>

\* The map is the process's own; the daemons live on.
FrontRestart ==
    /\ restarts < MaxRestarts
    /\ restarts' = restarts + 1
    /\ callsInFlight' = [k \in Keys |-> {}]
    /\ at' = [c \in Calls |-> IF at[c] \in InFlight THEN "over" ELSE at[c]]
    /\ forgotten' = forgotten \cup {c \in carriedOut : at[c] \in InFlight}
    /\ UNCHANGED <<request, gone, carriedOut, behind>>

\* Every request is dealt with; the front waits for more than the model has.
AllOver == (\A c \in Calls : at[c] \in {"refused", "over"}) /\ UNCHANGED vars

Next ==
    \/ \E c \in Calls : \/ Admit(c) \/ Refuse(c) \/ ClientCloses(c)
                        \/ SendCommand(c) \/ ToolEnds(c) \/ Ends(c)
    \/ FrontRestart \/ AllOver

Spec == Init /\ [][Next]_vars

-----------------------------------------------------------------------------
(* Properties *)

\* Nothing but the exempt command was let through to a browser while a call of
\* it that the front still knew of ran on without its caller, under whatever
\* names the two came (admission.mjs:105).
NothingBehindAnAbandonedCall ==
    \A c \in Calls :
        command[c] # ABANDONMENT_EXEMPT_COMMAND => behind[c] \subseteq forgotten

\* At most one call at a time is let in behind an abandoned one: it clears the
\* dialog, and none drives the page beside it (admission.mjs:54).
OneRescuerAtATime ==
    \A c, d \in Calls :
        /\ at[c] \in InFlight /\ at[d] \in InFlight /\ sessionId[c] = sessionId[d]
        /\ behind[c] \ forgotten # {} /\ behind[d] \ forgotten # {}
        => c = d

\* The notes of a browser are its calls in flight: none outlives its call and bars
\* the browser for good, whatever became of the call or of its caller, and none
\* is missing (unregisterCall in `finally`).
NotesAreCalls ==
    \A k \in Keys : callsInFlight[k] = {c \in Calls : sessionId[c] = k /\ at[c] \in InFlight}

\* What the notes say bars whom it should: they are the calls in flight, and one
\* rescuer at a time is let past them.
NotesBarAllButOne == NotesAreCalls /\ OneRescuerAtATime
=============================================================================
