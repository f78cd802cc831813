----------------------------- MODULE StackTraces ----------------------------
(***************************************************************************)
(* The stack trace and the chain of causes of a console item               *)
(* (src/devtools/DevtoolsUtils.ts, DevToolsConnectionAdapter.ts and        *)
(* ConsoleFormatter.from).  DevTools hears of scripts and loads their      *)
(* source maps while an answer is being made; the answer waits for those   *)
(* its trace names, for the scripts a second at most.                      *)
(***************************************************************************)
EXTENDS Integers, Sequences

CONSTANTS
    Targets, Main,  \* the page's own target, and those of its workers
    Scripts,        \* script ids: every target has its own scripts under them
    Errors,         \* errors of a chain, 1 .. N
    Traces,         \* what may be in the trace of one, as sets of scripts
    Chains,         \* what may be the cause of what, [Errors -> Errors or NoCause]
    MaxLinks        \* bound on the links of an answer: a chain may lead back to itself

VARIABLES
    attached,  \* targets whose session is there
    parsed,    \* <<target, script>> DevTools has heard of
    settled,   \* those whose source map is loaded, or is not to be had
    asked,     \* what the answer is for: a message, an error, an error as an argument
    origin,    \* the target it is of
    frames,    \* per error the scripts in its trace, none if it has no trace
    causeOf,   \* per error its cause, NoCause if it has none
    stage,     \* where the answer is
    current,   \* the error it is at
    used,      \* the target whose scripts are waited for
    waits,     \* per script how far the wait for it is
    links      \* the errors of the answer so far, with what became of their traces

traceVars == <<attached, parsed, settled, asked, origin, frames, causeOf, stage,
               current, used, waits, links>>
worldVars == <<asked, origin, frames, causeOf>>

NoCause == 0

----------------------------------------------------------------------------
\* targetById(targetId) || devTools.target
targetOf == IF origin \in attached THEN origin ELSE Main

\* Defect for mutation: any script that is parsed ends the wait.
waitForAnyScript(s, before, known, maps) ==
    IF before = "listening" /\ known # parsed THEN "in"
    ELSE IF <<used', s>> \notin known THEN "listening"
    ELSE IF <<used', s>> \in maps THEN "in" ELSE "map"

\* waitForScript and, behind it, sourceMapForClientPromise: each script that is
\* parsed has the wait look for its own again.
waitForScript(s, before, known, maps) ==
    IF <<used', s>> \notin known THEN "listening"
    ELSE IF <<used', s>> \in maps THEN "in" ELSE "map"

\* The waits that are not over, with the scripts and maps there are now.
Looked(known, maps) ==
    [s \in Scripts |-> IF waits[s] \in {"idle", "in"} THEN waits[s]
                       ELSE waitForScript(s, waits[s], known, maps)]

Init ==
    /\ attached = Targets /\ parsed = {} /\ settled = {}
    /\ asked \in {"message", "error", "argument"}
    /\ origin \in Targets
    /\ frames \in [Errors -> Traces] /\ causeOf \in Chains
    /\ stage = "idle" /\ current = 1 /\ used = Main
    /\ waits = [s \in Scripts |-> "idle"] /\ links = <<>>

(***************************************************************************)
(* The target.                                                             *)
(***************************************************************************)
ScriptParsed(t, s) ==
    /\ t \in attached /\ <<t, s>> \notin parsed
    /\ parsed' = parsed \cup {<<t, s>>}
    /\ used' = used /\ waits' = IF t = used THEN Looked(parsed', settled) ELSE waits
    /\ UNCHANGED <<attached, settled, worldVars, stage, current, links>>

MapSettles(t, s) ==
    /\ <<t, s>> \in parsed \ settled
    /\ settled' = settled \cup {<<t, s>>}
    /\ used' = used
    /\ waits' = IF t = used /\ waits[s] = "map" THEN [waits EXCEPT ![s] = "in"] ELSE waits
    /\ UNCHANGED <<attached, parsed, worldVars, stage, current, links>>

\* The session goes: nothing is heard of it any more, and what is sent to it fails.
stopForwardingCdpEvents(t) ==
    /\ t \in attached /\ attached' = attached \ {t}
    /\ UNCHANGED <<parsed, settled, worldVars, stage, current, used, waits, links>>

(***************************************************************************)
(* The answer.                                                             *)
(***************************************************************************)
Linked(outcome, late) == Append(links, [error |-> current, of |-> used', stack |-> outcome,
                                        late |-> late])

\* ConsoleFormatter.from
from ==
    /\ stage = "idle"
    /\ stage' = IF asked = "argument" THEN "details" ELSE "trace"
    /\ UNCHANGED <<attached, parsed, settled, worldVars, current, used, waits, links>>

\* getExceptionDetails: without them an error has its message, and no more.
getExceptionDetails ==
    /\ stage = "details" /\ used' = used
    /\ \/ origin \in attached /\ stage' = "trace" /\ UNCHANGED links
       \/ stage' = "told" /\ links' = Linked("none", {})
    /\ UNCHANGED <<attached, parsed, settled, worldVars, current, waits>>

\* createStackTrace up to its waits
createStackTrace ==
    /\ stage = "trace" /\ frames[current] # {}
    /\ stage' = "waiting" /\ used' = targetOf
    /\ waits' = [s \in Scripts |-> IF s \notin frames[current] THEN "idle"
                                   ELSE waitForScript(s, "idle", parsed, settled)]
    /\ UNCHANGED <<attached, parsed, settled, worldVars, current, links>>

NoStackTrace ==
    /\ stage = "trace" /\ frames[current] = {} /\ used' = used
    /\ stage' = (IF asked = "message" THEN "told" ELSE "cause")
    /\ links' = Linked("none", {})
    /\ UNCHANGED <<attached, parsed, settled, worldVars, current, waits>>

\* A trace is put together, or left out: the second is over while a script is
\* still waited for.  A source map is waited for as long as it takes.
TraceEnds(outcome) ==
    /\ stage = "waiting" /\ used' = used
    /\ IF outcome = "built" THEN \A s \in Scripts : waits[s] \in {"idle", "in"}
       ELSE \E s \in Scripts : waits[s] = "listening"
    /\ stage' = (IF asked = "message" THEN "told" ELSE "cause")
    /\ links' = Linked(outcome, {s \in frames[current] : <<used, s>> \notin parsed})
    /\ waits' = [s \in Scripts |-> "idle"]
    /\ UNCHANGED <<attached, parsed, settled, worldVars, current>>

\* lookupCause: the cause is asked for at the target, which may fail.
lookupCause ==
    /\ stage = "cause"
    /\ \/ /\ origin \in attached /\ causeOf[current] # NoCause /\ Len(links) < MaxLinks
          /\ current' = causeOf[current] /\ stage' = "details"
       \/ stage' = "told" /\ UNCHANGED current
    /\ UNCHANGED <<attached, parsed, settled, worldVars, used, waits, links>>

\* What comes behind the answer is of no account.
World ==
    /\ stage # "told"
    /\ \E t \in Targets :
            \/ stopForwardingCdpEvents(t)
            \/ \E s \in Scripts : ScriptParsed(t, s) \/ MapSettles(t, s)

Next ==
    \/ World
    \/ from \/ getExceptionDetails \/ createStackTrace \/ NoStackTrace
    \/ (\E outcome \in {"built", "missing"} : TraceEnds(outcome)) \/ lookupCause

Spec == Init /\ [][Next]_traceVars

----------------------------------------------------------------------------
TypeOK ==
    /\ attached \subseteq Targets
    /\ parsed \subseteq Targets \X Scripts /\ settled \subseteq parsed
    /\ stage \in {"idle", "details", "trace", "waiting", "cause", "told"}
    /\ current \in Errors /\ used \in Targets
    /\ waits \in [Scripts -> {"idle", "listening", "map", "in"}]
    /\ links \in Seq([error : Errors, of : Targets, stack : {"none", "built", "missing"},
                      late : SUBSET Scripts])

\* "we'll collect all script IDs upfront and wait for any pending source map loads
\* before creating the stack trace": a trace that is there is of scripts that are
\* known, with their maps (createStackTrace).
TracesAreTranslated ==
    \A i \in DOMAIN links : links[i].stack = "built" =>
        \A s \in frames[links[i].error] : <<links[i].of, s>> \in settled

\* A trace is left out for a script that had not been parsed within the second,
\* and never for one whose event came and went unheard (waitForScript).
NoScriptIsMissed == \A i \in DOMAIN links : links[i].stack = "missing" => links[i].late # {}

\* The answer follows the chain of causes from the error that was asked for.
ChainIsTheErrors ==
    \A i \in DOMAIN links :
        links[i].error = IF i = 1 THEN 1 ELSE causeOf[links[i - 1].error]
=============================================================================
