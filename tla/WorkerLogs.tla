----------------------------- MODULE WorkerLogs -----------------------------
(***************************************************************************)
(* The console of the service workers of extensions                        *)
(* (src/ServiceWorkerCollector.ts): a subscriber per worker, entered in a  *)
(* map only when its subscription, three calls to the browser, is made.    *)
(* Whether a worker has one is asked before those calls; a worker can stop *)
(* and the collector be disposed of while they are under way.              *)
(***************************************************************************)
EXTENDS Integers

CONSTANT Workers   \* service worker targets of extensions

VARIABLES
    alive,      \* workers that run
    announced,  \* those whose targetcreated is still to be emitted
    listening,  \* the listeners on the browser: "due", "on" or "off"
    under,      \* per worker how many subscriptions are under way
    heard,      \* per worker how many subscribers take what it says
    subscribers,\* #serviceWorkerSubscribers: workers that have an entry
    leaving,    \* those whose entry goes when its session is detached
    doubled,    \* history: workers subscribed to by two at once
    late        \* history: workers whose subscription was overtaken by dispose

workerLogVars == <<alive, announced, listening, under, heard, subscribers, leaving,
                   doubled, late>>

Init ==
    /\ alive \in SUBSET Workers /\ announced \in SUBSET alive
    /\ listening = "due" /\ under = [w \in Workers |-> 0]
    /\ heard = [w \in Workers |-> 0]
    /\ subscribers = {} /\ leaving = {} /\ doubled = {} /\ late = {}

\* #onTargetCreated up to its first await, for these workers.
onTargetCreated(workers) ==
    LET new == workers \ subscribers
    IN  /\ under' = [w \in Workers |-> IF w \in new THEN under[w] + 1 ELSE under[w]]
        /\ doubled' = doubled \cup {w \in new : under[w] > 0}

\* init: the listeners, and the workers that run already.
init ==
    /\ listening = "due" /\ listening' = "on"
    /\ onTargetCreated(alive)
    /\ UNCHANGED <<alive, announced, heard, subscribers, leaving, late>>

WorkerStarts(w) ==
    /\ w \notin alive /\ under[w] = 0 /\ w \notin subscribers
    /\ alive' = alive \cup {w} /\ announced' = announced \cup {w}
    /\ doubled' = doubled \ {w} /\ late' = late \ {w}
    /\ UNCHANGED <<listening, under, heard, subscribers, leaving>>

TargetCreated(w) ==
    /\ w \in announced /\ announced' = announced \ {w}
    /\ IF listening = "on" THEN onTargetCreated({w}) ELSE UNCHANGED <<under, doubled>>
    /\ UNCHANGED <<alive, listening, heard, subscribers, leaving, late>>

\* The subscription is made - or the worker is gone, which is let pass - and the
\* subscriber entered.
Subscribed(w) ==
    /\ under[w] > 0 /\ under' = [under EXCEPT ![w] = @ - 1]
    /\ heard' = [heard EXCEPT ![w] = IF w \in alive THEN @ + 1 ELSE @]
    /\ subscribers' = subscribers \cup {w}
    /\ late' = IF listening = "off" THEN late \cup {w} ELSE late
    /\ UNCHANGED <<alive, announced, listening, leaving, doubled>>

\* The subscriptions of these workers that are entered take no more.
Unsubscribes(workers) ==
    heard' = [w \in Workers |-> IF w \in workers \cap subscribers /\ heard[w] > 0
                                THEN heard[w] - 1 ELSE heard[w]]

\* targetdestroyed: #onTargetDestroyed up to its await.
WorkerStops(w) ==
    /\ w \in alive /\ alive' = alive \ {w} /\ announced' = announced \ {w}
    /\ heard' = [heard EXCEPT ![w] = 0]
    /\ leaving' = IF listening = "on" THEN leaving \cup ({w} \cap subscribers) ELSE leaving
    /\ UNCHANGED <<listening, under, subscribers, doubled, late>>

Detached(w) ==
    /\ w \in leaving /\ leaving' = leaving \ {w}
    /\ subscribers' = subscribers \ {w}
    /\ UNCHANGED <<alive, announced, listening, under, heard, doubled, late>>

dispose ==
    /\ listening = "on" /\ listening' = "off"
    /\ Unsubscribes(Workers)
    /\ subscribers' = {}
    /\ UNCHANGED <<alive, announced, under, leaving, doubled, late>>

Next ==
    \/ init \/ dispose
    \/ \E w \in Workers :
          WorkerStarts(w) \/ TargetCreated(w) \/ Subscribed(w) \/ WorkerStops(w) \/ Detached(w)

Spec == Init /\ [][Next]_workerLogVars

----------------------------------------------------------------------------
TypeOK ==
    /\ alive \subseteq Workers /\ announced \subseteq alive
    /\ listening \in {"due", "on", "off"}
    /\ under \in [Workers -> 0 .. 2] /\ heard \in [Workers -> 0 .. 2]
    /\ subscribers \subseteq Workers /\ leaving \subseteq Workers
    /\ doubled \subseteq Workers /\ late \subseteq Workers

\* What a worker says is taken down once as long as it is entered and runs, and
\* by nobody behind dispose.  Two things get in between: a worker that is listed
\* before it is announced may be subscribed to by init and by the event at once,
\* and a subscription that dispose overtakes is made and entered all the same.
WorkersAreHeardOnce ==
    \A w \in Workers :
        /\ w \in (alive \cap subscribers) \ leaving => heard[w] >= 1
        /\ heard[w] > 1 => w \in doubled
        /\ listening = "off" /\ heard[w] > 0 => w \in doubled \cup late
=============================================================================
