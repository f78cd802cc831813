----------------------------- MODULE ToolFunnel -----------------------------
(***************************************************************************)
(* The funnel every tool call of one MCP server process passes             *)
(* (src/ToolHandler.ts, getContext of src/index.ts, selectPace and         *)
(* holdNavigationGap of src/pacing.ts): wait for a mutex within a ceiling, *)
(* take the call's pace, keep the gap to the last navigation, get hold of  *)
(* the browser and of its context, run the tool, put everything back.      *)
(*                                                                         *)
(* handle_dialog goes past the queue on a latch of its own once a context  *)
(* exists, so two calls can be in the funnel at a time.  Everything happens*)
(* in one event loop; an action is the stretch between two awaits.         *)
(***************************************************************************)
EXTENDS Naturals, SequencesExt

CONSTANTS
    Calls,    \* the tool calls of this process
    None,     \* no call
    MaxDrops  \* bound: how often a browser connection is lost

ASSUME NoneIsNoCall == None \notin Calls
ASSUME DropsAreBounded == MaxDrops \in Nat

VARIABLES
    at,       \* [Calls -> Place] where `handle` stands for the call
    kind,     \* [Calls -> Kind] what sort of tool it runs
    full,     \* [Calls -> BOOLEAN] whether it asks for full speed
    lane,     \* [Calls -> Lanes] the mutex it goes through
    holder,   \* [Lanes -> Calls \cup {None}] whom the mutex was handed to
    queue,    \* [Lanes -> Seq(Calls)] its FIFO of waiters
    pace,     \* activePace
    saved,    \* [Calls -> Pace] what a call's restorePace puts back
    recent,   \* the last navigation ended less than the gap ago
    older,    \* calls that keep the gap to an earlier navigation than the last
    browser,  \* `browser`: the connection in use, named after who made it
    up,       \* connections that still stand
    context,  \* `context`: the context in use, named after who built it
    got,      \* [Calls -> Calls \cup {None}] the browser a call was handed
    using,    \* [Calls -> Calls \cup {None}] the context a call works with
    disposed, \* contexts that have been disposed of
    beside,   \* history: calls that were in the funnel beside another
    drops     \* history: connections lost so far

funnelVars == <<at, kind, full, lane, holder, queue>>
paceVars == <<pace, saved, recent, older, beside>>
browserVars == <<browser, up, context, got, using, disposed, drops>>
vars == <<funnelVars, paceVars, browserVars>>

Lanes == {"tool", "dialog"}
Kind == {"act", "read", "dialog"}  \* "act" reaches the page; "dialog" does too
Pace == {"human", "full"}

\* A call that "gaveUp" has been answered and left its place in the queue behind.
Inside == {"gap", "ensure", "connect", "check", "build", "roots", "work"}
Place == {"idle", "queued", "granted", "gaveUp", "done"} \cup Inside

Within(c) == at[c] \in Inside
PaceOf(c) == IF full[c] THEN "full" ELSE "human"

TypeOK ==
    /\ at \in [Calls -> Place]
    /\ kind \in [Calls -> Kind]
    /\ full \in [Calls -> BOOLEAN]
    /\ lane \in [Calls -> Lanes]
    /\ holder \in [Lanes -> Calls \cup {None}]
    /\ queue \in [Lanes -> Seq(Calls)]
    /\ pace \in Pace
    /\ saved \in [Calls -> Pace]
    /\ recent \in BOOLEAN
    /\ older \subseteq Calls
    /\ browser \in Calls \cup {None}
    /\ up \subseteq Calls
    /\ context \in Calls \cup {None}
    /\ got \in [Calls -> Calls \cup {None}]
    /\ using \in [Calls -> Calls \cup {None}]
    /\ disposed \subseteq Calls
    /\ beside \subseteq Calls
    /\ drops \in 0..MaxDrops

Init ==
    /\ at = [c \in Calls |-> "idle"]
    /\ kind \in [Calls -> Kind]
    /\ full \in [Calls -> BOOLEAN]
    /\ lane = [c \in Calls |-> "tool"]
    /\ holder = [l \in Lanes |-> None]
    /\ queue = [l \in Lanes |-> <<>>]
    /\ pace = "human"
    /\ saved = [c \in Calls |-> "human"]
    /\ recent = FALSE
    /\ older = {}
    /\ browser = None
    /\ up = {}
    /\ context = None
    /\ got = [c \in Calls |-> None]
    /\ using = [c \in Calls |-> None]
    /\ disposed = {}
    /\ beside = {}
    /\ drops = 0

-----------------------------------------------------------------------------
(* The mutex *)

\* A disabled tool or an unknown argument: answered before any mutex.
Refuse(c) ==
    /\ at[c] = "idle"
    /\ at' = [at EXCEPT ![c] = "done"]
    /\ UNCHANGED <<kind, full, lane, holder, queue, paceVars, browserVars>>

\* Variant: past the queue whether or not a context is there.
dialogLatchAlways(c) == IF kind[c] = "dialog" THEN "dialog" ELSE "tool"

\* dialogLatchMutex: past the queue only where a context is there already.
dialogLatchMutex(c) == IF kind[c] = "dialog" /\ context # None THEN "dialog" ELSE "tool"

acquire(c, l) ==
    \/ /\ holder[l] = None
       /\ holder' = [holder EXCEPT ![l] = c]
       /\ at' = [at EXCEPT ![c] = "granted"]
       /\ UNCHANGED queue
    \/ /\ holder[l] # None
       /\ queue' = [queue EXCEPT ![l] = Append(@, c)]
       /\ at' = [at EXCEPT ![c] = "queued"]
       /\ UNCHANGED holder

\* Variant: the call that came last is served first.
releaseToNewest(l) ==
    IF queue[l] = <<>>
    THEN holder' = [holder EXCEPT ![l] = None] /\ UNCHANGED queue
    ELSE /\ holder' = [holder EXCEPT ![l] = Last(queue[l])]
         /\ queue' = [queue EXCEPT ![l] = Front(@)]

\* Releasing hands the mutex to the first in line, whether or not the call
\* still waits for it.
release(l) ==
    IF queue[l] = <<>>
    THEN holder' = [holder EXCEPT ![l] = None] /\ UNCHANGED queue
    ELSE /\ holder' = [holder EXCEPT ![l] = Head(queue[l])]
         /\ queue' = [queue EXCEPT ![l] = Tail(@)]

\* at, with c moved to p and the call granted by a release, if it still waits.
Moved(c, p) ==
    [d \in Calls |-> IF d = c THEN p
                     ELSE IF at[d] = "queued" /\ \E l \in Lanes : holder'[l] = d
                     THEN "granted" ELSE at[d]]

Arrive(c) ==
    /\ at[c] = "idle"
    /\ lane' = [lane EXCEPT ![c] = dialogLatchMutex(c)]
    /\ acquire(c, dialogLatchMutex(c))
    /\ UNCHANGED <<kind, full, paceVars, browserVars>>

\* Variant: the guard is disposed of at the ceiling, before it has arrived.
ExpireReleasing(c) ==
    /\ at[c] = "queued"
    /\ release(lane[c])
    /\ at' = Moved(c, "gaveUp")
    /\ UNCHANGED <<kind, full, lane, paceVars, browserVars>>

\* MUTEX_WAIT_CEILING_MS is over: the call is answered, its place stays.
Expire(c) ==
    /\ at[c] = "queued"
    /\ at' = [at EXCEPT ![c] = "gaveUp"]
    /\ UNCHANGED <<kind, full, lane, holder, queue, paceVars, browserVars>>

\* Variant: the late guard is handed to nobody.
LateGuardLost(c) ==
    /\ at[c] = "gaveUp"
    /\ holder[lane[c]] = c
    /\ at' = [at EXCEPT ![c] = "done"]
    /\ UNCHANGED <<kind, full, lane, holder, queue, paceVars, browserVars>>

\* The guard that arrives after the ceiling is released as it arrives.
LateGuard(c) ==
    /\ at[c] = "gaveUp"
    /\ holder[lane[c]] = c
    /\ release(lane[c])
    /\ at' = Moved(c, "done")
    /\ UNCHANGED <<kind, full, lane, paceVars, browserVars>>

-----------------------------------------------------------------------------
(* Pace and gap *)

selectPace(c) ==
    /\ saved' = [saved EXCEPT ![c] = pace]
    /\ pace' = PaceOf(c)

\* Variant: only dialogs count as acting.
actsOnDialogs(c) == kind[c] = "dialog"

actsOnThePage(c) == kind[c] \in {"act", "dialog"}

\* The guard is there.  The pace is put in place, and a paced call that acts
\* has to hold what is left of the gap as it stands now.
Start(c) ==
    /\ at[c] = "granted"
    /\ selectPace(c)
    /\ at' = [at EXCEPT ![c] = IF actsOnThePage(c) /\ ~full[c] /\ recent
                               THEN "gap" ELSE "ensure"]
    /\ beside' = IF \E d \in Calls : Within(d)
                 THEN beside \cup {c} \cup {d \in Calls : Within(d)} ELSE beside
    /\ UNCHANGED <<kind, full, lane, holder, queue, recent, older, browserVars>>

\* The gap since the last navigation has passed.
GapPasses ==
    /\ recent
    /\ recent' = FALSE
    /\ UNCHANGED <<funnelVars, pace, saved, older, beside, browserVars>>

holdNavigationGap(c) ==
    /\ at[c] = "gap"
    /\ ~recent \/ c \in older
    /\ at' = [at EXCEPT ![c] = "ensure"]
    /\ older' = older \ {c}
    /\ UNCHANGED <<kind, full, lane, holder, queue, pace, saved, recent, beside, browserVars>>

-----------------------------------------------------------------------------
(* Browser and context *)

\* ensureBrowserConnected: a connection that stands is used, else one is made.
ensureBrowserConnected(c) ==
    /\ at[c] = "ensure"
    /\ \/ /\ browser \in up
          /\ got' = [got EXCEPT ![c] = browser]
          /\ at' = [at EXCEPT ![c] = "check"]
       \/ /\ browser \notin up
          /\ at' = [at EXCEPT ![c] = "connect"]
          /\ UNCHANGED got
    /\ UNCHANGED <<kind, full, lane, holder, queue, paceVars, browser, up, context, using,
                   disposed, drops>>

Connected(c) ==
    /\ at[c] = "connect"
    /\ browser' = c
    /\ up' = up \cup {c}
    /\ got' = [got EXCEPT ![c] = c]
    /\ at' = [at EXCEPT ![c] = "check"]
    /\ UNCHANGED <<kind, full, lane, holder, queue, paceVars, context, using, disposed, drops>>

\* Variant: any context will do.
CheckContextExists(c) ==
    /\ at[c] = "check"
    /\ \/ /\ context # None
          /\ using' = [using EXCEPT ![c] = context]
          /\ at' = [at EXCEPT ![c] = "work"]
       \/ /\ context = None
          /\ at' = [at EXCEPT ![c] = "build"]
          /\ UNCHANGED using
    /\ UNCHANGED <<kind, full, lane, holder, queue, paceVars, browser, up, context, got,
                   disposed, drops>>

\* Variant: the old context is disposed of without asking whether there is one.
CheckContextBlindly(c) ==
    /\ at[c] = "check"
    /\ disposed' = disposed \cup {context}
    /\ at' = [at EXCEPT ![c] = "build"]
    /\ UNCHANGED <<kind, full, lane, holder, queue, paceVars, browser, up, context, got,
                   using, drops>>

\* getContext after the connection: a context of another browser is disposed of
\* and one is built for this browser.
CheckContext(c) ==
    /\ at[c] = "check"
    /\ \/ /\ context # None /\ got[context] = got[c]
          /\ using' = [using EXCEPT ![c] = context]
          /\ at' = [at EXCEPT ![c] = "work"]
          /\ UNCHANGED disposed
       \/ /\ context # None => got[context] # got[c]
          /\ disposed' = disposed \cup ({context} \ {None})
          /\ at' = [at EXCEPT ![c] = "build"]
          /\ UNCHANGED using
    /\ UNCHANGED <<kind, full, lane, holder, queue, paceVars, browser, up, context, got, drops>>

Built(c) ==
    /\ at[c] = "build"
    /\ context' = c
    /\ at' = [at EXCEPT ![c] = "roots"]
    /\ UNCHANGED <<kind, full, lane, holder, queue, paceVars, browser, up, got, using,
                   disposed, drops>>

\* `await updateRoots(); return context` -- whichever context that is by now.
ReturnContext(c) ==
    /\ at[c] = "roots"
    /\ using' = [using EXCEPT ![c] = context]
    /\ at' = [at EXCEPT ![c] = "work"]
    /\ UNCHANGED <<kind, full, lane, holder, queue, paceVars, browser, up, context, got,
                   disposed, drops>>

LinkDrops ==
    /\ drops < MaxDrops
    /\ drops' = drops + 1
    /\ \E b \in up : up' = up \ {b}
    /\ UNCHANGED <<funnelVars, paceVars, browser, context, got, using, disposed>>

-----------------------------------------------------------------------------
(* The end of a call: `finally`, and the guard's disposal *)

\* Variant: the pace is not put back.
FinishAtItsPace(c, navigated) ==
    /\ recent' = (recent \/ navigated)
    /\ older' = IF navigated THEN older \cup {d \in Calls : at[d] = "gap"} ELSE older
    /\ release(lane[c])
    /\ at' = Moved(c, "done")
    /\ UNCHANGED <<kind, full, lane, pace, saved, beside, browserVars>>

Finish(c, navigated) ==
    /\ recent' = (recent \/ navigated)
    /\ older' = IF navigated THEN older \cup {d \in Calls : at[d] = "gap"} ELSE older
    /\ pace' = saved[c]
    /\ release(lane[c])
    /\ at' = Moved(c, "done")
    /\ UNCHANGED <<kind, full, lane, saved, beside, browserVars>>

\* The tool has run; only one that acts on the page reports a navigation.
Done(c) ==
    /\ at[c] = "work"
    /\ \E navigated \in BOOLEAN : (navigated => kind[c] = "act") /\ Finish(c, navigated)

\* No connection, or no context on it: the call fails and navigates nothing.
Fail(c) ==
    /\ at[c] \in {"connect", "build"}
    /\ Finish(c, FALSE)

\* Every call is over; the process waits for more than the model has.
AllDone == (\A c \in Calls : at[c] = "done") /\ UNCHANGED vars

Move(c) ==
    \/ LateGuard(c) \/ Start(c) \/ holdNavigationGap(c) \/ ensureBrowserConnected(c)
    \/ Connected(c) \/ CheckContext(c) \/ Built(c) \/ ReturnContext(c) \/ Done(c) \/ Fail(c)

Next ==
    \/ \E c \in Calls : Refuse(c) \/ Arrive(c) \/ Expire(c) \/ Move(c)
    \/ GapPasses \/ LinkDrops \/ AllDone

Spec == Init /\ [][Next]_vars

\* Every await of the funnel settles: connections and contexts are made or fail,
\* a tool ends at the latest at its deadlines, the gap passes.  No call has to
\* arrive, and none has to give up.
Fairness == WF_vars(GapPasses) /\ \A c \in Calls : WF_vars(Move(c))

FairSpec == Spec /\ Fairness

-----------------------------------------------------------------------------
(* Properties *)

\* Two calls never drive the page at the same time: each mutex lets one call
\* in, also when guards arrive after their calls gave up (ToolHandler.ts:380).
OneToolAtATime ==
    \A c, d \in Calls : Within(c) /\ Within(d) /\ lane[c] = lane[d] => c = d

\* The profile a call runs at is the one it asked for, and none is left standing
\* behind it, as long as no dialog call has been in the funnel beside another
\* call (ToolHandler.ts:396, pacing.ts:365).
PaceIsItsOwn ==
    /\ \A c \in Calls : Within(c) /\ c \notin beside => pace = PaceOf(c)
    /\ beside = {} /\ (\A c \in Calls : ~Within(c)) => pace = "human"

\* A paced call that acts on the page never does so within the gap after a
\* navigation, whichever call navigated and however long the two queued
\* (ToolHandler.ts:413, holdNavigationGap).
GapIsHeld ==
    \A c \in Calls : at[c] \in Inside \ {"gap"} /\ kind[c] = "act" /\ ~full[c] => ~recent

Building(c) == at[c] \in {"connect", "build"}

\* While the connection lasts, the one browser and its context are built by one
\* call at a time, although two may be in the funnel (ToolHandler.ts:238).
BuildsAlone ==
    drops = 0 => \A c, d \in Calls : Building(c) /\ Building(d) => c = d

\* A tool works with the context that is in place, built on the connection in
\* use and not disposed of, also across a reconnect, as long as no two calls have
\* been in the funnel together (getContext, index.ts:150).  A race of two leaves
\* traces: the one that lost may dispose of the context the other has built.
ContextIsTheBrowsers ==
    beside = {} => \A c \in Calls : at[c] = "work" =>
        /\ using[c] = context
        /\ context \notin disposed
        /\ got[context] = browser

\* A call that came in goes out, and its place in the queue with it, also when
\* it gave up before its turn: no guard is lost (acquireWithinCeiling).
EveryPlaceIsCleared ==
    \A c \in Calls : at[c] # "idle" ~> at[c] = "done"

-----------------------------------------------------------------------------
(* The funnel implements a turnstile per mutex *)

\* A granted call has not gone in yet; places given up are no one's.
Waits(c) == at[c] \in {"queued", "granted"}

\* The one that is granted comes first, the others in the order of the queue.
ComesBefore(c, d) ==
    /\ Waits(c) /\ at[d] = "queued" /\ lane[c] = lane[d]
    /\ \/ at[c] = "granted"
       \/ \E i, j \in DOMAIN queue[lane[c]] :
              i < j /\ queue[lane[c]][i] = c /\ queue[lane[c]][j] = d

Waiting == [l \in Lanes |-> {c \in Calls : Waits(c) /\ lane[c] = l}]
Ahead == {p \in Calls \X Calls : ComesBefore(p[1], p[2])}
LetIn == [l \in Lanes |-> IF holder[l] # None /\ Within(holder[l]) THEN holder[l] ELSE None]

Gate == INSTANCE Turnstile WITH waiting <- Waiting, ahead <- Ahead, inside <- LetIn

\* Calls go in one by one, in the order they came, and those that gave up are
\* passed over (acquireWithinCeiling, ToolHandler.ts:251).
GateSpec == Gate!Spec
=============================================================================
