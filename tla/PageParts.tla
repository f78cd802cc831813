----------------------------- MODULE PageParts ------------------------------
(***************************************************************************)
(* The parts of the browser's pages: their list, their contexts, workers,   *)
(* captures, emulation, and what is collected of them.                     *)
(***************************************************************************)
EXTENDS Integers, FiniteSets, PartVariables

CONSTANTS
    Pages, Runners, Tool, MaxId,                     \* PageList
    ContextPages, CallerNames, Default, MaxContexts, \* IsolatedContexts
    Workers,                                         \* WorkerLogs
    CapturedPages,                                   \* Captures
    Boxes, Bounds, Unbounded,                        \* Screenshots
    Issues, Kind, MaxNavigations, MaxResources, MaxDocuments,
    MaxRequests, MaxMessages                         \* Collectors

ASSUME PagesAreFinite == IsFiniteSet(Pages) /\ None \notin Pages
ASSUME IdsAreNumbers == MaxId \in Nat
ASSUME ToolRuns == Tool \in Runners
ASSUME CapturesArePages == None \notin CapturedPages
\* A bound that is set is at least one pixel.
ASSUME BoxesAreBoxes ==
    /\ Boxes \subseteq [width : Nat, height : Nat]
    /\ Bounds \subseteq [width : (Nat \ {0}) \cup {Unbounded},
                        height : (Nat \ {0}) \cup {Unbounded}]
\* At least one navigation is kept, and no kind of issue is told apart by "none".
ASSUME NavigationsAreKept ==
    /\ MaxNavigations \in Nat \ {0} /\ MaxResources \in Nat /\ MaxDocuments \in Nat \ {0}
    /\ \A key \in Issues : Kind[key] # "none"
\* A name a caller gives is none of the generated ones, and no context's number.
ASSUME ContextsAreNumbers ==
    /\ MaxContexts \in Nat /\ CallerNames \cap (0 .. MaxContexts) = {}
    /\ None \notin (0 .. MaxContexts) \cup CallerNames \cup ContextPages
    /\ Default \notin (0 .. MaxContexts + 1) \cup {None}

-----------------------------------------------------------------------------
(* What the variables stand for.  A name two parts have in common stands    *)
(* under the first of them.                                                *)

\* The list of pages.
live == v1
closed == v2
announced == v3
mcpPages == v4
nextPageId == v5
pageOf == v6
target == v12
firstId == v13
lapsed == v14
swapped == v15
beside == v16

\* Browser contexts.
contexts == v1
open == v2
pageIn == v3
isolatedContexts == v5
nextIsolatedContextId == v6
label == v7
opening == v8
name == v9

\* The consoles of service workers.
alive == v1
listening == v2
under == v4
subscribers == v6
leaving == v7
doubled == v8
late == v9

\* Traces and screencasts.
page == v1
traceRunning == v3
traced == v4
blanked == v5
stored == v6
outlived == v7
gone == v8
recorder == v9
guard == v10
patches == v11

\* Emulation.
applied == v1
settings == v2
timeouts == v3
blocked == v5

\* Taking a picture.
window == v1
front == v2
found == v3
clip == v4
limits == v6
captured == v7
lost == v8

\* The collectors of a page.
loading == v2
documents == v3
request == v5
network == v6
message == v7
console == v8
seenKeys == v9
seenIssues == v10
reported == v11

-----------------------------------------------------------------------------
PL == INSTANCE PageList
IC == INSTANCE IsolatedContexts WITH Pages <- ContextPages
WL == INSTANCE WorkerLogs
CA == INSTANCE Captures WITH Pages <- CapturedPages
EM == INSTANCE Emulation
SC == INSTANCE Screenshots
CO == INSTANCE Collectors

\* The variables a part has no use for.
ICrest == <<v10, v11, v12, v13, v14, v15, v16>>
WLrest == <<v10, v11, v12, v13, v14, v15, v16>>
CArest == <<v12, v13, v14, v15, v16>>
EMrest == <<v6, v7, v8, v9, v10, v11, v12, v13, v14, v15, v16>>
SCrest == <<v5, v11, v12, v13, v14, v15, v16>>
COrest == <<v12, v13, v14, v15, v16>>

PageInit ==
    \/ part = "pages" /\ PL!Init
    \/ part = "contexts" /\ IC!Init
       /\ v10 = 0 /\ v11 = 0 /\ v12 = 0 /\ v13 = 0 /\ v14 = 0 /\ v15 = 0 /\ v16 = 0
    \/ part = "workers" /\ WL!Init
       /\ v10 = 0 /\ v11 = 0 /\ v12 = 0 /\ v13 = 0 /\ v14 = 0 /\ v15 = 0 /\ v16 = 0
    \/ part = "captures" /\ CA!Init
       /\ v12 = 0 /\ v13 = 0 /\ v14 = 0 /\ v15 = 0 /\ v16 = 0
    \/ part = "emulation" /\ EM!Init
       /\ v6 = 0 /\ v7 = 0 /\ v8 = 0 /\ v9 = 0 /\ v10 = 0 /\ v11 = 0
       /\ v12 = 0 /\ v13 = 0 /\ v14 = 0 /\ v15 = 0 /\ v16 = 0
    \/ part = "screenshots" /\ SC!Init
       /\ v5 = 0 /\ v11 = 0 /\ v12 = 0 /\ v13 = 0 /\ v14 = 0 /\ v15 = 0 /\ v16 = 0
    \/ part \in {"requests", "messages"} /\ CO!Init
       /\ v12 = 0 /\ v13 = 0 /\ v14 = 0 /\ v15 = 0 /\ v16 = 0

PageNext ==
    \/ part = "pages" /\ PL!Next /\ UNCHANGED part
    \/ part = "contexts" /\ IC!Next /\ UNCHANGED <<part, ICrest>>
    \/ part = "workers" /\ WL!Next /\ UNCHANGED <<part, WLrest>>
    \/ part = "captures" /\ CA!Next /\ UNCHANGED <<part, CArest>>
    \/ part = "emulation" /\ EM!Next /\ UNCHANGED <<part, EMrest>>
    \/ part = "screenshots" /\ SC!Next /\ UNCHANGED <<part, SCrest>>
    \/ part = "requests" /\ CO!Next /\ message' = message /\ UNCHANGED <<part, COrest>>
    \/ part = "messages" /\ CO!Next /\ request' = request /\ UNCHANGED <<part, COrest>>

PageSpec == PageInit /\ [][PageNext]_vars

-----------------------------------------------------------------------------
PageTypeOK ==
    /\ part = "pages" => PL!TypeOK
    /\ part = "contexts" => IC!TypeOK
    /\ part = "workers" => WL!TypeOK
    /\ part = "captures" => CA!TypeOK
    /\ part = "emulation" => EM!TypeOK
    /\ part = "screenshots" => SC!TypeOK
    /\ part \in {"requests", "messages"} => CO!TypeOK

\* A page is heard by the one McpPage that is listed for it, under an id that keeps
\* naming it, a selection that moved is told of (McpContext's #mcpPages); pages
\* share a browser context just where their labels say so (#isolatedContexts); and
\* a worker is heard once (ServiceWorkerCollector).
PageListIsKept ==
    /\ part = "pages" =>
            PL!ListenersAreOfListedPages /\ PL!IdsResolve /\ PL!FallbackIsTold
    /\ part = "contexts" => IC!NameIsOneContext /\ IC!LabelsAreOfContexts
    /\ part = "workers" => WL!WorkersAreHeardOnce

\* Whichever step of a tool has failed, the browser does what the context says: its
\* flags of a trace, a recording and an emulation are the browser's and the
\* process's, and take_screenshot leaves the window as it was and keeps to its bounds.
BrowserIsLeftAsAsked ==
    /\ part = "captures" => CA!TraceFlagIsTheTrace /\ CA!GuardIsTheRecordings
    /\ part = "emulation" => EM!SettingsAreApplied
    /\ part = "screenshots" => SC!WindowIsPutBack /\ SC!BoundsAreRespected

\* What the browser tells of a page is collected once, found by its id and shown
\* under the document it is of (PageCollector).
WhatIsToldIsCollected ==
    part \in {"requests", "messages"} =>
        CO!CurrentRequestsAreShown /\ CO!IdFindsOne /\ CO!IssuesOfTheNavigation
=============================================================================
