----------------------------- MODULE Collectors -----------------------------
(***************************************************************************)
(* The collectors of one page (src/PageCollector.ts): what the browser     *)
(* tells of requests, console messages and issues is kept in one list per  *)
(* navigation of the main frame, the current one first, and found again by *)
(* the id it was given.  Requests and messages are numbered as they are    *)
(* collected; the number is the id.                                        *)
(***************************************************************************)
EXTENDS Integers, Sequences, SequencesExt

CONSTANTS
    Issues,        \* primary keys an issue can have
    Kind,          \* what DevTools aggregates them by
    MaxNavigations,\* maxNavigationSaved
    MaxResources,  \* maxRequestsPerNavigation
    MaxRequests, MaxMessages, MaxDocuments  \* bounds of the model

VARIABLES
    document,   \* the document in the main frame
    loading,    \* the document a navigation has asked for, 0 when there is none
    documents,  \* how many there have been
    strayed,    \* history: it has navigated within itself since another was asked for
    request,    \* per request collected the document it is of, and whether it
                \* asks for that document
    network,    \* the network collector's storage
    message,    \* per console item what it is: a kind of issue, or Plain
    console,    \* the console collector's storage
    seenKeys, seenIssues,   \* #seenKeys, #seenIssues
    reported    \* history: kinds of issues reported since the last navigation

networkVars == <<network, request>>
consoleVars == <<console, message, seenKeys, seenIssues, reported>>
collectorVars == <<document, loading, documents, strayed, networkVars, consoleVars>>

Plain == "none"

Retained(storage) == UNION {ToSet(storage[n]) : n \in DOMAIN storage}

----------------------------------------------------------------------------
Newest(list, most) ==
    SubSeq(list, 1 + (IF Len(list) > most THEN Len(list) - most ELSE 0), Len(list))

\* The collector handed to the listeners.
collect(storage, id) == [storage EXCEPT ![1] = Append(@, id)]

\* The oldest of a navigation make way when there is a bound.
collectBounded(storage, id) == [storage EXCEPT ![1] = Newest(Append(@, id), MaxResources)]

\* Defect for mutation: no navigation is ever let go.
SavedAll(storage) == storage
Saved(storage) ==
    SubSeq(storage, 1, IF Len(storage) > MaxNavigations THEN MaxNavigations ELSE Len(storage))

\* A navigation starts a list of its own, and the oldest is let go.
splitAfterNavigation(storage) == Saved(<<<<>>>> \o storage)

\* Defect for mutation: the requests stay where they were collected.
networkSplitPlain(storage) == splitAfterNavigation(storage)

\* Requests from the last request of the main frame for a document on go with it.
networkSplit(storage) ==
    LET collected == storage[1]
        last == SelectLastInSeq(collected, LAMBDA id : request[id].navigates)
    IN  IF last = 0 THEN splitAfterNavigation(storage)
        ELSE Saved(<<SubSeq(collected, last, Len(collected)), SubSeq(collected, 1, last - 1)>>
                     \o Tail(storage))

\* getData with what is preserved runs through the navigations from the oldest to the
\* newest: what comes before what, the i-th of one navigation and the j-th of another.
getDataShows(m, i, n, j) == m > n \/ (m = n /\ i < j)

----------------------------------------------------------------------------
Init ==
    /\ document = 1 /\ loading = 0 /\ documents = 1 /\ strayed = FALSE
    /\ request = <<>> /\ network = <<<<>>>>
    /\ message = <<>> /\ console = <<<<>>>>
    /\ seenKeys = {} /\ seenIssues = {} /\ reported = {}

Collects(of, navigates) ==
    /\ Len(request) < MaxRequests
    /\ request' = Append(request, [of |-> of, navigates |-> navigates])
    /\ network' = collectBounded(network, Len(request) + 1)

\* The page, or the next one before it is there, asks for something.
Requests(of) ==
    /\ of \in {document, loading} \ {0}
    /\ Collects(of, FALSE)
    /\ UNCHANGED <<document, loading, documents, strayed, consoleVars>>

\* The main frame asks for a document; another navigation is given up by that.
NavigationRequested ==
    /\ documents < MaxDocuments
    /\ documents' = documents + 1 /\ loading' = documents + 1
    /\ Collects(documents + 1, TRUE)
    /\ UNCHANGED <<document, strayed, consoleVars>>

\* The answer sends it elsewhere: the same navigation asks again.
Redirected ==
    /\ loading # 0
    /\ Collects(loading, TRUE)
    /\ UNCHANGED <<document, loading, documents, strayed, consoleVars>>

\* A download, an empty answer, an error before there is a document.
NavigationFails ==
    /\ loading # 0 /\ loading' = 0
    /\ UNCHANGED <<document, documents, strayed, networkVars, consoleVars>>

\* framenavigated of the main frame: the collectors split, the issues start anew.
onFrameNavigated ==
    /\ network' = networkSplit(network)
    /\ console' = splitAfterNavigation(console)
    /\ seenKeys' = {} /\ seenIssues' = {} /\ reported' = {}
    /\ UNCHANGED <<request, message>>

\* The document that was asked for is there.
Navigated ==
    /\ loading # 0
    /\ document' = loading /\ loading' = 0 /\ strayed' = FALSE
    /\ onFrameNavigated
    /\ UNCHANGED documents

\* A document that takes no request: a blank one, one out of the cache.
NavigatedWithoutRequest ==
    /\ documents < MaxDocuments
    /\ documents' = documents + 1 /\ document' = documents + 1 /\ loading' = 0
    /\ strayed' = FALSE
    /\ onFrameNavigated

\* Where the last request for the document that is there stands, 0 when it took none.
Origin == SelectLastInSeq(request, LAMBDA r : r.navigates /\ r.of = document)

\* A navigation within the document.
NavigatedWithin ==
    /\ onFrameNavigated
    /\ strayed' = (strayed \/ SelectLastInSeq(request, LAMBDA r : r.navigates) # Origin)
    /\ UNCHANGED <<document, loading, documents>>

Logs(what) ==
    /\ message' = Append(message, what)
    /\ console' = collect(console, Len(message) + 1)

\* A console message, a page error, an uncaught error.
Logged ==
    /\ Len(message) < MaxMessages
    /\ Logs(Plain)
    /\ UNCHANGED <<document, loading, documents, strayed, networkVars, seenKeys, seenIssues, reported>>

\* #onIssueAdded, and #onAggregatedIssue for what the aggregator makes of it.
onIssueAdded(key) ==
    /\ Len(message) < MaxMessages
    /\ key \notin seenKeys /\ seenKeys' = seenKeys \cup {key}
    /\ reported' = reported \cup {Kind[key]}
    /\ IF Kind[key] \in seenIssues
       THEN UNCHANGED <<message, console, seenIssues>>
       ELSE /\ seenIssues' = seenIssues \cup {Kind[key]}
            /\ Logs(Kind[key])
    /\ UNCHANGED <<document, loading, documents, strayed, networkVars>>

\* The same issue again.
onIssueSeen(key) ==
    /\ key \in seenKeys
    /\ reported' = reported \cup {Kind[key]}
    /\ UNCHANGED <<document, loading, documents, strayed, networkVars, message, console,
                   seenKeys, seenIssues>>

Next ==
    \/ \E of \in 1 .. MaxDocuments : Requests(of)
    \/ NavigationRequested \/ Redirected \/ NavigationFails
    \/ Navigated \/ NavigatedWithoutRequest \/ NavigatedWithin
    \/ Logged
    \/ \E key \in Issues : onIssueAdded(key) \/ onIssueSeen(key)

Spec == Init /\ [][Next]_collectorVars

----------------------------------------------------------------------------
TypeOK ==
    /\ document \in 1 .. MaxDocuments /\ loading \in 0 .. MaxDocuments
    /\ documents \in 1 .. MaxDocuments
    /\ strayed \in BOOLEAN
    /\ request \in Seq([of : 1 .. MaxDocuments, navigates : BOOLEAN])
    /\ Len(network) \in 1 .. MaxNavigations /\ Len(console) \in 1 .. MaxNavigations
    /\ Retained(network) \subseteq DOMAIN request
    /\ Retained(console) \subseteq DOMAIN message
    /\ seenKeys \subseteq Issues /\ reported \subseteq {Kind[k] : k \in Issues}

\* list_network_requests shows every request of the document that is there, from
\* the one that asked for it on, however many navigations were begun, redirected
\* or given up and however often the document has navigated within itself - as
\* long as that first one has not made way to MAX_REQUESTS_PER_NAVIGATION others
\* and the document has not navigated within itself after another was asked for.
CurrentRequestsAreShown ==
    Origin \in Retained(network) /\ ~strayed =>
        \A id \in Origin .. Len(request) :
            request[id].of = document => id \in ToSet(network[1])

\* What is listed with what was preserved runs from the oldest to the newest, each
\* once: an id handed out finds one request or message, as long as it is kept.
IdFindsOne ==
    \A storage \in {network, console} :
        \A m, n \in DOMAIN storage : \A i \in DOMAIN storage[m], j \in DOMAIN storage[n] :
            getDataShows(m, i, n, j) => storage[m][i] < storage[n][j]

\* list_console_messages shows each kind of issue once that was reported since the
\* last navigation, also one the document before had.
IssuesOfTheNavigation ==
    LET shown == {i \in DOMAIN console[1] : message[console[1][i]] # Plain}
    IN  /\ {message[console[1][i]] : i \in shown} = reported
        /\ \A i, j \in shown :
               message[console[1][i]] = message[console[1][j]] => i = j
=============================================================================
