------------------------------ MODULE PageList ------------------------------
(***************************************************************************)
(* The pages of a context (src/McpContext.ts): the map from the browser's  *)
(* pages to McpPage objects, the selection, and the snapshots every answer *)
(* with a list of pages takes.  A snapshot is three turns of the event     *)
(* loop - the browser is asked, new pages are entered and initialised,     *)
(* pages that are gone are pruned - and a tool takes one under the mutex   *)
(* while handle_dialog takes one beside it; pages open and close meanwhile.*)
(***************************************************************************)
EXTENDS Integers, FiniteSets, FiniteSetsExt

CONSTANTS
    Pages,    \* pages a browser may have
    Runners,  \* what takes snapshots: the tool under the mutex, handle_dialog
    Tool,     \* the first of them
    None,
    MaxId     \* bound on page ids

VARIABLES
    live,       \* pages that are open
    closed,     \* pages that were, pptrPage.isClosed()
    announced,  \* pages whose targetcreated is being handled
    mcpPages,   \* #mcpPages: per page the id of its McpPage, 0 when it has none
    nextPageId,
    pageOf,     \* per id handed out the page of that McpPage
    attached,   \* McpPages whose listeners are on
    selected,   \* #selectedPage, 0 when there is none
    fallback,   \* #selectedPageFallback
    at, list, target,  \* per runner: its place, the pages the browser named, the
                       \* McpPage new_page or close_page is about, else 0
    firstId,    \* history: the first id of this browser
    lapsed,     \* history: pages whose McpPage was disposed of while they were open
    swapped,    \* history: a snapshot replaced the selection, and nobody told of it
    beside      \* history: another tool has run beside the one that is running

browserVars == <<live, closed>>
contextVars == <<mcpPages, nextPageId, pageOf, attached>>
runnerVars == <<at, list, target>>
pageListVars == <<browserVars, announced, contextVars, selected, fallback,
                  runnerVars, firstId, lapsed, swapped, beside>>

Ids == 1 .. MaxId

Listed == {mcpPages[p] : p \in Pages} \ {0}

isClosed(i) == pageOf[i] \in closed

Busy(r) == at[r] \in {"fetch", "init", "answer"}

----------------------------------------------------------------------------
\* Defect for mutation: the lookup in front of a new McpPage is left out.
createMcpPagesAnew(pages) ==
    LET last == nextPageId + Cardinality(pages) - 1
    IN  /\ last <= MaxId
        /\ \E id \in [pages -> nextPageId .. last] :
              /\ \A p, q \in pages : id[p] = id[q] => p = q
              /\ mcpPages' = [p \in Pages |-> IF p \in pages THEN id[p] ELSE mcpPages[p]]
              /\ pageOf' = [i \in Ids |-> IF \E p \in pages : id[p] = i
                                          THEN CHOOSE p \in pages : id[p] = i
                                          ELSE pageOf[i]]
              /\ attached' = attached \cup {id[p] : p \in pages}
        /\ nextPageId' = last + 1

\* Enters those of the pages that have no McpPage yet, in any order.
createMcpPages(pages) ==
    LET new == {p \in pages : mcpPages[p] = 0}
        last == nextPageId + Cardinality(new) - 1
    IN  /\ last <= MaxId
        /\ \E id \in [new -> nextPageId .. last] :
              /\ \A p, q \in new : id[p] = id[q] => p = q
              /\ mcpPages' = [p \in Pages |-> IF p \in new THEN id[p] ELSE mcpPages[p]]
              /\ pageOf' = [i \in Ids |-> IF \E p \in new : id[p] = i
                                          THEN CHOOSE p \in new : id[p] = i
                                          ELSE pageOf[i]]
              /\ attached' = attached \cup {id[p] : p \in new}
        /\ nextPageId' = last + 1

\* Disposes of the McpPages of these pages and takes them out of the map.
drop(pages) ==
    /\ mcpPages' = [p \in Pages |-> IF p \in pages THEN 0 ELSE mcpPages[p]]
    /\ attached' = attached \ {mcpPages[p] : p \in pages}
    /\ UNCHANGED <<nextPageId, pageOf>>

----------------------------------------------------------------------------
\* A context with nothing entered yet, about to take its first snapshot.
Init ==
    /\ live \in SUBSET Pages /\ live # {} /\ closed = {} /\ announced = {}
    /\ mcpPages = [p \in Pages |-> 0] /\ nextPageId = 1
    /\ pageOf = [i \in Ids |-> None] /\ attached = {}
    /\ selected = 0 /\ fallback = FALSE
    /\ at = [r \in Runners |-> IF r = Tool THEN "fetch" ELSE "idle"]
    /\ list = [r \in Runners |-> {}]
    /\ target = [r \in Runners |-> 0]
    /\ firstId = 1 /\ lapsed = {} /\ swapped = FALSE /\ beside = FALSE

(***************************************************************************)
(* The browser.                                                            *)
(***************************************************************************)
\* A page opens, by a script or by hand, and is announced.
PageOpens(p) ==
    /\ p \notin live \cup closed
    /\ live' = live \cup {p} /\ announced' = announced \cup {p}
    /\ UNCHANGED <<closed, contextVars, selected, fallback, runnerVars, firstId, lapsed, swapped, beside>>

\* #onTargetCreated: the page of the target is there, and is entered.
onTargetCreated(p) ==
    /\ p \in announced
    /\ announced' = announced \ {p}
    /\ createMcpPages({p})
    /\ UNCHANGED <<browserVars, selected, fallback, runnerVars, firstId, lapsed,
                   swapped, beside>>

\* The target closed before its page was there.
TargetHasNoPage(p) ==
    /\ p \in announced \cap closed
    /\ announced' = announced \ {p}
    /\ UNCHANGED <<browserVars, contextVars, selected, fallback, runnerVars, firstId, lapsed, swapped, beside>>

\* A page closes: #onTargetDestroyed.
PageCloses(p) ==
    /\ p \in live
    /\ live' = live \ {p} /\ closed' = closed \cup {p}
    /\ drop({p})
    /\ UNCHANGED <<announced, selected, fallback, runnerVars, firstId, lapsed,
                   swapped, beside>>

(***************************************************************************)
(* A snapshot.                                                             *)
(***************************************************************************)
\* browser.pages() returns; a page that is open may be missing from it.  What is
\* new is entered in the same turn.
Fetched(r, pages) ==
    /\ at[r] = "fetch"
    /\ pages \subseteq live /\ Cardinality(live \ pages) <= 1
    /\ createMcpPages(pages)
    /\ list' = [list EXCEPT ![r] = pages]
    /\ at' = [at EXCEPT ![r] = "init"]
    /\ UNCHANGED <<browserVars, announced, selected, fallback, target, firstId, lapsed, swapped, beside>>

\* The page of the map that has stood in it for longest.
firstOf(entries) == Min({entries[p] : p \in Pages} \ {0})

\* Every page is initialised: what the browser did not name is pruned, and a
\* selection that is closed falls back to the first page.
Pruned(r) ==
    /\ at[r] = "init"
    /\ drop(Pages \ list[r])
    /\ lapsed' = lapsed \cup {p \in live \ list[r] : mcpPages[p] # 0}
    /\ LET lost == selected = 0 \/ isClosed(selected)
           falls == lost /\ \E p \in Pages : mcpPages'[p] # 0
       IN  /\ selected' = IF falls THEN firstOf(mcpPages') ELSE selected
           /\ fallback' = (falls /\ selected # 0)
           /\ swapped' = (swapped \/ (falls /\ selected # 0))
    /\ at' = [at EXCEPT ![r] = IF target[r] # 0 THEN "select" ELSE "answer"]
    /\ UNCHANGED <<browserVars, announced, list, target, firstId, beside>>

\* The answer is written: the list of pages, and that the selection fell back.
Answered(r) ==
    /\ at[r] = "answer"
    /\ at' = [at EXCEPT ![r] = "idle"]
    /\ list' = [list EXCEPT ![r] = {}]
    /\ swapped' = (swapped /\ ~fallback /\ ~beside)
    /\ beside' = (beside /\ \E q \in Runners \ {r} : at[q] # "idle")
    /\ UNCHANGED <<browserVars, announced, contextVars, selected, fallback, target,
                   firstId, lapsed>>

(***************************************************************************)
(* The tools.                                                              *)
(***************************************************************************)
Starts(r) == beside' = (beside \/ \E q \in Runners \ {r} : at[q] # "idle")

\* list_pages, handle_dialog and every tool whose answer lists the pages.
listPages(r) ==
    /\ at[r] = "idle" /\ Starts(r)
    /\ at' = [at EXCEPT ![r] = "fetch"]
    /\ UNCHANGED <<browserVars, announced, contextVars, selected, fallback, list,
                   target, firstId, lapsed, swapped>>

\* select_page: what was chosen by its id needs no word of a fallback.
selectPage(i) ==
    /\ at[Tool] = "idle" /\ i \in Listed /\ Starts(Tool)
    /\ selected' = i /\ swapped' = FALSE
    /\ at' = [at EXCEPT ![Tool] = "fetch"]
    /\ UNCHANGED <<browserVars, announced, contextVars, fallback, list, target,
                   firstId, lapsed>>

\* new_page: the browser has the page, and so has the map ...
newPage(p) ==
    /\ at[Tool] = "idle" /\ p \notin live \cup closed /\ Starts(Tool)
    /\ live' = live \cup {p} /\ announced' = announced \cup {p}
    /\ createMcpPages({p})
    /\ target' = [target EXCEPT ![Tool] = mcpPages'[p]]
    /\ at' = [at EXCEPT ![Tool] = "fetch"]
    /\ UNCHANGED <<closed, selected, fallback, list, firstId, lapsed, swapped>>

\* ... and behind its snapshot it is selected; another one precedes the answer.
newPageSelected ==
    /\ at[Tool] = "select"
    /\ selected' = target[Tool] /\ swapped' = FALSE
    /\ at' = [at EXCEPT ![Tool] = "fetch"]
    /\ target' = [target EXCEPT ![Tool] = 0]
    /\ UNCHANGED <<browserVars, announced, contextVars, fallback, list, firstId, lapsed, beside>>

\* close_page: the last page of the map is kept; the McpPage goes first ...
closePage(p) ==
    /\ at[Tool] = "idle" /\ mcpPages[p] # 0 /\ Cardinality(Listed) > 1
    /\ Starts(Tool)
    /\ drop({p}) /\ lapsed' = lapsed \cup {p}
    /\ target' = [target EXCEPT ![Tool] = mcpPages[p]]
    /\ at' = [at EXCEPT ![Tool] = "closing"]
    /\ UNCHANGED <<browserVars, announced, selected, fallback, list, firstId,
                   swapped>>

\* ... and then the page, unless it is closed by now or will not close.
pageClosed(done) ==
    /\ at[Tool] = "closing"
    /\ LET p == pageOf[target[Tool]] IN
       /\ ~done => p \in live
       /\ live' = IF done THEN live \ {p} ELSE live
       /\ closed' = IF done THEN closed \cup {p} ELSE closed
       /\ IF done THEN drop({p}) ELSE UNCHANGED contextVars
    /\ at' = [at EXCEPT ![Tool] = "fetch"] /\ target' = [target EXCEPT ![Tool] = 0]
    /\ UNCHANGED <<announced, selected, fallback, list, firstId, lapsed,
                   swapped, beside>>

\* The connection is lost and another one made while nothing is under way: the
\* context is disposed of and another built on the pages of that browser.  The
\* ids go on.
Reconnect ==
    /\ \A r \in Runners : at[r] = "idle"
    /\ announced = {}
    /\ live' \in SUBSET Pages /\ live' # {} /\ closed' = {}
    /\ mcpPages' = [p \in Pages |-> 0] /\ attached' = {}
    /\ selected' = 0 /\ fallback' = FALSE
    /\ at' = [at EXCEPT ![Tool] = "fetch"]
    /\ firstId' = nextPageId /\ pageOf' = [i \in Ids |-> None]
    /\ lapsed' = {} /\ swapped' = FALSE /\ beside' = FALSE
    /\ UNCHANGED <<announced, nextPageId, list, target>>

Browser ==
    \E p \in Pages :
        PageOpens(p) \/ onTargetCreated(p) \/ TargetHasNoPage(p) \/ PageCloses(p)

Snapshot ==
    \E r \in Runners :
        \/ \E pages \in SUBSET Pages : Fetched(r, pages)
        \/ Pruned(r) \/ Answered(r) \/ listPages(r)

Tools ==
    \/ \E i \in Ids : selectPage(i)
    \/ \E p \in Pages : newPage(p) \/ closePage(p)
    \/ newPageSelected
    \/ \E done \in BOOLEAN : pageClosed(done)
    \/ Reconnect

Next == Browser \/ Snapshot \/ Tools

Spec == Init /\ [][Next]_pageListVars

----------------------------------------------------------------------------
TypeOK ==
    /\ live \subseteq Pages /\ closed \subseteq Pages /\ announced \subseteq Pages
    /\ live \cap closed = {}
    /\ mcpPages \in [Pages -> 0 .. MaxId] /\ nextPageId \in 1 .. MaxId + 1
    /\ pageOf \in [Ids -> Pages \cup {None}] /\ attached \subseteq Ids
    /\ selected \in 0 .. MaxId /\ fallback \in BOOLEAN
    /\ at \in [Runners -> {"idle", "fetch", "init", "select", "closing", "answer"}]
    /\ list \in [Runners -> SUBSET Pages]
    /\ target \in [Runners -> 0 .. MaxId]
    /\ firstId \in 1 .. MaxId + 1 /\ lapsed \subseteq Pages
    /\ swapped \in BOOLEAN /\ beside \in BOOLEAN

\* The McpPages that hear the browser are those of the map, one for each page:
\* a dialog, a request or a message is neither missed nor taken down twice.
ListenersAreOfListedPages ==
    /\ attached = Listed
    /\ \A p \in Pages : mcpPages[p] # 0 => pageOf[mcpPages[p]] = p

\* An id goes on naming its page for as long as that is open,
\* however often and by whomever the list is taken, unless a snapshot that had
\* not seen the page disposed of its McpPage; and the id of a page of a browser
\* that is gone names none of the next one's ("fails to resolve instead of
\* hitting an unrelated page").
IdsResolve ==
    /\ \A i \in Ids :
          pageOf[i] \in live \ lapsed => mcpPages[pageOf[i]] = i
    /\ Listed \subseteq firstId .. nextPageId - 1

\* The caller is told when a snapshot has put another page in the place of the
\* one it had selected, unless two snapshots have overlapped: the later one
\* takes the note of the earlier back.
FallbackIsTold == (\A r \in Runners : at[r] = "idle") => ~swapped

=============================================================================
