------------------------------ MODULE Listings ------------------------------
(***************************************************************************)
(* The lists of requests and of console messages, page by page             *)
(* (src/McpResponse.ts, src/formatters/ConsoleFormatter.ts and             *)
(* src/utils/pagination.ts): what a page has collected is filtered, like   *)
(* messages in a row are put into one line, and the lines are paged.  A    *)
(* caller walks the list with one call per page, and the page goes on      *)
(* collecting in between.                                                  *)
(***************************************************************************)
EXTENDS Integers, Sequences

CONSTANTS
    Kinds,      \* messages and requests that look alike
    Type,       \* [Kinds -> the type a filter goes by]
    Issues,     \* kinds that are issues: each has a line of its own
    PageSizes,  \* of one line at least
    MaxLogged   \* bound on what is collected

VARIABLES
    list,      \* "console" or "network": which tool is called
    types,     \* the types asked for, none for all
    pageSize,
    log,       \* the kinds of what the page has collected, by id
    pageIdx,   \* the page that is asked for next
    shown,     \* the lines of the pages answered so far
    since,     \* how much had been collected when the walk began
    walking,   \* the last answer named a next page, or there was none yet
    navigated  \* history: the list was begun anew since the walk began

listingVars == <<list, types, pageSize, log, pageIdx, shown, since, walking, navigated>>

----------------------------------------------------------------------------
\* #handleConsoleList, #handleNetworkRequestList: what was asked for.
wanted(i) == types = {} \/ Type[log[i]] \in types

alike(i, j) == log[i] = log[j] /\ log[i] \notin Issues

\* Defect for mutation: like messages are put together wherever they stand.
groupAnywhere(before, i) ==
    LET at == {l \in DOMAIN before : \E j \in before[l] : alike(j, i)}
    IN  IF list = "console" /\ at # {}
        THEN [before EXCEPT ![CHOOSE l \in at : TRUE] = @ \cup {i}]
        ELSE Append(before, {i})

\* The next message joins the last line, when it is alike, or is a line of its own: a
\* line stands for a row of like messages.  Requests have a line each.
groupConsecutive(before, i) ==
    IF list = "console" /\ before # <<>> /\ \E j \in before[Len(before)] : alike(j, i)
    THEN [before EXCEPT ![Len(before)] = @ \cup {i}]
    ELSE Append(before, {i})

\* The lines of the first n that the page has collected.
linesUpTo[n \in 0 .. Len(log)] ==
    IF n = 0 THEN <<>>
    ELSE IF wanted(n) THEN groupConsecutive(linesUpTo[n - 1], n)
    ELSE linesUpTo[n - 1]

lines == linesUpTo[Len(log)]

\* Math.ceil
Ceil(total, size) == (total + size - 1) \div size

AtLeastOne(n) == IF n < 1 THEN 1 ELSE n

\* An index that names no page is answered with the first one, and a note.
resolvePageIndex(idx, totalPages) ==
    IF idx >= totalPages THEN [currentPage |-> 0, invalidPage |-> TRUE]
    ELSE [currentPage |-> idx, invalidPage |-> FALSE]

paginate(items, size, idx) ==
    LET totalPages == AtLeastOne(Ceil(Len(items), size))
        page == resolvePageIndex(idx, totalPages)
        start == page.currentPage * size
    IN  [items |-> SubSeq(items, start + 1, IF start + size < Len(items) THEN start + size
                                            ELSE Len(items)),
         hasNextPage |-> page.currentPage < totalPages - 1,
         invalidPage |-> page.invalidPage]

----------------------------------------------------------------------------
Init ==
    /\ list \in {"console", "network"}
    /\ types \in SUBSET {Type[k] : k \in Kinds}
    /\ pageSize \in PageSizes
    /\ log = <<>> /\ pageIdx = 0 /\ shown = <<>> /\ since = 0 /\ walking = FALSE
    /\ navigated = FALSE

Collect(k) ==
    /\ Len(log) < MaxLogged
    /\ log' = Append(log, k)
    /\ UNCHANGED <<list, types, pageSize, pageIdx, shown, since, walking, navigated>>

\* A navigation begins the list anew.
Navigate ==
    /\ log # <<>>
    /\ log' = <<>> /\ navigated' = TRUE
    /\ UNCHANGED <<list, types, pageSize, pageIdx, shown, since, walking>>

\* One call for the first page, or for the one the call before named as the next.
ListPage ==
    LET page == paginate(lines, pageSize, pageIdx)
    IN  /\ lines # <<>>
        /\ shown' = IF pageIdx = 0 THEN page.items ELSE shown \o page.items
        /\ since' = IF pageIdx = 0 THEN Len(log) ELSE since
        /\ navigated' = (navigated /\ pageIdx # 0)
        /\ walking' = (page.hasNextPage /\ ~page.invalidPage)
        /\ pageIdx' = IF walking' THEN pageIdx + 1 ELSE 0
        /\ UNCHANGED <<list, types, pageSize, log>>

\* Nothing to list: the walk is over.
ListNothing ==
    /\ lines = <<>>
    /\ shown' = <<>> /\ since' = Len(log) /\ walking' = FALSE /\ pageIdx' = 0
    /\ navigated' = FALSE
    /\ UNCHANGED <<list, types, pageSize, log>>

Next == (\E k \in Kinds : Collect(k)) \/ Navigate \/ ListPage \/ ListNothing

Spec == Init /\ [][Next]_listingVars

----------------------------------------------------------------------------
TypeOK ==
    /\ list \in {"console", "network"} /\ pageSize \in PageSizes
    /\ log \in Seq(Kinds) /\ Len(log) <= MaxLogged
    /\ pageIdx \in 0 .. MaxLogged /\ since \in 0 .. MaxLogged
    /\ walking \in BOOLEAN /\ navigated \in BOOLEAN

\* A walk over the pages shows what had been collected when it began, each item
\* once and in order, whatever is collected between two of its calls.
WalksShowEverything ==
    ~walking /\ ~navigated =>
        /\ (UNION {shown[l] : l \in DOMAIN shown}) \cap (1 .. since) = {i \in 1 .. since : wanted(i)}
        /\ \A l, m \in DOMAIN shown : l < m => \A i \in shown[l], j \in shown[m] : i < j
=============================================================================
