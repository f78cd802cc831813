-------------------------- MODULE IsolatedContexts --------------------------
(***************************************************************************)
(* The browser contexts pages are opened in (src/McpContext.ts: newPage,   *)
(* #getBrowserContextToNameMap and #createMcpPage).  A caller names the    *)
(* one its page is to be in, and it is made when the name is new; those a  *)
(* person opens get a name when a page of theirs is found.  The names a    *)
(* caller gives are taken to be none of the generated ones.                *)
(***************************************************************************)
EXTENDS Integers, FiniteSets

CONSTANTS
    Pages,
    CallerNames,
    Default,     \* the context without a name
    None,
    MaxContexts  \* bound on the contexts there ever are

VARIABLES
    contexts,  \* the contexts there ever were, 1 .. contexts
    open,      \* those that are open
    pageIn,    \* per page its context, None as long as there is no page
    isolatedContexts,        \* the context a name stands for, or None
    nextIsolatedContextId,
    label,     \* per page the isolatedContextName of its McpPage, or Unknown
    opening,   \* the page new_page has under way, or None
    name,      \* the name it was asked for
    asked      \* history: the name a page was asked for under, since the connection

isolationVars == <<contexts, open, pageIn, isolatedContexts, nextIsolatedContextId,
                   label, opening, name, asked>>

Unknown == 0
There == {p \in Pages : pageIn[p] # None}
Generated(k) == k
Names == CallerNames \cup {Generated(k) : k \in 1 .. MaxContexts}

----------------------------------------------------------------------------
Init ==
    /\ contexts = 0 /\ open = {} /\ pageIn = [p \in Pages |-> None]
    /\ isolatedContexts = [n \in Names |-> None] /\ nextIsolatedContextId = 1
    /\ label = [p \in Pages |-> Unknown]
    /\ opening = None /\ name = None /\ asked = [p \in Pages |-> None]

\* Defect for mutation: contexts that have a name are given another.
undiscoveredOrNot == open

\* Contexts of the browser that are in the map under no name.
undiscovered == {c \in open : \A n \in Names : isolatedContexts[n] # c}

\* The names in the order of the contexts, counted on from the last.
Discovered ==
    [n \in Names |->
        IF \E c \in undiscovered :
               n = Generated(nextIsolatedContextId
                             + Cardinality({d \in undiscovered : d < c}))
        THEN CHOOSE c \in undiscovered :
               n = Generated(nextIsolatedContextId
                             + Cardinality({d \in undiscovered : d < c}))
        ELSE isolatedContexts[n]]

\* #createMcpPage, from a target's event or from a snapshot of the list: the page
\* has its label for good.  A context found again is known by its last name.
createMcpPage(p) ==
    /\ p \in There /\ label[p] = Unknown
    /\ isolatedContexts' = Discovered
    /\ nextIsolatedContextId' = nextIsolatedContextId + Cardinality(undiscovered)
    /\ label' = [label EXCEPT ![p] =
           IF pageIn[p] = Default THEN None
           ELSE LET named == {n \in Names : Discovered[n] = pageIn[p]}
                    found == named \ CallerNames
                IN  CHOOSE n \in (IF found # {} THEN found ELSE named) : TRUE]
    /\ UNCHANGED <<contexts, open, pageIn, opening, name, asked>>

\* newPage with a name: createBrowserContext, should it be new
newPage(n, p) ==
    /\ opening = None /\ pageIn[p] = None
    /\ \/ /\ isolatedContexts[n] = None /\ contexts < MaxContexts
          /\ contexts' = contexts + 1 /\ open' = open \cup {contexts'}
          /\ isolatedContexts' = [isolatedContexts EXCEPT ![n] = contexts']
       \/ /\ isolatedContexts[n] # None
          /\ UNCHANGED <<contexts, open, isolatedContexts>>
    /\ opening' = p /\ name' = n
    /\ UNCHANGED <<pageIn, nextIsolatedContextId, label, asked>>

\* ctx.newPage, which fails in a context that is closed
pageOpened ==
    /\ opening # None /\ pageIn[opening] = None
    /\ IF isolatedContexts[name] \in open
       THEN /\ pageIn' = [pageIn EXCEPT ![opening] = isolatedContexts[name]]
            /\ asked' = [asked EXCEPT ![opening] = name]
            /\ UNCHANGED <<opening, name>>
       ELSE opening' = None /\ name' = None /\ UNCHANGED <<pageIn, asked>>
    /\ UNCHANGED <<contexts, open, isolatedContexts, nextIsolatedContextId, label>>

newPageReturns ==
    /\ opening # None /\ label[opening] # Unknown
    /\ opening' = None /\ name' = None
    /\ UNCHANGED <<contexts, open, pageIn, isolatedContexts, nextIsolatedContextId,
                   label, asked>>

\* A page opens another, a person opens one, or a window of its own.
PageOpens(p, c) ==
    /\ pageIn[p] = None /\ p # opening
    /\ \/ c \in open \cup {Default}
       \/ c = contexts + 1 /\ c <= MaxContexts
    /\ pageIn' = [pageIn EXCEPT ![p] = c]
    /\ contexts' = IF c = contexts + 1 THEN c ELSE contexts
    /\ open' = open \cup ({c} \ {Default})
    /\ UNCHANGED <<isolatedContexts, nextIsolatedContextId, label, opening, name, asked>>

Gone(S) ==
    /\ pageIn' = [p \in Pages |-> IF p \in S THEN None ELSE pageIn[p]]
    /\ label' = [p \in Pages |-> IF p \in S THEN Unknown ELSE label[p]]
    /\ asked' = [p \in Pages |-> IF p \in S THEN None ELSE asked[p]]
    /\ IF opening \in S THEN opening' = None /\ name' = None
       ELSE UNCHANGED <<opening, name>>

PageCloses(p) ==
    /\ p \in There /\ Gone({p})
    /\ UNCHANGED <<contexts, open, isolatedContexts, nextIsolatedContextId>>

\* A context closes with its pages; its name goes on standing for it.
ContextCloses(c) ==
    /\ c \in open /\ open' = open \ {c}
    /\ Gone({p \in Pages : pageIn[p] = c})
    /\ UNCHANGED <<contexts, isolatedContexts, nextIsolatedContextId>>

\* Another McpContext, with the browser as it is.
Reconnect ==
    /\ isolatedContexts' = [n \in Names |-> None] /\ nextIsolatedContextId' = 1
    /\ label' = [p \in Pages |-> Unknown] /\ asked' = [p \in Pages |-> None]
    /\ opening' = None /\ name' = None
    /\ UNCHANGED <<contexts, open, pageIn>>

Next ==
    \/ \E n \in CallerNames, p \in Pages : newPage(n, p)
    \/ pageOpened \/ newPageReturns \/ Reconnect
    \/ \E p \in Pages : createMcpPage(p) \/ PageCloses(p)
                        \/ \E c \in (1 .. MaxContexts) \cup {Default} : PageOpens(p, c)
    \/ \E c \in open : ContextCloses(c)

Spec == Init /\ [][Next]_isolationVars

----------------------------------------------------------------------------
TypeOK ==
    /\ contexts \in 0 .. MaxContexts /\ open \subseteq 1 .. contexts
    /\ pageIn \in [Pages -> open \cup {Default, None}]
    /\ isolatedContexts \in [Names -> (1 .. contexts) \cup {None}]
    /\ nextIsolatedContextId \in 1 .. MaxContexts + 1
    /\ label \in [Pages -> Names \cup {None, Unknown}]
    /\ opening \in Pages \cup {None} /\ name \in CallerNames \cup {None}
    /\ asked \in [Pages -> CallerNames \cup {None}]

\* Pages asked for under one name share a context, and those asked for under two
\* do not, whatever is opened and closed in between (newPage).
NameIsOneContext ==
    \A p, q \in There : asked[p] # None /\ asked[q] # None =>
        (asked[p] = asked[q] <=> pageIn[p] = pageIn[q])

\* What a list calls a page's context is the name the caller gave it, and pages
\* that are called alike share a context (#getBrowserContextToNameMap).
LabelsAreOfContexts ==
    /\ \A p \in There : asked[p] # None /\ label[p] # Unknown => label[p] = asked[p]
    /\ \A p, q \in There : label[p] # Unknown /\ label[q] # Unknown =>
           (label[p] = label[q] <=> pageIn[p] = pageIn[q])
=============================================================================
