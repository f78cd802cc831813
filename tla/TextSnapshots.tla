---------------------------- MODULE TextSnapshots ----------------------------
(***************************************************************************)
(* The text snapshots of the pages (src/TextSnapshot.ts) and the uids they *)
(* give the elements: the accessibility tree is read, its nodes get ids,   *)
(* and then the elements that tools of the page have handed out are put    *)
(* into the tree one by one, each with calls to the browser in between.    *)
(* The page navigates at any of those points.                              *)
(*                                                                         *)
(* An element is a document of its page and its backend id there.  The     *)
(* documents of a page all have the same ids, as they have when each is    *)
(* in a process of its own: what tells them apart is the loader.           *)
(***************************************************************************)
EXTENDS Naturals, Sequences, FiniteSets, SequencesExt

CONSTANTS
    SnapshotPages,
    Trees,          \* what an accessibility tree can hold: sets of backend ids
    Parents,        \* per backend id, that of its parent element; 0 at the root
    MaxSnapshots,   \* bounds the snapshots made
    MaxDocuments    \* bounds the documents of a page

VARIABLES
    document,        \* per page, the document it shows
    mcpIds,          \* per page, uniqueBackendNodeIdToMcpId: the uid of a key
    extraHandles,    \* per page, the elements handed out
    textSnapshot,    \* per page, the last snapshot made
    nextSnapshotId,
    making,          \* the snapshot being made, or Nothing
    named            \* history: the element a uid was first given to

snapshotVars == <<document, mcpIds, extraHandles, textSnapshot, nextSnapshotId, making, named>>

BackendIds == 1 .. Len(Parents)
Nothing == [page |-> "none"]
NoSnapshot == [nodes |-> <<>>, parent |-> <<>>, extra |-> {}]

\* Defect for mutation: the document is not part of the key.
uniqueBackendIdAlone(d, b) == <<"node", 0, b>>
uniqueBackendId(d, b) == <<"loader", d, b>>
customId(b) == <<"custom", 0, b>>

\* f, and what g says of the rest: f @@ g, written out for the provers.
With(f, g) == [x \in DOMAIN f \cup DOMAIN g |-> IF x \in DOMAIN f THEN f[x] ELSE g[x]]

Above[b \in BackendIds] == IF Parents[b] = 0 THEN {} ELSE {Parents[b]} \cup Above[Parents[b]]

\* The uid of the closest ancestor of b among these nodes; ids grow downwards.
Closest(nodes, b) ==
    LET over == {u \in DOMAIN nodes : nodes[u].b \in Above[b]}
    IN  CHOOSE u \in over : \A v \in over : nodes[v].b <= nodes[u].b

Init ==
    /\ document = [p \in SnapshotPages |-> 1]
    /\ mcpIds = [p \in SnapshotPages |-> <<>>]
    /\ extraHandles = [p \in SnapshotPages |-> <<>>]
    /\ textSnapshot = [p \in SnapshotPages |-> NoSnapshot]
    /\ nextSnapshotId = 1 /\ making = Nothing /\ named = <<>>

Navigate(p) ==
    /\ document[p] < MaxDocuments
    /\ document' = [document EXCEPT ![p] = @ + 1]
    /\ UNCHANGED <<mcpIds, extraHandles, textSnapshot, nextSnapshotId, making, named>>

\* create up to the elements handed out: `shown` are the elements of the
\* accessibility tree, `handed` those of executeThirdPartyDeveloperTool.
create(p, shown, handed) ==
    LET d == document[p]
        fresh == {b \in shown : uniqueBackendId(d, b) \notin DOMAIN mcpIds[p]}
        ids == With(mcpIds[p], [k \in {uniqueBackendId(d, b) : b \in fresh} |->
                    <<nextSnapshotId, Cardinality({b \in fresh : b < k[3]})>>])
        uid(b) == ids[uniqueBackendId(d, b)]
        nodes == [u \in {uid(b) : b \in shown} |->
                    [d |-> d, b |-> CHOOSE b \in shown : uid(b) = u]]
    IN  /\ making = Nothing /\ nextSnapshotId <= MaxSnapshots
        /\ nextSnapshotId' = nextSnapshotId + 1
        /\ mcpIds' = [mcpIds EXCEPT ![p] = ids]
        /\ extraHandles' = [extraHandles EXCEPT ![p] = IF handed = <<>> THEN @ ELSE handed]
        /\ making' = [page |-> p, id |-> nextSnapshotId, nodes |-> nodes, count |-> Cardinality(fresh),
                      seen |-> {uniqueBackendId(d, b) : b \in shown}, todo |-> extraHandles'[p],
                      extra |-> {}, reorganise |-> <<>>,
                      parent |-> [u \in DOMAIN nodes |->
                        IF Parents[nodes[u].b] = 0 THEN u ELSE Closest(nodes, nodes[u].b)]]
        /\ named' = With(named, nodes)
        /\ UNCHANGED <<document, textSnapshot>>

\* The accessibility tree cannot be read.  A tool of the page has disposed of the
\* elements handed out before, which are kept all the same.
createFails(p) ==
    /\ making = Nothing
    /\ extraHandles' = [extraHandles EXCEPT ![p] = [i \in DOMAIN @ |-> [@[i] EXCEPT !.d = 0]]]
    /\ UNCHANGED <<document, mcpIds, textSnapshot, nextSnapshotId, making, named>>

\* Defect for mutation: the nodes are entered when all of them are known.
attachTargetInTree(b) == Closest([u \in DOMAIN making.nodes \ making.extra |-> making.nodes[u]], b)
attachTarget(b) == Closest(making.nodes, b)

\* insertExtraNodes: the next element.  One the tree has already is passed over;
\* one whose document is gone ends the making, the ids given so far stay.
createExtraNode ==
    /\ making # Nothing /\ making.todo # <<>>
    /\ LET p == making.page
           handle == Head(making.todo)
           key == customId(handle.b)
           uid == IF key \in DOMAIN mcpIds[p] THEN mcpIds[p][key] ELSE <<making.id, making.count>>
       IN  \/ /\ \E u \in DOMAIN making.nodes : making.nodes[u].b = handle.b
              /\ making' = [making EXCEPT !.todo = Tail(@)]
              /\ UNCHANGED <<mcpIds, named>>
           \/ /\ \A u \in DOMAIN making.nodes : making.nodes[u].b # handle.b
              /\ mcpIds' = [mcpIds EXCEPT ![p] = With(@, [k \in {key} |-> uid])]
              /\ IF handle.d # document[p]
                 THEN making' = Nothing /\ UNCHANGED named
                 ELSE /\ named' = With(named, [u \in {uid} |-> handle])
                      /\ making' = [making EXCEPT
                            !.todo = Tail(@), !.nodes = With([u \in {uid} |-> handle], @),
                            !.seen = @ \cup {key}, !.extra = @ \cup {uid},
                            !.count = IF key \in DOMAIN mcpIds[p] THEN @ ELSE @ + 1,
                            !.reorganise = Append(@, <<uid, attachTarget(handle.b)>>)]
    /\ UNCHANGED <<document, extraHandles, textSnapshot, nextSnapshotId>>

\* moveChildNodes: the element takes its place below the target and its
\* descendants with it.
moveChildNodes(nodes, parent, extra, target) ==
    [u \in DOMAIN parent \cup {extra} |->
        IF u = extra THEN target
        ELSE IF parent[u] = target /\ nodes[extra].b \in Above[nodes[u].b] THEN extra
        ELSE parent[u]]

\* Defect for mutation: only what the tree itself holds counts as seen.
KeptTree(ids, seen) == [k \in {k \in DOMAIN ids \cap seen : k[1] = "loader"} |-> ids[k]]
Kept(ids, seen) == [k \in DOMAIN ids \cap seen |-> ids[k]]

\* The places in the tree once the first n of the elements put in have taken theirs.
reorganised[n \in 0 .. Len(making.reorganise)] ==
    IF n = 0 THEN making.parent
    ELSE moveChildNodes(making.nodes, reorganised[n - 1],
                        making.reorganise[n][1], making.reorganise[n][2])

\* The elements are in, the ids that were not seen go.
createEnds ==
    /\ making # Nothing /\ making.todo = <<>>
    /\ LET p == making.page
       IN  /\ textSnapshot' = [textSnapshot EXCEPT ![p] =
                [nodes |-> making.nodes, parent |-> reorganised[Len(making.reorganise)],
                 extra |-> making.extra]]
           /\ mcpIds' = [mcpIds EXCEPT ![p] = Kept(@, making.seen)]
    /\ making' = Nothing
    /\ UNCHANGED <<document, extraHandles, nextSnapshotId, named>>

\* take_snapshot and every answer with a snapshot.
handleSnapshot(p) ==
    \E shown \in Trees : create(p, shown, <<>>)

executeThirdPartyDeveloperTool(p) ==
    \E shown \in Trees, elements \in BoundedSeq(BackendIds \ {1}, 2) \ {<<>>} :
        create(p, shown, [i \in DOMAIN elements |-> [d |-> document[p], b |-> elements[i]]])

Next ==
    \/ \E p \in SnapshotPages :
          Navigate(p) \/ handleSnapshot(p) \/ executeThirdPartyDeveloperTool(p) \/ createFails(p)
    \/ createExtraNode \/ createEnds

Spec == Init /\ [][Next]_snapshotVars

----------------------------------------------------------------------------
Elements == [d : 0 .. MaxDocuments, b : BackendIds]
Uids == (1 .. MaxSnapshots) \X (0 .. Len(Parents) + 1)

TypeOK ==
    /\ document \in [SnapshotPages -> 1 .. MaxDocuments]
    /\ \A p \in SnapshotPages :
        /\ \A k \in DOMAIN mcpIds[p] : mcpIds[p][k] \in Uids
        /\ extraHandles[p] \in BoundedSeq(Elements, 2)
        /\ \A u \in DOMAIN textSnapshot[p].nodes : textSnapshot[p].nodes[u] \in Elements
    /\ nextSnapshotId \in 1 .. MaxSnapshots + 1
    /\ DOMAIN named \subseteq Uids

\* A uid that a client has been told resolves to the element it was given to or
\* to nothing: not to another element, not on another page, and not in another
\* document, however many navigations and failed snapshots lie in between.  An
\* element handed out is the exception: it is known by its backend id alone, and is
\* still on record when the next document hands out another one of that id.
UidsNameOneElement ==
    \A p \in SnapshotPages : \A u \in DOMAIN textSnapshot[p].nodes :
        \/ named[u] = textSnapshot[p].nodes[u]
        \/ u \in textSnapshot[p].extra /\ named[u].d < textSnapshot[p].nodes[u].d

\* An element that is in two snapshots of a page, one after the other, has the
\* same uid in both, be it of the tree in both or handed out in both.
KeepsUids ==
    \A p \in SnapshotPages :
        \A u \in DOMAIN textSnapshot[p].nodes, v \in DOMAIN textSnapshot'[p].nodes :
            /\ textSnapshot[p].nodes[u] = textSnapshot'[p].nodes[v]
            /\ (u \in textSnapshot[p].extra) = (v \in textSnapshot'[p].extra)
            => u = v
UidsAreKept == [][KeepsUids]_snapshotVars

\* Whatever the order in which elements were handed out, every node of the
\* snapshot hangs below its closest ancestor in the snapshot.
TreeIsTheDocuments ==
    \A p \in SnapshotPages :
        LET s == textSnapshot[p] IN
        \A u \in DOMAIN s.nodes :
            s.parent[u] = IF Above[s.nodes[u].b] = {} THEN u ELSE Closest(s.nodes, s.nodes[u].b)
=============================================================================
