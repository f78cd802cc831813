--------------------------- MODULE PagePartsProofs ---------------------------
(***************************************************************************)
(* Proofs about the parts of PageParts.  The lemmas of a part are about its  *)
(* instance alone; the theorems at the end are of PageSpec.                 *)
(***************************************************************************)
EXTENDS PageParts, Sequences, FiniteSetTheorems, WellFoundedInduction, TLAPS

-----------------------------------------------------------------------------
(* The list of pages *)

\* A set of numbers has a least one.
LEMMA OneIsLeast ==
    ASSUME NEW T, T \subseteq Nat, T # {}
    PROVE  \E x \in T : \A y \in T : x <= y
<1> DEFINE R == {s \in Nat \X Nat : s[1] < s[2]}
<1>1. IsWellFoundedOn(R, Nat)
  BY NatLessThanWellFounded DEF OpToRel
<1> HIDE DEF R
<1>2. PICK x \in T : \A y \in T : ~(<<y, x>> \in R)
  BY <1>1, WFMin
<1>3. \A y \in T : ~(y < x)
  BY <1>2 DEF R
<1>4. QED
  BY <1>3

\* The ids createMcpPages hands out, page by page.
Enters(new, id) ==
    /\ new \subseteq Pages
    /\ id \in [new -> nextPageId .. MaxId]
    /\ \A p, q \in new : id[p] = id[q] => p = q
    /\ \A p \in new : mcpPages[p] = 0 /\ id[p] < nextPageId'
    /\ mcpPages' = [p \in Pages |-> IF p \in new THEN id[p] ELSE mcpPages[p]]
    /\ pageOf' = [i \in PL!Ids |-> IF \E p \in new : id[p] = i
                                THEN CHOOSE p \in new : id[p] = i ELSE pageOf[i]]
    /\ attached' = attached \cup {id[p] : p \in new}
    /\ nextPageId' \in nextPageId .. MaxId + 1

\* The list counts by the standard module's Cardinality.
LEMMA ListedAreCounted == \A S : PL!Cardinality(S) = Cardinality(S)
  BY DEF Cardinality, PL!Cardinality

LEMMA PagesEnter ==
    ASSUME PL!TypeOK, NEW pages \in SUBSET Pages, PL!createMcpPages(pages)
    PROVE  \E new \in SUBSET pages : \E id : Enters(new, id)
<1> DEFINE new == {p \in pages : mcpPages[p] = 0}
           last == nextPageId + Cardinality(new) - 1
<1>1. IsFiniteSet(new) /\ Cardinality(new) \in Nat
  BY PagesAreFinite, FS_Subset, FS_CardinalityType
<1> HIDE DEF new
<1>2. last \in Int /\ last <= MaxId /\ nextPageId' = last + 1 /\ nextPageId' >= nextPageId
  BY <1>1, IdsAreNumbers, ListedAreCounted DEF PL!createMcpPages, PL!TypeOK, new
<1>3. PICK id \in [new -> nextPageId .. last] :
        /\ \A p, q \in new : id[p] = id[q] => p = q
        /\ mcpPages' = [p \in Pages |-> IF p \in new THEN id[p] ELSE mcpPages[p]]
        /\ pageOf' = [i \in PL!Ids |-> IF \E p \in new : id[p] = i
                                    THEN CHOOSE p \in new : id[p] = i ELSE pageOf[i]]
        /\ attached' = attached \cup {id[p] : p \in new}
  BY ListedAreCounted DEF PL!createMcpPages, new
<1>4. \A p \in new : id[p] \in nextPageId .. last
  BY <1>3
<1>5. id \in [new -> nextPageId .. MaxId] /\ \A p \in new : id[p] < nextPageId'
  BY <1>2, <1>3, <1>4, IdsAreNumbers DEF PL!TypeOK
<1>6. new \subseteq pages /\ \A p \in new : mcpPages[p] = 0
  BY DEF new
<1>7. nextPageId' \in nextPageId .. MaxId + 1
  BY <1>2, IdsAreNumbers DEF PL!TypeOK
<1>8. Enters(new, id)
  BY <1>3, <1>5, <1>6, <1>7 DEF Enters
<1>9. QED
  BY <1>6, <1>8

\* What the map, the McpPages and the pages have to do with one another.
MapIsKept ==
    /\ \A p \in Pages : mcpPages[p] # 0 =>
          pageOf[mcpPages[p]] = p /\ firstId <= mcpPages[p] /\ mcpPages[p] < nextPageId
    /\ attached = PL!Listed
    /\ \A i \in PL!Ids : pageOf[i] \in live \ lapsed => mcpPages[pageOf[i]] = i
    /\ \A i \in PL!Ids : pageOf[i] \in live \cup closed \cup {None}
    /\ announced \subseteq live \cup closed
    /\ firstId <= nextPageId
    /\ at[Tool] = "closing" => target[Tool] \in PL!Ids /\ pageOf[target[Tool]] \in Pages

\* What Enters does to the map: the pages it enters are listed, every other one
\* stands as it did.
LEMMA EnteredPages ==
    ASSUME PL!TypeOK, MapIsKept, NEW new, NEW id, Enters(new, id)
    PROVE  /\ mcpPages' \in [Pages -> 0 .. MaxId] /\ attached' \subseteq PL!Ids
           /\ pageOf' \in [PL!Ids -> Pages \cup {None}] /\ nextPageId' \in 1 .. MaxId + 1
           /\ attached' = PL!Listed'
           /\ \A p \in Pages : mcpPages'[p] # 0 =>
                pageOf'[mcpPages'[p]] = p /\ firstId <= mcpPages'[p] /\ mcpPages'[p] < nextPageId'
           /\ \A i \in PL!Ids :
                \/ pageOf'[i] \in new /\ mcpPages'[pageOf'[i]] = i
                \/ pageOf'[i] = pageOf[i] /\ pageOf[i] \notin new
                \/ pageOf'[i] = pageOf[i] /\ pageOf[i] \notin live \ lapsed
           /\ \A p \in Pages \ new : mcpPages'[p] = mcpPages[p]
           /\ firstId <= nextPageId' /\ nextPageId <= nextPageId'
<1> USE IdsAreNumbers DEF PL!TypeOK, PL!Ids
<1>1. /\ \A p \in new : id[p] \in nextPageId .. MaxId /\ id[p] \in PL!Ids /\ id[p] < nextPageId'
      /\ \A p \in new : mcpPages'[p] = id[p]
      /\ \A p \in Pages \ new : mcpPages'[p] = mcpPages[p]
      /\ new \subseteq Pages
  BY DEF Enters
<1>2. mcpPages' \in [Pages -> 0 .. MaxId] /\ attached' \subseteq PL!Ids
      /\ nextPageId' \in 1 .. MaxId + 1
      /\ firstId <= nextPageId' /\ nextPageId <= nextPageId'
  <2>1. mcpPages' \in [Pages -> 0 .. MaxId]
    BY <1>1 DEF Enters
  <2>2. attached' \subseteq PL!Ids
    BY <1>1 DEF Enters
  <2>3. QED
    BY <2>1, <2>2 DEF Enters, MapIsKept
<1>3. ASSUME NEW i \in PL!Ids
      PROVE  \/ \E p \in new : id[p] = i /\ pageOf'[i] = p
             \/ (\A p \in new : id[p] # i) /\ pageOf'[i] = pageOf[i]
  <2>1. pageOf'[i] = IF \E p \in new : id[p] = i
                     THEN CHOOSE p \in new : id[p] = i ELSE pageOf[i]
    BY DEF Enters
  <2> HIDE DEF PL!TypeOK, PL!Ids
  <2>2. QED
    BY <2>1
<1>4. pageOf' \in [PL!Ids -> Pages \cup {None}]
  <2>1. ASSUME NEW i \in PL!Ids PROVE pageOf'[i] \in Pages \cup {None}
    <3>1. pageOf[i] \in Pages \cup {None}
      OBVIOUS
    <3>2. CASE pageOf'[i] = pageOf[i]
      BY <3>1, <3>2
    <3>3. CASE \E p \in new : id[p] = i /\ pageOf'[i] = p
      BY <1>1, <3>3
    <3>4. QED
      BY <1>3, <3>2, <3>3
  <2>2. pageOf' = [i \in PL!Ids |-> pageOf'[i]]
    BY DEF Enters
  <2>3. QED
    BY <2>1, <2>2
<1>5. \A p \in new : pageOf'[id[p]] = p
  BY <1>1, <1>3 DEF Enters
<1>6. attached' = PL!Listed'
  <2>1. PL!Listed' = {mcpPages'[p] : p \in Pages} \ {0}
    BY DEF PL!Listed
  <2>2. \A p \in new : id[p] # 0
    BY <1>1
  <2>3. attached' = PL!Listed \cup {id[p] : p \in new}
    BY DEF Enters, MapIsKept
  <2>4. \A p \in new : mcpPages[p] = 0
    BY DEF Enters
  <2>5. ASSUME NEW i \in attached' PROVE i \in PL!Listed'
    <3>1. CASE i \in PL!Listed
      <4>1. PICK p \in Pages : i = mcpPages[p] /\ i # 0
        BY <3>1 DEF PL!Listed
      <4>2. mcpPages'[p] = i
        BY <1>1, <2>4, <4>1
      <4>3. QED
        BY <2>1, <4>1, <4>2
    <3>2. CASE i \in {id[p] : p \in new}
      BY <1>1, <2>1, <2>2, <3>2
    <3>3. QED
      BY <2>3, <2>5, <3>1, <3>2
  <2>6. ASSUME NEW i \in PL!Listed' PROVE i \in attached'
    <3>1. PICK p \in Pages : i = mcpPages'[p] /\ i # 0
      BY <2>1, <2>6
    <3>2. p \notin new => i \in PL!Listed
      BY <1>1, <3>1 DEF PL!Listed
    <3>3. QED
      BY <1>1, <2>3, <3>1, <3>2
  <2>7. QED
    BY <2>5, <2>6
<1>7. ASSUME NEW p \in Pages, mcpPages'[p] # 0
      PROVE  pageOf'[mcpPages'[p]] = p /\ firstId <= mcpPages'[p] /\ mcpPages'[p] < nextPageId'
  <2>1. CASE p \in new
    BY <1>1, <1>5, <2>1 DEF MapIsKept
  <2>2. CASE p \notin new
    <3>1. mcpPages[p] \in PL!Ids /\ mcpPages[p] < nextPageId /\ mcpPages'[p] = mcpPages[p]
          /\ pageOf[mcpPages[p]] = p /\ firstId <= mcpPages[p]
      BY <1>1, <1>7, <2>2 DEF MapIsKept
    <3>2. \A q \in new : id[q] # mcpPages[p]
      BY <1>1, <3>1
    <3>3. QED
      BY <1>2, <1>3, <3>1, <3>2
  <2>3. QED
    BY <2>1, <2>2
<1>8. ASSUME NEW i \in PL!Ids
      PROVE  \/ pageOf'[i] \in new /\ mcpPages'[pageOf'[i]] = i
             \/ pageOf'[i] = pageOf[i] /\ pageOf[i] \notin new
             \/ pageOf'[i] = pageOf[i] /\ pageOf[i] \notin live \ lapsed
  <2>1. \A p \in new : mcpPages[p] = 0
    BY DEF Enters
  <2>2. CASE \E p \in new : id[p] = i /\ pageOf'[i] = p
    BY <1>1, <2>2
  <2>3. CASE pageOf'[i] = pageOf[i]
    <3>1. pageOf[i] \in live \ lapsed => mcpPages[pageOf[i]] = i
      BY DEF MapIsKept
    <3>2. i # 0
      OBVIOUS
    <3>3. QED
      BY <2>1, <2>3, <3>1, <3>2
  <2>4. QED
    BY <1>3, <2>2, <2>3
<1>9. \A p \in Pages \ new : mcpPages'[p] = mcpPages[p]
  BY <1>1
<1> HIDE DEF PL!TypeOK, PL!Ids
<1>10. QED
  BY <1>2, <1>4, <1>6, <1>7, <1>8, <1>9

\* What drop does to the map.
LEMMA Dropped ==
    ASSUME PL!TypeOK, MapIsKept, NEW pages \in SUBSET Pages, PL!drop(pages)
    PROVE  /\ mcpPages' \in [Pages -> 0 .. MaxId] /\ attached' \subseteq PL!Ids
           /\ attached' = PL!Listed' /\ UNCHANGED <<nextPageId, pageOf>>
           /\ \A p \in Pages : mcpPages'[p] # 0 => p \notin pages /\ mcpPages'[p] = mcpPages[p]
           /\ \A p \in Pages \ pages : mcpPages'[p] = mcpPages[p]
<1>1. /\ \A p \in Pages \cap pages : mcpPages'[p] = 0
      /\ \A p \in Pages \ pages : mcpPages'[p] = mcpPages[p]
      /\ UNCHANGED <<nextPageId, pageOf>>
      /\ attached' = attached \ {mcpPages[p] : p \in pages}
  BY DEF PL!drop
<1>2. mcpPages' \in [Pages -> 0 .. MaxId] /\ attached' \subseteq PL!Ids
  BY IdsAreNumbers DEF PL!drop, PL!TypeOK
<1>3. \A p, q \in Pages : mcpPages[p] # 0 /\ mcpPages[p] = mcpPages[q] => p = q
  BY DEF MapIsKept
<1>4. attached' = PL!Listed'
  <2>1. PL!Listed' = {mcpPages'[p] : p \in Pages} \ {0} /\ attached = {mcpPages[p] : p \in Pages} \ {0}
    BY DEF PL!Listed, MapIsKept
  <2>2. ASSUME NEW i \in attached' PROVE i \in PL!Listed'
    BY <1>1, <2>1, <2>2
  <2>3. ASSUME NEW i \in PL!Listed' PROVE i \in attached'
    <3>1. PICK p \in Pages : i = mcpPages'[p] /\ i # 0
      BY <2>1, <2>3
    <3>2. p \notin pages /\ i = mcpPages[p] /\ i \in attached
      BY <1>1, <2>1, <3>1
    <3>3. \A q \in pages : mcpPages[q] # i
      BY <1>3, <3>1, <3>2
    <3>4. QED
      BY <1>1, <3>2, <3>3
  <2>4. QED
    BY <2>2, <2>3
<1>5. QED
  BY <1>1, <1>2, <1>4

\* The map is kept by a step that enters pages, and by one that drops them.
LEMMA EnteringKeepsTheMap ==
    ASSUME PL!TypeOK, MapIsKept, NEW new, NEW id, Enters(new, id),
           NEW opened \in SUBSET Pages, opened \cap (live \cup closed) = {},
           live' = live \cup opened, UNCHANGED <<closed, lapsed, firstId>>,
           new \subseteq live' \cup closed, announced' \subseteq live' \cup closed,
           at'[Tool] = "closing" => at[Tool] = "closing" /\ target'[Tool] = target[Tool]
    PROVE  MapIsKept'
<1>1. \A i \in PL!Ids : pageOf'[i] \in live' \cup closed' \cup {None}
  BY EnteredPages DEF MapIsKept
<1>2. ASSUME NEW i \in PL!Ids, pageOf'[i] \in live' \ lapsed'
      PROVE  mcpPages'[pageOf'[i]] = i
  <2>1. CASE pageOf'[i] \in new /\ mcpPages'[pageOf'[i]] = i
    BY <2>1
  <2>2. CASE pageOf'[i] = pageOf[i] /\ pageOf[i] \notin new
    <3>1. pageOf[i] \in live \ lapsed
      BY <1>2, <2>2, PagesAreFinite DEF MapIsKept
    <3>2. mcpPages[pageOf[i]] = i /\ mcpPages'[pageOf[i]] = mcpPages[pageOf[i]]
      BY <2>2, <3>1, EnteredPages DEF MapIsKept, PL!TypeOK
    <3>3. QED
      BY <2>2, <3>2
  <2>3. CASE pageOf'[i] = pageOf[i] /\ pageOf[i] \notin live \ lapsed
    BY <1>2, <2>3, PagesAreFinite DEF MapIsKept
  <2>4. QED
    BY <2>1, <2>2, <2>3, EnteredPages
<1>3. at'[Tool] = "closing" => target'[Tool] \in PL!Ids /\ pageOf'[target'[Tool]] \in Pages
  <2>1. new \subseteq Pages
    BY DEF Enters
  <2>2. QED
    BY <2>1, EnteredPages DEF MapIsKept
<1>4. firstId' <= nextPageId'
  BY EnteredPages
<1>5. attached' = PL!Listed'
  BY EnteredPages
<1>6. \A p \in Pages : mcpPages'[p] # 0 =>
        pageOf'[mcpPages'[p]] = p /\ firstId' <= mcpPages'[p] /\ mcpPages'[p] < nextPageId'
  BY EnteredPages
<1>7. QED
  BY <1>1, <1>2, <1>3, <1>4, <1>5, <1>6 DEF MapIsKept

LEMMA DroppingKeepsTheMap ==
    ASSUME PL!TypeOK, MapIsKept, NEW pages \in SUBSET Pages, PL!drop(pages),
           live' \cup closed' = live \cup closed, live' \subseteq live,
           lapsed \subseteq lapsed', UNCHANGED <<announced, firstId>>,
           \A p \in pages \cap live' : mcpPages[p] # 0 => p \in lapsed',
           at'[Tool] = "closing" => target'[Tool] \in PL!Ids /\ pageOf'[target'[Tool]] \in Pages
    PROVE  MapIsKept'
<1>1. \A i \in PL!Ids : pageOf'[i] \in live' \cup closed' \cup {None}
  BY Dropped DEF MapIsKept
<1>2. ASSUME NEW i \in PL!Ids, pageOf'[i] \in live' \ lapsed'
      PROVE  mcpPages'[pageOf'[i]] = i
  <2>1. pageOf'[i] = pageOf[i] /\ pageOf[i] \in live \ lapsed /\ pageOf[i] \in Pages
    BY <1>2, Dropped DEF PL!TypeOK
  <2>2. mcpPages[pageOf[i]] = i /\ i # 0
    BY <2>1 DEF MapIsKept, PL!Ids
  <2>3. pageOf[i] \notin pages
    BY <1>2, <2>1, <2>2
  <2>4. QED
    BY <2>1, <2>2, <2>3, Dropped
<1>3. QED
  BY <1>1, <1>2, Dropped DEF MapIsKept

LEMMA RestingKeepsTheMap ==
    ASSUME PL!TypeOK, MapIsKept, UNCHANGED <<PL!contextVars, closed, lapsed, firstId>>,
           live' \ live \subseteq Pages \ (live \cup closed), live \subseteq live',
           announced' \subseteq live' \cup closed,
           at'[Tool] = "closing" => at[Tool] = "closing" /\ target'[Tool] = target[Tool]
    PROVE  MapIsKept'
  BY PagesAreFinite DEF PL!TypeOK, MapIsKept, PL!contextVars, PL!Listed

\* Alone, or two at once.
AloneOrTwo ==
    ~beside => \A q, r \in Runners : q = r \/ at[q] = "idle" \/ at[r] = "idle"

\* A selection that was replaced has a runner that will tell, unless another ran
\* beside it.
WillBeTold ==
    swapped => /\ \E r \in Runners : at[r] # "idle"
               /\ beside \/ (fallback /\ \E r \in Runners : at[r] \in {"select", "answer"})

PageListInv == PL!TypeOK /\ MapIsKept /\ AloneOrTwo /\ WillBeTold

LEMMA PageListFirst == PL!Init => PageListInv
<1> SUFFICES ASSUME PL!Init PROVE PageListInv
  OBVIOUS
<1>1. PL!TypeOK
  <2>1. at \in [Runners -> {"idle", "fetch", "init", "select", "closing", "answer"}]
    BY DEF PL!Init
  <2>2. mcpPages \in [Pages -> 0 .. MaxId] /\ target \in [Runners -> 0 .. MaxId]
        /\ nextPageId \in 1 .. MaxId + 1 /\ firstId \in 1 .. MaxId + 1 /\ selected \in 0 .. MaxId
    BY IdsAreNumbers DEF PL!Init
  <2>3. QED
    BY <2>1, <2>2 DEF PL!Init, PL!TypeOK
<1>2. MapIsKept
  BY PagesAreFinite, ToolRuns DEF PL!Init, MapIsKept, PL!Listed
<1>3. AloneOrTwo /\ WillBeTold
  BY DEF PL!Init, AloneOrTwo, WillBeTold
<1>4. QED
  BY <1>1, <1>2, <1>3 DEF PageListInv

\* The first of the map is a page of it.
LEMMA FirstIsOfTheMap ==
    ASSUME NEW entries \in [Pages -> 0 .. MaxId], \E p \in Pages : entries[p] # 0
    PROVE  PL!firstOf(entries) \in 1 .. MaxId
<1> DEFINE S == {entries[p] : p \in Pages} \ {0}
<1>1. S \subseteq 1 .. MaxId /\ S # {} /\ S \subseteq Nat
  <2>1. \A p \in Pages : entries[p] \in 0 .. MaxId
    OBVIOUS
  <2>2. QED
    BY <2>1, IdsAreNumbers
<1>2. PICK x \in S : \A y \in S : x <= y
  BY <1>1, OneIsLeast
<1>3. PL!Min(S) \in S
  BY <1>2 DEF PL!Min
<1>4. QED
  BY <1>1, <1>3 DEF PL!firstOf

LEMMA MapStep == PageListInv /\ [PL!Next]_(PL!pageListVars) => PL!TypeOK' /\ MapIsKept'
<1> SUFFICES ASSUME PL!TypeOK, MapIsKept, [PL!Next]_(PL!pageListVars)
             PROVE  PL!TypeOK' /\ MapIsKept'
  BY DEF PageListInv
<1> USE ToolRuns DEF PL!browserVars, PL!runnerVars
<1>1. ASSUME NEW p \in Pages, PL!PageOpens(p) PROVE PL!TypeOK' /\ MapIsKept'
  <2>1. PL!TypeOK'
    BY <1>1 DEF PL!PageOpens, PL!TypeOK, PL!contextVars
  <2>2. MapIsKept'
    BY <1>1, RestingKeepsTheMap DEF PL!PageOpens, MapIsKept
  <2>3. QED
    BY <2>1, <2>2
<1>2. ASSUME NEW p \in Pages, PL!onTargetCreated(p) PROVE PL!TypeOK' /\ MapIsKept'
  <2>1. PICK new, id : new \in SUBSET {p} /\ Enters(new, id)
    BY <1>2, PagesEnter DEF PL!onTargetCreated
  <2>2. MapIsKept'
    <3>1. live' = live \cup {} /\ new \subseteq live' \cup closed
      BY <1>2, <2>1 DEF PL!onTargetCreated, MapIsKept
    <3>2. announced' \subseteq live' \cup closed /\ UNCHANGED <<closed, lapsed, firstId>>
          /\ UNCHANGED <<at, target>>
      BY <1>2 DEF PL!onTargetCreated, MapIsKept
    <3>3. {} \in SUBSET Pages /\ {} \cap (live \cup closed) = {}
      OBVIOUS
    <3>4. QED
      BY <2>1, <3>1, <3>2, <3>3, EnteringKeepsTheMap
  <2>3. PL!TypeOK'
    BY <1>2, <2>1, EnteredPages DEF PL!onTargetCreated, PL!TypeOK
  <2>4. QED
    BY <2>2, <2>3
<1>3. ASSUME NEW p \in Pages, PL!TargetHasNoPage(p) PROVE PL!TypeOK' /\ MapIsKept'
  <2>1. PL!TypeOK'
    BY <1>3 DEF PL!TargetHasNoPage, PL!TypeOK, PL!contextVars
  <2>2. MapIsKept'
    BY <1>3, RestingKeepsTheMap DEF PL!TargetHasNoPage, MapIsKept
  <2>3. QED
    BY <2>1, <2>2
<1>4. ASSUME NEW p \in Pages, PL!PageCloses(p) PROVE PL!TypeOK' /\ MapIsKept'
  <2>1. PL!drop({p}) /\ {p} \in SUBSET Pages
    BY <1>4 DEF PL!PageCloses
  <2>2. live' \cup closed' = live \cup closed /\ live' \subseteq live /\ p \notin live'
        /\ UNCHANGED <<announced, lapsed, firstId, at, target>>
    BY <1>4 DEF PL!PageCloses
  <2>3. at'[Tool] = "closing" => target'[Tool] \in PL!Ids /\ pageOf'[target'[Tool]] \in Pages
    BY <2>1, <2>2 DEF MapIsKept, PL!drop
  <2>4. MapIsKept'
    BY <2>1, <2>2, <2>3, DroppingKeepsTheMap
  <2>5. PL!TypeOK'
    BY <1>4, <2>1, Dropped DEF PL!PageCloses, PL!TypeOK
  <2>6. QED
    BY <2>4, <2>5
<1>5. ASSUME NEW r \in Runners, NEW pages \in SUBSET Pages, PL!Fetched(r, pages)
      PROVE  PL!TypeOK' /\ MapIsKept'
  <2>1. PICK new, id : new \in SUBSET pages /\ Enters(new, id)
    BY <1>5, PagesEnter DEF PL!Fetched
  <2>2. MapIsKept'
    <3>1. live' = live \cup {} /\ new \subseteq live' \cup closed
      BY <1>5, <2>1 DEF PL!Fetched
    <3>2. announced' \subseteq live' \cup closed /\ UNCHANGED <<closed, lapsed, firstId>>
      BY <1>5 DEF PL!Fetched, MapIsKept
    <3>3. at'[Tool] = "closing" => at[Tool] = "closing" /\ target'[Tool] = target[Tool]
      BY <1>5 DEF PL!Fetched, PL!TypeOK
    <3>4. {} \in SUBSET Pages /\ {} \cap (live \cup closed) = {}
      OBVIOUS
    <3>5. QED
      BY <2>1, <3>1, <3>2, <3>3, <3>4, EnteringKeepsTheMap
  <2>3. PL!TypeOK'
    BY <1>5, <2>1, EnteredPages DEF PL!Fetched, PL!TypeOK
  <2>4. QED
    BY <2>2, <2>3
<1>6. ASSUME NEW r \in Runners, PL!Pruned(r) PROVE PL!TypeOK' /\ MapIsKept'
  <2>1. PL!drop(Pages \ list[r]) /\ Pages \ list[r] \in SUBSET Pages
    BY <1>6 DEF PL!Pruned
  <2>2. UNCHANGED <<live, closed, announced, list, target, firstId>>
        /\ lapsed' = lapsed \cup {p \in live \ list[r] : mcpPages[p] # 0}
        /\ at' = [at EXCEPT ![r] = IF target[r] # 0 THEN "select" ELSE "answer"]
    BY <1>6 DEF PL!Pruned
  <2>3. at'[Tool] = "closing" => target'[Tool] \in PL!Ids /\ pageOf'[target'[Tool]] \in Pages
    BY <2>1, <2>2 DEF MapIsKept, PL!drop, PL!TypeOK
  <2>4. MapIsKept'
    BY <2>1, <2>2, <2>3, DroppingKeepsTheMap
  <2>5. selected' \in 0 .. MaxId
    <3>1. mcpPages' \in [Pages -> 0 .. MaxId]
      BY <2>1, Dropped
    <3>2. CASE \E p \in Pages : mcpPages'[p] # 0
      BY <1>6, <3>1, <3>2, FirstIsOfTheMap, IdsAreNumbers DEF PL!Pruned, PL!TypeOK
    <3>3. CASE ~ \E p \in Pages : mcpPages'[p] # 0
      BY <1>6, <3>3 DEF PL!Pruned, PL!TypeOK
    <3>4. QED
      BY <3>2, <3>3
  <2>6. fallback' \in BOOLEAN /\ swapped' \in BOOLEAN /\ beside' \in BOOLEAN
    BY <1>6 DEF PL!Pruned, PL!TypeOK
  <2>7. at' \in [Runners -> {"idle", "fetch", "init", "select", "closing", "answer"}]
        /\ lapsed' \subseteq Pages
    BY <2>2 DEF PL!TypeOK
  <2>8. PL!TypeOK'
    BY <2>1, <2>2, <2>5, <2>6, <2>7, Dropped DEF PL!TypeOK
  <2>9. QED
    BY <2>4, <2>8
<1>7. ASSUME NEW r \in Runners, PL!Answered(r) \/ PL!listPages(r) PROVE PL!TypeOK' /\ MapIsKept'
  <2>1. UNCHANGED <<live, closed, announced, PL!contextVars, target, firstId, lapsed, selected, fallback>>
        /\ at' \in [Runners -> {"idle", "fetch", "init", "select", "closing", "answer"}]
        /\ list' \in [Runners -> SUBSET Pages] /\ swapped' \in BOOLEAN /\ beside' \in BOOLEAN
        /\ (at'[Tool] = "closing" => at[Tool] = "closing")
    BY <1>7 DEF PL!Answered, PL!listPages, PL!Starts, PL!TypeOK
  <2>2. PL!TypeOK'
    BY <2>1 DEF PL!TypeOK, PL!contextVars
  <2>3. MapIsKept'
    BY <2>1, RestingKeepsTheMap DEF MapIsKept
  <2>4. QED
    BY <2>2, <2>3
<1>8. ASSUME NEW i \in PL!Ids, PL!selectPage(i) PROVE PL!TypeOK' /\ MapIsKept'
  <2>1. PL!TypeOK'
    <3>1. at' \in [Runners -> {"idle", "fetch", "init", "select", "closing", "answer"}]
          /\ selected' \in 0 .. MaxId /\ beside' \in BOOLEAN
      BY <1>8, IdsAreNumbers DEF PL!selectPage, PL!Starts, PL!TypeOK, PL!Ids
    <3>2. QED
      BY <1>8, <3>1 DEF PL!selectPage, PL!TypeOK, PL!contextVars
  <2>2. MapIsKept'
    BY <1>8, RestingKeepsTheMap DEF PL!selectPage, MapIsKept, PL!TypeOK
  <2>3. QED
    BY <2>1, <2>2
<1>9. ASSUME NEW p \in Pages, PL!newPage(p) PROVE PL!TypeOK' /\ MapIsKept'
  <2>1. PICK new, id : new \in SUBSET {p} /\ Enters(new, id)
    BY <1>9, PagesEnter DEF PL!newPage
  <2>2. MapIsKept'
    <3>1. live' = live \cup {p} /\ {p} \cap (live \cup closed) = {} /\ new \subseteq live' \cup closed
      BY <1>9, <2>1 DEF PL!newPage
    <3>2. announced' \subseteq live' \cup closed /\ UNCHANGED <<closed, lapsed, firstId>>
      BY <1>9 DEF PL!newPage, MapIsKept
    <3>3. at'[Tool] = "closing" => at[Tool] = "closing" /\ target'[Tool] = target[Tool]
      BY <1>9 DEF PL!newPage, PL!TypeOK
    <3>4. {p} \in SUBSET Pages /\ new \in SUBSET Pages
      BY <2>1
    <3>5. QED
      BY <2>1, <3>1, <3>2, <3>3, <3>4, EnteringKeepsTheMap
  <2>3. mcpPages' \in [Pages -> 0 .. MaxId]
    BY <2>1, EnteredPages
  <2>4. at' \in [Runners -> {"idle", "fetch", "init", "select", "closing", "answer"}]
        /\ target' \in [Runners -> 0 .. MaxId]
        /\ live' \subseteq Pages /\ live' \cap closed = {} /\ beside' \in BOOLEAN
    BY <1>9, <2>3 DEF PL!newPage, PL!Starts, PL!TypeOK
  <2>5. PL!TypeOK'
    BY <1>9, <2>1, <2>4, EnteredPages DEF PL!newPage, PL!TypeOK
  <2>6. QED
    BY <2>2, <2>5
<1>10. CASE PL!newPageSelected
  <2>1. PL!TypeOK'
    <3>1. at' \in [Runners -> {"idle", "fetch", "init", "select", "closing", "answer"}]
      BY <1>10 DEF PL!newPageSelected, PL!TypeOK
    <3>2. target' \in [Runners -> 0 .. MaxId] /\ selected' \in 0 .. MaxId
      BY <1>10, IdsAreNumbers DEF PL!newPageSelected, PL!TypeOK
    <3>3. QED
      BY <1>10, <3>1, <3>2 DEF PL!newPageSelected, PL!TypeOK, PL!contextVars
  <2>2. MapIsKept'
    BY <1>10, RestingKeepsTheMap DEF PL!newPageSelected, MapIsKept, PL!TypeOK
  <2>3. QED
    BY <2>1, <2>2
<1>11. ASSUME NEW p \in Pages, PL!closePage(p) PROVE PL!TypeOK' /\ MapIsKept'
  <2>1. PL!drop({p}) /\ {p} \in SUBSET Pages /\ mcpPages[p] # 0
        /\ UNCHANGED <<live, closed, announced, selected, fallback, list, firstId, swapped>>
        /\ lapsed' = lapsed \cup {p} /\ target' = [target EXCEPT ![Tool] = mcpPages[p]]
        /\ at' = [at EXCEPT ![Tool] = "closing"] /\ beside' \in BOOLEAN
    BY <1>11 DEF PL!closePage, PL!Starts, PL!TypeOK
  <2>2. target'[Tool] \in PL!Ids /\ pageOf'[target'[Tool]] \in Pages
    BY <2>1, IdsAreNumbers DEF MapIsKept, PL!drop, PL!TypeOK, PL!Ids
  <2>3. MapIsKept'
    BY <2>1, <2>2, DroppingKeepsTheMap
  <2>4. PL!TypeOK'
    BY <2>1, Dropped DEF PL!TypeOK
  <2>5. QED
    BY <2>3, <2>4
<1>12. ASSUME NEW done \in BOOLEAN, PL!pageClosed(done) PROVE PL!TypeOK' /\ MapIsKept'
  <2> DEFINE p == pageOf[target[Tool]]
  <2>1. p \in Pages
    BY <1>12 DEF PL!pageClosed, MapIsKept
  <2>2. p \in live \cup closed
    BY <1>12, <2>1, PagesAreFinite DEF PL!pageClosed, MapIsKept
  <2>3. at' = [at EXCEPT ![Tool] = "fetch"] /\ target' = [target EXCEPT ![Tool] = 0]
        /\ UNCHANGED <<announced, selected, fallback, list, firstId, lapsed, swapped, beside>>
    BY <1>12 DEF PL!pageClosed
  <2>4. at'[Tool] # "closing"
    BY <2>3 DEF PL!TypeOK
  <2>5. at' \in [Runners -> {"idle", "fetch", "init", "select", "closing", "answer"}]
        /\ target' \in [Runners -> 0 .. MaxId]
    BY <2>3, IdsAreNumbers DEF PL!TypeOK
  <2> HIDE DEF p
  <2>6. CASE done
    <3>1. PL!drop({p}) /\ live' = live \ {p} /\ closed' = closed \cup {p}
      BY <1>12, <2>6 DEF PL!pageClosed, p
    <3>2. MapIsKept'
      BY <2>1, <2>2, <2>3, <2>4, <3>1, DroppingKeepsTheMap
    <3>3. PL!TypeOK'
      BY <2>1, <2>3, <2>5, <3>1, Dropped DEF PL!TypeOK
    <3>4. QED
      BY <3>2, <3>3
  <2>7. CASE ~done
    <3>1. UNCHANGED <<PL!contextVars, live, closed>>
      BY <1>12, <2>7 DEF PL!pageClosed
    <3>2. MapIsKept'
      BY <2>3, <2>4, <3>1, RestingKeepsTheMap DEF MapIsKept
    <3>3. PL!TypeOK'
      BY <2>3, <2>5, <3>1 DEF PL!TypeOK, PL!contextVars
    <3>4. QED
      BY <3>2, <3>3
  <2>8. QED
    BY <2>6, <2>7
<1>13. CASE PL!Reconnect
  <2>1. PL!TypeOK'
    <3>1. at' \in [Runners -> {"idle", "fetch", "init", "select", "closing", "answer"}]
      BY <1>13 DEF PL!Reconnect, PL!TypeOK
    <3>2. mcpPages' \in [Pages -> 0 .. MaxId] /\ selected' \in 0 .. MaxId
          /\ pageOf' \in [PL!Ids -> Pages \cup {None}] /\ firstId' \in 1 .. MaxId + 1
      BY <1>13, IdsAreNumbers DEF PL!Reconnect, PL!TypeOK
    <3>3. QED
      BY <1>13, <3>1, <3>2 DEF PL!Reconnect, PL!TypeOK
  <2>2. MapIsKept'
    BY <1>13, PagesAreFinite DEF PL!Reconnect, PL!TypeOK, MapIsKept, PL!Listed, PL!Ids
  <2>3. QED
    BY <2>1, <2>2
<1>14. CASE UNCHANGED PL!pageListVars
  <2>1. UNCHANGED <<live, closed, announced, mcpPages, nextPageId, pageOf, attached, selected,
                    fallback, at, list, target, firstId, lapsed, swapped, beside>>
    BY <1>14 DEF PL!pageListVars, PL!contextVars
  <2>2. PL!TypeOK'
    BY <2>1 DEF PL!TypeOK
  <2>3. MapIsKept'
    BY <2>1, RestingKeepsTheMap DEF PL!contextVars, MapIsKept
  <2>4. QED
    BY <2>2, <2>3
<1>15. QED
  BY <1>1, <1>2, <1>3, <1>4, <1>5, <1>6, <1>7, <1>8, <1>9, <1>10, <1>11, <1>12, <1>13, <1>14
     DEF PL!Next, PL!Browser, PL!Snapshot, PL!Tools

LEMMA TellingStep == PageListInv /\ [PL!Next]_(PL!pageListVars) => AloneOrTwo' /\ WillBeTold'
<1> SUFFICES ASSUME PL!TypeOK, AloneOrTwo, WillBeTold, [PL!Next]_(PL!pageListVars)
             PROVE  AloneOrTwo' /\ WillBeTold'
  BY DEF PageListInv
<1> USE ToolRuns DEF PL!TypeOK, AloneOrTwo, WillBeTold
<1>1. CASE PL!Browser \/ UNCHANGED PL!pageListVars
  <2>1. UNCHANGED <<at, swapped, fallback, beside>>
    BY <1>1 DEF PL!Browser, PL!PageOpens, PL!onTargetCreated, PL!TargetHasNoPage, PL!PageCloses, PL!runnerVars,
                PL!pageListVars
  <2>2. QED
    BY <2>1
<1>2. ASSUME NEW r \in Runners, NEW pages \in SUBSET Pages, PL!Fetched(r, pages)
      PROVE  AloneOrTwo' /\ WillBeTold'
  <2>1. at[r] = "fetch" /\ at' = [at EXCEPT ![r] = "init"] /\ UNCHANGED <<swapped, fallback, beside>>
    BY <1>2 DEF PL!Fetched
  <2>2. QED
    BY <2>1
<1>3. ASSUME NEW r \in Runners, PL!Pruned(r) PROVE AloneOrTwo' /\ WillBeTold'
  <2>1. at[r] = "init" /\ beside' = beside
        /\ at' = [at EXCEPT ![r] = IF target[r] # 0 THEN "select" ELSE "answer"]
        /\ swapped' = (swapped \/ fallback') /\ fallback' \in BOOLEAN
    BY <1>3 DEF PL!Pruned
  <2>2. ~beside => ~swapped
    BY <2>1
  <2>3. at'[r] \in {"select", "answer"} /\ \A q \in Runners : q # r => at'[q] = at[q]
    BY <2>1
  <2>4. AloneOrTwo'
    BY <2>1, <2>3
  <2>5. WillBeTold'
    BY <2>1, <2>2, <2>3
  <2>6. QED
    BY <2>4, <2>5
<1>4. ASSUME NEW r \in Runners, PL!Answered(r) PROVE AloneOrTwo' /\ WillBeTold'
  <2>1. at[r] = "answer" /\ at' = [at EXCEPT ![r] = "idle"]
        /\ swapped' = (swapped /\ ~fallback /\ ~beside)
        /\ beside' = (beside /\ \E q \in Runners \ {r} : at[q] # "idle")
    BY <1>4 DEF PL!Answered
  <2>2. ~swapped'
    BY <2>1
  <2>3. AloneOrTwo'
    BY <2>1
  <2>4. QED
    BY <2>2, <2>3
<1>5. ASSUME NEW r \in Runners, at[r] = "idle", PL!Starts(r), NEW place \in {"fetch", "closing"},
             at' = [at EXCEPT ![r] = place], swapped' => swapped, fallback' = fallback
      PROVE  AloneOrTwo' /\ WillBeTold'
  <2>1. ~beside' => ~beside /\ \A q \in Runners : q # r => at[q] = "idle"
    BY <1>5 DEF PL!Starts
  <2>2. \A q \in Runners : q # r => at'[q] = at[q]
    BY <1>5
  <2>3. AloneOrTwo'
    BY <2>1, <2>2
  <2>4. WillBeTold'
    BY <1>5, <2>1, <2>2
  <2>5. QED
    BY <2>3, <2>4
<1>6. ASSUME NEW r \in Runners, PL!listPages(r) PROVE AloneOrTwo' /\ WillBeTold'
  BY <1>5, <1>6 DEF PL!listPages
<1>7. ASSUME NEW i \in PL!Ids, PL!selectPage(i) PROVE AloneOrTwo' /\ WillBeTold'
  BY <1>5, <1>7 DEF PL!selectPage
<1>8. ASSUME NEW p \in Pages, PL!newPage(p) \/ PL!closePage(p) PROVE AloneOrTwo' /\ WillBeTold'
  BY <1>5, <1>8 DEF PL!newPage, PL!closePage
<1>9. CASE PL!newPageSelected
  <2>1. at[Tool] = "select" /\ at' = [at EXCEPT ![Tool] = "fetch"] /\ ~swapped' /\ beside' = beside
    BY <1>9 DEF PL!newPageSelected
  <2>2. QED
    BY <2>1
<1>10. ASSUME NEW done \in BOOLEAN, PL!pageClosed(done) PROVE AloneOrTwo' /\ WillBeTold'
  <2>1. at[Tool] = "closing" /\ at' = [at EXCEPT ![Tool] = "fetch"]
        /\ UNCHANGED <<swapped, fallback, beside>>
    BY <1>10 DEF PL!pageClosed
  <2>2. ~beside => ~swapped
    BY <2>1
  <2>3. QED
    BY <2>1, <2>2
<1>11. CASE PL!Reconnect
  <2>1. ~swapped' /\ (\A r \in Runners : at[r] = "idle") /\ at' = [at EXCEPT ![Tool] = "fetch"]
    BY <1>11 DEF PL!Reconnect
  <2>2. QED
    BY <2>1
<1>12. QED
  BY <1>1, <1>2, <1>3, <1>4, <1>6, <1>7, <1>8, <1>9, <1>10, <1>11 DEF PL!Next, PL!Snapshot, PL!Tools

LEMMA PageListStep == PageListInv /\ [PL!Next]_(PL!pageListVars) => PageListInv'
  BY MapStep, TellingStep DEF PageListInv

LEMMA ListKept ==
    PageListInv => PL!ListenersAreOfListedPages /\ PL!IdsResolve /\ PL!FallbackIsTold
<1> SUFFICES ASSUME PageListInv PROVE PL!ListenersAreOfListedPages /\ PL!IdsResolve /\ PL!FallbackIsTold
  OBVIOUS
<1>1. PL!ListenersAreOfListedPages
  BY DEF PageListInv, MapIsKept, PL!ListenersAreOfListedPages
<1>2. PL!IdsResolve
  <2>1. PL!Listed \subseteq firstId .. nextPageId - 1
    BY IdsAreNumbers DEF PageListInv, PL!TypeOK, MapIsKept, PL!Listed
  <2>2. QED
    BY <2>1 DEF PageListInv, MapIsKept, PL!IdsResolve
<1>3. PL!FallbackIsTold
  BY DEF PageListInv, WillBeTold, PL!FallbackIsTold, PL!TypeOK
<1>4. QED
  BY <1>1, <1>2, <1>3

-----------------------------------------------------------------------------
(* The consoles of service workers *)

\* What may still subscribe to a worker: an event that is to come, and init.
Announced(w) == IF w \in announced THEN 1 ELSE 0
InitDue == IF listening = "due" THEN 1 ELSE 0

\* The subscriptions of one worker.
OneWorker(w) ==
    /\ under[w] \in Nat /\ heard[w] \in Nat
    /\ w \notin alive => heard[w] = 0
    /\ w \notin doubled => under[w] + heard[w] <= 1
    /\ listening # "off" /\ w \notin subscribers \cup doubled => heard[w] = 0
    /\ listening # "off" /\ w \in leaving => w \in subscribers /\ w \notin alive
    /\ w \in (alive \cap subscribers) \ leaving => heard[w] >= 1
    /\ listening = "off" /\ heard[w] > 0 => w \in doubled \cup late
    /\ under[w] + heard[w] + Announced(w) + InitDue <= 2
    /\ listening = "due" => under[w] = 0 /\ heard[w] = 0

\* The sets and the stage.
WorkerSets ==
    /\ alive \subseteq Workers /\ announced \subseteq alive
    /\ listening \in {"due", "on", "off"}
    /\ under = [w \in Workers |-> under[w]] /\ heard = [w \in Workers |-> heard[w]]
    /\ subscribers \subseteq Workers /\ leaving \subseteq Workers
    /\ doubled \subseteq Workers /\ late \subseteq Workers

WorkersInv == WorkerSets /\ \A w \in Workers : OneWorker(w)

LEMMA WorkersFirst == WL!Init => WorkersInv
<1> SUFFICES ASSUME WL!Init PROVE WorkersInv
  OBVIOUS
<1>1. WorkerSets
  BY DEF WL!Init, WorkerSets
<1>2. ASSUME NEW w \in Workers PROVE OneWorker(w)
  <2>1. under[w] = 0 /\ heard[w] = 0 /\ listening = "due" /\ subscribers = {} /\ leaving = {}
    BY DEF WL!Init
  <2>2. Announced(w) \in 0 .. 1 /\ InitDue = 1
    BY <2>1 DEF Announced, InitDue
  <2>3. QED
    BY <2>1, <2>2 DEF OneWorker
<1>3. QED
  BY <1>1, <1>2 DEF WorkersInv

LEMMA WorkersStep == WorkersInv /\ [WL!Next]_(WL!workerLogVars) => WorkersInv'
<1> SUFFICES ASSUME WorkersInv, [WL!Next]_(WL!workerLogVars) PROVE WorkersInv'
  OBVIOUS
<1>1. CASE WL!init
  <2>1. WorkerSets'
    BY <1>1 DEF WL!init, WL!onTargetCreated, WorkersInv, WorkerSets
  <2>2. ASSUME NEW v \in Workers PROVE OneWorker(v)'
    <3>1. OneWorker(v) /\ listening \in {"due", "on", "off"}
      BY DEF WorkersInv, WorkerSets
    <3>2. listening = "due" /\ listening' = "on"
          /\ under'[v] = (IF v \in alive \ subscribers THEN under[v] + 1 ELSE under[v])
          /\ doubled' = doubled \cup {w \in alive \ subscribers : under[w] > 0}
          /\ UNCHANGED <<alive, announced, heard, subscribers, leaving, late>>
      BY <1>1 DEF WL!init, WL!onTargetCreated
    <3>3. QED
      BY <3>1, <3>2 DEF OneWorker, Announced, InitDue
  <2>3. QED
    BY <2>1, <2>2 DEF WorkersInv
<1>2. CASE WL!dispose
  <2>1. WorkerSets'
    BY <1>2 DEF WL!dispose, WL!Unsubscribes, WorkersInv, WorkerSets
  <2>2. ASSUME NEW v \in Workers PROVE OneWorker(v)'
    <3>1. OneWorker(v) /\ listening \in {"due", "on", "off"}
      BY DEF WorkersInv, WorkerSets
    <3>2. listening = "on" /\ listening' = "off" /\ subscribers' = {}
          /\ heard'[v] = (IF v \in subscribers /\ heard[v] > 0 THEN heard[v] - 1 ELSE heard[v])
          /\ UNCHANGED <<alive, announced, under, leaving, doubled, late>>
      BY <1>2 DEF WL!dispose, WL!Unsubscribes
    <3>3. QED
      BY <3>1, <3>2 DEF OneWorker, Announced, InitDue
  <2>3. QED
    BY <2>1, <2>2 DEF WorkersInv
<1>3. ASSUME NEW w \in Workers, WL!WorkerStarts(w) PROVE WorkersInv'
  <2>1. WorkerSets'
    BY <1>3 DEF WL!WorkerStarts, WorkersInv, WorkerSets
  <2>2. ASSUME NEW v \in Workers PROVE OneWorker(v)'
    <3>1. OneWorker(v) /\ listening \in {"due", "on", "off"}
      BY DEF WorkersInv, WorkerSets
    <3>2. w \notin alive /\ under[w] = 0 /\ w \notin subscribers
          /\ alive' = alive \cup {w} /\ announced' = announced \cup {w}
          /\ doubled' = doubled \ {w} /\ late' = late \ {w}
          /\ UNCHANGED <<listening, under, heard, subscribers, leaving>>
      BY <1>3 DEF WL!WorkerStarts
    <3>3. QED
      BY <3>1, <3>2 DEF OneWorker, Announced, InitDue
  <2>3. QED
    BY <2>1, <2>2 DEF WorkersInv
<1>4. ASSUME NEW w \in Workers, WL!TargetCreated(w) PROVE WorkersInv'
  <2>1. WorkerSets'
    BY <1>4 DEF WL!TargetCreated, WL!onTargetCreated, WorkersInv, WorkerSets
  <2>2. ASSUME NEW v \in Workers PROVE OneWorker(v)'
    <3>1. OneWorker(v) /\ listening \in {"due", "on", "off"}
      BY DEF WorkersInv, WorkerSets
    <3>2. w \in announced /\ announced' = announced \ {w}
          /\ (IF listening = "on" /\ v = w /\ w \notin subscribers
              THEN under'[v] = under[v] + 1 /\ (v \in doubled' <=> v \in doubled \/ under[v] > 0)
              ELSE under'[v] = under[v] /\ (v \in doubled' <=> v \in doubled))
          /\ UNCHANGED <<alive, listening, heard, subscribers, leaving, late>>
      BY <1>4 DEF WL!TargetCreated, WL!onTargetCreated
    <3>3. QED
      BY <3>1, <3>2 DEF OneWorker, Announced, InitDue
  <2>3. QED
    BY <2>1, <2>2 DEF WorkersInv
<1>5. ASSUME NEW w \in Workers, WL!Subscribed(w) PROVE WorkersInv'
  <2>1. WorkerSets'
    BY <1>5 DEF WL!Subscribed, WorkersInv, WorkerSets
  <2>2. ASSUME NEW v \in Workers PROVE OneWorker(v)'
    <3>1. OneWorker(v) /\ listening \in {"due", "on", "off"}
      BY DEF WorkersInv, WorkerSets
    <3>2. under[w] > 0 /\ under'[v] = (IF v = w THEN under[v] - 1 ELSE under[v])
          /\ heard'[v] = (IF v = w /\ w \in alive THEN heard[v] + 1 ELSE heard[v])
          /\ subscribers' = subscribers \cup {w}
          /\ late' = (IF listening = "off" THEN late \cup {w} ELSE late)
          /\ UNCHANGED <<alive, announced, listening, leaving, doubled>>
      BY <1>5 DEF WL!Subscribed, WorkersInv, WorkerSets
    <3>3. CASE v = w /\ w \in alive
      <4>1. /\ under'[v] = under[v] - 1 /\ heard'[v] = heard[v] + 1 /\ under[v] > 0
            /\ v \in subscribers' /\ listening # "due" /\ (listening = "off" => v \in late')
        BY <3>1, <3>2, <3>3 DEF OneWorker
      <4>2. QED
        BY <3>1, <3>2, <3>3, <4>1 DEF OneWorker, Announced, InitDue
    <3>4. CASE v = w /\ w \notin alive
      <4>1. /\ under'[v] = under[v] - 1 /\ heard'[v] = heard[v] /\ under[v] > 0
            /\ heard[v] = 0 /\ v \in subscribers' /\ listening # "due"
        BY <3>1, <3>2, <3>4 DEF OneWorker
      <4>2. QED
        BY <3>1, <3>2, <3>4, <4>1 DEF OneWorker, Announced, InitDue
    <3>5. CASE v # w
      BY <3>1, <3>2, <3>5 DEF OneWorker, Announced, InitDue
    <3>6. QED
      BY <3>3, <3>4, <3>5
  <2>3. QED
    BY <2>1, <2>2 DEF WorkersInv
<1>6. ASSUME NEW w \in Workers, WL!WorkerStops(w) PROVE WorkersInv'
  <2>1. WorkerSets'
    BY <1>6 DEF WL!WorkerStops, WorkersInv, WorkerSets
  <2>2. ASSUME NEW v \in Workers PROVE OneWorker(v)'
    <3>1. OneWorker(v) /\ listening \in {"due", "on", "off"}
      BY DEF WorkersInv, WorkerSets
    <3>2. w \in alive /\ alive' = alive \ {w} /\ announced' = announced \ {w}
          /\ heard'[v] = (IF v = w THEN 0 ELSE heard[v])
          /\ leaving' = (IF listening = "on" THEN leaving \cup ({w} \cap subscribers) ELSE leaving)
          /\ UNCHANGED <<listening, under, subscribers, doubled, late>>
      BY <1>6 DEF WL!WorkerStops, WorkersInv, WorkerSets
    <3>3. QED
      BY <3>1, <3>2 DEF OneWorker, Announced, InitDue
  <2>3. QED
    BY <2>1, <2>2 DEF WorkersInv
<1>7. ASSUME NEW w \in Workers, WL!Detached(w) PROVE WorkersInv'
  <2>1. WorkerSets'
    BY <1>7 DEF WL!Detached, WorkersInv, WorkerSets
  <2>2. ASSUME NEW v \in Workers PROVE OneWorker(v)'
    <3>1. OneWorker(v) /\ listening \in {"due", "on", "off"}
      BY DEF WorkersInv, WorkerSets
    <3>2. w \in leaving /\ leaving' = leaving \ {w} /\ subscribers' = subscribers \ {w}
          /\ UNCHANGED <<alive, announced, listening, under, heard, doubled, late>>
      BY <1>7 DEF WL!Detached
    <3>3. QED
      BY <3>1, <3>2 DEF OneWorker, Announced, InitDue
  <2>3. QED
    BY <2>1, <2>2 DEF WorkersInv
<1>8. CASE UNCHANGED WL!workerLogVars
  BY <1>8 DEF WL!workerLogVars, WorkersInv, WorkerSets, OneWorker, Announced, InitDue
<1>9. QED
  BY <1>1, <1>2, <1>3, <1>4, <1>5, <1>6, <1>7, <1>8 DEF WL!Next

LEMMA WorkersKept == WorkersInv => WL!TypeOK /\ WL!WorkersAreHeardOnce
<1> SUFFICES ASSUME WorkersInv PROVE WL!TypeOK /\ WL!WorkersAreHeardOnce
  OBVIOUS
<1>1. ASSUME NEW w \in Workers PROVE under[w] \in 0 .. 2 /\ heard[w] \in 0 .. 2
  BY DEF WorkersInv, OneWorker, Announced, InitDue
<1>2. WL!TypeOK
  BY <1>1 DEF WorkersInv, WorkerSets, WL!TypeOK
<1>3. WL!WorkersAreHeardOnce
  BY DEF WorkersInv, OneWorker, WL!WorkersAreHeardOnce
<1>4. QED
  BY <1>2, <1>3

LEMMA WorkersAreTyped == WorkersInv => WL!TypeOK
<1> SUFFICES ASSUME WorkersInv PROVE WL!TypeOK
  OBVIOUS
<1>1. ASSUME NEW w \in Workers PROVE under[w] \in 0 .. 2 /\ heard[w] \in 0 .. 2
  <2>1. /\ under[w] \in Nat /\ heard[w] \in Nat /\ Announced(w) \in Nat /\ InitDue \in Nat
        /\ under[w] + heard[w] + Announced(w) + InitDue <= 2
    BY DEF WorkersInv, OneWorker, Announced, InitDue
  <2>2. QED
    BY <2>1
<1>2. under \in [Workers -> 0 .. 2] /\ heard \in [Workers -> 0 .. 2]
  BY <1>1 DEF WorkersInv, WorkerSets
<1>3. QED
  BY <1>2 DEF WorkersInv, WorkerSets, WL!TypeOK

-----------------------------------------------------------------------------
(* Browser contexts *)

LEMMA ContextsAreCounted == \A S : IC!Cardinality(S) = Cardinality(S)
  BY DEF Cardinality, IC!Cardinality

\* The place of a number among those of a finite set.
LEMMA PlaceAmong ==
    ASSUME NEW U, U \subseteq Nat, IsFiniteSet(U), NEW c \in U
    PROVE  /\ Cardinality({d \in U : d < c}) \in 0 .. Cardinality(U) - 1
           /\ \A e \in U : c < e =>
                Cardinality({d \in U : d < c}) < Cardinality({d \in U : d < e})
<1> DEFINE L(e) == {d \in U : d < e}
<1>1. \A e \in U : IsFiniteSet(L(e)) /\ Cardinality(L(e)) \in Nat
  BY FS_Subset, FS_CardinalityType
<1>2. ASSUME NEW T, IsFiniteSet(T), L(c) \subseteq T, c \in T
      PROVE  Cardinality(L(c)) < Cardinality(T)
  <2>1. c \notin L(c)
    OBVIOUS
  <2>2. Cardinality(L(c) \cup {c}) = Cardinality(L(c)) + 1
    BY <1>1, <2>1, FS_AddElement
  <2>3. Cardinality(L(c) \cup {c}) <= Cardinality(T) /\ Cardinality(T) \in Nat
    BY <1>2, FS_Subset, FS_CardinalityType
  <2>4. QED
    BY <1>1, <2>2, <2>3
<1>3. Cardinality(L(c)) < Cardinality(U) /\ Cardinality(U) \in Nat
  BY <1>2, FS_CardinalityType
<1>4. ASSUME NEW e \in U, c < e PROVE Cardinality(L(c)) < Cardinality(L(e))
  <2>1. c \in Nat /\ e \in Nat /\ \A d \in L(c) : d \in Nat /\ d \in U /\ d < c
    OBVIOUS
  <2>2. L(c) \subseteq L(e) /\ c \in L(e)
    <3>1. ASSUME NEW d \in L(c) PROVE d < e
      BY <1>4, <2>1
    <3>2. QED
      BY <1>4, <2>1, <3>1
  <2>3. QED
    BY <1>1, <1>2, <2>2
<1>5. QED
  BY <1>1, <1>3, <1>4

\* The contexts that have a generated name.
Generic(names) == {c \in 1 .. contexts : \E k \in 1 .. MaxContexts : names[k] = c}

\* A context has one name; the generated names are taken in their order, each for a
\* context.
NamesAreInOrder ==
    /\ \A m, n \in IC!Names :
          isolatedContexts[m] = isolatedContexts[n] /\ isolatedContexts[m] # None => m = n
    /\ \A k \in nextIsolatedContextId .. MaxContexts : isolatedContexts[k] = None
    /\ nextIsolatedContextId - 1 <= Cardinality(Generic(isolatedContexts))

\* What a page was asked for under, and what it is called, is its context's.
NamesAreOfPages ==
    /\ opening # None => name \in CallerNames /\ isolatedContexts[name] # None
    /\ \A p \in ContextPages : asked[p] # None =>
          isolatedContexts[asked[p]] = pageIn[p] /\ pageIn[p] # None
    /\ \A p \in ContextPages : label[p] # 0 =>
          /\ pageIn[p] # None /\ (label[p] = None <=> pageIn[p] = Default)
          /\ label[p] # None => isolatedContexts[label[p]] = pageIn[p]

ContextsInv == IC!TypeOK /\ NamesAreInOrder /\ NamesAreOfPages

LEMMA GenericIsFinite ==
    ASSUME IC!TypeOK, NEW names
    PROVE  /\ IsFiniteSet(1 .. contexts) /\ Cardinality(1 .. contexts) = contexts
           /\ IsFiniteSet(Generic(names)) /\ Cardinality(Generic(names)) \in Nat
           /\ contexts \in Nat /\ contexts <= MaxContexts
<1>1. contexts \in Nat /\ contexts <= MaxContexts
  BY ContextsAreNumbers DEF IC!TypeOK
<1>2. IsFiniteSet(1 .. contexts) /\ Cardinality(1 .. contexts) = contexts
  BY <1>1, FS_Interval
<1>3. Generic(names) \subseteq 1 .. contexts
  BY DEF Generic
<1>4. QED
  BY <1>1, <1>2, <1>3, FS_Subset, FS_CardinalityType

\* What Discovered is: the names there were, and one for each open context that had
\* none.
NamesDiscovered(names, next) ==
    /\ names \in [IC!Names -> (1 .. contexts) \cup {None}]
    /\ \A n \in IC!Names : isolatedContexts[n] # None => names[n] = isolatedContexts[n]
    /\ \A m, n \in IC!Names : names[m] = names[n] /\ names[m] # None => m = n
    /\ \A c \in open : \E n \in IC!Names : names[n] = c
    /\ next \in 1 .. MaxContexts + 1
    /\ \A k \in next .. MaxContexts : names[k] = None
    /\ next - 1 <= Cardinality(Generic(names))

LEMMA EveryContextIsNamed ==
    ASSUME IC!TypeOK, NamesAreInOrder
    PROVE  NamesDiscovered(IC!Discovered,
                           nextIsolatedContextId + IC!Cardinality(IC!undiscovered))
<1> DEFINE U == IC!undiscovered
           rank(c) == Cardinality({d \in U : d < c})
           nm(c) == nextIsolatedContextId + rank(c)
           G == Generic(isolatedContexts)
           D == IC!Discovered
           next == nextIsolatedContextId + Cardinality(U)
<1>1. U \subseteq 1 .. contexts /\ U \subseteq Nat /\ IsFiniteSet(U) /\ Cardinality(U) \in Nat
  <2>1. U \subseteq 1 .. contexts
    BY DEF IC!undiscovered, IC!TypeOK
  <2> HIDE DEF U
  <2>2. IsFiniteSet(U)
    BY <2>1, GenericIsFinite, FS_Subset
  <2>3. QED
    BY <2>1, <2>2, FS_CardinalityType
<1>2. Cardinality(G \cup U) = Cardinality(G) + Cardinality(U) /\ IsFiniteSet(G \cup U)
  <2>1. G \cap U = {}
    BY DEF Generic, IC!undiscovered, IC!Names, IC!Generated
  <2>2. IsFiniteSet(G) /\ Cardinality(G) \in Nat
    BY GenericIsFinite
  <2> HIDE DEF U, G
  <2>3. QED
    BY <1>1, <2>1, <2>2, FS_Union, FS_EmptySet
<1>3. next - 1 <= contexts /\ next \in 1 .. MaxContexts + 1
  <2>1. G \cup U \subseteq 1 .. contexts
    BY <1>1 DEF Generic
  <2>2. Cardinality(G \cup U) <= contexts
    BY <2>1, GenericIsFinite, FS_Subset
  <2>3. nextIsolatedContextId \in Nat /\ nextIsolatedContextId >= 1
        /\ nextIsolatedContextId - 1 <= Cardinality(G)
    BY DEF NamesAreInOrder, IC!TypeOK
  <2>4. QED
    BY <1>1, <1>2, <2>2, <2>3, GenericIsFinite, ContextsAreNumbers
<1>4. \A c \in U : rank(c) \in 0 .. Cardinality(U) - 1
  BY <1>1, PlaceAmong
<1>5. \A c, e \in U : c < e => rank(c) < rank(e)
  BY <1>1, PlaceAmong
<1> HIDE DEF rank, U
<1>6. \A c \in U : /\ nm(c) \in nextIsolatedContextId .. next - 1 /\ nm(c) \in IC!Names
                   /\ nm(c) \in 1 .. MaxContexts /\ isolatedContexts[nm(c)] = None
  <2>1. ASSUME NEW c \in U
        PROVE  nm(c) \in nextIsolatedContextId .. next - 1 /\ nm(c) \in 1 .. MaxContexts
    BY <1>1, <1>3, <1>4, ContextsAreNumbers DEF IC!TypeOK
  <2>2. ASSUME NEW c \in U
        PROVE  nm(c) \in IC!Names /\ isolatedContexts[nm(c)] = None
    BY <2>1, ContextsAreNumbers DEF NamesAreInOrder, IC!Names, IC!Generated, IC!TypeOK
  <2>3. QED
    BY <2>1, <2>2
<1>7. \A c, e \in U : nm(c) = nm(e) => c = e
  <2>1. ASSUME NEW c \in U, NEW e \in U, nm(c) = nm(e), c # e PROVE FALSE
    <3>1. c \in Nat /\ e \in Nat /\ rank(c) \in Int /\ rank(e) \in Int
      BY <1>1, <1>4
    <3>2. rank(c) = rank(e)
      BY <2>1, <3>1 DEF IC!TypeOK
    <3>3. c < e \/ e < c
      BY <2>1, <3>1
    <3>4. QED
      BY <1>5, <3>1, <3>2, <3>3
  <2>2. QED
    BY <2>1
<1>8. D = [n \in IC!Names |-> IF \E c \in U : n = nm(c)
                              THEN CHOOSE c \in U : n = nm(c) ELSE isolatedContexts[n]]
  BY ContextsAreCounted DEF IC!Discovered, IC!Generated, U, rank
<1> HIDE DEF nm, D, next
<1>9. ASSUME NEW n \in IC!Names
      PROVE  \/ D[n] \in U /\ n = nm(D[n])
             \/ (\A c \in U : n # nm(c)) /\ D[n] = isolatedContexts[n]
  <2>1. D[n] = IF \E c \in U : n = nm(c) THEN CHOOSE c \in U : n = nm(c)
                                          ELSE isolatedContexts[n]
    BY <1>8
  <2>2. QED
    BY <2>1
<1>10. \A c \in U : D[nm(c)] = c
  BY <1>6, <1>7, <1>9
<1>11. D \in [IC!Names -> (1 .. contexts) \cup {None}]
  <2>1. ASSUME NEW n \in IC!Names PROVE D[n] \in (1 .. contexts) \cup {None}
    <3>1. isolatedContexts[n] \in (1 .. contexts) \cup {None}
      BY DEF IC!TypeOK
    <3>2. QED
      BY <1>1, <1>9, <3>1
  <2>2. QED
    BY <1>8, <2>1
<1>12. \A n \in IC!Names : isolatedContexts[n] # None => D[n] = isolatedContexts[n]
  BY <1>6, <1>9
<1>13. \A n \in IC!Names : isolatedContexts[n] \notin U
  BY DEF U, IC!undiscovered
<1>14. ASSUME NEW m \in IC!Names, NEW n \in IC!Names, D[m] = D[n], D[m] # None
       PROVE  m = n
  <2>1. CASE D[m] \in U /\ m = nm(D[m])
    BY <1>9, <1>13, <1>14, <2>1
  <2>2. CASE D[m] = isolatedContexts[m]
    BY <1>9, <1>13, <1>14, <2>2 DEF NamesAreInOrder
  <2>3. QED
    BY <1>9, <2>1, <2>2
<1>15. ASSUME NEW c \in open PROVE \E n \in IC!Names : D[n] = c
  <2>1. CASE c \in U
    BY <1>6, <1>10, <2>1
  <2>2. CASE c \notin U
    <3>1. PICK n \in IC!Names : isolatedContexts[n] = c
      BY <2>2 DEF U, IC!undiscovered
    <3>2. c # None
      BY ContextsAreNumbers DEF IC!TypeOK
    <3>3. QED
      BY <1>12, <3>1, <3>2
  <2>3. QED
    BY <2>1, <2>2
<1>16. ASSUME NEW k \in next .. MaxContexts PROVE D[k] = None
  <2>1. k \in nextIsolatedContextId .. MaxContexts /\ k \in IC!Names /\ k >= next
    BY <1>1, ContextsAreNumbers DEF IC!TypeOK, next, IC!Names, IC!Generated
  <2>2. \A c \in U : nm(c) < next
    BY <1>1, <1>6 DEF next, IC!TypeOK
  <2>3. next \in Int
    BY <1>3
  <2>4. \A c \in U : nm(c) # k
    BY <1>6, <2>1, <2>2, <2>3
  <2>5. isolatedContexts[k] = None
    BY <2>1 DEF NamesAreInOrder
  <2>6. D[k] \in U => k = nm(D[k])
    BY <1>9, <1>13, <2>1
  <2>7. QED
    BY <1>9, <2>1, <2>4, <2>5, <2>6
<1>17. next - 1 <= Cardinality(Generic(D))
  <2>1. G \subseteq Generic(D)
    <3>1. ASSUME NEW c \in G PROVE c \in Generic(D)
      <4>1. PICK k \in 1 .. MaxContexts : isolatedContexts[k] = c
        BY DEF Generic
      <4>2. c \in 1 .. contexts /\ c # None /\ k \in IC!Names
        <5>1. c \in 0 .. MaxContexts /\ c \in 1 .. contexts
          <6>1. contexts \in Nat /\ contexts <= MaxContexts /\ MaxContexts \in Nat
            BY GenericIsFinite, ContextsAreNumbers
          <6>2. c \in 1 .. contexts
            BY DEF Generic
          <6>3. QED
            BY <6>1, <6>2
        <5>2. QED
          BY <5>1, ContextsAreNumbers DEF IC!Names, IC!Generated
      <4>3. D[k] = c
        BY <1>12, <4>1, <4>2
      <4>4. QED
        BY <4>2, <4>3 DEF Generic
    <3>2. QED
      BY <3>1
  <2>2. U \subseteq Generic(D)
    BY <1>1, <1>6, <1>10 DEF Generic
  <2>3. Cardinality(G) + Cardinality(U) <= Cardinality(Generic(D))
    BY <1>2, <2>1, <2>2, GenericIsFinite, FS_Subset
  <2>4. nextIsolatedContextId - 1 <= Cardinality(G) /\ nextIsolatedContextId \in Int
    BY DEF NamesAreInOrder, IC!TypeOK
  <2>5. QED
    BY <1>1, <2>3, <2>4, GenericIsFinite DEF next
<1>18. nextIsolatedContextId + IC!Cardinality(IC!undiscovered) = next
  BY ContextsAreCounted DEF next, U
<1>19. NamesDiscovered(D, next)
  BY <1>3, <1>11, <1>12, <1>14, <1>15, <1>16, <1>17 DEF NamesDiscovered
<1>20. QED
  BY <1>18, <1>19 DEF D

LEMMA ContextsFirst == IC!Init => ContextsInv
<1> SUFFICES ASSUME IC!Init PROVE ContextsInv
  OBVIOUS
<1>1. IC!TypeOK
  BY ContextsAreNumbers DEF IC!Init, IC!TypeOK, IC!Unknown
<1>2. NamesAreInOrder
  <2>1. \A n \in IC!Names : isolatedContexts[n] = None
    BY DEF IC!Init
  <2>2. \A k \in 1 .. MaxContexts : k \in IC!Names
    BY DEF IC!Names, IC!Generated
  <2>3. Cardinality(Generic(isolatedContexts)) \in Nat
    BY <1>1, GenericIsFinite
  <2>4. nextIsolatedContextId = 1
    BY DEF IC!Init
  <2>5. QED
    BY <2>1, <2>2, <2>3, <2>4 DEF NamesAreInOrder
<1>3. NamesAreOfPages
  BY DEF IC!Init, NamesAreOfPages, IC!Unknown
<1>4. QED
  BY <1>1, <1>2, <1>3 DEF ContextsInv

\* A step that adds a context, named by a caller or not at all.
LEMMA ContextAdded ==
    ASSUME IC!TypeOK, NamesAreInOrder, UNCHANGED nextIsolatedContextId,
           contexts' \in {contexts, contexts + 1}, contexts' <= MaxContexts,
           \/ UNCHANGED isolatedContexts
           \/ /\ contexts' = contexts + 1
              /\ \E n \in CallerNames :
                    isolatedContexts' = [isolatedContexts EXCEPT ![n] = contexts + 1]
    PROVE  /\ NamesAreInOrder'
           /\ isolatedContexts' \in [IC!Names -> (1 .. contexts') \cup {None}]
<1>1. contexts \in Nat /\ contexts' \in Nat /\ contexts <= contexts'
  BY DEF IC!TypeOK
<1>2. isolatedContexts' \in [IC!Names -> (1 .. contexts') \cup {None}]
      /\ DOMAIN isolatedContexts = IC!Names
  BY <1>1 DEF IC!TypeOK
<1>3. \A k \in 1 .. MaxContexts : k \in IC!Names /\ isolatedContexts'[k] = isolatedContexts[k]
  BY <1>2, ContextsAreNumbers DEF IC!Names, IC!Generated
<1>4. Generic(isolatedContexts)' = Generic(isolatedContexts)
  <2>1. \A k \in 1 .. MaxContexts : isolatedContexts[k] \in (1 .. contexts) \cup {None}
    BY <1>3 DEF IC!TypeOK
  <2>2. \A k \in 1 .. MaxContexts : \A c \in 1 .. contexts' :
            isolatedContexts[k] = c => c \in 1 .. contexts
    <3>1. \A c \in 1 .. contexts' : c \in 0 .. MaxContexts
      BY <1>1, ContextsAreNumbers
    <3>2. QED
      BY <2>1, <3>1, ContextsAreNumbers
  <2>3. 1 .. contexts \subseteq 1 .. contexts'
    BY <1>1
  <2>4. QED
    BY <1>3, <2>2, <2>3 DEF Generic
<1>5. ASSUME NEW m \in IC!Names, NEW n \in IC!Names,
             isolatedContexts'[m] = isolatedContexts'[n], isolatedContexts'[m] # None
      PROVE  m = n
  <2>1. CASE UNCHANGED isolatedContexts
    BY <1>5, <2>1 DEF NamesAreInOrder
  <2>2. ASSUME NEW c \in CallerNames,
               isolatedContexts' = [isolatedContexts EXCEPT ![c] = contexts + 1]
        PROVE  m = n
    <3>1. \A k \in IC!Names : k # c => isolatedContexts'[k] = isolatedContexts[k]
      BY <1>2, <2>2
    <3>2. isolatedContexts'[c] = contexts + 1
      BY <1>2, <2>2 DEF IC!Names
    <3>3. contexts + 1 \in Nat
      BY <1>1
    <3>4. \A k \in IC!Names : isolatedContexts[k] # contexts + 1 \/ isolatedContexts[k] = None
      <4>1. contexts + 1 \notin 1 .. contexts
        BY <1>1
      <4>2. QED
        BY <4>1 DEF IC!TypeOK
    <3>5. QED
      BY <1>5, <3>1, <3>2, <3>4 DEF NamesAreInOrder
  <2>3. QED
    BY <2>1, <2>2
<1>6. \A k \in nextIsolatedContextId' .. MaxContexts : isolatedContexts'[k] = None
  BY <1>3, ContextsAreNumbers DEF NamesAreInOrder, IC!TypeOK
<1>7. QED
  BY <1>2, <1>4, <1>5, <1>6 DEF NamesAreInOrder

\* Pages that go take their labels and what they were asked for with them.
LEMMA PagesGone ==
    ASSUME IC!TypeOK, NamesAreOfPages, NEW S \in SUBSET ContextPages, IC!Gone(S),
           UNCHANGED isolatedContexts
    PROVE  /\ NamesAreOfPages'
           /\ label' \in [ContextPages -> IC!Names \cup {None, IC!Unknown}]
           /\ asked' \in [ContextPages -> CallerNames \cup {None}]
           /\ opening' \in ContextPages \cup {None} /\ name' \in CallerNames \cup {None}
           /\ \A p \in ContextPages : pageIn'[p] = IF p \in S THEN None ELSE pageIn[p]
<1>1. \A p \in ContextPages :
          /\ pageIn'[p] = (IF p \in S THEN None ELSE pageIn[p])
          /\ label'[p] = (IF p \in S THEN 0 ELSE label[p])
          /\ asked'[p] = (IF p \in S THEN None ELSE asked[p])
  BY DEF IC!Gone, IC!Unknown
<1>2. \/ opening' = None /\ name' = None
      \/ UNCHANGED <<opening, name>>
  BY DEF IC!Gone
<1>3. NamesAreOfPages'
  BY <1>1, <1>2, ContextsAreNumbers DEF NamesAreOfPages
<1>4. label' \in [ContextPages -> IC!Names \cup {None, IC!Unknown}]
      /\ asked' \in [ContextPages -> CallerNames \cup {None}]
  BY DEF IC!Gone, IC!TypeOK
<1>5. QED
  BY <1>1, <1>2, <1>3, <1>4 DEF IC!TypeOK

\* A page that is entered is called by the one name of its context.
LEMMA PageEntered ==
    ASSUME ContextsInv, NEW p \in ContextPages, IC!createMcpPage(p)
    PROVE  ContextsInv'
<1> DEFINE D == IC!Discovered
           next == nextIsolatedContextId + IC!Cardinality(IC!undiscovered)
           named == {n \in IC!Names : D[n] = pageIn[p]}
           generic == named \ CallerNames
<1>1. NamesDiscovered(D, next)
  BY EveryContextIsNamed DEF ContextsInv
<1>2. isolatedContexts' = D /\ nextIsolatedContextId' = next
      /\ UNCHANGED <<contexts, open, pageIn, opening, name, asked>>
  BY DEF IC!createMcpPage
<1>3. pageIn[p] # None /\ label[p] = 0
      /\ label' = [label EXCEPT ![p] = IF pageIn[p] = Default THEN None
                       ELSE CHOOSE n \in (IF generic # {} THEN generic ELSE named) : TRUE]
  BY DEF IC!createMcpPage, IC!There, IC!Unknown
<1> HIDE DEF D, next
<1>4. pageIn[p] # Default => label'[p] \in named
  <2>1. ASSUME pageIn[p] # Default PROVE named # {}
    <3>1. pageIn[p] \in open
      BY <1>3, <2>1 DEF ContextsInv, IC!TypeOK
    <3>2. QED
      BY <1>1, <3>1 DEF NamesDiscovered
  <2>2. generic \subseteq named
    OBVIOUS
  <2>3. label'[p] = IF pageIn[p] = Default THEN None
                    ELSE CHOOSE n \in (IF generic # {} THEN generic ELSE named) : TRUE
    BY <1>3 DEF ContextsInv, IC!TypeOK
  <2> HIDE DEF named, generic
  <2>4. QED
    BY <2>1, <2>2, <2>3
<1>5. pageIn[p] = Default => label'[p] = None
  BY <1>3 DEF ContextsInv, IC!TypeOK
<1>6. \A q \in ContextPages : q # p => label'[q] = label[q]
  BY <1>3 DEF ContextsInv, IC!TypeOK
<1>7. \A n \in IC!Names : n # None
  BY ContextsAreNumbers DEF IC!Names, IC!Generated
<1>8. IC!TypeOK'
  <2>1. label' \in [ContextPages -> IC!Names \cup {None, IC!Unknown}]
    BY <1>3, <1>4, <1>5, <1>6 DEF ContextsInv, IC!TypeOK
  <2>2. QED
    BY <1>1, <1>2, <2>1 DEF ContextsInv, IC!TypeOK, NamesDiscovered
<1>9. NamesAreInOrder'
  <2>1. Generic(isolatedContexts)' = Generic(D)
    BY <1>2 DEF Generic
  <2>2. QED
    BY <1>1, <1>2, <2>1 DEF NamesDiscovered, NamesAreInOrder
<1>10. NamesAreOfPages'
  <2>1. \A n \in IC!Names : isolatedContexts[n] # None => isolatedContexts'[n] = isolatedContexts[n]
    BY <1>1, <1>2 DEF NamesDiscovered
  <2>2. opening' # None => name' \in CallerNames /\ isolatedContexts'[name'] # None
    BY <1>2, <2>1 DEF ContextsInv, NamesAreOfPages, IC!Names
  <2>3. ASSUME NEW q \in ContextPages, asked'[q] # None
        PROVE  isolatedContexts'[asked'[q]] = pageIn'[q] /\ pageIn'[q] # None
    <3>1. asked[q] \in IC!Names
      BY <1>2, <2>3 DEF ContextsInv, IC!TypeOK, IC!Names
    <3>2. QED
      BY <1>2, <2>1, <2>3, <3>1 DEF ContextsInv, NamesAreOfPages
  <2>4. ASSUME NEW q \in ContextPages, label'[q] # 0
        PROVE  /\ pageIn'[q] # None /\ (label'[q] = None <=> pageIn'[q] = Default)
               /\ label'[q] # None => isolatedContexts'[label'[q]] = pageIn'[q]
    <3>1. CASE q = p
      BY <1>2, <1>3, <1>4, <1>5, <1>7, <3>1
    <3>2. CASE q # p
      <4>1. label[q] # 0 /\ label'[q] = label[q] /\ pageIn'[q] = pageIn[q]
        BY <1>2, <1>6, <2>4, <3>2
      <4>2. label[q] # None => label[q] \in IC!Names /\ isolatedContexts[label[q]] # None
        BY <4>1 DEF ContextsInv, NamesAreOfPages, IC!TypeOK, IC!Unknown
      <4>3. QED
        BY <2>1, <4>1, <4>2 DEF ContextsInv, NamesAreOfPages
    <3>3. QED
      BY <3>1, <3>2
  <2>5. QED
    BY <2>2, <2>3, <2>4 DEF NamesAreOfPages
<1>11. QED
  BY <1>8, <1>9, <1>10 DEF ContextsInv

LEMMA ContextsStep == ContextsInv /\ [IC!Next]_(IC!isolationVars) => ContextsInv'
<1> SUFFICES ASSUME ContextsInv, [IC!Next]_(IC!isolationVars) PROVE ContextsInv'
  OBVIOUS
<1>0. IC!TypeOK /\ NamesAreInOrder /\ NamesAreOfPages /\ contexts \in Nat
      /\ contexts <= MaxContexts
  BY ContextsAreNumbers DEF ContextsInv, IC!TypeOK
<1>1. ASSUME NEW n \in CallerNames, NEW p \in ContextPages, IC!newPage(n, p)
      PROVE  ContextsInv'
  <2>1. UNCHANGED <<pageIn, nextIsolatedContextId, label, asked>>
        /\ pageIn[p] = None /\ opening' = p /\ name' = n
    BY <1>1 DEF IC!newPage
  <2>2. \/ /\ isolatedContexts[n] = None /\ contexts' = contexts + 1 /\ contexts < MaxContexts
           /\ open' = open \cup {contexts'}
           /\ isolatedContexts' = [isolatedContexts EXCEPT ![n] = contexts + 1]
        \/ isolatedContexts[n] # None /\ UNCHANGED <<contexts, open, isolatedContexts>>
    BY <1>1 DEF IC!newPage
  <2>3. contexts' \in {contexts, contexts + 1} /\ contexts' <= MaxContexts /\ contexts' \in Nat
        /\ contexts <= contexts'
    BY <1>0, <2>2, ContextsAreNumbers
  <2>4. NamesAreInOrder' /\ isolatedContexts' \in [IC!Names -> (1 .. contexts') \cup {None}]
    BY <1>0, <2>1, <2>2, <2>3, ContextAdded
  <2>5. isolatedContexts'[n] # None
    <3>1. contexts + 1 \in 0 .. MaxContexts \/ isolatedContexts[n] # None
      BY <1>0, <2>2, ContextsAreNumbers
    <3>2. n \in IC!Names
      BY DEF IC!Names
    <3>3. QED
      BY <1>0, <2>2, <3>1, <3>2, ContextsAreNumbers DEF IC!TypeOK
  <2>6. \A m \in IC!Names :
            isolatedContexts[m] # None => isolatedContexts'[m] = isolatedContexts[m]
    BY <1>0, <2>2 DEF IC!TypeOK
  <2>7. NamesAreOfPages'
    <3>1. ASSUME NEW q \in ContextPages, asked[q] # None
          PROVE  isolatedContexts'[asked[q]] = pageIn[q] /\ pageIn[q] # None
      BY <1>0, <2>6, <3>1 DEF NamesAreOfPages, IC!TypeOK, IC!Names
    <3>2. ASSUME NEW q \in ContextPages, label[q] # 0
          PROVE  /\ pageIn[q] # None /\ (label[q] = None <=> pageIn[q] = Default)
                 /\ label[q] # None => isolatedContexts'[label[q]] = pageIn[q]
      <4>1. label[q] # None => label[q] \in IC!Names /\ isolatedContexts[label[q]] # None
        BY <1>0, <3>2 DEF NamesAreOfPages, IC!TypeOK, IC!Unknown
      <4>2. QED
        BY <1>0, <2>6, <3>2, <4>1 DEF NamesAreOfPages
    <3>3. QED
      BY <2>1, <2>5, <3>1, <3>2 DEF NamesAreOfPages
  <2>8. IC!TypeOK'
    <3>1. open' \subseteq 1 .. contexts' /\ open \subseteq open'
      <4>1. open \subseteq 1 .. contexts'
        BY <1>0, <2>3 DEF IC!TypeOK
      <4>2. contexts' = contexts + 1 => contexts' \in 1 .. contexts'
        BY <1>0
      <4>3. QED
        BY <2>2, <4>1, <4>2
    <3>2. pageIn' \in [ContextPages -> open' \cup {Default, None}]
      BY <1>0, <2>1, <3>1 DEF IC!TypeOK
    <3>3. contexts' \in 0 .. MaxContexts
      BY <2>3, ContextsAreNumbers
    <3>4. QED
      BY <1>0, <2>1, <2>4, <3>1, <3>2, <3>3 DEF IC!TypeOK
  <2>9. QED
    BY <2>4, <2>7, <2>8 DEF ContextsInv
<1>2. CASE IC!pageOpened
  <2>1. opening \in ContextPages /\ pageIn[opening] = None /\ name \in CallerNames
        /\ UNCHANGED <<contexts, open, isolatedContexts, nextIsolatedContextId, label>>
    BY <1>0, <1>2 DEF IC!pageOpened, IC!TypeOK, NamesAreOfPages
  <2>2. NamesAreInOrder'
    BY <1>0, <2>1 DEF NamesAreInOrder, Generic
  <2>3. CASE isolatedContexts[name] \in open
    <3>1. pageIn' = [pageIn EXCEPT ![opening] = isolatedContexts[name]]
          /\ asked' = [asked EXCEPT ![opening] = name] /\ UNCHANGED <<opening, name>>
      BY <1>2, <2>3 DEF IC!pageOpened
    <3>2. IC!TypeOK'
      BY <1>0, <2>1, <2>3, <3>1 DEF IC!TypeOK
    <3>3. isolatedContexts[name] # None /\ label[opening] = 0
      BY <1>0, <2>1, ContextsAreNumbers DEF NamesAreOfPages
    <3>4. NamesAreOfPages'
      BY <1>0, <2>1, <3>1, <3>3 DEF NamesAreOfPages, IC!TypeOK
    <3>5. QED
      BY <2>2, <3>2, <3>4 DEF ContextsInv
  <2>4. CASE isolatedContexts[name] \notin open
    <3>1. opening' = None /\ name' = None /\ UNCHANGED <<pageIn, asked>>
      BY <1>2, <2>4 DEF IC!pageOpened
    <3>2. IC!TypeOK' /\ NamesAreOfPages'
      BY <1>0, <2>1, <3>1 DEF IC!TypeOK, NamesAreOfPages
    <3>3. QED
      BY <2>2, <3>2 DEF ContextsInv
  <2>5. QED
    BY <2>3, <2>4
<1>3. CASE IC!newPageReturns
  BY <1>0, <1>3 DEF IC!newPageReturns, ContextsInv, IC!TypeOK, NamesAreInOrder,
     NamesAreOfPages, Generic
<1>4. CASE IC!Reconnect
  <2>1. /\ isolatedContexts' = [n \in IC!Names |-> None] /\ nextIsolatedContextId' = 1
        /\ label' = [p \in ContextPages |-> 0] /\ asked' = [p \in ContextPages |-> None]
        /\ opening' = None /\ name' = None /\ UNCHANGED <<contexts, open, pageIn>>
    BY <1>4 DEF IC!Reconnect, IC!Unknown
  <2>2. IC!TypeOK'
    BY <1>0, <2>1, ContextsAreNumbers DEF IC!TypeOK, IC!Unknown
  <2>3. NamesAreInOrder'
    <3>1. Cardinality(Generic(isolatedContexts'))  \in Nat
      BY <1>0, GenericIsFinite
    <3>2. Generic(isolatedContexts)' = Generic(isolatedContexts')
      BY <2>1 DEF Generic
    <3>3. \A n \in IC!Names : isolatedContexts'[n] = None
      BY <2>1
    <3>4. \A k \in 1 .. MaxContexts : k \in IC!Names
      BY DEF IC!Names, IC!Generated
    <3>5. QED
      BY <2>1, <3>1, <3>2, <3>3, <3>4 DEF NamesAreInOrder
  <2>4. NamesAreOfPages'
    BY <2>1 DEF NamesAreOfPages
  <2>5. QED
    BY <2>2, <2>3, <2>4 DEF ContextsInv
<1>5. ASSUME NEW p \in ContextPages, IC!createMcpPage(p) PROVE ContextsInv'
  BY <1>5, PageEntered
<1>6. ASSUME NEW S \in SUBSET ContextPages, IC!Gone(S),
             UNCHANGED <<contexts, isolatedContexts, nextIsolatedContextId>>,
             open' \subseteq open,
             \A p \in ContextPages : pageIn[p] \in open \ open' => p \in S
      PROVE  ContextsInv'
  <2>1. NamesAreInOrder'
    BY <1>0, <1>6 DEF NamesAreInOrder, Generic
  <2>2. IC!TypeOK'
    <3>1. ASSUME NEW p \in ContextPages PROVE pageIn'[p] \in open' \cup {Default, None}
      <4>1. pageIn[p] \in open \cup {Default, None}
        BY <1>0 DEF IC!TypeOK
      <4>2. QED
        BY <1>0, <1>6, <4>1, PagesGone
    <3>2. pageIn' \in [ContextPages -> open' \cup {Default, None}]
      BY <1>6, <3>1 DEF IC!Gone
    <3>3. QED
      BY <1>0, <1>6, <3>2, PagesGone DEF IC!TypeOK
  <2>3. QED
    BY <1>0, <1>6, <2>1, <2>2, PagesGone DEF ContextsInv
<1>7. ASSUME NEW p \in ContextPages, IC!PageCloses(p) PROVE ContextsInv'
  <2>1. IC!Gone({p}) /\ UNCHANGED <<contexts, open, isolatedContexts, nextIsolatedContextId>>
    BY <1>7 DEF IC!PageCloses
  <2>2. QED
    BY <2>1, <1>6
<1>8. ASSUME NEW c \in open, IC!ContextCloses(c) PROVE ContextsInv'
  <2>1. open' = open \ {c} /\ IC!Gone({p \in ContextPages : pageIn[p] = c})
        /\ UNCHANGED <<contexts, isolatedContexts, nextIsolatedContextId>>
    BY <1>8 DEF IC!ContextCloses
  <2>2. {p \in ContextPages : pageIn[p] = c} \in SUBSET ContextPages
    OBVIOUS
  <2>3. QED
    BY <2>1, <2>2, <1>6
<1>9. ASSUME NEW p \in ContextPages, NEW c \in (1 .. MaxContexts) \cup {Default},
             IC!PageOpens(p, c)
      PROVE  ContextsInv'
  <2>1. /\ pageIn[p] = None /\ p # opening /\ pageIn' = [pageIn EXCEPT ![p] = c]
        /\ contexts' = (IF c = contexts + 1 THEN c ELSE contexts)
        /\ open' = open \cup ({c} \ {Default})
        /\ UNCHANGED <<isolatedContexts, nextIsolatedContextId, label, opening, name, asked>>
        /\ c \in open \cup {Default} \/ (c = contexts + 1 /\ c <= MaxContexts)
    BY <1>9 DEF IC!PageOpens
  <2>2. c # None /\ c \in open' \cup {Default}
    BY <1>9, <2>1, ContextsAreNumbers
  <2>3. contexts' \in {contexts, contexts + 1} /\ contexts' <= MaxContexts
        /\ contexts' \in Nat /\ contexts <= contexts'
    <3>1. contexts + 1 \in 0 .. MaxContexts + 1
      BY <1>0, ContextsAreNumbers
    <3>2. c = contexts + 1 => c <= MaxContexts
      BY <2>1, <1>9, <3>1, ContextsAreNumbers
    <3>3. QED
      BY <1>0, <2>1, <3>2
  <2>4. NamesAreInOrder' /\ isolatedContexts' \in [IC!Names -> (1 .. contexts') \cup {None}]
    BY <1>0, <2>1, <2>3, ContextAdded
  <2>5. asked[p] = None /\ label[p] = 0
    BY <1>0, <2>1 DEF NamesAreOfPages
  <2>6. NamesAreOfPages'
    BY <1>0, <2>1, <2>5 DEF NamesAreOfPages, IC!TypeOK
  <2>7. open' \subseteq 1 .. contexts'
    <3>1. open \subseteq 1 .. contexts'
      BY <1>0, <2>3 DEF IC!TypeOK
    <3>2. c = Default \/ c \in open \/ (c = contexts + 1 /\ contexts' = c)
      BY <2>1
    <3>3. contexts' = contexts + 1 => contexts' \in 1 .. contexts'
      BY <1>0
    <3>4. QED
      BY <2>1, <3>1, <3>2, <3>3
  <2>8. IC!TypeOK'
    <3>1. contexts' \in 0 .. MaxContexts
      BY <2>3, ContextsAreNumbers
    <3>2. pageIn' \in [ContextPages -> open' \cup {Default, None}]
      BY <1>0, <2>1, <2>2 DEF IC!TypeOK
    <3>3. QED
      BY <1>0, <2>1, <2>4, <2>7, <3>1, <3>2 DEF IC!TypeOK
  <2>9. QED
    BY <2>4, <2>6, <2>8 DEF ContextsInv
<1>10. CASE UNCHANGED IC!isolationVars
  BY <1>10 DEF IC!isolationVars, ContextsInv, IC!TypeOK, NamesAreInOrder, NamesAreOfPages,
     Generic
<1>11. QED
  BY <1>1, <1>2, <1>3, <1>4, <1>5, <1>7, <1>8, <1>9, <1>10 DEF IC!Next

LEMMA ContextsKept == ContextsInv => IC!NameIsOneContext /\ IC!LabelsAreOfContexts
<1> SUFFICES ASSUME ContextsInv PROVE IC!NameIsOneContext /\ IC!LabelsAreOfContexts
  OBVIOUS
<1>1. \A p \in ContextPages : asked[p] # None =>
          asked[p] \in IC!Names /\ isolatedContexts[asked[p]] = pageIn[p] /\ pageIn[p] # None
  BY DEF ContextsInv, NamesAreOfPages, IC!TypeOK, IC!Names
<1>2. \A p \in ContextPages : label[p] # 0 /\ label[p] # None =>
          label[p] \in IC!Names /\ isolatedContexts[label[p]] = pageIn[p] /\ pageIn[p] # None
  BY DEF ContextsInv, NamesAreOfPages, IC!TypeOK, IC!Unknown
<1>3. \A p \in ContextPages : label[p] # 0 => (label[p] = None <=> pageIn[p] = Default)
  BY DEF ContextsInv, NamesAreOfPages
<1>4. \A n \in IC!Names : isolatedContexts[n] # Default
  <2>1. 1 .. contexts \subseteq 0 .. MaxContexts + 1
    BY ContextsAreNumbers DEF ContextsInv, IC!TypeOK
  <2>2. QED
    BY <2>1, ContextsAreNumbers DEF ContextsInv, IC!TypeOK
<1>5. \A m, n \in IC!Names :
          isolatedContexts[m] = isolatedContexts[n] /\ isolatedContexts[m] # None => m = n
  BY DEF ContextsInv, NamesAreInOrder
<1>6. IC!NameIsOneContext
  BY <1>1, <1>5 DEF IC!NameIsOneContext, IC!There
<1>7. ASSUME NEW p \in IC!There, asked[p] # None, label[p] # 0 PROVE label[p] = asked[p]
  BY <1>1, <1>2, <1>3, <1>4, <1>5, <1>7 DEF IC!There
<1>8. ASSUME NEW p \in IC!There, NEW q \in IC!There, label[p] # 0, label[q] # 0
      PROVE  label[p] = label[q] <=> pageIn[p] = pageIn[q]
  BY <1>2, <1>3, <1>5, <1>8 DEF IC!There
<1>9. QED
  BY <1>6, <1>7, <1>8 DEF IC!LabelsAreOfContexts, IC!Unknown

-----------------------------------------------------------------------------
(* Traces and screencasts *)

CapturesInv == CA!TypeOK /\ CA!TraceFlagIsTheTrace /\ CA!GuardIsTheRecordings

LEMMA CapturesFirst == CA!Init => CapturesInv
<1> SUFFICES ASSUME CA!Init PROVE CapturesInv
  OBVIOUS
<1>1. CA!TypeOK
  <2>1. traceRunning \in BOOLEAN /\ stored \in BOOLEAN /\ outlived \in BOOLEAN
        /\ gone \in BOOLEAN /\ guard \in BOOLEAN
    BY DEF CA!Init
  <2>2. patches \in 0 .. 1 /\ open \subseteq CapturedPages /\ page \in open
        /\ blanked \subseteq open
    BY DEF CA!Init
  <2>3. traced \in CapturedPages \cup {None} /\ recorder \in {"none", "recording", "dead"}
    BY DEF CA!Init
  <2>4. QED
    BY <2>1, <2>2, <2>3 DEF CA!TypeOK
<1>2. CA!TraceFlagIsTheTrace
  BY DEF CA!Init, CA!TraceFlagIsTheTrace
<1>3. CA!GuardIsTheRecordings
  BY DEF CA!Init, CA!GuardIsTheRecordings
<1>4. QED
  BY <1>1, <1>2, <1>3 DEF CapturesInv

LEMMA CapturesStep == CapturesInv /\ [CA!Next]_(CA!captureVars) => CapturesInv'
<1> SUFFICES ASSUME CapturesInv, [CA!Next]_(CA!captureVars) PROVE CapturesInv'
  OBVIOUS
<1> USE CapturesArePages DEF CapturesInv, CA!TypeOK, CA!TraceFlagIsTheTrace,
        CA!GuardIsTheRecordings, CA!traceVars, CA!castVars
<1>1. ASSUME NEW p \in CapturedPages, CA!Selected(p) PROVE CapturesInv'
  BY <1>1 DEF CA!Selected
<1>2. ASSUME NEW p \in CapturedPages, CA!PageCloses(p) PROVE CapturesInv'
  BY <1>2 DEF CA!PageCloses
<1>3. CASE CA!startTrace
  BY <1>3 DEF CA!startTrace
<1>4. CASE CA!Navigates
  BY <1>4 DEF CA!Navigates
<1>5. ASSUME NEW reload \in BOOLEAN, NEW step \in {"blank", "start", "back"},
             CA!startTraceFails(reload, step)
      PROVE  CapturesInv'
  BY <1>5 DEF CA!startTraceFails, CA!AfterStop
<1>6. ASSUME NEW parsed \in BOOLEAN, CA!recordTrace(parsed) PROVE CapturesInv'
  BY <1>6 DEF CA!recordTrace
<1>7. ASSUME NEW parsed \in BOOLEAN, CA!stopTrace(parsed) PROVE CapturesInv'
  BY <1>7 DEF CA!stopTrace, CA!stopTracingAndAppendOutput, CA!AfterStop
<1>8. CASE CA!startScreencast
  <2>1. ~guard /\ patches = 0
    BY <1>8 DEF CA!startScreencast
  <2>2. recorder' = "recording" /\ guard' = TRUE /\ UNCHANGED <<page, open, CA!traceVars>>
    BY <1>8 DEF CA!startScreencast
  <2>3. patches' = 1
    BY <1>8, <2>1 DEF CA!startScreencast
  <2>4. CA!GuardIsTheRecordings'
    BY <2>2, <2>3
  <2>5. guard' \in BOOLEAN /\ recorder' \in {"none", "recording", "dead"}
        /\ UNCHANGED <<page, open, CA!traceVars>>
    BY <2>2
  <2>6. CA!TypeOK'
    BY <2>3, <2>5
  <2>7. QED
    BY <2>2, <2>4, <2>6
<1>9. CASE CA!RecorderDies
  BY <1>9 DEF CA!RecorderDies
<1>10. CASE CA!stopScreencast
  <2>1. guard /\ patches = 1
    BY <1>10 DEF CA!stopScreencast
  <2>2. recorder' = "none" /\ guard' = FALSE /\ UNCHANGED <<page, open, CA!traceVars>>
    BY <1>10 DEF CA!stopScreencast
  <2>3. patches' = 0
    BY <1>10, <2>1 DEF CA!stopScreencast
  <2>4. CA!GuardIsTheRecordings'
    BY <2>2, <2>3
  <2>5. guard' \in BOOLEAN /\ recorder' \in {"none", "recording", "dead"}
        /\ UNCHANGED <<page, open, CA!traceVars>>
    BY <2>2
  <2>6. CA!TypeOK'
    BY <2>3, <2>5
  <2>7. QED
    BY <2>2, <2>4, <2>6
<1>11. ASSUME NEW begun \in BOOLEAN, CA!startScreencastFails(begun) PROVE CapturesInv'
  BY <1>11 DEF CA!startScreencastFails
<1>12. CASE UNCHANGED CA!captureVars
  BY <1>12 DEF CA!captureVars
<1>13. QED
  BY <1>1, <1>2, <1>3, <1>4, <1>5, <1>6, <1>7, <1>8, <1>9, <1>10, <1>11, <1>12 DEF CA!Next

-----------------------------------------------------------------------------
(* Emulation *)

\* A feature the next call may leave as it is, is what the settings say.
LeftAreApplied ==
    /\ applied["extraHttpHeaders"] = settings["extraHttpHeaders"]
    /\ blocked => applied["networkConditions"] = settings["networkConditions"]

EmulationInv == EM!TypeOK /\ EM!SettingsAreApplied /\ LeftAreApplied

LEMMA FeaturesAre ==
    /\ EM!Named = {"networkConditions", "cpuThrottlingRate", "userAgent",
                   "extraHttpHeaders", "viewport"}
    /\ EM!Last = 5
    /\ \A f \in EM!Named : \E i \in 1 .. 5 : EM!Features[i] = f
    /\ \A i \in 1 .. 3 : EM!Features[i] # "extraHttpHeaders"
    /\ \A k \in 4 .. 5 : \E i \in 1 .. k : EM!Features[i] = "extraHttpHeaders"
<1>1. DOMAIN EM!Features = 1 .. 5 /\ EM!Last = 5
  BY DEF EM!Features, EM!Last
<1>2. /\ EM!Features[1] = "networkConditions" /\ EM!Features[2] = "cpuThrottlingRate"
      /\ EM!Features[3] = "userAgent" /\ EM!Features[4] = "extraHttpHeaders"
      /\ EM!Features[5] = "viewport"
  BY DEF EM!Features
<1>3. EM!Named = {"networkConditions", "cpuThrottlingRate", "userAgent",
                  "extraHttpHeaders", "viewport"}
  BY <1>1, <1>2 DEF EM!Named
<1>4. QED
  BY <1>1, <1>2, <1>3

LEMMA EmulationFirst == EM!Init => EmulationInv
<1> SUFFICES ASSUME EM!Init PROVE EmulationInv
  OBVIOUS
<1>1. settings = [f \in EM!Named |-> 0] /\ applied = settings /\ failed = FALSE
      /\ timeouts = <<settings["cpuThrottlingRate"], settings["networkConditions"]>>
      /\ blocked \in BOOLEAN
  BY DEF EM!Init, EM!Throttled
<1>2. settings["cpuThrottlingRate"] = 0 /\ settings["networkConditions"] = 0
  BY <1>1, FeaturesAre
<1>3. EM!TypeOK
  <2>1. failed \in BOOLEAN /\ blocked \in BOOLEAN
    BY <1>1
  <2>2. settings \in [EM!Named -> EM!Values] /\ applied \in [EM!Named -> EM!Values]
        /\ timeouts \in EM!Values \X EM!Values
    BY <1>1, <1>2 DEF EM!Values
  <2>3. QED
    BY <2>1, <2>2 DEF EM!TypeOK
<1>4. QED
  BY <1>1, <1>3 DEF EmulationInv, EM!SettingsAreApplied, LeftAreApplied, EM!Throttled

\* Whatever is applied goes in the order of the features, and the last of them makes
\* the settings true.
LEMMA Emulated ==
    ASSUME EmulationInv, NEW from \in [EM!Named -> EM!Values],
           NEW options \in EM!Options, NEW k \in 0 .. EM!Last,
           from["extraHttpHeaders"] = applied["extraHttpHeaders"],
           blocked => from["networkConditions"] = applied["networkConditions"],
           EM!emulate(from, options, k)
    PROVE  EmulationInv'
<1> DEFINE B(f) == EM!Becomes(f, options)
           C(f) == EM!Called(f, options)
<1>1. ASSUME NEW f \in EM!Named PROVE B(f) \in EM!Values
  <2>1. settings[f] \in EM!Values /\ options[f] \in EM!Values \cup {EM!Omitted}
    BY DEF EmulationInv, EM!TypeOK, EM!Options
  <2>2. 0 \in EM!Values
    BY DEF EM!Values
  <2>3. QED
    BY <2>1, <2>2 DEF EM!Becomes
<1>2. ~C("extraHttpHeaders") => B("extraHttpHeaders") = settings["extraHttpHeaders"]
  BY DEF EM!Becomes, EM!Called
<1>3. blocked => ~C("networkConditions")
                 /\ B("networkConditions") = settings["networkConditions"]
  BY DEF EM!Becomes, EM!Called
<1>4. \A f \in EM!Named : ~C(f) => f = "extraHttpHeaders" \/ (f = "networkConditions" /\ blocked)
  BY DEF EM!Called
<1>5. /\ applied' = [f \in EM!Named |-> IF C(f) /\ \E i \in 1 .. k : EM!Features[i] = f
                                        THEN B(f) ELSE from[f]]
      /\ failed' = (k < EM!Last) /\ UNCHANGED blocked
  BY DEF EM!emulate, EM!Apply
<1>6. \/ /\ k >= 4 /\ settings' = [f \in EM!Named |-> B(f)]
         /\ timeouts' = <<settings'["cpuThrottlingRate"], settings'["networkConditions"]>>
      \/ k < 4 /\ UNCHANGED <<settings, timeouts>>
  BY FeaturesAre DEF EM!emulate, EM!Throttled
<1> HIDE DEF B, C
<1>7. "extraHttpHeaders" \in EM!Named /\ "networkConditions" \in EM!Named
      /\ "cpuThrottlingRate" \in EM!Named /\ EM!Last = 5
  BY FeaturesAre
<1>8. EM!TypeOK'
  <2>1. applied' \in [EM!Named -> EM!Values]
    BY <1>1, <1>5
  <2>2. settings' \in [EM!Named -> EM!Values] /\ timeouts' \in EM!Values \X EM!Values
    BY <1>1, <1>6, <1>7 DEF EmulationInv, EM!TypeOK
  <2>3. QED
    BY <1>5, <2>1, <2>2 DEF EmulationInv, EM!TypeOK
<1>9. LeftAreApplied'
  <2>1. applied'["extraHttpHeaders"] = settings'["extraHttpHeaders"]
    <3>1. CASE k >= 4
      <4>1. \E i \in 1 .. k : EM!Features[i] = "extraHttpHeaders"
        BY <1>7, <3>1, FeaturesAre
      <4>2. settings'["extraHttpHeaders"] = B("extraHttpHeaders")
        BY <1>6, <1>7, <3>1
      <4>3. QED
        BY <1>2, <1>5, <1>7, <4>1, <4>2 DEF EmulationInv, LeftAreApplied
    <3>2. CASE k < 4
      <4>1. ~ \E i \in 1 .. k : EM!Features[i] = "extraHttpHeaders"
        BY <1>7, <3>2, FeaturesAre
      <4>2. QED
        BY <1>5, <1>6, <1>7, <3>2, <4>1 DEF EmulationInv, LeftAreApplied
    <3>3. QED
      BY <1>7, <3>1, <3>2
  <2>2. blocked' => applied'["networkConditions"] = settings'["networkConditions"]
    BY <1>3, <1>5, <1>6, <1>7 DEF EmulationInv, LeftAreApplied
  <2>3. QED
    BY <2>1, <2>2 DEF LeftAreApplied
<1>10. ASSUME ~failed' PROVE applied' = settings'
  <2>1. k = 5
    <3>1. ~(k < EM!Last)
      BY <1>5, <1>10, Zenon
    <3>2. QED
      BY <1>7, <3>1
  <2>2. ASSUME NEW f \in EM!Named PROVE applied'[f] = B(f)
    <3>1. \E i \in 1 .. k : EM!Features[i] = f
      BY <2>1, FeaturesAre
    <3>2. CASE C(f)
      BY <1>5, <3>1, <3>2
    <3>3. CASE ~C(f)
      BY <1>2, <1>3, <1>4, <1>5, <3>3 DEF EmulationInv, LeftAreApplied
    <3>4. QED
      BY <3>2, <3>3
  <2>3. QED
    BY <1>5, <1>6, <2>1, <2>2
<1>11. timeouts' = <<settings'["cpuThrottlingRate"], settings'["networkConditions"]>>
  BY <1>6 DEF EmulationInv, EM!SettingsAreApplied, EM!Throttled
<1>12. QED
  BY <1>8, <1>9, <1>10, <1>11 DEF EmulationInv, EM!SettingsAreApplied, EM!Throttled

LEMMA EmulationStep == EmulationInv /\ [EM!Next]_(EM!emulationVars) => EmulationInv'
<1> SUFFICES ASSUME EmulationInv, [EM!Next]_(EM!emulationVars) PROVE EmulationInv'
  OBVIOUS
<1>1. CASE EM!EmulateTool
  <2>1. PICK options \in EM!Options, k \in 0 .. EM!Last : EM!emulate(applied, options, k)
    BY <1>1 DEF EM!EmulateTool
  <2>2. QED
    BY <2>1, Emulated DEF EmulationInv, EM!TypeOK
<1>2. CASE EM!Audit
  <2>1. PICK others \in EM!Audited, k \in 0 .. EM!Last :
          /\ blocked => others["networkConditions"] = applied["networkConditions"]
          /\ EM!emulate(others, EM!Restored, k)
    BY <1>2 DEF EM!Audit, EM!lighthouseAudit
  <2>2. others \in [EM!Named -> EM!Values]
        /\ others["extraHttpHeaders"] = applied["extraHttpHeaders"]
    BY DEF EM!Audited
  <2>3. EM!Restored \in EM!Options
    BY DEF EM!Restored, EM!Options, EM!Omitted, EmulationInv, EM!TypeOK
  <2>4. QED
    BY <2>1, <2>2, <2>3, Emulated
<1>3. CASE UNCHANGED EM!emulationVars
  BY <1>3 DEF EM!emulationVars, EmulationInv, EM!TypeOK, EM!SettingsAreApplied, LeftAreApplied,
     EM!Throttled
<1>4. QED
  BY <1>1, <1>2, <1>3 DEF EM!Next

-----------------------------------------------------------------------------
(* Taking a picture *)

\* Products of numbers, for what the solver does not multiply.
LEMMA Multiplied ==
    ASSUME NEW a \in Nat, NEW b \in Nat, NEW c \in Nat
    PROVE  /\ a * c \in Nat
           /\ a <= b => a * c <= b * c
           /\ a < b /\ c > 0 => a * c < b * c
  OBVIOUS

\* Less than one pixel is left of n.
LEMMA Vanishes ==
    ASSUME NEW m \in Nat, NEW s \in Nat \ {0}, NEW n \in Nat
    PROVE  /\ SC!Rounded(<<m, s>>, n) \in Int
           /\ SC!Rounded(<<m, s>>, n) < 1 <=> 2 * (m * n) < s
<1>1. m * n \in Nat
  OBVIOUS
<1>2. SC!Rounded(<<m, s>>, n) = (2 * (m * n) + s) \div (2 * s)
  BY DEF SC!Rounded
<1>3. ASSUME NEW x \in Nat
      PROVE  /\ (2 * x + s) \div (2 * s) \in Int
             /\ (2 * x + s) \div (2 * s) < 1 <=> 2 * x < s
  OBVIOUS
<1>4. QED
  BY <1>1, <1>2, <1>3

\* A fraction that keeps to a bound and vanishes: so does every smaller one.
LEMMA VanishesToo ==
    ASSUME NEW m \in Nat \ {0}, NEW s \in Nat, NEW n \in Nat, NEW x \in Nat,
           s <= m * n, 2 * (m * x) < s
    PROVE  2 * x < n
<1>1. ASSUME n <= 2 * x PROVE FALSE
  <2>1. n * m <= (2 * x) * m
    BY <1>1, Multiplied
  <2>2. m * n = n * m /\ (2 * x) * m = 2 * (m * x)
    OBVIOUS
  <2>3. m * n \in Nat /\ m * x \in Nat
    OBVIOUS
  <2>4. QED
    BY <2>1, <2>2, <2>3
<1>2. QED
  BY <1>1

\* The fraction that keeps to both bounds: one of the two, when there is one to keep.
Keeps(max, size, scale) == max = Unbounded \/ ~ SC!Less(<<max, size>>, scale)
Exceeds(max, size) == max # Unbounded /\ max < size

LEMMA SmallerOfTwo ==
    ASSUME NEW W \in Nat \ {0}, NEW H \in Nat,
           NEW mw \in (Nat \ {0}) \cup {Unbounded}, NEW mh \in (Nat \ {0}) \cup {Unbounded},
           NEW raw, raw = IF SC!Less(SC!AtMost(mw, W), SC!AtMost(mh, H))
                          THEN SC!AtMost(mw, W) ELSE SC!AtMost(mh, H)
    PROVE  /\ ~Exceeds(mw, W) /\ ~Exceeds(mh, H) => raw = <<1, 1>>
           /\ Exceeds(mw, W) \/ Exceeds(mh, H) =>
                /\ \/ raw = <<mw, W>> /\ Exceeds(mw, W)
                   \/ raw = <<mh, H>> /\ Exceeds(mh, H)
                /\ Keeps(mw, W, raw) /\ Keeps(mh, H, raw)
<1>1. SC!AtMost(mw, W) = (IF Exceeds(mw, W) THEN <<mw, W>> ELSE <<1, 1>>)
      /\ SC!AtMost(mh, H) = (IF Exceeds(mh, H) THEN <<mh, H>> ELSE <<1, 1>>)
  BY DEF SC!AtMost, SC!Whole, Exceeds
<1>2. \A a, b, c, d : SC!Less(<<a, b>>, <<c, d>>) <=> a * d < c * b
  BY DEF SC!Less
<1>3. CASE ~Exceeds(mw, W) /\ ~Exceeds(mh, H)
  BY <1>1, <1>3
<1>4. CASE Exceeds(mw, W) /\ ~Exceeds(mh, H)
  <2>1. mw \in Nat \ {0} /\ mw < W
    BY <1>4 DEF Exceeds
  <2>2. SC!Less(<<mw, W>>, <<1, 1>>)
    BY <1>2, <2>1
  <2>3. raw = <<mw, W>>
    BY <1>1, <1>4, <2>2
  <2>4. ~ (mw * W < mw * W)
    BY <2>1
  <2>5. mh = Unbounded \/ ~ (mh * W < mw * H)
    <3>1. ASSUME mh # Unbounded PROVE ~ (mh * W < mw * H)
      <4>1. mh \in Nat /\ H <= mh
        BY <1>4, <3>1 DEF Exceeds
      <4>2. H * W <= mh * W /\ mw * H <= W * H
        BY <2>1, <4>1, Multiplied
      <4>3. mh * W \in Nat /\ mw * H \in Nat /\ H * W \in Nat /\ W * H = H * W
        BY <2>1, <4>1
      <4>4. QED
        BY <4>2, <4>3
    <3>2. QED
      BY <3>1
  <2>6. QED
    BY <1>2, <1>4, <2>3, <2>4, <2>5 DEF Keeps
<1>5. CASE ~Exceeds(mw, W) /\ Exceeds(mh, H)
  <2>1. mh \in Nat \ {0} /\ mh < H
    BY <1>5 DEF Exceeds
  <2>2. ~ SC!Less(<<1, 1>>, <<mh, H>>)
    BY <1>2, <2>1
  <2>3. raw = <<mh, H>>
    BY <1>1, <1>5, <2>2
  <2>4. ~ (mh * H < mh * H)
    BY <2>1
  <2>5. mw = Unbounded \/ ~ (mw * H < mh * W)
    <3>1. ASSUME mw # Unbounded PROVE ~ (mw * H < mh * W)
      <4>1. mw \in Nat /\ W <= mw
        BY <1>5, <3>1 DEF Exceeds
      <4>2. W * H <= mw * H /\ mh * W <= H * W
        BY <2>1, <4>1, Multiplied
      <4>3. mw * H \in Nat /\ mh * W \in Nat /\ H * W \in Nat /\ W * H = H * W
        BY <2>1, <4>1
      <4>4. QED
        BY <4>2, <4>3
    <3>2. QED
      BY <3>1
  <2>6. QED
    BY <1>2, <1>5, <2>3, <2>4, <2>5 DEF Keeps
<1>6. CASE Exceeds(mw, W) /\ Exceeds(mh, H)
  <2>1. mw \in Nat /\ mh \in Nat
    BY <1>6 DEF Exceeds
  <2>2. mw * H \in Nat /\ mh * W \in Nat /\ mw * W \in Nat /\ mh * H \in Nat
    BY <2>1
  <2>3. raw = IF mw * H < mh * W THEN <<mw, W>> ELSE <<mh, H>>
    BY <1>1, <1>2, <1>6
  <2>4. CASE mw * H < mh * W
    BY <1>2, <1>6, <2>2, <2>3, <2>4 DEF Keeps
  <2>5. CASE ~ (mw * H < mh * W)
    BY <1>2, <1>6, <2>2, <2>3, <2>5 DEF Keeps
  <2>6. QED
    BY <2>4, <2>5
<1>7. QED
  BY <1>3, <1>4, <1>5, <1>6

\* What BoundsAreRespected asks of a scale.
Bounded(scale, box, max) ==
    LET fits(a) == Keeps(max.width, box.width, a) /\ Keeps(max.height, box.height, a)
    IN  IF fits(SC!Whole) THEN scale = SC!Whole
        ELSE IF scale # SC!Whole
             THEN fits(scale) /\ ~ fits(<<scale[1] + 1, scale[2]>>)
                  /\ SC!Rounded(scale, box.width) > 0 /\ SC!Rounded(scale, box.height) > 0
             ELSE \A n \in 1 .. box.width + box.height :
                    fits(<<1, n>>) => \/ SC!Rounded(<<1, n>>, box.width) < 1
                                      \/ SC!Rounded(<<1, n>>, box.height) < 1

LEMMA Downscaled ==
    ASSUME NEW box \in [width : Nat, height : Nat], box.width # 0,
           NEW max \in [width : (Nat \ {0}) \cup {Unbounded},
                        height : (Nat \ {0}) \cup {Unbounded}]
    PROVE  /\ Bounded(SC!computeDownscaleClip(box, max), box, max)
           /\ \E a \in Nat, b \in Nat \ {0} : SC!computeDownscaleClip(box, max) = <<a, b>>
<1> DEFINE W == box.width
           H == box.height
           mw == max.width
           mh == max.height
           raw == IF SC!Less(SC!AtMost(mw, W), SC!AtMost(mh, H))
                  THEN SC!AtMost(mw, W) ELSE SC!AtMost(mh, H)
           scale == SC!computeDownscaleClip(box, max)
           fits(a) == Keeps(mw, W, a) /\ Keeps(mh, H, a)
<1>1. W \in Nat \ {0} /\ H \in Nat /\ mw \in (Nat \ {0}) \cup {Unbounded}
      /\ mh \in (Nat \ {0}) \cup {Unbounded}
  OBVIOUS
<1>2. scale = IF SC!Rounded(raw, W) < 1 \/ SC!Rounded(raw, H) < 1 THEN <<1, 1>> ELSE raw
  BY DEF SC!computeDownscaleClip, SC!Whole
<1>3. Bounded(scale, box, max) <=>
        IF fits(<<1, 1>>) THEN scale = <<1, 1>>
        ELSE IF scale # <<1, 1>>
             THEN fits(scale) /\ ~ fits(<<scale[1] + 1, scale[2]>>)
                  /\ SC!Rounded(scale, W) > 0 /\ SC!Rounded(scale, H) > 0
             ELSE \A n \in 1 .. W + H :
                    fits(<<1, n>>) => SC!Rounded(<<1, n>>, W) < 1 \/ SC!Rounded(<<1, n>>, H) < 1
  BY DEF Bounded, SC!Whole
<1>4. /\ ~Exceeds(mw, W) /\ ~Exceeds(mh, H) => raw = <<1, 1>>
      /\ Exceeds(mw, W) \/ Exceeds(mh, H) =>
           /\ \/ raw = <<mw, W>> /\ Exceeds(mw, W)
              \/ raw = <<mh, H>> /\ Exceeds(mh, H)
           /\ fits(raw)
  <2> HIDE DEF W, H, mw, mh
  <2>1. raw = IF SC!Less(SC!AtMost(mw, W), SC!AtMost(mh, H))
              THEN SC!AtMost(mw, W) ELSE SC!AtMost(mh, H)
    OBVIOUS
  <2> HIDE DEF raw
  <2>2. QED
    BY <1>1, <2>1, SmallerOfTwo
<1>5. fits(<<1, 1>>) <=> ~Exceeds(mw, W) /\ ~Exceeds(mh, H)
  BY <1>1 DEF Keeps, Exceeds, SC!Less
<1> HIDE DEF W, H, mw, mh, raw, scale, fits
<1>6. CASE ~Exceeds(mw, W) /\ ~Exceeds(mh, H)
  <2>1. scale = <<1, 1>>
    BY <1>2, <1>4, <1>6
  <2>2. QED
    BY <1>3, <1>5, <1>6, <2>1 DEF scale
<1>7. CASE Exceeds(mw, W) \/ Exceeds(mh, H)
  <2>1. PICK m, s : /\ raw = <<m, s>> /\ m \in Nat \ {0} /\ s \in Nat \ {0} /\ m < s
                    /\ \/ m = mw /\ s = W /\ mw # Unbounded
                       \/ m = mh /\ s = H /\ mh # Unbounded
    BY <1>1, <1>4, <1>7 DEF Exceeds
  <2>2. fits(raw) /\ ~fits(<<1, 1>>) /\ raw # <<1, 1>>
    BY <1>4, <1>5, <1>7, <2>1
  <2>3. /\ SC!Rounded(raw, W) \in Int /\ (SC!Rounded(raw, W) < 1 <=> 2 * (m * W) < s)
        /\ SC!Rounded(raw, H) \in Int /\ (SC!Rounded(raw, H) < 1 <=> 2 * (m * H) < s)
    BY <1>1, <2>1, Vanishes
  <2>4. \A n \in Nat : fits(<<1, n>>) => s <= m * n
    BY <1>1, <2>1 DEF fits, Keeps, SC!Less
  <2>5. CASE ~ (SC!Rounded(raw, W) < 1 \/ SC!Rounded(raw, H) < 1)
    <3>1. scale = raw
      BY <1>2, <2>5
    <3>2. m * s < (m + 1) * s
      BY <2>1, Multiplied
    <3>3. ~ fits(<<m + 1, s>>)
      BY <2>1, <3>2 DEF fits, Keeps, SC!Less
    <3>4. SC!Rounded(scale, W) > 0 /\ SC!Rounded(scale, H) > 0
      BY <2>3, <2>5, <3>1
    <3>5. QED
      BY <1>3, <2>1, <2>2, <3>1, <3>3, <3>4 DEF scale
  <2>6. CASE SC!Rounded(raw, W) < 1 \/ SC!Rounded(raw, H) < 1
    <3>1. scale = <<1, 1>>
      BY <1>2, <2>6
    <3>2. ASSUME NEW n \in 1 .. W + H, fits(<<1, n>>)
          PROVE  SC!Rounded(<<1, n>>, W) < 1 \/ SC!Rounded(<<1, n>>, H) < 1
      <4>1. n \in Nat \ {0} /\ s <= m * n
        BY <1>1, <2>4, <3>2
      <4>2. \A x \in {W, H} : 2 * (m * x) < s => SC!Rounded(<<1, n>>, x) < 1
        BY <1>1, <2>1, <4>1, VanishesToo, Vanishes
      <4>3. QED
        BY <2>3, <2>6, <4>2
    <3>3. QED
      BY <1>3, <2>2, <3>1, <3>2 DEF scale
  <2>7. QED
    BY <2>5, <2>6
<1>8. \E a \in Nat, b \in Nat \ {0} : scale = <<a, b>>
  BY <1>1, <1>2, <1>4 DEF Exceeds
<1>9. QED
  BY <1>6, <1>7, <1>8 DEF scale

ShotTypes ==
    /\ window \in {"normal", "minimized", "none"} /\ found \in {"normal", "minimized", "none"}
    /\ shown \in Boxes /\ limits \in Bounds
    /\ captured \in {"no", "normal", "minimized", "none"}
    /\ lost \in {"none", "window", "front", "capture", "restore", "both"}
    /\ at \in {"box", "window", "normal", "front", "capture", "restore", "picture",
               "returned", "thrown"}

\* The scale is that of the box the tool has asked for.
ClipIsOfTheBox ==
    clip = IF at = "box" \/ shown.width = 0 THEN SC!Whole
           ELSE SC!computeDownscaleClip(shown, limits)

\* How far the tool has come.
ShotStages ==
    /\ at \in {"box", "window"} => found = "none"
    /\ at = "normal" => found = "minimized"
    /\ at = "front" => window = "normal" /\ found # "none"
    /\ at = "capture" /\ found # "none" => window = "normal" /\ front
    /\ at \in {"box", "window", "normal", "front", "capture"} => captured = "no"

ShotInv == ShotTypes /\ front \in BOOLEAN /\ ClipIsOfTheBox /\ ShotStages /\ SC!WindowIsPutBack

LEMMA ShotFirst == SC!Init => ShotInv
<1> SUFFICES ASSUME SC!Init PROVE ShotInv
  OBVIOUS
<1>1. ShotTypes /\ front \in BOOLEAN
  BY DEF SC!Init, ShotTypes
<1>2. ClipIsOfTheBox
  BY DEF SC!Init, ClipIsOfTheBox
<1>3. ShotStages /\ SC!WindowIsPutBack
  BY DEF SC!Init, ShotStages, SC!WindowIsPutBack
<1>4. QED
  BY <1>1, <1>2, <1>3 DEF ShotInv

LEMMA ShotStep == ShotInv /\ [SC!Next]_(SC!screenshotVars) => ShotInv'
<1> SUFFICES ASSUME ShotInv, [SC!Next]_(SC!screenshotVars) PROVE ShotInv'
  OBVIOUS
<1>0. ShotTypes /\ front \in BOOLEAN /\ ClipIsOfTheBox /\ ShotStages /\ SC!WindowIsPutBack
  BY DEF ShotInv
<1>1. CASE SC!getSourceBox
  <2>1. ClipIsOfTheBox'
    BY <1>1 DEF SC!getSourceBox, ClipIsOfTheBox
  <2>2. ShotTypes' /\ front' \in BOOLEAN /\ ShotStages' /\ SC!WindowIsPutBack'
    BY <1>0, <1>1 DEF SC!getSourceBox, ShotTypes, ShotStages, SC!WindowIsPutBack
  <2>3. QED
    BY <2>1, <2>2 DEF ShotInv
<1>2. CASE SC!getWindow
  <2>1. at # "box" /\ at' # "box" /\ UNCHANGED <<clip, shown, limits>>
    BY <1>2 DEF SC!getWindow
  <2>2. ClipIsOfTheBox'
    BY <1>0, <2>1 DEF ClipIsOfTheBox
  <2>3. ShotTypes' /\ front' \in BOOLEAN
    BY <1>0, <1>2 DEF SC!getWindow, ShotTypes
  <2>4. ShotStages' /\ SC!WindowIsPutBack'
    BY <1>0, <1>2 DEF SC!getWindow, ShotTypes, ShotStages, SC!WindowIsPutBack
  <2>5. QED
    BY <2>2, <2>3, <2>4 DEF ShotInv
<1>3. CASE SC!setWindowNormal
  <2>1. at # "box" /\ at' # "box" /\ UNCHANGED <<clip, shown, limits>>
    BY <1>3 DEF SC!setWindowNormal, SC!Lost
  <2>2. ClipIsOfTheBox'
    BY <1>0, <2>1 DEF ClipIsOfTheBox
  <2>3. ShotTypes' /\ front' \in BOOLEAN
    BY <1>0, <1>3 DEF SC!setWindowNormal, SC!Lost, ShotTypes
  <2>4. ShotStages' /\ SC!WindowIsPutBack'
    BY <1>0, <1>3 DEF SC!setWindowNormal, SC!Lost, ShotTypes, ShotStages, SC!WindowIsPutBack
  <2>5. QED
    BY <2>2, <2>3, <2>4 DEF ShotInv
<1>4. CASE SC!bringToFront
  <2>1. at # "box" /\ at' # "box" /\ UNCHANGED <<clip, shown, limits>>
    BY <1>4 DEF SC!bringToFront, SC!Lost
  <2>2. ClipIsOfTheBox'
    BY <1>0, <2>1 DEF ClipIsOfTheBox
  <2>3. ShotTypes' /\ front' \in BOOLEAN
    BY <1>0, <1>4 DEF SC!bringToFront, SC!Lost, ShotTypes
  <2>4. ShotStages' /\ SC!WindowIsPutBack'
    BY <1>0, <1>4 DEF SC!bringToFront, SC!Lost, ShotTypes, ShotStages, SC!WindowIsPutBack
  <2>5. QED
    BY <2>2, <2>3, <2>4 DEF ShotInv
<1>5. CASE SC!capture
  <2>1. at # "box" /\ at' # "box" /\ UNCHANGED <<clip, shown, limits>>
    BY <1>5 DEF SC!capture
  <2>2. ClipIsOfTheBox'
    BY <1>0, <2>1 DEF ClipIsOfTheBox
  <2>3. ShotTypes' /\ front' \in BOOLEAN
    BY <1>0, <1>5 DEF SC!capture, ShotTypes
  <2>4. ShotStages' /\ SC!WindowIsPutBack'
    BY <1>0, <1>5 DEF SC!capture, ShotTypes, ShotStages, SC!WindowIsPutBack
  <2>5. QED
    BY <2>2, <2>3, <2>4 DEF ShotInv
<1>6. CASE SC!restoreWindow
  <2>1. at # "box" /\ at' # "box" /\ UNCHANGED <<clip, shown, limits>>
    BY <1>6 DEF SC!restoreWindow
  <2>2. ClipIsOfTheBox'
    BY <1>0, <2>1 DEF ClipIsOfTheBox
  <2>3. ShotTypes' /\ front' \in BOOLEAN
    BY <1>0, <1>6 DEF SC!restoreWindow, ShotTypes
  <2>4. ShotStages' /\ SC!WindowIsPutBack'
    BY <1>0, <1>6 DEF SC!restoreWindow, ShotTypes, ShotStages, SC!WindowIsPutBack
  <2>5. QED
    BY <2>2, <2>3, <2>4 DEF ShotInv
<1>7. CASE SC!deliver
  <2>1. at # "box" /\ at' # "box" /\ UNCHANGED <<clip, shown, limits>>
    BY <1>7 DEF SC!deliver
  <2>2. ClipIsOfTheBox'
    BY <1>0, <2>1 DEF ClipIsOfTheBox
  <2>3. ShotTypes' /\ front' \in BOOLEAN
    BY <1>0, <1>7 DEF SC!deliver, ShotTypes
  <2>4. ShotStages' /\ SC!WindowIsPutBack'
    BY <1>0, <1>7 DEF SC!deliver, ShotTypes, ShotStages, SC!WindowIsPutBack
  <2>5. QED
    BY <2>2, <2>3, <2>4 DEF ShotInv
<1>8. CASE UNCHANGED SC!screenshotVars
  <2>1. UNCHANGED <<window, front, found, clip, shown, limits, captured, lost, at>>
    BY <1>8 DEF SC!screenshotVars
  <2>2. QED
    BY <1>0, <2>1 DEF ShotInv, ShotTypes, ClipIsOfTheBox, ShotStages, SC!WindowIsPutBack
<1>9. QED
  BY <1>1, <1>2, <1>3, <1>4, <1>5, <1>6, <1>7, <1>8 DEF SC!Next

LEMMA ShotKept == ShotInv => SC!TypeOK /\ SC!WindowIsPutBack /\ SC!BoundsAreRespected
<1> SUFFICES ASSUME ShotInv PROVE SC!TypeOK /\ SC!WindowIsPutBack /\ SC!BoundsAreRespected
  OBVIOUS
<1>1. shown \in [width : Nat, height : Nat]
      /\ limits \in [width : (Nat \ {0}) \cup {Unbounded}, height : (Nat \ {0}) \cup {Unbounded}]
  BY BoxesAreBoxes DEF ShotInv, ShotTypes
<1>2. clip = <<1, 1>> \/ \E a \in Nat, b \in Nat \ {0} : clip = <<a, b>>
  BY <1>1, Downscaled DEF ShotInv, ClipIsOfTheBox, SC!Whole
<1>3. clip[1] \in Nat /\ clip[2] \in Nat \ {0}
  BY <1>2
<1>4. SC!TypeOK
  BY <1>3 DEF ShotInv, ShotTypes, SC!TypeOK
<1>5. ASSUME at = "picture", shown.width > 0 PROVE Bounded(clip, shown, limits)
  <2>1. clip = SC!computeDownscaleClip(shown, limits) /\ shown.width # 0
    BY <1>1, <1>5 DEF ShotInv, ClipIsOfTheBox
  <2>2. QED
    BY <1>1, <2>1, Downscaled
<1>6. SC!BoundsAreRespected
  BY <1>5 DEF Bounded, Keeps, SC!BoundsAreRespected
<1>7. QED
  BY <1>4, <1>6 DEF ShotInv

-----------------------------------------------------------------------------
(* What is collected of a page *)

\* Lists of numbers up to count, in the order getData shows them in.
Ordered(storage) ==
    \A m, n \in DOMAIN storage : \A i \in DOMAIN storage[m], j \in DOMAIN storage[n] :
        CO!getDataShows(m, i, n, j) => storage[m][i] < storage[n][j]

Kept(storage, count) ==
    /\ storage \in Seq(Seq(Nat)) /\ Len(storage) \in 1 .. MaxNavigations
    /\ \A n \in DOMAIN storage : \A i \in DOMAIN storage[n] : storage[n][i] \in 1 .. count
    /\ Ordered(storage)

\* r is the storage with its current list parted: from the place at on it is the new
\* navigation's, and the oldest navigations are let go.
Parted(storage, at_, r) ==
    /\ r \in Seq(Seq(Nat)) /\ Len(r) \in 1 .. MaxNavigations /\ Len(r) <= Len(storage) + 1
    /\ Len(r[1]) = Len(storage[1]) + 1 - at_
    /\ \A i \in 1 .. Len(r[1]) : r[1][i] = storage[1][at_ + i - 1]
    /\ 2 <= Len(r) =>
          /\ Len(r[2]) = at_ - 1
          /\ \A i \in 1 .. at_ - 1 : r[2][i] = storage[1][i]
    /\ \A n \in 3 .. Len(r) : r[n] = storage[n - 1]

\* r is the storage with the numbers behind first of its current list, and one more.
Longer(storage, first, count, r) ==
    /\ r \in Seq(Seq(Nat)) /\ Len(r) = Len(storage)
    /\ Len(r[1]) = Len(storage[1]) + 1 - first
    /\ \A i \in 1 .. Len(r[1]) :
          r[1][i] = IF first + i <= Len(storage[1]) THEN storage[1][first + i] ELSE count + 1
    /\ \A n \in 2 .. Len(r) : r[n] = storage[n]

LEMMA ListsOfNumbers ==
    ASSUME NEW s \in Seq(Seq(Nat))
    PROVE  /\ Len(s) \in Nat /\ DOMAIN s = 1 .. Len(s)
           /\ \A n \in DOMAIN s : /\ n \in Nat \ {0} /\ s[n] \in Seq(Nat) /\ Len(s[n]) \in Nat
                                  /\ DOMAIN s[n] = 1 .. Len(s[n])
<1>1. Len(s) \in Nat /\ DOMAIN s = 1 .. Len(s)
  OBVIOUS
<1>2. \A n \in DOMAIN s : n \in Nat \ {0} /\ s[n] \in Seq(Nat)
  BY <1>1
<1>3. ASSUME NEW n \in DOMAIN s PROVE Len(s[n]) \in Nat /\ DOMAIN s[n] = 1 .. Len(s[n])
  <2>1. s[n] \in Seq(Nat)
    BY <1>2
  <2>2. QED
    BY <2>1
<1>4. QED
  BY <1>1, <1>2, <1>3

LEMMA KeptLists ==
    ASSUME NEW count \in Nat, NEW storage, Kept(storage, count)
    PROVE  /\ storage \in Seq(Seq(Nat))
           /\ Len(storage) \in Nat /\ 1 \in DOMAIN storage /\ DOMAIN storage = 1 .. Len(storage)
           /\ \A n \in DOMAIN storage :
                 /\ n \in Nat \ {0} /\ storage[n] \in Seq(Nat) /\ Len(storage[n]) \in Nat
                 /\ DOMAIN storage[n] = 1 .. Len(storage[n])
<1>1. storage \in Seq(Seq(Nat)) /\ Len(storage) \in 1 .. MaxNavigations
  BY DEF Kept
<1>2. Len(storage) \in Nat /\ DOMAIN storage = 1 .. Len(storage)
  BY <1>1, ListsOfNumbers
<1>3. 1 \in DOMAIN storage
  BY <1>1, <1>2, NavigationsAreKept
<1>4. QED
  BY <1>1, <1>2, <1>3, ListsOfNumbers

\* Where a number of a parted storage was.
LEMMA Whence ==
    ASSUME NEW count \in Nat, NEW storage, Kept(storage, count), NEW p \in 1 .. Len(storage[1]) + 1,
           NEW r, Parted(storage, p, r), NEW n \in DOMAIN r, NEW i \in DOMAIN r[n]
    PROVE  \E m \in DOMAIN storage : \E j \in DOMAIN storage[m] :
              /\ r[n][i] = storage[m][j]
              /\ n = 1 => m = 1 /\ j = p + i - 1
              /\ n = 2 => m = 1 /\ j = i /\ j < p
              /\ n > 2 => m = n - 1 /\ j = i
<1>1. /\ Len(storage) \in Nat /\ 1 \in DOMAIN storage /\ DOMAIN storage = 1 .. Len(storage)
      /\ DOMAIN storage[1] = 1 .. Len(storage[1]) /\ Len(storage[1]) \in Nat
  BY KeptLists
<1>2. r \in Seq(Seq(Nat)) /\ Len(r) <= Len(storage) + 1
  BY DEF Parted
<1>3. /\ Len(r) \in Nat /\ DOMAIN r = 1 .. Len(r) /\ n \in Nat \ {0}
      /\ DOMAIN r[n] = 1 .. Len(r[n]) /\ Len(r[n]) \in Nat
  BY <1>2, ListsOfNumbers
<1>4. CASE n = 1
  <2>1. /\ Len(r[1]) = Len(storage[1]) + 1 - p
        /\ \A k \in 1 .. Len(r[1]) : r[1][k] = storage[1][p + k - 1]
    BY DEF Parted
  <2>2. p \in Nat /\ 1 <= p /\ i \in 1 .. Len(r[1]) /\ Len(r[1]) \in Nat
    BY <1>1, <1>3, <1>4
  <2>3. p + i - 1 \in 1 .. Len(storage[1])
    BY <1>1, <2>1, <2>2
  <2>4. r[n][i] = storage[1][p + i - 1]
    BY <1>4, <2>1, <2>2
  <2>5. QED
    BY <1>1, <1>4, <2>3, <2>4
<1>5. CASE n = 2
  <2>1. Len(r[2]) = p - 1 /\ \A k \in 1 .. p - 1 : r[2][k] = storage[1][k]
    <3>1. 2 <= Len(r)
      BY <1>3, <1>5
    <3>2. QED
      BY <3>1 DEF Parted
  <2>2. i \in 1 .. p - 1
    BY <1>3, <1>5, <2>1
  <2>3. i \in 1 .. Len(storage[1]) /\ i < p
    BY <1>1, <2>2
  <2>4. r[n][i] = storage[1][i]
    BY <1>5, <2>1, <2>2
  <2>5. QED
    BY <1>1, <1>5, <2>3, <2>4
<1>6. CASE n > 2
  <2>1. \A k \in 3 .. Len(r) : r[k] = storage[k - 1]
    BY DEF Parted
  <2>2. n \in 3 .. Len(r) /\ n - 1 \in 1 .. Len(storage)
    <3>1. /\ n \in Nat /\ n > 2 /\ n <= Len(r) /\ Len(r) \in Nat
          /\ Len(r) <= Len(storage) + 1 /\ Len(storage) \in Nat
      BY <1>1, <1>2, <1>3, <1>6
    <3>2. QED
      BY <3>1
  <2>3. r[n] = storage[n - 1] /\ n - 1 \in DOMAIN storage
    BY <1>1, <2>1, <2>2
  <2>4. QED
    BY <1>3, <1>6, <2>3
<1>7. QED
  BY <1>3, <1>4, <1>5, <1>6

LEMMA PartedIsKept ==
    ASSUME NEW count \in Nat, NEW storage, Kept(storage, count), NEW p \in 1 .. Len(storage[1]) + 1,
           NEW r, Parted(storage, p, r)
    PROVE  Kept(r, count)
<1>1. \A n \in DOMAIN r : \A i \in DOMAIN r[n] : r[n][i] \in 1 .. count
  <2> SUFFICES ASSUME NEW n \in DOMAIN r, NEW i \in DOMAIN r[n] PROVE r[n][i] \in 1 .. count
    OBVIOUS
  <2>1. \E m \in DOMAIN storage : \E j \in DOMAIN storage[m] : r[n][i] = storage[m][j]
    BY Whence
  <2>2. QED
    BY <2>1 DEF Kept
<1>2. Ordered(r)
  <2> SUFFICES ASSUME NEW m \in DOMAIN r, NEW n \in DOMAIN r,
                      NEW i \in DOMAIN r[m], NEW j \in DOMAIN r[n], m > n \/ (m = n /\ i < j)
               PROVE  r[m][i] < r[n][j]
    BY DEF Ordered, CO!getDataShows
  <2>1. PICK a \in DOMAIN storage : \E k \in DOMAIN storage[a] :
              /\ r[m][i] = storage[a][k]
              /\ m = 1 => a = 1 /\ k = p + i - 1
              /\ m = 2 => a = 1 /\ k = i /\ k < p
              /\ m > 2 => a = m - 1 /\ k = i
    BY Whence
  <2>2. PICK k \in DOMAIN storage[a] :
              /\ r[m][i] = storage[a][k]
              /\ m = 1 => a = 1 /\ k = p + i - 1
              /\ m = 2 => a = 1 /\ k = i /\ k < p
              /\ m > 2 => a = m - 1 /\ k = i
    BY <2>1
  <2>3. PICK b \in DOMAIN storage : \E l \in DOMAIN storage[b] :
              /\ r[n][j] = storage[b][l]
              /\ n = 1 => b = 1 /\ l = p + j - 1
              /\ n = 2 => b = 1 /\ l = j /\ l < p
              /\ n > 2 => b = n - 1 /\ l = j
    BY Whence
  <2>4. PICK l \in DOMAIN storage[b] :
              /\ r[n][j] = storage[b][l]
              /\ n = 1 => b = 1 /\ l = p + j - 1
              /\ n = 2 => b = 1 /\ l = j /\ l < p
              /\ n > 2 => b = n - 1 /\ l = j
    BY <2>3
  <2>5. /\ m \in Nat \ {0} /\ n \in Nat \ {0}
        /\ DOMAIN r[m] = 1 .. Len(r[m]) /\ DOMAIN r[n] = 1 .. Len(r[n])
        /\ Len(r[m]) \in Nat /\ Len(r[n]) \in Nat
    <3>1. r \in Seq(Seq(Nat))
      BY DEF Parted
    <3>2. QED
      BY <3>1, ListsOfNumbers
  <2>6. p \in Nat /\ i \in Nat \ {0} /\ j \in Nat \ {0}
    <3>1. Len(storage[1]) \in Nat
      BY KeptLists
    <3>2. i \in 1 .. Len(r[m]) /\ j \in 1 .. Len(r[n])
      BY <2>5
    <3>3. QED
      BY <2>5, <3>1, <3>2
  <2>7. a > b \/ (a = b /\ k < l)
    <3>1. CASE m > n
      <4>1. CASE n = 1 /\ m = 2
        BY <2>2, <2>4, <2>6, <4>1
      <4>2. CASE m > 2
        BY <2>2, <2>4, <2>5, <3>1, <4>2
      <4>3. QED
        BY <2>5, <3>1, <4>1, <4>2
    <3>2. CASE m = n /\ i < j
      BY <2>2, <2>4, <2>5, <2>6, <3>2
    <3>3. QED
      BY <3>1, <3>2
  <2>8. storage[a][k] < storage[b][l]
    BY <2>7 DEF Kept, Ordered, CO!getDataShows
  <2>9. QED
    BY <2>2, <2>4, <2>8
<1>3. QED
  BY <1>1, <1>2 DEF Kept, Parted

LEMMA LongerIsKept ==
    ASSUME NEW count \in Nat, NEW storage, Kept(storage, count), NEW p \in 0 .. Len(storage[1]) + 1,
           NEW r, Longer(storage, p, count, r)
    PROVE  Kept(r, count + 1)
<1>1. /\ Len(storage) \in Nat /\ 1 \in DOMAIN storage /\ DOMAIN storage = 1 .. Len(storage)
      /\ DOMAIN storage[1] = 1 .. Len(storage[1]) /\ Len(storage[1]) \in Nat
  BY KeptLists
<1>2. r \in Seq(Seq(Nat)) /\ Len(r) = Len(storage) /\ DOMAIN r = DOMAIN storage
  BY <1>1, ListsOfNumbers DEF Longer
<1>3. /\ DOMAIN r[1] = 1 .. Len(r[1]) /\ Len(r[1]) \in Nat /\ Len(r[1]) = Len(storage[1]) + 1 - p
  BY <1>1, <1>2, ListsOfNumbers DEF Longer
<1>4. ASSUME NEW i \in DOMAIN r[1]
      PROVE  \/ i = Len(r[1]) /\ r[1][i] = count + 1
             \/ p + i \in DOMAIN storage[1] /\ r[1][i] = storage[1][p + i]
  <2>1. r[1][i] = IF p + i <= Len(storage[1]) THEN storage[1][p + i] ELSE count + 1
    BY <1>3 DEF Longer
  <2>2. p \in Nat /\ i \in Nat \ {0} /\ i <= Len(r[1])
    BY <1>1, <1>3
  <2>3. QED
    BY <1>1, <1>3, <2>1, <2>2
<1>5. \A n \in DOMAIN r : n # 1 => r[n] = storage[n]
  <2>1. \A n \in 2 .. Len(r) : r[n] = storage[n]
    BY DEF Longer
  <2>2. \A n \in DOMAIN r : n # 1 => n \in 2 .. Len(r)
    BY <1>1, <1>2
  <2>3. QED
    BY <2>1, <2>2
<1>6. \A n \in DOMAIN storage : \A i \in DOMAIN storage[n] : storage[n][i] \in 1 .. count
  BY DEF Kept
<1>7. ASSUME NEW n \in DOMAIN r, NEW i \in DOMAIN r[n] PROVE r[n][i] \in 1 .. count + 1
  <2>1. CASE n = 1
    BY <1>1, <1>4, <1>6, <1>7, <2>1
  <2>2. CASE n # 1
    BY <1>2, <1>5, <1>6, <1>7, <2>2
  <2>3. QED
    BY <2>1, <2>2
<1>8. ASSUME NEW m \in DOMAIN r, NEW n \in DOMAIN r,
             NEW i \in DOMAIN r[m], NEW j \in DOMAIN r[n], m > n \/ (m = n /\ i < j)
      PROVE  r[m][i] < r[n][j]
  <2>0. m \in Nat \ {0} /\ n \in Nat \ {0}
    BY <1>2, ListsOfNumbers
  <2>1. CASE m = 1
    <3>1. n = 1 /\ i < j /\ i \in 1 .. Len(r[1]) /\ j \in 1 .. Len(r[1])
      BY <1>3, <1>8, <2>0, <2>1
    <3>2. p + i \in DOMAIN storage[1] /\ r[1][i] = storage[1][p + i] /\ p + i < p + j
      <4>1. i # Len(r[1]) /\ i \in DOMAIN r[1]
        BY <1>3, <3>1
      <4>2. p \in Int /\ i \in Int /\ j \in Int
        BY <1>1, <3>1
      <4>3. p + i < p + j
        BY <3>1, <4>2
      <4>4. QED
        BY <1>4, <4>1, <4>3
    <3>3. CASE j = Len(r[1]) /\ r[1][j] = count + 1
      <4>1. storage[1][p + i] \in 1 .. count
        BY <1>1, <1>6, <3>2
      <4>2. storage[1][p + i] < count + 1
        BY <4>1
      <4>3. QED
        BY <2>1, <3>1, <3>2, <3>3, <4>2
    <3>4. CASE p + j \in DOMAIN storage[1] /\ r[1][j] = storage[1][p + j]
      <4>1. storage[1][p + i] < storage[1][p + j]
        BY <1>1, <3>2, <3>4 DEF Kept, Ordered, CO!getDataShows
      <4>2. QED
        BY <2>1, <3>1, <3>2, <3>4, <4>1
    <3>5. QED
      BY <1>3, <1>4, <3>1, <3>3, <3>4
  <2>2. CASE m # 1
    <3>1. r[m] = storage[m] /\ m \in DOMAIN storage /\ i \in DOMAIN storage[m]
      BY <1>2, <1>5, <1>8, <2>2
    <3>2. CASE n # 1
      <4>1. r[n] = storage[n] /\ n \in DOMAIN storage /\ j \in DOMAIN storage[n]
        BY <1>2, <1>5, <1>8, <3>2
      <4>2. storage[m][i] < storage[n][j]
        BY <1>8, <3>1, <4>1 DEF Kept, Ordered, CO!getDataShows
      <4>3. QED
        BY <3>1, <4>1, <4>2
    <3>3. CASE n = 1
      <4>1. m > 1 /\ j \in DOMAIN r[1]
        BY <1>8, <2>0, <2>2, <3>3
      <4>2. CASE r[1][j] = count + 1
        BY <1>6, <3>1, <3>3, <4>2
      <4>3. CASE p + j \in DOMAIN storage[1] /\ r[1][j] = storage[1][p + j]
        <5>1. storage[m][i] < storage[1][p + j]
          BY <1>1, <3>1, <4>1, <4>3 DEF Kept, Ordered, CO!getDataShows
        <5>2. QED
          BY <3>1, <3>3, <4>3, <5>1
      <4>4. QED
        BY <1>4, <4>1, <4>2, <4>3
    <3>4. QED
      BY <3>2, <3>3
  <2>3. QED
    BY <2>1, <2>2
<1>9. Ordered(r)
  BY <1>8 DEF Ordered, CO!getDataShows
<1>10. Len(r) \in 1 .. MaxNavigations
  BY <1>2 DEF Kept
<1>11. QED
  BY <1>2, <1>7, <1>9, <1>10 DEF Kept

\* The greatest of some places in a list.
LEMMA GreatestPlace ==
    ASSUME NEW n \in Nat, NEW S, S \subseteq 1 .. n, S # {}
    PROVE  CO!Max(S) \in S /\ \A y \in S : y <= CO!Max(S)
<1> DEFINE T == {n - y : y \in S}
<1>1. T \subseteq Nat /\ T # {}
  <2>1. \A y \in S : y \in Nat /\ y <= n
    OBVIOUS
  <2>2. \A y \in S : n - y \in Nat
    BY <2>1
  <2>3. QED
    BY <2>2
<1>2. PICK t \in T : \A u \in T : t <= u
  BY <1>1, OneIsLeast
<1>3. PICK x \in S : t = n - x
  BY <1>2
<1>4. ASSUME NEW y \in S PROVE x >= y
  <2>1. n - x <= n - y
    BY <1>2, <1>3
  <2>2. QED
    BY <2>1
<1>5. CO!Max(S) \in S /\ \A y \in S : CO!Max(S) >= y
  <2>1. \E z \in S : \A y \in S : z >= y
    BY <1>4
  <2>2. QED
    BY <2>1, Zenon DEF CO!Max
<1>6. \A y \in S : y \in Int
  OBVIOUS
<1>7. CO!Max(S) \in Int
  BY <1>5, <1>6
<1>8. QED
  BY <1>5, <1>6, <1>7

\* What the collectors do with their storage.
LEMMA CollectsLonger ==
    ASSUME NEW count \in Nat, NEW storage, Kept(storage, count)
    PROVE  /\ Longer(storage, 0, count, CO!collect(storage, count + 1))
           /\ \E first \in 0 .. Len(storage[1]) + 1 :
                 Longer(storage, first, count, CO!collectBounded(storage, count + 1))
<1>1. /\ storage \in Seq(Seq(Nat)) /\ 1 \in DOMAIN storage /\ DOMAIN storage = 1 .. Len(storage)
      /\ storage[1] \in Seq(Nat) /\ Len(storage[1]) \in Nat
  BY KeptLists
<1> DEFINE now == Append(storage[1], count + 1)
           first == IF Len(now) > MaxResources THEN Len(now) - MaxResources ELSE 0
<1>2. /\ now \in Seq(Nat) /\ Len(now) = Len(storage[1]) + 1
      /\ \A i \in 1 .. Len(now) :
            now[i] = IF i <= Len(storage[1]) THEN storage[1][i] ELSE count + 1
  BY <1>1
<1>3. ASSUME NEW new \in Seq(Nat), NEW k \in 0 .. Len(storage[1]) + 1,
             Len(new) = Len(now) - k, \A i \in 1 .. Len(new) : new[i] = now[k + i]
      PROVE  Longer(storage, k, count, [storage EXCEPT ![1] = new])
  <2> DEFINE r == [storage EXCEPT ![1] = new]
  <2>1. r \in Seq(Seq(Nat)) /\ Len(r) = Len(storage)
    BY <1>1, <1>3
  <2>2. r[1] = new
    BY <1>1
  <2>3. \A n \in 2 .. Len(r) : r[n] = storage[n]
    BY <1>1, <2>1
  <2>4. Len(r[1]) = Len(storage[1]) + 1 - k
    <3>1. Len(r[1]) = Len(now) - k /\ Len(now) = Len(storage[1]) + 1
      BY <1>2, <1>3, <2>2
    <3>2. Len(storage[1]) \in Nat /\ k \in Nat
      BY <1>1
    <3> HIDE DEF now, r
    <3>3. QED
      BY <3>1, <3>2
  <2>5. ASSUME NEW i \in 1 .. Len(r[1])
        PROVE  r[1][i] = IF k + i <= Len(storage[1]) THEN storage[1][k + i] ELSE count + 1
    <3>1. k + i \in 1 .. Len(now)
      BY <1>1, <1>2, <2>4
    <3>2. QED
      BY <1>2, <1>3, <2>2, <3>1
  <2> HIDE DEF r
  <2>6. Longer(storage, k, count, r)
    BY <2>1, <2>3, <2>4, <2>5 DEF Longer
  <2>7. QED
    BY <2>6 DEF r
<1> HIDE DEF now
<1>4. Longer(storage, 0, count, CO!collect(storage, count + 1))
  <2>1. CO!collect(storage, count + 1) = [storage EXCEPT ![1] = now]
    BY <1>1 DEF CO!collect, now
  <2>2. /\ 0 \in 0 .. Len(storage[1]) + 1 /\ Len(now) = Len(now) - 0
        /\ \A i \in 1 .. Len(now) : now[i] = now[0 + i]
    BY <1>1, <1>2
  <2>3. Longer(storage, 0, count, [storage EXCEPT ![1] = now])
    BY <1>2, <1>3, <2>2
  <2>4. QED
    BY <2>1, <2>3
<1>5. ASSUME first \in 0 .. Len(storage[1]) + 1
      PROVE  Longer(storage, first, count, CO!collectBounded(storage, count + 1))
  <2> DEFINE new == SubSeq(now, 1 + first, Len(now))
  <2>1. CO!collectBounded(storage, count + 1) = [storage EXCEPT ![1] = new]
    BY <1>1 DEF CO!collectBounded, CO!Newest, now
  <2> HIDE DEF first
  <2>2. /\ new \in Seq(Nat) /\ Len(new) = Len(now) - first
        /\ \A i \in 1 .. Len(new) : new[i] = now[first + i]
    <3>1. first \in Nat /\ first <= Len(now) /\ Len(now) \in Nat /\ now \in Seq(Nat)
      BY <1>1, <1>2, <1>5
    <3> HIDE DEF now
    <3>2. QED
      BY <3>1
  <2> HIDE DEF new
  <2>3. QED
    BY <1>3, <1>5, <2>1, <2>2
<1>6. first \in 0 .. Len(storage[1]) + 1
  BY <1>1, <1>2, NavigationsAreKept
<1> HIDE DEF first
<1>7. QED
  BY <1>4, <1>5, <1>6

\* A split parts the current list, in front of nothing when there is no request of the
\* main frame for a document.
LEMMA SplitsAt ==
    ASSUME NEW count \in Nat, NEW storage, Kept(storage, count), NEW p \in 1 .. Len(storage[1]) + 1
    PROVE  Parted(storage, p, CO!Saved(<<SubSeq(storage[1], p, Len(storage[1])),
                                         SubSeq(storage[1], 1, p - 1)>> \o Tail(storage)))
<1>1. /\ storage \in Seq(Seq(Nat)) /\ 1 \in DOMAIN storage /\ DOMAIN storage = 1 .. Len(storage)
      /\ storage[1] \in Seq(Nat) /\ Len(storage[1]) \in Nat /\ Len(storage) \in Nat
  BY KeptLists
<1> DEFINE new == SubSeq(storage[1], p, Len(storage[1]))
           old == SubSeq(storage[1], 1, p - 1)
           all == <<new, old>> \o Tail(storage)
           l == IF Len(all) > MaxNavigations THEN MaxNavigations ELSE Len(all)
           r == SubSeq(all, 1, l)
<1>2. /\ new \in Seq(Nat) /\ Len(new) = Len(storage[1]) + 1 - p
      /\ \A i \in 1 .. Len(new) : new[i] = storage[1][p + i - 1]
  BY <1>1
<1>3. /\ old \in Seq(Nat) /\ Len(old) = p - 1
      /\ \A i \in 1 .. p - 1 : old[i] = storage[1][i]
  BY <1>1
<1> HIDE DEF new, old
<1>4. /\ Tail(storage) \in Seq(Seq(Nat)) /\ Len(Tail(storage)) = Len(storage) - 1
      /\ \A n \in 1 .. Len(storage) - 1 : Tail(storage)[n] = storage[n + 1]
  <2>1. storage # <<>>
    BY <1>1
  <2>2. QED
    BY <1>1, <2>1
<1>5. /\ all \in Seq(Seq(Nat)) /\ Len(all) = Len(storage) + 1
      /\ all[1] = new /\ all[2] = old
      /\ \A n \in 3 .. Len(storage) + 1 : all[n] = storage[n - 1]
  <2>1. /\ <<new, old>> \in Seq(Seq(Nat)) /\ Len(<<new, old>>) = 2
        /\ <<new, old>>[1] = new /\ <<new, old>>[2] = old
    BY <1>2, <1>3
  <2>2. /\ all \in Seq(Seq(Nat)) /\ Len(all) = 2 + Len(Tail(storage))
        /\ \A n \in 1 .. 2 + Len(Tail(storage)) :
              all[n] = IF n <= 2 THEN <<new, old>>[n] ELSE Tail(storage)[n - 2]
    BY <1>4, <2>1
  <2>3. ASSUME NEW n \in 3 .. Len(storage) + 1 PROVE all[n] = storage[n - 1]
    <3>1. n - 2 \in 1 .. Len(storage) - 1 /\ n \in 1 .. 2 + Len(Tail(storage)) /\ ~(n <= 2)
      BY <1>1, <1>4
    <3>2. all[n] = Tail(storage)[n - 2]
      BY <2>2, <3>1
    <3>3. Tail(storage)[n - 2] = storage[n - 2 + 1] /\ n - 2 + 1 = n - 1
      BY <1>4, <3>1
    <3>4. QED
      BY <3>2, <3>3
  <2>4. Len(all) = Len(storage) + 1 /\ 1 \in 1 .. 2 + Len(Tail(storage)) /\ 2 \in 1 .. 2 + Len(Tail(storage))
    BY <1>1, <1>4, <2>2
  <2>5. QED
    BY <2>1, <2>2, <2>3, <2>4
<1> HIDE DEF all
<1>6. l \in 1 .. MaxNavigations /\ l <= Len(all)
  BY <1>1, <1>5, NavigationsAreKept
<1> HIDE DEF l
<1>7. /\ r \in Seq(Seq(Nat)) /\ Len(r) = l /\ \A n \in 1 .. l : r[n] = all[n]
  BY <1>5, <1>6, NavigationsAreKept
<1> HIDE DEF r
<1>8. Parted(storage, p, r)
  <2>1. r[1] = new
    BY <1>5, <1>6, <1>7, NavigationsAreKept
  <2>2. 2 <= Len(r) => r[2] = old
    BY <1>5, <1>6, <1>7, NavigationsAreKept
  <2>3. \A n \in 3 .. Len(r) : r[n] = storage[n - 1]
    BY <1>1, <1>5, <1>6, <1>7, NavigationsAreKept
  <2>4. Len(r) <= Len(storage) + 1 /\ Len(r) \in 1 .. MaxNavigations
    BY <1>1, <1>5, <1>6, <1>7, NavigationsAreKept
  <2>5. QED
    BY <1>2, <1>3, <1>7, <2>1, <2>2, <2>3, <2>4 DEF Parted
<1>9. r = CO!Saved(all)
  BY DEF CO!Saved, r, l
<1>10. QED
  BY <1>8, <1>9 DEF all, new, old

LEMMA SplitsPlainly ==
    ASSUME NEW count \in Nat, NEW storage, Kept(storage, count)
    PROVE  Parted(storage, Len(storage[1]) + 1, CO!splitAfterNavigation(storage))
<1>1. /\ storage \in Seq(Seq(Nat)) /\ 1 \in DOMAIN storage /\ DOMAIN storage = 1 .. Len(storage)
      /\ storage[1] \in Seq(Nat) /\ Len(storage[1]) \in Nat /\ Len(storage) \in Nat
  BY KeptLists
<1> DEFINE now == storage[1]
           all == <<SubSeq(now, Len(now) + 1, Len(now)), SubSeq(now, 1, Len(now) + 1 - 1)>>
                    \o Tail(storage)
<1>2. SubSeq(now, Len(now) + 1, Len(now)) = <<>>
  BY <1>1
<1>3. SubSeq(now, 1, Len(now) + 1 - 1) = now
  <2>1. Len(now) + 1 - 1 = Len(now)
    BY <1>1
  <2>2. SubSeq(now, 1, Len(now)) = now
    BY <1>1
  <2>3. QED
    BY <2>1, <2>2
<1>4. <<<<>>, now>> \o Tail(storage) = <<<<>>>> \o storage
  <2>1. storage # <<>>
    BY <1>1
  <2>2. QED
    BY <1>1, <2>1
<1>5. all = <<<<>>>> \o storage
  BY <1>2, <1>3, <1>4
<1>6. Parted(storage, Len(now) + 1, CO!Saved(all))
  <2>1. Len(now) + 1 \in 1 .. Len(now) + 1
    BY <1>1
  <2>2. \A p \in 1 .. Len(now) + 1 :
           Parted(storage, p, CO!Saved(<<SubSeq(now, p, Len(now)), SubSeq(now, 1, p - 1)>>
                                         \o Tail(storage)))
    BY SplitsAt
  <2> DEFINE p == Len(now) + 1
  <2>3. Parted(storage, p, CO!Saved(<<SubSeq(now, p, Len(now)), SubSeq(now, 1, p - 1)>>
                                      \o Tail(storage)))
    <3>1. p \in 1 .. Len(now) + 1
      BY <2>1
    <3> HIDE DEF p
    <3>2. QED
      BY <2>2, <3>1
  <2>4. QED
    BY <2>3
<1>7. QED
  BY <1>5, <1>6 DEF CO!splitAfterNavigation

\* The latest request of the main frame for a document, and the latest for the document
\* that is there.
Latest(id) ==
    /\ id \in DOMAIN request /\ request[id].navigates
    /\ \A j \in DOMAIN request : id < j => ~request[j].navigates

LatestOfDocument(id) ==
    /\ id \in DOMAIN request /\ request[id].navigates /\ request[id].of = document
    /\ \A j \in DOMAIN request : id < j => ~(request[j].navigates /\ request[j].of = document)

\* What a storage still holds of it, it holds under the current navigation.
InCurrent(storage, id) == id \in CO!Retained(storage) => id \in CO!ToSet(storage[1])

\* Documents are numbered as they are asked for, and the one that is loading is the last
\* the main frame has asked for.
DocumentsAreNumbered ==
    /\ document <= documents
    /\ \A i \in DOMAIN request : request[i].of <= documents
    /\ loading # 0 =>
          /\ loading = documents /\ document < loading
          /\ \E id \in DOMAIN request : Latest(id) /\ request[id].of = loading

\* The current list is of the latest requests.
CurrentIsNewest ==
    \A i \in DOMAIN network[1] : network[1][i] = Len(request) - Len(network[1]) + i

\* No split leaves behind the request a document has begun with, unless the document
\* navigated within itself while another was asked for.
BeginningsAreCurrent ==
    /\ \A id \in DOMAIN request : Latest(id) => InCurrent(network, id)
    /\ ~strayed => \A id \in DOMAIN request : LatestOfDocument(id) => InCurrent(network, id)

\* What is reported is what has been noted since the last navigation.
IssuesAreNoted ==
    /\ message \in Seq({Kind[key] : key \in Issues} \cup {"none"})
    /\ reported = seenIssues /\ \A key \in seenKeys : Kind[key] \in reported
    /\ CO!IssuesOfTheNavigation

CollectedInv ==
    /\ CO!TypeOK
    /\ Kept(network, Len(request)) /\ Kept(console, Len(message))
    /\ DocumentsAreNumbered /\ CurrentIsNewest /\ BeginningsAreCurrent /\ IssuesAreNoted

LEMMA PartedRetains ==
    ASSUME NEW count \in Nat, NEW storage, Kept(storage, count), NEW p \in 1 .. Len(storage[1]) + 1,
           NEW r, Parted(storage, p, r)
    PROVE  CO!Retained(r) \subseteq CO!Retained(storage)
<1> SUFFICES ASSUME NEW n \in DOMAIN r, NEW i \in DOMAIN r[n]
             PROVE  r[n][i] \in CO!Retained(storage)
  BY DEF CO!Retained, CO!ToSet
<1>1. \E m \in DOMAIN storage : \E j \in DOMAIN storage[m] : r[n][i] = storage[m][j]
  BY Whence
<1>2. QED
  BY <1>1 DEF CO!Retained, CO!ToSet

LEMMA LongerHoldsCurrent ==
    ASSUME NEW count \in Nat, NEW storage, Kept(storage, count), NEW p \in 0 .. Len(storage[1]) + 1,
           NEW r, Longer(storage, p, count, r),
           NEW id, id = count + 1 \/ InCurrent(storage, id)
    PROVE  InCurrent(r, id)
<1> SUFFICES ASSUME NEW n \in DOMAIN r, NEW i \in DOMAIN r[n], r[n][i] = id, n # 1
             PROVE  FALSE
  BY DEF InCurrent, CO!Retained, CO!ToSet
<1>1. /\ Len(storage) \in Nat /\ 1 \in DOMAIN storage /\ DOMAIN storage = 1 .. Len(storage)
  BY KeptLists
<1>2. r \in Seq(Seq(Nat)) /\ Len(r) = Len(storage) /\ DOMAIN r = DOMAIN storage
  BY <1>1, ListsOfNumbers DEF Longer
<1>3. n \in 2 .. Len(r) /\ n \in DOMAIN storage /\ n > 1
  BY <1>1, <1>2
<1>4. r[n] = storage[n]
  BY <1>3 DEF Longer
<1>5. storage[n][i] = id /\ i \in DOMAIN storage[n]
  BY <1>4
<1>6. id \in 1 .. count
  BY <1>3, <1>5 DEF Kept
<1>7. InCurrent(storage, id)
  BY <1>6
<1>8. id \in CO!Retained(storage)
  BY <1>3, <1>5 DEF CO!Retained, CO!ToSet
<1>9. PICK q \in DOMAIN storage[1] : storage[1][q] = id
  BY <1>7, <1>8 DEF InCurrent, CO!ToSet
<1>10. storage[n][i] < storage[1][q]
  BY <1>1, <1>3, <1>5 DEF Kept, Ordered, CO!getDataShows
<1>11. QED
  BY <1>5, <1>6, <1>9, <1>10

LEMMA LongerRetains ==
    ASSUME NEW count \in Nat, NEW storage, Kept(storage, count), NEW p \in 0 .. Len(storage[1]) + 1,
           NEW r, Longer(storage, p, count, r)
    PROVE  CO!Retained(r) \subseteq 1 .. count + 1
<1>1. Kept(r, count + 1)
  BY LongerIsKept
<1>2. QED
  BY <1>1 DEF Kept, CO!Retained, CO!ToSet

\* The split of the network's storage is at the latest request of the main frame for a
\* document that its current list holds.
LEMMA NetworkSplits ==
    ASSUME NEW count \in Nat, Kept(network, count)
    PROVE  \E p \in 1 .. Len(network[1]) + 1 :
              /\ Parted(network, p, CO!networkSplit(network))
              /\ p <= Len(network[1]) => request[network[1][p]].navigates
              /\ \A i \in DOMAIN network[1] :
                    request[network[1][i]].navigates => p <= Len(network[1]) /\ i <= p
<1>1. /\ network[1] \in Seq(Nat) /\ Len(network[1]) \in Nat
      /\ DOMAIN network[1] = 1 .. Len(network[1])
  BY KeptLists
<1> DEFINE now == network[1]
           S == {i \in 1 .. Len(now) : request[now[i]].navigates}
<1>2. CO!networkSplit(network) =
         IF S = {} \/ CO!Max(S) = 0 THEN CO!splitAfterNavigation(network)
         ELSE CO!Saved(<<SubSeq(now, CO!Max(S), Len(now)), SubSeq(now, 1, CO!Max(S) - 1)>>
                         \o Tail(network))
  BY DEF CO!networkSplit, CO!SelectLastInSeq
<1>3. CASE S = {}
  <2>1. Parted(network, Len(now) + 1, CO!networkSplit(network))
    BY <1>2, <1>3, SplitsPlainly
  <2>2. Len(now) + 1 \in 1 .. Len(now) + 1 /\ ~(Len(now) + 1 <= Len(now))
    BY <1>1
  <2>3. \A i \in DOMAIN now : ~request[now[i]].navigates
    BY <1>1, <1>3
  <2>4. QED
    BY <2>1, <2>2, <2>3
<1>4. CASE S # {}
  <2> DEFINE p == CO!Max(S)
  <2>1. p \in S /\ \A i \in S : i <= p
    <3>1. S \subseteq 1 .. Len(now)
      OBVIOUS
    <3> HIDE DEF S
    <3>2. QED
      BY <1>1, <1>4, <3>1, GreatestPlace
  <2>2. p \in 1 .. Len(now) /\ p # 0 /\ request[now[p]].navigates
    <3>1. \A i \in S : i \in 1 .. Len(now) /\ request[now[i]].navigates
      OBVIOUS
    <3> HIDE DEF p, S
    <3>2. p \in 1 .. Len(now) /\ request[now[p]].navigates
      BY <2>1, <3>1
    <3>3. QED
      BY <1>1, <3>2
  <2>3. CO!networkSplit(network) =
           CO!Saved(<<SubSeq(now, p, Len(now)), SubSeq(now, 1, p - 1)>> \o Tail(network))
    BY <1>2, <1>4, <2>2
  <2>4. \A i \in DOMAIN now : request[now[i]].navigates => i <= p
    BY <1>1, <2>1
  <2> HIDE DEF p, S
  <2>5. p \in 1 .. Len(now) + 1 /\ p <= Len(now)
    BY <1>1, <2>2
  <2>6. Parted(network, p, CO!networkSplit(network))
    BY <2>3, <2>5, SplitsAt
  <2>7. QED
    BY <2>2, <2>4, <2>5, <2>6
<1>5. QED
  BY <1>3, <1>4

LEMMA LatestStays ==
    ASSUME NEW count \in Nat, Kept(network, count), NEW id, Latest(id), InCurrent(network, id),
           \A m \in DOMAIN network : \A i \in DOMAIN network[m] : network[m][i] \in DOMAIN request,
           DOMAIN request \subseteq Nat
    PROVE  InCurrent(CO!networkSplit(network), id)
<1> DEFINE r == CO!networkSplit(network)
<1>1. PICK p \in 1 .. Len(network[1]) + 1 :
         /\ Parted(network, p, r)
         /\ p <= Len(network[1]) => request[network[1][p]].navigates
         /\ \A i \in DOMAIN network[1] :
               request[network[1][i]].navigates => p <= Len(network[1]) /\ i <= p
  BY NetworkSplits
<1> HIDE DEF r
<1> SUFFICES ASSUME id \in CO!Retained(r) PROVE id \in CO!ToSet(r[1])
  BY DEF InCurrent, r
<1>2. id \in CO!Retained(network)
  BY <1>1, PartedRetains
<1>3. PICK q \in DOMAIN network[1] : network[1][q] = id
  BY <1>2 DEF InCurrent, CO!ToSet
<1>4. p <= Len(network[1]) /\ q <= p /\ request[network[1][p]].navigates
  BY <1>1, <1>3 DEF Latest
<1>5. /\ 1 \in DOMAIN network /\ DOMAIN network[1] = 1 .. Len(network[1]) /\ Len(network[1]) \in Nat
  BY KeptLists
<1>6. p \in DOMAIN network[1]
  BY <1>4, <1>5
<1>7. q = p
  <2>1. CASE q < p
    <3>1. network[1][q] < network[1][p]
      BY <1>3, <1>5, <1>6, <2>1 DEF Kept, Ordered, CO!getDataShows
    <3>2. network[1][p] \in DOMAIN request
      BY <1>5, <1>6
    <3>3. QED
      BY <1>3, <1>4, <3>1, <3>2 DEF Latest
  <2>2. QED
    BY <1>4, <1>5, <1>6, <2>1
<1>8. 1 \in 1 .. Len(r[1]) /\ r[1][1] = network[1][p]
  <2>1. Len(r[1]) = Len(network[1]) + 1 - p
    BY <1>1 DEF Parted
  <2>2. 1 \in 1 .. Len(r[1]) /\ p + 1 - 1 = p
    BY <1>4, <1>5, <1>6, <2>1
  <2>3. r[1][1] = network[1][p + 1 - 1]
    BY <1>1, <2>2 DEF Parted
  <2>4. QED
    BY <2>2, <2>3
<1>9. 1 \in DOMAIN r[1]
  <2>1. r \in Seq(Seq(Nat)) /\ 1 <= Len(r)
    BY <1>1, NavigationsAreKept DEF Parted
  <2>2. DOMAIN r[1] = 1 .. Len(r[1])
    BY <2>1, ListsOfNumbers
  <2>3. QED
    BY <1>8, <2>2
<1>10. QED
  BY <1>3, <1>7, <1>8, <1>9 DEF CO!ToSet

LEMMA CollectedFirst == CO!Init => CollectedInv
<1> SUFFICES ASSUME CO!Init PROVE CollectedInv
  OBVIOUS
<1>1. /\ document = 1 /\ loading = 0 /\ documents = 1 /\ strayed = FALSE
      /\ request = <<>> /\ network = <<<<>>>> /\ message = <<>> /\ console = <<<<>>>>
      /\ seenKeys = {} /\ seenIssues = {} /\ reported = {}
  BY DEF CO!Init
<1>2. /\ <<<<>>>> \in Seq(Seq(Nat)) /\ Len(<<<<>>>>) = 1
      /\ DOMAIN <<<<>>>> = {1} /\ <<<<>>>>[1] = <<>>
      /\ Len(<<>>) = 0 /\ DOMAIN <<>> = {}
  OBVIOUS
<1>3. Kept(network, Len(request)) /\ Kept(console, Len(message))
  BY <1>1, <1>2, NavigationsAreKept DEF Kept, Ordered
<1>4. CO!Retained(network) = {} /\ CO!Retained(console) = {}
  BY <1>1, <1>2 DEF CO!Retained, CO!ToSet
<1>5. CO!TypeOK
  <2>1. Len(network) \in 1 .. MaxNavigations /\ Len(console) \in 1 .. MaxNavigations
    BY <1>3 DEF Kept
  <2>2. 1 \in 1 .. MaxDocuments /\ 0 \in 0 .. MaxDocuments
    BY NavigationsAreKept
  <2>3. request \in Seq([of : 1 .. MaxDocuments, navigates : BOOLEAN])
    BY <1>1
  <2>4. QED
    BY <1>1, <1>4, <2>1, <2>2, <2>3 DEF CO!TypeOK
<1>6. DocumentsAreNumbered
  BY <1>1 DEF DocumentsAreNumbered
<1>7. CurrentIsNewest /\ BeginningsAreCurrent
  BY <1>1, <1>2 DEF CurrentIsNewest, BeginningsAreCurrent
<1>8. IssuesAreNoted
  <2>1. message \in Seq({Kind[key] : key \in Issues} \cup {"none"})
    BY <1>1
  <2>2. console[1] = <<>> /\ DOMAIN console[1] = {}
    BY <1>1, <1>2
  <2>3. QED
    BY <1>1, <2>1, <2>2 DEF IssuesAreNoted, CO!IssuesOfTheNavigation
<1>9. QED
  BY <1>3, <1>5, <1>6, <1>7, <1>8 DEF CollectedInv

Item == [of : 1 .. MaxDocuments, navigates : BOOLEAN]

LEMMA RequestFacts ==
    ASSUME CollectedInv
    PROVE  /\ request \in Seq(Item) /\ Len(request) \in Nat /\ DOMAIN request = 1 .. Len(request)
           /\ \A i \in DOMAIN request : request[i] \in Item
           /\ message \in Seq({Kind[key] : key \in Issues} \cup {"none"})
           /\ Len(message) \in Nat /\ DOMAIN message = 1 .. Len(message)
<1>1. request \in Seq(Item)
  BY DEF CollectedInv, CO!TypeOK, Item
<1>2. message \in Seq({Kind[key] : key \in Issues} \cup {"none"})
  BY DEF CollectedInv, IssuesAreNoted
<1>3. Len(request) \in Nat /\ DOMAIN request = 1 .. Len(request)
  BY <1>1
<1>4. Len(message) \in Nat /\ DOMAIN message = 1 .. Len(message)
  BY <1>2
<1>5. \A i \in DOMAIN request : request[i] \in Item
  BY <1>1, <1>3
<1>6. QED
  BY <1>1, <1>2, <1>3, <1>4, <1>5

\* A request is collected: one of the page, or one of the main frame for a document that
\* becomes the one that is loading.
LEMMA RequestCollected ==
    ASSUME CollectedInv, NEW of \in 1 .. MaxDocuments, NEW navigates \in BOOLEAN,
           CO!Collects(of, navigates), of <= documents',
           documents' \in documents .. MaxDocuments,
           loading' = IF navigates THEN of ELSE loading,
           navigates => of = documents' /\ document < of,
           ~navigates => documents' = documents,
           UNCHANGED <<document, strayed, CO!consoleVars>>
    PROVE  CollectedInv'
<1> DEFINE item == [of |-> of, navigates |-> navigates]
<1>0. PICK count : count = Len(request)
  OBVIOUS
<1>1. /\ request \in Seq(Item) /\ count \in Nat /\ DOMAIN request = 1 .. count
      /\ \A i \in DOMAIN request : request[i] \in Item
  BY <1>0, RequestFacts
<1>2. item \in Item /\ request' = Append(request, item)
      /\ network' = CO!collectBounded(network, count + 1)
  BY <1>0 DEF CO!Collects, Item
<1>3. /\ request' \in Seq(Item) /\ Len(request') = count + 1 /\ DOMAIN request' = 1 .. count + 1
      /\ request'[count + 1] = item /\ \A i \in 1 .. count : request'[i] = request[i]
  <2> HIDE DEF item
  <2>1. QED
    BY <1>0, <1>1, <1>2
<1>4. Kept(network, count)
  BY <1>0 DEF CollectedInv
<1>5. PICK p \in 0 .. Len(network[1]) + 1 : Longer(network, p, count, network')
  <2>1. \E p \in 0 .. Len(network[1]) + 1 :
            Longer(network, p, count, CO!collectBounded(network, count + 1))
    BY <1>1, <1>4, CollectsLonger
  <2>2. QED
    BY <1>2, <2>1
<1>6. Kept(network, Len(request))'
  <2>1. Kept(network', count + 1)
    BY <1>1, <1>4, <1>5, LongerIsKept
  <2>2. QED
    BY <1>3, <2>1 DEF Kept, Ordered
<1>7. UNCHANGED <<message, console, seenKeys, seenIssues, reported>>
  BY DEF CO!consoleVars
<1>8. Kept(console, Len(message))' /\ IssuesAreNoted'
  BY <1>7 DEF CollectedInv, Kept, Ordered, IssuesAreNoted, CO!IssuesOfTheNavigation, CO!Plain
<1>9. CO!TypeOK'
  <2>1. CO!Retained(network') \subseteq DOMAIN request'
    BY <1>1, <1>3, <1>4, <1>5, LongerRetains
  <2>2. Len(network') \in 1 .. MaxNavigations
    BY <1>6 DEF Kept
  <2>3. document \in 1 .. MaxDocuments /\ documents \in 1 .. MaxDocuments /\ loading \in 0 .. MaxDocuments
    BY DEF CollectedInv, CO!TypeOK
  <2>4. documents' \in 1 .. MaxDocuments /\ loading' \in 0 .. MaxDocuments
    BY <2>3, NavigationsAreKept
  <2>5. CO!Retained(console) \subseteq DOMAIN message /\ Len(console) \in 1 .. MaxNavigations
        /\ seenKeys \subseteq Issues /\ reported \subseteq {Kind[k] : k \in Issues} /\ strayed \in BOOLEAN
    BY DEF CollectedInv, CO!TypeOK
  <2>6. request' \in Seq([of : 1 .. MaxDocuments, navigates : BOOLEAN])
    BY <1>3 DEF Item
  <2>7. CO!Retained(console)' \subseteq DOMAIN message'
    BY <1>7, <2>5 DEF CO!Retained, CO!ToSet
  <2>8. CO!Retained(network)' \subseteq DOMAIN request'
    BY <2>1 DEF CO!Retained, CO!ToSet
  <2>9. QED
    BY <1>7, <2>2, <2>3, <2>4, <2>5, <2>6, <2>7, <2>8 DEF CO!TypeOK
<1>10. /\ count + 1 \in DOMAIN request' /\ request'[count + 1].of = of
       /\ request'[count + 1].navigates = navigates
       /\ \A i \in DOMAIN request' : i = count + 1 \/ (i \in DOMAIN request /\ request'[i] = request[i] /\ i < count + 1)
       /\ \A i \in DOMAIN request : i \in DOMAIN request' /\ request'[i] = request[i]
  BY <1>1, <1>3
<1> HIDE DEF item
<1>11. ASSUME NEW id \in DOMAIN request', Latest(id)'
       PROVE  id = count + 1 \/ (~navigates /\ Latest(id))
  BY <1>10, <1>11 DEF Latest
<1>12. ASSUME NEW id \in DOMAIN request', LatestOfDocument(id)'
       PROVE  id = count + 1 \/ LatestOfDocument(id)
  BY <1>10, <1>12 DEF LatestOfDocument
<1>13. DocumentsAreNumbered'
  <2>0. documents \in Nat /\ documents' \in Nat /\ documents <= documents' /\ document \in Nat
        /\ of \in Nat /\ of # 0
    BY DEF CollectedInv, CO!TypeOK
  <2>1. document' <= documents'
    <3>1. document <= documents
      BY DEF CollectedInv, DocumentsAreNumbered
    <3>2. QED
      BY <2>0, <3>1
  <2>2. \A i \in DOMAIN request' : request'[i].of <= documents'
    <3>1. \A i \in DOMAIN request : request[i].of <= documents /\ request[i].of \in Nat
      BY <1>1 DEF CollectedInv, DocumentsAreNumbered, Item
    <3>2. QED
      BY <1>10, <2>0, <3>1
  <2>3. CASE navigates
    <3>1. Latest(count + 1)'
      <4>1. \A j \in DOMAIN request' : j \in Nat /\ j <= count + 1
        BY <1>1, <1>3
      <4>2. QED
        BY <1>1, <1>10, <2>3, <4>1 DEF Latest
    <3>2. QED
      BY <1>10, <2>1, <2>2, <2>3, <3>1 DEF DocumentsAreNumbered
  <2>4. CASE ~navigates
    <3>1. ASSUME NEW id \in DOMAIN request, Latest(id), request[id].of = loading
          PROVE  id \in DOMAIN request' /\ Latest(id)' /\ request'[id].of = loading
      BY <1>10, <2>4, <3>1 DEF Latest
    <3>2. loading # 0 => /\ loading = documents /\ document < loading
                         /\ \E id \in DOMAIN request : Latest(id) /\ request[id].of = loading
      BY DEF CollectedInv, DocumentsAreNumbered
    <3>3. QED
      BY <2>1, <2>2, <2>4, <3>1, <3>2 DEF DocumentsAreNumbered
  <2>5. QED
    BY <2>3, <2>4
<1>14. CurrentIsNewest'
  <2>1. Kept(network, count) /\ Len(network[1]) \in Nat /\ count \in Nat /\ DOMAIN network[1] = 1 .. Len(network[1])
    BY <1>1, <1>4, KeptLists
  <2>2. /\ Len(network'[1]) = Len(network[1]) + 1 - p
        /\ \A i \in 1 .. Len(network'[1]) :
              network'[1][i] = IF p + i <= Len(network[1]) THEN network[1][p + i] ELSE count + 1
    BY <1>5 DEF Longer
  <2>3. DOMAIN network'[1] = 1 .. Len(network'[1])
    <3>1. Kept(network', count + 1)
      BY <1>4, <1>5, <2>1, LongerIsKept
    <3>2. QED
      BY <2>1, <3>1, KeptLists
  <2>4. \A i \in DOMAIN network[1] : network[1][i] = count - Len(network[1]) + i
    BY <1>0 DEF CollectedInv, CurrentIsNewest
  <2>5. ASSUME NEW i \in DOMAIN network'[1]
        PROVE  network'[1][i] = (count + 1) - Len(network'[1]) + i
    <3>1. i \in Nat \ {0} /\ p \in Nat /\ i <= Len(network[1]) + 1 - p
      BY <2>1, <2>2, <2>3
    <3>2. CASE p + i <= Len(network[1])
      <4>1. p + i \in DOMAIN network[1]
        BY <2>1, <3>1, <3>2
      <4>2. network'[1][i] = count - Len(network[1]) + (p + i)
        BY <2>2, <2>3, <2>4, <3>2, <4>1
      <4>3. QED
        BY <2>1, <2>2, <3>1, <4>2
    <3>3. CASE ~(p + i <= Len(network[1]))
      <4>1. network'[1][i] = count + 1
        BY <2>2, <2>3, <3>3
      <4>2. Len(network[1]) \in Nat /\ Len(network'[1]) = Len(network[1]) + 1 - p
        BY <2>1, <2>2
      <4>3. i = Len(network'[1])
        BY <3>1, <3>3, <4>2
      <4>4. QED
        BY <2>1, <3>1, <4>1, <4>3
    <3>4. QED
      BY <3>2, <3>3
  <2>6. Len(request') = count + 1
    BY <1>3
  <2>7. ASSUME NEW i \in DOMAIN network'[1]
        PROVE  network'[1][i] = Len(request') - Len(network'[1]) + i
    BY <2>5, <2>6, Zenon
  <2>8. QED
    BY <2>7, Zenon DEF CurrentIsNewest
<1>15. BeginningsAreCurrent'
  <2>1. ASSUME NEW id, id = count + 1 \/ InCurrent(network, id) PROVE InCurrent(network', id)
    BY <1>1, <1>4, <1>5, <2>1, LongerHoldsCurrent
  <2>2. \A id : InCurrent(network', id) <=> InCurrent(network, id)'
    BY DEF InCurrent, CO!Retained, CO!ToSet
  <2>3. ASSUME NEW id \in DOMAIN request', Latest(id)' PROVE InCurrent(network, id)'
    <3>1. id = count + 1 \/ InCurrent(network, id)
      <4>1. CASE Latest(id)
        BY <4>1 DEF CollectedInv, BeginningsAreCurrent, Latest
      <4>2. QED
        BY <1>11, <2>3, <4>1
    <3>2. QED
      BY <2>1, <2>2, <3>1
  <2>4. ASSUME ~strayed, NEW id \in DOMAIN request', LatestOfDocument(id)'
        PROVE  InCurrent(network, id)'
    <3>1. id = count + 1 \/ InCurrent(network, id)
      <4>1. CASE LatestOfDocument(id)
        BY <2>4, <4>1 DEF CollectedInv, BeginningsAreCurrent, LatestOfDocument
      <4>2. QED
        BY <1>12, <2>4, <4>1
    <3>2. QED
      BY <2>1, <2>2, <3>1
  <2>5. QED
    BY <2>3, <2>4 DEF BeginningsAreCurrent
<1>16. QED
  BY <1>6, <1>8, <1>9, <1>13, <1>14, <1>15 DEF CollectedInv

\* A navigation of the main frame: both storages are split, and the issues start anew.
LEMMA NavigatedTo ==
    ASSUME CollectedInv, CO!onFrameNavigated,
           document' \in 1 .. MaxDocuments, loading' \in {0, loading}, strayed' \in BOOLEAN,
           documents' \in documents .. MaxDocuments, document' <= documents',
           loading' # 0 => document' = document /\ documents' = documents,
           ~strayed' => \A id \in DOMAIN request : LatestOfDocument(id)' => Latest(id)
    PROVE  CollectedInv'
<1>1. /\ UNCHANGED <<request, message>>
      /\ network' = CO!networkSplit(network) /\ console' = CO!splitAfterNavigation(console)
      /\ seenKeys' = {} /\ seenIssues' = {} /\ reported' = {}
  BY DEF CO!onFrameNavigated
<1>2. /\ Len(request) \in Nat /\ DOMAIN request = 1 .. Len(request)
      /\ Len(message) \in Nat /\ DOMAIN message = 1 .. Len(message)
  BY RequestFacts
<1>3. Kept(network, Len(request)) /\ Kept(console, Len(message))
  BY DEF CollectedInv
<1>4. PICK p \in 1 .. Len(network[1]) + 1 : Parted(network, p, network')
  BY <1>1, <1>2, <1>3, NetworkSplits
<1>5. Parted(console, Len(console[1]) + 1, console')
  BY <1>1, <1>2, <1>3, SplitsPlainly
<1>6. Len(console[1]) + 1 \in 1 .. Len(console[1]) + 1
  BY <1>2, <1>3, KeptLists
<1>7. Kept(network', Len(request)) /\ CO!Retained(network') \subseteq CO!Retained(network)
  BY <1>2, <1>3, <1>4, PartedIsKept, PartedRetains
<1>8. Kept(console', Len(message)) /\ CO!Retained(console') \subseteq CO!Retained(console)
  BY <1>2, <1>3, <1>5, <1>6, PartedIsKept, PartedRetains
<1>9. Kept(network, Len(request))' /\ Kept(console, Len(message))'
  BY <1>1, <1>7, <1>8 DEF Kept, Ordered
<1>10. CO!TypeOK'
  <2>1. CO!Retained(network)' = CO!Retained(network') /\ CO!Retained(console)' = CO!Retained(console')
    BY DEF CO!Retained, CO!ToSet
  <2>2. CO!Retained(network)' \subseteq DOMAIN request' /\ CO!Retained(console)' \subseteq DOMAIN message'
    BY <1>1, <1>7, <1>8, <2>1 DEF CollectedInv, CO!TypeOK
  <2>3. Len(network') \in 1 .. MaxNavigations /\ Len(console') \in 1 .. MaxNavigations
    BY <1>7, <1>8 DEF Kept
  <2>4. /\ document \in 1 .. MaxDocuments /\ documents \in 1 .. MaxDocuments
        /\ loading \in 0 .. MaxDocuments
        /\ request \in Seq([of : 1 .. MaxDocuments, navigates : BOOLEAN])
    BY DEF CollectedInv, CO!TypeOK
  <2>5. documents' \in 1 .. MaxDocuments /\ loading' \in 0 .. MaxDocuments
    BY <2>4, NavigationsAreKept
  <2>6. QED
    BY <1>1, <2>2, <2>3, <2>4, <2>5 DEF CO!TypeOK
<1>11. DocumentsAreNumbered'
  <2>1. documents \in Nat /\ documents' \in Nat /\ documents <= documents'
    BY DEF CollectedInv, CO!TypeOK
  <2>2. \A i \in DOMAIN request : request[i].of <= documents /\ request[i].of \in Nat
    <3>1. \A i \in DOMAIN request : request[i].of \in Nat
      BY RequestFacts DEF Item
    <3>2. QED
      BY <3>1 DEF CollectedInv, DocumentsAreNumbered
  <2>3. \A i \in DOMAIN request' : request'[i].of <= documents'
    BY <1>1, <2>1, <2>2
  <2>4. loading # 0 => /\ loading = documents /\ document < loading
                       /\ \E id \in DOMAIN request : Latest(id) /\ request[id].of = loading
    BY DEF CollectedInv, DocumentsAreNumbered
  <2>5. \A id : Latest(id)' <=> Latest(id)
    BY <1>1 DEF Latest
  <2>6. QED
    BY <1>1, <2>3, <2>4, <2>5 DEF DocumentsAreNumbered
<1>12. CurrentIsNewest'
  <2>1. Len(network[1]) \in Nat /\ DOMAIN network[1] = 1 .. Len(network[1])
    BY <1>2, <1>3, KeptLists
  <2>2. DOMAIN network'[1] = 1 .. Len(network'[1])
    BY <1>2, <1>7, KeptLists
  <2>3. /\ Len(network'[1]) = Len(network[1]) + 1 - p
        /\ \A i \in 1 .. Len(network'[1]) : network'[1][i] = network[1][p + i - 1]
    BY <1>4 DEF Parted
  <2>4. \A i \in DOMAIN network[1] : network[1][i] = Len(request) - Len(network[1]) + i
    BY DEF CollectedInv, CurrentIsNewest
  <2>5. ASSUME NEW i \in DOMAIN network'[1]
        PROVE  network'[1][i] = Len(request) - Len(network'[1]) + i
    <3>1. i \in Nat \ {0} /\ p \in Nat \ {0} /\ i <= Len(network[1]) + 1 - p
      BY <2>1, <2>2, <2>3
    <3>2. p + i - 1 \in DOMAIN network[1]
      BY <2>1, <3>1
    <3>3. network'[1][i] = Len(request) - Len(network[1]) + (p + i - 1)
      BY <2>2, <2>3, <2>4, <3>2
    <3>4. QED
      BY <1>2, <2>1, <2>3, <3>1, <3>3
  <2>6. Len(request') = Len(request)
    BY <1>1
  <2>7. QED
    BY <2>5, <2>6, Zenon DEF CurrentIsNewest
<1>13. BeginningsAreCurrent'
  <2>1. ASSUME NEW id \in DOMAIN request, Latest(id) PROVE InCurrent(network', id)
    <3>1. InCurrent(network, id)
      BY <2>1 DEF CollectedInv, BeginningsAreCurrent
    <3>2. \A m \in DOMAIN network : \A i \in DOMAIN network[m] : network[m][i] \in DOMAIN request
      BY <1>2, <1>3 DEF Kept
    <3>3. DOMAIN request \subseteq Nat
      BY <1>2
    <3>4. InCurrent(CO!networkSplit(network), id)
      BY <1>2, <1>3, <2>1, <3>1, <3>2, <3>3, LatestStays
    <3>5. QED
      BY <1>1, <3>4
  <2>2. \A id : InCurrent(network', id) <=> InCurrent(network, id)'
    BY DEF InCurrent, CO!Retained, CO!ToSet
  <2>3. \A id : Latest(id)' <=> Latest(id)
    BY <1>1 DEF Latest
  <2>4. QED
    BY <1>1, <2>1, <2>2, <2>3 DEF BeginningsAreCurrent
<1>14. IssuesAreNoted'
  <2>1. Len(console'[1]) = 0 /\ DOMAIN console'[1] = 1 .. Len(console'[1])
    <3>1. Len(console'[1]) = Len(console[1]) + 1 - (Len(console[1]) + 1)
      BY <1>5 DEF Parted
    <3>2. Len(console[1]) \in Nat /\ DOMAIN console'[1] = 1 .. Len(console'[1])
      BY <1>2, <1>3, <1>8, KeptLists
    <3>3. QED
      BY <3>1, <3>2
  <2>2. DOMAIN console'[1] = {}
    BY <2>1
  <2>3. message' \in Seq({Kind[key] : key \in Issues} \cup {"none"})
    BY <1>1 DEF CollectedInv, IssuesAreNoted
  <2>4. CO!IssuesOfTheNavigation'
    BY <1>1, <2>2 DEF CO!IssuesOfTheNavigation
  <2>5. QED
    BY <1>1, <2>3, <2>4 DEF IssuesAreNoted
<1>15. QED
  BY <1>9, <1>10, <1>11, <1>12, <1>13, <1>14 DEF CollectedInv

\* An item of the console is taken down: a message, or an issue of a kind that was not
\* there since the last navigation.
LEMMA ItemLogged ==
    ASSUME CollectedInv, NEW what \in {Kind[key] : key \in Issues} \cup {"none"}, CO!Logs(what),
           what # "none" => what \notin reported,
           reported' = IF what = "none" THEN reported ELSE reported \cup {what},
           seenIssues' = reported', seenKeys' \subseteq Issues,
           \A key \in seenKeys' : Kind[key] \in reported',
           UNCHANGED <<document, loading, documents, strayed, CO!networkVars>>
    PROVE  CollectedInv'
<1>1. UNCHANGED <<network, request>> /\ message' = Append(message, what)
  BY DEF CO!Logs, CO!networkVars
<1>2. PICK count : count = Len(message)
  OBVIOUS
<1>3. /\ count \in Nat /\ DOMAIN message = 1 .. count
      /\ message \in Seq({Kind[key] : key \in Issues} \cup {"none"})
  BY <1>2, RequestFacts
<1>4. /\ message' \in Seq({Kind[key] : key \in Issues} \cup {"none"}) /\ Len(message') = count + 1
      /\ DOMAIN message' = 1 .. count + 1 /\ message'[count + 1] = what
      /\ \A i \in 1 .. count : message'[i] = message[i]
  BY <1>1, <1>2, <1>3
<1>5. Kept(console, count)
  BY <1>2 DEF CollectedInv
<1>6. Longer(console, 0, count, console')
  <2>1. console' = CO!collect(console, count + 1)
    BY <1>2 DEF CO!Logs
  <2>2. QED
    BY <1>3, <1>5, <2>1, CollectsLonger
<1>7. /\ console[1] \in Seq(Nat) /\ Len(console[1]) \in Nat /\ DOMAIN console[1] = 1 .. Len(console[1])
      /\ 1 \in DOMAIN console
  BY <1>3, <1>5, KeptLists
<1>8. Kept(console', count + 1) /\ CO!Retained(console') \subseteq 1 .. count + 1
  <2>1. 0 \in 0 .. Len(console[1]) + 1
    BY <1>7
  <2>2. QED
    BY <1>3, <1>5, <1>6, <2>1, LongerIsKept, LongerRetains
<1>9. /\ DOMAIN console'[1] = 1 .. Len(console[1]) + 1
      /\ console'[1][Len(console[1]) + 1] = count + 1
      /\ \A i \in 1 .. Len(console[1]) : console'[1][i] = console[1][i]
  <2>1. /\ Len(console'[1]) = Len(console[1]) + 1 - 0
        /\ \A i \in 1 .. Len(console'[1]) :
              console'[1][i] = IF 0 + i <= Len(console[1]) THEN console[1][0 + i] ELSE count + 1
    BY <1>6 DEF Longer
  <2>2. DOMAIN console'[1] = 1 .. Len(console'[1])
    BY <1>3, <1>8, KeptLists
  <2>3. QED
    BY <1>7, <2>1, <2>2
<1>10. \A i \in DOMAIN console[1] : console[1][i] \in 1 .. count
  BY <1>5, <1>7 DEF Kept
<1>11. CO!TypeOK'
  <2>1. CO!Retained(console)' = CO!Retained(console') /\ CO!Retained(network)' = CO!Retained(network)
    BY <1>1 DEF CO!Retained, CO!ToSet
  <2>2. Len(console') \in 1 .. MaxNavigations
    BY <1>8 DEF Kept
  <2>3. /\ document \in 1 .. MaxDocuments /\ loading \in 0 .. MaxDocuments
        /\ documents \in 1 .. MaxDocuments /\ strayed \in BOOLEAN
        /\ request \in Seq([of : 1 .. MaxDocuments, navigates : BOOLEAN])
        /\ Len(network) \in 1 .. MaxNavigations
        /\ CO!Retained(network) \subseteq DOMAIN request
        /\ reported \subseteq {Kind[k] : k \in Issues}
    BY DEF CollectedInv, CO!TypeOK
  <2>4. reported' \subseteq {Kind[k] : k \in Issues}
    BY <2>3
  <2>5. QED
    BY <1>1, <1>4, <1>8, <2>1, <2>2, <2>3, <2>4 DEF CO!TypeOK
<1>12. Kept(network, Len(request))' /\ Kept(console, Len(message))'
  <2>1. Kept(network, Len(request))
    BY DEF CollectedInv
  <2>2. QED
    BY <1>1, <1>4, <1>8, <2>1 DEF Kept, Ordered
<1>13. DocumentsAreNumbered' /\ CurrentIsNewest' /\ BeginningsAreCurrent'
  <2>1. DocumentsAreNumbered /\ CurrentIsNewest /\ BeginningsAreCurrent
    BY DEF CollectedInv
  <2>2. QED
    BY <1>1, <2>1 DEF DocumentsAreNumbered, CurrentIsNewest, BeginningsAreCurrent, Latest,
       LatestOfDocument, InCurrent, CO!Retained, CO!ToSet
<1>14. CO!IssuesOfTheNavigation'
  <2> DEFINE l == Len(console[1]) + 1
             now == {i \in DOMAIN console[1] : message[console[1][i]] # "none"}
             then == {i \in DOMAIN console'[1] : message'[console'[1][i]] # "none"}
  <2>1. /\ {message[console[1][i]] : i \in now} = reported
        /\ \A i, j \in now : message[console[1][i]] = message[console[1][j]] => i = j
    BY DEF CollectedInv, IssuesAreNoted, CO!IssuesOfTheNavigation, CO!Plain
  <2>2. /\ DOMAIN console'[1] = DOMAIN console[1] \cup {l} /\ l \notin DOMAIN console[1]
        /\ message'[console'[1][l]] = what
        /\ \A i \in DOMAIN console[1] : message'[console'[1][i]] = message[console[1][i]]
    <3>1. DOMAIN console'[1] = DOMAIN console[1] \cup {l} /\ l \notin DOMAIN console[1]
      BY <1>7, <1>9
    <3>2. \A i \in DOMAIN console[1] : message'[console'[1][i]] = message[console[1][i]]
      BY <1>4, <1>7, <1>9, <1>10
    <3>3. QED
      BY <1>4, <1>9, <3>1, <3>2
  <2> HIDE DEF l
  <2>3. then = IF what = "none" THEN now ELSE now \cup {l}
    BY <2>2
  <2>4. \A i \in now : i \in DOMAIN console[1] /\ message[console[1][i]] \in reported
    BY <2>1
  <2>5. {message'[console'[1][i]] : i \in then} = reported'
    <3>1. CASE what = "none"
      <4>1. then = now /\ reported' = reported
        BY <2>3, <3>1
      <4> HIDE DEF now, then
      <4>2. QED
        BY <2>1, <2>2, <2>4, <4>1
    <3>2. CASE what # "none"
      <4>1. then = now \cup {l} /\ reported' = reported \cup {what}
        BY <2>3, <3>2
      <4> HIDE DEF now, then
      <4>2. {message'[console'[1][i]] : i \in then} \subseteq reported'
        BY <2>2, <2>4, <4>1
      <4>3. ASSUME NEW k \in reported PROVE k \in {message'[console'[1][i]] : i \in then}
        <5>1. PICK i \in now : k = message[console[1][i]]
          BY <2>1
        <5>2. QED
          BY <2>2, <2>4, <4>1, <5>1
      <4>4. what \in {message'[console'[1][i]] : i \in then}
        BY <2>2, <4>1
      <4>5. QED
        BY <4>1, <4>2, <4>3, <4>4
    <3>3. QED
      BY <3>1, <3>2
  <2>6. ASSUME NEW i \in then, NEW j \in then, message'[console'[1][i]] = message'[console'[1][j]]
        PROVE  i = j
    <3>1. CASE what = "none"
      <4>1. i \in now /\ j \in now
        BY <2>3, <3>1
      <4>2. message[console[1][i]] = message[console[1][j]]
        BY <2>2, <2>4, <2>6, <4>1
      <4>3. QED
        BY <2>1, <4>1, <4>2
    <3>2. CASE what # "none"
      <4>1. i \in now \cup {l} /\ j \in now \cup {l} /\ what \notin reported
        BY <2>3, <3>2
      <4> HIDE DEF now, then
      <4>2. \A k \in now : message'[console'[1][k]] = message[console[1][k]]
        BY <2>2, <2>4
      <4>3. CASE i \in now /\ j \in now
        BY <2>1, <2>6, <4>2, <4>3
      <4>4. CASE i = l \/ j = l
        BY <2>2, <2>4, <2>6, <4>1, <4>2, <4>4
      <4>5. QED
        BY <4>1, <4>3, <4>4
    <3>3. QED
      BY <3>1, <3>2
  <2>7. QED
    BY <2>5, <2>6 DEF CO!IssuesOfTheNavigation, CO!Plain
<1>15. QED
  BY <1>4, <1>11, <1>12, <1>13, <1>14 DEF CollectedInv, IssuesAreNoted

LEMMA OriginIs ==
    ASSUME CollectedInv
    PROVE  /\ CO!Origin # 0 => LatestOfDocument(CO!Origin)
           /\ \A id \in DOMAIN request : LatestOfDocument(id) => CO!Origin = id
           /\ \A id \in DOMAIN request :
                 CO!SelectLastInSeq(request, LAMBDA r : r.navigates) = id => Latest(id)
<1>1. Len(request) \in Nat /\ DOMAIN request = 1 .. Len(request)
  BY RequestFacts
<1> DEFINE S == {i \in 1 .. Len(request) : request[i].navigates /\ request[i].of = document}
           T == {i \in 1 .. Len(request) : request[i].navigates}
<1>2. CO!Origin = IF S # {} THEN CO!Max(S) ELSE 0
  BY DEF CO!Origin, CO!SelectLastInSeq
<1>3. CO!SelectLastInSeq(request, LAMBDA r : r.navigates) = IF T # {} THEN CO!Max(T) ELSE 0
  BY DEF CO!SelectLastInSeq
<1>4. S # {} => CO!Max(S) \in S /\ \A y \in S : y <= CO!Max(S)
  <2>1. S \subseteq 1 .. Len(request)
    OBVIOUS
  <2> HIDE DEF S
  <2>2. QED
    BY <1>1, <2>1, GreatestPlace
<1>5. T # {} => CO!Max(T) \in T /\ \A y \in T : y <= CO!Max(T)
  <2>1. T \subseteq 1 .. Len(request)
    OBVIOUS
  <2> HIDE DEF T
  <2>2. QED
    BY <1>1, <2>1, GreatestPlace
<1>6. \A id \in DOMAIN request : id \in Nat \ {0}
  BY <1>1
<1>7. ASSUME CO!Origin # 0 PROVE LatestOfDocument(CO!Origin)
  <2>1. CO!Origin \in S /\ \A y \in S : y <= CO!Origin
    BY <1>2, <1>4, <1>7
  <2>2. \A j \in DOMAIN request : CO!Origin < j => j \notin S
    BY <1>6, <1>1, <2>1
  <2>3. QED
    BY <1>1, <2>1, <2>2 DEF LatestOfDocument
<1>8. ASSUME NEW id \in DOMAIN request, LatestOfDocument(id) PROVE CO!Origin = id
  <2>1. id \in S /\ \A y \in S : y \in Nat /\ ~(id < y)
    BY <1>1, <1>8 DEF LatestOfDocument
  <2>2. CO!Max(S) \in S /\ id <= CO!Max(S) /\ CO!Origin = CO!Max(S)
    BY <1>2, <1>4, <2>1
  <2> HIDE DEF S
  <2>3. QED
    BY <2>1, <2>2
<1>9. ASSUME NEW id \in DOMAIN request,
             CO!SelectLastInSeq(request, LAMBDA r : r.navigates) = id
      PROVE  Latest(id)
  <2>1. T # {} /\ id = CO!Max(T)
    BY <1>3, <1>6, <1>9
  <2>2. id \in T /\ \A y \in T : y <= id
    BY <1>5, <2>1
  <2>3. \A j \in DOMAIN request : id < j => j \notin T
    BY <1>6, <2>2
  <2>4. QED
    BY <1>1, <2>2, <2>3 DEF Latest
<1>10. QED
  BY <1>7, <1>8, <1>9

\* What a step of the console's leaves as it is, and one of the network's.
LEMMA NetworkRests ==
    ASSUME CollectedInv, UNCHANGED <<network, request, document, strayed>>
    PROVE  Kept(network, Len(request))' /\ CurrentIsNewest' /\ BeginningsAreCurrent'
<1>1. Kept(network, Len(request))'
  BY DEF CollectedInv, Kept, Ordered
<1>2. CurrentIsNewest'
  BY DEF CollectedInv, CurrentIsNewest
<1>3. \A id : /\ Latest(id)' <=> Latest(id)
              /\ LatestOfDocument(id)' <=> LatestOfDocument(id)
              /\ InCurrent(network, id)' <=> InCurrent(network, id)
  BY DEF Latest, LatestOfDocument, InCurrent, CO!Retained, CO!ToSet
<1>4. BeginningsAreCurrent
  BY DEF CollectedInv
<1>5. BeginningsAreCurrent'
  BY <1>3, <1>4, Zenon DEF BeginningsAreCurrent
<1>6. QED
  BY <1>1, <1>2, <1>5

LEMMA ConsoleRests ==
    ASSUME CollectedInv, UNCHANGED <<console, message>>
    PROVE  /\ Kept(console, Len(message))'
           /\ reported' = reported /\ seenIssues' = seenIssues /\ seenKeys' = seenKeys => IssuesAreNoted'
<1>1. Kept(console, Len(message))'
  BY DEF CollectedInv, Kept, Ordered
<1>2. reported' = reported /\ seenIssues' = seenIssues /\ seenKeys' = seenKeys => IssuesAreNoted'
  BY DEF CollectedInv, IssuesAreNoted, CO!IssuesOfTheNavigation, CO!Plain
<1>3. QED
  BY <1>1, <1>2

LEMMA CollectedStep == CollectedInv /\ [CO!Next]_(CO!collectorVars) => CollectedInv'
<1> SUFFICES ASSUME CollectedInv, [CO!Next]_(CO!collectorVars) PROVE CollectedInv'
  OBVIOUS
<1>0. /\ document \in 1 .. MaxDocuments /\ documents \in 1 .. MaxDocuments
      /\ loading \in 0 .. MaxDocuments /\ strayed \in BOOLEAN
      /\ document <= documents /\ (loading # 0 => loading = documents /\ document < loading)
      /\ seenKeys \subseteq Issues /\ reported = seenIssues
      /\ \A key \in seenKeys : Kind[key] \in reported
  BY DEF CollectedInv, CO!TypeOK, DocumentsAreNumbered, IssuesAreNoted
<1>1. CASE UNCHANGED CO!collectorVars
  <2>1. /\ UNCHANGED <<document, loading, documents, strayed, network, request>>
        /\ UNCHANGED <<console, message, seenKeys, seenIssues, reported>>
    BY <1>1 DEF CO!collectorVars, CO!networkVars, CO!consoleVars
  <2>2. CO!TypeOK' /\ DocumentsAreNumbered'
    BY <2>1 DEF CollectedInv, CO!TypeOK, CO!Retained, CO!ToSet, DocumentsAreNumbered, Latest
  <2>3. QED
    BY <2>1, <2>2, NetworkRests, ConsoleRests DEF CollectedInv
<1>2. ASSUME NEW of \in 1 .. MaxDocuments, CO!Requests(of) PROVE CollectedInv'
  <2>1. /\ of <= documents' /\ documents' = documents /\ loading' = loading
        /\ CO!Collects(of, FALSE) /\ UNCHANGED <<document, strayed, CO!consoleVars>>
    <3>1. of = document \/ (of = loading /\ loading # 0)
      BY <1>2 DEF CO!Requests
    <3>2. of <= documents
      BY <1>0, <3>1
    <3>3. QED
      BY <1>2, <3>2 DEF CO!Requests
  <2>2. documents' \in documents .. MaxDocuments
    BY <1>0, <2>1
  <2>3. QED
    BY <2>1, <2>2, RequestCollected
<1>3. CASE CO!NavigationRequested
  <2> DEFINE of == documents + 1
  <2>1. /\ documents < MaxDocuments /\ documents' = of /\ loading' = of
        /\ CO!Collects(of, TRUE) /\ UNCHANGED <<document, strayed, CO!consoleVars>>
    BY <1>3 DEF CO!NavigationRequested
  <2>2. PICK new : new = of
    OBVIOUS
  <2>3. /\ new \in 1 .. MaxDocuments /\ documents' \in documents .. MaxDocuments
        /\ document < new /\ new <= documents'
    BY <1>0, <2>1, <2>2, NavigationsAreKept
  <2>4. CO!Collects(new, TRUE) /\ documents' = new /\ loading' = new
    BY <2>1, <2>2
  <2>5. QED
    BY <2>1, <2>3, <2>4, RequestCollected
<1>4. CASE CO!Redirected
  <2>1. /\ loading # 0 /\ loading' = loading /\ documents' = documents
        /\ CO!Collects(loading, TRUE) /\ UNCHANGED <<document, strayed, CO!consoleVars>>
    BY <1>4 DEF CO!Redirected
  <2>2. PICK new : new = loading
    OBVIOUS
  <2>3. /\ new \in 1 .. MaxDocuments /\ documents' \in documents .. MaxDocuments
        /\ document < new /\ new <= documents' /\ new = documents'
    BY <1>0, <2>1, <2>2, NavigationsAreKept
  <2>4. CO!Collects(new, TRUE) /\ loading' = new
    BY <2>1, <2>2
  <2>5. QED
    BY <2>1, <2>3, <2>4, RequestCollected
<1>5. CASE CO!NavigationFails
  <2>1. UNCHANGED <<document, documents, strayed, CO!networkVars, CO!consoleVars>> /\ loading' = 0
    BY <1>5 DEF CO!NavigationFails
  <2>2. UNCHANGED <<network, request, console, message, seenKeys, seenIssues, reported>>
    BY <2>1 DEF CO!networkVars, CO!consoleVars
  <2>3. CO!TypeOK'
    BY <1>0, <2>1, <2>2, NavigationsAreKept DEF CollectedInv, CO!TypeOK, CO!Retained, CO!ToSet
  <2>4. DocumentsAreNumbered'
    BY <2>1, <2>2 DEF CollectedInv, DocumentsAreNumbered
  <2>5. QED
    BY <2>1, <2>2, <2>3, <2>4, NetworkRests, ConsoleRests DEF CollectedInv
<1>6. CASE CO!Navigated
  <2>1. /\ loading # 0 /\ document' = loading /\ loading' = 0 /\ strayed' = FALSE
        /\ documents' = documents /\ CO!onFrameNavigated
    BY <1>6 DEF CO!Navigated
  <2>2. PICK first \in DOMAIN request : Latest(first) /\ request[first].of = loading
    BY <2>1 DEF CollectedInv, DocumentsAreNumbered
  <2>3. ASSUME NEW id \in DOMAIN request, LatestOfDocument(id)' PROVE Latest(id)
    <3>1. request' = request
      BY <2>1 DEF CO!onFrameNavigated
    <3>2. /\ request[id].navigates
          /\ \A j \in DOMAIN request : id < j => ~(request[j].navigates /\ request[j].of = loading)
      BY <2>1, <2>3, <3>1 DEF LatestOfDocument
    <3>3. ~(id < first) /\ ~(first < id)
      BY <2>2, <3>2 DEF Latest
    <3>4. id = first
      BY <3>3, RequestFacts
    <3>5. QED
      BY <2>2, <3>4
  <2>4. /\ document' \in 1 .. MaxDocuments /\ loading' \in {0, loading} /\ strayed' \in BOOLEAN
        /\ documents' \in documents .. MaxDocuments /\ document' <= documents' /\ ~(loading' # 0)
    <3>1. strayed' \in BOOLEAN
      BY <2>1, Zenon
    <3>2. loading \in 1 .. MaxDocuments /\ loading = documents /\ documents <= MaxDocuments
      BY <1>0, <2>1
    <3>3. QED
      BY <1>0, <2>1, <3>1, <3>2
  <2>5. QED
    BY <2>1, <2>3, <2>4, NavigatedTo
<1>7. CASE CO!NavigatedWithoutRequest
  <2>1. /\ documents < MaxDocuments /\ documents' = documents + 1 /\ document' = documents + 1
        /\ loading' = 0 /\ strayed' = FALSE /\ CO!onFrameNavigated
    BY <1>7 DEF CO!NavigatedWithoutRequest
  <2>2. ASSUME NEW id \in DOMAIN request, LatestOfDocument(id)' PROVE Latest(id)
    <3>1. request' = request
      BY <2>1 DEF CO!onFrameNavigated
    <3>2. request[id].of = documents + 1
      BY <2>1, <2>2, <3>1 DEF LatestOfDocument
    <3>3. request[id].of <= documents
      BY DEF CollectedInv, DocumentsAreNumbered
    <3>4. QED
      BY <1>0, <3>2, <3>3
  <2>3. /\ document' \in 1 .. MaxDocuments /\ loading' \in {0, loading} /\ strayed' \in BOOLEAN
        /\ documents' \in documents .. MaxDocuments /\ document' <= documents' /\ ~(loading' # 0)
    <3>1. strayed' \in BOOLEAN
      BY <2>1, Zenon
    <3>2. documents + 1 \in 1 .. MaxDocuments /\ documents + 1 \in documents .. MaxDocuments
      BY <1>0, <2>1, NavigationsAreKept
    <3>3. QED
      BY <2>1, <3>1, <3>2
  <2>4. QED
    BY <2>1, <2>2, <2>3, NavigatedTo
<1>8. CASE CO!NavigatedWithin
  <2>1. /\ CO!onFrameNavigated /\ UNCHANGED <<document, loading, documents>>
        /\ strayed' = (strayed \/ CO!SelectLastInSeq(request, LAMBDA r : r.navigates) # CO!Origin)
    BY <1>8 DEF CO!NavigatedWithin
  <2>2. ASSUME ~strayed', NEW id \in DOMAIN request, LatestOfDocument(id)' PROVE Latest(id)
    <3>1. request' = request
      BY <2>1 DEF CO!onFrameNavigated
    <3>2. LatestOfDocument(id)
      BY <2>1, <2>2, <3>1 DEF LatestOfDocument
    <3>3. CO!Origin = id
      BY <3>2, OriginIs
    <3>4. CO!SelectLastInSeq(request, LAMBDA r : r.navigates) = id
      BY <2>1, <2>2, <3>3
    <3>5. QED
      BY <3>4, OriginIs
  <2>3. /\ document' \in 1 .. MaxDocuments /\ loading' \in {0, loading} /\ strayed' \in BOOLEAN
        /\ documents' \in documents .. MaxDocuments /\ document' <= documents'
        /\ (loading' # 0 => document' = document /\ documents' = documents)
    BY <1>0, <2>1
  <2>4. QED
    BY <2>1, <2>2, <2>3, NavigatedTo
<1>9. CASE CO!Logged
  <2>1. /\ CO!Logs("none") /\ UNCHANGED <<seenKeys, seenIssues, reported>>
        /\ UNCHANGED <<document, loading, documents, strayed, CO!networkVars>>
    BY <1>9 DEF CO!Logged, CO!Plain
  <2>2. QED
    BY <1>0, <2>1, ItemLogged
<1>10. ASSUME NEW key \in Issues, CO!onIssueAdded(key) PROVE CollectedInv'
  <2>1. /\ seenKeys' = seenKeys \cup {key} /\ reported' = reported \cup {Kind[key]}
        /\ UNCHANGED <<document, loading, documents, strayed, CO!networkVars>>
    BY <1>10 DEF CO!onIssueAdded
  <2>2. CASE Kind[key] \in seenIssues
    <3>1. UNCHANGED <<message, console, seenIssues, reported>>
      BY <1>0, <1>10, <2>1, <2>2 DEF CO!onIssueAdded
    <3>2. CO!TypeOK' /\ DocumentsAreNumbered' /\ IssuesAreNoted'
      BY <1>0, <2>1, <2>2, <3>1 DEF CollectedInv, CO!TypeOK, CO!networkVars, CO!Retained, CO!ToSet,
         DocumentsAreNumbered, Latest, IssuesAreNoted, CO!IssuesOfTheNavigation
    <3>3. UNCHANGED <<network, request, document, strayed>>
      BY <2>1 DEF CO!networkVars
    <3>4. QED
      BY <3>1, <3>2, <3>3, NetworkRests, ConsoleRests DEF CollectedInv
  <2>3. CASE Kind[key] \notin seenIssues
    <3>1. seenIssues' = seenIssues \cup {Kind[key]} /\ CO!Logs(Kind[key])
      BY <1>10, <2>3 DEF CO!onIssueAdded
    <3>2. PICK what : what = Kind[key]
      OBVIOUS
    <3>3. what \in {Kind[k] : k \in Issues} \cup {"none"} /\ what # "none" /\ what \notin reported
      BY <1>0, <2>3, <3>2, NavigationsAreKept
    <3>4. /\ CO!Logs(what) /\ reported' = reported \cup {what} /\ seenIssues' = reported'
          /\ seenKeys' \subseteq Issues /\ \A k \in seenKeys' : Kind[k] \in reported'
      BY <1>0, <2>1, <3>1, <3>2
    <3>5. QED
      BY <2>1, <3>3, <3>4, ItemLogged
  <2>4. QED
    BY <2>2, <2>3
<1>11. ASSUME NEW key \in Issues, CO!onIssueSeen(key) PROVE CollectedInv'
  <2>1. UNCHANGED CO!collectorVars
    <3>1. reported' = reported
      BY <1>0, <1>11 DEF CO!onIssueSeen
    <3>2. QED
      BY <1>11, <3>1 DEF CO!onIssueSeen, CO!collectorVars, CO!consoleVars
  <2>2. QED
    BY <1>1, <2>1
<1>12. QED
  BY <1>1, <1>2, <1>3, <1>4, <1>5, <1>6, <1>7, <1>8, <1>9, <1>10, <1>11 DEF CO!Next

LEMMA CollectedKept ==
    CollectedInv => CO!CurrentRequestsAreShown /\ CO!IdFindsOne /\ CO!IssuesOfTheNavigation
<1> SUFFICES ASSUME CollectedInv
             PROVE  CO!CurrentRequestsAreShown /\ CO!IdFindsOne /\ CO!IssuesOfTheNavigation
  OBVIOUS
<1>1. CO!IssuesOfTheNavigation
  BY DEF CollectedInv, IssuesAreNoted
<1>2. CO!IdFindsOne
  BY DEF CollectedInv, Kept, Ordered, CO!IdFindsOne
<1>3. ASSUME CO!Origin \in CO!Retained(network), ~strayed,
             NEW id \in CO!Origin .. Len(request)
      PROVE  id \in CO!ToSet(network[1])
  <2>1. /\ Len(request) \in Nat /\ DOMAIN request = 1 .. Len(request)
        /\ CO!Retained(network) \subseteq DOMAIN request /\ Kept(network, Len(request))
    BY RequestFacts DEF CollectedInv, CO!TypeOK
  <2>2. CO!Origin \in DOMAIN request /\ CO!Origin # 0
    BY <1>3, <2>1
  <2>3. LatestOfDocument(CO!Origin)
    BY <2>2, OriginIs
  <2>4. InCurrent(network, CO!Origin)
    BY <1>3, <2>2, <2>3 DEF CollectedInv, BeginningsAreCurrent
  <2>5. PICK q \in DOMAIN network[1] : network[1][q] = CO!Origin
    BY <1>3, <2>4 DEF InCurrent, CO!ToSet
  <2>6. \A i \in DOMAIN network[1] : network[1][i] = Len(request) - Len(network[1]) + i
    BY DEF CollectedInv, CurrentIsNewest
  <2>7. Len(network[1]) \in Nat /\ DOMAIN network[1] = 1 .. Len(network[1])
    BY <2>1, KeptLists
  <2> DEFINE place == id - Len(request) + Len(network[1])
  <2>8. CO!Origin = Len(request) - Len(network[1]) + q /\ q \in 1 .. Len(network[1])
    BY <2>5, <2>6, <2>7
  <2>9. place \in DOMAIN network[1] /\ Len(request) - Len(network[1]) + place = id
    <3>1. id \in Int /\ CO!Origin \in Int /\ CO!Origin <= id /\ id <= Len(request)
      BY <1>3, <2>1, <2>2
    <3>2. place \in 1 .. Len(network[1])
      BY <2>1, <2>7, <2>8, <3>1
    <3>3. \A a, b, c \in Int : a - b + (c - a + b) = c
      OBVIOUS
    <3>4. Len(request) - Len(network[1]) + place = id
      <4>1. Len(request) \in Int /\ Len(network[1]) \in Int
        BY <2>1, <2>7
      <4>2. QED
        BY <3>1, <3>3, <4>1
    <3>5. QED
      BY <2>7, <3>2, <3>4
  <2>10. network[1][place] = id
    BY <2>6, <2>9
  <2> HIDE DEF place
  <2>11. QED
    BY <2>9, <2>10 DEF CO!ToSet
<1>4. CO!CurrentRequestsAreShown
  BY <1>3 DEF CO!CurrentRequestsAreShown
<1>5. QED
  BY <1>1, <1>2, <1>4

-----------------------------------------------------------------------------
(* The parts together *)

ListPart == part = "pages" => PageListInv

LEMMA ListPartFirst == PageInit => ListPart
<1>1. ASSUME PageInit, part = "pages" PROVE PL!Init
  BY <1>1 DEF PageInit
<1>2. QED
  BY <1>1, PageListFirst DEF ListPart

LEMMA ListPartStep == ListPart /\ [PageNext]_vars => ListPart'
<1> SUFFICES ASSUME ListPart, [PageNext]_vars, part' = "pages" PROVE PageListInv'
  BY DEF ListPart
<1>1. part = "pages" /\ [PL!Next]_(PL!pageListVars)
  <2>1. CASE PageNext
    BY <2>1 DEF PageNext
  <2>2. CASE UNCHANGED vars
    BY <2>2 DEF vars, PL!pageListVars, PL!browserVars, PL!contextVars, PL!runnerVars,
       live, closed, announced, mcpPages, nextPageId, pageOf, attached, selected, fallback,
       at, list, target, firstId, lapsed, swapped, beside
  <2>3. QED
    BY <2>1, <2>2
<1>2. PageListInv
  BY <1>1 DEF ListPart
<1>3. QED
  BY <1>1, <1>2, PageListStep
-----------------------------------------------------------------------------

WorkersPart == part = "workers" => WorkersInv

LEMMA WorkersPartFirst == PageInit => WorkersPart
<1>1. ASSUME PageInit, part = "workers" PROVE WL!Init
  BY <1>1 DEF PageInit
<1>2. QED
  BY <1>1, WorkersFirst DEF WorkersPart

LEMMA WorkersPartStep == WorkersPart /\ [PageNext]_vars => WorkersPart'
<1> SUFFICES ASSUME WorkersPart, [PageNext]_vars, part' = "workers" PROVE WorkersInv'
  BY DEF WorkersPart
<1>1. part = "workers" /\ [WL!Next]_(WL!workerLogVars)
  <2>1. CASE PageNext
    BY <2>1 DEF PageNext
  <2>2. CASE UNCHANGED vars
    BY <2>2 DEF vars, WL!workerLogVars, alive, announced, listening, under, heard,
       subscribers, leaving, doubled, late
  <2>3. QED
    BY <2>1, <2>2
<1>2. WorkersInv
  BY <1>1 DEF WorkersPart
<1>3. QED
  BY <1>1, <1>2, WorkersStep

ContextsPart == part = "contexts" => ContextsInv

LEMMA ContextsPartFirst == PageInit => ContextsPart
<1>1. ASSUME PageInit, part = "contexts" PROVE IC!Init
  BY <1>1 DEF PageInit
<1>2. QED
  BY <1>1, ContextsFirst DEF ContextsPart

LEMMA ContextsPartStep == ContextsPart /\ [PageNext]_vars => ContextsPart'
<1> SUFFICES ASSUME ContextsPart, [PageNext]_vars, part' = "contexts" PROVE ContextsInv'
  BY DEF ContextsPart
<1>1. part = "contexts" /\ [IC!Next]_(IC!isolationVars)
  <2>1. CASE PageNext
    BY <2>1 DEF PageNext
  <2>2. CASE UNCHANGED vars
    BY <2>2 DEF vars, IC!isolationVars, contexts, open, pageIn, isolatedContexts,
       nextIsolatedContextId, label, opening, name, asked
  <2>3. QED
    BY <2>1, <2>2
<1>2. ContextsInv
  BY <1>1 DEF ContextsPart
<1>3. QED
  BY <1>1, <1>2, ContextsStep

CapturesPart == part = "captures" => CapturesInv

LEMMA CapturesPartFirst == PageInit => CapturesPart
<1>1. ASSUME PageInit, part = "captures" PROVE CA!Init
  BY <1>1 DEF PageInit
<1>2. QED
  BY <1>1, CapturesFirst DEF CapturesPart

LEMMA CapturesPartStep == CapturesPart /\ [PageNext]_vars => CapturesPart'
<1> SUFFICES ASSUME CapturesPart, [PageNext]_vars, part' = "captures" PROVE CapturesInv'
  BY DEF CapturesPart
<1>1. part = "captures" /\ [CA!Next]_(CA!captureVars)
  <2>1. CASE PageNext
    BY <2>1 DEF PageNext
  <2>2. CASE UNCHANGED vars
    BY <2>2 DEF vars, CA!captureVars, CA!traceVars, CA!castVars, page, open, traceRunning,
       traced, blanked, stored, outlived, gone, recorder, guard, patches
  <2>3. QED
    BY <2>1, <2>2
<1>2. CapturesInv
  BY <1>1 DEF CapturesPart
<1>3. QED
  BY <1>1, <1>2, CapturesStep

EmulationPart == part = "emulation" => EmulationInv

LEMMA EmulationPartFirst == PageInit => EmulationPart
<1>1. ASSUME PageInit, part = "emulation" PROVE EM!Init
  BY <1>1 DEF PageInit
<1>2. QED
  BY <1>1, EmulationFirst DEF EmulationPart

LEMMA EmulationPartStep == EmulationPart /\ [PageNext]_vars => EmulationPart'
<1> SUFFICES ASSUME EmulationPart, [PageNext]_vars, part' = "emulation" PROVE EmulationInv'
  BY DEF EmulationPart
<1>1. part = "emulation" /\ [EM!Next]_(EM!emulationVars)
  <2>1. CASE PageNext
    BY <2>1 DEF PageNext
  <2>2. CASE UNCHANGED vars
    BY <2>2 DEF vars, EM!emulationVars, blocked, applied, settings, timeouts,
       failed
  <2>3. QED
    BY <2>1, <2>2
<1>2. EmulationInv
  BY <1>1 DEF EmulationPart
<1>3. QED
  BY <1>1, <1>2, EmulationStep

ShotPart == part = "screenshots" => ShotInv

LEMMA ShotPartFirst == PageInit => ShotPart
<1>1. ASSUME PageInit, part = "screenshots" PROVE SC!Init
  BY <1>1 DEF PageInit
<1>2. QED
  BY <1>1, ShotFirst DEF ShotPart

LEMMA ShotPartStep == ShotPart /\ [PageNext]_vars => ShotPart'
<1> SUFFICES ASSUME ShotPart, [PageNext]_vars, part' = "screenshots" PROVE ShotInv'
  BY DEF ShotPart
<1>1. part = "screenshots" /\ [SC!Next]_(SC!screenshotVars)
  <2>1. CASE PageNext
    BY <2>1 DEF PageNext
  <2>2. CASE UNCHANGED vars
    BY <2>2 DEF vars, SC!screenshotVars, window, front, found, clip, shown,
       limits, captured, lost, at
  <2>3. QED
    BY <2>1, <2>2
<1>2. ShotInv
  BY <1>1 DEF ShotPart
<1>3. QED
  BY <1>1, <1>2, ShotStep

CollectedPart == part \in {"requests", "messages"} => CollectedInv

LEMMA CollectedPartFirst == PageInit => CollectedPart
<1>1. ASSUME PageInit, part \in {"requests", "messages"} PROVE CO!Init
  BY <1>1 DEF PageInit
<1>2. QED
  BY <1>1, CollectedFirst DEF CollectedPart

LEMMA CollectedPartStep == CollectedPart /\ [PageNext]_vars => CollectedPart'
<1> SUFFICES ASSUME CollectedPart, [PageNext]_vars, part' \in {"requests", "messages"}
             PROVE  CollectedInv'
  BY DEF CollectedPart
<1>1. part \in {"requests", "messages"} /\ [CO!Next]_(CO!collectorVars)
  <2>1. CASE PageNext
    BY <2>1 DEF PageNext
  <2>2. CASE UNCHANGED vars
    BY <2>2 DEF vars, CO!collectorVars, CO!networkVars, CO!consoleVars, document, loading,
       documents, strayed, request, network, message, console, seenKeys, seenIssues, reported
  <2>3. QED
    BY <2>1, <2>2
<1>2. CollectedInv
  BY <1>1 DEF CollectedPart
<1>3. QED
  BY <1>1, <1>2, CollectedStep

\* For any pages, workers and names, in any order of the browser's events and the
\* tools' steps: a page is heard by the one McpPage that is listed for it and its id
\* keeps naming it, a selection that moved is told of, pages share a browser context
\* just where their labels say so, and a worker is heard once (McpContext.ts,
\* ServiceWorkerCollector.ts).
THEOREM PagesAreListed == PageSpec => []PageListIsKept
<1>1. ListPart /\ WorkersPart /\ ContextsPart => PageListIsKept
  BY ListKept, WorkersKept, ContextsKept
     DEF ListPart, WorkersPart, ContextsPart, PageListIsKept
<1>2. QED
  BY <1>1, ListPartFirst, ListPartStep, WorkersPartFirst, WorkersPartStep,
     ContextsPartFirst, ContextsPartStep, PTL DEF PageSpec

\* For any pages, whichever step of a tool fails and in any order of the calls: the
\* context's flags of a trace, a recording and an emulation are the browser's and the
\* process's (performance.ts, screencast.ts, McpPage.emulate); and for any window and
\* any bounds take_screenshot leaves the window as it was and keeps to its bounds,
\* being no smaller than they ask (screenshot.ts, computeDownscaleClip).
THEOREM BrowserIsLeft == PageSpec => []BrowserIsLeftAsAsked
<1>1. CapturesPart /\ EmulationPart /\ ShotPart => BrowserIsLeftAsAsked
  BY ShotKept DEF CapturesPart, EmulationPart, ShotPart, BrowserIsLeftAsAsked,
     CapturesInv, EmulationInv
<1>2. QED
  BY <1>1, CapturesPartFirst, CapturesPartStep, EmulationPartFirst, EmulationPartStep,
     ShotPartFirst, ShotPartStep, PTL DEF PageSpec

\* For any kinds of issues and any bounds of what is kept, in any order of requests,
\* redirects, navigations and messages: the requests of the document that is there are
\* listed under it from the one it began with, an id finds one request or message, and
\* each kind of issue is shown once per navigation (PageCollector.ts).
THEOREM WhatIsToldIsKept == PageSpec => []WhatIsToldIsCollected
<1>1. CollectedPart => WhatIsToldIsCollected
  BY CollectedKept DEF CollectedPart, WhatIsToldIsCollected
<1>2. QED
  BY <1>1, CollectedPartFirst, CollectedPartStep, PTL DEF PageSpec

\* The variables of each part keep the types its module states, in any number of
\* steps: what the code keeps in its maps, flags and counters stays what it was
\* declared to be.
THEOREM PagesAreTyped == PageSpec => []PageTypeOK
<1>1. ASSUME ListPart, ContextsPart, WorkersPart, CapturesPart, EmulationPart, ShotPart,
             CollectedPart
      PROVE  PageTypeOK
  <2>1. part = "pages" => PL!TypeOK
    BY <1>1 DEF ListPart, PageListInv
  <2>2. part = "contexts" => IC!TypeOK
    BY <1>1 DEF ContextsPart, ContextsInv
  <2>3. part = "workers" => WL!TypeOK
    BY <1>1, WorkersAreTyped DEF WorkersPart
  <2>4. part = "captures" => CA!TypeOK
    BY <1>1 DEF CapturesPart, CapturesInv
  <2>5. part = "emulation" => EM!TypeOK
    BY <1>1 DEF EmulationPart, EmulationInv
  <2>6. part = "screenshots" => SC!TypeOK
    BY <1>1, ShotKept DEF ShotPart
  <2>7. part \in {"requests", "messages"} => CO!TypeOK
    BY <1>1 DEF CollectedPart, CollectedInv
  <2>8. QED
    BY <2>1, <2>2, <2>3, <2>4, <2>5, <2>6, <2>7 DEF PageTypeOK
<1>2. QED
  BY <1>1, ListPartFirst, ListPartStep, ContextsPartFirst, ContextsPartStep,
     WorkersPartFirst, WorkersPartStep, CapturesPartFirst, CapturesPartStep,
     EmulationPartFirst, EmulationPartStep, ShotPartFirst, ShotPartStep,
     CollectedPartFirst, CollectedPartStep, PTL DEF PageSpec
=============================================================================
