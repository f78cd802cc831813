---------------------------- MODULE AnswerParts -----------------------------
(***************************************************************************)
(* The parts of an answer: how it is put together, and the lists,          *)
(* snapshots, traces and pictures in it.                                   *)
(***************************************************************************)
EXTENDS Integers, Sequences, FiniteSets, PartVariables

CONSTANTS
    AnswerCalls, Beside, AnswerPages, AnswerTools,              \* Answers
    Targets, Main, Scripts, Errors, Traces, Chains, MaxLinks,   \* StackTraces
    Kinds, Type, ListedIssues, PageSizes, MaxLogged,            \* Listings
    SnapshotPages, Trees, Parents, MaxSnapshots, SnapshotDocuments, \* TextSnapshots
    Files, Classes, MaxVersion, MaxLoads,                       \* HeapSnapshots
    ByteSize, Channels, Width, Height, Filters                  \* UniformPng

\* handle_dialog is a call, and that no call is running is not one.
ASSUME CallsAreBeside == Beside \in AnswerCalls /\ None \notin AnswerCalls

\* A browser has a page.
ASSUME PagesAreOpen == IsFiniteSet(AnswerPages) /\ AnswerPages # {}

\* The page's own target is a target and an answer is for an error; traces are of the
\* scripts, and a cause is an error or NoCause.
ASSUME TracesAreOfScripts ==
    /\ Main \in Targets /\ 1 \in Errors
    /\ Traces \subseteq SUBSET Scripts
    /\ Chains \subseteq [Errors -> Errors \cup {0}]

\* Elements are known by numbers, each greater than its parent's, and a tree is of
\* elements and has the root.
ASSUME ElementsAreNumbered ==
    /\ Parents \in Seq(Nat)
    /\ \A b \in DOMAIN Parents : Parents[b] < b /\ (Parents[b] = 0 <=> b = 1)
    /\ \A tree \in Trees : tree \subseteq DOMAIN Parents /\ 1 \in tree

\* Snapshots and documents are numbered; a page has a document.
ASSUME SnapshotsAreNumbered == MaxSnapshots \in Nat /\ SnapshotDocuments \in Nat \ {0}

\* A heap snapshot has finitely many classes.
ASSUME ClassesAreFinite == IsFiniteSet(Classes)

\* A file is written once at least, and loads are numbered.
ASSUME LoadsAreNumbered == MaxVersion \in Nat \ {0} /\ MaxLoads \in Nat

\* A page of a list has a line at least.
ASSUME PagesHaveLines == PageSizes \subseteq Nat \ {0} /\ MaxLogged \in Nat

\* A picture has pixels, and a line may be as it is.
ASSUME PictureHasPixels ==
    /\ ByteSize \in Nat \ {0} /\ Channels \in Nat \ {0}
    /\ Width \in Nat \ {0} /\ Height \in Nat \ {0}
    /\ Filters \subseteq Nat /\ 0 \in Filters

-----------------------------------------------------------------------------
(* What the variables stand for.  A name two parts have in common stands    *)
(* under the first of them.                                                *)

\* Answers.
listed == v1
running == v2
tool == v5
parts == v7
titles == v3
marked == v6
moved == v12

\* Stack traces.
parsed == v2
settled == v1
origin == v5
frames == v6
causeOf == v8
current == v9
used == v10
waits == v11
links == v12

\* Lists, page by page.
types == v2
pageSize == v3
log == v4
pageIdx == v5
since == v7
walking == v8
navigated == v1

\* Text snapshots.
mcpIds == v2
extraHandles == v3
textSnapshot == v4
nextSnapshotId == v5
making == v6
named == v7

\* Heap snapshots.
onDisk == v1
uid == v2
loaded == v3
nextUid == v4
idToClassKey == v5
diffs == v6
leaked == v7

\* Judging a picture.
stream == v1
inflated == v2
unread == v3
filterType == v4
line == v5
previous == v6
reference == v7
scanlines == v8
verdict == v9

-----------------------------------------------------------------------------
AN == INSTANCE Answers WITH Calls <- AnswerCalls
ST == INSTANCE StackTraces
LI == INSTANCE Listings WITH Issues <- ListedIssues
TS == INSTANCE TextSnapshots WITH MaxDocuments <- SnapshotDocuments
HS == INSTANCE HeapSnapshots
UP == INSTANCE UniformPng

\* The tools that are called are those whose answers are told apart.
ASSUME ToolsAreKnown == AnswerTools \subseteq DOMAIN AN!Asks

\* The variables a part has no use for.
ANrest == <<v13, v14, v15, v16>>
STrest == <<v13, v14, v15, v16>>
LIrest == <<v6, v10, v12, v13, v14, v15, v16>>
TSrest == <<v8, v9, v10, v11, v12, v13, v14, v15, v16>>
HSrest == <<v8, v10, v12, v13, v14, v15, v16>>
UPrest == <<v10, v11, v12, v13, v14, v15, v16>>

AnswerInit ==
    \/ part = "answers" /\ AN!Init
       /\ v13 = 0 /\ v14 = 0 /\ v15 = 0 /\ v16 = 0
    \/ part = "traces" /\ ST!Init
       /\ v13 = 0 /\ v14 = 0 /\ v15 = 0 /\ v16 = 0
    \/ part = "listings" /\ LI!Init
       /\ v6 = 0 /\ v10 = 0 /\ v12 = 0 /\ v13 = 0 /\ v14 = 0 /\ v15 = 0 /\ v16 = 0
    \/ part = "snapshots" /\ TS!Init
       /\ v8 = 0 /\ v9 = 0 /\ v10 = 0 /\ v11 = 0 /\ v12 = 0 /\ v13 = 0 /\ v14 = 0
       /\ v15 = 0 /\ v16 = 0
    \/ part = "heaps" /\ HS!Init
       /\ v8 = 0 /\ v10 = 0 /\ v12 = 0 /\ v13 = 0 /\ v14 = 0 /\ v15 = 0 /\ v16 = 0
    \/ part = "png" /\ UP!Init
       /\ v10 = 0 /\ v11 = 0 /\ v12 = 0 /\ v13 = 0 /\ v14 = 0 /\ v15 = 0 /\ v16 = 0

AnswerNext ==
    \/ part = "answers" /\ AN!Next /\ UNCHANGED <<part, ANrest>>
    \/ part = "traces" /\ ST!Next /\ UNCHANGED <<part, STrest>>
    \/ part = "listings" /\ LI!Next /\ UNCHANGED <<part, LIrest>>
    \/ part = "snapshots" /\ TS!Next /\ UNCHANGED <<part, TSrest>>
    \/ part = "heaps" /\ HS!Next /\ UNCHANGED <<part, HSrest>>
    \/ part = "png" /\ UP!Next /\ UNCHANGED <<part, UPrest>>

AnswerSpec == AnswerInit /\ [][AnswerNext]_vars

-----------------------------------------------------------------------------
AnswerTypeOK ==
    /\ part = "answers" => AN!TypeOK
    /\ part = "traces" => ST!TypeOK
    /\ part = "listings" => LI!TypeOK
    /\ part = "snapshots" => TS!TypeOK
    /\ part = "heaps" => HS!TypeOK
    /\ part = "png" => UP!TypeOK

\* An answer is whole, tells its call's outcome and names one page as selected, a
\* trace in it its source maps (McpResponse).
AnswersAreWhole ==
    /\ part = "answers" =>
            AN!OnePageIsSelected /\ AN!NothingRunsBehindAnAnswer /\ AN!AnswersTellTheOutcome
    /\ part = "traces" =>
            ST!TracesAreTranslated /\ ST!NoScriptIsMissed /\ ST!ChainIsTheErrors

\* What an answer shows is what is there: the pages of a list show all of it, the
\* tree of a snapshot is the document's, and a picture is called empty when it is of
\* one colour (McpResponse, TextSnapshot, isUniformPng).
AnswersShowWhatIsThere ==
    /\ part = "listings" => LI!WalksShowEverything
    /\ part = "snapshots" => TS!TreeIsTheDocuments
    /\ part = "png" => UP!VerdictIsThePictures

\* An id or uid that an answer has named leads to what it named, or to nothing
\* (HeapSnapshotManager, TextSnapshot).
SnapshotIdsResolve ==
    /\ part = "heaps" => HS!HeapIdsResolve
    /\ part = "snapshots" => TS!UidsNameOneElement

\* An element keeps its uid from one snapshot to the next (TextSnapshot).
UidsAreKept == [][part = "snapshots" => TS!KeepsUids]_vars
=============================================================================
