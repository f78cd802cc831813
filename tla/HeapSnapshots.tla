--------------------------- MODULE HeapSnapshots ----------------------------
(***************************************************************************)
(* Heap snapshot files (src/HeapSnapshotManager.ts, src/tools/memory.ts):  *)
(* a file is loaded into a worker of its own on first use and stays        *)
(* loaded, by its path, until it is closed; the classes in it get ids as   *)
(* they are listed.  A worker keeps the differences it has computed by the *)
(* uid of the snapshot they are to.  take_heapsnapshot writes files and    *)
(* knows nothing of what is loaded.                                        *)
(***************************************************************************)
EXTENDS Integers, Sequences, FiniteSets, SequencesExt

CONSTANTS
    Files, Classes,
    MaxVersion, MaxLoads   \* bounds: snapshots taken into a file, loads

VARIABLES
    onDisk,   \* per file the snapshot in it, 0 when it is missing
    uid,      \* per file the uid it is loaded under, 0 when it is not loaded
    loaded,   \* per file the snapshot that is loaded
    nextUid,  \* #snapshotIdGenerator
    idToClassKey,  \* per loaded file
    diffs,    \* per loaded file the differences kept: uid -> snapshot
    leaked,   \* workers of loads that failed
    told,     \* history: per file the ids an answer has named, with their class
    shown     \* history: the last answer: the file and the snapshot it was about

managerVars == <<uid, loaded, nextUid, idToClassKey, diffs, leaked>>
heapVars == <<onDisk, managerVars, told, shown>>

Init ==
    /\ onDisk \in [Files -> 0 .. 1]
    /\ uid = [f \in Files |-> 0] /\ loaded = [f \in Files |-> 0] /\ nextUid = 1
    /\ idToClassKey = [f \in Files |-> <<>>]
    /\ diffs = [f \in Files |-> {}] /\ leaked = 0
    /\ told = [f \in Files |-> {}] /\ shown = <<>>

\* take_heapsnapshot.
takeHeapSnapshot(f) ==
    /\ onDisk[f] < MaxVersion
    /\ onDisk' = [onDisk EXCEPT ![f] = @ + 1]
    /\ UNCHANGED <<managerVars, told, shown>>

----------------------------------------------------------------------------

\* getSnapshot: what is loaded is used, else the file is.
getSnapshot(f) ==
    IF uid[f] # 0 THEN UNCHANGED managerVars
    ELSE /\ onDisk[f] # 0 /\ nextUid <= MaxLoads
         /\ uid' = [uid EXCEPT ![f] = nextUid] /\ nextUid' = nextUid + 1
         /\ loaded' = [loaded EXCEPT ![f] = onDisk[f]]
         /\ idToClassKey' = [idToClassKey EXCEPT ![f] = <<>>]
         /\ diffs' = [diffs EXCEPT ![f] = {}]
         /\ UNCHANGED leaked

\* A tool that tells of a snapshot and keeps nothing of what it tells.
Shows(f) ==
    /\ getSnapshot(f)
    /\ shown' = <<f, loaded'[f]>>
    /\ UNCHANGED <<onDisk, told>>

getHeapSnapshotSummary(f) == Shows(f)
getHeapSnapshotRetainers(f) == Shows(f)
getHeapSnapshotRetainingPaths(f) == Shows(f)
getHeapSnapshotEdges(f) == Shows(f)
getHeapSnapshotDominators(f) == Shows(f)
getHeapSnapshotDuplicateStrings(f) == Shows(f)
getHeapSnapshotObjectDetails(f) == Shows(f)

\* get_heapsnapshot_class_nodes: the class is looked up by an id of the snapshot.
getNodesById(f, id) ==
    /\ uid[f] # 0   \* loaded by Shows, in the same call
    /\ id \in DOMAIN idToClassKey[f]
    /\ Shows(f)

\* A file that cannot be read: its worker stays behind.
LoadFails(f) ==
    /\ uid[f] = 0 /\ leaked < MaxLoads /\ nextUid <= MaxLoads
    /\ nextUid' = nextUid + 1 /\ leaked' = leaked + 1
    /\ UNCHANGED <<onDisk, uid, loaded, idToClassKey, diffs, told, shown>>

\* getAggregates and getOrCreateIdForClassKey: the classes a filter lets through,
\* in any order; those that have no id yet are given one.
getAggregates(f, classes) ==
    /\ uid[f] # 0   \* loaded by Shows, in the same call
    /\ \E order \in SetToSeqs(classes \ ToSet(idToClassKey[f])) :
          idToClassKey' = [idToClassKey EXCEPT ![f] = @ \o order]
    /\ told' = [told EXCEPT ![f] =
           @ \cup {<<i, idToClassKey'[f][i]>> : i \in {j \in DOMAIN idToClassKey'[f] :
                                                          idToClassKey'[f][j] \in classes}}]
    /\ shown' = <<f, loaded[f]>>
    /\ UNCHANGED <<onDisk, uid, loaded, nextUid, diffs, leaked>>

\* compare_heapsnapshots, both being loaded: the difference the current one's worker
\* keeps for the base's uid, computed when it has none.
compareHeapSnapshots(base, current) ==
    /\ uid[base] # 0 /\ uid[current] # 0
    /\ diffs' = [diffs EXCEPT ![current] =
           IF \E d \in @ : d[1] = uid[base] THEN @ ELSE @ \cup {<<uid[base], loaded[base]>>}]
    /\ \E d \in diffs'[current] : d[1] = uid[base] /\ shown' = <<base, d[2]>>
    /\ UNCHANGED <<onDisk, uid, loaded, nextUid, idToClassKey, leaked, told>>

\* close_heapsnapshot.
disposeSnapshot(f) ==
    /\ uid[f] # 0
    /\ uid' = [uid EXCEPT ![f] = 0] /\ loaded' = [loaded EXCEPT ![f] = 0]
    /\ idToClassKey' = [idToClassKey EXCEPT ![f] = <<>>]
    /\ diffs' = [diffs EXCEPT ![f] = {}]
    /\ told' = [told EXCEPT ![f] = {}]
    /\ UNCHANGED <<onDisk, nextUid, leaked, shown>>

\* The context is disposed of.
dispose ==
    /\ \E f \in Files : uid[f] # 0
    /\ uid' = [f \in Files |-> 0] /\ loaded' = [f \in Files |-> 0]
    /\ idToClassKey' = [f \in Files |-> <<>>] /\ diffs' = [f \in Files |-> {}]
    /\ told' = [f \in Files |-> {}]
    /\ UNCHANGED <<onDisk, nextUid, leaked, shown>>

Next ==
    \/ dispose
    \/ \E f \in Files :
          \/ takeHeapSnapshot(f) \/ LoadFails(f) \/ disposeSnapshot(f)
          \/ getHeapSnapshotSummary(f) \/ getHeapSnapshotDuplicateStrings(f)
          \/ getHeapSnapshotRetainers(f) \/ getHeapSnapshotRetainingPaths(f)
          \/ getHeapSnapshotEdges(f) \/ getHeapSnapshotDominators(f)
          \/ getHeapSnapshotObjectDetails(f)
          \/ \E id \in 1 .. Cardinality(Classes) : getNodesById(f, id)
          \/ \E classes \in SUBSET Classes : getAggregates(f, classes)
          \/ \E base \in Files : compareHeapSnapshots(base, f)

Spec == Init /\ [][Next]_heapVars

----------------------------------------------------------------------------
TypeOK ==
    /\ onDisk \in [Files -> 0 .. MaxVersion] /\ loaded \in [Files -> 0 .. MaxVersion]
    /\ uid \in [Files -> 0 .. MaxLoads] /\ nextUid \in 1 .. MaxLoads + 1
    /\ idToClassKey \in [Files -> Seq(Classes)]
    /\ leaked \in 0 .. MaxLoads

\* An id a listing has named finds its class for as long as the snapshot stays
\* loaded, whatever filters later listings used and however often the file has been
\* written since; and a difference that is kept is to the snapshot that is loaded
\* under its uid, however often the base has been closed and loaded again.
HeapIdsResolve ==
    \A f \in Files :
        /\ \A t \in told[f] : t[1] <= Len(idToClassKey[f]) /\ idToClassKey[f][t[1]] = t[2]
        /\ \A d \in diffs[f], g \in Files : d[1] = uid[g] => d[2] = loaded[g]
=============================================================================
