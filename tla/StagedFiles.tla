----------------------------- MODULE StagedFiles ----------------------------
(***************************************************************************)
(* The directories calls of the front work in and the results they spill   *)
(* (chromectl/fileplan.mjs, fileresult.mjs and filestore.mjs as            *)
(* carryOutCall of front.mjs uses them).  An audit fills a directory with  *)
(* reports that are taken out of it, an upload reads a copy made in one,   *)
(* and any call may spill a result that is too large.  What of this        *)
(* outlives its call is swept with a later call's first write, by age.     *)
(***************************************************************************)
EXTENDS Integers, FiniteSets

CONSTANTS
    Calls,
    Retention,  \* SPILL_RETENTION_MS, in ticks
    CallLasts,  \* bound on a call in flight, in ticks: its budget, shorter than that
    MaxTime     \* bound on the clock

VARIABLES
    now,
    kind,      \* per call "audit", "upload", or "plain": it has no files
    at,        \* per call where carryOutCall stands
    began,     \* per call the time it came
    working,   \* calls a daemon carries out, waited for or not
    saved,     \* per call the reports its daemon has written
    inside,    \* per call the files in its directory
    dirTime,   \* per call the mtime of its directory, Gone where there is none
    out,       \* reports there are under names of their own, <<call, report>>
    spillTime, \* per call the mtime of its spilled result, or Gone
    todo,      \* per call the entries its sweep has listed and not looked at
    deadline,  \* per call the age its sweep goes by
    told,      \* calls that were answered with success
    strayed,   \* history: calls given up on while a daemon carried them out
    unspilled  \* history: calls that failed at writing a result too large

diskVars == <<inside, dirTime, out, spillTime>>
sweepVars == <<todo, deadline>>
stagedVars == <<now, kind, at, began, working, saved, diskVars, sweepVars, told,
                strayed, unspilled>>

Gone == -1
Reports == {"json", "html"}

\* Entries a sweep knows by their names: directories and spilled results.
Entries == {"directory", "spill"} \X Calls
mtime(e) == IF e[1] = "directory" THEN dirTime[e[2]] ELSE spillTime[e[2]]
OnDrive == {e \in Entries : mtime(e) # Gone}

Over == {"away", "over", "lost"}
InFlight == {c \in Calls : at[c] \notin Over}

Goes(c, stage) == at' = [at EXCEPT ![c] = stage]

----------------------------------------------------------------------------
Init ==
    /\ now = 0
    /\ kind \in [Calls -> {"audit", "upload", "plain"}]
    /\ at = [c \in Calls |-> "away"] /\ began = [c \in Calls |-> 0]
    /\ working = {} /\ saved = [c \in Calls |-> {}]
    /\ inside = [c \in Calls |-> {}] /\ dirTime = [c \in Calls |-> Gone]
    /\ out = {} /\ spillTime = [c \in Calls |-> Gone]
    /\ todo = [c \in Calls |-> {}] /\ deadline = [c \in Calls |-> 0]
    /\ told = {} /\ strayed = {} /\ unspilled = {}

(***************************************************************************)
(* The sweep of ensureOutputDir.                                           *)
(***************************************************************************)
\* readdir
listEntries(c) ==
    /\ todo' = [todo EXCEPT ![c] = OnDrive]
    /\ deadline' = [deadline EXCEPT ![c] = now - Retention]

\* An entry is removed with what is in it.
Remove(S) ==
    /\ dirTime' = [d \in Calls |-> IF <<"directory", d>> \in S THEN Gone ELSE dirTime[d]]
    /\ inside' = [d \in Calls |-> IF <<"directory", d>> \in S THEN {} ELSE inside[d]]
    /\ spillTime' = [d \in Calls |-> IF <<"spill", d>> \in S THEN Gone ELSE spillTime[d]]

\* Defect for mutation: whatever is listed is taken for expired.
ExpiredAtOnce(c, e) == TRUE

Expired(c, e) == mtime(e) < deadline[c]

\* One entry is looked at, by now perhaps gone or written to.
pruneExpiredEntry(c) ==
    \E e \in todo[c] :
        /\ todo' = [todo EXCEPT ![c] = @ \ {e}]
        /\ Remove(IF Expired(c, e) THEN {e} ELSE {})
        /\ UNCHANGED <<now, kind, at, began, working, saved, out, deadline, told,
                       strayed, unspilled>>

Swept(c) ==
    /\ at[c] \in {"sweeping", "sweeping again"} /\ todo[c] = {}
    /\ Goes(c, IF at[c] = "sweeping" THEN "planning" ELSE "spilling")
    /\ UNCHANGED <<now, kind, began, working, saved, diskVars, sweepVars, told,
                   strayed, unspilled>>

(***************************************************************************)
(* The plan.                                                               *)
(***************************************************************************)
Arrive(c) ==
    /\ at[c] = "away"
    /\ began' = [began EXCEPT ![c] = now]
    /\ IF kind[c] = "plain" THEN Goes(c, "planned") /\ UNCHANGED sweepVars
       ELSE Goes(c, "sweeping") /\ listEntries(c)
    /\ UNCHANGED <<now, kind, working, saved, diskVars, told, strayed, unspilled>>

\* The directory is made, or the call ends with it.
makeDirectory(c) ==
    /\ at[c] = "planning"
    /\ \/ /\ dirTime' = [dirTime EXCEPT ![c] = now]
          /\ Goes(c, IF kind[c] = "audit" THEN "planned" ELSE "copying")
       \/ Goes(c, "over") /\ UNCHANGED dirTime
    /\ UNCHANGED <<now, kind, began, working, saved, inside, out, spillTime,
                   sweepVars, told, strayed, unspilled>>

\* stageInputFile: the copy is there, or nothing is.
stageInputFile(c) ==
    /\ at[c] = "copying"
    /\ \/ /\ Goes(c, "planned")
          /\ inside' = [inside EXCEPT ![c] = {"copy"}]
          /\ dirTime' = [dirTime EXCEPT ![c] = now] /\ UNCHANGED spillTime
       \/ Goes(c, "over") /\ Remove({<<"directory", c>>})
    /\ UNCHANGED <<now, kind, began, working, saved, out, sweepVars, told, strayed,
                   unspilled>>

(***************************************************************************)
(* The daemon.                                                             *)
(***************************************************************************)
Send(c) ==
    /\ at[c] = "planned"
    /\ Goes(c, "driving") /\ working' = working \cup {c}
    /\ UNCHANGED <<now, kind, began, saved, diskVars, sweepVars, told, strayed,
                   unspilled>>

\* saveFile makes the directory it writes into, should there be none.
saveFile(c, r) ==
    /\ c \in working /\ kind[c] = "audit" /\ r \in Reports \ saved[c]
    /\ saved' = [saved EXCEPT ![c] = @ \cup {r}]
    /\ inside' = [inside EXCEPT ![c] = @ \cup {r}]
    /\ dirTime' = [dirTime EXCEPT ![c] = now]
    /\ UNCHANGED <<now, kind, at, began, working, out, spillTime, sweepVars, told,
                   strayed, unspilled>>

\* An audit succeeds with both of its reports, and fails with either or none.
ToolEnds(c, fine) ==
    /\ c \in working
    /\ fine /\ kind[c] = "audit" => saved[c] = Reports
    /\ working' = working \ {c}
    /\ IF at[c] = "driving" THEN Goes(c, IF fine THEN "describing" ELSE "settling")
       ELSE UNCHANGED at
    /\ UNCHANGED <<now, kind, began, saved, diskVars, sweepVars, told, strayed,
                   unspilled>>

\* The browser is not reached, or the call is given up on at its deadline: the
\* daemon is not told.
GivenUp(c) ==
    /\ at[c] \in {"planned", "driving"}
    /\ Goes(c, "settling")
    /\ strayed' = strayed \cup ({c} \cap working)
    /\ UNCHANGED <<now, kind, began, working, saved, diskVars, sweepVars, told,
                   unspilled>>

(***************************************************************************)
(* The answer.                                                             *)
(***************************************************************************)
\* Defect for mutation: what has been taken out is left where it is.
takeReportAndLeave(c, r) ==
    /\ at[c] = "describing" /\ r \in inside[c]
    /\ \/ /\ out' = out \cup {<<c, r>>}
          /\ inside' = [inside EXCEPT ![c] = @ \ {r}]
          /\ dirTime' = [dirTime EXCEPT ![c] = now]
          /\ UNCHANGED at
       \/ Goes(c, "settling") /\ UNCHANGED <<out, inside, dirTime>>
    /\ UNCHANGED <<now, kind, began, working, saved, spillTime, sweepVars, told,
                   strayed, unspilled>>

\* collectDirectoryFiles: each report gets a name of its own; one that is there
\* and cannot be taken fails the call and takes back those taken before.
takeReport(c, r) ==
    /\ at[c] = "describing" /\ r \in inside[c]
    /\ \/ /\ out' = out \cup {<<c, r>>}
          /\ inside' = [inside EXCEPT ![c] = @ \ {r}]
          /\ dirTime' = [dirTime EXCEPT ![c] = now]
          /\ UNCHANGED at
       \/ /\ out' = out \ ({c} \X Reports)
          /\ Goes(c, "settling")
          /\ UNCHANGED <<inside, dirTime>>
    /\ UNCHANGED <<now, kind, began, working, saved, spillTime, sweepVars, told,
                   strayed, unspilled>>

\* No report is left; the directory goes.
Described(c) ==
    /\ at[c] = "describing" /\ inside[c] \cap Reports = {}
    /\ Remove({<<"directory", c>>} \cap ({"directory"} \X {d \in Calls : kind[d] = "audit"}))
    /\ Goes(c, "measuring")
    /\ UNCHANGED <<now, kind, began, working, saved, out, sweepVars, told, strayed,
                   unspilled>>

\* The end of carryOutCall: the copy of an upload goes.
conclude(c) == Remove({<<"directory", c>>})

\* spillIfTooLarge: the result is sent as it is, or first there is a sweep.
SendResult(c) ==
    /\ at[c] = "measuring"
    /\ Goes(c, "over") /\ told' = told \cup {c} /\ conclude(c)
    /\ UNCHANGED <<now, kind, began, working, saved, out, sweepVars, strayed,
                   unspilled>>

ResultTooLarge(c) ==
    /\ at[c] = "measuring"
    /\ Goes(c, "sweeping again") /\ listEntries(c)
    /\ UNCHANGED <<now, kind, began, working, saved, diskVars, told, strayed,
                   unspilled>>

spillResult(c) ==
    /\ at[c] = "spilling"
    /\ Goes(c, "over")
    /\ dirTime' = [dirTime EXCEPT ![c] = Gone] /\ inside' = [inside EXCEPT ![c] = {}]
    /\ \/ /\ spillTime' = [spillTime EXCEPT ![c] = now]
          /\ told' = told \cup {c} /\ UNCHANGED unspilled
       \/ /\ unspilled' = unspilled \cup {c} /\ UNCHANGED <<spillTime, told>>
    /\ UNCHANGED <<now, kind, began, working, saved, out, sweepVars, strayed>>

\* settleLeftoverFiles and removeStagedInputs
settleLeftovers(c) ==
    /\ at[c] = "settling"
    /\ Remove({<<"directory", c>>})
    /\ Goes(c, "over")
    /\ UNCHANGED <<now, kind, began, working, saved, out, sweepVars, told, strayed,
                   unspilled>>

(***************************************************************************)
(* The front's life, and time.                                             *)
(***************************************************************************)
\* The front is killed and started again; the daemons run on.
FrontRestart ==
    /\ InFlight # {}
    /\ at' = [c \in Calls |-> IF c \in InFlight THEN "lost" ELSE at[c]]
    /\ todo' = [c \in Calls |-> {}]
    /\ UNCHANGED <<now, kind, began, working, saved, diskVars, deadline, told,
                   strayed, unspilled>>

\* A call in flight runs into its deadline before it lasts too long.
Tick ==
    /\ now < MaxTime
    /\ \A c \in InFlight : now - began[c] < CallLasts
    /\ now' = now + 1
    /\ UNCHANGED <<kind, at, began, working, saved, diskVars, sweepVars, told,
                   strayed, unspilled>>

Call(c) ==
    \/ Arrive(c) \/ pruneExpiredEntry(c) \/ Swept(c) \/ makeDirectory(c)
    \/ stageInputFile(c) \/ Send(c) \/ GivenUp(c) \/ Described(c) \/ SendResult(c)
    \/ ResultTooLarge(c) \/ spillResult(c) \/ settleLeftovers(c)
    \/ \E r \in Reports : takeReport(c, r) \/ saveFile(c, r)
    \/ \E fine \in BOOLEAN : ToolEnds(c, fine)

Next == (\E c \in Calls : Call(c)) \/ FrontRestart \/ Tick

Spec == Init /\ [][Next]_stagedVars

----------------------------------------------------------------------------
Stages == Over \cup {"sweeping", "planning", "copying", "planned", "driving",
                     "describing", "measuring", "sweeping again", "spilling", "settling"}

TypeOK ==
    /\ now \in 0 .. MaxTime /\ kind \in [Calls -> {"audit", "upload", "plain"}]
    /\ at \in [Calls -> Stages] /\ began \in [Calls -> 0 .. MaxTime]
    /\ working \subseteq Calls /\ saved \in [Calls -> SUBSET Reports]
    /\ inside \in [Calls -> SUBSET (Reports \cup {"copy"})]
    /\ dirTime \in [Calls -> 0 .. MaxTime \cup {Gone}]
    /\ out \subseteq Calls \X Reports /\ spillTime \in [Calls -> 0 .. MaxTime \cup {Gone}]
    /\ todo \in [Calls -> SUBSET Entries] /\ deadline \in [Calls -> -Retention .. MaxTime]
    /\ told \subseteq Calls /\ strayed \subseteq Calls /\ unspilled \subseteq Calls

\* No call loses its directory to another one's sweep: "a directory old enough to
\* be swept here belongs to no call that is still running" (pruneExpiredEntries).
DirectoriesInUseAreKept ==
    \A c \in Calls :
        /\ at[c] \in {"planned", "driving"} /\ kind[c] # "plain" => dirTime[c] # Gone
        /\ at[c] = "driving" /\ kind[c] = "upload" => "copy" \in inside[c]
        /\ at[c] = "driving" /\ kind[c] = "audit" => saved[c] = inside[c]

\* A directory belongs to a call in flight, but for those of a front that was
\* killed and of daemons that wrote on behind the end of their call; and a sweep
\* leaves neither these nor a spilled result older than the retention.
NothingStaysForGood ==
    /\ \A c \in Calls : dirTime[c] # Gone => at[c] # "over" \/ c \in strayed
    /\ \A c \in Calls : at[c] \in {"planning", "spilling"} =>
            \A e \in OnDrive : mtime(e) >= deadline[c]

\* A report that was taken out of its directory is one a caller was told of, but
\* where the front was killed or the result of the call could not be spilled: no
\* sweep would ever remove it (collectDirectoryFiles).
ReportsAreTold ==
    \A c \in Calls :
        at[c] = "over" /\ out \cap ({c} \X Reports) # {} => c \in told \cup unspilled
=============================================================================
