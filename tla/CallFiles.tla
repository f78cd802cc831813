----------------------------- MODULE CallFiles -----------------------------
(***************************************************************************)
(* The files the calls of the front write: the names they claim, the       *)
(* staging files behind them and the recordings that outlive their call    *)
(* (chromectl/fileplan.mjs, fileresult.mjs, filestore.mjs, as              *)
(* carryOutCall of front.mjs uses them).                                   *)
(*                                                                         *)
(* A file of a caller's choosing is written by the daemon under a random   *)
(* staging name and renamed onto the chosen one when the call is           *)
(* described.  One front serves all browsers in one event loop: an action  *)
(* is the stretch between two awaits that wait for something, and what     *)
(* runs in one turn is one action.                                         *)
(***************************************************************************)
EXTENDS Naturals, Sequences, FiniteSets

CONSTANTS
    Calls,     \* the calls that reach the front
    Browsers,  \* session ids
    Names,     \* file names callers choose
    Own,       \* stands for a name the front builds itself
    None,      \* no file, no browser
    Kinds      \* bound: the kinds of calls there are, of AllKinds

\* "write" has one file, "pair" two optional ones, "start" and "stop" are
\* screencast_start and screencast_stop.
AllKinds == {"write", "pair", "start", "stop"}

ASSUME KindsAreKinds == Kinds \subseteq AllKinds
ASSUME CallsAreFinite == IsFiniteSet(Calls)
ASSUME OwnIsNoName == Own \notin Names
ASSUME NoneIsNone == None \notin Browsers /\ None \notin Calls \X (1..2)

VARIABLES
    kind,        \* [Calls -> Kinds]
    browser,     \* [Calls -> Browsers] the browser a call goes to
    wants,       \* [Calls -> Seq(Names \cup {Own})] the names of its files
    at,          \* [Calls -> Stage] where carryOutCall stands
    next,        \* [Calls -> 1..3] the argument or file it is about to take up
    claimed,     \* files whose `claimed` is set
    claims,      \* [Names -> Claim] claimedOutputNames
    recordings,  \* [Browsers -> Files \cup {None}] the plan of the recording
    taking,      \* [Calls -> Files \cup {None}] the recording a stop describes
    inDaemon,    \* calls the daemons have not carried out yet
    answers,     \* [Browsers -> Seq(Calls)] answers not read yet, in order
    ok,          \* calls the daemon carried out with success
    recorder,    \* [Browsers -> Files \cup {None}] what the daemon records into
    staged,      \* files there are under a staging name
    content,     \* [Names -> Files \cup {None}] whose bytes a name holds
    promoted,    \* files that were renamed onto their name
    doomed,      \* staging files an unlink is on its way for
    astray,      \* history: calls that did something the front was not told of
    unreached,   \* history: stops that failed before they got to the recording
    crossed      \* history: browsers with two screencast calls at a time, or a
                 \* new daemon beside one

request == <<kind, browser, wants>>
planVars == <<claimed, claims, recordings, doomed>>
daemonVars == <<inDaemon, answers, ok, recorder>>
diskVars == <<staged, content, promoted>>
history == <<astray, unreached, crossed>>
vars == <<request, at, next, planVars, taking, daemonVars, diskVars, history>>

Files == Calls \X (1..2)
NameOf(f) == wants[f[1]][f[2]]
IsNamed(f) == NameOf(f) \in Names
BrowserOf(f) == browser[f[1]]

Wanted(c) == {c} \X DOMAIN wants[c]
Taken(c) == {f \in Wanted(c) : f[2] < next[c]}  \* plan.files while planning

Stage == {"away", "planning", "unplanning", "driving", "describing", "settling", "taking", "over"}
Screencast(c) == kind[c] \in {"start", "stop"}
Claim == [session : Browsers \cup {None}, holders : 0..Cardinality(Files)]

TypeOK ==
    /\ at \in [Calls -> Stage]
    /\ next \in [Calls -> 1..3]
    /\ claimed \subseteq Files
    /\ claims \in [Names -> Claim]
    /\ recordings \in [Browsers -> Files \cup {None}]
    /\ taking \in [Calls -> Files \cup {None}]
    /\ inDaemon \subseteq Calls
    /\ answers \in [Browsers -> Seq(Calls)]
    /\ ok \subseteq Calls
    /\ recorder \in [Browsers -> Files \cup {None}]
    /\ staged \subseteq Files
    /\ content \in [Names -> Files \cup {None}]
    /\ promoted \subseteq Files
    /\ doomed \subseteq Files
    /\ astray \subseteq Calls
    /\ unreached \subseteq Calls
    /\ crossed \subseteq Browsers

NameLists(k) ==
    CASE k = "write" -> {<<n>> : n \in Names}
      [] k = "pair" -> Names \X Names
      [] k = "start" -> {<<n>> : n \in Names \cup {Own}}
      [] k = "stop" -> {<<>>}

Free == [session |-> None, holders |-> 0]

Init ==
    /\ kind \in [Calls -> Kinds]
    /\ browser \in [Calls -> Browsers]
    /\ wants \in {w \in [Calls -> UNION {NameLists(k) : k \in Kinds}] :
                    \A c \in Calls : w[c] \in NameLists(kind[c])}
    /\ at = [c \in Calls |-> "away"]
    /\ next = [c \in Calls |-> 1]
    /\ claimed = {}
    /\ claims = [n \in Names |-> Free]
    /\ recordings = [b \in Browsers |-> None]
    /\ taking = [c \in Calls |-> None]
    /\ inDaemon = {}
    /\ answers = [b \in Browsers |-> <<>>]
    /\ ok = {}
    /\ recorder = [b \in Browsers |-> None]
    /\ staged = {}
    /\ content = [n \in Names |-> None]
    /\ promoted = {}
    /\ doomed = {}
    /\ astray = {}
    /\ unreached = {}
    /\ crossed = {}

-----------------------------------------------------------------------------
(* Names *)

\* Variant: any browser joins a claim.
MayClaimAny(f) == TRUE

\* A name is free, or taken by the browser that asks again.
MayClaim(f) == claims[NameOf(f)].session \in {None, BrowserOf(f)}

claimOutputName(f) ==
    /\ claimed' = claimed \cup {f}
    /\ claims' = [claims EXCEPT ![NameOf(f)] =
                    [session |-> BrowserOf(f), holders |-> @.holders + 1]]

HeldOf(S, n) == Cardinality({f \in S \cap claimed : NameOf(f) = n})

\* Variant: the flag of the file is left as it is.
releaseLeavingFlag(S) ==
    /\ claimed' = claimed
    /\ claims' = [n \in Names |->
                    IF claims[n].holders <= HeldOf(S, n) THEN Free
                    ELSE [claims[n] EXCEPT !.holders = @ - HeldOf(S, n)]]

\* Variant: a name is free with the first of its holders.
releaseForAll(S) ==
    /\ claimed' = claimed \ S
    /\ claims' = [n \in Names |-> IF HeldOf(S, n) > 0 THEN Free ELSE claims[n]]

\* releaseOutputName for each of S: what was claimed is given back, and a name
\* with no holder left is free.
releaseOutputNames(S) ==
    /\ claimed' = claimed \ S
    /\ claims' = [n \in Names |->
                    IF claims[n].holders <= HeldOf(S, n) THEN Free
                    ELSE [claims[n] EXCEPT !.holders = @ - HeldOf(S, n)]]

Recording(b) == {recordings[b]} \ {None}

\* Variant: nobody asks whether there is a recording.
forgetBlindly(b) ==
    /\ recordings' = [recordings EXCEPT ![b] = None]
    /\ releaseOutputNames(Recording(b))
    /\ doomed' = doomed \cup {recordings[b]}

\* Variant: what the recording left is not settled.
forgetUnsettled(b) ==
    /\ recordings' = [recordings EXCEPT ![b] = None]
    /\ releaseOutputNames(Recording(b))
    /\ UNCHANGED doomed

\* The plan of the recording is dropped, its name given back; the unlink of what
\* may be left under its staging name is on its way.
forgetRecording(b) ==
    /\ recordings' = [recordings EXCEPT ![b] = None]
    /\ releaseOutputNames(Recording(b))
    /\ doomed' = doomed \cup {f \in Recording(b) : IsNamed(f)}

Unlink(f) ==
    /\ f \in doomed
    /\ doomed' = doomed \ {f}
    /\ staged' = staged \ {f}
    /\ UNCHANGED <<request, at, next, claimed, claims, recordings, taking, daemonVars, content,
                   promoted, history>>

-----------------------------------------------------------------------------
(* The plan *)

Busy(c) == at[c] \notin {"away", "over"} \/ c \in inDaemon

Arrive(c) ==
    /\ at[c] = "away"
    /\ at' = [at EXCEPT ![c] = "planning"]
    /\ crossed' = IF Screencast(c) /\ \E d \in Calls : Screencast(d) /\ browser[d] = browser[c]
                                                       /\ Busy(d)
                  THEN crossed \cup {browser[c]} ELSE crossed
    /\ UNCHANGED <<request, next, planVars, taking, daemonVars, diskVars, astray, unreached>>

PlanOutputFile(c) ==
    /\ at[c] = "planning" /\ next[c] \in DOMAIN wants[c]
    /\ LET f == <<c, next[c]>> IN
         IF IsNamed(f) THEN MayClaim(f) /\ claimOutputName(f) ELSE UNCHANGED <<claimed, claims>>
    /\ next' = [next EXCEPT ![c] = @ + 1]
    /\ UNCHANGED <<request, at, recordings, doomed, taking, daemonVars, diskVars, history>>

\* The name is another browser's, or no plain file's, or the drive is out.
PlanFails(c) ==
    /\ at[c] = "planning" /\ next[c] \in DOMAIN wants[c]
    /\ at' = [at EXCEPT ![c] = "unplanning"]
    /\ UNCHANGED <<request, next, planVars, taking, daemonVars, diskVars, history>>

\* Variant: a plan that fails keeps the names it had taken.
UnplanKeeping(c) ==
    /\ at[c] = "unplanning"
    /\ at' = [at EXCEPT ![c] = "over"]
    /\ UNCHANGED <<request, next, planVars, taking, daemonVars, diskVars, history>>

\* A plan that does not come together gives back what it had taken.
Unplan(c) ==
    /\ at[c] = "unplanning"
    /\ releaseOutputNames(Taken(c))
    /\ at' = [at EXCEPT ![c] = "over"]
    /\ UNCHANGED <<request, next, recordings, doomed, taking, daemonVars, diskVars, history>>

Send(c) ==
    /\ at[c] = "planning" /\ next[c] \notin DOMAIN wants[c]
    /\ at' = [at EXCEPT ![c] = "driving"]
    /\ next' = [next EXCEPT ![c] = 1]
    /\ inDaemon' = inDaemon \cup {c}
    /\ UNCHANGED <<request, planVars, taking, answers, ok, recorder, diskVars, history>>

-----------------------------------------------------------------------------
(* The daemon *)

\* One tool at a time, so a call is carried out in one step, but for the files it
\* writes; its answer is read when the front gets to it, if it still waits.
CarriedOut(c, fine) ==
    /\ c \in inDaemon
    /\ inDaemon' = inDaemon \ {c}
    /\ ok' = IF fine THEN ok \cup {c} ELSE ok
    /\ answers' = IF at[c] = "driving" THEN [answers EXCEPT ![browser[c]] = Append(@, c)]
                  ELSE answers
    /\ UNCHANGED <<request, at, next, planVars, taking, content, promoted, crossed>>

\* A tool may fail with a file written, and succeed without; the file is there
\* before the answer is.
WriteFile(f) ==
    /\ f[1] \in inDaemon /\ kind[f[1]] \in {"write", "pair"} /\ f \in Wanted(f[1])
    /\ staged' = staged \cup {f}
    /\ UNCHANGED <<request, at, next, planVars, taking, daemonVars, content, promoted, history>>

DriveWrite(c, fine) ==
    /\ kind[c] \in {"write", "pair"}
    /\ CarriedOut(c, fine)
    /\ UNCHANGED <<staged, recorder, astray, unreached>>

\* Where a recording runs the start is refused, as a success.  A start may fail
\* with the recorder already running.
DriveStart(c, fine) ==
    /\ kind[c] = "start"
    /\ CarriedOut(c, fine)
    /\ \/ /\ recorder[browser[c]] = None
          /\ recorder' = [recorder EXCEPT ![browser[c]] = <<c, 1>>]
          /\ staged' = staged \cup {f \in Wanted(c) : IsNamed(f)}
          /\ astray' = IF fine THEN astray ELSE astray \cup {c}
       \/ /\ recorder[browser[c]] # None \/ ~fine
          /\ UNCHANGED <<recorder, staged, astray>>
    /\ UNCHANGED unreached

Unreached(c) ==
    unreached' = IF kind[c] = "stop" /\ recorder[browser[c]] # None THEN unreached \cup {c}
                 ELSE unreached

\* A stop may give up before its turn, behind a tool that took too long.
DriveStop(c, fine) ==
    /\ kind[c] = "stop"
    /\ CarriedOut(c, fine)
    /\ \/ recorder' = [recorder EXCEPT ![browser[c]] = None] /\ UNCHANGED unreached
       \/ ~fine /\ Unreached(c) /\ UNCHANGED recorder
    /\ UNCHANGED <<staged, astray>>

Drive(c) == \E fine \in BOOLEAN : DriveWrite(c, fine) \/ DriveStart(c, fine) \/ DriveStop(c, fine)

CrossesStop(b) ==
    crossed' = IF \E c \in Calls : at[c] = "taking" /\ browser[c] = b THEN crossed \cup {b}
               ELSE crossed

\* A new daemon took the place of the one before: ffmpeg died with it, and calls
\* the front still waits for are sent again or fail.
DaemonReplaced(b) ==
    /\ answers[b] = <<>>
    /\ recorder' = [recorder EXCEPT ![b] = None]
    /\ forgetRecording(b)
    /\ inDaemon' = {c \in inDaemon : browser[c] = b => at[c] = "driving"}
    /\ CrossesStop(b)
    /\ UNCHANGED <<request, at, next, taking, answers, ok, diskVars, astray, unreached>>

-----------------------------------------------------------------------------
(* The answer *)

\* Every file of a plan that is not described is settled; a stop has none, and
\* forgets the recording at once.
CallFails(c) ==
    \/ /\ kind[c] # "stop"
       /\ at' = [at EXCEPT ![c] = "settling"]
       /\ UNCHANGED planVars
    \/ /\ kind[c] = "stop"
       /\ forgetRecording(browser[c])
       /\ at' = [at EXCEPT ![c] = "over"]

Unreachable(c) ==
    /\ at[c] = "planning" /\ next[c] \notin DOMAIN wants[c]
    /\ CallFails(c)
    /\ Unreached(c)
    /\ UNCHANGED <<request, next, taking, daemonVars, diskVars, astray, crossed>>

\* The daemon has not answered within the budget; it is not told.
Deadline(c) ==
    /\ at[c] = "driving" /\ c \in inDaemon
    /\ CallFails(c)
    /\ astray' = astray \cup {c}
    /\ UNCHANGED <<request, next, taking, daemonVars, diskVars, unreached, crossed>>

Read(c) ==
    /\ at[c] = "driving"
    /\ answers[browser[c]] # <<>> /\ Head(answers[browser[c]]) = c
    /\ answers' = [answers EXCEPT ![browser[c]] = Tail(@)]
    /\ UNCHANGED <<request, next, inDaemon, ok, recorder, diskVars, history>>

ReadFailure(c) ==
    /\ Read(c) /\ c \notin ok
    /\ CallFails(c)
    /\ UNCHANGED taking

ReadWritten(c) ==
    /\ Read(c) /\ c \in ok /\ kind[c] \in {"write", "pair"}
    /\ at' = [at EXCEPT ![c] = "describing"]
    /\ UNCHANGED <<planVars, taking>>

\* Variant: the last start is taken for the one that runs.
ParkLast(c) ==
    /\ recordings' = [recordings EXCEPT ![browser[c]] = <<c, 1>>]
    /\ UNCHANGED <<claimed, claims>>

\* The file of the recording that runs leaves the plan of its call; the plan of
\* a start that was refused ends with its call.
Park(c) ==
    IF recordings[browser[c]] = None
    THEN /\ recordings' = [recordings EXCEPT ![browser[c]] = <<c, 1>>]
         /\ UNCHANGED <<claimed, claims>>
    ELSE releaseOutputNames(Wanted(c)) /\ UNCHANGED recordings

\* From the answer of a start to its own answer nothing is waited for.
ReadStarted(c) ==
    /\ Read(c) /\ c \in ok /\ kind[c] = "start"
    /\ Park(c)
    /\ at' = [at EXCEPT ![c] = "over"]
    /\ UNCHANGED <<taking, doomed>>

\* The recording to describe is the one parked when the stop was answered.
ReadStopped(c) ==
    /\ Read(c) /\ c \in ok /\ kind[c] = "stop"
    /\ \/ /\ recordings[browser[c]] # None
          /\ taking' = [taking EXCEPT ![c] = recordings[browser[c]]]
          /\ at' = [at EXCEPT ![c] = "taking"]
          /\ UNCHANGED planVars
       \/ /\ recordings[browser[c]] = None
          /\ forgetRecording(browser[c])
          /\ at' = [at EXCEPT ![c] = "over"]
          /\ UNCHANGED taking

\* The rename is the last step of taking a file where the answer points.
promoteFile(f) ==
    /\ f \in staged
    /\ staged' = staged \ {f}
    /\ content' = [content EXCEPT ![NameOf(f)] = f]
    /\ promoted' = promoted \cup {f}

\* An optional file that cannot be taken is settled and not mentioned; any other
\* fails the call.
DescribeFile(c) ==
    /\ at[c] = "describing" /\ next[c] \in DOMAIN wants[c]
    /\ LET f == <<c, next[c]>> IN
       \/ promoteFile(f) /\ next' = [next EXCEPT ![c] = @ + 1] /\ UNCHANGED at
       \/ /\ kind[c] = "pair"
          /\ staged' = staged \ {f}
          /\ next' = [next EXCEPT ![c] = @ + 1]
          /\ UNCHANGED <<at, content, promoted>>
       \/ /\ kind[c] = "write"
          /\ at' = [at EXCEPT ![c] = "settling"]
          /\ UNCHANGED <<next, diskVars>>
    /\ UNCHANGED <<request, planVars, taking, daemonVars, history>>

Conclude(c) ==
    /\ at[c] = "describing" /\ next[c] \notin DOMAIN wants[c]
    /\ releaseOutputNames(Wanted(c))
    /\ at' = [at EXCEPT ![c] = "over"]
    /\ UNCHANGED <<request, next, recordings, doomed, taking, daemonVars, diskVars, history>>

\* settleLeftoverFiles, then the names.
Settle(c) ==
    /\ at[c] = "settling"
    /\ staged' = staged \ Wanted(c)
    /\ releaseOutputNames(Wanted(c))
    /\ at' = [at EXCEPT ![c] = "over"]
    /\ UNCHANGED <<request, next, recordings, doomed, taking, daemonVars, content, promoted,
                   history>>

\* The recording is there under its name, or the stop fails; either way the stop
\* forgets the recording that is parked by now.
TakeRecording(c) ==
    /\ at[c] = "taking"
    /\ \/ IsNamed(taking[c]) /\ promoteFile(taking[c])
       \/ UNCHANGED diskVars
    /\ forgetRecording(browser[c])
    /\ at' = [at EXCEPT ![c] = "over"]
    /\ UNCHANGED <<request, next, taking, daemonVars, history>>

\* Every call is over; the front waits for more than the model has.
AllOver == (\A c \in Calls : ~Busy(c) /\ at[c] = "over") /\ doomed = {} /\ UNCHANGED vars

FrontStep(c) ==
    \/ PlanOutputFile(c) \/ Unplan(c) \/ Send(c) \/ Deadline(c)
    \/ ReadFailure(c) \/ ReadWritten(c) \/ ReadStarted(c) \/ ReadStopped(c)
    \/ DescribeFile(c) \/ Conclude(c) \/ Settle(c) \/ TakeRecording(c)

Next ==
    \/ \E c \in Calls : Arrive(c) \/ PlanFails(c) \/ Unreachable(c) \/ Drive(c) \/ FrontStep(c)
    \/ \E f \in Files : Unlink(f) \/ WriteFile(f)
    \/ \E b \in Browsers : DaemonReplaced(b)
    \/ AllOver

Spec == Init /\ [][Next]_vars

\* What the front waits for in the drive and in its own timers comes; a plan that
\* cannot claim its name fails.
FairSpec == Spec /\ \A c \in Calls : WF_vars(FrontStep(c)) /\ WF_vars(PlanFails(c))

-----------------------------------------------------------------------------
(* Properties *)

\* The count of a name's holders is the number of files that hold it, through
\* plans that fail half-way, refused starts and recordings that change hands
\* (claimOutputName, releaseOutputName).
HoldersAreCounted ==
    \A n \in Names :
        /\ claims[n].holders = Cardinality({f \in claimed : NameOf(f) = n})
        /\ claims[n].session = None <=> claims[n].holders = 0

\* While a call holds the name of a file it has written, that name holds a file of
\* its own browser: no answer names another browser's page (fileplan.mjs:45), as
\* long as no recording is forgotten under the stop that describes it.
AnswersNameTheirOwnBrowsersFile ==
    crossed = {} =>
        \A f \in promoted \cap claimed : BrowserOf(content[NameOf(f)]) = BrowserOf(f)

Accounted(f) ==
    f \in doomed \/ at[f[1]] # "over" \/ \E b \in Browsers : recordings[b] = f

\* A staging file belongs to a call in flight, to the recording that runs, or is
\* about to go, as long as the front has been told what its calls did and no two
\* screencast calls of a browser ran at a time (settleLeftoverFiles).
NothingIsLeftBehind ==
    astray = {} /\ crossed = {} => \A f \in staged : Accounted(f)

Quiet(b) == \A c \in Calls : Screencast(c) /\ browser[c] = b => ~Busy(c)

\* Between the screencast calls of a browser the front has the plan of the
\* recording that runs, and no other (fileresult.mjs:69), also across a new
\* daemon, refused starts and failed stops.
RecordingIsPlanned ==
    astray = {} /\ unreached = {} =>
        \A b \in Browsers \ crossed : Quiet(b) => recordings[b] = recorder[b]

\* The same although two screencast calls ran at a time (fileresult.mjs:74).
CrossedRecordingIsPlanned ==
    astray = {} /\ unreached = {} =>
        \A b \in Browsers : Quiet(b) => recordings[b] = recorder[b]

\* No name stays taken: a file that holds one gives it back, or is the recording
\* that runs (releaseOutputNames on every way out).
EveryNameIsGivenBack ==
    \A f \in Files :
        f \in claimed ~> (f \notin claimed \/ \E b \in Browsers : recordings[b] = f)

-----------------------------------------------------------------------------
(* The claims implement leases of names to browsers *)

Leases == INSTANCE NameLeases WITH
    lessee <- [n \in Names |-> claims[n].session],
    users <- [n \in Names |-> {<<BrowserOf(f), f>> : f \in {g \in claimed : NameOf(g) = n}}]

\* A name is one browser's until the last of its files lets go of it
\* (fileplan.mjs:45).
LeaseSpec == Leases!Spec
=============================================================================
