----------------------------- MODULE CallParts ------------------------------
(***************************************************************************)
(* The parts of a call: its deadlines, the files it works on, and the      *)
(* telemetry of the server it is made to.                                  *)
(***************************************************************************)
EXTENDS Integers, PartVariables

CONSTANTS
    Work, Delays, Handovers,               \* Budgets
    Calls, Retention, CallLasts, MaxTime,  \* StagedFiles
    MaxEvents, MaxBuffer                   \* EventSender

\* What calls ask for; no tool that types takes a timeout besides.
ASSUME WorkIsWork ==
    \A w \in Work : /\ w.characters \in Nat /\ w.elements \in Nat /\ w.timeout \in Int
                    /\ w.fullSpeed \in BOOLEAN
                    /\ w.tool = "fill_form" => w.timeout <= 0

\* The front may take its time, the daemon's part of the budget's margin is five
\* seconds.
LONGEST_HANDOVER_MS == 5000
ASSUME DelaysAreDelays == Delays \subseteq Nat /\ Handovers \subseteq 0 .. LONGEST_HANDOVER_MS

\* A call is over before what it wrote last is old enough to be swept.
ASSUME TimesAreTimes ==
    Retention \in Nat /\ CallLasts \in Nat /\ MaxTime \in Nat /\ CallLasts < Retention

\* MAX_BUFFER_SIZE; the last event is that of the shutdown.
ASSUME BufferHasRoom == MaxBuffer \in Nat \ {0} /\ MaxEvents \in Nat \ {0}

-----------------------------------------------------------------------------
(* What the variables stand for.  A name two parts have in common stands    *)
(* under the first of them.                                                *)

\* The deadlines of a call.
work == v1
now == v2
attempt == v4
socketAt == v6
requestAt == v7
mutexAt == v9
todo == v8

\* The files of the calls of a front.
kind == v1
began == v3
working == v5
saved == v6
inside == v7
dirTime == v9
out == v12
spillTime == v13
deadline == v14
unspilled == v15

\* Telemetry.
server == v1
pipe == v2
watchdog == v3
written == v4
buffer == v5
flight == v6
isFlushing == v7
timer == v8
timerStarted == v9
final == v10
accepted == v11
twice == v12
dropped == v13
unsure == v14

-----------------------------------------------------------------------------
BU == INSTANCE Budgets
SF == INSTANCE StagedFiles
ES == INSTANCE EventSender

\* The variables a part has no use for.
BUrest == <<v10, v11, v12, v13, v14, v15, v16>>
SFrest == <<v16>>
ESrest == <<v15, v16>>

CallInit ==
    \/ part = "budgets" /\ BU!Init
       /\ v10 = 0 /\ v11 = 0 /\ v12 = 0 /\ v13 = 0 /\ v14 = 0 /\ v15 = 0 /\ v16 = 0
    \/ part = "files" /\ SF!Init
       /\ v16 = 0
    \/ part = "events" /\ ES!Init
       /\ v15 = 0 /\ v16 = 0

CallNext ==
    \/ part = "budgets" /\ BU!Next /\ UNCHANGED <<part, BUrest>>
    \/ part = "files" /\ SF!Next /\ UNCHANGED <<part, SFrest>>
    \/ part = "events" /\ ES!Next /\ UNCHANGED <<part, ESrest>>

CallSpec == CallInit /\ [][CallNext]_vars

-----------------------------------------------------------------------------
CallTypeOK ==
    /\ part = "budgets" => BU!TypeOK
    /\ part = "files" => SF!TypeOK
    /\ part = "events" => ES!TypeOK

\* A call's directory is its own as long as it runs, and what a call leaves behind
\* is told of or swept (filestore, fileplan, fileresult).
FilesAreToldOrSwept ==
    part = "files" =>
        SF!DirectoriesInUseAreKept /\ SF!NothingStaysForGood /\ SF!ReportsAreTold

\* A call's work fits its budget, and its timers run out from the outside in
\* (pacing).
BudgetsNest ==
    part = "budgets" => BU!WorkFitsTheBudget /\ BU!OuterTimersFireFirst

\* No event is lost by the watchdog as long as it lives, and the order of what is
\* sent again is that of the log (ClearcutSender).
EventsAreDelivered ==
    part = "events" => ES!EventsAreAccounted /\ ES!EventsKeepTheirOrder
=============================================================================
