------------------------------- MODULE Budgets -------------------------------
(***************************************************************************)
(* The deadlines of one call (src/pacing.ts), in milliseconds: what the    *)
(* budget is made of, and the timers that run out one around the other -   *)
(* the wait for the tool mutex (src/ToolHandler.ts), the request of the    *)
(* daemon to its MCP server (src/daemon/daemon.ts), the front's socket     *)
(* (src/daemon/client.ts, chromectl/daemon.mjs) and the caller's own       *)
(* timeout, which it asked the front for (chromectl/front.mjs).            *)
(***************************************************************************)
EXTENDS Integers

CONSTANTS
    Work,     \* what a call asks for: its tool, characters, elements, timeout, speed
    Delays,   \* how long the front can take to get a daemon and reach it
    Handovers \* how long the daemon can take to hand the call on

VARIABLES
    work,     \* what the call asks for
    now,      \* time since the caller sent it
    stage,
    attempt,  \* how often it was sent to a daemon
    socketAt, \* when the front's timer for the attempt runs out
    requestAt,\* when the daemon's timer runs out
    mutexAt,  \* when the wait for the browser runs out
    todo,     \* phases of the work that are left
    heard     \* what the caller is told, and by whom

budgetVars == <<work, now, stage, attempt, socketAt, requestAt, mutexAt, todo, heard>>

CHARACTER_MAX_MS == 140 + 80
POINTER_PATH_MAX_MS == 20 * 45
PRE_ACTION_PAUSE_MIN_MS == 250
PRE_ACTION_PAUSE_MAX_MS == 700
Larger(a, b) == IF a > b THEN a ELSE b
LEAD_MAX_MS == Larger(PRE_ACTION_PAUSE_MAX_MS, POINTER_PATH_MAX_MS + PRE_ACTION_PAUSE_MIN_MS)
SCROLL_PAUSE_MAX_MS == 1200
SETTLE_MAX_MS == 900
WAIT_FOR_HELPER_MAX_MS == 3000 + 3000 + 100
NAVIGATION_GAP_MAX_MS == 2000
CALL_OVERHEAD_MS == NAVIGATION_GAP_MAX_MS
ACTION_OVERHEAD_MS ==
    LEAD_MAX_MS + SCROLL_PAUSE_MAX_MS + SETTLE_MAX_MS + WAIT_FOR_HELPER_MAX_MS
MIN_CALL_BUDGET_MS == 60000
MUTEX_WAIT_CEILING_MS == 180000
INNER_BUDGET_SLACK_MS == 10000
CLIENT_TIMEOUT_HEADROOM_MS == 30000

\* Intervals that no term of the budget counts.
MOUSE_HOLDS_MAX_MS == 195 + 180 + 195
DIALOG_READ_MAX_MS == 2000

\* BUDGET_SAFETY_FACTOR and the rounding behind it.
WithMargin(ms) == (3 * ms + 1) \div 2

\* What a call types, in how many actions, and how long it waits by its own
\* account.  Only the typing tools have characters, only fill_form elements.
Characters(w) == IF w.tool \in {"type_text", "fill", "fill_form"} THEN w.characters ELSE 0
\* Defect for mutation: a form is one action.
ActionsOfOne(w) == 1
Actions(w) == IF w.tool = "fill_form" THEN Larger(1, w.elements) ELSE 1
callerWaitMs(w) == Larger(0, w.timeout)

pacedMs(w) ==
    IF w.fullSpeed THEN 0
    ELSE CALL_OVERHEAD_MS + Actions(w) * ACTION_OVERHEAD_MS + Characters(w) * CHARACTER_MAX_MS
callBudgetMs(w) == Larger(MIN_CALL_BUDGET_MS, WithMargin(pacedMs(w) + callerWaitMs(w)))
queuedCallBudgetMs(w) == MUTEX_WAIT_CEILING_MS + callBudgetMs(w)
innerBudgetMs(outerMs) == outerMs + INNER_BUDGET_SLACK_MS
clientTimeoutMs(w) == queuedCallBudgetMs(w) + CLIENT_TIMEOUT_HEADROOM_MS

\* How long an action lasts at the most, as the tools wait: what the budget
\* counts, the holds and the answer to a dialog it does not, and its characters.
LongestActionMs(w) ==
    IF w.fullSpeed THEN WAIT_FOR_HELPER_MAX_MS
    ELSE LEAD_MAX_MS + SCROLL_PAUSE_MAX_MS + MOUSE_HOLDS_MAX_MS + DIALOG_READ_MAX_MS
         + WAIT_FOR_HELPER_MAX_MS + SETTLE_MAX_MS

\* fill_form acts once per element, every other tool once.
ActionsTaken(w) == IF w.tool = "fill_form" /\ w.elements > 1 THEN w.elements ELSE 1

Never == -1
Init ==
    /\ work \in Work /\ now = 0 /\ stage = "front" /\ attempt = 0
    /\ socketAt = Never /\ requestAt = Never /\ mutexAt = Never
    /\ todo = 0 /\ heard = "nothing"

Due(t) == t # Never /\ t <= now
\* A step that ends before any timer of the daemon's or the front's has run out.
Pending == heard = "nothing" /\ ~ Due(socketAt) /\ ~ Due(requestAt) /\ ~ Due(mutexAt)

\* The front: the probe of the browser, the start of a daemon, the attempt.
Send ==
    /\ Pending /\ stage = "front" /\ attempt < 2
    /\ \E d \in Delays :
        /\ now' = now + d /\ attempt' = attempt + 1 /\ stage' = "daemon"
        /\ socketAt' = now + d + queuedCallBudgetMs(work)
    /\ UNCHANGED <<work, requestAt, mutexAt, todo, heard>>

\* The daemon: its request to the MCP server.
Request ==
    /\ Pending /\ stage = "daemon"
    /\ \E d \in Handovers :
        /\ now' = now + d /\ stage' = "queue"
        /\ requestAt' = now + d + innerBudgetMs(queuedCallBudgetMs(work))
        /\ mutexAt' = now + d + MUTEX_WAIT_CEILING_MS
    /\ UNCHANGED <<work, attempt, socketAt, todo, heard>>

\* The mutex is handed over, anywhere between at once and the ceiling.
Granted ==
    /\ Pending /\ stage = "queue"
    /\ \E waited \in {0, MUTEX_WAIT_CEILING_MS \div 2, MUTEX_WAIT_CEILING_MS - 1} :
        now' = Larger(now, mutexAt - MUTEX_WAIT_CEILING_MS + waited)
               + IF work.fullSpeed THEN 0 ELSE NAVIGATION_GAP_MAX_MS
    /\ stage' = "work" /\ mutexAt' = Never /\ todo' = ActionsTaken(work)
    /\ UNCHANGED <<work, attempt, socketAt, requestAt, heard>>

\* One action as long as it may be; the characters come with the first, and the
\* wait the caller asked for with the last.
Act ==
    /\ Pending /\ stage = "work" /\ todo > 0 /\ todo' = todo - 1
    /\ now' = now + LongestActionMs(work)
              + (IF todo = ActionsTaken(work) /\ ~ work.fullSpeed
                 THEN Characters(work) * CHARACTER_MAX_MS ELSE 0)
              + (IF todo = 1 THEN callerWaitMs(work) ELSE 0)
    /\ UNCHANGED <<work, stage, attempt, socketAt, requestAt, mutexAt, heard>>

\* A command of the work is never answered.
Hangs ==
    /\ Pending /\ stage = "work" /\ stage' = "hung"
    /\ UNCHANGED <<work, now, attempt, socketAt, requestAt, mutexAt, todo, heard>>

Answer ==
    /\ Pending /\ stage = "work" /\ todo = 0
    /\ heard' = "the answer"
    /\ UNCHANGED <<work, now, stage, attempt, socketAt, requestAt, mutexAt, todo>>

\* The daemon is lost, or has lost its browser, with the call in any stage: the
\* first attempt is followed by a second under a budget of its own.
Lost ==
    /\ Pending /\ stage \in {"daemon", "queue", "work", "hung"} /\ attempt = 1
    /\ stage' = "front" /\ socketAt' = Never /\ requestAt' = Never /\ mutexAt' = Never
    /\ todo' = 0
    /\ UNCHANGED <<work, now, attempt, heard>>

\* Nothing more comes of the call: time passes to the next timer.
Timers == {t \in {socketAt, requestAt, mutexAt} : t # Never}
Passes ==
    /\ Pending /\ stage \in {"hung", "queue"}
    /\ \E t \in Timers : (\A u \in Timers : t <= u) /\ now' = t
    /\ UNCHANGED <<work, stage, attempt, socketAt, requestAt, mutexAt, todo, heard>>

\* The timer that ran out first is the one that is heard of.
Earliest(t) == Due(t) /\ \A u \in Timers : t <= u
Fires ==
    /\ heard = "nothing"
    /\ \/ Earliest(mutexAt) /\ heard' = "the wait for the browser"
       \/ Earliest(socketAt) /\ heard' = "the work ran over"
       \/ Earliest(requestAt) /\ heard' = "a timer further in"
    /\ UNCHANGED <<work, now, stage, attempt, socketAt, requestAt, mutexAt, todo>>

Next == Send \/ Request \/ Granted \/ Act \/ Hangs \/ Answer \/ Lost \/ Passes \/ Fires

Spec == Init /\ [][Next]_budgetVars

----------------------------------------------------------------------------
TypeOK ==
    /\ work \in Work /\ now \in Nat /\ attempt \in 0 .. 2
    /\ stage \in {"front", "daemon", "queue", "work", "hung"}
    /\ \A t \in {socketAt, requestAt, mutexAt} : t \in Nat \cup {Never}
    /\ todo \in Nat
    /\ heard \in {"nothing", "the answer", "the wait for the browser", "the work ran over",
                  "a timer further in"}

\* The work of a call fits its budget, whatever it types, in however many
\* actions, and however long it stood in line: the front gives up on a call only
\* when one of its commands is not answered.  At full speed the budget is the
\* floor, and a form of ten fields on a page that does not settle is more.
WorkFitsTheBudget ==
    heard = "the work ran over" =>
        \/ stage = "hung"
        \/ work.fullSpeed /\ ActionsTaken(work) * WAIT_FOR_HELPER_MAX_MS > MIN_CALL_BUDGET_MS

\* The timers run out from the outside in: what ends a call is the wait for the
\* browser or the front's own deadline, and never the daemon's request within.
OuterTimersFireFirst == heard # "a timer further in"

\* As chromectl/daemon.mjs has it, the caller's timeout "can only fire after this
\* one", the front's deadline, retry or not.
CallerOutlastsTheFront == socketAt # Never => socketAt <= clientTimeoutMs(work)
=============================================================================
