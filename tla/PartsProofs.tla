---------------------------- MODULE PartsProofs -----------------------------
(***************************************************************************)
(* Proofs about the parts a call of the front has to itself: its deadlines *)
(* (Budgets), for every text, form and wait it may ask for, and its        *)
(* directory, reports and spilled result (StagedFiles), for any number of  *)
(* calls and any length of the clock; and of the events of telemetry       *)
(* (EventSender), for any number of them.  Each section ends in the        *)
(* theorem it is for; the last two are about all the parts.                *)
(***************************************************************************)
EXTENDS Parts, PagePartsProofs, AnswerPartsProofs

-----------------------------------------------------------------------------
(* Budgets: the work of a call *)

\* A form at full speed whose waits alone are more than the floor.
Excused(w) == w.fullSpeed /\ BU!ActionsTaken(w) * BU!WAIT_FOR_HELPER_MAX_MS > BU!MIN_CALL_BUDGET_MS

TypedMs(w) == IF w.fullSpeed THEN 0 ELSE BU!Characters(w) * BU!CHARACTER_MAX_MS

\* What is left of the work, at its longest.
LeftMs(w, n) ==
    n * BU!LongestActionMs(w) + (IF n = BU!ActionsTaken(w) THEN TypedMs(w) ELSE 0)
    + (IF n > 0 THEN BU!callerWaitMs(w) ELSE 0)

-----------------------------------------------------------------------------
(* The arithmetic *)

LEMMA WorkTerms ==
    ASSUME NEW w \in Work
    PROVE  /\ BU!Characters(w) \in Nat /\ BU!callerWaitMs(w) \in Nat
           /\ BU!ActionsTaken(w) \in Nat /\ BU!ActionsTaken(w) >= 1
           /\ BU!Actions(w) = BU!ActionsTaken(w)
           /\ w.tool = "fill_form" => BU!callerWaitMs(w) = 0
           /\ w.tool # "fill_form" => BU!ActionsTaken(w) = 1
BY WorkIsWork DEF BU!Characters, BU!callerWaitMs, BU!Larger, BU!ActionsTaken, BU!Actions

LEMMA Lengths ==
    ASSUME NEW w
    PROVE  BU!LongestActionMs(w) = IF w.fullSpeed THEN 6100 ELSE 11920
BY DEF BU!LongestActionMs, BU!WAIT_FOR_HELPER_MAX_MS, BU!LEAD_MAX_MS, BU!Larger, BU!PRE_ACTION_PAUSE_MAX_MS,
       BU!POINTER_PATH_MAX_MS, BU!PRE_ACTION_PAUSE_MIN_MS, BU!SCROLL_PAUSE_MAX_MS, BU!MOUSE_HOLDS_MAX_MS,
       BU!DIALOG_READ_MAX_MS, BU!SETTLE_MAX_MS

LEMMA BudgetTerms ==
    ASSUME NEW w \in Work
    PROVE  LET paced == IF w.fullSpeed THEN 0
                        ELSE 2000 + BU!ActionsTaken(w) * 9350 + BU!Characters(w) * 220
               margin == (3 * (paced + BU!callerWaitMs(w)) + 1) \div 2
           IN  BU!callBudgetMs(w) = IF 60000 > margin THEN 60000 ELSE margin
BY WorkTerms
   DEF BU!callBudgetMs, BU!pacedMs, BU!WithMargin, BU!Larger, BU!MIN_CALL_BUDGET_MS, BU!CALL_OVERHEAD_MS,
       BU!NAVIGATION_GAP_MAX_MS, BU!ACTION_OVERHEAD_MS, BU!LEAD_MAX_MS, BU!PRE_ACTION_PAUSE_MAX_MS,
       BU!POINTER_PATH_MAX_MS, BU!PRE_ACTION_PAUSE_MIN_MS, BU!SCROLL_PAUSE_MAX_MS, BU!SETTLE_MAX_MS,
       BU!WAIT_FOR_HELPER_MAX_MS, BU!CHARACTER_MAX_MS

\* The budget covers the gap, the whole of the work and the handover.
LEMMA WorkFits ==
    ASSUME NEW w \in Work
    PROVE  /\ BU!callBudgetMs(w) \in Nat /\ BU!callBudgetMs(w) >= 60000
           /\ ~Excused(w) =>
                LONGEST_HANDOVER_MS + (IF w.fullSpeed THEN 0 ELSE 2000)
                + LeftMs(w, BU!ActionsTaken(w)) <= BU!callBudgetMs(w)
<1> DEFINE n == BU!ActionsTaken(w)
           c == BU!Characters(w)
           wait == BU!callerWaitMs(w)
           budget == BU!callBudgetMs(w)
<1>1. /\ c \in Nat /\ wait \in Nat /\ n \in Nat /\ n >= 1 /\ w.fullSpeed \in BOOLEAN
      /\ wait = 0 \/ n = 1
  BY WorkIsWork, WorkTerms
<1>2. CASE w.fullSpeed
  <2> DEFINE margin == (3 * wait + 1) \div 2
  <2>1. budget = IF 60000 > margin THEN 60000 ELSE margin
    BY <1>1, <1>2, BudgetTerms
  <2>2. LeftMs(w, n) = n * 6100 + wait
    BY <1>1, <1>2, Lengths DEF LeftMs, TypedMs
  <2>3. ~Excused(w) => n <= 9
    BY <1>1, <1>2 DEF Excused, BU!WAIT_FOR_HELPER_MAX_MS, BU!MIN_CALL_BUDGET_MS
  <2> HIDE DEF n, wait, budget
  <2>4. n <= 9 => 5000 + n * 6100 + wait <= budget
    BY <1>1, <2>1
  <2>5. budget \in Nat /\ budget >= 60000
    BY <1>1, <2>1
  <2>6. QED
    BY <1>1, <1>2, <2>2, <2>3, <2>4, <2>5 DEF n, wait, budget, LONGEST_HANDOVER_MS
<1>3. CASE ~w.fullSpeed
  <2> DEFINE margin == (3 * (2000 + n * 9350 + c * 220 + wait) + 1) \div 2
  <2>1. budget = IF 60000 > margin THEN 60000 ELSE margin
    BY <1>1, <1>3, BudgetTerms
  <2>2. LeftMs(w, n) = n * 11920 + c * 220 + wait
    BY <1>1, <1>3, Lengths DEF LeftMs, TypedMs, BU!CHARACTER_MAX_MS
  <2> HIDE DEF n, c, wait, budget
  <2>3. 7000 + n * 11920 + c * 220 + wait <= budget
    BY <1>1, <2>1
  <2>4. budget \in Nat /\ budget >= 60000
    BY <1>1, <2>1
  <2>5. QED
    BY <1>1, <1>3, <2>2, <2>3, <2>4 DEF n, c, wait, budget, LONGEST_HANDOVER_MS
<1>4. QED
  BY <1>1, <1>2, <1>3

-----------------------------------------------------------------------------
(* The timers *)

BudgetTypes ==
    /\ work \in Work /\ now \in Nat
    /\ todo \in Nat /\ todo <= BU!ActionsTaken(work)
    /\ stage \in {"front", "daemon", "queue", "work", "hung"}

\* Which timers run at which stage, and how they lie to one another.
TimersNest ==
    LET budget == BU!callBudgetMs(work) IN
    /\ stage = "front" => socketAt = BU!Never /\ requestAt = BU!Never /\ mutexAt = BU!Never
    /\ stage = "daemon" => /\ socketAt = now + BU!MUTEX_WAIT_CEILING_MS + budget
                           /\ requestAt = BU!Never /\ mutexAt = BU!Never
    /\ stage = "queue" => /\ mutexAt \in Nat /\ now <= mutexAt
                          /\ mutexAt >= BU!MUTEX_WAIT_CEILING_MS
                          /\ socketAt \in Nat
                          /\ mutexAt + budget >= socketAt
                          /\ mutexAt + budget <= socketAt + LONGEST_HANDOVER_MS
                          /\ requestAt = mutexAt + budget + BU!INNER_BUDGET_SLACK_MS
    /\ stage \in {"work", "hung"} => /\ mutexAt = BU!Never /\ socketAt \in Nat
                                     /\ requestAt \in Nat /\ requestAt > socketAt

\* The work that is left ends before the front's timer.
WorkIsInTime ==
    stage = "work" => Excused(work) \/ now + LeftMs(work, todo) < socketAt

Heard ==
    /\ heard = "the work ran over" => stage = "hung" \/ Excused(work)
    /\ heard # "a timer further in"

BInv == BudgetTypes /\ TimersNest /\ WorkIsInTime /\ Heard

LEMMA BudgetsFirst ==
    ASSUME BU!Init
    PROVE  BInv
BY WorkTerms DEF BU!Init, BInv, BudgetTypes, TimersNest, WorkIsInTime, Heard

LEMMA BudgetsKept ==
    ASSUME BInv, [BU!Next]_(BU!budgetVars)
    PROVE  BInv'
<1> DEFINE budget == BU!callBudgetMs(work)
<1>1. work \in Work /\ budget \in Nat /\ budget >= 60000
  BY WorkFits DEF BInv, BudgetTypes
<1>2. /\ now \in Nat /\ todo \in Nat /\ BU!Characters(work) \in Nat /\ BU!callerWaitMs(work) \in Nat
      /\ BU!ActionsTaken(work) \in Nat /\ BU!ActionsTaken(work) >= 1 /\ work.fullSpeed \in BOOLEAN
  BY WorkIsWork, <1>1, WorkTerms DEF BInv, BudgetTypes
<1>3. LeftMs(work, todo) \in Nat
  <2>1. BU!LongestActionMs(work) \in {6100, 11920} /\ TypedMs(work) \in Nat
    BY <1>2, Lengths DEF TypedMs, BU!CHARACTER_MAX_MS
  <2>2. todo * BU!LongestActionMs(work) \in Nat
    BY <1>2, <2>1
  <2>3. QED
    BY <1>2, <2>1, <2>2 DEF LeftMs
<1>4. CASE BU!Send
  <2>1. PICK d \in Nat : /\ stage = "front" /\ now' = now + d /\ stage' = "daemon"
                         /\ socketAt' = now + d + (BU!MUTEX_WAIT_CEILING_MS + budget)
                         /\ UNCHANGED <<work, requestAt, mutexAt, todo, heard>> /\ heard = "nothing"
    BY DelaysAreDelays, <1>4 DEF BU!Send, BU!Pending, BU!queuedCallBudgetMs
  <2>2. QED
    BY <1>1, <1>2, <2>1
       DEF BInv, BudgetTypes, TimersNest, WorkIsInTime, Heard, BU!MUTEX_WAIT_CEILING_MS
<1>5. CASE BU!Request
  <2>1. PICK d \in 0 .. LONGEST_HANDOVER_MS :
             /\ stage = "daemon" /\ now' = now + d /\ stage' = "queue"
             /\ requestAt' = now + d + (BU!MUTEX_WAIT_CEILING_MS + budget + BU!INNER_BUDGET_SLACK_MS)
             /\ mutexAt' = now + d + BU!MUTEX_WAIT_CEILING_MS
             /\ UNCHANGED <<work, socketAt, todo, heard>> /\ heard = "nothing"
    BY DelaysAreDelays, <1>5 DEF BU!Request, BU!Pending, BU!queuedCallBudgetMs, BU!innerBudgetMs
  <2>2. QED
    BY <1>1, <1>2, <2>1
       DEF BInv, BudgetTypes, TimersNest, WorkIsInTime, Heard, BU!MUTEX_WAIT_CEILING_MS,
           LONGEST_HANDOVER_MS, BU!INNER_BUDGET_SLACK_MS
<1>6. CASE BU!Granted
  <2>1. PICK waited \in {0, 90000, 179999} :
             now' = BU!Larger(now, mutexAt - 180000 + waited)
                    + IF work.fullSpeed THEN 0 ELSE BU!NAVIGATION_GAP_MAX_MS
    BY <1>6 DEF BU!Granted, BU!MUTEX_WAIT_CEILING_MS
  <2>2. /\ stage = "queue" /\ stage' = "work" /\ mutexAt' = BU!Never
        /\ todo' = BU!ActionsTaken(work) /\ heard = "nothing"
        /\ UNCHANGED <<work, socketAt, requestAt, heard>> /\ ~BU!Due(mutexAt)
    BY <1>6 DEF BU!Granted, BU!Pending
  <2>3. /\ mutexAt \in Nat /\ mutexAt >= 180000 /\ socketAt \in Nat
        /\ mutexAt + budget <= socketAt + LONGEST_HANDOVER_MS
        /\ mutexAt + budget >= socketAt
        /\ requestAt = mutexAt + budget + 10000
    BY <2>2 DEF BInv, TimersNest, BU!MUTEX_WAIT_CEILING_MS, BU!INNER_BUDGET_SLACK_MS
  <2>4. now < mutexAt
    BY <1>2, <2>2, <2>3 DEF BU!Due, BU!Never
  <2>5. /\ now' \in Nat
        /\ now' < mutexAt + IF work.fullSpeed THEN 0 ELSE 2000
    BY <1>2, <2>1, <2>3, <2>4 DEF BU!Larger, BU!NAVIGATION_GAP_MAX_MS
  <2>6. LeftMs(work, BU!ActionsTaken(work)) \in Nat
    <3>1. BU!LongestActionMs(work) \in {6100, 11920} /\ TypedMs(work) \in Nat
      BY <1>2, Lengths DEF TypedMs, BU!CHARACTER_MAX_MS
    <3>2. BU!ActionsTaken(work) * BU!LongestActionMs(work) \in Nat
      BY <1>2, <3>1
    <3>3. QED
      BY <1>2, <3>1, <3>2 DEF LeftMs
  <2>7. ~Excused(work) => now' + LeftMs(work, BU!ActionsTaken(work)) < socketAt
    <3>1. ~Excused(work) =>
            LONGEST_HANDOVER_MS + (IF work.fullSpeed THEN 0 ELSE 2000)
            + LeftMs(work, BU!ActionsTaken(work)) <= budget
      BY <1>1, WorkFits
    <3> DEFINE left == LeftMs(work, BU!ActionsTaken(work))
    <3> HIDE DEF left, budget
    <3>2. QED
      BY <1>1, <1>2, <2>3, <2>5, <2>6, <3>1 DEF left, LONGEST_HANDOVER_MS
  <2>8. WorkIsInTime'
    BY <2>2, <2>7 DEF WorkIsInTime
  <2>9. TimersNest' /\ BudgetTypes' /\ Heard'
    BY <1>1, <1>2, <2>2, <2>3, <2>5 DEF TimersNest, BudgetTypes, Heard
  <2>10. QED
    BY <2>8, <2>9 DEF BInv
<1>7. CASE BU!Act
  <2>1. /\ stage = "work" /\ todo > 0 /\ todo' = todo - 1 /\ heard = "nothing"
        /\ now' = now + BU!LongestActionMs(work)
                  + (IF todo = BU!ActionsTaken(work) /\ ~ work.fullSpeed
                     THEN BU!Characters(work) * BU!CHARACTER_MAX_MS ELSE 0)
                  + (IF todo = 1 THEN BU!callerWaitMs(work) ELSE 0)
        /\ UNCHANGED <<work, stage, socketAt, requestAt, mutexAt, heard>>
    BY <1>7 DEF BU!Act, BU!Pending
  <2>2. PICK l \in Nat : l = BU!LongestActionMs(work)
    BY Lengths
  <2>3. TypedMs(work) \in Nat
    BY <1>2 DEF TypedMs, BU!CHARACTER_MAX_MS
  <2>4. now' = now + l + (IF todo = BU!ActionsTaken(work) THEN TypedMs(work) ELSE 0)
                + (IF todo = 1 THEN BU!callerWaitMs(work) ELSE 0)
    BY <1>2, <2>1, <2>2 DEF TypedMs
  <2>5. now' \in Nat /\ todo' \in Nat /\ todo' <= BU!ActionsTaken(work)
    BY <1>2, <2>1, <2>2, <2>3, <2>4 DEF BInv, BudgetTypes
  <2>6. todo * l = (todo - 1) * l + l /\ todo * l \in Nat /\ (todo - 1) * l \in Nat
    <3>1. l = 6100 \/ l = 11920
      BY <2>2, Lengths
    <3>2. QED
      BY <1>2, <2>1, <3>1
  <2>7. now' + LeftMs(work, todo - 1) = now + LeftMs(work, todo)
    <3> DEFINE before == todo * l
               after == (todo - 1) * l
    <3>1. /\ LeftMs(work, todo) = before
                + (IF todo = BU!ActionsTaken(work) THEN TypedMs(work) ELSE 0) + BU!callerWaitMs(work)
          /\ LeftMs(work, todo - 1) = after + (IF todo > 1 THEN BU!callerWaitMs(work) ELSE 0)
      <4>1. /\ before = todo * BU!LongestActionMs(work)
            /\ after = (todo - 1) * BU!LongestActionMs(work)
        BY <2>2
      <4>2. todo - 1 # BU!ActionsTaken(work) /\ (todo - 1 > 0 <=> todo > 1)
        BY <1>2, <2>1 DEF BInv, BudgetTypes
      <4> HIDE DEF before, after
      <4>3. LeftMs(work, todo) = before
              + (IF todo = BU!ActionsTaken(work) THEN TypedMs(work) ELSE 0) + BU!callerWaitMs(work)
        BY <2>1, <4>1 DEF LeftMs
      <4>4. LeftMs(work, todo - 1) = after + 0
              + (IF todo - 1 > 0 THEN BU!callerWaitMs(work) ELSE 0)
        BY <4>1, <4>2, Zenon DEF LeftMs
      <4>5. after + 0 = after
        BY <2>6 DEF after
      <4>6. QED
        BY <4>2, <4>3, <4>4, <4>5
    <3> HIDE DEF before, after
    <3>2. before = after + l /\ before \in Nat /\ after \in Nat
      BY <2>6 DEF before, after
    <3>3. QED
      BY <1>2, <2>1, <2>2, <2>3, <2>4, <3>1, <3>2
  <2>8. QED
    BY <1>1, <1>2, <1>3, <2>1, <2>5, <2>7 DEF BInv, BudgetTypes, TimersNest, WorkIsInTime, Heard
<1>8. CASE BU!Hangs
  BY <1>8 DEF BU!Hangs, BU!Pending, BInv, BudgetTypes, TimersNest, WorkIsInTime, Heard
<1>9. CASE BU!Answer
  BY <1>9 DEF BU!Answer, BU!Pending, BInv, BudgetTypes, TimersNest, WorkIsInTime, Heard
<1>10. CASE BU!Lost
  BY <1>2, <1>10 DEF BU!Lost, BU!Pending, BInv, BudgetTypes, TimersNest, WorkIsInTime, Heard
<1>11. CASE BU!Passes
  <2>1. PICK t \in BU!Timers : (\A u \in BU!Timers : t <= u) /\ now' = t
    BY <1>11 DEF BU!Passes
  <2>2. /\ stage \in {"hung", "queue"} /\ heard = "nothing"
        /\ UNCHANGED <<work, stage, socketAt, requestAt, mutexAt, todo, heard>>
    BY <1>11 DEF BU!Passes, BU!Pending
  <2>3. now' \in Nat /\ (stage = "queue" => now' <= mutexAt)
    BY <1>1, <2>1, <2>2 DEF BU!Timers, BU!Never, BInv, TimersNest, BU!INNER_BUDGET_SLACK_MS
  <2>4. QED
    BY <2>2, <2>3 DEF BInv, BudgetTypes, TimersNest, WorkIsInTime, Heard
<1>12. CASE BU!Fires
  <2>1. UNCHANGED <<work, now, stage, attempt, socketAt, requestAt, mutexAt, todo>>
    BY <1>12 DEF BU!Fires
  <2>2. stage = "front" => ~BU!Due(socketAt) /\ ~BU!Due(requestAt)
    BY DEF BU!Due, BInv, TimersNest
  <2>3. stage = "daemon" => ~BU!Due(socketAt) /\ ~BU!Due(requestAt)
    BY <1>1, <1>2 DEF BU!Due, BInv, TimersNest, BU!MUTEX_WAIT_CEILING_MS
  <2>4. stage = "queue" => ~BU!Due(socketAt) /\ ~BU!Due(requestAt)
    BY <1>1, <1>2
       DEF BU!Due, BInv, TimersNest, BU!MUTEX_WAIT_CEILING_MS, BU!INNER_BUDGET_SLACK_MS,
           LONGEST_HANDOVER_MS
  <2>5. stage = "work" => ~BU!Due(socketAt) \/ Excused(work)
    BY <1>1, <1>2, <1>3 DEF BU!Due, BInv, TimersNest, WorkIsInTime
  <2>6. stage \in {"work", "hung"} => ~BU!Earliest(requestAt)
    BY <1>1, <1>2 DEF BU!Earliest, BU!Timers, BU!Never, BInv, TimersNest
  <2>7. Heard'
    BY <1>12, <2>1, <2>2, <2>3, <2>4, <2>5, <2>6
       DEF BU!Fires, BU!Earliest, Heard, BInv, BudgetTypes
  <2>8. QED
    BY <2>1, <2>7 DEF BInv, BudgetTypes, TimersNest, WorkIsInTime
<1>13. CASE UNCHANGED BU!budgetVars
  BY <1>13 DEF BU!budgetVars, BInv, BudgetTypes, TimersNest, WorkIsInTime, Heard
<1>14. QED
  BY <1>4, <1>5, <1>6, <1>7, <1>8, <1>9, <1>10, <1>11, <1>12, <1>13 DEF BU!Next

-----------------------------------------------------------------------------
(* Directories, reports and spilled results *)

Ready == {"planned", "driving"}
Young == {"away", "sweeping", "planning", "copying", "planned"}
Sweeps == {"sweeping", "planning", "sweeping again", "spilling"}

-----------------------------------------------------------------------------
(* Types *)

LEMMA RemoveType ==
    ASSUME SF!TypeOK, NEW S, SF!Remove(S)
    PROVE  /\ dirTime' \in [Calls -> 0 .. MaxTime \cup {SF!Gone}]
           /\ inside' \in [Calls -> SUBSET (SF!Reports \cup {"copy"})]
           /\ spillTime' \in [Calls -> 0 .. MaxTime \cup {SF!Gone}]
  BY DEF SF!TypeOK, SF!Remove

LEMMA TakenOut ==
    ASSUME NEW c \in Calls, NEW r \in SF!Reports, out \subseteq Calls \X SF!Reports
    PROVE  out \cup {<<c, r>>} \subseteq Calls \X SF!Reports
  OBVIOUS

LEMMA TickType ==
    ASSUME MaxTime \in Nat, now \in 0 .. MaxTime, SF!Tick
    PROVE  now' \in 0 .. MaxTime
  BY DEF SF!Tick

LEMMA GoesType ==
    ASSUME SF!TypeOK, NEW c \in Calls, NEW goal \in SF!Stages, SF!Goes(c, goal)
    PROVE  at' \in [Calls -> SF!Stages]
  BY DEF SF!TypeOK, SF!Goes

LEMMA ListType ==
    ASSUME SF!TypeOK, NEW c \in Calls, SF!listEntries(c)
    PROVE  /\ todo' \in [Calls -> SUBSET SF!Entries]
           /\ deadline' \in [Calls -> -Retention .. MaxTime]
<1>1. SF!OnDrive \subseteq SF!Entries
  BY DEF SF!OnDrive
<1>2. now - Retention \in -Retention .. MaxTime
  BY TimesAreTimes DEF SF!TypeOK
<1>3. QED
  BY <1>1, <1>2 DEF SF!listEntries, SF!TypeOK

\* Every variable keeps its type (the calls of front.mjs and their files).
LEMMA FilesKeepTheirTypes ==
    ASSUME SF!TypeOK, [SF!Next]_(SF!stagedVars)
    PROVE  SF!TypeOK'
<1> USE TimesAreTimes DEF SF!TypeOK, SF!diskVars, SF!sweepVars, SF!Goes, SF!Stages, SF!Over
<1>1. ASSUME NEW c \in Calls, SF!Arrive(c) PROVE SF!TypeOK'
  <2>1. /\ began' = [began EXCEPT ![c] = now]
        /\ UNCHANGED <<now, kind, working, saved, SF!diskVars, told, strayed, unspilled>>
    BY <1>1 DEF SF!Arrive
  <2>2. PICK goal \in {"planned", "sweeping"} : SF!Goes(c, goal)
    BY <1>1 DEF SF!Arrive
  <2>3. at' \in [Calls -> SF!Stages]
    BY <2>2, GoesType
  <2>4. todo' \in [Calls -> SUBSET SF!Entries] /\ deadline' \in [Calls -> -Retention .. MaxTime]
    BY <1>1, ListType DEF SF!Arrive
  <2>5. QED
    BY <2>1, <2>3, <2>4
<1>2. ASSUME NEW c \in Calls, SF!pruneExpiredEntry(c) PROVE SF!TypeOK'
  <2>1. PICK e \in todo[c] :
             /\ todo' = [todo EXCEPT ![c] = @ \ {e}]
             /\ SF!Remove(IF SF!Expired(c, e) THEN {e} ELSE {})
             /\ UNCHANGED <<now, kind, at, began, working, saved, out, deadline, told,
                            strayed, unspilled>>
    BY <1>2 DEF SF!pruneExpiredEntry
  <2>2. todo' \in [Calls -> SUBSET SF!Entries]
    BY <2>1
  <2>3. QED
    BY <2>1, <2>2, RemoveType
<1>3. ASSUME NEW c \in Calls, SF!Swept(c) PROVE SF!TypeOK'
  BY <1>3 DEF SF!Swept
<1>4. ASSUME NEW c \in Calls, SF!makeDirectory(c) PROVE SF!TypeOK'
  <2>1. PICK goal \in {"planned", "copying", "over"} : SF!Goes(c, goal)
    BY <1>4 DEF SF!makeDirectory
  <2>2. at' \in [Calls -> SF!Stages]
    BY <2>1, GoesType
  <2>3. dirTime' \in [Calls -> 0 .. MaxTime \cup {SF!Gone}]
    <3>1. dirTime' = [dirTime EXCEPT ![c] = now] \/ dirTime' = dirTime
      BY <1>4 DEF SF!makeDirectory
    <3>2. QED
      BY <3>1
  <2>4. QED
    BY <1>4, <2>2, <2>3 DEF SF!makeDirectory
<1>5. ASSUME NEW c \in Calls, SF!stageInputFile(c) PROVE SF!TypeOK'
  <2>1. CASE UNCHANGED spillTime /\ at' = [at EXCEPT ![c] = "planned"]
             /\ inside' = [inside EXCEPT ![c] = {"copy"}]
             /\ dirTime' = [dirTime EXCEPT ![c] = now]
    BY <1>5, <2>1 DEF SF!stageInputFile
  <2>2. CASE at' = [at EXCEPT ![c] = "over"] /\ SF!Remove({<<"directory", c>>})
    BY <1>5, <2>2, RemoveType DEF SF!stageInputFile
  <2>3. QED
    BY <1>5, <2>1, <2>2 DEF SF!stageInputFile
<1>6. ASSUME NEW c \in Calls, SF!Send(c) PROVE SF!TypeOK'
  BY <1>6 DEF SF!Send
<1>7. ASSUME NEW c \in Calls, SF!GivenUp(c) PROVE SF!TypeOK'
  BY <1>7 DEF SF!GivenUp
<1>8. ASSUME NEW c \in Calls, SF!Described(c) PROVE SF!TypeOK'
  BY <1>8, RemoveType DEF SF!Described
<1>9. ASSUME NEW c \in Calls, SF!SendResult(c) PROVE SF!TypeOK'
  BY <1>9, RemoveType DEF SF!SendResult, SF!conclude
<1>10. ASSUME NEW c \in Calls, SF!ResultTooLarge(c) PROVE SF!TypeOK'
  BY <1>10, ListType DEF SF!ResultTooLarge
<1>11. ASSUME NEW c \in Calls, SF!spillResult(c) PROVE SF!TypeOK'
  BY <1>11 DEF SF!spillResult
<1>12. ASSUME NEW c \in Calls, SF!settleLeftovers(c) PROVE SF!TypeOK'
  BY <1>12, RemoveType DEF SF!settleLeftovers
<1>13. ASSUME NEW c \in Calls, NEW r \in SF!Reports, SF!takeReport(c, r) PROVE SF!TypeOK'
  <2>1. CASE /\ out' = out \cup {<<c, r>>}
             /\ inside' = [inside EXCEPT ![c] = @ \ {r}]
             /\ dirTime' = [dirTime EXCEPT ![c] = now] /\ UNCHANGED at
    <3>1. out' \subseteq Calls \X SF!Reports
      BY <2>1, TakenOut
    <3>2. dirTime' \in [Calls -> 0 .. MaxTime \cup {SF!Gone}]
      BY <2>1
    <3>3. inside' \in [Calls -> SUBSET (SF!Reports \cup {"copy"})]
      BY <2>1
    <3>4. QED
      BY <1>13, <2>1, <3>1, <3>2, <3>3 DEF SF!takeReport
  <2>2. CASE /\ out' = out \ ({c} \X SF!Reports)
             /\ SF!Goes(c, "settling") /\ UNCHANGED <<inside, dirTime>>
    BY <1>13, <2>2, GoesType DEF SF!takeReport
  <2>3. QED
    BY <1>13, <2>1, <2>2 DEF SF!takeReport
<1>14. ASSUME NEW c \in Calls, NEW r \in SF!Reports, SF!saveFile(c, r) PROVE SF!TypeOK'
  BY <1>14 DEF SF!saveFile
<1>15. ASSUME NEW c \in Calls, NEW fine \in BOOLEAN, SF!ToolEnds(c, fine) PROVE SF!TypeOK'
  <2>1. at' \in [Calls -> SF!Stages]
    <3>1. at' = at \/ SF!Goes(c, "describing") \/ SF!Goes(c, "settling")
      BY <1>15 DEF SF!ToolEnds
    <3>2. QED
      BY <3>1, GoesType
  <2>2. QED
    BY <1>15, <2>1 DEF SF!ToolEnds
<1>16. ASSUME SF!FrontRestart PROVE SF!TypeOK'
  BY <1>16 DEF SF!FrontRestart, SF!InFlight
<1>17. ASSUME SF!Tick PROVE SF!TypeOK'
  <2>1. now' \in 0 .. MaxTime
    BY <1>17, TickType
  <2>2. QED
    BY <1>17, <2>1 DEF SF!Tick
<1>18. CASE UNCHANGED SF!stagedVars
  BY <1>18 DEF SF!stagedVars
<1>19. QED
  BY <1>1, <1>2, <1>3, <1>4, <1>5, <1>6, <1>7, <1>8, <1>9, <1>10, <1>11, <1>12, <1>13,
     <1>14, <1>15, <1>16, <1>17, <1>18 DEF SF!Next, SF!Call

-----------------------------------------------------------------------------
(* What a removal does *)

LEMMA RemoveDirectory ==
    ASSUME SF!TypeOK, NEW c \in Calls, SF!Remove({<<"directory", c>>})
    PROVE  /\ dirTime' = [dirTime EXCEPT ![c] = SF!Gone]
           /\ inside' = [inside EXCEPT ![c] = {}]
           /\ spillTime' = spillTime
  BY DEF SF!TypeOK, SF!Remove

LEMMA RemoveNothing ==
    ASSUME SF!TypeOK, SF!Remove({})
    PROVE  UNCHANGED <<dirTime, inside, spillTime>>
  BY DEF SF!TypeOK, SF!Remove

\* The end of an answer takes the directory of an audit, and no other.
LEMMA DescribedRemoves ==
    ASSUME SF!TypeOK, NEW c \in Calls, SF!Described(c)
    PROVE  /\ \A d \in Calls : d # c => dirTime'[d] = dirTime[d] /\ inside'[d] = inside[d]
           /\ \/ dirTime'[c] = SF!Gone
              \/ dirTime'[c] = dirTime[c]
           /\ spillTime' = spillTime
<1> DEFINE S == {<<"directory", c>>} \cap ({"directory"} \X {d \in Calls : kind[d] = "audit"})
<1>1. SF!Remove(S)
  BY DEF SF!Described
<1>2. CASE kind[c] = "audit"
  <2>1. S = {<<"directory", c>>}
    BY <1>2
  <2>2. QED
    BY <1>1, <2>1, RemoveDirectory DEF SF!TypeOK
<1>3. CASE kind[c] # "audit"
  <2>1. S = {}
    BY <1>3
  <2>2. QED
    BY <1>1, <2>1, RemoveNothing
<1>4. QED
  BY <1>2, <1>3

\* A step of a sweep removes what is older than the sweep goes by, or nothing.
LEMMA PruneRemoves ==
    ASSUME SF!TypeOK, NEW c \in Calls, NEW e \in todo[c],
           SF!Remove(IF SF!Expired(c, e) THEN {e} ELSE {})
    PROVE  \A d \in Calls :
             /\ \/ dirTime'[d] = dirTime[d] /\ inside'[d] = inside[d]
                \/ dirTime'[d] = SF!Gone /\ dirTime[d] < deadline[c]
             /\ spillTime'[d] = spillTime[d] \/ spillTime'[d] = SF!Gone
<1>1. CASE SF!Expired(c, e)
  <2>1. SF!Remove({e})
    BY <1>1
  <2>2. e \in {"directory", "spill"} \X Calls
    BY DEF SF!TypeOK, SF!Entries
  <2>3. \A d \in Calls : e = <<"directory", d>> => dirTime[d] < deadline[c]
    BY <1>1 DEF SF!Expired, SF!mtime
  <2>4. \A d \in Calls :
           /\ \/ dirTime'[d] = dirTime[d] /\ inside'[d] = inside[d]
              \/ dirTime'[d] = SF!Gone /\ e = <<"directory", d>>
           /\ spillTime'[d] = spillTime[d] \/ spillTime'[d] = SF!Gone
    BY <2>1, <2>2 DEF SF!Remove
  <2>5. QED
    BY <2>3, <2>4
<1>2. CASE ~SF!Expired(c, e)
  BY <1>2, RemoveNothing
<1>3. QED
  BY <1>1, <1>2

-----------------------------------------------------------------------------
(* Directories in use *)

\* What a call that is over soon enough can rely on: its directory is younger
\* than it is, and no sweep goes by an age a call can reach.
InTime ==
    /\ \A c \in SF!InFlight : began[c] <= now /\ now <= began[c] + CallLasts
    /\ \A c \in SF!InFlight : dirTime[c] # SF!Gone => dirTime[c] >= began[c]
    /\ \A c \in Calls : todo[c] # {} => deadline[c] <= now - Retention

\* A directory is made once, filled after that, and by the daemon only while it
\* carries the call out.
Filled ==
    \A c \in Calls :
        /\ at[c] \in Young => saved[c] = {} /\ c \notin working
        /\ at[c] \in Young \ {"planned"} => inside[c] = {}
        /\ at[c] \in Young \ {"planned", "copying"} => dirTime[c] = SF!Gone
        /\ at[c] \in {"sweeping", "planning"} => kind[c] # "plain"
        /\ at[c] = "copying" => kind[c] = "upload"
        /\ at[c] \in Ready \cup {"copying"} /\ kind[c] # "plain" => dirTime[c] # SF!Gone
        /\ at[c] \in Ready /\ kind[c] = "upload" => "copy" \in inside[c]
        /\ at[c] \in Ready /\ kind[c] = "audit" => saved[c] = inside[c]

LEMMA InTimeStep ==
    ASSUME SF!TypeOK, Filled, InTime, [SF!Next]_(SF!stagedVars)
    PROVE  InTime'
<1> USE TimesAreTimes DEF SF!TypeOK, SF!diskVars, SF!sweepVars, SF!Goes, SF!Over, SF!InFlight, SF!Gone
<1>1. ASSUME NEW c \in Calls, SF!Arrive(c) PROVE InTime'
  <2>1. PICK goal \in {"planned", "sweeping"} : at' = [at EXCEPT ![c] = goal]
    BY <1>1 DEF SF!Arrive
  <2>2. /\ began' = [began EXCEPT ![c] = now] /\ now' = now /\ dirTime' = dirTime
        /\ at[c] = "away"
    BY <1>1 DEF SF!Arrive
  <2>3. dirTime[c] = SF!Gone
    BY <2>2 DEF Filled, Young
  <2>4. \A d \in Calls : todo'[d] # {} => deadline'[d] <= now - Retention
    BY <1>1 DEF SF!Arrive, SF!listEntries, InTime
  <2>5. \A d \in SF!InFlight' : d # c => d \in SF!InFlight
    BY <2>1
  <2>6. QED
    BY <2>1, <2>2, <2>3, <2>4, <2>5 DEF InTime
<1>2. ASSUME NEW c \in Calls, SF!pruneExpiredEntry(c) PROVE InTime'
  <2>1. PICK e \in todo[c] :
             /\ todo' = [todo EXCEPT ![c] = @ \ {e}]
             /\ SF!Remove(IF SF!Expired(c, e) THEN {e} ELSE {})
             /\ UNCHANGED <<now, kind, at, began, working, saved, out, deadline>>
    BY <1>2 DEF SF!pruneExpiredEntry
  <2>2. \A d \in Calls : dirTime'[d] = dirTime[d] \/ dirTime'[d] = SF!Gone
    BY <2>1, PruneRemoves
  <2>3. \A d \in Calls : todo'[d] # {} => todo[d] # {}
    BY <2>1
  <2>4. QED
    BY <2>1, <2>2, <2>3 DEF InTime
<1>3. ASSUME NEW c \in Calls, SF!ResultTooLarge(c) PROVE InTime'
  <2>1. at' = [at EXCEPT ![c] = "sweeping again"] /\ at[c] = "measuring"
        /\ UNCHANGED <<now, began, dirTime>>
    BY <1>3 DEF SF!ResultTooLarge
  <2>2. \A d \in Calls : todo'[d] # {} => deadline'[d] <= now - Retention
    <3>1. todo' = [todo EXCEPT ![c] = SF!OnDrive]
          /\ deadline' = [deadline EXCEPT ![c] = now - Retention]
      BY <1>3 DEF SF!ResultTooLarge, SF!listEntries
    <3>2. QED
      BY <3>1 DEF InTime
  <2>3. SF!InFlight' = SF!InFlight
    BY <2>1
  <2>4. QED
    BY <2>1, <2>2, <2>3 DEF InTime
<1>4. ASSUME UNCHANGED <<now, began, todo, deadline>>, SF!InFlight' \subseteq SF!InFlight,
             \A d \in Calls : dirTime'[d] \in {dirTime[d], now, SF!Gone}
      PROVE  InTime'
  BY <1>4 DEF InTime
<1>5. ASSUME NEW c \in Calls,
             \/ SF!Swept(c) \/ SF!makeDirectory(c) \/ SF!Send(c) \/ SF!GivenUp(c) \/ SF!SendResult(c)
             \/ SF!stageInputFile(c) \/ SF!Described(c) \/ SF!spillResult(c) \/ SF!settleLeftovers(c)
             \/ \E r \in SF!Reports : SF!takeReport(c, r) \/ SF!saveFile(c, r)
             \/ \E fine \in BOOLEAN : SF!ToolEnds(c, fine)
      PROVE  InTime'
  <2>1. UNCHANGED <<now, began, todo, deadline>>
    BY <1>5 DEF SF!Swept, SF!makeDirectory, SF!Send, SF!GivenUp, SF!SendResult, SF!stageInputFile, SF!Described,
       SF!spillResult, SF!settleLeftovers, SF!takeReport, SF!saveFile, SF!ToolEnds
  <2>2. \A d \in Calls : at'[d] \notin SF!Over => at[d] \notin SF!Over
    BY <1>5 DEF SF!Swept, SF!makeDirectory, SF!Send, SF!GivenUp, SF!SendResult, SF!stageInputFile, SF!Described,
       SF!spillResult, SF!settleLeftovers, SF!takeReport, SF!saveFile, SF!ToolEnds
  <2>3. \A d \in Calls : dirTime'[d] \in {dirTime[d], now, SF!Gone}
    <3>1. CASE SF!Swept(c) \/ SF!Send(c) \/ SF!GivenUp(c) \/ \E fine \in BOOLEAN : SF!ToolEnds(c, fine)
      BY <3>1 DEF SF!Swept, SF!Send, SF!GivenUp, SF!ToolEnds
    <3>2. CASE SF!makeDirectory(c) \/ SF!spillResult(c)
               \/ \E r \in SF!Reports : SF!takeReport(c, r) \/ SF!saveFile(c, r)
      BY <3>2 DEF SF!makeDirectory, SF!spillResult, SF!takeReport, SF!saveFile
    <3>3. CASE SF!SendResult(c) \/ SF!settleLeftovers(c)
      BY <3>3, RemoveDirectory DEF SF!SendResult, SF!settleLeftovers, SF!conclude
    <3>4. CASE SF!stageInputFile(c)
      BY <3>4, RemoveDirectory DEF SF!stageInputFile
    <3>5. CASE SF!Described(c)
      BY <3>5, DescribedRemoves
    <3>6. QED
      BY <1>5, <3>1, <3>2, <3>3, <3>4, <3>5
  <2>4. QED
    BY <1>4, <2>1, <2>2, <2>3
<1>6. CASE SF!FrontRestart
  BY <1>6 DEF SF!FrontRestart, InTime
<1>7. CASE SF!Tick
  BY <1>7 DEF SF!Tick, InTime
<1>8. CASE UNCHANGED SF!stagedVars
  BY <1>8 DEF SF!stagedVars, InTime
<1>9. QED
  BY <1>1, <1>2, <1>3, <1>5, <1>6, <1>7, <1>8 DEF SF!Next, SF!Call

\* A sweep spares the directory of a call in flight.
LEMMA SweepsSpare ==
    ASSUME SF!TypeOK, InTime,
           NEW c \in Calls, todo[c] # {}, NEW d \in SF!InFlight, dirTime[d] # SF!Gone
    PROVE  ~(dirTime[d] < deadline[c])
  BY TimesAreTimes DEF SF!TypeOK, InTime, SF!InFlight, SF!Gone

LEMMA FilledStep ==
    ASSUME SF!TypeOK, InTime, Filled,
           [SF!Next]_(SF!stagedVars)
    PROVE  Filled'
<1> USE DEF SF!TypeOK, SF!diskVars, SF!sweepVars, SF!Goes, Young, Ready, SF!Over, SF!Gone
<1>1. ASSUME NEW c \in Calls, SF!Arrive(c) PROVE Filled'
  <2>1. PICK goal \in {"planned", "sweeping"} :
             at' = [at EXCEPT ![c] = goal] /\ (goal = "planned" <=> kind[c] = "plain")
    BY <1>1 DEF SF!Arrive
  <2>2. at[c] = "away" /\ UNCHANGED <<kind, working, saved, inside, dirTime>>
    BY <1>1 DEF SF!Arrive
  <2>3. QED
    BY <2>1, <2>2 DEF Filled
<1>2. ASSUME NEW c \in Calls, SF!pruneExpiredEntry(c) PROVE Filled'
  <2>1. PICK e \in todo[c] :
             /\ SF!Remove(IF SF!Expired(c, e) THEN {e} ELSE {})
             /\ UNCHANGED <<kind, at, working, saved>>
    BY <1>2 DEF SF!pruneExpiredEntry
  <2>2. ASSUME NEW d \in Calls, at[d] \notin SF!Over, dirTime[d] # SF!Gone
        PROVE  dirTime'[d] = dirTime[d] /\ inside'[d] = inside[d]
    BY <2>1, <2>2, PruneRemoves, SweepsSpare DEF SF!InFlight
  <2>3. \A d \in Calls : inside[d] = {} => inside'[d] = {}
    BY <2>1 DEF SF!Remove
  <2>4. \A d \in Calls : dirTime[d] = SF!Gone => dirTime'[d] = SF!Gone
    BY <2>1, PruneRemoves
  <2>5. ASSUME NEW d \in Calls
        PROVE  /\ at[d] \in Young \ {"planned"} => inside'[d] = {}
               /\ at[d] \in Young \ {"planned", "copying"} => dirTime'[d] = SF!Gone
               /\ at[d] \in Ready \cup {"copying"} /\ kind[d] # "plain" =>
                    dirTime'[d] = dirTime[d] /\ inside'[d] = inside[d]
    BY <2>2, <2>3, <2>4 DEF Filled
  <2>6. QED
    BY <2>1, <2>5 DEF Filled
<1>3. ASSUME NEW c \in Calls, SF!Swept(c) PROVE Filled'
  BY <1>3 DEF SF!Swept, Filled
<1>4. ASSUME NEW c \in Calls, SF!makeDirectory(c) PROVE Filled'
  <2>1. /\ at[c] = "planning" /\ UNCHANGED <<kind, working, saved, inside>>
        /\ saved[c] = {} /\ c \notin working /\ inside[c] = {}
    BY <1>4 DEF SF!makeDirectory, Filled
  <2>2. CASE at' = [at EXCEPT ![c] = "over"] /\ dirTime' = dirTime
    BY <2>1, <2>2 DEF Filled
  <2>3. now # SF!Gone /\ kind[c] \in {"audit", "upload"}
    BY TimesAreTimes, <2>1 DEF Filled
  <2>4. CASE /\ dirTime' = [dirTime EXCEPT ![c] = now]
             /\ kind[c] = "audit" /\ at' = [at EXCEPT ![c] = "planned"]
    BY <2>1, <2>3, <2>4 DEF Filled
  <2>5. CASE /\ dirTime' = [dirTime EXCEPT ![c] = now]
             /\ kind[c] # "audit" /\ at' = [at EXCEPT ![c] = "copying"]
    BY <2>1, <2>3, <2>5 DEF Filled
  <2>6. \/ at' = [at EXCEPT ![c] = "over"] /\ dirTime' = dirTime
        \/ /\ dirTime' = [dirTime EXCEPT ![c] = now]
           /\ at' = [at EXCEPT ![c] = IF kind[c] = "audit" THEN "planned" ELSE "copying"]
    BY <1>4, Zenon DEF SF!makeDirectory
  <2>7. CASE kind[c] = "audit"
    BY <2>2, <2>4, <2>6, <2>7
  <2>8. CASE kind[c] # "audit"
    BY <2>2, <2>5, <2>6, <2>8
  <2>9. QED
    BY <2>7, <2>8
<1>5. ASSUME NEW c \in Calls, SF!stageInputFile(c) PROVE Filled'
  <2>1. at[c] = "copying" /\ UNCHANGED <<kind, working, saved>> /\ kind[c] = "upload"
    BY <1>5 DEF SF!stageInputFile, Filled
  <2>2. CASE at' = [at EXCEPT ![c] = "over"] /\ SF!Remove({<<"directory", c>>})
    <3>1. /\ dirTime' = [dirTime EXCEPT ![c] = SF!Gone]
          /\ inside' = [inside EXCEPT ![c] = {}]
      BY <2>2, RemoveDirectory
    <3>2. QED
      BY <2>1, <2>2, <3>1 DEF Filled
  <2>3. CASE /\ at' = [at EXCEPT ![c] = "planned"]
             /\ inside' = [inside EXCEPT ![c] = {"copy"}]
             /\ dirTime' = [dirTime EXCEPT ![c] = now]
    <3>1. now # SF!Gone
      BY TimesAreTimes
    <3>2. QED
      BY <2>1, <2>3, <3>1 DEF Filled
  <2>4. QED
    BY <1>5, <2>2, <2>3 DEF SF!stageInputFile
<1>6. ASSUME NEW c \in Calls, SF!Send(c) PROVE Filled'
  BY <1>6 DEF SF!Send, Filled
<1>7. ASSUME NEW c \in Calls, SF!GivenUp(c) PROVE Filled'
  BY <1>7 DEF SF!GivenUp, Filled
<1>8. ASSUME NEW c \in Calls, NEW fine \in BOOLEAN, SF!ToolEnds(c, fine) PROVE Filled'
  <2>1. \A d \in Calls : at'[d] = at[d] \/ at'[d] \in {"describing", "settling"}
    BY <1>8 DEF SF!ToolEnds
  <2>2. working' \subseteq working /\ UNCHANGED <<kind, saved, inside, dirTime>>
    BY <1>8 DEF SF!ToolEnds
  <2>3. QED
    BY <2>1, <2>2 DEF Filled
<1>9. ASSUME NEW c \in Calls, NEW r \in SF!Reports, SF!saveFile(c, r) PROVE Filled'
  <2>1. c \in working /\ at[c] \notin Young /\ kind[c] = "audit"
    BY <1>9 DEF SF!saveFile, Filled
  <2>2. now # SF!Gone
    BY TimesAreTimes
  <2>3. /\ saved' = [saved EXCEPT ![c] = @ \cup {r}]
        /\ inside' = [inside EXCEPT ![c] = @ \cup {r}]
        /\ dirTime' = [dirTime EXCEPT ![c] = now]
        /\ UNCHANGED <<kind, at, working>>
    BY <1>9 DEF SF!saveFile
  <2>4. QED
    BY <2>1, <2>2, <2>3 DEF Filled
<1>10. ASSUME NEW c \in Calls, at[c] \notin Young \cup Ready, at'[c] \notin Young \cup Ready,
              UNCHANGED <<kind, working, saved>>,
              \A d \in Calls : d # c => /\ at'[d] = at[d] /\ inside'[d] = inside[d]
                                        /\ dirTime'[d] = dirTime[d]
       PROVE  Filled'
  BY <1>10 DEF Filled
<1>11. ASSUME NEW c \in Calls,
              \/ SF!Described(c) \/ SF!SendResult(c) \/ SF!ResultTooLarge(c) \/ SF!spillResult(c)
              \/ SF!settleLeftovers(c) \/ \E r \in SF!Reports : SF!takeReport(c, r)
       PROVE  Filled'
  <2>1. at[c] \notin Young \cup Ready /\ UNCHANGED <<kind, working, saved>>
    BY <1>11 DEF SF!Described, SF!SendResult, SF!ResultTooLarge, SF!spillResult, SF!settleLeftovers, SF!takeReport
  <2>2. at'[c] \notin Young \cup Ready /\ \A d \in Calls : d # c => at'[d] = at[d]
    BY <1>11 DEF SF!Described, SF!SendResult, SF!ResultTooLarge, SF!spillResult, SF!settleLeftovers, SF!takeReport
  <2>3. \A d \in Calls : d # c => inside'[d] = inside[d] /\ dirTime'[d] = dirTime[d]
    <3>1. CASE SF!Described(c)
      BY <3>1, DescribedRemoves
    <3>2. CASE SF!SendResult(c) \/ SF!settleLeftovers(c)
      BY <3>2, RemoveDirectory DEF SF!SendResult, SF!settleLeftovers, SF!conclude
    <3>3. CASE SF!ResultTooLarge(c) \/ SF!spillResult(c) \/ \E r \in SF!Reports : SF!takeReport(c, r)
      BY <3>3 DEF SF!ResultTooLarge, SF!spillResult, SF!takeReport
    <3>4. QED
      BY <1>11, <3>1, <3>2, <3>3
  <2>4. QED
    BY <1>10, <2>1, <2>2, <2>3
<1>12. CASE SF!FrontRestart
  BY <1>12 DEF SF!FrontRestart, SF!InFlight, Filled
<1>13. CASE SF!Tick \/ UNCHANGED SF!stagedVars
  BY <1>13 DEF SF!Tick, SF!stagedVars, Filled
<1>14. QED
  BY <1>1, <1>2, <1>3, <1>4, <1>5, <1>6, <1>7, <1>8, <1>9, <1>11, <1>12, <1>13
     DEF SF!Next, SF!Call

-----------------------------------------------------------------------------
(* What outlives its call *)

\* Only a daemon that was given up on works for a call that is over.
Strays ==
    \A c \in Calls :
        /\ c \in working => at[c] \in {"driving", "lost"} \/ c \in strayed
        /\ dirTime[c] # SF!Gone => at[c] # "over" \/ c \in strayed

LEMMA StraysStep ==
    ASSUME SF!TypeOK, Filled, Strays, [SF!Next]_(SF!stagedVars)
    PROVE  Strays'
<1> USE DEF SF!TypeOK, SF!diskVars, SF!sweepVars, SF!Goes, SF!Gone, Young
<1>1. ASSUME NEW c \in Calls,
             at'[c] # "over" \/ dirTime'[c] = SF!Gone \/ c \in strayed',
             c \in working' => at'[c] = "driving" \/ c \in strayed',
             \A d \in Calls : d # c => at'[d] = at[d] /\ (d \in working' => d \in working)
                                       /\ (dirTime'[d] = dirTime[d] \/ dirTime'[d] = SF!Gone),
             strayed \subseteq strayed'
      PROVE  Strays'
  BY <1>1 DEF Strays
<1>2. ASSUME NEW c \in Calls, SF!Arrive(c) PROVE Strays'
  <2>1. at'[c] # "over" /\ \A d \in Calls : d # c => at'[d] = at[d]
    BY <1>2 DEF SF!Arrive
  <2>2. c \notin working /\ UNCHANGED <<working, dirTime, strayed>>
    BY <1>2 DEF SF!Arrive, Filled
  <2>3. QED
    BY <1>1, <2>1, <2>2
<1>3. ASSUME NEW c \in Calls, SF!pruneExpiredEntry(c) PROVE Strays'
  <2>1. PICK e \in todo[c] :
             /\ SF!Remove(IF SF!Expired(c, e) THEN {e} ELSE {})
             /\ UNCHANGED <<at, working, strayed>>
    BY <1>3 DEF SF!pruneExpiredEntry
  <2>2. \A d \in Calls : dirTime'[d] = dirTime[d] \/ dirTime'[d] = SF!Gone
    BY <2>1, PruneRemoves
  <2>3. QED
    BY <2>1, <2>2 DEF Strays
<1>4. ASSUME NEW c \in Calls, SF!Swept(c) \/ SF!ResultTooLarge(c) PROVE Strays'
  <2>1. at[c] \notin {"driving", "lost"} /\ at'[c] # "over"
        /\ \A d \in Calls : d # c => at'[d] = at[d]
    BY <1>4 DEF SF!Swept, SF!ResultTooLarge
  <2>2. UNCHANGED <<working, dirTime, strayed>>
    BY <1>4 DEF SF!Swept, SF!ResultTooLarge
  <2>3. QED
    BY <1>1, <2>1, <2>2 DEF Strays
<1>5. ASSUME NEW c \in Calls, SF!makeDirectory(c) PROVE Strays'
  <2>1. at[c] = "planning" /\ UNCHANGED <<working, strayed>>
        /\ dirTime[c] = SF!Gone /\ c \notin working
    BY <1>5 DEF SF!makeDirectory, Filled
  <2>2. \A d \in Calls : d # c => at'[d] = at[d] /\ dirTime'[d] = dirTime[d]
    BY <1>5 DEF SF!makeDirectory
  <2>3. at'[c] # "over" \/ dirTime'[c] = SF!Gone
    BY <1>5, <2>1 DEF SF!makeDirectory
  <2>4. QED
    BY <1>1, <2>1, <2>2, <2>3
<1>6. ASSUME NEW c \in Calls, SF!stageInputFile(c) PROVE Strays'
  <2>1. at[c] = "copying" /\ c \notin working /\ UNCHANGED <<working, strayed>>
    BY <1>6 DEF SF!stageInputFile, Filled
  <2>2. CASE /\ at' = [at EXCEPT ![c] = "planned"]
             /\ dirTime' = [dirTime EXCEPT ![c] = now]
    BY <1>1, <2>1, <2>2
  <2>3. CASE at' = [at EXCEPT ![c] = "over"] /\ SF!Remove({<<"directory", c>>})
    <3>1. dirTime' = [dirTime EXCEPT ![c] = SF!Gone]
      BY <2>3, RemoveDirectory
    <3>2. QED
      BY <1>1, <2>1, <2>3, <3>1
  <2>4. QED
    BY <1>6, <2>2, <2>3 DEF SF!stageInputFile
<1>7. ASSUME NEW c \in Calls, SF!Send(c) PROVE Strays'
  BY <1>1, <1>7 DEF SF!Send
<1>8. ASSUME NEW c \in Calls, SF!GivenUp(c) PROVE Strays'
  BY <1>1, <1>8 DEF SF!GivenUp
<1>9. ASSUME NEW c \in Calls, NEW fine \in BOOLEAN, SF!ToolEnds(c, fine) PROVE Strays'
  <2>1. working' = working \ {c} /\ UNCHANGED <<dirTime, strayed>>
    BY <1>9 DEF SF!ToolEnds
  <2>2. at' = at \/ at' = [at EXCEPT ![c] = "describing"] \/ at' = [at EXCEPT ![c] = "settling"]
    BY <1>9 DEF SF!ToolEnds
  <2>3. QED
    BY <2>1, <2>2 DEF Strays
<1>10. ASSUME NEW c \in Calls, NEW r \in SF!Reports, SF!saveFile(c, r) PROVE Strays'
  <2>1. c \in working /\ UNCHANGED <<at, working, strayed>>
        /\ dirTime' = [dirTime EXCEPT ![c] = now]
    BY <1>10 DEF SF!saveFile
  <2>2. QED
    BY <2>1 DEF Strays
<1>11. ASSUME NEW c \in Calls, NEW r \in SF!Reports, SF!takeReport(c, r) PROVE Strays'
  <2>1. at[c] = "describing" /\ at'[c] # "over" /\ UNCHANGED <<working, strayed>>
    BY <1>11 DEF SF!takeReport
  <2>2. \A d \in Calls : d # c => at'[d] = at[d] /\ dirTime'[d] = dirTime[d]
    BY <1>11 DEF SF!takeReport
  <2>3. QED
    BY <1>1, <2>1, <2>2 DEF Strays
<1>12. ASSUME NEW c \in Calls, SF!Described(c) PROVE Strays'
  <2>1. at[c] = "describing" /\ at'[c] = "measuring" /\ UNCHANGED <<working, strayed>>
        /\ \A d \in Calls : d # c => at'[d] = at[d]
    BY <1>12 DEF SF!Described
  <2>2. QED
    BY <1>1, <1>12, <2>1, DescribedRemoves DEF Strays
<1>13. ASSUME NEW c \in Calls, SF!SendResult(c) \/ SF!settleLeftovers(c) \/ SF!spillResult(c)
       PROVE  Strays'
  <2>1. at[c] \notin {"driving", "lost"} /\ UNCHANGED <<working, strayed>>
        /\ \A d \in Calls : d # c => at'[d] = at[d]
    BY <1>13 DEF SF!SendResult, SF!settleLeftovers, SF!spillResult
  <2>2. dirTime' = [dirTime EXCEPT ![c] = SF!Gone]
    BY <1>13, RemoveDirectory DEF SF!SendResult, SF!settleLeftovers, SF!spillResult, SF!conclude
  <2>3. QED
    BY <1>1, <2>1, <2>2 DEF Strays
<1>14. CASE SF!FrontRestart
  BY <1>14 DEF SF!FrontRestart, SF!InFlight, SF!Over, Strays
<1>15. CASE SF!Tick \/ UNCHANGED SF!stagedVars
  BY <1>15 DEF SF!Tick, SF!stagedVars, Strays
<1>16. QED
  BY <1>2, <1>3, <1>4, <1>5, <1>6, <1>7, <1>8, <1>9, <1>10, <1>11, <1>12, <1>13, <1>14,
     <1>15 DEF SF!Next, SF!Call

\* An entry that a sweep has no longer to look at is younger than it goes by.
SweptUp ==
    \A c \in Calls :
        /\ at[c] \in {"planning", "spilling"} => todo[c] = {}
        /\ at[c] \in Sweeps =>
             /\ deadline[c] <= now
             /\ \A e \in SF!OnDrive \ todo[c] : SF!mtime(e) >= deadline[c]

\* Files come with the time of their coming, and go.
FilesComeNow ==
    \A d \in Calls : /\ dirTime'[d] \in {dirTime[d], now, SF!Gone}
                     /\ spillTime'[d] \in {spillTime[d], now, SF!Gone}

LEMMA EntriesComeNow ==
    ASSUME FilesComeNow, NEW e \in SF!Entries
    PROVE  SF!mtime(e)' \in {SF!mtime(e), now, SF!Gone}
  BY DEF FilesComeNow, SF!Entries, SF!mtime

LEMMA MtimeType ==
    ASSUME SF!TypeOK, NEW e \in SF!Entries
    PROVE  SF!mtime(e) \in Int
  BY DEF SF!TypeOK, SF!Entries, SF!mtime, SF!Gone

\* What a sweep has listed stays in order while files come and go.
LEMMA YoungerThanTheSweep ==
    ASSUME SF!TypeOK, FilesComeNow, SweptUp, NEW c \in Calls,
           at[c] \in Sweeps, UNCHANGED <<now, todo, deadline>>
    PROVE  \A e \in SF!OnDrive' \ todo[c] : SF!mtime(e)' >= deadline[c]
<1> SUFFICES ASSUME NEW e \in SF!OnDrive', e \notin todo[c]
             PROVE  SF!mtime(e)' >= deadline[c]
  OBVIOUS
<1>1. e \in SF!Entries /\ SF!mtime(e)' # SF!Gone
  BY DEF SF!OnDrive
<1>2. deadline[c] <= now /\ \A f \in SF!OnDrive \ todo[c] : SF!mtime(f) >= deadline[c]
  BY DEF SweptUp
<1>3. CASE SF!mtime(e)' = now
  BY TimesAreTimes, <1>2, <1>3 DEF SF!TypeOK
<1>4. CASE SF!mtime(e)' = SF!mtime(e)
  <2>1. e \in SF!OnDrive
    BY <1>1, <1>4 DEF SF!OnDrive
  <2>2. QED
    BY <1>2, <1>4, <2>1
<1>5. QED
  BY <1>1, <1>3, <1>4, EntriesComeNow

LEMMA SweptUpStep ==
    ASSUME SF!TypeOK, SweptUp, [SF!Next]_(SF!stagedVars)
    PROVE  SweptUp'
<1>1. ASSUME NEW c \in Calls, SF!listEntries(c), UNCHANGED <<now, dirTime, spillTime>>,
             at'[c] \notin {"planning", "spilling"},
             \A d \in Calls : d # c => at'[d] = at[d]
      PROVE  SweptUp'
  <2>1. /\ todo' = [todo EXCEPT ![c] = SF!OnDrive]
        /\ deadline' = [deadline EXCEPT ![c] = now - Retention]
    BY <1>1 DEF SF!listEntries
  <2>2. SF!OnDrive' = SF!OnDrive /\ \A e \in SF!Entries : SF!mtime(e)' = SF!mtime(e)
    BY <1>1 DEF SF!OnDrive, SF!mtime
  <2>3. todo'[c] = SF!OnDrive /\ deadline'[c] <= now
    BY TimesAreTimes, <2>1 DEF SF!TypeOK
  <2>4. \A d \in Calls : d # c => todo'[d] = todo[d] /\ deadline'[d] = deadline[d]
    BY <2>1 DEF SF!TypeOK
  <2>5. \A e \in SF!OnDrive : e \in SF!Entries
    BY DEF SF!OnDrive
  <2>6. QED
    BY <1>1, <2>2, <2>3, <2>4, <2>5 DEF SweptUp
<1>2. ASSUME NEW c \in Calls, SF!pruneExpiredEntry(c) PROVE SweptUp'
  <2>1. PICK e \in todo[c] :
             /\ todo' = [todo EXCEPT ![c] = @ \ {e}]
             /\ SF!Remove(IF SF!Expired(c, e) THEN {e} ELSE {})
             /\ UNCHANGED <<now, at, deadline>>
    BY <1>2 DEF SF!pruneExpiredEntry
  <2>2. e \in SF!Entries
    BY <2>1 DEF SF!TypeOK
  <2>3. \A f \in SF!OnDrive' : f \in SF!OnDrive /\ SF!mtime(f)' = SF!mtime(f)
    BY <2>1 DEF SF!Remove, SF!OnDrive, SF!Entries, SF!mtime, SF!Gone
  <2>4. e \in SF!OnDrive' => SF!mtime(e) >= deadline[c]
    <3>1. CASE SF!Expired(c, e)
      <4>1. SF!Remove({e})
        BY <2>1, <3>1
      <4>2. SF!mtime(e)' = SF!Gone
        BY <2>2, <4>1 DEF SF!Remove, SF!Entries, SF!mtime
      <4>3. QED
        BY <4>2 DEF SF!OnDrive
    <3>2. CASE ~SF!Expired(c, e)
      BY TimesAreTimes, <2>2, <3>2, MtimeType DEF SF!Expired, SF!TypeOK
    <3>3. QED
      BY <3>1, <3>2
  <2>5. todo'[c] = todo[c] \ {e} /\ \A d \in Calls : d # c => todo'[d] = todo[d]
    BY <2>1 DEF SF!TypeOK
  <2>6. QED
    BY <2>1, <2>3, <2>4, <2>5 DEF SweptUp
<1>3. ASSUME FilesComeNow, UNCHANGED <<now, todo, deadline>>,
             \A d \in Calls : at'[d] \in Sweeps => at[d] \in Sweeps,
             \A d \in Calls : at'[d] \in {"planning", "spilling"} =>
                                at[d] \in {"planning", "spilling"} \/ todo[d] = {}
      PROVE  SweptUp'
  <2>1. \A d \in Calls : at'[d] \in Sweeps =>
           \A e \in SF!OnDrive' \ todo[d] : SF!mtime(e)' >= deadline[d]
    BY <1>3, YoungerThanTheSweep
  <2>2. QED
    BY <1>3, <2>1 DEF SweptUp
<1>4. ASSUME NEW c \in Calls, SF!Arrive(c) PROVE SweptUp'
  <2>1. CASE kind[c] # "plain"
    <3>1. at' = [at EXCEPT ![c] = "sweeping"] /\ SF!listEntries(c)
          /\ UNCHANGED <<now, dirTime, spillTime>>
      BY <1>4, <2>1 DEF SF!Arrive, SF!Goes, SF!diskVars
    <3>2. QED
      BY <1>1, <3>1 DEF SF!TypeOK
  <2>2. CASE kind[c] = "plain"
    <3>1. at' = [at EXCEPT ![c] = "planned"]
          /\ UNCHANGED <<now, dirTime, spillTime, todo, deadline>>
      BY <1>4, <2>2 DEF SF!Arrive, SF!Goes, SF!diskVars, SF!sweepVars
    <3>2. FilesComeNow
      BY <3>1 DEF FilesComeNow
    <3>3. \A d \in Calls : d # c => at'[d] = at[d]
      BY <3>1 DEF SF!TypeOK
    <3>4. at'[c] = "planned"
      BY <3>1 DEF SF!TypeOK
    <3>5. QED
      BY <1>3, <3>1, <3>2, <3>3, <3>4 DEF Sweeps
  <2>3. QED
    BY <2>1, <2>2
<1>5. ASSUME NEW c \in Calls, SF!ResultTooLarge(c) PROVE SweptUp'
  <2>1. at' = [at EXCEPT ![c] = "sweeping again"] /\ SF!listEntries(c)
        /\ UNCHANGED <<now, dirTime, spillTime>>
    BY <1>5 DEF SF!ResultTooLarge, SF!Goes, SF!diskVars
  <2>2. QED
    BY <1>1, <2>1 DEF SF!TypeOK
<1>6. ASSUME NEW c \in Calls,
             \/ SF!Swept(c) \/ SF!makeDirectory(c) \/ SF!Send(c) \/ SF!GivenUp(c) \/ SF!SendResult(c)
             \/ SF!stageInputFile(c) \/ SF!Described(c) \/ SF!spillResult(c) \/ SF!settleLeftovers(c)
             \/ \E r \in SF!Reports : SF!takeReport(c, r) \/ SF!saveFile(c, r)
             \/ \E fine \in BOOLEAN : SF!ToolEnds(c, fine)
      PROVE  SweptUp'
  <2> USE DEF SF!TypeOK, SF!diskVars, SF!sweepVars, SF!Goes
  <2>1. UNCHANGED <<now, todo, deadline>>
    BY <1>6 DEF SF!Swept, SF!makeDirectory, SF!Send, SF!GivenUp, SF!SendResult, SF!stageInputFile, SF!Described,
       SF!spillResult, SF!settleLeftovers, SF!takeReport, SF!saveFile, SF!ToolEnds
  <2>2. FilesComeNow
    <3>1. CASE SF!Swept(c) \/ SF!Send(c) \/ SF!GivenUp(c) \/ \E fine \in BOOLEAN : SF!ToolEnds(c, fine)
      BY <3>1 DEF SF!Swept, SF!Send, SF!GivenUp, SF!ToolEnds, FilesComeNow
    <3>2. CASE SF!makeDirectory(c) \/ SF!spillResult(c)
               \/ \E r \in SF!Reports : SF!takeReport(c, r) \/ SF!saveFile(c, r)
      BY <3>2 DEF SF!makeDirectory, SF!spillResult, SF!takeReport, SF!saveFile, FilesComeNow
    <3>3. CASE SF!SendResult(c) \/ SF!settleLeftovers(c)
      BY <3>3, RemoveDirectory DEF SF!SendResult, SF!settleLeftovers, SF!conclude, FilesComeNow
    <3>4. CASE SF!stageInputFile(c)
      <4>1. \/ dirTime' = [dirTime EXCEPT ![c] = now] /\ UNCHANGED spillTime
            \/ SF!Remove({<<"directory", c>>})
        BY <3>4 DEF SF!stageInputFile
      <4>2. QED
        BY <4>1, RemoveDirectory DEF FilesComeNow
    <3>5. CASE SF!Described(c)
      BY <3>5, DescribedRemoves DEF FilesComeNow
    <3>6. QED
      BY <1>6, <3>1, <3>2, <3>3, <3>4, <3>5
  <2>3. \A d \in Calls : at'[d] \in Sweeps => at[d] \in Sweeps
    BY <1>6, ZenonT(60) DEF SF!Swept, SF!makeDirectory, SF!Send, SF!GivenUp, SF!SendResult, SF!stageInputFile, SF!Described,
       SF!spillResult, SF!settleLeftovers, SF!takeReport, SF!saveFile, SF!ToolEnds, Sweeps
  <2>4. \A d \in Calls : at'[d] \in {"planning", "spilling"} =>
                           at[d] \in {"planning", "spilling"} \/ todo[d] = {}
    BY <1>6 DEF SF!Swept, SF!makeDirectory, SF!Send, SF!GivenUp, SF!SendResult, SF!stageInputFile, SF!Described,
       SF!spillResult, SF!settleLeftovers, SF!takeReport, SF!saveFile, SF!ToolEnds
  <2>5. QED
    BY <1>3, <2>1, <2>2, <2>3, <2>4
<1>7. CASE SF!FrontRestart
  <2>1. \A d \in Calls : /\ at'[d] \in Sweeps => FALSE
                         /\ at'[d] \notin {"planning", "spilling"}
    BY <1>7 DEF SF!FrontRestart, SF!InFlight, SF!Over, Sweeps
  <2>2. QED
    BY <2>1 DEF SweptUp
<1>8. CASE SF!Tick
  <2>1. UNCHANGED <<at, todo, deadline, dirTime, spillTime>> /\ now' = now + 1
    BY <1>8 DEF SF!Tick, SF!diskVars, SF!sweepVars
  <2>2. SF!OnDrive' = SF!OnDrive /\ \A e \in SF!Entries : SF!mtime(e)' = SF!mtime(e)
    BY <2>1 DEF SF!OnDrive, SF!mtime
  <2>3. \A d \in Calls : at[d] \in Sweeps => deadline[d] <= now'
    BY TimesAreTimes, <2>1 DEF SweptUp, SF!TypeOK
  <2>4. QED
    BY <2>1, <2>2, <2>3 DEF SweptUp, SF!OnDrive
<1>9. CASE UNCHANGED SF!stagedVars
  <2>1. UNCHANGED <<now, at, todo, deadline, dirTime, spillTime>>
    BY <1>9 DEF SF!stagedVars, SF!diskVars, SF!sweepVars
  <2>2. SF!OnDrive' = SF!OnDrive /\ \A e \in SF!Entries : SF!mtime(e)' = SF!mtime(e)
    BY <2>1 DEF SF!OnDrive, SF!mtime
  <2>3. QED
    BY <2>1, <2>2 DEF SweptUp, SF!OnDrive
<1>10. QED
  BY <1>2, <1>4, <1>5, <1>6, <1>7, <1>8, <1>9 DEF SF!Next, SF!Call

-----------------------------------------------------------------------------
(* Reports *)

\* Nothing is out for a call before its answer is described, or once that failed.
NothingOutYet ==
    \A c \in Calls :
        /\ at[c] \in Young \cup {"driving", "settling"} => \A r \in SF!Reports : <<c, r>> \notin out
        /\ at[c] = "over" /\ (\E r \in SF!Reports : <<c, r>> \in out) => c \in told \cup unspilled

LEMMA NothingOutStep ==
    ASSUME SF!TypeOK, NothingOutYet, [SF!Next]_(SF!stagedVars)
    PROVE  NothingOutYet'
<1> USE DEF SF!TypeOK, SF!diskVars, SF!sweepVars, SF!Goes, Young
<1>1. ASSUME NEW c \in Calls,
             \/ SF!Arrive(c) \/ SF!Swept(c) \/ SF!makeDirectory(c) \/ SF!stageInputFile(c) \/ SF!Send(c)
             \/ SF!GivenUp(c)
      PROVE  NothingOutYet'
  <2>1. /\ at[c] \in Young \cup {"driving", "sweeping again"}
        /\ at[c] = "sweeping again" => at'[c] = "spilling"
        /\ \A d \in Calls : d # c => at'[d] = at[d]
        /\ UNCHANGED <<out, told, unspilled>>
    BY <1>1, ZenonT(60) DEF SF!Arrive, SF!Swept, SF!makeDirectory, SF!stageInputFile, SF!Send, SF!GivenUp
  <2>2. QED
    BY <2>1 DEF NothingOutYet
<1>2. ASSUME NEW c \in Calls,
             \/ SF!pruneExpiredEntry(c) \/ (\E r \in SF!Reports : SF!saveFile(c, r))
             \/ \E fine \in BOOLEAN : SF!ToolEnds(c, fine)
      PROVE  NothingOutYet'
  <2>1. UNCHANGED <<out, told, unspilled>>
    BY <1>2 DEF SF!pruneExpiredEntry, SF!saveFile, SF!ToolEnds
  <2>2. \A d \in Calls : at'[d] = at[d] \/ (at[d] = "driving" /\ at'[d] \in {"describing", "settling"})
    BY <1>2 DEF SF!pruneExpiredEntry, SF!saveFile, SF!ToolEnds
  <2>3. QED
    BY <2>1, <2>2 DEF NothingOutYet
<1>3. ASSUME NEW c \in Calls, NEW r \in SF!Reports, SF!takeReport(c, r) PROVE NothingOutYet'
  <2>1. at[c] = "describing" /\ UNCHANGED <<told, unspilled>>
        /\ \A d \in Calls : d # c => at'[d] = at[d]
    BY <1>3 DEF SF!takeReport
  <2>2. CASE out' = out \cup {<<c, r>>} /\ at' = at
    BY <2>1, <2>2 DEF NothingOutYet
  <2>3. CASE out' = out \ ({c} \X SF!Reports) /\ at' = [at EXCEPT ![c] = "settling"]
    BY <2>1, <2>3 DEF NothingOutYet
  <2>4. QED
    BY <1>3, <2>2, <2>3 DEF SF!takeReport
<1>4. ASSUME NEW c \in Calls, SF!Described(c) \/ SF!ResultTooLarge(c) PROVE NothingOutYet'
  <2>1. at'[c] \in {"measuring", "sweeping again"} /\ UNCHANGED <<out, told, unspilled>>
        /\ \A d \in Calls : d # c => at'[d] = at[d]
    BY <1>4 DEF SF!Described, SF!ResultTooLarge
  <2>2. QED
    BY <2>1 DEF NothingOutYet
<1>5. ASSUME NEW c \in Calls, SF!SendResult(c) \/ SF!spillResult(c) PROVE NothingOutYet'
  <2>1. at' = [at EXCEPT ![c] = "over"] /\ out' = out /\ c \in told' \cup unspilled'
        /\ told \subseteq told' /\ unspilled \subseteq unspilled'
    BY <1>5 DEF SF!SendResult, SF!spillResult
  <2>2. QED
    BY <2>1 DEF NothingOutYet
<1>6. ASSUME NEW c \in Calls, SF!settleLeftovers(c) PROVE NothingOutYet'
  <2>1. at[c] = "settling" /\ at' = [at EXCEPT ![c] = "over"]
        /\ UNCHANGED <<out, told, unspilled>>
    BY <1>6 DEF SF!settleLeftovers
  <2>2. QED
    BY <2>1 DEF NothingOutYet
<1>7. CASE SF!FrontRestart
  BY <1>7 DEF SF!FrontRestart, SF!InFlight, SF!Over, NothingOutYet
<1>8. CASE SF!Tick \/ UNCHANGED SF!stagedVars
  BY <1>8 DEF SF!Tick, SF!stagedVars, NothingOutYet
<1>9. QED
  BY <1>1, <1>2, <1>3, <1>4, <1>5, <1>6, <1>7, <1>8 DEF SF!Next, SF!Call

-----------------------------------------------------------------------------
(* The parts *)

FilesInv ==
    part = "files" =>
        SF!TypeOK /\ InTime /\ Filled /\ Strays /\ SweptUp /\ NothingOutYet

LEMMA FilesFirst == CallInit => FilesInv
<1> SUFFICES ASSUME CallInit, part = "files" PROVE FilesInv
  BY DEF FilesInv
<1>1. SF!Init
  BY DEF CallInit
<1>2. SF!TypeOK
  BY <1>1, TimesAreTimes DEF SF!Init, SF!TypeOK, SF!Stages, SF!Over, SF!Gone
<1>3. InTime /\ Filled /\ Strays /\ SweptUp /\ NothingOutYet
  BY <1>1 DEF SF!Init, InTime, Filled, Strays, SweptUp, NothingOutYet, SF!InFlight, SF!Over,
              Young, Ready, Sweeps, SF!Gone
<1>4. QED
  BY <1>2, <1>3 DEF FilesInv

LEMMA FilesStep == FilesInv /\ [CallNext]_vars => FilesInv'
<1> SUFFICES ASSUME FilesInv, [CallNext]_vars, part' = "files" PROVE FilesInv'
  BY DEF FilesInv
<1>1. part = "files" /\ [SF!Next]_(SF!stagedVars)
  <2>1. CASE CallNext
    BY <2>1 DEF CallNext
  <2>2. CASE UNCHANGED vars
    BY <2>2 DEF vars, SF!stagedVars, SF!diskVars, SF!sweepVars, now, kind, at, began, working,
       saved, inside, dirTime, out, spillTime, todo, deadline, told, strayed, unspilled
  <2>3. QED
    BY <2>1, <2>2
<1>2. SF!TypeOK /\ InTime /\ Filled /\ Strays /\ SweptUp /\ NothingOutYet
  BY <1>1 DEF FilesInv
<1>3. SF!TypeOK'
  BY <1>1, <1>2, FilesKeepTheirTypes
<1>4. InTime' /\ Filled'
  BY <1>1, <1>2, InTimeStep, FilledStep
<1>5. Strays'
  BY <1>1, <1>2, StraysStep
<1>6. SweptUp'
  BY <1>1, <1>2, SweptUpStep
<1>7. NothingOutYet'
  BY <1>1, <1>2, NothingOutStep
<1>8. QED
  BY <1>3, <1>4, <1>5, <1>6, <1>7 DEF FilesInv

\* No call loses its directory to another one's sweep, as long as a call's budget is
\* shorter than the retention; a directory without a call is one of a front that was
\* killed or of a daemon that wrote on, and no sweep leaves anything older than the
\* retention; and a report that was taken out of its directory is known to whoever
\* could remove it (pruneExpiredEntries, conclude, settleLeftoverFiles and
\* collectDirectoryFiles).
THEOREM FilesAreKeptToldOrSwept == CallSpec => []FilesAreToldOrSwept
<1>1. FilesInv => FilesAreToldOrSwept
  <2> SUFFICES ASSUME FilesInv, part = "files"
               PROVE  SF!DirectoriesInUseAreKept /\ SF!NothingStaysForGood /\ SF!ReportsAreTold
    BY DEF FilesAreToldOrSwept
  <2>1. SF!DirectoriesInUseAreKept
    BY DEF FilesInv, Filled, SF!DirectoriesInUseAreKept, Ready
  <2>2. SF!NothingStaysForGood
    BY DEF FilesInv, Strays, SweptUp, SF!NothingStaysForGood, Sweeps
  <2>3. SF!ReportsAreTold
    BY DEF FilesInv, NothingOutYet, SF!ReportsAreTold
  <2>4. QED
    BY <2>1, <2>2, <2>3
<1>2. QED
  BY <1>1, FilesFirst, FilesStep, PTL DEF CallSpec

BudgetsInv == part = "budgets" => BInv

LEMMA BudgetsPartFirst == CallInit => BudgetsInv
<1>1. ASSUME CallInit, part = "budgets" PROVE BU!Init
  BY <1>1 DEF CallInit
<1>2. QED
  BY <1>1, BudgetsFirst DEF BudgetsInv

LEMMA BudgetsPartStep == BudgetsInv /\ [CallNext]_vars => BudgetsInv'
<1> SUFFICES ASSUME BudgetsInv, [CallNext]_vars, part' = "budgets" PROVE BInv'
  BY DEF BudgetsInv
<1>1. part = "budgets" /\ [BU!Next]_(BU!budgetVars)
  <2>1. CASE CallNext
    BY <2>1 DEF CallNext
  <2>2. CASE UNCHANGED vars
    BY <2>2 DEF vars, BU!budgetVars, work, now, stage, attempt, socketAt, requestAt, mutexAt,
       todo, heard
  <2>3. QED
    BY <2>1, <2>2
<1>2. BInv
  BY <1>1 DEF BudgetsInv
<1>3. QED
  BY <1>1, <1>2, BudgetsKept

\* The margin of the budget (pacing.ts, BUDGET_SAFETY_FACTOR) covers what its terms
\* leave out, for any text, any number of fields, any wait and a handover of at most
\* five seconds: the front's own deadline ends only calls with a command nobody
\* answers, and forms at full speed whose waits for the page alone are longer than
\* the floor; and however often a call is sent, the request of the daemon never runs
\* out before the timers around it (innerBudgetMs).
THEOREM BudgetsAreNested == CallSpec => []BudgetsNest
<1>1. BudgetsInv => BudgetsNest
  BY DEF BudgetsInv, BInv, Heard, BudgetsNest, BU!WorkFitsTheBudget, BU!OuterTimersFireFirst,
         Excused
<1>2. QED
  BY <1>1, BudgetsPartFirst, BudgetsPartStep, PTL DEF CallSpec

-----------------------------------------------------------------------------
(* Telemetry *)

\* In the order the events were written in.
Ascending(s) == \A i, j \in DOMAIN s : i < j => s[i] < s[j]

\* All of one come before all of the other.
Before(s, t) == \A a \in ES!ToSet(s), b \in ES!ToSet(t) : a < b

LEMMA Together ==
    ASSUME NEW s \in Seq(Nat), NEW t \in Seq(Nat)
    PROVE  /\ s \o t \in Seq(Nat)
           /\ ES!ToSet(s \o t) = ES!ToSet(s) \cup ES!ToSet(t)
           /\ Ascending(s) /\ Ascending(t) /\ Before(s, t) => Ascending(s \o t)
<1>1. /\ s \o t \in Seq(Nat) /\ Len(s \o t) = Len(s) + Len(t) /\ Len(s) \in Nat /\ Len(t) \in Nat
      /\ DOMAIN s = 1..Len(s) /\ DOMAIN t = 1..Len(t) /\ DOMAIN (s \o t) = 1..(Len(s) + Len(t))
  OBVIOUS
<1>2. ASSUME NEW i \in 1..Len(s) PROVE i \in DOMAIN (s \o t) /\ (s \o t)[i] = s[i]
  BY <1>1
<1>3. ASSUME NEW i \in 1..Len(t)
      PROVE  Len(s) + i \in DOMAIN (s \o t) /\ (s \o t)[Len(s) + i] = t[i]
  BY <1>1
<1>4. ASSUME NEW i \in DOMAIN (s \o t)
      PROVE  \/ i \in DOMAIN s /\ (s \o t)[i] = s[i]
             \/ i - Len(s) \in DOMAIN t /\ i > Len(s) /\ (s \o t)[i] = t[i - Len(s)]
  <2>1. CASE i <= Len(s)
    BY <1>1, <2>1
  <2>2. CASE i > Len(s)
    BY <1>1, <2>2
  <2>3. QED
    BY <1>1, <2>1, <2>2
<1>5. ES!ToSet(s \o t) = ES!ToSet(s) \cup ES!ToSet(t)
  <2>1. ES!ToSet(s \o t) \subseteq ES!ToSet(s) \cup ES!ToSet(t)
    BY <1>4 DEF ES!ToSet
  <2>2. ES!ToSet(s) \subseteq ES!ToSet(s \o t)
    BY <1>1, <1>2 DEF ES!ToSet
  <2>3. ES!ToSet(t) \subseteq ES!ToSet(s \o t)
    BY <1>1, <1>3 DEF ES!ToSet
  <2>4. QED
    BY <2>1, <2>2, <2>3
<1>6. ASSUME Ascending(s), Ascending(t), Before(s, t),
             NEW i \in DOMAIN (s \o t), NEW j \in DOMAIN (s \o t), i < j
      PROVE  (s \o t)[i] < (s \o t)[j]
  <2>1. CASE i \in DOMAIN s /\ j \in DOMAIN s
    BY <1>1, <1>2, <1>6, <2>1 DEF Ascending
  <2>2. CASE i \in DOMAIN s /\ j \notin DOMAIN s
    <3>1. s[i] \in ES!ToSet(s) /\ (s \o t)[i] = s[i]
      BY <1>1, <1>2, <2>2 DEF ES!ToSet
    <3>2. (s \o t)[j] \in ES!ToSet(t)
      BY <1>4, <2>2 DEF ES!ToSet
    <3>3. QED
      BY <1>6, <3>1, <3>2 DEF Before
  <2>3. CASE i \notin DOMAIN s
    <3>1. /\ i - Len(s) \in DOMAIN t /\ (s \o t)[i] = t[i - Len(s)]
          /\ j \notin DOMAIN s
      BY <1>1, <1>4, <1>6, <2>3
    <3>2. j - Len(s) \in DOMAIN t /\ (s \o t)[j] = t[j - Len(s)]
      BY <1>4, <3>1
    <3>3. i - Len(s) < j - Len(s)
      BY <1>1, <1>6
    <3>4. QED
      BY <1>6, <3>1, <3>2, <3>3 DEF Ascending
  <2>4. QED
    BY <2>1, <2>2, <2>3
<1>7. QED
  BY <1>1, <1>5, <1>6 DEF Ascending

LEMMA OneBehind ==
    ASSUME NEW s \in Seq(Nat), NEW e \in Nat
    PROVE  /\ Append(s, e) \in Seq(Nat) /\ Append(s, e) # <<>>
           /\ ES!ToSet(Append(s, e)) = ES!ToSet(s) \cup {e}
           /\ Ascending(s) /\ (\A a \in ES!ToSet(s) : a < e) => Ascending(Append(s, e))
<1>1. /\ <<e>> \in Seq(Nat) /\ Append(s, e) = s \o <<e>> /\ ES!ToSet(<<e>>) = {e}
      /\ Ascending(<<e>>)
  <2>1. DOMAIN <<e>> = {1} /\ <<e>>[1] = e
    OBVIOUS
  <2>2. ES!ToSet(<<e>>) = {e} /\ Ascending(<<e>>)
    BY <2>1 DEF ES!ToSet, Ascending
  <2>3. Append(s, e) = s \o <<e>>
    OBVIOUS
  <2>4. QED
    BY <2>2, <2>3
<1>2. (\A a \in ES!ToSet(s) : a < e) => Before(s, <<e>>)
  BY <1>1 DEF Before
<1>3. /\ s \o <<e>> \in Seq(Nat)
      /\ ES!ToSet(s \o <<e>>) = ES!ToSet(s) \cup ES!ToSet(<<e>>)
      /\ Ascending(s) /\ Ascending(<<e>>) /\ Before(s, <<e>>) => Ascending(s \o <<e>>)
  BY <1>1, Together
<1>4. Append(s, e) # <<>>
  OBVIOUS
<1>5. QED
  BY <1>1, <1>2, <1>3, <1>4, Zenon

LEMMA FirstGone ==
    ASSUME NEW s \in Seq(Nat), s # <<>>
    PROVE  /\ Tail(s) \in Seq(Nat) /\ Head(s) \in Nat
           /\ ES!ToSet(s) = {Head(s)} \cup ES!ToSet(Tail(s))
           /\ Ascending(s) => /\ Ascending(Tail(s))
                              /\ \A b \in ES!ToSet(Tail(s)) : Head(s) < b
<1>1. /\ Tail(s) \in Seq(Nat) /\ Head(s) = s[1] /\ Len(s) \in Nat /\ Len(s) >= 1
      /\ Len(Tail(s)) = Len(s) - 1 /\ DOMAIN s = 1..Len(s) /\ DOMAIN Tail(s) = 1..(Len(s) - 1)
      /\ Head(s) \in Nat
  OBVIOUS
<1>2. ASSUME NEW i \in 1..(Len(s) - 1)
      PROVE  Tail(s)[i] = s[i + 1] /\ i + 1 \in DOMAIN s /\ i + 1 > 1
  BY <1>1
<1>3. ES!ToSet(s) = {Head(s)} \cup ES!ToSet(Tail(s))
  <2>1. ASSUME NEW i \in DOMAIN s PROVE s[i] \in {Head(s)} \cup ES!ToSet(Tail(s))
    <3>1. CASE i = 1
      BY <1>1, <3>1
    <3>2. CASE i # 1
      <4>1. i - 1 \in 1..(Len(s) - 1) /\ (i - 1) + 1 = i
        BY <1>1, <3>2
      <4>2. Tail(s)[i - 1] = s[i] /\ i - 1 \in DOMAIN Tail(s)
        BY <1>1, <1>2, <4>1
      <4>3. QED
        BY <4>2 DEF ES!ToSet
    <3>3. QED
      BY <3>1, <3>2
  <2>2. ES!ToSet(Tail(s)) \subseteq ES!ToSet(s)
    BY <1>1, <1>2 DEF ES!ToSet
  <2>3. Head(s) \in ES!ToSet(s)
    BY <1>1 DEF ES!ToSet
  <2>4. QED
    BY <2>1, <2>2, <2>3 DEF ES!ToSet
<1>4. Ascending(s) => Ascending(Tail(s))
  BY <1>1, <1>2 DEF Ascending
<1>5. Ascending(s) => \A b \in ES!ToSet(Tail(s)) : Head(s) < b
  BY <1>1, <1>2 DEF Ascending, ES!ToSet
<1>6. QED
  BY <1>1, <1>3, <1>4, <1>5

LEMMA NoneAtAll == ES!ToSet(<<>>) = {} /\ Ascending(<<>>) /\ <<>> \in Seq(Nat)
BY DEF ES!ToSet, Ascending

\* The batches are numbers of events, a request is under way when one is set, and a
\* watchdog that ends sends what it had in the buffer.
EventStages ==
    /\ pipe \in Seq(Nat) /\ buffer \in Seq(Nat) /\ flight \in Seq(Nat) /\ final \in Seq(Nat)
    /\ written \in Nat
    /\ isFlushing \in BOOLEAN /\ (isFlushing <=> flight # <<>>)
    /\ watchdog \in {"up", "closing", "gone", "unborn"}
    /\ watchdog = "up" => final = <<>>
    /\ watchdog = "closing" => pipe = <<>> /\ final # <<>> /\ (isFlushing => buffer = final)
    /\ watchdog \in {"gone", "unborn"} =>
          pipe = <<>> /\ buffer = <<>> /\ flight = <<>> /\ final = <<>>

\* Nothing is told of an event that is not written.
EventNumbers ==
    /\ ES!InHand \subseteq 1..written /\ accepted \subseteq 1..written
    /\ twice \subseteq accepted

\* From the request under way over the buffer to the pipe events get later.
EventOrder ==
    /\ Ascending(flight) /\ Ascending(buffer) /\ Ascending(final) /\ Ascending(pipe)
    /\ Before(flight, buffer) /\ Before(flight, final) /\ Before(flight, pipe)
    /\ Before(buffer, pipe)

EventsInv ==
    EventStages /\ EventNumbers /\ EventOrder /\ ES!EventsAreAccounted

LEMMA EventsFirst == ES!Init => EventsInv
<1> SUFFICES ASSUME ES!Init PROVE EventsInv
  OBVIOUS
<1>1. EventStages
  <2>1. /\ pipe = <<>> /\ buffer = <<>> /\ flight = <<>> /\ final = <<>>
        /\ written = 0 /\ isFlushing = FALSE /\ watchdog \in {"up", "unborn"}
    BY DEF ES!Init
  <2>2. <<>> \in Seq(Nat) /\ written \in Nat /\ isFlushing \in BOOLEAN
    BY <2>1, NoneAtAll
  <2>3. (isFlushing <=> flight # <<>>) /\ watchdog # "closing"
    BY <2>1
  <2>4. QED
    BY <2>1, <2>2, <2>3 DEF EventStages
<1>2. ES!InHand = {} /\ accepted = {} /\ twice = {} /\ written = 0
  BY NoneAtAll DEF ES!Init, ES!InHand
<1>3. EventNumbers
  BY <1>2 DEF EventNumbers
<1>4. EventOrder
  BY NoneAtAll DEF ES!Init, EventOrder, Before
<1>5. ES!EventsAreAccounted
  BY <1>2 DEF ES!EventsAreAccounted
<1>6. QED
  BY <1>1, <1>3, <1>4, <1>5 DEF EventsInv

LEMMA Logged ==
    ASSUME EventsInv, ES!logs
    PROVE  EventsInv'
<1>1. /\ written' = written + 1
      /\ UNCHANGED <<server, watchdog, buffer, flight, isFlushing, final, accepted, twice, unsure>>
  BY DEF ES!logs, ES!senderVars
<1>2. written \in Nat /\ written + 1 \in Nat
  BY DEF EventsInv, EventStages
<1>3. CASE watchdog = "up" /\ pipe' = Append(pipe, written + 1) /\ dropped' = dropped
  <2>1. pipe \in Seq(Nat) /\ ES!InHand \subseteq 1..written /\ ES!ToSet(pipe) \subseteq ES!InHand
    BY DEF EventsInv, EventStages, EventNumbers, ES!InHand
  <2>2. \A a \in ES!ToSet(pipe) : a < written + 1
    <3>1. \A a \in 1..written : a < written + 1
      BY <1>2
    <3>2. QED
      BY <2>1, <3>1
  <2>3. /\ pipe' \in Seq(Nat) /\ ES!ToSet(pipe') = ES!ToSet(pipe) \cup {written + 1}
        /\ Ascending(pipe) => Ascending(pipe')
    BY <1>2, <1>3, <2>1, <2>2, OneBehind
  <2>4. ES!InHand' = ES!InHand \cup {written + 1}
    BY <1>1, <2>3 DEF ES!InHand
  <2>5. EventStages'
    BY <1>1, <1>2, <1>3, <2>3 DEF EventsInv, EventStages
  <2>6. EventNumbers'
    BY <1>1, <1>2, <2>4 DEF EventsInv, EventNumbers
  <2>7. \A a \in ES!ToSet(flight) \cup ES!ToSet(buffer) : a < written + 1
    BY <1>2, <2>1 DEF ES!InHand
  <2>8. EventOrder'
    BY <1>1, <2>3, <2>7 DEF EventsInv, EventOrder, Before
  <2>9. ES!EventsAreAccounted'
    <3>1. written + 1 \notin accepted
      BY <1>2 DEF EventsInv, EventNumbers
    <3>2. twice \subseteq accepted
      BY DEF EventsInv, EventNumbers
    <3>3. \A e \in 1..(written + 1) : e \in 1..written \/ e = written + 1
      BY <1>2
    <3>4. QED
      BY <1>1, <1>3, <2>4, <3>1, <3>2, <3>3 DEF EventsInv, ES!EventsAreAccounted
  <2>10. QED
    BY <2>5, <2>6, <2>8, <2>9 DEF EventsInv
<1>4. CASE watchdog # "up" /\ pipe' = pipe /\ dropped' = dropped \cup {written + 1}
  <2>1. ES!InHand' = ES!InHand
    BY <1>1, <1>4 DEF ES!InHand
  <2>2. EventStages'
    BY <1>1, <1>2, <1>4 DEF EventsInv, EventStages
  <2>3. EventNumbers'
    BY <1>1, <1>2, <2>1 DEF EventsInv, EventNumbers
  <2>4. EventOrder'
    BY <1>1, <1>4 DEF EventsInv, EventOrder, Before
  <2>5. ES!EventsAreAccounted'
    <3>1. written + 1 \notin accepted
      BY <1>2 DEF EventsInv, EventNumbers
    <3>2. twice \subseteq accepted
      BY DEF EventsInv, EventNumbers
    <3>3. \A e \in 1..(written + 1) : e \in 1..written \/ e = written + 1
      BY <1>2
    <3>4. QED
      BY <1>1, <1>4, <2>1, <3>1, <3>2, <3>3 DEF EventsInv, ES!EventsAreAccounted
  <2>6. QED
    BY <2>2, <2>3, <2>4, <2>5 DEF EventsInv
<1>5. QED
  BY <1>3, <1>4 DEF ES!logs

\* The buffer takes one more event, the latest there is in it.
LEMMA Buffered ==
    ASSUME EventsInv, NEW e \in Nat, ES!addToBuffer(e), \A a \in ES!ToSet(buffer) : a < e
    PROVE  /\ buffer' \in Seq(Nat) /\ buffer' # <<>> /\ Ascending(buffer')
           /\ ES!ToSet(buffer') \subseteq ES!ToSet(buffer) \cup {e}
           /\ ES!ToSet(buffer) \cup {e} \cup dropped \subseteq ES!ToSet(buffer') \cup dropped'
<1>1. buffer \in Seq(Nat) /\ Ascending(buffer)
  BY DEF EventsInv, EventStages, EventOrder
<1>2. CASE Len(buffer) >= MaxBuffer
  <2>1. buffer' = Append(Tail(buffer), e) /\ dropped' = dropped \cup {Head(buffer)}
    BY <1>2 DEF ES!addToBuffer
  <2>2. buffer # <<>>
    BY <1>1, <1>2, BufferHasRoom
  <2>3. /\ Tail(buffer) \in Seq(Nat) /\ Ascending(Tail(buffer))
        /\ ES!ToSet(buffer) = {Head(buffer)} \cup ES!ToSet(Tail(buffer))
    BY <1>1, <2>2, FirstGone
  <2>4. /\ Append(Tail(buffer), e) \in Seq(Nat) /\ Append(Tail(buffer), e) # <<>>
        /\ ES!ToSet(Append(Tail(buffer), e)) = ES!ToSet(Tail(buffer)) \cup {e}
        /\ Ascending(Append(Tail(buffer), e))
    BY <2>3, OneBehind
  <2>5. QED
    BY <2>1, <2>3, <2>4
<1>3. CASE ~(Len(buffer) >= MaxBuffer)
  <2>1. buffer' = Append(buffer, e) /\ dropped' = dropped
    BY <1>3 DEF ES!addToBuffer
  <2>2. QED
    BY <1>1, <2>1, OneBehind
<1>4. QED
  BY <1>2, <1>3

LEMMA LineRead ==
    ASSUME EventsInv, ES!onLine
    PROVE  EventsInv'
<1> DEFINE e == Head(pipe)
<1>1. /\ watchdog = "up" /\ pipe # <<>> /\ pipe' = Tail(pipe) /\ ES!addToBuffer(e)
      /\ UNCHANGED <<watchdog, written, flight, isFlushing, final, accepted, twice, unsure>>
  BY DEF ES!onLine, ES!enqueueEvent
<1>2. pipe \in Seq(Nat) /\ Ascending(pipe) /\ written \in Nat
  BY DEF EventsInv, EventStages, EventOrder
<1>3. /\ Tail(pipe) \in Seq(Nat) /\ e \in Nat /\ ES!ToSet(pipe) = {e} \cup ES!ToSet(Tail(pipe))
      /\ Ascending(Tail(pipe)) /\ \A b \in ES!ToSet(Tail(pipe)) : e < b
  BY <1>1, <1>2, FirstGone
<1>4. \A a \in ES!ToSet(buffer) \cup ES!ToSet(flight) : a < e
  BY <1>3 DEF EventsInv, EventOrder, Before
<1> HIDE DEF e
<1>5. /\ buffer' \in Seq(Nat) /\ buffer' # <<>> /\ Ascending(buffer')
      /\ ES!ToSet(buffer') \subseteq ES!ToSet(buffer) \cup {e}
      /\ ES!ToSet(buffer) \cup {e} \cup dropped \subseteq ES!ToSet(buffer') \cup dropped'
  BY <1>1, <1>3, <1>4, Buffered
<1>6. /\ ES!InHand' \subseteq ES!InHand
      /\ ES!InHand \cup dropped \subseteq ES!InHand' \cup dropped'
  BY <1>1, <1>3, <1>5 DEF ES!InHand
<1>7. EventStages'
  BY <1>1, <1>2, <1>3, <1>5 DEF EventsInv, EventStages
<1>8. EventNumbers'
  BY <1>1, <1>6 DEF EventsInv, EventNumbers
<1>9. EventOrder'
  <2>1. Before(buffer, pipe) /\ Before(flight, pipe) /\ Before(flight, buffer)
    BY DEF EventsInv, EventOrder
  <2>2. Before(buffer', pipe')
    BY <1>1, <1>3, <1>5, <2>1 DEF Before
  <2>3. Before(flight', buffer') /\ Before(flight', pipe')
    BY <1>1, <1>3, <1>4, <1>5, <2>1 DEF Before
  <2>4. QED
    BY <1>1, <1>3, <1>5, <2>2, <2>3 DEF EventsInv, EventOrder, Before
<1>10. ES!EventsAreAccounted'
  BY <1>1, <1>6 DEF EventsInv, ES!EventsAreAccounted
<1>11. QED
  BY <1>7, <1>8, <1>9, <1>10 DEF EventsInv

LEMMA Flushed ==
    ASSUME EventsInv, ES!flush
    PROVE  EventsInv'
<1>1. /\ watchdog = "up"
      /\ UNCHANGED <<pipe, watchdog, written, final, accepted, twice, dropped, unsure>>
  BY DEF ES!flush
<1>2. CASE isFlushing
  <2>1. UNCHANGED <<flight, isFlushing, buffer>>
    BY <1>2 DEF ES!flush
  <2>2. ES!InHand' = ES!InHand
    BY <1>1, <2>1 DEF ES!InHand
  <2>3. QED
    BY <1>1, <2>1, <2>2
    DEF EventsInv, EventStages, EventNumbers, EventOrder, Before, ES!EventsAreAccounted
<1>3. CASE ~isFlushing
  <2>1. flight' = buffer /\ isFlushing' = (buffer # <<>>) /\ buffer' = <<>>
    BY <1>3 DEF ES!flush
  <2>2. flight = <<>> /\ final = <<>> /\ ES!ToSet(<<>>) = {} /\ Ascending(<<>>) /\ <<>> \in Seq(Nat)
    BY <1>1, <1>3, NoneAtAll DEF EventsInv, EventStages
  <2>3. ES!InHand' = ES!InHand
    BY <1>1, <2>1, <2>2 DEF ES!InHand
  <2>4. EventStages'
    BY <1>1, <2>1, <2>2 DEF EventsInv, EventStages
  <2>5. EventOrder'
    BY <1>1, <2>1, <2>2 DEF EventsInv, EventOrder, Before
  <2>6. QED
    BY <1>1, <2>3, <2>4, <2>5 DEF EventsInv, EventNumbers, ES!EventsAreAccounted
<1>4. QED
  BY <1>2, <1>3 DEF EventsInv, EventStages

\* A request is over.  What was accepted is in no other place, what is sent again
\* stands in front of what came meanwhile.
LEMMA FlushEnded ==
    ASSUME EventsInv, NEW answer \in {"accepted", "refused", "failed", "lost"},
           ES!flushEnds(answer)
    PROVE  EventsInv'
<1> DEFINE sent == ES!ToSet(flight)
<1>1. /\ watchdog \in {"up", "closing"} /\ isFlushing /\ isFlushing' = FALSE /\ flight' = <<>>
      /\ UNCHANGED <<pipe, watchdog, written, final>>
  BY DEF ES!flushEnds
<1>2. /\ accepted' = (IF answer \in {"accepted", "lost"} THEN accepted \cup sent ELSE accepted)
      /\ twice' = (IF answer \in {"accepted", "lost"} THEN twice \cup (accepted \cap sent) ELSE twice)
      /\ unsure' = (IF answer = "lost" THEN unsure \cup sent ELSE unsure)
      /\ dropped' = (IF answer = "refused" THEN dropped \cup sent ELSE dropped)
      /\ buffer' = (IF answer \in {"failed", "lost"} THEN flight \o buffer ELSE buffer)
  BY DEF ES!flushEnds, ES!Accepted
<1>3. /\ flight \in Seq(Nat) /\ buffer \in Seq(Nat) /\ pipe \in Seq(Nat)
      /\ Ascending(flight) /\ Ascending(buffer) /\ Before(flight, buffer)
      /\ Before(flight, pipe) /\ Before(buffer, pipe) /\ Before(flight, final)
  BY DEF EventsInv, EventStages, EventOrder
<1>4. /\ flight \o buffer \in Seq(Nat)
      /\ ES!ToSet(flight \o buffer) = sent \cup ES!ToSet(buffer)
      /\ Ascending(flight \o buffer)
  BY <1>3, Together
<1>5. ES!ToSet(<<>>) = {} /\ Ascending(<<>>) /\ <<>> \in Seq(Nat)
  BY NoneAtAll
<1>6. /\ ES!InHand = ES!ToSet(pipe) \cup sent \cup ES!ToSet(buffer) \cup ES!ToSet(final)
      /\ ES!InHand' = ES!ToSet(pipe) \cup ES!ToSet(buffer) \cup ES!ToSet(final)
                      \cup (IF answer \in {"failed", "lost"} THEN sent ELSE {})
  BY <1>1, <1>2, <1>4, <1>5 DEF ES!InHand
<1>7. sent \subseteq Nat
  BY <1>3 DEF ES!ToSet
<1>8. \A e \in sent : e \notin ES!ToSet(pipe) \cup ES!ToSet(buffer) \cup ES!ToSet(final)
  BY <1>3, <1>7 DEF Before
<1>9. EventStages'
  BY <1>1, <1>2, <1>3, <1>4, <1>5 DEF EventsInv, EventStages
<1> HIDE DEF sent
<1>10. EventNumbers'
  <2>1. /\ ES!InHand \subseteq 1..written /\ accepted \subseteq 1..written /\ twice \subseteq accepted
    BY DEF EventsInv, EventNumbers
  <2>2. ES!InHand' \subseteq 1..written /\ accepted' \subseteq 1..written /\ twice' \subseteq accepted'
    BY <1>2, <1>6, <2>1
  <2>3. QED
    BY <1>1, <2>2 DEF EventNumbers
<1>11. EventOrder'
  <2>1. buffer' = buffer \/ buffer' = flight \o buffer
    BY <1>2
  <2>2. Ascending(buffer') /\ ES!ToSet(buffer') \subseteq sent \cup ES!ToSet(buffer)
    BY <1>3, <1>4, <2>1
  <2>3. Before(buffer', pipe')
    BY <1>1, <1>3, <2>2 DEF Before, sent
  <2>4. QED
    BY <1>1, <1>5, <2>2, <2>3 DEF EventsInv, EventOrder, Before
<1>12. ES!EventsAreAccounted'
  <2>1. ASSUME NEW e \in 1..written
        PROVE  /\ e \in accepted' \cup dropped' \cup ES!InHand'
               /\ e \in twice' \cup (accepted' \cap ES!InHand') => e \in unsure'
    <3>1. /\ e \in accepted \cup dropped \cup ES!InHand
          /\ e \in twice \cup (accepted \cap ES!InHand) => e \in unsure
      BY <1>1, <2>1 DEF EventsInv, ES!EventsAreAccounted
    <3>2. CASE answer = "accepted"
      BY <1>2, <1>6, <1>8, <3>1, <3>2
    <3>3. CASE answer = "lost"
      BY <1>2, <1>6, <1>8, <3>1, <3>3
    <3>4. CASE answer \in {"failed", "refused"}
      BY <1>2, <1>6, <1>8, <3>1, <3>4
    <3>5. QED
      BY <3>2, <3>3, <3>4
  <2>2. QED
    BY <1>1, <2>1 DEF ES!EventsAreAccounted
<1>13. QED
  BY <1>9, <1>10, <1>11, <1>12 DEF EventsInv

LEMMA ParentDied ==
    ASSUME EventsInv, ES!onParentDeath
    PROVE  EventsInv'
<1> DEFINE e == written + 1
<1>1. /\ watchdog = "up" /\ pipe = <<>> /\ watchdog' = "closing" /\ written' = e
      /\ ES!addToBuffer(e) /\ final' = buffer'
      /\ UNCHANGED <<pipe, flight, isFlushing, accepted, twice, unsure>>
  BY DEF ES!onParentDeath, ES!enqueueEvent
<1>2. /\ e \in Nat /\ written \in Nat /\ ES!InHand \subseteq 1..written
      /\ accepted \subseteq 1..written /\ twice \subseteq accepted /\ final = <<>>
  BY <1>1 DEF EventsInv, EventStages, EventNumbers
<1>3. \A a \in ES!InHand : a < e
  BY <1>2
<1>4. \A a \in ES!ToSet(buffer) \cup ES!ToSet(flight) : a < e
  BY <1>3 DEF ES!InHand
<1>5. e \notin accepted /\ e \in 1..e /\ 1..written \subseteq 1..e
      /\ \A a \in 1..e : a \in 1..written \/ a = e
  BY <1>2
<1> HIDE DEF e
<1>6. /\ buffer' \in Seq(Nat) /\ buffer' # <<>> /\ Ascending(buffer')
      /\ ES!ToSet(buffer') \subseteq ES!ToSet(buffer) \cup {e}
      /\ ES!ToSet(buffer) \cup {e} \cup dropped \subseteq ES!ToSet(buffer') \cup dropped'
  BY <1>1, <1>2, <1>4, Buffered
<1>7. ES!ToSet(<<>>) = {}
  BY NoneAtAll
<1>8. /\ ES!InHand' \subseteq ES!InHand \cup {e}
      /\ ES!InHand \cup {e} \cup dropped \subseteq ES!InHand' \cup dropped'
  BY <1>1, <1>2, <1>6, <1>7 DEF ES!InHand
<1>9. EventStages'
  BY <1>1, <1>2, <1>6 DEF EventsInv, EventStages
<1>10. EventNumbers'
  BY <1>1, <1>2, <1>5, <1>8 DEF EventNumbers
<1>11. EventOrder'
  <2>1. Before(flight, buffer')
    BY <1>4, <1>6 DEF EventsInv, EventOrder, Before
  <2>2. QED
    BY <1>1, <1>6, <1>7, <2>1 DEF EventsInv, EventOrder, Before
<1>12. ES!EventsAreAccounted'
  BY <1>1, <1>2, <1>5, <1>8 DEF EventsInv, ES!EventsAreAccounted
<1>13. QED
  BY <1>9, <1>10, <1>11, <1>12 DEF EventsInv

\* Nobody is left to lose anything.
LEMMA WatchdogGone ==
    ASSUME EventsInv, ES!WatchdogDies \/ \E answer \in {"accepted", "failed"} : ES!Exits(answer)
    PROVE  EventsInv'
<1>1. /\ watchdog' = "gone" /\ pipe' = <<>> /\ buffer' = <<>> /\ flight' = <<>> /\ final' = <<>>
      /\ isFlushing' = FALSE /\ written' = written
      /\ \/ UNCHANGED <<accepted, twice>>
         \/ /\ accepted' = accepted \cup ES!ToSet(final)
            /\ twice' = twice \cup (accepted \cap ES!ToSet(final))
  BY DEF EventsInv, EventStages, ES!WatchdogDies, ES!Exits, ES!Accepted
<1>2. ES!ToSet(<<>>) = {} /\ Ascending(<<>>) /\ <<>> \in Seq(Nat)
  BY NoneAtAll
<1>3. ES!InHand' = {}
  BY <1>1, <1>2 DEF ES!InHand
<1>4. EventStages'
  BY <1>1, <1>2 DEF EventsInv, EventStages
<1>5. EventNumbers'
  BY <1>1, <1>3 DEF EventsInv, EventNumbers, ES!InHand
<1>6. EventOrder'
  BY <1>1, <1>2 DEF EventOrder, Before
<1>7. ES!EventsAreAccounted'
  BY <1>1 DEF ES!EventsAreAccounted
<1>8. QED
  BY <1>4, <1>5, <1>6, <1>7 DEF EventsInv

LEMMA EventsStep == EventsInv /\ [ES!Next]_(ES!telemetryVars) => EventsInv'
<1> SUFFICES ASSUME EventsInv, [ES!Next]_(ES!telemetryVars) PROVE EventsInv'
  OBVIOUS
<1>1. CASE ES!Next
  <2>1. CASE ES!ServerEnds
    BY <2>1 DEF ES!ServerEnds, ES!senderVars, EventsInv, EventStages, EventNumbers, EventOrder,
         Before, ES!EventsAreAccounted, ES!InHand
  <2>2. QED
    BY <1>1, <2>1, Logged, LineRead, Flushed, FlushEnded, ParentDied, WatchdogGone DEF ES!Next
<1>2. CASE UNCHANGED ES!telemetryVars
  BY <1>2 DEF ES!telemetryVars, ES!senderVars, EventsInv, EventStages, EventNumbers, EventOrder,
       Before, ES!EventsAreAccounted, ES!InHand
<1>3. QED
  BY <1>1, <1>2

EventsPart == part = "events" => EventsInv

LEMMA EventsPartFirst == CallInit => EventsPart
<1>1. ASSUME CallInit, part = "events" PROVE ES!Init
  BY <1>1 DEF CallInit
<1>2. QED
  BY <1>1, EventsFirst DEF EventsPart

LEMMA EventsPartStep == EventsPart /\ [CallNext]_vars => EventsPart'
<1> SUFFICES ASSUME EventsPart, [CallNext]_vars, part' = "events" PROVE EventsInv'
  BY DEF EventsPart
<1>1. part = "events" /\ [ES!Next]_(ES!telemetryVars)
  <2>1. CASE CallNext
    BY <2>1 DEF CallNext
  <2>2. CASE UNCHANGED vars
    BY <2>2 DEF vars, ES!telemetryVars, ES!senderVars, server, pipe, watchdog, written, buffer,
       flight, isFlushing, timer, timerStarted, final, accepted, twice, dropped, unsure
  <2>3. QED
    BY <2>1, <2>2
<1>2. EventsInv
  BY <1>1 DEF EventsPart
<1>3. QED
  BY <1>1, <1>2, EventsStep

\* As long as its watchdog lives no event is lost unless the buffer let it go or the
\* endpoint refused it, none is taken twice unless an answer was lost, and what is
\* sent again keeps its place, in any number of events and for a buffer of any size
\* (ClearcutSender.#flush and #finalFlush).
THEOREM EventsAreKept == CallSpec => []EventsAreDelivered
<1>1. EventsInv => ES!EventsKeepTheirOrder
  <2> SUFFICES ASSUME EventsInv PROVE ES!EventsKeepTheirOrder
    OBVIOUS
  <2> DEFINE middle == IF final = <<>> THEN buffer ELSE final
  <2>1. /\ flight \in Seq(Nat) /\ middle \in Seq(Nat) /\ pipe \in Seq(Nat)
        /\ Ascending(flight) /\ Ascending(middle) /\ Ascending(pipe)
        /\ Before(flight, middle) /\ Before(flight, pipe)
    BY DEF EventsInv, EventStages, EventOrder
  <2>2. Before(middle, pipe)
    <3>1. CASE final = <<>>
      BY <3>1 DEF EventsInv, EventOrder
    <3>2. CASE final # <<>>
      <4>1. pipe = <<>>
        BY <3>2 DEF EventsInv, EventStages
      <4>2. QED
        BY <4>1, NoneAtAll DEF Before
    <3>3. QED
      BY <3>1, <3>2
  <2> HIDE DEF middle
  <2>3. /\ flight \o middle \in Seq(Nat) /\ Ascending(flight \o middle)
        /\ ES!ToSet(flight \o middle) = ES!ToSet(flight) \cup ES!ToSet(middle)
    BY <2>1, Together
  <2>4. Before(flight \o middle, pipe)
    BY <2>1, <2>2, <2>3 DEF Before
  <2>5. Ascending((flight \o middle) \o pipe)
    BY <2>1, <2>3, <2>4, Together
  <2>6. QED
    BY <2>5 DEF Ascending, ES!EventsKeepTheirOrder, middle
<1>2. EventsPart => EventsAreDelivered
  BY <1>1 DEF EventsPart, EventsInv, EventsAreDelivered
<1>3. QED
  BY <1>2, EventsPartFirst, EventsPartStep, PTL DEF CallSpec

-----------------------------------------------------------------------------
(* The types of deadlines *)

\* What the types say of a call's timers beyond BInv.
MoreBudgetTypes ==
    /\ attempt \in 0 .. 2
    /\ heard \in {"nothing", "the answer", "the wait for the browser", "the work ran over",
                  "a timer further in"}

LEMMA MoreBudgetTypesStep ==
    ASSUME MoreBudgetTypes, [BU!Next]_(BU!budgetVars)
    PROVE  MoreBudgetTypes'
<1>1. ASSUME attempt \in 0 .. 2 PROVE attempt < 2 => attempt + 1 \in 0 .. 2
  BY <1>1
<1>2. CASE BU!Send
  BY <1>1, <1>2 DEF BU!Send, MoreBudgetTypes
<1>3. CASE BU!Request \/ BU!Granted \/ BU!Act \/ BU!Hangs \/ BU!Answer \/ BU!Lost \/ BU!Passes \/ BU!Fires
  BY <1>3 DEF MoreBudgetTypes, BU!Request, BU!Granted, BU!Act, BU!Hangs, BU!Answer, BU!Lost,
              BU!Passes, BU!Fires
<1>4. CASE UNCHANGED BU!budgetVars
  BY <1>4 DEF BU!budgetVars, MoreBudgetTypes
<1>5. QED
  BY <1>2, <1>3, <1>4 DEF BU!Next

LEMMA BudgetsAreTyped == BInv /\ MoreBudgetTypes => BU!TypeOK
<1> SUFFICES ASSUME BInv, MoreBudgetTypes PROVE BU!TypeOK
  OBVIOUS
<1>1. \A t \in {socketAt, requestAt, mutexAt} : t \in Nat \cup {BU!Never}
  <2>1. BU!callBudgetMs(work) \in Nat /\ now \in Nat
    BY WorkFits DEF BInv, BudgetTypes
  <2>2. CASE stage = "front"
    BY <2>2 DEF BInv, TimersNest
  <2>3. CASE stage = "daemon"
    BY <2>1, <2>3 DEF BInv, TimersNest, BU!MUTEX_WAIT_CEILING_MS
  <2>4. CASE stage = "queue"
    BY <2>1, <2>4 DEF BInv, TimersNest, BU!MUTEX_WAIT_CEILING_MS, BU!INNER_BUDGET_SLACK_MS
  <2>5. CASE stage \in {"work", "hung"}
    BY <2>5 DEF BInv, TimersNest
  <2>6. QED
    BY <2>2, <2>3, <2>4, <2>5 DEF BInv, BudgetTypes
<1>2. QED
  BY <1>1 DEF BInv, BudgetTypes, MoreBudgetTypes, BU!TypeOK

-----------------------------------------------------------------------------
(* The types of telemetry *)

\* The last event that is written is that of the shutdown.
MoreEventTypes ==
    /\ server \in {"up", "down"} /\ timer \in BOOLEAN /\ timerStarted \in BOOLEAN
    /\ dropped \subseteq 1..written /\ unsure \subseteq 1..written
    /\ written <= MaxEvents /\ (watchdog = "up" => written < MaxEvents)

LEMMA MoreEventTypesFirst == ES!Init => MoreEventTypes
<1> SUFFICES ASSUME ES!Init PROVE MoreEventTypes
  OBVIOUS
<1>1. server \in {"up", "down"} /\ timer \in BOOLEAN /\ timerStarted \in BOOLEAN
  BY DEF ES!Init
<1>2. dropped = {} /\ unsure = {} /\ written = 0
  BY DEF ES!Init
<1>3. 0 <= MaxEvents /\ 0 < MaxEvents
  BY BufferHasRoom
<1>4. QED
  BY <1>1, <1>2, <1>3 DEF MoreEventTypes

LEMMA InItsSet ==
    ASSUME NEW s \in Seq(Nat), NEW S, ES!ToSet(s) \subseteq S
    PROVE  s \in Seq(S)
<1>1. \A i \in 1..Len(s) : s[i] \in S
  BY DEF ES!ToSet
<1>2. QED
  BY <1>1

LEMMA MoreEventTypesStep ==
    ASSUME EventsInv, MoreEventTypes, [ES!Next]_(ES!telemetryVars)
    PROVE  MoreEventTypes'
<1>1. /\ written \in Nat /\ MaxEvents \in Nat /\ buffer \in Seq(Nat) /\ flight \in Seq(Nat)
      /\ 1..written \subseteq 1..(written + 1)
      /\ ES!ToSet(buffer) \subseteq 1..written /\ ES!ToSet(flight) \subseteq 1..written
      /\ watchdog \in {"up", "closing", "gone", "unborn"}
  <2>1. written \in Nat /\ MaxEvents \in Nat
    BY BufferHasRoom DEF EventsInv, EventStages
  <2>2. 1..written \subseteq 1..(written + 1)
    BY <2>1
  <2>3. QED
    BY <2>1, <2>2 DEF EventsInv, EventStages, EventNumbers, ES!InHand
<1>2. ASSUME Len(buffer) >= MaxBuffer PROVE Head(buffer) \in 1..written
  <2>1. buffer # <<>>
    BY <1>1, <1>2, BufferHasRoom
  <2>2. Head(buffer) \in ES!ToSet(buffer)
    BY <1>1, <2>1 DEF ES!ToSet
  <2>3. QED
    BY <1>1, <2>2
<1>3. CASE ES!logs
  <2>1. /\ written' = written + 1 /\ written < MaxEvents - 1
        /\ UNCHANGED <<server, watchdog, timer, timerStarted, unsure>>
        /\ dropped' \subseteq dropped \cup {written + 1}
    BY <1>3 DEF ES!logs, ES!senderVars
  <2>2. written + 1 \in 1..(written + 1) /\ written + 1 <= MaxEvents /\ written + 1 < MaxEvents
    BY <1>1, <2>1
  <2>3. QED
    BY <1>1, <2>1, <2>2 DEF MoreEventTypes
<1>4. CASE ES!ServerEnds
  BY <1>4 DEF ES!ServerEnds, ES!senderVars, MoreEventTypes
<1>5. CASE ES!onLine
  <2>1. /\ UNCHANGED <<server, written, watchdog, unsure>>
        /\ timer' = (timer \/ ~timerStarted) /\ timerStarted' = TRUE
        /\ dropped' = IF Len(buffer) >= MaxBuffer THEN dropped \cup {Head(buffer)} ELSE dropped
    BY <1>5 DEF ES!onLine, ES!enqueueEvent, ES!addToBuffer
  <2>2. QED
    BY <1>2, <2>1 DEF MoreEventTypes
<1>6. CASE ES!onParentDeath
  <2>1. /\ UNCHANGED <<server, unsure>> /\ written' = written + 1
        /\ watchdog = "up" /\ watchdog' = "closing"
        /\ timer' = ~timerStarted /\ timerStarted' = TRUE
        /\ dropped' = IF Len(buffer) >= MaxBuffer THEN dropped \cup {Head(buffer)} ELSE dropped
    BY <1>6 DEF ES!onParentDeath, ES!enqueueEvent, ES!addToBuffer
  <2>2. dropped' \subseteq 1..(written + 1)
    BY <1>1, <1>2, <2>1 DEF MoreEventTypes
  <2>3. written + 1 <= MaxEvents
    BY <1>1, <2>1 DEF MoreEventTypes
  <2>4. QED
    BY <1>1, <2>1, <2>2, <2>3 DEF MoreEventTypes
<1>7. CASE ES!WatchdogDies
  BY <1>7 DEF ES!WatchdogDies, MoreEventTypes
<1>8. CASE ES!flush
  BY <1>8 DEF ES!flush, MoreEventTypes
<1>9. ASSUME NEW answer \in {"accepted", "refused", "failed", "lost"}, ES!flushEnds(answer)
      PROVE  MoreEventTypes'
  BY <1>1, <1>9 DEF ES!flushEnds, MoreEventTypes
<1>10. ASSUME NEW answer \in {"accepted", "failed"}, ES!Exits(answer)
       PROVE  MoreEventTypes'
  BY <1>10 DEF ES!Exits, MoreEventTypes
<1>11. CASE UNCHANGED ES!telemetryVars
  BY <1>11 DEF ES!telemetryVars, ES!senderVars, MoreEventTypes
<1>12. QED
  BY <1>3, <1>4, <1>5, <1>6, <1>7, <1>8, <1>9, <1>10, <1>11 DEF ES!Next

LEMMA EventsAreTyped == EventsInv /\ MoreEventTypes => ES!TypeOK
<1> SUFFICES ASSUME EventsInv, MoreEventTypes PROVE ES!TypeOK
  OBVIOUS
<1>1. written \in 0..MaxEvents /\ 1..written \subseteq ES!Events
  BY BufferHasRoom DEF EventsInv, EventStages, MoreEventTypes, ES!Events
<1>2. /\ pipe \in Seq(ES!Events) /\ buffer \in Seq(ES!Events)
      /\ flight \in Seq(ES!Events) /\ final \in Seq(ES!Events)
  <2>1. /\ ES!ToSet(pipe) \subseteq ES!Events /\ ES!ToSet(buffer) \subseteq ES!Events
        /\ ES!ToSet(flight) \subseteq ES!Events /\ ES!ToSet(final) \subseteq ES!Events
    BY <1>1 DEF EventsInv, EventNumbers, ES!InHand
  <2>2. pipe \in Seq(Nat) /\ buffer \in Seq(Nat) /\ flight \in Seq(Nat) /\ final \in Seq(Nat)
    BY DEF EventsInv, EventStages
  <2>3. QED
    BY <2>1, <2>2, InItsSet
<1>3. QED
  BY <1>1, <1>2 DEF EventsInv, EventStages, EventNumbers, MoreEventTypes, ES!TypeOK

-----------------------------------------------------------------------------
MoreTypes == /\ part = "budgets" => MoreBudgetTypes
             /\ part = "events" => MoreEventTypes

LEMMA MoreTypesFirst == CallInit => MoreTypes
<1> SUFFICES ASSUME CallInit PROVE MoreTypes
  OBVIOUS
<1>1. ASSUME part = "budgets" PROVE MoreBudgetTypes
  <2>1. BU!Init
    BY <1>1 DEF CallInit
  <2>2. QED
    BY <2>1 DEF BU!Init, MoreBudgetTypes
<1>2. ASSUME part = "events" PROVE MoreEventTypes
  <2>1. ES!Init
    BY <1>2 DEF CallInit
  <2>2. QED
    BY <2>1, MoreEventTypesFirst
<1>3. QED
  BY <1>1, <1>2 DEF MoreTypes

LEMMA MoreTypesStep == EventsPart /\ MoreTypes /\ [CallNext]_vars => MoreTypes'
<1> SUFFICES ASSUME EventsPart, MoreTypes, [CallNext]_vars PROVE MoreTypes'
  OBVIOUS
<1>1. ASSUME part' = "budgets" PROVE MoreBudgetTypes'
  <2>1. part = "budgets" /\ [BU!Next]_(BU!budgetVars)
    <3>1. CASE CallNext
      BY <1>1, <3>1 DEF CallNext
    <3>2. CASE UNCHANGED vars
      BY <1>1, <3>2 DEF vars, BU!budgetVars, work, now, stage, attempt, socketAt, requestAt,
         mutexAt, todo, heard
    <3>3. QED
      BY <3>1, <3>2
  <2>2. QED
    BY <2>1, MoreBudgetTypesStep DEF MoreTypes
<1>2. ASSUME part' = "events" PROVE MoreEventTypes'
  <2>1. part = "events" /\ [ES!Next]_(ES!telemetryVars)
    <3>1. CASE CallNext
      BY <1>2, <3>1 DEF CallNext
    <3>2. CASE UNCHANGED vars
      BY <1>2, <3>2 DEF vars, ES!telemetryVars, ES!senderVars, server, pipe, watchdog, written,
         buffer, flight, isFlushing, timer, timerStarted, final, accepted, twice, dropped, unsure
    <3>3. QED
      BY <3>1, <3>2
  <2>2. QED
    BY <2>1, MoreEventTypesStep DEF MoreTypes, EventsPart
<1>3. QED
  BY <1>1, <1>2 DEF MoreTypes

\* What a call's timers, files and events are stays what the modules say: a call is
\* tried twice at most, a timer is a point in time or not set, and no batch of the
\* watchdog holds anything but events that were written.
THEOREM CallsAreTyped == CallSpec => []CallTypeOK
<1>1. ASSUME BudgetsInv, FilesInv, EventsPart, MoreTypes PROVE CallTypeOK
  <2>1. part = "budgets" => BU!TypeOK
    BY <1>1, BudgetsAreTyped DEF BudgetsInv, MoreTypes
  <2>2. part = "files" => SF!TypeOK
    BY <1>1 DEF FilesInv
  <2>3. part = "events" => ES!TypeOK
    BY <1>1, EventsAreTyped DEF EventsPart, MoreTypes
  <2>4. QED
    BY <2>1, <2>2, <2>3 DEF CallTypeOK
<1>2. QED
  BY <1>1, BudgetsPartFirst, BudgetsPartStep, FilesFirst, FilesStep, EventsPartFirst,
     EventsPartStep, MoreTypesFirst, MoreTypesStep, PTL DEF CallSpec

-----------------------------------------------------------------------------
(* All the parts *)

OfACall == part \in {"budgets", "files", "events"}
OfAPage == part \in {"pages", "contexts", "workers", "captures", "emulation", "screenshots",
                     "requests", "messages"}
OfAnAnswer == part \in {"answers", "traces", "listings", "snapshots", "heaps", "png"}

\* A step is of the part that its state is of, and leaves it that part.
LEMMA StaysACall ==
    /\ CallInit => OfACall
    /\ OfACall /\ [Next]_vars => OfACall' /\ [CallNext]_vars
<1>1. CallInit => OfACall
  BY DEF CallInit, OfACall
<1>2. ASSUME OfACall, Next PROVE OfACall' /\ CallNext
  <2>1. CASE CallNext
    BY <1>2, <2>1 DEF OfACall, CallNext
  <2>2. CASE PageNext
    BY <1>2, <2>2 DEF OfACall, PageNext
  <2>3. CASE AnswerNext
    BY <1>2, <2>3 DEF OfACall, AnswerNext
  <2>4. QED
    BY <1>2, <2>1, <2>2, <2>3 DEF Next
<1>3. ASSUME OfACall, UNCHANGED vars PROVE OfACall'
  BY <1>3 DEF OfACall, vars
<1>4. QED
  BY <1>1, <1>2, <1>3

LEMMA StaysAPage ==
    /\ PageInit => OfAPage
    /\ OfAPage /\ [Next]_vars => OfAPage' /\ [PageNext]_vars
<1>1. PageInit => OfAPage
  BY DEF PageInit, OfAPage
<1>2. ASSUME OfAPage, Next PROVE OfAPage' /\ PageNext
  <2>1. CASE CallNext
    BY <1>2, <2>1 DEF OfAPage, CallNext
  <2>2. CASE PageNext
    BY <1>2, <2>2 DEF OfAPage, PageNext
  <2>3. CASE AnswerNext
    BY <1>2, <2>3 DEF OfAPage, AnswerNext
  <2>4. QED
    BY <1>2, <2>1, <2>2, <2>3 DEF Next
<1>3. ASSUME OfAPage, UNCHANGED vars PROVE OfAPage'
  BY <1>3 DEF OfAPage, vars
<1>4. QED
  BY <1>1, <1>2, <1>3

LEMMA StaysAnAnswer ==
    /\ AnswerInit => OfAnAnswer
    /\ OfAnAnswer /\ [Next]_vars => OfAnAnswer' /\ [AnswerNext]_vars
<1>1. AnswerInit => OfAnAnswer
  BY DEF AnswerInit, OfAnAnswer
<1>2. ASSUME OfAnAnswer, Next PROVE OfAnAnswer' /\ AnswerNext
  <2>1. CASE CallNext
    BY <1>2, <2>1 DEF OfAnAnswer, CallNext
  <2>2. CASE PageNext
    BY <1>2, <2>2 DEF OfAnAnswer, PageNext
  <2>3. CASE AnswerNext
    BY <1>2, <2>3 DEF OfAnAnswer, AnswerNext
  <2>4. QED
    BY <1>2, <2>1, <2>2, <2>3 DEF Next
<1>3. ASSUME OfAnAnswer, UNCHANGED vars PROVE OfAnAnswer'
  BY <1>3 DEF OfAnAnswer, vars
<1>4. QED
  BY <1>1, <1>2, <1>3

\* The parts share no state: a behaviour of them is one of a call's, of a page's or of
\* an answer's parts, so that what is proved of each group holds of the whole.
THEOREM OneOfThem ==
    Spec => \/ CallSpec /\ []OfACall
            \/ PageSpec /\ []OfAPage
            \/ AnswerSpec /\ []OfAnAnswer
<1>1. Init => CallInit \/ PageInit \/ AnswerInit
  BY DEF Init
<1>2. QED
  BY <1>1, StaysACall, StaysAPage, StaysAnAnswer, PTL DEF Spec, CallSpec, PageSpec, AnswerSpec

\* What a part keeps has the types its module states, in every behaviour of the parts.
THEOREM PartsAreTyped == Spec => []TypeOK
<1>1. OfACall /\ CallTypeOK => TypeOK
  BY DEF OfACall, TypeOK, PageTypeOK, AnswerTypeOK
<1>2. OfAPage /\ PageTypeOK => TypeOK
  BY DEF OfAPage, TypeOK, CallTypeOK, AnswerTypeOK
<1>3. OfAnAnswer /\ AnswerTypeOK => TypeOK
  BY DEF OfAnAnswer, TypeOK, CallTypeOK, PageTypeOK
<1>4. QED
  BY <1>1, <1>2, <1>3, OneOfThem, CallsAreTyped, PagesAreTyped, AnswerPartsAreTyped, PTL

\* What is kept in a group of parts is kept in every behaviour of the parts: each of the
\* properties above is about the parts of one group, and a behaviour never leaves its own.
THEOREM PartsAreKept ==
    Spec => /\ []PageListIsKept /\ []WhatIsToldIsCollected /\ []BrowserIsLeftAsAsked
            /\ []AnswersAreWhole /\ []AnswersShowWhatIsThere /\ []SnapshotIdsResolve
            /\ []BudgetsNest /\ []FilesAreToldOrSwept /\ []EventsAreDelivered
            /\ UidsAreKept
<1>1. ~OfACall => BudgetsNest /\ FilesAreToldOrSwept /\ EventsAreDelivered
  BY DEF OfACall, BudgetsNest, FilesAreToldOrSwept, EventsAreDelivered
<1>2. ~OfAPage => PageListIsKept /\ WhatIsToldIsCollected /\ BrowserIsLeftAsAsked
  BY DEF OfAPage, PageListIsKept, WhatIsToldIsCollected, BrowserIsLeftAsAsked
<1>3. ~OfAnAnswer => AnswersAreWhole /\ AnswersShowWhatIsThere /\ SnapshotIdsResolve
  BY DEF OfAnAnswer, AnswersAreWhole, AnswersShowWhatIsThere, SnapshotIdsResolve
<1>4. ~OfAnAnswer => [part = "snapshots" => TS!KeepsUids]_vars
  BY DEF OfAnAnswer
<1>5. /\ OfACall => ~OfAPage /\ ~OfAnAnswer
      /\ OfAPage => ~OfACall /\ ~OfAnAnswer
      /\ OfAnAnswer => ~OfACall /\ ~OfAPage
  BY DEF OfACall, OfAPage, OfAnAnswer
<1>6. QED
  BY <1>1, <1>2, <1>3, <1>4, <1>5, OneOfThem, PagesAreListed, WhatIsToldIsKept,
     BrowserIsLeft, AnswersAreKeptWhole, AnswersShowIt, IdsLeadBack, ElementsKeepTheirUids,
     BudgetsAreNested, FilesAreKeptToldOrSwept, EventsAreKept, PTL DEF UidsAreKept
=============================================================================
