--------------------------- MODULE PageEventsProofs --------------------------
(***************************************************************************)
(* Proofs about PageEvents, for any set of dialogs and any of the tools.   *)
(***************************************************************************)
EXTENDS PageEvents, TLAPS

\* The dialogs and who answers them.
DialogTypes ==
    /\ open \in Dialogs \cup {None} /\ record \in Dialogs \cup {None}
    /\ reading \in Dialogs \cup {None} /\ handled \subseteq Dialogs
    /\ answers \in [Dialogs -> {"no", "reading", "late", "true", "false"}]

\* An open dialog was not answered, and one that opened while an answer to another
\* was under way is marked.
DialogsInOrder ==
    /\ open # None => open \notin handled
    /\ open # None /\ AnswersUnderWay => beside
    /\ RecordIsTheOpenDialog

DInv == DialogTypes /\ DialogsInOrder

LEMMA DialogsFirst == Init => DInv
  BY DEF Init, DInv, DialogTypes, DialogsInOrder, RecordIsTheOpenDialog

\* The tool's own steps leave the dialogs alone.
LEMMA CallLeavesDialogs ==
    ASSUME Call
    PROVE  UNCHANGED <<open, reading, beside>>
           /\ (UNCHANGED <<record, handled, answers>> \/ AnswersIn)
<1> USE DEF pageVars, waitVars, toolVars, history
<1>1. ASSUME NEW t \in Tools, Begin(t) PROVE UNCHANGED <<open, reading, beside, record, handled, answers>>
  BY <1>1 DEF Begin
<1>2. CASE KindRead \/ LeadPause \/ StreamGap \/ PauseOver \/ Dispatch
  BY <1>2 DEF KindRead, LeadPause, StreamGap, PauseOver, Dispatch
<1>3. CASE PressRefused \/ Answered \/ GivenUp \/ Deadline \/ Fails
  BY <1>3 DEF PressRefused, Answered, GivenUp, Deadline, Fails, Still
<1>4. CASE PrepareReturns \/ TriggerEnds \/ TriggerEndsLeaving
  BY <1>4 DEF PrepareReturns, TriggerEnds, TriggerEndsLeaving
<1>5. CASE ActionStarts \/ ActionEnds \/ HelperReturns \/ Settled
  BY <1>5 DEF ActionStarts, ActionEnds, HelperReturns, Settled
<1>6. CASE Cleanup \/ Release \/ ReleaseUnanswered
  BY <1>6 DEF Cleanup, Release, ReleaseUnanswered, CallOver
<1>7. CASE AnswersIn
  BY <1>7 DEF AnswersIn
<1>8. QED
  BY <1>1, <1>2, <1>3, <1>4, <1>5, <1>6, <1>7 DEF Call

LEMMA DialogsKept ==
    ASSUME DInv, [Next]_vars
    PROVE  DInv'
<1> USE DEF DInv, DialogTypes, DialogsInOrder, RecordIsTheOpenDialog, AnswersUnderWay
<1> USE NoneIsNoDialog
<1>1. ASSUME NEW d \in Dialogs, DialogOpens(d) PROVE DInv'
  <2>1. /\ open = None /\ d \notin {record, before, reading} /\ answers[d] = "no"
        /\ reading' = reading
        /\ record' \in {d, None} /\ open' \in {d, None}
        /\ open' # None => record' = d
        /\ handled' \subseteq handled \cup {d} /\ (open' # None => d \notin handled')
        /\ beside' = (AnswersUnderWay /\ open' # None)
    <3>1. DialogOpens(d) => record' \in {d, None} /\ open' \in {d, None}
      BY DEF DialogOpens
    <3>2. open' # None => record' = d /\ d \notin handled'
      BY <1>1 DEF DialogOpens
    <3>3. QED
      BY <1>1, <3>1, <3>2 DEF DialogOpens, Fresh
  <2>2. /\ answers' \in [Dialogs -> {"no", "reading", "late", "true", "false"}]
        /\ \A e \in Dialogs : answers'[e] = "true" => answers[e] = "true"
    BY <1>1 DEF DialogOpens
  <2>3. AnswersUnderWay' => AnswersUnderWay
    BY <2>1, <2>2
  <2>4. QED
    BY <2>1, <2>2, <2>3
<1>2. CASE DialogClosedByHand
  BY <1>2 DEF DialogClosedByHand, waitVars
<1>3. CASE NavigationStarts \/ NavigationEnds
  BY <1>3 DEF NavigationStarts, NavigationEnds, waitVars, history
<1>4. ASSUME NEW d \in Dialogs, AnswerBeforeUnload(d) PROVE DInv'
  <2> DEFINE lands == open # None /\ d \notin handled
  <2>1. /\ answers' = [answers EXCEPT ![d] = CASE answers[d] = "late" -> "no"
                                               [] lands -> "true"
                                               [] OTHER -> "false"]
        /\ open' = IF lands THEN None ELSE open
        /\ handled' \subseteq handled \cup {d}
        /\ beside' = (beside /\ open' # None)
        /\ UNCHANGED <<record, reading>>
    BY <1>4 DEF AnswerBeforeUnload, toolVars
  <2>2. /\ answers' \in [Dialogs -> {"no", "reading", "late", "true", "false"}]
        /\ ~lands => \A e \in Dialogs : answers'[e] = "true" => answers[e] = "true"
    BY <2>1
  <2>3. CASE lands
    <3>1. open' = None /\ ~beside' /\ UNCHANGED <<record, reading>> /\ handled' \subseteq Dialogs
      BY <2>1, <2>3
    <3>2. QED
      BY <2>2, <3>1
  <2>4. CASE ~lands
    <3>1. open' = open /\ (open # None => d \in handled)
      BY <2>1, <2>4
    <3>2. AnswersUnderWay' => AnswersUnderWay
      BY <2>1, <2>2, <2>4
    <3>3. QED
      BY <2>1, <2>2, <3>1, <3>2
  <2>5. QED
    BY <2>3, <2>4
<1>5. CASE handleDialog
  BY <1>5 DEF handleDialog, waitVars
<1>6. CASE handleDialogReturns
  BY <1>6 DEF handleDialogReturns, pageVars, waitVars, history
<1>7. CASE AnswersIn
  <2>1. /\ UNCHANGED <<open, reading, beside>> /\ record' \in {record, None}
        /\ handled' \subseteq handled
        /\ record' # record => \E d \in Dialogs : answers[d] = "true"
        /\ answers' = [d \in Dialogs |-> IF answers[d] = "late" THEN "late" ELSE "no"]
    BY <1>7 DEF AnswersIn, clearAnswered, pageVars, history
  <2>2. QED
    BY <2>1
<1>8. CASE Call /\ ~AnswersIn
  BY <1>8, CallLeavesDialogs
<1>9. CASE UNCHANGED vars
  BY <1>9 DEF vars, pageVars, waitVars, history
<1>10. QED
  BY <1>1, <1>2, <1>3, <1>4, <1>5, <1>6, <1>7, <1>8, <1>9 DEF Next, Page, Answers

\* Whichever tools meet whichever dialogs, answered by handle_dialog, by the call
\* or by hand: the one that pauses the renderer is on record (McpPage.ts:530).
THEOREM OpenDialogIsOnRecord == Spec => []RecordIsTheOpenDialog
<1>1. DInv => RecordIsTheOpenDialog
  BY DEF DInv, DialogsInOrder
<1>2. QED
  BY <1>1, DialogsFirst, DialogsKept, PTL DEF Spec

-----------------------------------------------------------------------------
(* The programs of the input tools *)

Does == {"read", "wait", "gap", "down", "up", "tap", "char", "pause", "travel", "move",
         "focus", "hand", "none"}
Commands == [does : Does, input : Inputs \cup {"none"},
             guard : {"abandon", "answer", "plain", "local"},
             owes : {"before", "after", "never"}]

\* Only a press is noted, and behind its return only one that is given up on.
FairCommands ==
    {c \in Commands : /\ c.owes # "never" => c.does = "down"
                      /\ c.owes = "after" => c.guard = "abandon"
                      /\ c.does = "down" => c.input \in Inputs}

\* Sequences with no character and no pause in them.
Plain(s) == /\ s \in Seq(FairCommands)
            /\ \A i \in 1..Len(s) : s[i].does \notin {"char", "pause"}

\* Behind a character comes a place to stop at, or the end.
Stoppable(s) == /\ s \in Seq(FairCommands)
                /\ \A i \in 1..Len(s) : s[i].does = "char" =>
                     \/ i = Len(s) \/ s[i + 1].does = "gap"
                     \/ i + 1 = Len(s) /\ s[i + 1].does = "pause"

\* The same with no pause at the end.
Unpaused(s) == Stoppable(s) /\ \A i \in 1..Len(s) : s[i].does # "pause"

LEMMA PlainOnes ==
    ASSUME NEW c \in FairCommands, c.does \notin {"char", "pause"}
    PROVE  Plain(<<c>>)
BY DEF Plain

LEMMA PlainPairs ==
    ASSUME NEW c \in FairCommands, c.does \notin {"char", "pause"},
           NEW d \in FairCommands, d.does \notin {"char", "pause"}
    PROVE  Plain(<<c, d>>)
BY DEF Plain

LEMMA PlainTogether ==
    ASSUME NEW s, NEW t, Plain(s), Plain(t)
    PROVE  Plain(s \o t)
<1>1. /\ s \o t \in Seq(FairCommands) /\ Len(s \o t) = Len(s) + Len(t)
      /\ Len(s) \in Nat /\ Len(t) \in Nat
  BY DEF Plain
<1>2. ASSUME NEW i \in 1..Len(s \o t) PROVE (s \o t)[i].does \notin {"char", "pause"}
  <2>1. CASE i <= Len(s)
    BY <1>1, <2>1 DEF Plain
  <2>2. CASE i > Len(s)
    <3>1. i - Len(s) \in 1..Len(t) /\ (s \o t)[i] = t[i - Len(s)]
      BY <1>1, <2>2 DEF Plain
    <3>2. QED
      BY <3>1 DEF Plain
  <2>3. QED
    BY <1>1, <2>1, <2>2
<1>3. QED
  BY <1>1, <1>2 DEF Plain

LEMMA PlainIsUnpaused ==
    ASSUME NEW s, Plain(s)
    PROVE  Unpaused(s)
BY DEF Plain, Unpaused, Stoppable

LEMMA StoppableBehindPlain ==
    ASSUME NEW s, NEW t, Plain(s), Unpaused(t)
    PROVE  Unpaused(s \o t)
<1>1. /\ s \o t \in Seq(FairCommands) /\ Len(s \o t) = Len(s) + Len(t)
      /\ Len(s) \in Nat /\ Len(t) \in Nat
  BY DEF Plain, Unpaused, Stoppable
<1>2. ASSUME NEW i \in 1..Len(s \o t)
      PROVE  /\ (s \o t)[i].does # "pause"
             /\ (s \o t)[i].does = "char" => i = Len(s \o t) \/ (s \o t)[i + 1].does = "gap"
  <2>1. CASE i <= Len(s)
    BY <1>1, <2>1 DEF Plain
  <2>2. CASE i > Len(s)
    <3>1. i - Len(s) \in 1..Len(t) /\ (s \o t)[i] = t[i - Len(s)]
      BY <1>1, <2>2 DEF Plain, Unpaused, Stoppable
    <3>2. i # Len(s \o t) =>
            i + 1 - Len(s) \in 1..Len(t) /\ (s \o t)[i + 1] = t[i - Len(s) + 1]
      BY <1>1, <2>2 DEF Plain, Unpaused, Stoppable
    <3>3. i - Len(s) = Len(t) => i = Len(s \o t)
      BY <1>1
    <3>4. i - Len(s) + 1 = Len(t) => t[i - Len(s) + 1].does # "pause"
      BY <1>1, <3>1 DEF Unpaused
    <3>5. QED
      BY <3>1, <3>2, <3>3, <3>4 DEF Unpaused, Stoppable
  <2>3. QED
    BY <1>1, <2>1, <2>2
<1>3. QED
  BY <1>1, <1>2 DEF Unpaused, Stoppable

\* The commands of the tools.
LEMMA CommandsAreFair ==
    /\ \A c \in {Read, Await, Gap, Tap, travelPaced, Focus} :
         c \in FairCommands /\ c.does \notin {"char", "pause"}
    /\ \A owes \in {"before", "after", "never"}, input \in Inputs :
         Down(input, owes) \in FairCommands /\ Down(input, owes).does = "down"
    /\ \A input \in Inputs : Up(input) \in FairCommands /\ Up(input).does = "up"
    /\ Character \in FairCommands /\ Character.does = "char"
    /\ GapBehind \in FairCommands /\ GapBehind.does = "gap" /\ Gap.does = "gap"
    /\ Pause \in FairCommands /\ Pause.does = "pause"
BY DEF Read, Await, Gap, Tap, travelPaced, Focus, Down, Up, Character, GapBehind, Pause, Command,
       FairCommands, Commands, Does, Inputs

LEMMA PlainCommands ==
    /\ Plain(<<Read>>) /\ Plain(<<Await>>) /\ Plain(<<Tap>>) /\ Plain(<<Focus>>)
    /\ Plain(<<travelPaced>>) /\ Plain(<<Gap>>)
    /\ \A owes \in {"before", "after", "never"}, input \in Inputs : Plain(<<Down(input, owes)>>)
    /\ \A input \in Inputs : Plain(<<Up(input)>>)
<1>1. \A c \in FairCommands : c.does \notin {"char", "pause"} => Plain(<<c>>)
  BY PlainOnes
<1>2. ASSUME NEW c \in {Read, Await, Gap, Tap, travelPaced, Focus} PROVE Plain(<<c>>)
  BY <1>1, CommandsAreFair
<1>3. ASSUME NEW owes \in {"before", "after", "never"}, NEW input \in Inputs
      PROVE  Plain(<<Down(input, owes)>>)
  BY <1>1, CommandsAreFair
<1>4. ASSUME NEW input \in Inputs PROVE Plain(<<Up(input)>>)
  BY <1>1, CommandsAreFair
<1>5. QED
  BY <1>2, <1>3, <1>4

LEMMA PlainStreams ==
    /\ Plain(travelToElement) /\ Plain(approachPaced) /\ Plain(fieldReady)
    /\ Plain(waitUntilReadyForTyping) /\ Plain(selectAllPaced)
<1>1. Plain(travelToElement)
  BY CommandsAreFair, PlainPairs DEF travelToElement
<1>2. Plain(approachPaced)
  BY <1>1, PlainCommands, PlainTogether DEF approachPaced
<1>3. Plain(waitUntilReadyForTyping)
  BY PlainCommands DEF waitUntilReadyForTyping
<1>4. Plain(fieldReady)
  BY <1>3, PlainCommands, PlainTogether DEF fieldReady
<1>5. Plain(selectAllPaced)
  <2>1. selectAllPaced = (<<Down("key", "after")>> \o <<Tap>>) \o <<Up("key")>>
    BY DEF selectAllPaced
  <2>2. Plain(<<Down("key", "after")>>) /\ Plain(<<Tap>>) /\ Plain(<<Up("key")>>)
    BY PlainCommands DEF Inputs
  <2>3. Plain(<<Down("key", "after")>> \o <<Tap>>)
    BY <2>2, PlainTogether
  <2>4. QED
    BY <2>1, <2>2, <2>3, PlainTogether
<1>6. QED
  BY <1>1, <1>2, <1>3, <1>4, <1>5

LEMMA PlainPresses ==
    ASSUME NEW clicks \in {1, 2}, NEW owes \in {"before", "after", "never"}
    PROVE  /\ Plain(pressButtonPaced(clicks, owes))
           /\ Plain(pressPaced(clicks, owes))
           /\ Plain(pressPacedAt(clicks, owes))
<1> DEFINE down == <<Down("button", owes)>>
           up == <<Up("button")>>
<1>1. Plain(down) /\ Plain(up) /\ Plain(<<Gap>>)
  BY PlainCommands DEF Inputs
<1>2. Plain(pressButtonPaced(clicks, owes))
  <2>1. CASE clicks = 1
    BY <1>1, <2>1 DEF pressButtonPaced
  <2>2. CASE clicks = 2
    <3>1. pressButtonPaced(clicks, owes) = ((down \o up) \o <<Gap>>) \o down
      BY <2>2 DEF pressButtonPaced
    <3>2. Plain(down \o up)
      BY <1>1, PlainTogether
    <3>3. Plain((down \o up) \o <<Gap>>)
      BY <1>1, <3>2, PlainTogether
    <3>4. QED
      BY <1>1, <3>1, <3>3, PlainTogether
  <2>3. QED
    BY <2>1, <2>2
<1>3. Plain(pressPaced(clicks, owes))
  BY <1>2, PlainStreams, PlainTogether DEF pressPaced
<1>4. Command("move", "none", "plain", "never") \in FairCommands
      /\ Command("move", "none", "plain", "never").does = "move"
  BY DEF Command, FairCommands, Commands, Does, Inputs
<1>5. Plain(<<travelPaced, Command("move", "none", "plain", "never")>>)
  BY <1>4, CommandsAreFair, PlainPairs
<1>6. Plain(pressPacedAt(clicks, owes))
  BY <1>2, <1>5, PlainTogether DEF pressPacedAt
<1>7. QED
  BY <1>2, <1>3, <1>6

LEMMA TypingIsUnpaused == Unpaused(typePaced)
<1>1. typePaced = <<Gap, Character, GapBehind, Character>>
  BY DEF typePaced
<1>2. typePaced \in Seq(FairCommands) /\ Len(typePaced) = 4
  BY <1>1, CommandsAreFair
<1>3. /\ typePaced[1] = Gap /\ typePaced[2] = Character /\ typePaced[3] = GapBehind
      /\ typePaced[4] = Character
  BY <1>1
<1>4. \A i \in 1..4 : i = 1 \/ i = 2 \/ i = 3 \/ i = 4
  OBVIOUS
<1>5. QED
  BY <1>2, <1>3, <1>4, CommandsAreFair DEF Unpaused, Stoppable

LEMMA PauseAtTheEnd ==
    ASSUME NEW s, Unpaused(s)
    PROVE  Stoppable(s \o <<Pause>>)
<1>1. /\ s \o <<Pause>> \in Seq(FairCommands) /\ Len(s \o <<Pause>>) = Len(s) + 1
      /\ Len(s) \in Nat
      /\ \A i \in 1..Len(s) : (s \o <<Pause>>)[i] = s[i]
      /\ (s \o <<Pause>>)[Len(s) + 1] = Pause
  BY CommandsAreFair DEF Unpaused, Stoppable
<1>2. ASSUME NEW i \in 1..(Len(s) + 1), (s \o <<Pause>>)[i].does = "char"
      PROVE  (s \o <<Pause>>)[i + 1].does = "gap"
             \/ (i + 1 = Len(s) + 1 /\ (s \o <<Pause>>)[i + 1].does = "pause")
  <2>1. i \in 1..Len(s) /\ s[i].does = "char"
    BY <1>1, <1>2, CommandsAreFair
  <2>2. CASE i = Len(s)
    BY <1>1, <2>2, CommandsAreFair
  <2>3. CASE i # Len(s)
    <3>1. i + 1 \in 1..Len(s)
      BY <1>1, <2>1, <2>3
    <3>2. s[i + 1].does = "gap"
      BY <2>1, <2>3, <3>1 DEF Unpaused, Stoppable
    <3>3. QED
      BY <1>1, <3>1, <3>2
  <2>4. QED
    BY <2>2, <2>3
<1>3. QED
  BY <1>1, <1>2 DEF Stoppable

\* What a tool sends can be stopped behind every character, and only type_text
\* pauses at the end.
LEMMA ProgramFacts ==
    \A p \in Programs : /\ Stoppable(program[p].prepare)
                        /\ p # "type_text" => Unpaused(program[p].prepare)
<1> DEFINE Ok(p) == Unpaused(program[p].prepare)
<1>1. Ok("click") /\ Ok("double_click") /\ Ok("click_at")
  <2>1. Plain(<<Await>> \o pressPaced(1, "before")) /\ Plain(<<Await>> \o pressPaced(2, "before"))
        /\ Plain(pressPacedAt(1, "before"))
    BY PlainCommands, PlainPresses, PlainTogether
  <2>2. /\ program["click"].prepare = <<Await>> \o pressPaced(1, "before")
        /\ program["double_click"].prepare = <<Await>> \o pressPaced(2, "before")
        /\ program["click_at"].prepare = pressPacedAt(1, "before")
    BY DEF program, Programs, click, double_click, click_at, Program
  <2>3. QED
    BY <2>1, <2>2, PlainIsUnpaused
<1>2. Ok("hover") /\ Ok("toggle") /\ Ok("toggle_unchanged")
  <2>1. Plain(<<Await>> \o travelToElement) /\ Plain(<<Await, Read>>)
    BY CommandsAreFair, PlainPairs, PlainCommands, PlainStreams, PlainTogether
  <2>2. Plain(<<Await, Read>> \o pressPaced(1, "never"))
    BY <2>1, PlainPresses, PlainTogether
  <2>3. /\ program["hover"].prepare = <<Await>> \o travelToElement
        /\ program["toggle"].prepare = <<Await, Read>> \o pressPaced(1, "never")
        /\ program["toggle_unchanged"].prepare = <<Await, Read>>
    BY DEF program, Programs, hover, toggle, toggle_unchanged, Program
  <2>4. QED
    BY <2>1, <2>2, <2>3, PlainIsUnpaused
<1>3. Ok("fill") /\ Ok("fill_continued")
  <2>1. Plain((fieldReady \o <<Focus>>) \o selectAllPaced) /\ Plain(fieldReady \o <<Focus, Read>>)
    BY CommandsAreFair, PlainPairs, PlainCommands, PlainStreams, PlainTogether
  <2>2. /\ program["fill"].prepare = ((fieldReady \o <<Focus>>) \o selectAllPaced) \o typePaced
        /\ program["fill_continued"].prepare = (fieldReady \o <<Focus, Read>>) \o typePaced
    BY DEF program, Programs, fill, fill_continued, Program
  <2>3. QED
    BY <2>1, <2>2, TypingIsUnpaused, StoppableBehindPlain
<1>4. Ok("fill_emptied") /\ Ok("fill_unchanged") /\ Ok("fill_one_shot")
  <2>1. Plain((fieldReady \o <<Focus>>) \o selectAllPaced) /\ Plain(fieldReady) /\ Plain(<<Read>>)
    BY PlainCommands, PlainStreams, PlainTogether
  <2>2. /\ program["fill_emptied"].prepare = (fieldReady \o <<Focus>>) \o selectAllPaced
        /\ program["fill_unchanged"].prepare = fieldReady
        /\ program["fill_one_shot"].prepare = <<Read>>
    BY DEF program, Programs, fill_emptied, fill_unchanged, fill_one_shot, Program
  <2>3. QED
    BY <2>1, <2>2, PlainIsUnpaused
<1>5. Ok("type_only") /\ Stoppable(program["type_text"].prepare)
  <2>1. Unpaused(waitUntilReadyForTyping \o typePaced)
    BY PlainStreams, TypingIsUnpaused, StoppableBehindPlain
  <2>2. /\ program["type_only"].prepare = waitUntilReadyForTyping \o typePaced
        /\ program["type_text"].prepare = (waitUntilReadyForTyping \o typePaced) \o <<Pause>>
    BY DEF program, Programs, type_only, type_text, Program
  <2>3. QED
    BY <2>1, <2>2, PauseAtTheEnd
<1>6. Ok("press_key") /\ Ok("drag")
  <2>1. Command("down", "button", "plain", "never") \in FairCommands
        /\ Command("down", "button", "plain", "never").does = "down"
    BY DEF Command, FairCommands, Commands, Does, Inputs
  <2>2. Plain(<<Command("down", "button", "plain", "never")>>)
    BY <2>1, PlainOnes
  <2>3. Plain(travelToElement \o <<Command("down", "button", "plain", "never")>>)
    BY <2>2, PlainStreams, PlainTogether
  <2>4. Plain(<<Down("key", "after")>>)
    BY PlainCommands DEF Inputs
  <2>5. /\ program["press_key"].prepare = <<Down("key", "after")>>
        /\ program["drag"].prepare =
             travelToElement \o <<Command("down", "button", "plain", "never")>>
    BY DEF program, Programs, press_key, drag, Program
  <2>6. QED
    BY <2>3, <2>4, <2>5, PlainIsUnpaused
<1>7. Ok("upload_file")
  <2> DEFINE hand == Command("hand", "none", "abandon", "never")
             chooser == Command("down", "chooser", "answer", "before")
  <2>1. /\ hand \in FairCommands /\ hand.does = "hand"
        /\ chooser \in FairCommands /\ chooser.does = "down"
    BY DEF Command, FairCommands, Commands, Does, Inputs
  <2>2. Up("button") \in FairCommands /\ Up("button").does = "up"
        /\ Await \in FairCommands /\ Await.does \notin {"char", "pause"}
    BY CommandsAreFair DEF Inputs
  <2>3. Plain(<<chooser, Up("button"), Await>>)
    BY <2>1, <2>2 DEF Plain
  <2>4. Plain(<<hand>>)
    BY <2>1, PlainOnes
  <2>5. Plain((<<hand>> \o pressPaced(1, "before")) \o <<chooser, Up("button"), Await>>)
    BY <2>3, <2>4, PlainPresses, PlainTogether
  <2>6. program["upload_file"].prepare =
          (<<hand>> \o pressPaced(1, "before")) \o <<chooser, Up("button"), Await>>
    BY DEF program, Programs, upload_file, Program
  <2>7. QED
    BY <2>5, <2>6, PlainIsUnpaused
<1>8. \A p \in Programs : Stoppable(program[p].prepare) /\ (p # "type_text" => Ok(p))
  BY <1>1, <1>2, <1>3, <1>4, <1>5, <1>6, <1>7 DEF Programs, Unpaused
<1>9. QED
  BY <1>8

-----------------------------------------------------------------------------
(* What a call holds, and where its stream stops *)

Sends == tool \in InputTools \cup {"fill_form"}

CallTypes ==
    /\ step \in Nat /\ nav \in BOOLEAN /\ cut \in BOOLEAN /\ inflight \in BOOLEAN
    /\ Sends => field \in Programs
    /\ at \in {"kind", "step", "trigger", "leave"} => Sends
    /\ at = "step" => step >= 1
    /\ inflight => AtCommand /\ cmd.does \notin {"gap", "pause"}

\* The press that is not noted before it has returned.
Pending == IF inflight /\ cmd.owes = "after" THEN {cmd.input} ELSE {}

\* What is pressed is noted, on its way to a note, or nobody's.
HeldIsNoted ==
    /\ held \subseteq owed \cup unnoted \cup Pending
    /\ at \in {"idle", "kind", "lead"} => owed = {} /\ ~reserved
    /\ at = "release" => held \subseteq unnoted /\ ~reserved

\* A stream that was cut is at its end, and nothing takes the reason away.
CutIsTheEnd ==
    /\ at = "step" /\ cut => \/ field = "type_text"
                             \/ prog.wrapped /\ (nav \/ openedDialog) /\ ~AtCommand
    /\ at = "trigger" /\ cut => field = "type_text"

\* The character that strayed is under way, or its stream stops next.
StrayedIsTheLast ==
    /\ strayed \in {0, 1}
    /\ at = "step" /\ nav => prog.wrapped
    /\ at = "step" /\ strayed = 1 =>
         /\ nav
         /\ AtCommand => \/ inflight /\ cmd.does = "char"
                         \/ cmd.does = "gap"
                         \/ cmd.does = "pause" /\ step = Len(prog.prepare)

CInv == CallTypes /\ HeldIsNoted /\ CutIsTheEnd /\ StrayedIsTheLast

LEMMA CallFirst == Init => CInv
<1> SUFFICES ASSUME Init PROVE CInv
  OBVIOUS
<1>1. None \notin InputTools \cup {"fill_form"}
  BY ToolsAreTools DEF AllTools
<1>2. QED
  BY <1>1 DEF Init, CInv, CallTypes, HeldIsNoted, CutIsTheEnd, StrayedIsTheLast, Sends, Pending

\* The page and its dialogs wait for a stream that has just been cut.
LEMMA EventsKeepCalls ==
    ASSUME CInv, Page \/ Answers
    PROVE  CInv'
<1> DEFINE Leaves == /\ ~Urgent
                     /\ UNCHANGED <<held, tool, at, field, step, inflight, owed, reserved, before,
                                    unnoted, cut, strayed>>
<1>1. Leaves
  <2> USE DEF pageVars, waitVars, toolVars, history
  <2>1. ASSUME NEW d \in Dialogs, DialogOpens(d) PROVE Leaves
    BY <2>1 DEF DialogOpens
  <2>2. ASSUME NEW d \in Dialogs, AnswerBeforeUnload(d) PROVE Leaves
    BY <2>2 DEF AnswerBeforeUnload
  <2>3. CASE DialogClosedByHand \/ NavigationStarts \/ NavigationEnds
    BY <2>3 DEF DialogClosedByHand, NavigationStarts, NavigationEnds
  <2>4. CASE handleDialog \/ handleDialogReturns
    BY <2>4 DEF handleDialog, handleDialogReturns
  <2>5. QED
    BY <2>1, <2>2, <2>3, <2>4 DEF Page, Answers
<1>2. nav' = nav \/ nav' = (nav \/ (at = "step" /\ prog.wrapped))
  <2> USE DEF pageVars, waitVars, toolVars, history
  <2>1. ASSUME NEW d \in Dialogs, DialogOpens(d) PROVE nav' = nav
    BY <2>1 DEF DialogOpens
  <2>2. ASSUME NEW d \in Dialogs, AnswerBeforeUnload(d) PROVE nav' = nav
    BY <2>2 DEF AnswerBeforeUnload
  <2>3. CASE DialogClosedByHand \/ NavigationEnds
    BY <2>3 DEF DialogClosedByHand, NavigationEnds
  <2>4. CASE NavigationStarts
    BY <2>4 DEF NavigationStarts
  <2>5. CASE handleDialog \/ handleDialogReturns
    BY <2>5 DEF handleDialog, handleDialogReturns
  <2>6. QED
    BY <2>1, <2>2, <2>3, <2>4, <2>5 DEF Page, Answers
<1>3. prog' = prog /\ cmd' = cmd /\ (AtCommand' <=> AtCommand) /\ (Sends' <=> Sends)
      /\ Pending' = Pending
  BY <1>1 DEF prog, cmd, AtCommand, Sends, Pending
<1>4. at = "step" /\ cut => AtCommand
  BY <1>1 DEF Urgent
<1>5. CallTypes' /\ HeldIsNoted'
  BY <1>1, <1>2, <1>3 DEF CInv, CallTypes, HeldIsNoted
<1>6. CutIsTheEnd'
  BY <1>1, <1>3, <1>4 DEF CInv, CutIsTheEnd
<1>7. StrayedIsTheLast'
  BY <1>1, <1>2, <1>3 DEF CInv, CallTypes, StrayedIsTheLast
<1>8. QED
  BY <1>5, <1>6, <1>7 DEF CInv

LEMMA CommandFacts ==
    ASSUME CInv, at = "step"
    PROVE  /\ field \in Programs /\ Len(prog.prepare) \in Nat
           /\ AtCommand => step \in 1..Len(prog.prepare) /\ cmd \in FairCommands
           /\ field # "type_text" /\ AtCommand =>
                prog.prepare[Len(prog.prepare)] # Pause
<1>1. field \in Programs /\ step \in Nat /\ step >= 1
  BY DEF CInv, CallTypes
<1>2. prog.prepare \in Seq(FairCommands) /\ Stoppable(prog.prepare)
  BY <1>1, ProgramFacts DEF Stoppable, prog
<1>3. ASSUME AtCommand PROVE step \in 1..Len(prog.prepare) /\ cmd \in FairCommands
  BY <1>1, <1>2, <1>3 DEF AtCommand, cmd
<1>4. ASSUME AtCommand, field # "type_text" PROVE prog.prepare[Len(prog.prepare)].does # "pause"
  <2>1. Unpaused(prog.prepare)
    BY <1>1, <1>4, ProgramFacts DEF prog
  <2>2. Len(prog.prepare) \in 1..Len(prog.prepare)
    BY <1>2, <1>3, <1>4
  <2>3. QED
    BY <2>1, <2>2 DEF Unpaused
<1>5. Pause.does = "pause"
  BY CommandsAreFair
<1>6. QED
  BY <1>1, <1>2, <1>3, <1>4, <1>5

\* What follows a character.
LEMMA BehindACharacter ==
    ASSUME CInv, AtCommand, cmd.does = "char"
    PROVE  step + 1 <= Len(prog.prepare) =>
             \/ prog.prepare[step + 1].does = "gap"
             \/ prog.prepare[step + 1].does = "pause" /\ step + 1 = Len(prog.prepare)
<1>1. at = "step" /\ field \in Programs /\ step \in 1..Len(prog.prepare)
      /\ Len(prog.prepare) \in Nat
  BY CommandFacts DEF AtCommand
<1>2. Stoppable(prog.prepare)
  BY <1>1, ProgramFacts DEF prog
<1>3. QED
  BY <1>1, <1>2 DEF Stoppable, cmd

\* A step that ends the prepare stage, or is none of it.
LEMMA OutsideKeeps ==
    ASSUME CInv, CallTypes', HeldIsNoted', at' # "step",
           at' = "trigger" /\ cut' => field' = "type_text", strayed' \in {0, 1}
    PROVE  CInv'
  BY DEF CInv, CutIsTheEnd, StrayedIsTheLast

LEMMA BeginKeeps ==
    ASSUME CInv, NEW t \in Tools, Begin(t)
    PROVE  CInv'
<1>1. /\ at = "idle" /\ tool' = t /\ at' \in {"kind", "lead"} /\ (at' = "kind" => Sends')
      /\ UNCHANGED <<step, inflight, owed, reserved, nav, cut, held, unnoted, strayed>>
  BY DEF Begin, pageVars, waitVars, history, Sends, InputTools
<1>2. Sends' => field' \in Programs
  BY <1>1 DEF Begin, Sends, ways, InputTools, Programs
<1>3. ~inflight /\ Pending = {} /\ Pending' = {}
  BY <1>1 DEF CInv, CallTypes, AtCommand, Pending
<1>4. CallTypes' /\ HeldIsNoted'
  BY <1>1, <1>2, <1>3 DEF CInv, CallTypes, HeldIsNoted
<1>5. QED
  BY <1>1, <1>4, OutsideKeeps DEF CInv, StrayedIsTheLast

\* Steps that only move a call to another place outside the prepare stage.
LEMMA MovesKeep ==
    ASSUME CInv, at \notin {"step", "release"}, at' \notin {"step", "trigger", "release", "idle"},
           at' \in {"kind", "lead"} => at \in {"kind", "lead"},
           at' \in {"kind", "leave"} => Sends,
           UNCHANGED <<tool, field, step, inflight, owed, reserved, nav, cut, held, unnoted,
                       strayed>>
    PROVE  CInv'
<1>1. ~inflight /\ Pending = {} /\ Pending' = {} /\ (Sends' <=> Sends)
  BY DEF CInv, CallTypes, AtCommand, Pending, Sends
<1>2. CallTypes' /\ HeldIsNoted'
  BY <1>1 DEF CInv, CallTypes, HeldIsNoted
<1>3. QED
  BY <1>2, OutsideKeeps DEF CInv, StrayedIsTheLast

LEMMA WaitsKeep ==
    ASSUME CInv,
           \/ KindRead \/ TriggerEnds \/ TriggerEndsLeaving \/ ActionStarts \/ ActionEnds
           \/ HelperReturns \/ Settled \/ AnswersIn
    PROVE  CInv'
<1> USE DEF pageVars, waitVars, history
<1> USE MovesKeep
<1>1. CASE KindRead
  BY <1>1 DEF KindRead
<1>2. CASE TriggerEnds
  BY <1>2 DEF TriggerEnds
<1>3. CASE TriggerEndsLeaving
  BY <1>3 DEF TriggerEndsLeaving
<1>4. CASE ActionStarts
  BY <1>4 DEF ActionStarts
<1>5. CASE ActionEnds
  BY <1>5 DEF ActionEnds
<1>6. CASE HelperReturns
  BY <1>6 DEF HelperReturns
<1>7. CASE Settled
  BY <1>7 DEF Settled
<1>8. CASE AnswersIn
  BY <1>8 DEF AnswersIn
<1>9. QED
  BY <1>1, <1>2, <1>3, <1>4, <1>5, <1>6, <1>7, <1>8

LEMMA LeadPauseKeeps ==
    ASSUME CInv, LeadPause
    PROVE  CInv'
<1>1. /\ at = "lead" /\ Sends /\ at' = "step" /\ step' = 1 /\ nav' = FALSE /\ strayed' = 0
      /\ cut' = FALSE /\ UNCHANGED <<held, tool, field, inflight, owed, unnoted>>
  BY DEF LeadPause, Sends, pageVars
<1>2. ~inflight /\ (Sends' <=> Sends)
  BY <1>1 DEF CInv, CallTypes, AtCommand, Sends
<1>3. Pending = {} /\ Pending' = {}
  BY <1>1, <1>2 DEF Pending
<1>4. CallTypes'
  <2>1. step' \in Nat /\ step' >= 1
    BY <1>1
  <2>2. nav' \in BOOLEAN /\ cut' \in BOOLEAN
    BY <1>1
  <2>3. inflight' \in BOOLEAN /\ ~inflight'
    BY <1>1, <1>2 DEF CInv, CallTypes
  <2>4. Sends' /\ field' \in Programs
    BY <1>1, <1>2 DEF CInv, CallTypes
  <2>5. QED
    BY <2>1, <2>2, <2>3, <2>4 DEF CallTypes
<1>5. HeldIsNoted'
  BY <1>1, <1>3 DEF CInv, HeldIsNoted
<1>6. CutIsTheEnd' /\ StrayedIsTheLast'
  BY <1>1 DEF CutIsTheEnd, StrayedIsTheLast
<1>7. QED
  BY <1>4, <1>5, <1>6 DEF CInv

\* A gap and a pause: nothing is sent.
LEMMA StreamGapKeeps ==
    ASSUME CInv, StreamGap
    PROVE  CInv'
<1> DEFINE last == Len(prog.prepare)
           stops == last + IF prog.prepare[last] = Pause THEN 0 ELSE 1
<1>1. /\ AtCommand /\ at = "step" /\ cmd.does = "gap" /\ nav \in BOOLEAN /\ ~inflight
      /\ UNCHANGED <<at, held, tool, field, inflight, owed, unnoted, nav, strayed, reserved,
                     record, handled, before>>
  BY DEF StreamGap, AtCommand, pageVars, waitVars, CInv, CallTypes
<1>2. /\ last \in Nat /\ step \in 1..last
      /\ field # "type_text" => prog.prepare[last] # Pause
  BY <1>1, CommandFacts
<1>3. prog' = prog /\ (openedDialog' <=> openedDialog) /\ (Sends' <=> Sends)
      /\ Pending = {} /\ Pending' = {}
  BY <1>1 DEF prog, openedDialog, Sends, Pending
<1>4. /\ currentInterruption => step' = stops /\ cut' = TRUE
      /\ ~currentInterruption => step' = step + 1 /\ cut' = cut
  BY DEF StreamGap
<1>5. step' \in Nat /\ step' >= 1 /\ cut' \in BOOLEAN
  <2>1. stops \in Nat /\ stops >= 1 /\ step + 1 \in Nat /\ step + 1 >= 1
    <3>1. last >= 1 /\ last + 0 \in Nat /\ last + 1 \in Nat /\ last + 1 >= 1 /\ last + 0 >= 1
          /\ step + 1 \in Nat /\ step + 1 >= 1
      BY <1>2
    <3>2. stops = last + 0 \/ stops = last + 1
      <4>1. CASE prog.prepare[last] = Pause
        BY <4>1
      <4>2. CASE prog.prepare[last] # Pause
        BY <4>2
      <4>3. QED
        BY <4>1, <4>2
    <3> HIDE DEF stops
    <3>3. QED
      BY <3>1, <3>2
  <2>2. cut \in BOOLEAN
    BY DEF CInv, CallTypes
  <2>3. step' = stops \/ step' = step + 1
    <3>1. CASE currentInterruption
      BY <1>4, <3>1
    <3>2. CASE ~currentInterruption
      BY <1>4, <3>2
    <3>3. QED
      BY <3>1, <3>2
  <2>4. cut' = TRUE \/ cut' = cut
    BY <1>4
  <2>5. step' \in Nat /\ step' >= 1
    BY <2>1, <2>3
  <2>6. cut' \in BOOLEAN
    BY <2>2, <2>4
  <2>7. QED
    BY <2>5, <2>6
<1>6. CallTypes' /\ HeldIsNoted'
  BY <1>1, <1>3, <1>5 DEF CInv, CallTypes, HeldIsNoted
<1>7. CASE currentInterruption
  <2>1. prog.wrapped /\ (nav \/ openedDialog)
    BY <1>7 DEF currentInterruption
  <2>2. step' = stops /\ cut' = TRUE
    BY <1>4, <1>7
  <2>3. field # "type_text" => ~AtCommand'
    <3>1. field # "type_text" => stops = last + 1
      BY <1>2
    <3>2. field # "type_text" => ~(step' <= last)
      <4>1. ~(last + 1 <= last)
        BY <1>2
      <4>2. QED
        BY <2>2, <3>1, <4>1, Zenon
    <3>3. QED
      BY <1>3, <3>2 DEF AtCommand
  <2>4. CutIsTheEnd'
    BY <1>1, <1>3, <2>1, <2>3 DEF CutIsTheEnd
  <2>5. AtCommand' => step' = last /\ cmd'.does = "pause"
    <3>1. prog.prepare[last] # Pause => ~AtCommand'
      BY <1>2, <1>3, <2>2 DEF AtCommand
    <3>2. prog.prepare[last] = Pause => step' = last /\ cmd' = Pause
      BY <1>2, <1>3, <2>2 DEF cmd
    <3>3. QED
      BY <3>1, <3>2, CommandsAreFair
  <2>6. StrayedIsTheLast'
    BY <1>1, <1>3, <2>5 DEF CInv, StrayedIsTheLast
  <2>7. QED
    BY <1>6, <2>4, <2>6 DEF CInv
<1>8. CASE ~currentInterruption
  <2>1. strayed = 0
    BY <1>1, <1>8 DEF CInv, StrayedIsTheLast, currentInterruption
  <2>2. ~cut \/ field = "type_text"
    BY <1>1 DEF CInv, CutIsTheEnd
  <2>3. cut' = cut
    BY <1>4, <1>8
  <2>4. CutIsTheEnd'
    BY <1>1, <2>2, <2>3 DEF CutIsTheEnd
  <2>5. StrayedIsTheLast'
    BY <1>1, <1>3, <2>1 DEF CInv, StrayedIsTheLast
  <2>6. QED
    BY <1>6, <2>4, <2>5 DEF CInv
<1>9. QED
  BY <1>7, <1>8

LEMMA PauseKeeps ==
    ASSUME CInv, PauseOver
    PROVE  CInv'
<1>1. /\ AtCommand /\ at = "step" /\ cmd.does = "pause" /\ step' = step + 1 /\ ~inflight
      /\ UNCHANGED <<at, held, tool, field, inflight, owed, unnoted, nav, cut, strayed, reserved>>
  BY DEF PauseOver, AtCommand, pageVars, waitVars, history, CInv, CallTypes
<1>2. Len(prog.prepare) \in Nat /\ step \in 1..Len(prog.prepare)
  BY <1>1, CommandFacts
<1>3. prog' = prog /\ (Sends' <=> Sends) /\ Pending = {} /\ Pending' = {}
  BY <1>1 DEF prog, Sends, Pending
<1>4. CallTypes' /\ HeldIsNoted'
  BY <1>1, <1>2, <1>3 DEF CInv, CallTypes, HeldIsNoted
<1>5. CutIsTheEnd'
  BY <1>1 DEF CInv, CutIsTheEnd
<1>6. StrayedIsTheLast'
  <2>1. strayed = 1 => step = Len(prog.prepare) /\ nav
    BY <1>1 DEF CInv, StrayedIsTheLast
  <2>2. strayed = 1 => ~AtCommand'
    BY <1>1, <1>2, <1>3, <2>1 DEF AtCommand
  <2>3. QED
    BY <1>1, <1>3, <2>1, <2>2 DEF CInv, StrayedIsTheLast
<1>7. QED
  BY <1>4, <1>5, <1>6 DEF CInv

LEMMA DispatchKeeps ==
    ASSUME CInv, Dispatch
    PROVE  CInv'
<1>1. /\ AtCommand /\ at = "step" /\ ~inflight /\ inflight' = TRUE
      /\ cmd.does \notin {"gap", "pause"}
      /\ UNCHANGED <<at, tool, field, step, nav, cut, record, handled, before>>
  BY DEF Dispatch, AtCommand, waitVars
<1>2. cmd \in FairCommands
  BY <1>1, CommandFacts
<1>3. /\ prog' = prog /\ cmd' = cmd /\ (AtCommand' <=> AtCommand) /\ (Sends' <=> Sends)
      /\ (openedDialog' <=> openedDialog)
      /\ Pending = {} /\ Pending' = IF cmd.owes = "after" THEN {cmd.input} ELSE {}
  BY <1>1 DEF prog, cmd, AtCommand, Sends, openedDialog, Pending
<1>4. held \subseteq owed \cup unnoted
  BY <1>3 DEF CInv, HeldIsNoted
<1>5. /\ held' \subseteq held \cup (IF cmd.does = "down" THEN {cmd.input} ELSE {})
      /\ owed' = IF cmd.owes = "before" THEN owed \cup {cmd.input} ELSE owed
      /\ unnoted' = IF cmd.does = "down" /\ cmd.owes = "never"
                    THEN unnoted \cup {cmd.input} ELSE unnoted \cap held'
  <2>1. /\ held' = CASE cmd.does = "down" -> held \cup {cmd.input}
                     [] cmd.does \in {"up", "char"} -> held \ {cmd.input}
                     [] OTHER -> held
        /\ owed' = IF cmd.owes = "before" THEN owed \cup {cmd.input} ELSE owed
        /\ unnoted' = IF cmd.does = "down" /\ cmd.owes = "never"
                      THEN unnoted \cup {cmd.input} ELSE unnoted \cap held'
    BY DEF Dispatch
  <2>2. held' \subseteq held \cup (IF cmd.does = "down" THEN {cmd.input} ELSE {})
    BY <2>1
  <2>3. QED
    BY <2>1, <2>2
<1>6. cmd.owes \in {"before", "after", "never"}
  BY <1>2 DEF FairCommands, Commands
<1>7. HeldIsNoted'
  BY <1>1, <1>3, <1>4, <1>5, <1>6 DEF HeldIsNoted
<1>8. CallTypes'
  BY <1>1, <1>3 DEF CInv, CallTypes
<1>9. CutIsTheEnd'
  BY <1>1, <1>3 DEF CInv, CutIsTheEnd
<1>10. StrayedIsTheLast'
  <2>1. strayed = 0
    BY <1>1 DEF CInv, StrayedIsTheLast
  <2>2. strayed' = IF nav /\ cmd.does = "char" THEN 1 ELSE 0
    BY <2>1 DEF Dispatch
  <2>3. QED
    BY <1>1, <1>3, <2>2 DEF CInv, StrayedIsTheLast
<1>11. QED
  BY <1>7, <1>8, <1>9, <1>10 DEF CInv

\* Answered, given up on, or a file that could not be handed over: what is noted
\* once it has returned is noted now.
LEMMA GoesOnKeeps ==
    ASSUME CInv, InStep, GoesOn, Still, UNCHANGED <<held, unnoted>>
    PROVE  CInv'
<1>1. /\ AtCommand /\ at = "step" /\ inflight /\ inflight' = FALSE
      /\ owed' = IF cmd.owes = "after" THEN owed \cup {cmd.input} ELSE owed
      /\ step' = IF cmd.does = "hand" THEN Len(prog.prepare) + 1 ELSE step + 1
      /\ UNCHANGED <<at, tool, field, nav, cut, strayed, reserved, held, unnoted, record, handled,
                     before>>
  BY DEF InStep, AtCommand, GoesOn, Still, waitVars
<1>2. Len(prog.prepare) \in Nat /\ step \in 1..Len(prog.prepare)
  BY <1>1, CommandFacts
<1>3. prog' = prog /\ (Sends' <=> Sends) /\ Pending' = {}
  BY <1>1 DEF prog, Sends, Pending
<1>4. HeldIsNoted'
  <2>1. held \subseteq owed \cup unnoted \cup (IF cmd.owes = "after" THEN {cmd.input} ELSE {})
    BY <1>1 DEF CInv, HeldIsNoted, Pending
  <2>2. held' \subseteq owed' \cup unnoted'
    BY <1>1, <2>1
  <2>3. QED
    BY <1>1, <1>3, <2>2 DEF HeldIsNoted
<1>5. step' \in Nat /\ step' >= 1
  BY <1>1, <1>2
<1>6. CallTypes'
  BY <1>1, <1>3, <1>5 DEF CInv, CallTypes
<1>7. CutIsTheEnd'
  BY <1>1 DEF CInv, CutIsTheEnd
<1>8. ASSUME strayed = 1
      PROVE  AtCommand' => \/ cmd'.does = "gap"
                           \/ cmd'.does = "pause" /\ step' = Len(prog.prepare)
  <2>1. nav /\ cmd.does = "char"
    BY <1>1, <1>8, CommandFacts DEF CInv, StrayedIsTheLast, CallTypes
  <2>2. step' = step + 1
    BY <1>1, <2>1
  <2>3. AtCommand' => step + 1 <= Len(prog.prepare) /\ cmd' = prog.prepare[step + 1]
    BY <1>3, <2>2 DEF AtCommand, cmd
  <2>4. QED
    BY <1>1, <2>1, <2>2, <2>3, BehindACharacter
<1>9. StrayedIsTheLast'
  BY <1>1, <1>3, <1>8 DEF CInv, StrayedIsTheLast
<1>10. QED
  BY <1>4, <1>6, <1>7, <1>9 DEF CInv

\* A prepare stage that throws ends the call; a press it did not get to note is
\* nobody's from then on.
LEMMA ThrowsKeeps ==
    ASSUME CInv, at = "step", NEW why, Throws(why), Still, owed \subseteq owed',
           held' \subseteq owed \cup unnoted'
    PROVE  CInv'
<1>1. /\ at' = "cleanup" /\ inflight' = FALSE
      /\ UNCHANGED <<step, reserved, tool, field, nav, cut, strayed>>
  BY DEF Throws, Still, waitVars
<1>2. (Sends' <=> Sends) /\ Pending' = {}
  BY <1>1 DEF Sends, Pending
<1>3. CallTypes' /\ HeldIsNoted'
  BY <1>1, <1>2 DEF CInv, CallTypes, HeldIsNoted
<1>4. QED
  BY <1>1, <1>3, OutsideKeeps DEF CInv, StrayedIsTheLast

LEMMA AnswersKeep ==
    ASSUME CInv, Answered \/ GivenUp \/ Deadline \/ PressRefused
    PROVE  CInv'
<1>1. CASE Answered
  BY <1>1, GoesOnKeeps DEF Answered
<1>2. CASE GivenUp
  <2>1. CASE GoesOn
    BY <1>2, <2>1, GoesOnKeeps DEF GivenUp
  <2>2. CASE ~GoesOn
    <3>1. /\ InStep /\ cmd.guard = "answer" /\ Throws("interrupted") /\ Still
          /\ UNCHANGED <<owed, held, unnoted>>
      BY <1>2, <2>2 DEF GivenUp
    <3>2. AtCommand /\ at = "step"
      BY <3>1 DEF InStep, AtCommand
    <3>3. cmd.owes # "after"
      BY <3>1, <3>2, CommandFacts DEF FairCommands
    <3>4. held \subseteq owed \cup unnoted
      BY <3>3 DEF CInv, HeldIsNoted, Pending
    <3>5. QED
      BY <3>1, <3>2, <3>4, ThrowsKeeps
  <2>3. QED
    BY <2>1, <2>2
<1>3. CASE Deadline
  <2>1. /\ InStep /\ Throws("interrupted") /\ Still /\ owed' = owed
        /\ \/ /\ cmd.does = "char"
              /\ held' = held \cup {"key"} /\ unnoted' = unnoted \cup {"key"}
           \/ /\ held' = held
              /\ unnoted' = IF cmd.owes = "after" THEN unnoted \cup {cmd.input} ELSE unnoted
    BY <1>3 DEF Deadline
  <2>2. AtCommand /\ at = "step"
    BY <2>1 DEF InStep, AtCommand
  <2>3. cmd.does = "char" => cmd.owes # "after"
    BY <2>2, CommandFacts DEF FairCommands
  <2>4. held \subseteq owed \cup unnoted \cup (IF cmd.owes = "after" THEN {cmd.input} ELSE {})
    BY DEF CInv, HeldIsNoted, Pending
  <2>5. held' \subseteq owed \cup unnoted'
    BY <2>1, <2>3, <2>4
  <2>6. QED
    BY <2>1, <2>2, <2>5, ThrowsKeeps
<1>4. CASE PressRefused
  <2>1. /\ AtCommand /\ at = "step" /\ ~inflight /\ Throws("failed") /\ Still
        /\ owed \subseteq owed' /\ UNCHANGED <<held, unnoted>>
    BY <1>4 DEF PressRefused, PressedAlready, AtCommand
  <2>2. held \subseteq owed \cup unnoted
    BY <2>1 DEF CInv, HeldIsNoted, Pending
  <2>3. QED
    BY <2>1, <2>2, ThrowsKeeps
<1>5. QED
  BY <1>1, <1>2, <1>3, <1>4

LEMMA FailsKeeps ==
    ASSUME CInv, Fails
    PROVE  CInv'
<1>1. AtCommand /\ at = "step" /\ inflight /\ Still /\ UNCHANGED <<held, unnoted>>
  BY DEF Fails, InStep, AtCommand
<1>2. cmd \in FairCommands /\ Len(prog.prepare) \in Nat /\ step \in 1..Len(prog.prepare)
  BY <1>1, CommandFacts
<1>3. CASE cmd.guard = "plain" /\ Throws("failed") /\ owed' = owed
  <2>1. cmd.owes # "after"
    BY <1>2, <1>3 DEF FairCommands
  <2>2. held' \subseteq owed \cup unnoted'
    BY <1>1, <2>1 DEF CInv, HeldIsNoted, Pending
  <2>3. QED
    BY <1>1, <1>3, <2>2, ThrowsKeeps
<1>4. CASE /\ cmd.does = "hand" /\ open = None /\ step' = step + 1 /\ inflight' = FALSE
           /\ reserved' = TRUE /\ UNCHANGED <<at, owed, outcome>>
  <2>1. /\ UNCHANGED <<tool, field, nav, cut, strayed, record, handled, before>>
        /\ prog' = prog /\ (Sends' <=> Sends) /\ Pending' = {}
    BY <1>1, <1>4 DEF Still, waitVars, prog, Sends, Pending
  <2>2. cmd.owes # "after"
    BY <1>2, <1>4 DEF FairCommands
  <2>3. HeldIsNoted'
    BY <1>1, <1>4, <2>1, <2>2 DEF CInv, HeldIsNoted, Pending
  <2>4. step' \in Nat /\ step' >= 1
    BY <1>2, <1>4
  <2>5. CallTypes'
    BY <1>1, <1>4, <2>1, <2>4 DEF CInv, CallTypes
  <2>6. ~(strayed = 1)
    BY <1>1, <1>4 DEF CInv, StrayedIsTheLast, CallTypes
  <2>7. CutIsTheEnd' /\ StrayedIsTheLast'
    BY <1>1, <1>4, <2>1, <2>6 DEF CInv, CutIsTheEnd, StrayedIsTheLast
  <2>8. QED
    BY <2>3, <2>5, <2>7 DEF CInv
<1>5. QED
  BY <1>3, <1>4 DEF Fails

\* The trigger takes over the release it is, and a stream that was cut by a dialog
\* or a navigation has none.
LEMMA PrepareKeeps ==
    ASSUME CInv, PrepareReturns
    PROVE  CInv'
<1>1. /\ at = "step" /\ step > Len(prog.prepare)
      /\ UNCHANGED <<tool, field, step, inflight, reserved, nav, cut, strayed>>
  BY DEF PrepareReturns, waitVars
<1>2. /\ Len(prog.prepare) \in Nat /\ step \in Nat /\ ~AtCommand
  <2>1. Len(prog.prepare) \in Nat
    BY <1>1, CommandFacts
  <2>2. step \in Nat
    BY DEF CInv, CallTypes
  <2>3. QED
    BY <1>1, <2>1, <2>2 DEF AtCommand
<1>3. ~inflight /\ Pending = {} /\ Pending' = {} /\ (Sends' <=> Sends)
  BY <1>1, <1>2 DEF CInv, CallTypes, Pending, Sends
<1>4. held \subseteq owed \cup unnoted
  BY <1>3 DEF CInv, HeldIsNoted
<1>5. CASE at' = "cleanup" /\ UNCHANGED <<held, owed, unnoted>>
  <2>1. CallTypes' /\ HeldIsNoted'
    BY <1>1, <1>3, <1>4, <1>5 DEF CInv, CallTypes, HeldIsNoted
  <2>2. QED
    BY <1>1, <1>5, <2>1, OutsideKeeps DEF CInv, StrayedIsTheLast
<1>6. CASE /\ prog.wrapped /\ ~openedDialog
           /\ at' = IF nav THEN "leave" ELSE "trigger"
           /\ TriggerSent
  <2>1. held' \subseteq owed' \cup unnoted'
    BY <1>4, <1>6 DEF TriggerSent
  <2>2. Sends
    BY <1>1 DEF CInv, CallTypes
  <2>3. at' \in {"leave", "trigger"}
    BY <1>6
  <2>4. CallTypes' /\ HeldIsNoted'
    BY <1>1, <1>3, <2>1, <2>2, <2>3 DEF CInv, CallTypes, HeldIsNoted
  <2>5. at' = "trigger" /\ cut' => field' = "type_text"
    BY <1>1, <1>2, <1>6 DEF CInv, CutIsTheEnd
  <2>6. QED
    BY <1>1, <2>3, <2>4, <2>5, OutsideKeeps DEF CInv, StrayedIsTheLast
<1>7. QED
  BY <1>5, <1>6 DEF PrepareReturns

LEMMA CleanupKeeps ==
    ASSUME CInv, Cleanup
    PROVE  CInv'
<1>1. /\ at = "cleanup" /\ at' = "release" /\ reserved' = FALSE
      /\ held' = held \ owed /\ unnoted' = unnoted \ owed
      /\ UNCHANGED <<tool, field, step, inflight, owed, nav, cut, strayed>>
  BY DEF Cleanup, waitVars
<1>2. ~inflight /\ Pending = {} /\ Pending' = {} /\ (Sends' <=> Sends)
  BY <1>1 DEF CInv, CallTypes, AtCommand, Pending, Sends
<1>3. held \subseteq owed \cup unnoted
  BY <1>2 DEF CInv, HeldIsNoted
<1>4. CallTypes' /\ HeldIsNoted'
  BY <1>1, <1>2, <1>3 DEF CInv, CallTypes, HeldIsNoted
<1>5. QED
  BY <1>1, <1>4, OutsideKeeps DEF CInv, StrayedIsTheLast

LEMMA CallOverKeeps ==
    ASSUME CInv, CallOver
    PROVE  CInv'
<1>1. /\ at = "release" /\ at' \in {"kind", "idle"} /\ owed' = {} /\ step' = 0 /\ nav' = FALSE
      /\ strayed' = 0 /\ cut' = FALSE /\ UNCHANGED <<held, inflight, reserved, unnoted>>
  BY DEF CallOver, pageVars
<1>2. ~inflight /\ ~reserved /\ held \subseteq unnoted
  BY <1>1 DEF CInv, CallTypes, AtCommand, HeldIsNoted
<1>3. (at' = "kind" => Sends') /\ (Sends' => field' \in Programs)
  <2>1. CASE tool = "fill_form" /\ tool' = tool /\ at' = "kind"
             /\ field' \in ways("fill") \cup ways("toggle")
    BY <2>1 DEF Sends, ways, Programs
  <2>2. CASE at' = "idle" /\ tool' = None
    BY <2>2, ToolsAreTools DEF Sends, AllTools
  <2>3. QED
    BY <2>1, <2>2 DEF CallOver
<1>4. Pending' = {}
  BY <1>1, <1>2 DEF Pending
<1>5. CallTypes'
  <2>1. step' \in Nat /\ nav' \in BOOLEAN /\ cut' \in BOOLEAN /\ inflight' \in BOOLEAN
    BY <1>1, <1>2 DEF CInv, CallTypes
  <2>2. QED
    BY <1>1, <1>2, <1>3, <2>1 DEF CallTypes
<1>6. HeldIsNoted'
  BY <1>1, <1>2, <1>4 DEF HeldIsNoted
<1>7. QED
  BY <1>1, <1>5, <1>6, OutsideKeeps

LEMMA CallKept ==
    ASSUME CInv, [Next]_vars
    PROVE  CInv'
<1>1. ASSUME NEW t \in Tools, Begin(t) PROVE CInv'
  BY <1>1, BeginKeeps
<1>2. CASE LeadPause \/ StreamGap \/ PauseOver \/ Dispatch
  BY <1>2, LeadPauseKeeps, StreamGapKeeps, PauseKeeps, DispatchKeeps
<1>3. CASE Answered \/ GivenUp \/ Deadline \/ PressRefused \/ Fails
  BY <1>3, AnswersKeep, FailsKeeps
<1>4. CASE \/ KindRead \/ TriggerEnds \/ TriggerEndsLeaving \/ ActionStarts \/ ActionEnds
           \/ HelperReturns \/ Settled \/ AnswersIn
  BY <1>4, WaitsKeep
<1>5. CASE PrepareReturns \/ Cleanup \/ Release \/ ReleaseUnanswered
  <2>1. Release \/ ReleaseUnanswered => CallOver
    BY DEF Release, ReleaseUnanswered
  <2>2. QED
    BY <1>5, <2>1, PrepareKeeps, CleanupKeeps, CallOverKeeps
<1>6. CASE Page \/ Answers
  BY <1>6, EventsKeepCalls
<1>7. CASE UNCHANGED vars
  <2>1. /\ UNCHANGED <<held, tool, at, field, step, inflight, owed, reserved, nav, cut, unnoted,
                       strayed, record, handled, before>>
    BY <1>7 DEF vars, pageVars, waitVars, toolVars, history
  <2>2. /\ prog' = prog /\ cmd' = cmd /\ (AtCommand' <=> AtCommand) /\ (Sends' <=> Sends)
        /\ Pending' = Pending /\ (openedDialog' <=> openedDialog)
    BY <2>1 DEF prog, cmd, AtCommand, Sends, Pending, openedDialog
  <2>3. CallTypes' /\ HeldIsNoted'
    BY <2>1, <2>2 DEF CInv, CallTypes, HeldIsNoted
  <2>4. CutIsTheEnd' /\ StrayedIsTheLast'
    BY <2>1, <2>2 DEF CInv, CutIsTheEnd, StrayedIsTheLast
  <2>5. QED
    BY <2>3, <2>4 DEF CInv
<1>8. QED
  BY <1>1, <1>2, <1>3, <1>4, <1>5, <1>6, <1>7 DEF Next, Call

\* However a call of an input tool ends - answered, refused, given up on for a dialog
\* or at its deadline - nothing it took note of stays pressed (input.ts:1470).
THEOREM NothingIsHeldBetweenCalls == Spec => []NothingIsLeftHeld
<1>1. CInv => NothingIsLeftHeld
  <2>1. CInv /\ at = "idle" => Pending = {}
    BY DEF CInv, CallTypes, AtCommand, Pending
  <2>2. QED
    BY <2>1 DEF CInv, HeldIsNoted, NothingIsLeftHeld
<1>2. QED
  BY <1>1, CallFirst, CallKept, PTL DEF Spec

\* Whatever the page does between two characters, one strays at most, and a stream
\* that was cut is not finished by its trigger (McpPage.ts:636).
THEOREM InterruptedStreamsStop == Spec => []StreamsAreCutShort
<1>1. CInv => StreamsAreCutShort
  BY DEF CInv, CutIsTheEnd, StrayedIsTheLast, StreamsAreCutShort, CutStreamIsNotFinished,
         OneCharacterStrays
<1>2. QED
  BY <1>1, CallFirst, CallKept, PTL DEF Spec
-----------------------------------------------------------------------------
(* What the variables range over *)

\* A stream of no more than n commands.
Within(s, n) == s \in Seq(FairCommands) /\ Len(s) <= n

LEMMA WithinTogether ==
    ASSUME NEW m \in Nat, NEW n \in Nat, NEW s, NEW t, Within(s, m), Within(t, n)
    PROVE  Within(s \o t, m + n)
<1>1. /\ s \o t \in Seq(FairCommands) /\ Len(s \o t) = Len(s) + Len(t)
      /\ Len(s) \in Nat /\ Len(t) \in Nat
  BY DEF Within
<1>2. QED
  BY <1>1 DEF Within

LEMMA StreamsWithin ==
    /\ Within(travelToElement, 2) /\ Within(approachPaced, 4) /\ Within(fieldReady, 3)
    /\ Within(waitUntilReadyForTyping, 1) /\ Within(selectAllPaced, 3) /\ Within(typePaced, 4)
    /\ \A owes \in {"before", "after", "never"} :
         /\ Within(pressButtonPaced(1, owes), 1) /\ Within(pressButtonPaced(2, owes), 4)
<1> USE DEF Within
<1>1. Within(travelToElement, 2) /\ Within(<<Await>>, 1) /\ Within(<<Read>>, 1)
  BY CommandsAreFair DEF travelToElement
<1>2. Within(approachPaced, 4)
  <2>1. Within(<<Await>> \o travelToElement, 1 + 2)
    BY <1>1, WithinTogether
  <2>2. Within((<<Await>> \o travelToElement) \o <<Await>>, 3 + 1)
    BY <1>1, <2>1, WithinTogether
  <2>3. QED
    BY <2>2 DEF approachPaced
<1>3. Within(waitUntilReadyForTyping, 1)
  BY <1>1 DEF waitUntilReadyForTyping
<1>4. Within(fieldReady, 3)
  <2>1. Within(<<Read>> \o waitUntilReadyForTyping, 1 + 1)
    BY <1>1, <1>3, WithinTogether
  <2>2. Within((<<Read>> \o waitUntilReadyForTyping) \o <<Read>>, 2 + 1)
    BY <1>1, <2>1, WithinTogether
  <2>3. QED
    BY <2>2 DEF fieldReady
<1>5. Within(selectAllPaced, 3)
  BY CommandsAreFair DEF selectAllPaced, Inputs
<1>6. Within(typePaced, 4)
  BY CommandsAreFair DEF typePaced
<1>7. ASSUME NEW owes \in {"before", "after", "never"}
      PROVE  Within(pressButtonPaced(1, owes), 1) /\ Within(pressButtonPaced(2, owes), 4)
  <2>1. Down("button", owes) \in FairCommands /\ Up("button") \in FairCommands
        /\ Gap \in FairCommands
    BY CommandsAreFair DEF Inputs
  <2>2. QED
    BY <2>1 DEF pressButtonPaced
<1>8. QED
  BY <1>1, <1>2, <1>3, <1>4, <1>5, <1>6, <1>7

\* No program is longer than the bound the type invariant names.
LEMMA ProgramsAreShort == \A p \in Programs : Len(program[p].prepare) <= 19
<1> DEFINE Ok(p) == Within(program[p].prepare, 19)
<1>1. \A m \in 0 .. 19 : \A s : Within(s, m) => Within(s, 19)
  BY DEF Within
<1>2. \A m, n \in Nat : \A s, t : Within(s, m) /\ Within(t, n) => Within(s \o t, m + n)
  BY WithinTogether
<1>3. Within(<<Await>>, 1) /\ Within(<<Read>>, 1) /\ Within(<<Focus>>, 1) /\ Within(<<Pause>>, 1)
      /\ Within(<<Await, Read>>, 2) /\ Within(<<Focus, Read>>, 2)
  BY CommandsAreFair DEF Within
<1>4. ASSUME NEW owes \in {"before", "after", "never"}
      PROVE  Within(pressPaced(1, owes), 5) /\ Within(pressPaced(2, owes), 8)
  <2>1. Within(approachPaced \o pressButtonPaced(1, owes), 4 + 1)
    BY StreamsWithin, WithinTogether
  <2>2. Within(approachPaced \o pressButtonPaced(2, owes), 4 + 4)
    BY StreamsWithin, WithinTogether
  <2>3. QED
    BY <2>1, <2>2 DEF pressPaced
<1>5. Ok("click") /\ Ok("double_click")
  <2>1. Within(<<Await>> \o pressPaced(1, "before"), 1 + 5)
    BY <1>2, <1>3, <1>4
  <2>2. Within(<<Await>> \o pressPaced(2, "before"), 1 + 8)
    BY <1>2, <1>3, <1>4
  <2>3. /\ program["click"].prepare = <<Await>> \o pressPaced(1, "before")
        /\ program["double_click"].prepare = <<Await>> \o pressPaced(2, "before")
    BY DEF program, Programs, click, double_click, Program
  <2>4. QED
    BY <1>1, <2>1, <2>2, <2>3
<1>6. Ok("click_at")
  <2>1. Command("move", "none", "plain", "never") \in FairCommands
    BY DEF Command, FairCommands, Commands, Does, Inputs
  <2>2. Within(<<travelPaced, Command("move", "none", "plain", "never")>>, 2)
    BY <2>1, CommandsAreFair DEF Within
  <2>3. Within(pressPacedAt(1, "before"), 2 + 1)
    BY <2>2, StreamsWithin, WithinTogether DEF pressPacedAt
  <2>4. program["click_at"].prepare = pressPacedAt(1, "before")
    BY DEF program, Programs, click_at, Program
  <2>5. QED
    BY <1>1, <2>3, <2>4
<1>7. Ok("hover") /\ Ok("toggle") /\ Ok("toggle_unchanged")
  <2>1. Within(<<Await>> \o travelToElement, 1 + 2)
    BY <1>2, <1>3, StreamsWithin
  <2>2. Within(<<Await, Read>> \o pressPaced(1, "never"), 2 + 5)
    BY <1>2, <1>3, <1>4
  <2>3. /\ program["hover"].prepare = <<Await>> \o travelToElement
        /\ program["toggle"].prepare = <<Await, Read>> \o pressPaced(1, "never")
        /\ program["toggle_unchanged"].prepare = <<Await, Read>>
    BY DEF program, Programs, hover, toggle, toggle_unchanged, Program
  <2>4. QED
    BY <1>1, <1>3, <2>1, <2>2, <2>3
<1>8. /\ Ok("fill") /\ Ok("fill_continued") /\ Ok("fill_emptied") /\ Ok("fill_unchanged")
      /\ Ok("fill_one_shot")
  <2>1. Within(fieldReady \o <<Focus>>, 3 + 1) /\ Within(fieldReady \o <<Focus, Read>>, 3 + 2)
    BY <1>2, <1>3, StreamsWithin
  <2>2. Within((fieldReady \o <<Focus>>) \o selectAllPaced, 4 + 3)
        /\ Within((fieldReady \o <<Focus, Read>>) \o typePaced, 5 + 4)
    BY <1>2, <2>1, StreamsWithin
  <2>3. Within(((fieldReady \o <<Focus>>) \o selectAllPaced) \o typePaced, 7 + 4)
    BY <1>2, <2>2, StreamsWithin
  <2>4. /\ program["fill"].prepare = ((fieldReady \o <<Focus>>) \o selectAllPaced) \o typePaced
        /\ program["fill_continued"].prepare = (fieldReady \o <<Focus, Read>>) \o typePaced
        /\ program["fill_emptied"].prepare = (fieldReady \o <<Focus>>) \o selectAllPaced
        /\ program["fill_unchanged"].prepare = fieldReady
        /\ program["fill_one_shot"].prepare = <<Read>>
    BY DEF program, Programs, fill, fill_continued, fill_emptied, fill_unchanged, fill_one_shot,
           Program
  <2>5. QED
    BY <1>1, <1>3, <2>2, <2>3, <2>4, StreamsWithin
<1>9. Ok("type_text") /\ Ok("type_only") /\ Ok("press_key")
  <2>1. Within(waitUntilReadyForTyping \o typePaced, 1 + 4)
    BY <1>2, StreamsWithin
  <2>2. Within((waitUntilReadyForTyping \o typePaced) \o <<Pause>>, 5 + 1)
    BY <1>2, <1>3, <2>1
  <2>3. Down("key", "after") \in FairCommands
    BY CommandsAreFair DEF Inputs
  <2>4. Within(<<Down("key", "after")>>, 1)
    BY <2>3 DEF Within
  <2>5. /\ program["type_text"].prepare = (waitUntilReadyForTyping \o typePaced) \o <<Pause>>
        /\ program["type_only"].prepare = waitUntilReadyForTyping \o typePaced
        /\ program["press_key"].prepare = <<Down("key", "after")>>
    BY DEF program, Programs, type_text, type_only, press_key, Program
  <2>6. QED
    BY <1>1, <2>1, <2>2, <2>4, <2>5
<1>10. Ok("drag") /\ Ok("upload_file")
  <2> DEFINE down == Command("down", "button", "plain", "never")
             hand == Command("hand", "none", "abandon", "never")
             chooser == Command("down", "chooser", "answer", "before")
  <2>1. down \in FairCommands /\ hand \in FairCommands /\ chooser \in FairCommands
    BY DEF Command, FairCommands, Commands, Does, Inputs
  <2>2. Up("button") \in FairCommands /\ Await \in FairCommands
    BY CommandsAreFair DEF Inputs
  <2>3. Within(<<down>>, 1) /\ Within(<<hand>>, 1) /\ Within(<<chooser, Up("button"), Await>>, 3)
    BY <2>1, <2>2 DEF Within
  <2>4. Within(travelToElement \o <<down>>, 2 + 1) /\ Within(<<hand>> \o pressPaced(1, "before"), 1 + 5)
    BY <1>2, <1>4, <2>3, StreamsWithin
  <2>5. Within((<<hand>> \o pressPaced(1, "before")) \o <<chooser, Up("button"), Await>>, 6 + 3)
    BY <1>2, <2>3, <2>4
  <2>6. /\ program["drag"].prepare = travelToElement \o <<down>>
        /\ program["upload_file"].prepare =
             (<<hand>> \o pressPaced(1, "before")) \o <<chooser, Up("button"), Await>>
    BY DEF program, Programs, drag, upload_file, Program
  <2> HIDE DEF down, hand, chooser
  <2>7. QED
    BY <1>1, <2>4, <2>5, <2>6
<1>11. \A p \in Programs : Ok(p)
  BY <1>5, <1>6, <1>7, <1>8, <1>9, <1>10 DEF Programs
<1>12. QED
  BY <1>11 DEF Within

\* What the two invariants above leave open of the types.
RestTypes ==
    /\ leaving \in BOOLEAN /\ blocked \in BOOLEAN /\ beside \in BOOLEAN /\ reserved \in BOOLEAN
    /\ held \subseteq Inputs /\ owed \subseteq Inputs /\ unnoted \subseteq Inputs
    /\ tool \in Tools \cup {None} /\ at \in Places /\ field \in Programs \cup {None}
    /\ outcome \in Outcomes /\ before \in Dialogs \cup {None}
    /\ at = "idle" <=> tool = None
    /\ step <= 20

TInv == DInv /\ CInv /\ RestTypes

LEMMA RestFirst == Init => RestTypes
<1> SUFFICES ASSUME Init PROVE RestTypes
  OBVIOUS
<1>1. step <= 20 /\ at \in Places /\ outcome \in Outcomes
  BY DEF Init, Places, Outcomes
<1>2. /\ leaving \in BOOLEAN /\ blocked \in BOOLEAN /\ beside \in BOOLEAN /\ reserved \in BOOLEAN
      /\ held = {} /\ owed = {} /\ unnoted = {} /\ before = None
      /\ tool = None /\ at = "idle" /\ field = None
  BY DEF Init
<1>3. QED
  BY <1>1, <1>2 DEF RestTypes

\* The prepare stage ends one place behind its last command.
LEMMA StepWithin ==
    ASSUME CInv, AtCommand
    PROVE  /\ step + 1 <= 20 /\ Len(prog.prepare) + 1 <= 20 /\ Len(prog.prepare) + 0 <= 20
           /\ cmd.owes # "never" => cmd.does = "down"
           /\ cmd.does = "down" => cmd.input \in Inputs
           /\ cmd.owes \in {"before", "after", "never"}
<1>1. at = "step" /\ field \in Programs /\ step \in 1..Len(prog.prepare)
      /\ Len(prog.prepare) \in Nat /\ cmd \in FairCommands
  BY CommandFacts DEF AtCommand
<1>2. Len(prog.prepare) <= 19
  BY <1>1, ProgramsAreShort DEF prog
<1>3. /\ cmd.owes # "never" => cmd.does = "down"
      /\ cmd.does = "down" => cmd.input \in Inputs
      /\ cmd.owes \in {"before", "after", "never"}
  BY <1>1 DEF FairCommands, Commands
<1>4. QED
  BY <1>1, <1>2, <1>3

LEMMA PageKeepsRest ==
    ASSUME DInv, RestTypes, Page \/ Answers
    PROVE  RestTypes'
<1> USE DEF pageVars, waitVars, toolVars, history, RestTypes
<1>1. ASSUME NEW d \in Dialogs, DialogOpens(d) PROVE RestTypes'
  <2>1. /\ blocked' = (blocked \/ BlockObserved) /\ beside' = (AnswersUnderWay /\ open' # None)
        /\ UNCHANGED <<leaving, held, toolVars, before, unnoted>>
    BY <1>1 DEF DialogOpens
  <2>2. QED
    BY <2>1
<1>2. ASSUME NEW d \in Dialogs, AnswerBeforeUnload(d) PROVE RestTypes'
  <2>1. /\ beside' = (beside /\ open' # None)
        /\ UNCHANGED <<leaving, held, toolVars, before, blocked, unnoted>>
    BY <1>2 DEF AnswerBeforeUnload
  <2>2. QED
    BY <2>1
<1>3. CASE DialogClosedByHand \/ NavigationStarts \/ NavigationEnds
  BY <1>3 DEF DialogClosedByHand, NavigationStarts, NavigationEnds
<1>4. CASE handleDialog \/ handleDialogReturns
  BY <1>4 DEF handleDialog, handleDialogReturns
<1>5. QED
  BY <1>1, <1>2, <1>3, <1>4 DEF Page, Answers

LEMMA CallEndsKeepRest ==
    ASSUME CInv, RestTypes,
           (\E t \in Tools : Begin(t)) \/ Cleanup \/ Release \/ ReleaseUnanswered
    PROVE  RestTypes'
<1> USE DEF pageVars, waitVars, history, RestTypes
<1>1. ASSUME NEW t \in Tools, Begin(t) PROVE RestTypes'
  <2>1. /\ tool' = t /\ at' \in {"kind", "lead"}
        /\ UNCHANGED <<leaving, held, step, owed, reserved, outcome, before, blocked, unnoted,
                       beside>>
    BY <1>1 DEF Begin
  <2>2. field' \in Programs \cup {None}
    BY <1>1 DEF Begin, ways, InputTools, Programs
  <2>3. t # None
    BY ToolsAreTools
  <2>4. QED
    BY <2>1, <2>2, <2>3 DEF Places
<1>2. CASE Cleanup
  BY <1>2 DEF Cleanup, Places
<1>3. CASE Release \/ ReleaseUnanswered
  <2>1. CallOver
    BY <1>3 DEF Release, ReleaseUnanswered
  <2>2. /\ owed' = {} /\ step' = 0 /\ outcome' = "none" /\ before' = None /\ blocked' = FALSE
        /\ UNCHANGED <<leaving, held, reserved, unnoted, beside>>
    BY <2>1 DEF CallOver
  <2>3. \/ /\ at = "release" /\ at' = "kind" /\ tool' = tool
           /\ field' \in ways("fill") \cup ways("toggle")
        \/ at' = "idle" /\ tool' = None /\ field' = None
    BY <2>1 DEF CallOver
  <2>4. ways("fill") \cup ways("toggle") \subseteq Programs
    BY DEF ways, Programs
  <2>5. step' <= 20 /\ at' \in Places /\ outcome' \in Outcomes /\ field' \in Programs \cup {None}
    BY <2>2, <2>3, <2>4 DEF Places, Outcomes
  <2>6. tool' \in Tools \cup {None} /\ (at' = "idle" <=> tool' = None)
    BY <2>3
  <2>7. QED
    BY <2>2, <2>5, <2>6
<1>4. QED
  BY <1>1, <1>2, <1>3

\* The places between the beginning and the end of a call.
LEMMA WaitsKeepRest ==
    ASSUME CInv, DInv, RestTypes,
           \/ KindRead \/ LeadPause \/ TriggerEnds \/ TriggerEndsLeaving \/ ActionStarts
           \/ ActionEnds \/ HelperReturns \/ Settled \/ AnswersIn
    PROVE  RestTypes'
<1> USE DEF pageVars, waitVars, history, RestTypes, Places
<1>1. CASE KindRead
  BY <1>1 DEF KindRead, Outcomes
<1>2. CASE LeadPause
  <2>1. /\ at = "lead" /\ at' = "step" /\ step' = 1 /\ reserved' = (prog.wrapped /\ prog.travels)
        /\ before' = record /\ blocked' = FALSE
        /\ UNCHANGED <<leaving, held, tool, field, owed, outcome, unnoted, beside>>
    BY <1>2 DEF LeadPause
  <2>2. record \in Dialogs \cup {None}
    BY DEF DInv, DialogTypes
  <2>3. (prog.wrapped /\ prog.travels) \in BOOLEAN
    OBVIOUS
  <2>4. reserved' \in BOOLEAN /\ blocked' \in BOOLEAN
    BY <2>1, <2>3
  <2>5. step' <= 20 /\ at' \in Places
    BY <2>1
  <2>6. tool # None
    BY <2>1
  <2>7. QED
    BY <2>1, <2>2, <2>4, <2>5, <2>6
<1>3. CASE TriggerEnds
  BY <1>3 DEF TriggerEnds, Outcomes
<1>4. CASE TriggerEndsLeaving
  BY <1>4 DEF TriggerEndsLeaving, Outcomes
<1>5. CASE ActionStarts
  BY <1>5 DEF ActionStarts
<1>6. CASE ActionEnds
  BY <1>6 DEF ActionEnds, Outcomes
<1>7. CASE HelperReturns
  BY <1>7 DEF HelperReturns
<1>8. CASE Settled
  BY <1>8 DEF Settled
<1>9. CASE AnswersIn
  BY <1>9 DEF AnswersIn
<1>10. QED
  BY <1>1, <1>2, <1>3, <1>4, <1>5, <1>6, <1>7, <1>8, <1>9

\* The commands of the prepare stage.
LEMMA StageKeepsRest ==
    ASSUME CInv, RestTypes,
           \/ StreamGap \/ PauseOver \/ Dispatch \/ PressRefused \/ Answered \/ GivenUp
           \/ Deadline \/ Fails \/ PrepareReturns
    PROVE  RestTypes'
<1> USE DEF pageVars, waitVars, history, RestTypes
<1> DEFINE CmdOk == /\ cmd.owes # "never" => cmd.does = "down"
                    /\ cmd.does = "down" => cmd.input \in Inputs
                    /\ cmd.owes \in {"before", "after", "never"}
<1>1. AtCommand => CmdOk
  BY StepWithin
<1>2. "key" \in Inputs
  BY DEF Inputs
<1>3. ASSUME GoesOn, Still, AtCommand, at = "step", UNCHANGED <<held, unnoted>> PROVE RestTypes'
  <2>1. /\ owed' = IF cmd.owes = "after" THEN owed \cup {cmd.input} ELSE owed
        /\ step' = IF cmd.does = "hand" THEN Len(prog.prepare) + 1 ELSE step + 1
        /\ UNCHANGED <<leaving, blocked, beside, reserved, tool, at, field, outcome, before>>
    BY <1>3 DEF GoesOn, Still
  <2>2. owed' \subseteq Inputs
    BY <1>1, <1>3, <2>1
  <2>3. step' <= 20
    BY <1>3, <2>1, StepWithin
  <2>4. QED
    BY <1>3, <2>1, <2>2, <2>3
<1>4. ASSUME NEW why \in {"interrupted", "failed"}, Throws(why), Still, at = "step",
             held' \subseteq Inputs, owed' \subseteq Inputs, unnoted' \subseteq Inputs
      PROVE  RestTypes'
  <2>1. /\ at' = "cleanup" /\ outcome' \in {"dialog", why}
        /\ UNCHANGED <<leaving, blocked, beside, reserved, tool, field, before, step>>
    BY <1>4 DEF Throws, Still
  <2>2. QED
    BY <1>4, <2>1 DEF Places, Outcomes
<1>5. CASE StreamGap
  <2>1. /\ AtCommand
        /\ \/ step' = Len(prog.prepare) + IF prog.prepare[Len(prog.prepare)] = Pause THEN 0 ELSE 1
           \/ step' = step + 1
        /\ UNCHANGED <<leaving, blocked, beside, reserved, held, owed, unnoted, tool, at, field,
                       outcome, before>>
    BY <1>5 DEF StreamGap
  <2>2. step' = Len(prog.prepare) + 0 \/ step' = Len(prog.prepare) + 1 \/ step' = step + 1
    BY <2>1
  <2>3. step' <= 20
    BY <2>1, <2>2, StepWithin
  <2>4. QED
    BY <2>1, <2>3
<1>6. CASE PauseOver
  <2>1. AtCommand /\ step' = step + 1
        /\ UNCHANGED <<leaving, blocked, beside, reserved, held, owed, unnoted, tool, at, field,
                       outcome, before>>
    BY <1>6 DEF PauseOver
  <2>2. QED
    BY <2>1, StepWithin
<1>7. CASE Dispatch
  <2>1. /\ AtCommand
        /\ held' = CASE cmd.does = "down" -> held \cup {cmd.input}
                     [] cmd.does \in {"up", "char"} -> held \ {cmd.input}
                     [] OTHER -> held
        /\ owed' = IF cmd.owes = "before" THEN owed \cup {cmd.input} ELSE owed
        /\ unnoted' = IF cmd.does = "down" /\ cmd.owes = "never"
                      THEN unnoted \cup {cmd.input} ELSE unnoted \cap held'
        /\ reserved' = (reserved /\ cmd.does # "travel")
        /\ UNCHANGED <<leaving, blocked, beside, tool, at, field, step, outcome, before>>
    BY <1>7 DEF Dispatch
  <2>2. CmdOk
    BY <1>1, <2>1
  <2>3. held' \subseteq held \cup (IF cmd.does = "down" THEN {cmd.input} ELSE {})
    BY <2>1
  <2>4. held' \subseteq Inputs /\ owed' \subseteq Inputs /\ unnoted' \subseteq Inputs
    BY <2>1, <2>2, <2>3
  <2>5. reserved' \in BOOLEAN
    BY <2>1
  <2>6. QED
    BY <2>1, <2>4, <2>5
<1>8. CASE PressRefused
  <2>1. /\ AtCommand /\ Throws("failed") /\ Still /\ UNCHANGED <<held, unnoted>>
        /\ owed' = IF cmd.owes = "before" THEN owed \cup {cmd.input} ELSE owed
    BY <1>8 DEF PressRefused, PressedAlready
  <2>2. owed' \subseteq Inputs
    BY <1>1, <2>1
  <2>3. QED
    BY <1>4, <2>1, <2>2 DEF AtCommand
<1>9. CASE Answered
  BY <1>3, <1>9 DEF Answered, InStep, AtCommand
<1>10. CASE GivenUp
  <2>1. AtCommand /\ at = "step" /\ Still /\ UNCHANGED <<held, unnoted>>
    BY <1>10 DEF GivenUp, InStep, AtCommand
  <2>2. CASE GoesOn
    BY <1>3, <2>1, <2>2
  <2>3. CASE ~GoesOn
    <3>1. Throws("interrupted") /\ owed' = owed
      BY <1>10, <2>3 DEF GivenUp
    <3>2. QED
      BY <1>4, <2>1, <3>1
  <2>4. QED
    BY <2>2, <2>3
<1>11. CASE Deadline
  <2>1. /\ AtCommand /\ Throws("interrupted") /\ Still /\ owed' = owed
        /\ \/ held' = held \cup {"key"} /\ unnoted' = unnoted \cup {"key"}
           \/ /\ held' = held
              /\ unnoted' = IF cmd.owes = "after" THEN unnoted \cup {cmd.input} ELSE unnoted
    BY <1>11 DEF Deadline, InStep
  <2>2. held' \subseteq Inputs /\ unnoted' \subseteq Inputs
    BY <1>1, <1>2, <2>1
  <2>3. QED
    BY <1>4, <2>1, <2>2 DEF AtCommand
<1>12. CASE Fails
  <2>1. /\ AtCommand /\ Still /\ UNCHANGED <<held, unnoted>>
        /\ \/ Throws("failed") /\ owed' = owed
           \/ step' = step + 1 /\ reserved' = TRUE /\ UNCHANGED <<at, owed, outcome>>
    BY <1>12 DEF Fails, InStep
  <2>2. CASE Throws("failed") /\ owed' = owed
    BY <1>4, <2>1, <2>2 DEF AtCommand
  <2>3. CASE step' = step + 1 /\ reserved' = TRUE /\ UNCHANGED <<at, owed, outcome>>
    BY <2>1, <2>3, StepWithin DEF Still
  <2>4. QED
    BY <2>1, <2>2, <2>3
<1>13. CASE PrepareReturns
  <2>1. /\ at = "step" /\ at' \in {"cleanup", "leave", "trigger"} /\ outcome' \in {outcome, "dialog"}
        /\ UNCHANGED <<leaving, blocked, beside, reserved, tool, field, step, before>>
        /\ (UNCHANGED <<held, owed, unnoted>> \/ TriggerSent)
    BY <1>13 DEF PrepareReturns
  <2>2. held' \subseteq held /\ owed' \subseteq owed /\ unnoted' \subseteq unnoted
    BY <2>1 DEF TriggerSent
  <2>3. QED
    BY <2>1, <2>2 DEF Places, Outcomes
<1>14. QED
  BY <1>5, <1>6, <1>7, <1>8, <1>9, <1>10, <1>11, <1>12, <1>13

LEMMA RestKept ==
    ASSUME TInv, [Next]_vars
    PROVE  TInv'
<1>1. DInv' /\ CInv'
  BY DialogsKept, CallKept DEF TInv
<1>2. RestTypes'
  <2>1. CASE Page \/ Answers
    BY <2>1, PageKeepsRest DEF TInv
  <2>2. CASE Call
    BY <2>2, CallEndsKeepRest, WaitsKeepRest, StageKeepsRest DEF TInv, Call
  <2>3. CASE UNCHANGED vars
    BY <2>3 DEF TInv, RestTypes, vars, pageVars, waitVars, toolVars, history
  <2>4. QED
    BY <2>1, <2>2, <2>3 DEF Next
<1>3. QED
  BY <1>1, <1>2 DEF TInv

\* Every variable of a page and its call keeps its range: a call stands at one of its
\* places or is none, what it sends is a program of its tool within the bound on its
\* commands, and only a call in its prepare stage waits for a command (McpPage.ts:617).
THEOREM CallsKeepTheirRanges == Spec => []TypeOK
<1>1. TInv => TypeOK
  <2>1. ASSUME TInv PROVE TypeOK
    <3>1. step \in 0 .. 20 /\ strayed \in 0 .. 4
      <4>1. step \in Nat /\ strayed \in {0, 1} /\ step <= 20
        BY <2>1 DEF TInv, CInv, CallTypes, StrayedIsTheLast, RestTypes
      <4>2. QED
        BY <4>1
    <3>2. nav \in BOOLEAN /\ cut \in BOOLEAN /\ inflight \in BOOLEAN /\ (inflight => at = "step")
      BY <2>1 DEF TInv, CInv, CallTypes, AtCommand
    <3>3. (at = "idle") = (tool = None)
      BY <2>1 DEF TInv, RestTypes
    <3>4. QED
      BY <2>1, <3>1, <3>2, <3>3 DEF TInv, DInv, DialogTypes, RestTypes, TypeOK
  <2>2. QED
    BY <2>1
<1>2. Init => TInv
  BY DialogsFirst, CallFirst, RestFirst DEF TInv
<1>3. QED
  BY <1>1, <1>2, RestKept, PTL DEF Spec
=============================================================================
