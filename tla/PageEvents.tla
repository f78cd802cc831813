----------------------------- MODULE PageEvents -----------------------------
(***************************************************************************)
(* One page and the tool that acts on it: McpPage.waitForEventsAfterTrigger*)
(* and waitForEventsAfterAction (src/McpPage.ts), WaitForHelper            *)
(* (src/WaitForHelper.ts), the two ways of giving up on a command          *)
(* (src/interruption.ts), the input tools (InputPrograms), navigate_page,  *)
(* evaluate_script, and handle_dialog, which comes in beside all of them.  *)
(* The page opens dialogs and navigates whenever it likes.                 *)
(***************************************************************************)
EXTENDS InputPrograms, Integers, FiniteSets

CONSTANTS
    Dialogs,       \* dialogs; one that is closed and forgotten is used again
    BeforeUnload,  \* those that ask before the page is left
    Tools,         \* the tools that are called
    None

AllTools ==
    InputTools \cup {"fill_form", "navigate_page", "evaluate_script", "navigate"}

ASSUME NoneIsNoDialog == None \notin Dialogs
ASSUME GuardsAreDialogs == BeforeUnload \subseteq Dialogs
ASSUME ToolsAreTools == Tools \subseteq AllTools /\ None \notin AllTools

VARIABLES
    \* the page
    open,      \* the dialog that pauses the renderer, or None
    leaving,   \* a navigation has started and not ended
    held,      \* the inputs that are pressed
    \* McpPage
    record,    \* #dialog
    handled,   \* of the dialogs it or an answer holds, those answered already
    \* the call that holds the tool mutex
    tool, at,  \* the tool and the place it has reached
    field,     \* what a fill_form is filling, or the tool itself
    step,      \* the command of the prepare stage
    inflight,  \* that command is sent and awaited
    owed,      \* inputs noted for release (release, heldModifiers, ...)
    before,    \* dialogBefore of the prepare stage's watch
    blocked,   \* the signal of #observeRendererBlock
    nav,       \* navigationStarted of the watch
    answers,   \* per dialog, the answer #answeringBeforeUnload gives
    reserved,  \* reservedLeadPauseMs
    outcome,   \* how the call ends
    \* handle_dialog
    reading,   \* the dialog it read and has answered, or None
    \* history
    unnoted,   \* inputs pressed without anybody noting the release they owe
    cut,       \* a stream of the prepare stage stopped where it stood
    beside,    \* the open dialog came while an answer to another was under way
    strayed    \* characters sent since the addressed document is leaving

pageVars == <<open, leaving, held>>
waitVars == <<before, blocked, nav, answers>>
toolVars == <<tool, at, field, step, inflight, owed, reserved, outcome>>
history == <<unnoted, cut, beside, strayed>>
vars == <<pageVars, record, handled, toolVars, waitVars, reading, history>>

Places == {"idle", "kind", "lead", "step", "trigger", "leave", "act", "window",
           "settle", "answers", "cleanup", "release"}

Outcomes == {"none", "dialog", "interrupted", "failed"}

prog == program[field]

----------------------------------------------------------------------------
(***************************************************************************)
(* The dialog on record.                                                   *)
(***************************************************************************)
throwIfDialogOpen == record # None /\ record \notin handled

openedDialog == record \notin {None, before} \cup handled

\* Defect for mutation: a navigation under way does not stop a stream.
currentInterruptionOfDialogs == prog.wrapped /\ openedDialog

\* The interruption check the watch of the prepare stage installs; upload_file
\* installs none.
currentInterruption == prog.wrapped /\ (nav \/ openedDialog)

Fresh(d) == d \notin {open, record, before, reading} /\ answers[d] = "no"

\* While the helper listens, and with which answer it meets a dialog.
HelperListens == at \in {"trigger", "act", "window"}

BlockObserved == at \in {"step", "trigger", "leave", "window", "settle"}
                 /\ tool \in InputTools \cup {"fill_form"} /\ prog.wrapped

\* Dialogs that are on record, or that an answer under way holds.
Referred(rec, given) == {d \in Dialogs: d = rec \/ given[d] # "no"}

AnswersUnderWay == reading # None \/ \E d \in Dialogs: answers[d] = "true"

\* The slim navigate answers a beforeunload dialog the moment it opens and
\* takes it off the record.
AcceptsAtOnce(d) == tool = "navigate" /\ at = "act" /\ d \in BeforeUnload

(***************************************************************************)
(* What follows an event without a turn of the event loop in between: a    *)
(* command is given up on, and the stream it belongs to looks whether it   *)
(* is to stop.                                                             *)
(***************************************************************************)
cmd == prog.prepare[step]

AtCommand == at = "step" /\ step <= Len(prog.prepare)

PressedAlready ==
    AtCommand /\ ~inflight /\ cmd.does = "down" /\ cmd.input = "button"
    /\ "button" \in held

InStep == AtCommand /\ inflight

Urgent ==
    \/ blocked /\ InStep /\ cmd.guard \in {"abandon", "answer"}
    \/ AtCommand /\ cmd.does = "gap" /\ cmd.input = "key"
    \/ at = "step" /\ ~AtCommand
       /\ (cut \/ prog.prepare[Len(prog.prepare)].does = "char")
    \/ at = "leave" /\ blocked

----------------------------------------------------------------------------
Init ==
    /\ open = None /\ leaving = FALSE /\ held = {}
    /\ record = None /\ handled = {}
    /\ tool = None /\ at = "idle" /\ field = None /\ step = 0 /\ inflight = FALSE
    /\ owed = {} /\ reserved = FALSE /\ outcome = "none"
    /\ before = None /\ blocked = FALSE /\ nav = FALSE
    /\ answers = [d \in Dialogs |-> "no"]
    /\ reading = None
    /\ unnoted = {} /\ cut = FALSE /\ beside = FALSE /\ strayed = 0

(***************************************************************************)
(* The page.                                                               *)
(***************************************************************************)
\* A dialog opens: McpPage's listener records it, the wait of an input tool is
\* signalled, the helper notes it and answers it if it was told how, and
\* #answeringBeforeUnload begins to read it.
DialogOpens(d) ==
    /\ ~Urgent /\ open = None /\ Fresh(d)
    /\ d \in BeforeUnload => leaving
    /\ record' = IF AcceptsAtOnce(d) THEN None ELSE d
    /\ blocked' = (blocked \/ BlockObserved)
    /\ answers' = IF tool = "navigate_page" /\ d \in BeforeUnload
                     /\ at \in {"act", "window", "settle", "answers"}
                  THEN [answers EXCEPT ![d] =
                            IF at = "answers" THEN "late" ELSE "reading"]
                  ELSE answers
    /\ LET kept == Referred(record', answers') IN
       IF AcceptsAtOnce(d) \/ (tool = "evaluate_script" /\ HelperListens)
       THEN open' = None /\ handled' = (handled \cup {d}) \cap kept
       ELSE open' = d /\ handled' = (handled \ {d}) \cap kept
    /\ beside' = (AnswersUnderWay /\ open' # None)
    /\ UNCHANGED <<leaving, held, toolVars, before, nav, reading, unnoted, cut,
                   strayed>>

\* A person closes the dialog in the window: nothing tells the server.
DialogClosedByHand ==
    /\ ~Urgent /\ open # None
    /\ open' = None /\ beside' = FALSE
    /\ UNCHANGED <<leaving, held, record, handled, toolVars, waitVars, reading,
                   unnoted, cut, strayed>>

\* A frame the interaction addresses, or one it sits in, starts a navigation
\* that is counted.
NavigationStarts ==
    /\ ~Urgent /\ ~leaving /\ open = None
    /\ leaving' = TRUE
    /\ nav' = (nav \/ (at = "step" /\ prog.wrapped))
    /\ UNCHANGED <<open, held, record, handled, toolVars, before, blocked,
                   answers, reading, history>>

NavigationEnds ==
    /\ ~Urgent /\ leaving /\ open = None
    /\ leaving' = FALSE
    /\ UNCHANGED <<open, held, record, handled, toolVars, waitVars, reading,
                   history>>

(***************************************************************************)
(* A call begins, under the tool mutex.                                    *)
(***************************************************************************)
\* ToolHandler.handle: a tool a dialog blocks is refused while one is open.
Begin(t) ==
    /\ at = "idle"
    /\ t \notin {"navigate_page", "navigate"} => ~throwIfDialogOpen
    /\ tool' = t
    /\ at' = IF t \in {"fill", "toggle", "fill_form", "drag"} THEN "kind"
             ELSE "lead"
    /\ field' \in IF t = "fill_form" THEN ways("fill") \cup ways("toggle")
                  ELSE IF t \in InputTools THEN ways(t) ELSE {None}
    /\ UNCHANGED <<pageVars, record, handled, step, inflight, owed, reserved,
                   outcome, waitVars, reading, history>>

\* isToggleElement, isIntersectingViewport: read in front of the wrapper, where
\* no dialog is watched for; unanswered, the call ends here.
KindRead ==
    /\ at = "kind"
    /\ \/ open = None /\ at' = "lead" /\ UNCHANGED outcome
       \/ at' = "cleanup" /\ outcome' = "interrupted"
    /\ UNCHANGED <<pageVars, record, handled, tool, field, step, inflight, owed,
                   reserved, waitVars, reading, history>>

\* The pause before the action is over.  An action whose pointer travels has
\* slept the fixed part of it and reserved the rest; then the observations
\* start.  upload_file first hands the file over, without any of this.
LeadPause ==
    /\ at = "lead" /\ tool \in InputTools \cup {"fill_form"}
    /\ at' = "step" /\ step' = 1
    /\ reserved' = (prog.wrapped /\ prog.travels)
    /\ before' = record /\ blocked' = FALSE /\ nav' = FALSE
    /\ strayed' = 0 /\ cut' = FALSE
    /\ UNCHANGED <<pageVars, record, handled, tool, field, inflight, owed,
                   outcome, answers, reading, unnoted, beside>>

----------------------------------------------------------------------------
(***************************************************************************)
(* The prepare stage.                                                      *)
(***************************************************************************)
\* A stream that is to stop stops between two characters or two clicks; only a
\* pause of the prepare stage is still waited out.
StreamGap ==
    /\ AtCommand /\ cmd.does = "gap"
    /\ IF currentInterruption
       THEN /\ cut' = TRUE
            /\ step' = Len(prog.prepare)
                       + IF prog.prepare[Len(prog.prepare)] = Pause THEN 0 ELSE 1
       ELSE step' = step + 1 /\ UNCHANGED cut
    /\ UNCHANGED <<pageVars, record, handled, tool, at, field, inflight, owed,
                   reserved, outcome, waitVars, reading, unnoted, beside, strayed>>

PauseOver ==
    /\ AtCommand /\ cmd.does = "pause"
    /\ step' = step + 1
    /\ UNCHANGED <<pageVars, record, handled, tool, at, field, inflight, owed,
                   reserved, outcome, waitVars, reading, history>>

\* One command is sent.  A way of the pointer takes the reserved pause, and is
\* not travelled once the page has stopped it.
Dispatch ==
    /\ AtCommand /\ cmd.does \notin {"gap", "pause"} /\ ~inflight /\ ~PressedAlready
    /\ inflight' = TRUE
    /\ held' = CASE cmd.does = "down" -> held \cup {cmd.input}
                 [] cmd.does \in {"up", "char"} -> held \ {cmd.input}
                 [] OTHER -> held
    /\ owed' = IF cmd.owes = "before" THEN owed \cup {cmd.input} ELSE owed
    /\ unnoted' = IF cmd.does = "down" /\ cmd.owes = "never"
                  THEN unnoted \cup {cmd.input} ELSE unnoted \cap held'
    /\ reserved' = (reserved /\ cmd.does # "travel")
    /\ strayed' = IF nav /\ cmd.does = "char" THEN strayed + 1 ELSE strayed
    /\ UNCHANGED <<open, leaving, record, handled, tool, at, field, step,
                   outcome, waitVars, reading, cut, beside>>

\* Defect for mutation: a command that was answered still counts as sent.
GoesOnSent ==
    /\ inflight' = inflight
    /\ owed' = IF cmd.owes = "after" THEN owed \cup {cmd.input} ELSE owed
    /\ step' = IF cmd.does = "hand" THEN Len(prog.prepare) + 1 ELSE step + 1
    /\ UNCHANGED <<at, outcome, reserved>>

\* The command is done with; a release it owes is noted by now.
GoesOn ==
    /\ inflight' = FALSE
    /\ owed' = IF cmd.owes = "after" THEN owed \cup {cmd.input} ELSE owed
    /\ step' = IF cmd.does = "hand" THEN Len(prog.prepare) + 1 ELSE step + 1
    /\ UNCHANGED <<at, outcome, reserved>>

\* The prepare stage throws: what the caller reads is the dialog, if one
\* opened, whatever the stage failed at.
Throws(why) ==
    /\ at' = "cleanup" /\ inflight' = FALSE
    /\ outcome' = IF prog.wrapped /\ openedDialog THEN "dialog" ELSE why
    /\ UNCHANGED <<step, reserved>>

Still == UNCHANGED <<open, leaving, record, handled, tool, field, waitVars,
                     reading, cut, beside, strayed>>

\* The renderer answers.
Answered ==
    /\ InStep /\ open = None
    /\ GoesOn
    /\ Still /\ UNCHANGED <<held, unnoted>>

\* The signal of a dialog cuts the wait short: abandonIfBlocked goes on,
\* answerOrAbandon ends the interaction.
GivenUp ==
    /\ InStep /\ blocked
    /\ \/ cmd.guard = "abandon" /\ GoesOn
       \/ cmd.guard = "answer" /\ Throws("interrupted") /\ UNCHANGED owed
    /\ Still /\ UNCHANGED <<held, unnoted>>

\* DISPATCH_DEADLINE_MS: both give up with a statement of their own.  A press
\* that is noted only once it has returned is then noted by nobody; so is the
\* Shift of a character that does not get as far as the character.
Deadline ==
    /\ InStep /\ cmd.guard \in {"abandon", "answer"}
    /\ Throws("interrupted") /\ UNCHANGED owed
    /\ \/ /\ cmd.does = "char"
          /\ held' = held \cup {"key"} /\ unnoted' = unnoted \cup {"key"}
       \/ /\ UNCHANGED held
          /\ unnoted' = IF cmd.owes = "after" THEN unnoted \cup {cmd.input}
                        ELSE unnoted
    /\ Still

\* The button is down already: puppeteer refuses to press it again.
PressRefused ==
    /\ PressedAlready
    /\ Throws("failed")
    /\ owed' = IF cmd.owes = "before" THEN owed \cup {cmd.input} ELSE owed
    /\ UNCHANGED <<held, unnoted>> /\ Still

\* A locator's wait times out, a command is refused; a file that cannot be
\* handed over is offered to a chooser, after a pause of its own.
Fails ==
    /\ InStep
    /\ \/ cmd.guard = "plain" /\ Throws("failed") /\ UNCHANGED owed
       \/ /\ cmd.does = "hand" /\ open = None
          /\ step' = step + 1 /\ inflight' = FALSE /\ reserved' = TRUE
          /\ UNCHANGED <<at, owed, outcome>>
    /\ Still /\ UNCHANGED <<held, unnoted>>

----------------------------------------------------------------------------
(***************************************************************************)
(* The trigger and the waits behind it.                                    *)
(***************************************************************************)
\* The trigger is sent: its release is no longer owed by anybody else.
TriggerSent ==
    IF prog.trigger.does = "up"
    THEN /\ held' = held \ {prog.trigger.input}
         /\ owed' = owed \ {prog.trigger.input}
         /\ unnoted' = unnoted \ {prog.trigger.input}
    ELSE UNCHANGED <<held, owed, unnoted>>

\* The prepare stage has returned: the watch is stopped, a dialog ends the
\* interaction, a navigation takes the trigger out of the helper's window.
PrepareReturns ==
    /\ at = "step" /\ step > Len(prog.prepare)
    /\ IF ~prog.wrapped
       THEN at' = "cleanup" /\ UNCHANGED <<held, owed, unnoted, outcome>>
       ELSE IF openedDialog
       THEN /\ at' = "cleanup" /\ outcome' = "dialog"
            /\ UNCHANGED <<held, owed, unnoted>>
       ELSE /\ at' = IF nav THEN "leave" ELSE "trigger"
            /\ TriggerSent
            /\ UNCHANGED outcome
    /\ UNCHANGED <<open, leaving, record, handled, tool, field, step, inflight,
                   reserved, waitVars, reading, cut, beside, strayed>>

\* The helper's action is over: answered, given up on for a dialog, or failed.
TriggerEnds ==
    /\ at = "trigger"
    /\ \/ /\ open = None \/ blocked \/ prog.trigger = Nothing
          /\ at' = "window" /\ UNCHANGED outcome
       \/ prog.trigger # Nothing /\ at' = "cleanup" /\ outcome' = "interrupted"
    /\ UNCHANGED <<pageVars, record, handled, tool, field, step, inflight, owed,
                   reserved, waitVars, reading, history>>

\* #finishAfterNavigationDuringPrepare: whatever became of the trigger, a
\* dialog is reported; otherwise the navigation and the DOM are waited out.
TriggerEndsLeaving ==
    /\ at = "leave"
    /\ IF openedDialog
       THEN at' = "cleanup" /\ outcome' = "dialog"
       ELSE at' = "settle" /\ UNCHANGED outcome
    /\ UNCHANGED <<pageVars, record, handled, tool, field, step, inflight, owed,
                   reserved, waitVars, reading, history>>

\* waitForEventsAfterAction of navigate_page and evaluate_script: the pause,
\* then the action inside the helper.
ActionStarts ==
    /\ at = "lead" /\ tool \in AllTools \ (InputTools \cup {"fill_form"})
    /\ at' = "act"
    /\ leaving' = (leaving \/ (tool # "evaluate_script" /\ open = None))
    /\ UNCHANGED <<open, held, record, handled, tool, field, step, inflight, owed,
                   reserved, outcome, before, blocked, nav, answers, reading,
                   history>>

\* The navigation succeeds or times out, and either is told in the answer; a
\* script returns, or fails with the connection.
ActionEnds ==
    /\ at = "act"
    /\ \/ /\ tool = "evaluate_script" => open = None
          /\ at' = IF tool = "navigate" THEN "cleanup" ELSE "window"
          /\ UNCHANGED outcome
       \/ tool = "evaluate_script" /\ at' = "cleanup" /\ outcome' = "failed"
    /\ UNCHANGED <<pageVars, record, handled, tool, field, step, inflight, owed,
                   reserved, waitVars, reading, history>>

\* The navigation that started in the window has ended or timed out; with no
\* dialog seen, the DOM is waited for, no longer than its timeout.
HelperReturns ==
    /\ at = "window"
    /\ at' = "settle"
    /\ UNCHANGED <<pageVars, record, handled, tool, field, step, inflight, owed,
                   reserved, outcome, waitVars, reading, history>>

Settled ==
    /\ at = "settle"
    /\ at' = IF tool = "navigate_page" THEN "answers" ELSE "cleanup"
    /\ UNCHANGED <<pageVars, record, handled, tool, field, step, inflight, owed,
                   reserved, outcome, waitVars, reading, history>>

----------------------------------------------------------------------------
(***************************************************************************)
(* Dialogs that are answered.                                              *)
(***************************************************************************)
\* The dialog has been read, and is answered; an answer to one that was closed
\* or answered meanwhile fails.
AnswerBeforeUnload(d) ==
    /\ ~Urgent /\ answers[d] \in {"reading", "late"}
    /\ LET lands == open # None /\ d \notin handled IN
       /\ answers' = [answers EXCEPT ![d] = CASE @ = "late" -> "no"
                                              [] lands -> "true"
                                              [] OTHER -> "false"]
       /\ open' = IF lands THEN None ELSE open
    /\ handled' = (handled \cup {d}) \cap Referred(record, answers')
    /\ beside' = (beside /\ open' # None)
    /\ UNCHANGED <<leaving, held, record, toolVars, before, blocked, nav, reading,
                   unnoted, cut, strayed>>

\* Defect for mutation: the record is cleared whatever was answered.
clearWhatever == record' = None

\* Promise.all over the answers, then navigate_page: an answer that went
\* through clears the record.
clearAnswered ==
    record' = IF \E d \in Dialogs: answers[d] = "true" THEN None ELSE record

AnswersIn ==
    /\ at = "answers" /\ \A d \in Dialogs: answers[d] # "reading"
    /\ clearAnswered
    /\ at' = "cleanup"
    /\ answers' = [d \in Dialogs |-> IF answers[d] = "late" THEN "late" ELSE "no"]
    /\ handled' = handled \cap Referred(record', answers')
    /\ UNCHANGED <<pageVars, tool, field, step, inflight, owed, reserved,
                   outcome, before, blocked, nav, reading, history>>

\* handle_dialog reads the dialog on record and answers it ...
handleDialog ==
    /\ ~Urgent /\ reading = None /\ record # None
    /\ reading' = record /\ handled' = handled \cup {record}
    /\ open' = IF record \in handled THEN open ELSE None
    /\ beside' = (beside /\ open' # None)
    /\ UNCHANGED <<leaving, held, record, toolVars, waitVars, unnoted, cut,
                   strayed>>

\* ... and clears the record when the answer is back.
handleDialogReturns ==
    /\ ~Urgent /\ reading # None
    /\ record' = None /\ reading' = None
    /\ handled' = handled \cap Referred(None, answers)
    /\ UNCHANGED <<pageVars, toolVars, waitVars, history>>

----------------------------------------------------------------------------
(***************************************************************************)
(* The end of a call.                                                      *)
(***************************************************************************)
\* Defect for mutation: a dialog ends the call without its finally blocks.
CleanupUnlessDialog ==
    /\ at = "cleanup"
    /\ reserved' = FALSE
    /\ held' = (IF outcome = "dialog" THEN held ELSE held \ owed)
    /\ unnoted' = unnoted \ owed
    /\ at' = "release"
    /\ UNCHANGED <<open, leaving, record, handled, tool, field, step, inflight,
                   owed, outcome, waitVars, reading, cut, beside, strayed>>

\* The finally blocks: what is left of a reserved pause is dropped, and what is
\* owed is released.
Cleanup ==
    /\ at = "cleanup"
    /\ reserved' = FALSE
    /\ held' = held \ owed /\ unnoted' = unnoted \ owed
    /\ at' = "release"
    /\ UNCHANGED <<open, leaving, record, handled, tool, field, step, inflight,
                   owed, outcome, waitVars, reading, cut, beside, strayed>>

\* The call is over; a fill_form that got through goes on to its next field.
CallOver ==
    /\ at = "release"
    /\ \/ /\ tool = "fill_form" /\ outcome = "none"
          /\ at' = "kind" /\ field' \in ways("fill") \cup ways("toggle")
          /\ UNCHANGED tool
       \/ at' = "idle" /\ tool' = None /\ field' = None
    /\ owed' = {} /\ step' = 0 /\ outcome' = "none"
    /\ before' = None /\ blocked' = FALSE /\ nav' = FALSE
    /\ strayed' = 0 /\ cut' = FALSE
    /\ UNCHANGED <<pageVars, record, handled, inflight, reserved, answers,
                   reading, unnoted, beside>>

\* Defect for mutation: the release is waited for whatever is open.
ReleaseAnswered == (owed = {} \/ open = None) /\ CallOver

\* releaseAfterAction waits for the answer, unless a dialog is open on record.
Release == (owed = {} \/ open = None \/ throwIfDialogOpen) /\ CallOver

\* A release nobody answers fails with the connection, which is caught.
ReleaseUnanswered == owed # {} /\ open # None /\ ~throwIfDialogOpen /\ CallOver

----------------------------------------------------------------------------
Page ==
    \/ \E d \in Dialogs: DialogOpens(d)
    \/ DialogClosedByHand \/ NavigationStarts \/ NavigationEnds

\* What needs neither an answer of the renderer nor a deadline on one.
OwnMoves ==
    \/ LeadPause \/ StreamGap \/ PauseOver \/ Dispatch \/ PressRefused \/ GivenUp
    \/ (Fails /\ cmd.does = "wait")
    \/ PrepareReturns \/ (TriggerEnds /\ (blocked \/ prog.trigger = Nothing)) \/ TriggerEndsLeaving
    \/ ActionStarts \/ HelperReturns \/ Settled \/ AnswersIn
    \/ Cleanup \/ Release

Call ==
    \/ \E t \in Tools: Begin(t)
    \/ KindRead \/ LeadPause \/ StreamGap \/ PauseOver \/ Dispatch
    \/ PressRefused \/ Answered \/ GivenUp \/ Deadline \/ Fails
    \/ PrepareReturns \/ TriggerEnds \/ TriggerEndsLeaving
    \/ ActionStarts \/ ActionEnds \/ HelperReturns \/ Settled \/ AnswersIn
    \/ Cleanup \/ Release \/ ReleaseUnanswered

Answers ==
    \/ \E d \in Dialogs: AnswerBeforeUnload(d)
    \/ handleDialog \/ handleDialogReturns

Next == Page \/ Call \/ Answers

Spec == Init /\ [][Next]_vars

\* The event loop and the timers of the server; nothing is asked of the page.
FairSpec == Spec /\ WF_vars(OwnMoves)

----------------------------------------------------------------------------
TypeOK ==
    /\ open \in Dialogs \cup {None} /\ leaving \in BOOLEAN
    /\ held \subseteq Inputs
    /\ record \in Dialogs \cup {None} /\ handled \subseteq Dialogs
    /\ tool \in Tools \cup {None} /\ at \in Places
    /\ field \in Programs \cup {None} /\ step \in 0 .. 20
    /\ inflight \in BOOLEAN /\ owed \subseteq Inputs /\ reserved \in BOOLEAN
    /\ outcome \in Outcomes
    /\ before \in Dialogs \cup {None} /\ blocked \in BOOLEAN /\ nav \in BOOLEAN
    /\ answers \in [Dialogs -> {"no", "reading", "late", "true", "false"}]
    /\ reading \in Dialogs \cup {None}
    /\ unnoted \subseteq Inputs /\ cut \in BOOLEAN /\ beside \in BOOLEAN
    /\ strayed \in 0 .. 4
    /\ inflight => at = "step"
    /\ (at = "idle") = (tool = None)

\* Between two calls nothing is held that somebody took note of, and no pause is
\* reserved for a way of the pointer nobody takes.  A toggle and a drag take no
\* note, nor is a key noted whose press missed its deadline.
NothingIsLeftHeld == at = "idle" => ~reserved /\ held \subseteq unnoted

\* The same of every press (input.ts: one "that never reached its release would
\* leave the button down for every later interaction with the page").
EveryPressIsReleased == at = "idle" => held = {}

\* The dialog that pauses the renderer is the one on record, so the next tool is
\* refused and handle_dialog finds it; kept unless it opened while the answer to
\* another one was under way.
RecordIsTheOpenDialog == open # None /\ ~beside => record = open

\* A stream that a dialog cut short is not finished by its trigger: a field does
\* not get its last character with a hole in front of it.  A submit key is left
\* out: there is a pause in front of it, in which the dialog may be answered.
CutStreamIsNotFinished == at = "trigger" /\ cut => field = "type_text"

\* A document that is leaving gets, of a stream, the character that was due and
\* no other: the next gap is where it stops.  The trigger comes on top of it.
OneCharacterStrays == strayed <= 1

\* A paced stream stops where a dialog or a navigation interrupts it.
StreamsAreCutShort == CutStreamIsNotFinished /\ OneCharacterStrays

\* A dialog on record holds the page and not the call: a tool that was signalled
\* one ends without an answer of the renderer and without a deadline on it.
EndsUnderAnOpenDialog ==
    \A d \in Dialogs:
        (open = d /\ record = d /\ blocked /\ tool \in GuardedTools)
            ~> (open # d \/ record # d \/ at = "idle")
=============================================================================
