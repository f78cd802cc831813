--------------------------- MODULE InputPrograms ---------------------------
(***************************************************************************)
(* What the input tools send to the page (src/tools/input.ts), as data: a  *)
(* program is the sequence of commands of the prepare stage, the trigger   *)
(* that is run under the navigation expectation, and the frame around it.  *)
(*                                                                         *)
(* A command names the input it works, how its answer is waited for and    *)
(* when the tool takes note that it owes a release:                        *)
(*   guard "abandon"  abandonIfBlocked: given up on for a dialog           *)
(*         "answer"   answerOrAbandon: the same, but it ends the tool      *)
(*         "plain"    awaited as it is, under puppeteer's own timeouts     *)
(*         "local"    nothing is sent                                      *)
(*   owes  "before"   the release is noted before the press is sent        *)
(*         "after"    once the press has returned                          *)
(*         "never"    no note, the trigger alone releases                  *)
(***************************************************************************)
EXTENDS Sequences

Inputs == {"button", "key", "chooser"}

Command(does, input, guard, owes) ==
    [does |-> does, input |-> input, guard |-> guard, owes |-> owes]

\* A round trip whose answer the tool needs.
Read == Command("read", "none", "answer", "never")
\* A wait of a locator: in view, standing still, enabled.
Await == Command("wait", "none", "plain", "never")
\* Where a paced stream looks whether it is to stop; behind a character it does
\* so in the same turn.
Gap == Command("gap", "none", "local", "never")
GapBehind == Command("gap", "key", "local", "never")
Down(input, owes) == Command("down", input, "abandon", owes)
Up(input) == Command("up", input, "abandon", "never")
Tap == Command("tap", "key", "abandon", "never")
\* A character of typePaced, with the Shift around it.
Character == Command("char", "key", "abandon", "never")
\* A pause inside the prepare stage.
Pause == Command("pause", "none", "local", "never")

(***************************************************************************)
(* The streams the tools share.                                            *)
(***************************************************************************)
\* travelToElement, travelPaced: the point is read, the pause reserved for the
\* way is taken, and the way is abandoned when the page stops it.
travelPaced == Command("travel", "none", "abandon", "never")
travelToElement == <<Read, travelPaced>>

\* approachPaced: into view, the way of the pointer, the locator's own move.
approachPaced == <<Await>> \o travelToElement \o <<Await>>

\* pressButtonPaced: every click but the last is complete; the button of the
\* last one stays down.
pressButtonPaced(clicks, owes) ==
    IF clicks = 1
    THEN <<Down("button", owes)>>
    ELSE <<Down("button", owes), Up("button"), Gap, Down("button", owes)>>

pressPaced(clicks, owes) == approachPaced \o pressButtonPaced(clicks, owes)

\* pressPacedAt: the last move to the spot is awaited as it is.
pressPacedAt(clicks, owes) ==
    <<travelPaced, Command("move", "none", "plain", "never")>>
    \o pressButtonPaced(clicks, owes)

\* typePaced, of two characters.
typePaced == <<Gap, Character, GapBehind, Character>>

\* selectAllPaced
selectAllPaced == <<Down("key", "after"), Tap, Up("key")>>

\* waitUntilReadyForTyping
waitUntilReadyForTyping == <<Await>>

(***************************************************************************)
(* The programs.  "wrapped" is whether waitForEventsAfterTrigger is around *)
(* them, "travels" its option pointerTravel.                               *)
(***************************************************************************)
Program(prepare, trigger, wrapped, travels) ==
    [prepare |-> prepare, trigger |-> trigger,
     wrapped |-> wrapped, travels |-> travels]

Nothing == Command("none", "none", "local", "never")

click == Program(<<Await>> \o pressPaced(1, "before"), Up("button"), TRUE, TRUE)

double_click ==
    Program(<<Await>> \o pressPaced(2, "before"), Up("button"), TRUE, TRUE)

click_at == Program(pressPacedAt(1, "before"), Up("button"), TRUE, TRUE)

hover == Program(<<Await>> \o travelToElement, Await, TRUE, TRUE)

\* buildFillAction of a checkbox, a radio button or a switch: the press has no
\* note of the release it owes.
toggle ==
    Program(<<Await, Read>> \o pressPaced(1, "never"), Up("button"), TRUE, TRUE)

toggle_unchanged == Program(<<Await, Read>>, Nothing, TRUE, TRUE)

\* buildFillAction of a text field, up to where what it holds decides.
fieldReady == <<Read>> \o waitUntilReadyForTyping \o <<Read>>

Focus == Command("focus", "none", "abandon", "never")

\* It holds something else, the beginning of the value, what is to go, or the
\* value itself.
fill ==
    Program(fieldReady \o <<Focus>> \o selectAllPaced \o typePaced,
            Character, TRUE, FALSE)

fill_continued ==
    Program(fieldReady \o <<Focus, Read>> \o typePaced, Character, TRUE, FALSE)

fill_emptied ==
    Program(fieldReady \o <<Focus>> \o selectAllPaced, Tap, TRUE, FALSE)

fill_unchanged == Program(fieldReady, Nothing, TRUE, FALSE)

\* A field with no stream of keys, and every field at full speed.
fill_one_shot == Program(<<Read>>, Await, TRUE, FALSE)

\* type_text with a key that submits: what was typed is read back before it;
\* and without.
type_text ==
    Program(waitUntilReadyForTyping \o typePaced \o <<Pause>>, Tap, TRUE, FALSE)

type_only ==
    Program(waitUntilReadyForTyping \o typePaced, Character, TRUE, FALSE)

press_key == Program(<<Down("key", "after")>>, Tap, TRUE, FALSE)

\* drag: the press and the way to the target are one call of puppeteer, and
\* so is the drop.
drag ==
    Program(travelToElement \o <<Command("down", "button", "plain", "never")>>,
            Up("button"), TRUE, TRUE)

\* upload_file over a proxy element: handing the file over failed, so the
\* chooser is intercepted and the element clicked.
upload_file ==
    Program(<<Command("hand", "none", "abandon", "never")>>
            \o pressPaced(1, "before")
            \o <<Command("down", "chooser", "answer", "before"),
                 Up("button"), Await>>,
            Nothing, FALSE, TRUE)

InputTools ==
    {"click", "double_click", "click_at", "hover", "toggle", "fill",
     "type_text", "press_key", "drag", "upload_file"}

\* The tools whose every command is given up on, or times out by itself, when
\* a dialog holds the page.
GuardedTools ==
    {"click", "double_click", "hover", "toggle", "fill", "type_text",
     "press_key"}

Programs ==
    {"click", "double_click", "click_at", "hover", "toggle", "toggle_unchanged",
     "fill", "fill_continued", "fill_emptied", "fill_unchanged",
     "fill_one_shot", "type_text", "type_only", "press_key", "drag",
     "upload_file"}

program ==
    [p \in Programs |->
        CASE p = "click" -> click
          [] p = "double_click" -> double_click
          [] p = "click_at" -> click_at
          [] p = "hover" -> hover
          [] p = "toggle" -> toggle
          [] p = "toggle_unchanged" -> toggle_unchanged
          [] p = "fill" -> fill
          [] p = "fill_continued" -> fill_continued
          [] p = "fill_emptied" -> fill_emptied
          [] p = "fill_unchanged" -> fill_unchanged
          [] p = "fill_one_shot" -> fill_one_shot
          [] p = "type_text" -> type_text
          [] p = "type_only" -> type_only
          [] p = "press_key" -> press_key
          [] p = "drag" -> drag
          [] p = "upload_file" -> upload_file]

\* What a tool may turn out to do, by what the page holds and the caller asks.
ways(t) ==
    CASE t = "toggle" -> {"toggle", "toggle_unchanged"}
      [] t = "fill" -> {"fill", "fill_continued", "fill_emptied",
                        "fill_unchanged", "fill_one_shot"}
      [] t = "type_text" -> {"type_text", "type_only"}
      [] OTHER -> {t}
=============================================================================
