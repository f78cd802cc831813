------------------------------- MODULE Answers -------------------------------
(***************************************************************************)
(* What a tool call answers (src/McpResponse.ts, and the way a tool's      *)
(* handler gets to it in src/ToolHandler.ts): the handler asks for parts,  *)
(* handle gets them all at once, and format writes them one behind the     *)
(* other, with an await for the title of every page it lists.              *)
(*                                                                         *)
(* The calls come one after the other, as the tool mutex has it; the call  *)
(* Beside is a handle_dialog and takes no notice of them.  Pages are opened*)
(* and closed at any time.                                                 *)
(***************************************************************************)
EXTENDS Integers, Sequences, FiniteSets, SequencesExt

CONSTANTS
    Calls, Beside,   \* the calls, and the one that is made beside the others
    AnswerPages,     \* pages of the browser
    AnswerTools,     \* the kinds of tools that are called
    None

\* What the answer of a tool is asked for, by the tools that ask for the same.
Asks == [
    pages     |-> {"pages", "tools"},    \* list_pages, select_page, navigate_page, ...
    dialog    |-> {"pages"},                       \* handle_dialog
    snapshot  |-> {"snapshot"},                    \* take_snapshot, wait_for, the input tools
    request   |-> {"request"},                     \* get_network_request
    requests  |-> {"network"},                     \* list_network_requests
    message   |-> {"message"},                     \* get_console_message
    messages  |-> {"console"},                     \* list_console_messages
    other     |-> {}]

VARIABLES
    listed,     \* the pages of the context
    selected,   \* the selected page, closed or not, or None
    fallback,   \* the selection was moved by the last snapshot of the pages
    running,    \* the call that holds the tool mutex, or None
    tool,       \* per call, its tool
    at,         \* per call, where it is
    parts,      \* per call, the parts that are under way
    failed,     \* per call, the handler threw
    titles,     \* per call, the pages still to be written
    marked,     \* per call, the pages it calls selected
    told,       \* per call, what its text says so far
    moved       \* history: per call, the selection moved while it was written

contextVars == <<listed, selected, fallback>>
textVars == <<titles, marked, told>>
answerVars == <<contextVars, running, tool, at, parts, failed, textVars, moved>>

Open == {"handler", "parts", "titles", "rest"}

Init ==
    /\ listed = SetToSeq(AnswerPages) /\ selected = Head(listed)
    /\ fallback = FALSE /\ running = None
    /\ tool = [c \in Calls |-> "other"] /\ at = [c \in Calls |-> "waiting"]
    /\ parts = [c \in Calls |-> {}] /\ failed = [c \in Calls |-> FALSE]
    /\ titles = [c \in Calls |-> <<>>] /\ marked = [c \in Calls |-> {}]
    /\ told = [c \in Calls |-> {}]
    /\ moved = [c \in Calls |-> FALSE]

\* The pages that are written while the selection moves.
Selects(p, isFallback) ==
    /\ selected' = p /\ fallback' = isFallback
    /\ moved' = [c \in Calls |-> moved[c] \/ (at[c] = "titles" /\ p # selected)]

PageOpens(p) ==
    /\ p \notin ToSet(listed) /\ listed' = Append(listed, p)
    /\ UNCHANGED <<selected, fallback, running, tool, at, parts, failed, textVars, moved>>

PageCloses(p) ==
    /\ \E i \in DOMAIN listed : listed[i] = p /\ listed' = RemoveAt(listed, i)
    /\ UNCHANGED <<selected, fallback, running, tool, at, parts, failed, textVars, moved>>

\* Defect for mutation: a call does not wait for the mutex.
BeginUnqueued(c, t) ==
    /\ at[c] = "waiting" /\ (c = Beside) = (t = "dialog")
    /\ running' = IF c = Beside THEN running ELSE c
    /\ tool' = [tool EXCEPT ![c] = t] /\ at' = [at EXCEPT ![c] = "handler"]
    /\ UNCHANGED <<contextVars, parts, failed, textVars, moved>>

\* The handler of a call, up to where it asks for the parts of its answer.
Begin(c, t) ==
    /\ at[c] = "waiting"
    /\ IF c = Beside THEN t = "dialog" /\ UNCHANGED running
       ELSE running = None /\ running' = c /\ t # "dialog"
    /\ tool' = [tool EXCEPT ![c] = t] /\ at' = [at EXCEPT ![c] = "handler"]
    /\ UNCHANGED <<contextVars, parts, failed, textVars, moved>>

\* A call is over and hands the mutex on; what it has under way runs on.
Ends(c, place) ==
    /\ at' = [at EXCEPT ![c] = place]
    /\ running' = IF c = Beside THEN running ELSE None

\* The handler returns or throws.  Of a selection that is closed getSelectedMcpPage
\* makes an error that goes past the answer.
HandlerReturns(c) ==
    /\ at[c] = "handler"
    /\ \E throws \in BOOLEAN :
        /\ failed' = [failed EXCEPT ![c] = throws]
        /\ IF selected \notin ToSet(listed) /\ tool[c] \in {"pages", "other"}
           THEN Ends(c, "failed") /\ UNCHANGED parts
           ELSE /\ at' = [at EXCEPT ![c] = "parts"] /\ UNCHANGED running
                /\ parts' = [parts EXCEPT ![c] = IF throws THEN {} ELSE Asks[tool[c]]]
        /\ IF tool[c] = "pages" /\ ~ throws
           THEN \E p \in ToSet(listed) \cup {selected} : Selects(p, FALSE)
           ELSE UNCHANGED <<selected, fallback, moved>>
    /\ UNCHANGED <<listed, tool, textVars>>

\* createPagesSnapshot: a selection that is gone moves to the first page.
createPagesSnapshot ==
    IF selected \in ToSet(listed) THEN Selects(selected, FALSE)
    ELSE Selects(IF listed = <<>> THEN None ELSE Head(listed), selected # None)

\* One part has what it needs, whether the call still waits for it or not.
PartIsIn(c, part) ==
    /\ part \in parts[c] /\ parts' = [parts EXCEPT ![c] = @ \ {part}]
    /\ IF part = "pages" THEN createPagesSnapshot ELSE UNCHANGED <<selected, fallback, moved>>
    /\ UNCHANGED <<listed, running, tool, at, failed, textVars>>

\* One part throws: with it the answer, though not the other parts.
PartThrows(c, part) ==
    /\ part \in parts[c] /\ parts' = [parts EXCEPT ![c] = @ \ {part}]
    /\ IF at[c] = "parts" THEN Ends(c, "failed") ELSE UNCHANGED <<at, running>>
    /\ UNCHANGED <<contextVars, tool, failed, textVars, moved>>

AllIsIn(c) == parts[c] = {}

\* format up to the first title: the note on the selection.
format(c) ==
    /\ at[c] = "parts" /\ AllIsIn(c)
    /\ told' = [told EXCEPT ![c] =
            IF "pages" \in Asks[tool[c]] /\ ~ failed[c] /\ fallback THEN {"fallback"} ELSE {}]
    /\ titles' = [titles EXCEPT ![c] =
            IF "pages" \in Asks[tool[c]] /\ ~ failed[c] THEN listed ELSE <<>>]
    /\ at' = [at EXCEPT ![c] = "titles"]
    /\ UNCHANGED <<contextVars, running, tool, parts, failed, marked, moved>>

\* The title of the next page is there, or a second is over.
fetchPageTitle(c) ==
    /\ at[c] = "titles" /\ titles[c] # <<>>
    /\ titles' = [titles EXCEPT ![c] = Tail(@)]
    /\ marked' = [marked EXCEPT ![c] = IF Head(titles[c]) = selected THEN @ \cup {selected} ELSE @]
    /\ UNCHANGED <<contextVars, running, tool, at, parts, failed, told, moved>>

toldInTheEnd(c) ==
    told[c] \cup (IF failed[c] THEN {"error"} ELSE Asks[tool[c]] \ {"pages"})

formatEnds(c) ==
    /\ at[c] = "titles" /\ titles[c] = <<>>
    /\ told' = [told EXCEPT ![c] = toldInTheEnd(c)]
    /\ Ends(c, "answered")
    /\ UNCHANGED <<contextVars, tool, parts, failed, titles, marked, moved>>

Next ==
    \/ \E p \in AnswerPages : PageOpens(p) \/ PageCloses(p)
    \/ \E c \in Calls :
        \/ \E t \in AnswerTools : Begin(c, t)
        \/ HandlerReturns(c) \/ format(c) \/ fetchPageTitle(c) \/ formatEnds(c)
        \/ \E part \in parts[c] : PartIsIn(c, part) \/ PartThrows(c, part)

Spec == Init /\ [][Next]_answerVars

----------------------------------------------------------------------------
TypeOK ==
    /\ ToSet(listed) \subseteq AnswerPages /\ selected \in AnswerPages \cup {None}
    /\ fallback \in BOOLEAN /\ running \in Calls \cup {None}
    /\ tool \in [Calls -> DOMAIN Asks]
    /\ at \in [Calls -> Open \cup {"waiting", "answered", "failed"}]
    /\ \A c \in Calls : /\ parts[c] \subseteq Asks[tool[c]]
                        /\ ToSet(titles[c]) \subseteq AnswerPages
                        /\ marked[c] \subseteq AnswerPages
    /\ failed \in [Calls -> BOOLEAN]

\* An answer lists one page as selected at most, though the selection is read
\* again behind every title: the calls keep each other from moving it, and only a
\* snapshot of the pages from beside the queue, or one that an answer which
\* failed has left running, moves it under the text.
OnePageIsSelected ==
    \A c \in Calls :
        /\ Cardinality(marked[c]) > 1 => moved[c]
        /\ moved[c] => \/ c = Beside \/ at[Beside] # "waiting"
                       \/ \E d \in Calls : d # c /\ at[d] = "failed"

\* Nothing of a call that was answered is under way behind its answer; what a
\* failed answer has left behind is all that runs beside the next call.
NothingRunsBehindAnAnswer ==
    \A c \in Calls : parts[c] # {} /\ at[c] # "parts" => at[c] = "failed"

\* An answer says what became of the call: every part it asked for, or the error
\* of its handler.
AnswersTellTheOutcome ==
    \A c \in Calls : at[c] = "answered" =>
        /\ failed[c] => "error" \in told[c]
        /\ ~ failed[c] => Asks[tool[c]] \ {"pages"} \subseteq told[c]
=============================================================================
