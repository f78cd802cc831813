-------------------------- MODULE AnswerPartsProofs --------------------------
(***************************************************************************)
(* Proofs about the parts of AnswerParts.  The lemmas of a part are about  *)
(* its instance alone; the theorems at the end are of AnswerSpec.          *)
(***************************************************************************)
EXTENDS AnswerParts, FiniteSetTheorems, WellFoundedInduction, TLAPS

-----------------------------------------------------------------------------
(* Answers *)

AnswerTypes ==
    /\ at = [c \in AnswerCalls |-> at[c]] /\ tool = [c \in AnswerCalls |-> tool[c]]
    /\ parts = [c \in AnswerCalls |-> parts[c]] /\ failed \in [AnswerCalls -> BOOLEAN]
    /\ marked = [c \in AnswerCalls |-> marked[c]] /\ told = [c \in AnswerCalls |-> told[c]]
    /\ moved \in [AnswerCalls -> BOOLEAN]

\* The tool mutex: a call that is open holds it, unless it is the one beside the queue.
OneAtATime == \A c \in AnswerCalls \ {Beside} : at[c] \in AN!Open => running = c

\* Pages are called selected while titles are written, and one only while the selection
\* stays.
MarksAreSelected ==
    \A c \in AnswerCalls :
        /\ at[c] \notin {"titles", "answered"} => marked[c] = {}
        /\ at[c] = "titles" /\ ~moved[c] => marked[c] \subseteq {selected}
        /\ ~moved[c] => \E x : marked[c] \subseteq {x}

MovesAreExplained ==
    \A c \in AnswerCalls :
        moved[c] => \/ c = Beside \/ at[Beside] # "waiting"
                    \/ \E d \in AnswerCalls : d # c /\ at[d] = "failed"

AnswerInv ==
    /\ AnswerTypes /\ OneAtATime /\ MarksAreSelected /\ MovesAreExplained
    /\ AN!NothingRunsBehindAnAnswer /\ AN!AnswersTellTheOutcome

LEMMA AnswerFirst == AN!Init => AnswerInv
<1> SUFFICES ASSUME AN!Init PROVE AnswerInv
  OBVIOUS
<1>1. AnswerTypes
  BY DEF AN!Init, AnswerTypes
<1>2. OneAtATime
  BY DEF AN!Init, OneAtATime, AN!Open
<1>3. MarksAreSelected
  BY DEF AN!Init, MarksAreSelected
<1>4. MovesAreExplained
  BY DEF AN!Init, MovesAreExplained
<1>5. AN!NothingRunsBehindAnAnswer /\ AN!AnswersTellTheOutcome
  BY DEF AN!Init, AN!NothingRunsBehindAnAnswer, AN!AnswersTellTheOutcome
<1>6. QED
  BY <1>1, <1>2, <1>3, <1>4, <1>5 DEF AnswerInv

\* The selection is moved by a call at its handler or at a part: of the calls whose
\* titles are being written, that is not the one of the queue.
LEMMA SelectionMoves ==
    ASSUME AnswerInv, NEW d \in AnswerCalls,
           at[d] = "handler" \/ parts[d] # {},
           NEW p, NEW isFallback, AN!Selects(p, isFallback)
    PROVE  /\ moved' \in [AnswerCalls -> BOOLEAN]
           /\ \A c \in AnswerCalls : moved[c] => moved'[c]
           /\ \A c \in AnswerCalls : at[c] = "titles" /\ ~moved'[c] => ~moved[c] /\ selected' = selected
           /\ \A c \in AnswerCalls :
                moved'[c] => \/ c = Beside \/ at[Beside] # "waiting"
                             \/ \E e \in AnswerCalls : e # c /\ at[e] = "failed"
<1>1. /\ selected' = p
      /\ moved' = [c \in AnswerCalls |-> moved[c] \/ (at[c] = "titles" /\ p # selected)]
  BY DEF AN!Selects
<1>2. moved \in [AnswerCalls -> BOOLEAN]
  BY DEF AnswerInv, AnswerTypes
<1>3. \A c \in AnswerCalls : moved'[c] <=> moved[c] \/ (at[c] = "titles" /\ p # selected)
  BY <1>1
<1>4. moved' \in [AnswerCalls -> BOOLEAN]
  BY <1>1, <1>2
<1>5. at[d] = "handler" \/ at[d] = "parts" \/ at[d] = "failed"
  BY DEF AnswerInv, AN!NothingRunsBehindAnAnswer
<1>6. ASSUME NEW c \in AnswerCalls, at[c] = "titles"
      PROVE  \/ c = Beside \/ at[Beside] # "waiting"
             \/ \E e \in AnswerCalls : e # c /\ at[e] = "failed"
  <2>1. d # c
    BY <1>5, <1>6
  <2>2. CASE at[d] = "failed"
    BY <2>1, <2>2
  <2>3. CASE at[d] \in {"handler", "parts"}
    <3>1. SUFFICES ASSUME c # Beside, d # Beside PROVE FALSE
      BY <2>3
    <3>2. running = d /\ running = c
      BY <1>6, <2>3, <3>1 DEF AnswerInv, OneAtATime, AN!Open
    <3>3. QED
      BY <2>1, <3>2
  <2>4. QED
    BY <1>5, <2>2, <2>3
<1>7. QED
  BY <1>1, <1>3, <1>4, <1>6 DEF AnswerInv, MovesAreExplained

\* A call that ends.
LEMMA CallEnds ==
    ASSUME AnswerInv, NEW c \in AnswerCalls, NEW place, place \notin AN!Open,
           at[c] \in AN!Open, AN!Ends(c, place)
    PROVE  OneAtATime'
<1>1. at' = [at EXCEPT ![c] = place] /\ running' = IF c = Beside THEN running ELSE None
  BY DEF AN!Ends
<1>2. at'[c] = place /\ \A d \in AnswerCalls \ {c} : at'[d] = at[d]
  BY <1>1 DEF AnswerInv, AnswerTypes
<1>3. ASSUME NEW d \in AnswerCalls \ {Beside}, at'[d] \in AN!Open PROVE running' = d
  <2>1. d # c /\ at[d] \in AN!Open
    BY <1>2, <1>3
  <2>2. running = d
    BY <2>1 DEF AnswerInv, OneAtATime
  <2>3. c = Beside
    BY <2>1, <2>2 DEF AnswerInv, OneAtATime
  <2>4. QED
    BY <1>1, <2>2, <2>3
<1>4. QED
  BY <1>3 DEF OneAtATime
\* What a step of a call leaves to be seen of the others.
LEMMA CallBegins ==
    ASSUME AnswerInv, NEW c \in AnswerCalls, NEW t, AN!Begin(c, t)
    PROVE  AnswerInv'
<1>1. /\ at[c] = "waiting" /\ at' = [at EXCEPT ![c] = "handler"]
      /\ tool' = [tool EXCEPT ![c] = t]
      /\ IF c = Beside THEN running' = running ELSE running = None /\ running' = c
      /\ UNCHANGED <<selected, parts, failed, marked, told, moved>>
  BY DEF AN!Begin, AN!contextVars, AN!textVars
<1>2. /\ at'[c] = "handler" /\ \A d \in AnswerCalls \ {c} : at'[d] = at[d] /\ tool'[d] = tool[d]
      /\ at' = [d \in AnswerCalls |-> at'[d]] /\ tool' = [d \in AnswerCalls |-> tool'[d]]
  BY <1>1 DEF AnswerInv, AnswerTypes
<1>3. AnswerTypes'
  BY <1>1, <1>2 DEF AnswerInv, AnswerTypes
<1>4. OneAtATime'
  <2>1. ASSUME NEW d \in AnswerCalls \ {Beside}, at'[d] \in AN!Open PROVE running' = d
    <3>1. CASE d = c
      BY <1>1, <3>1
    <3>2. CASE d # c
      <4>1. running = d
        BY <1>2, <2>1, <3>2 DEF AnswerInv, OneAtATime
      <4>2. c = Beside
        BY <1>1, <4>1, CallsAreBeside
      <4>3. QED
        BY <1>1, <4>1, <4>2
    <3>3. QED
      BY <3>1, <3>2
  <2>2. QED
    BY <2>1 DEF OneAtATime
<1>5. MarksAreSelected'
  <2>1. SUFFICES ASSUME NEW d \in AnswerCalls
                 PROVE  /\ at'[d] \notin {"titles", "answered"} => marked[d] = {}
                        /\ at'[d] = "titles" /\ ~moved[d] => marked[d] \subseteq {selected}
                        /\ ~moved[d] => \E x : marked[d] \subseteq {x}
    BY <1>1 DEF MarksAreSelected
  <2>2. CASE d = c
    BY <1>1, <1>2, <2>2 DEF AnswerInv, MarksAreSelected
  <2>3. CASE d # c
    BY <1>2, <2>3 DEF AnswerInv, MarksAreSelected
  <2>4. QED
    BY <2>2, <2>3
<1>6. MovesAreExplained'
  <2>1. SUFFICES ASSUME NEW d \in AnswerCalls, moved[d], d # Beside, at'[Beside] = "waiting"
                 PROVE  \E e \in AnswerCalls : e # d /\ at'[e] = "failed"
    BY <1>1 DEF MovesAreExplained
  <2>2. at[Beside] = "waiting"
    BY <1>1, <1>2, <2>1, CallsAreBeside
  <2>3. PICK e \in AnswerCalls : e # d /\ at[e] = "failed"
    BY <2>1, <2>2 DEF AnswerInv, MovesAreExplained
  <2>4. QED
    BY <1>1, <1>2, <2>3
<1>7. AN!NothingRunsBehindAnAnswer'
  BY <1>1, <1>2 DEF AnswerInv, AN!NothingRunsBehindAnAnswer
<1>8. AN!AnswersTellTheOutcome'
  BY <1>1, <1>2 DEF AnswerInv, AN!AnswersTellTheOutcome
<1>9. QED
  BY <1>3, <1>4, <1>5, <1>6, <1>7, <1>8 DEF AnswerInv

\* A step of an open call, or of a part left behind, that takes it to another place,
\* or to none, and may move the selection.
Moves(c, place) ==
    /\ at[c] # "waiting" /\ at[c] # "titles" /\ at[c] # "answered"
    /\ at' = [at EXCEPT ![c] = place] /\ place \notin {"waiting", "titles", "answered"}
    /\ at[c] = "failed" => place = "failed"
    /\ parts' = [d \in AnswerCalls |-> parts'[d]]
    /\ \A d \in AnswerCalls \ {c} : parts'[d] = parts[d]
    /\ parts'[c] # {} => place \in {"parts", "failed"}
    /\ failed' \in [AnswerCalls -> BOOLEAN]
    /\ \A d \in AnswerCalls \ {c} : failed'[d] = failed[d]
    /\ at[c] = "handler" \/ parts[c] # {}
    /\ (\E p, f : AN!Selects(p, f)) \/ UNCHANGED <<selected, moved>>
    /\ UNCHANGED <<tool, marked, told>>

LEMMA SelectionIsTraced ==
    ASSUME AnswerInv, NEW c \in AnswerCalls, NEW place, Moves(c, place), OneAtATime'
    PROVE  AnswerInv'
<1>1. /\ at'[c] = place /\ \A d \in AnswerCalls \ {c} : at'[d] = at[d]
      /\ at' = [d \in AnswerCalls |-> at'[d]]
  BY DEF AnswerInv, AnswerTypes, Moves
<1>2. /\ moved' \in [AnswerCalls -> BOOLEAN]
      /\ \A d \in AnswerCalls : moved[d] => moved'[d]
      /\ \A d \in AnswerCalls : at[d] = "titles" /\ ~moved'[d] => ~moved[d] /\ selected' = selected
      /\ \A d \in AnswerCalls :
            moved'[d] => \/ d = Beside \/ at[Beside] # "waiting"
                         \/ \E e \in AnswerCalls : e # d /\ at[e] = "failed"
  <2>1. CASE UNCHANGED <<selected, moved>>
    BY <2>1 DEF AnswerInv, AnswerTypes, MovesAreExplained
  <2>2. ASSUME NEW p, NEW f, AN!Selects(p, f)
        PROVE  /\ moved' \in [AnswerCalls -> BOOLEAN]
               /\ \A d \in AnswerCalls : moved[d] => moved'[d]
               /\ \A d \in AnswerCalls :
                    at[d] = "titles" /\ ~moved'[d] => ~moved[d] /\ selected' = selected
               /\ \A d \in AnswerCalls :
                    moved'[d] => \/ d = Beside \/ at[Beside] # "waiting"
                                 \/ \E e \in AnswerCalls : e # d /\ at[e] = "failed"
    <3>1. at[c] = "handler" \/ parts[c] # {}
      BY DEF Moves
    <3>2. QED
      BY <2>2, <3>1, SelectionMoves
  <2>3. QED
    BY <2>1, <2>2 DEF Moves
<1>3. AnswerTypes'
  BY <1>1, <1>2 DEF AnswerInv, AnswerTypes, Moves
<1>4. MarksAreSelected'
  <2>1. SUFFICES ASSUME NEW d \in AnswerCalls
                 PROVE  /\ at'[d] \notin {"titles", "answered"} => marked[d] = {}
                        /\ at'[d] = "titles" /\ ~moved'[d] => marked[d] \subseteq {selected'}
                        /\ ~moved'[d] => \E x : marked[d] \subseteq {x}
    BY DEF MarksAreSelected, Moves
  <2>2. CASE d = c
    BY <1>1, <1>2, <2>2 DEF AnswerInv, MarksAreSelected, Moves
  <2>3. CASE d # c
    BY <1>1, <1>2, <2>3 DEF AnswerInv, MarksAreSelected
  <2>4. QED
    BY <2>2, <2>3
<1>5. MovesAreExplained'
  <2>1. SUFFICES ASSUME NEW d \in AnswerCalls, moved'[d], d # Beside, at'[Beside] = "waiting"
                 PROVE  \E e \in AnswerCalls : e # d /\ at'[e] = "failed"
    BY DEF MovesAreExplained
  <2>2. at[Beside] = "waiting"
    BY <1>1, <2>1, CallsAreBeside DEF Moves
  <2>3. PICK e \in AnswerCalls : e # d /\ at[e] = "failed"
    BY <1>2, <2>1, <2>2
  <2>4. at'[e] = "failed"
    BY <1>1, <2>3 DEF Moves
  <2>5. QED
    BY <2>3, <2>4
<1>6. AN!NothingRunsBehindAnAnswer'
  BY <1>1 DEF AnswerInv, AN!NothingRunsBehindAnAnswer, Moves
<1>7. AN!AnswersTellTheOutcome'
  <2>1. SUFFICES ASSUME NEW d \in AnswerCalls, at'[d] = "answered"
                 PROVE  /\ failed'[d] => "error" \in told[d]
                        /\ ~failed'[d] => AN!Asks[tool[d]] \ {"pages"} \subseteq told[d]
    BY DEF AN!AnswersTellTheOutcome, Moves
  <2>2. d # c /\ at[d] = "answered" /\ failed'[d] = failed[d]
    BY <1>1, <2>1 DEF Moves
  <2>3. QED
    BY <2>2 DEF AnswerInv, AN!AnswersTellTheOutcome
<1>8. QED
  BY <1>3, <1>4, <1>5, <1>6, <1>7 DEF AnswerInv

\* A call that stays open, or as it is.
LEMMA CallStays ==
    ASSUME AnswerInv, NEW c \in AnswerCalls, NEW place,
           at' = [at EXCEPT ![c] = place], place \in AN!Open => at[c] \in AN!Open,
           UNCHANGED running
    PROVE  OneAtATime'
  BY DEF AnswerInv, AnswerTypes, OneAtATime

LEMMA HandlerIsOver ==
    ASSUME AnswerInv, NEW c \in AnswerCalls, AN!HandlerReturns(c)
    PROVE  AnswerInv'
<1>1. at[c] = "handler" /\ UNCHANGED <<tool, marked, told>>
  BY DEF AN!HandlerReturns, AN!textVars
<1>2. PICK throws \in BOOLEAN :
        /\ failed' = [failed EXCEPT ![c] = throws]
        /\ \/ AN!Ends(c, "failed") /\ UNCHANGED parts
           \/ /\ at' = [at EXCEPT ![c] = "parts"] /\ UNCHANGED running
              /\ parts' = [parts EXCEPT ![c] = IF throws THEN {} ELSE AN!Asks[tool[c]]]
        /\ (\E p, f : AN!Selects(p, f)) \/ UNCHANGED <<selected, fallback, moved>>
  BY Zenon DEF AN!HandlerReturns
<1>3. failed' \in [AnswerCalls -> BOOLEAN] /\ \A d \in AnswerCalls \ {c} : failed'[d] = failed[d]
  BY <1>2 DEF AnswerInv, AnswerTypes
<1>4. (\E p, f : AN!Selects(p, f)) \/ UNCHANGED <<selected, moved>>
  BY <1>2
<1>5. parts = [d \in AnswerCalls |-> parts[d]] /\ (parts[c] # {} => FALSE)
  BY <1>1 DEF AnswerInv, AnswerTypes, AN!NothingRunsBehindAnAnswer
<1>6. CASE AN!Ends(c, "failed") /\ UNCHANGED parts
  <2>1. Moves(c, "failed")
    BY <1>1, <1>3, <1>4, <1>5, <1>6 DEF Moves, AN!Ends
  <2>2. OneAtATime'
    BY <1>1, <1>6, CallEnds DEF AN!Open
  <2>3. QED
    BY <2>1, <2>2, SelectionIsTraced
<1>7. CASE /\ at' = [at EXCEPT ![c] = "parts"] /\ UNCHANGED running
           /\ parts' = [parts EXCEPT ![c] = IF throws THEN {} ELSE AN!Asks[tool[c]]]
  <2>1. parts' = [d \in AnswerCalls |-> parts'[d]] /\ \A d \in AnswerCalls \ {c} : parts'[d] = parts[d]
    BY <1>5, <1>7
  <2>2. Moves(c, "parts")
    BY <1>1, <1>3, <1>4, <1>7, <2>1 DEF Moves
  <2>3. OneAtATime'
    BY <1>1, <1>7, CallStays DEF AN!Open
  <2>4. QED
    BY <2>2, <2>3, SelectionIsTraced
<1>8. QED
  BY <1>2, <1>6, <1>7

LEMMA PartIsOver ==
    ASSUME AnswerInv, NEW c \in AnswerCalls, NEW a \in parts[c],
           AN!PartIsIn(c, a) \/ AN!PartThrows(c, a)
    PROVE  AnswerInv'
<1>1. /\ parts' = [parts EXCEPT ![c] = @ \ {a}] /\ UNCHANGED <<tool, marked, told, failed>>
      /\ parts[c] # {} /\ (at[c] = "parts" \/ at[c] = "failed")
  BY DEF AN!PartIsIn, AN!PartThrows, AN!textVars, AnswerInv, AN!NothingRunsBehindAnAnswer
<1>2. /\ parts' = [d \in AnswerCalls |-> parts'[d]]
      /\ \A d \in AnswerCalls \ {c} : parts'[d] = parts[d]
      /\ failed' \in [AnswerCalls -> BOOLEAN]
      /\ at = [at EXCEPT ![c] = at[c]]
  BY <1>1 DEF AnswerInv, AnswerTypes
<1>3. CASE AN!PartIsIn(c, a)
  <2>1. (\E p, f : AN!Selects(p, f)) \/ UNCHANGED <<selected, moved>>
    BY <1>3 DEF AN!PartIsIn, AN!createPagesSnapshot
  <2>2. UNCHANGED <<at, running>>
    BY <1>3 DEF AN!PartIsIn
  <2>3. Moves(c, at[c])
    BY <1>1, <1>2, <2>1, <2>2 DEF Moves
  <2>4. OneAtATime'
    BY <2>2 DEF AnswerInv, OneAtATime
  <2>5. QED
    BY <2>3, <2>4, SelectionIsTraced
<1>4. CASE AN!PartThrows(c, a)
  <2>1. UNCHANGED <<selected, moved>>
    BY <1>4 DEF AN!PartThrows, AN!contextVars
  <2>2. CASE at[c] = "parts"
    <3>1. AN!Ends(c, "failed")
      BY <1>4, <2>2 DEF AN!PartThrows
    <3>2. Moves(c, "failed")
      BY <1>1, <1>2, <2>1, <2>2, <3>1 DEF Moves, AN!Ends
    <3>3. OneAtATime'
      BY <2>2, <3>1, CallEnds DEF AN!Open
    <3>4. QED
      BY <3>2, <3>3, SelectionIsTraced
  <2>3. CASE at[c] # "parts"
    <3>1. UNCHANGED <<at, running>>
      BY <1>4, <2>3 DEF AN!PartThrows
    <3>2. Moves(c, at[c])
      BY <1>1, <1>2, <2>1, <3>1 DEF Moves
    <3>3. OneAtATime'
      BY <3>1 DEF AnswerInv, OneAtATime
    <3>4. QED
      BY <3>2, <3>3, SelectionIsTraced
  <2>4. QED
    BY <2>2, <2>3
<1>5. QED
  BY <1>3, <1>4

LEMMA TitlesBegin ==
    ASSUME AnswerInv, NEW c \in AnswerCalls, AN!format(c)
    PROVE  AnswerInv'
<1>1. /\ at[c] = "parts" /\ parts[c] = {} /\ at' = [at EXCEPT ![c] = "titles"]
      /\ \E T : told' = [told EXCEPT ![c] = T]
      /\ UNCHANGED <<selected, running, tool, parts, failed, marked, moved>>
  BY DEF AN!format, AN!AllIsIn, AN!contextVars
<1>2. /\ at'[c] = "titles" /\ \A d \in AnswerCalls \ {c} : at'[d] = at[d] /\ told'[d] = told[d]
      /\ at' = [d \in AnswerCalls |-> at'[d]] /\ told' = [d \in AnswerCalls |-> told'[d]]
  BY <1>1 DEF AnswerInv, AnswerTypes
<1>3. AnswerTypes'
  BY <1>1, <1>2 DEF AnswerInv, AnswerTypes
<1>4. OneAtATime'
  BY <1>1, CallStays DEF AN!Open
<1>5. MarksAreSelected'
  <2>1. SUFFICES ASSUME NEW d \in AnswerCalls
                 PROVE  /\ at'[d] \notin {"titles", "answered"} => marked[d] = {}
                        /\ at'[d] = "titles" /\ ~moved[d] => marked[d] \subseteq {selected}
                        /\ ~moved[d] => \E x : marked[d] \subseteq {x}
    BY <1>1 DEF MarksAreSelected
  <2>2. CASE d = c
    BY <1>1, <1>2, <2>2 DEF AnswerInv, MarksAreSelected
  <2>3. CASE d # c
    BY <1>2, <2>3 DEF AnswerInv, MarksAreSelected
  <2>4. QED
    BY <2>2, <2>3
<1>6. MovesAreExplained'
  <2>1. SUFFICES ASSUME NEW d \in AnswerCalls, moved[d], d # Beside, at'[Beside] = "waiting"
                 PROVE  \E e \in AnswerCalls : e # d /\ at'[e] = "failed"
    BY <1>1 DEF MovesAreExplained
  <2>2. at[Beside] = "waiting"
    BY <1>1, <1>2, <2>1, CallsAreBeside
  <2>3. PICK e \in AnswerCalls : e # d /\ at[e] = "failed"
    BY <2>1, <2>2 DEF AnswerInv, MovesAreExplained
  <2>4. QED
    BY <1>1, <1>2, <2>3
<1>7. AN!NothingRunsBehindAnAnswer'
  BY <1>1, <1>2 DEF AnswerInv, AN!NothingRunsBehindAnAnswer
<1>8. AN!AnswersTellTheOutcome'
  BY <1>1, <1>2 DEF AnswerInv, AN!AnswersTellTheOutcome
<1>9. QED
  BY <1>3, <1>4, <1>5, <1>6, <1>7, <1>8 DEF AnswerInv

LEMMA TitleIsWritten ==
    ASSUME AnswerInv, NEW c \in AnswerCalls, AN!fetchPageTitle(c)
    PROVE  AnswerInv'
<1>1. /\ at[c] = "titles"
      /\ \/ marked' = [marked EXCEPT ![c] = marked[c]]
         \/ marked' = [marked EXCEPT ![c] = marked[c] \cup {selected}]
      /\ UNCHANGED <<selected, running, tool, at, parts, failed, told, moved>>
  BY DEF AN!fetchPageTitle, AN!contextVars
<1>2. /\ marked' = [d \in AnswerCalls |-> marked'[d]]
      /\ \A d \in AnswerCalls \ {c} : marked'[d] = marked[d]
      /\ marked'[c] \subseteq marked[c] \cup {selected}
  BY <1>1 DEF AnswerInv, AnswerTypes
<1>3. AnswerTypes'
  BY <1>1, <1>2 DEF AnswerInv, AnswerTypes
<1>4. MarksAreSelected'
  <2>1. SUFFICES ASSUME NEW d \in AnswerCalls
                 PROVE  /\ at[d] \notin {"titles", "answered"} => marked'[d] = {}
                        /\ at[d] = "titles" /\ ~moved[d] => marked'[d] \subseteq {selected}
                        /\ ~moved[d] => \E x : marked'[d] \subseteq {x}
    BY <1>1 DEF MarksAreSelected
  <2>2. CASE d = c
    <3>1. ~moved[c] => marked'[c] \subseteq {selected}
      BY <1>1, <1>2 DEF AnswerInv, MarksAreSelected
    <3>2. QED
      BY <1>1, <2>2, <3>1
  <2>3. CASE d # c
    BY <1>2, <2>3 DEF AnswerInv, MarksAreSelected
  <2>4. QED
    BY <2>2, <2>3
<1>5. QED
  BY <1>1, <1>3, <1>4 DEF AnswerInv, OneAtATime, MovesAreExplained,
     AN!NothingRunsBehindAnAnswer, AN!AnswersTellTheOutcome

LEMMA TextEnds ==
    ASSUME AnswerInv, NEW c \in AnswerCalls, AN!formatEnds(c)
    PROVE  AnswerInv'
<1>1. /\ at[c] = "titles" /\ AN!Ends(c, "answered")
      /\ told' = [told EXCEPT ![c] = AN!toldInTheEnd(c)]
      /\ UNCHANGED <<selected, tool, parts, failed, marked, moved>>
  BY DEF AN!formatEnds, AN!contextVars
<1>2. /\ at'[c] = "answered" /\ told'[c] = AN!toldInTheEnd(c)
      /\ \A d \in AnswerCalls \ {c} : at'[d] = at[d] /\ told'[d] = told[d]
      /\ at' = [d \in AnswerCalls |-> at'[d]] /\ told' = [d \in AnswerCalls |-> told'[d]]
  BY <1>1 DEF AnswerInv, AnswerTypes, AN!Ends
<1>3. AnswerTypes'
  BY <1>1, <1>2 DEF AnswerInv, AnswerTypes
<1>4. OneAtATime'
  BY <1>1, CallEnds DEF AN!Open
<1>5. MarksAreSelected'
  <2>1. SUFFICES ASSUME NEW d \in AnswerCalls
                 PROVE  /\ at'[d] \notin {"titles", "answered"} => marked[d] = {}
                        /\ at'[d] = "titles" /\ ~moved[d] => marked[d] \subseteq {selected}
                        /\ ~moved[d] => \E x : marked[d] \subseteq {x}
    BY <1>1 DEF MarksAreSelected
  <2>2. CASE d = c
    BY <1>1, <1>2, <2>2 DEF AnswerInv, MarksAreSelected
  <2>3. CASE d # c
    BY <1>2, <2>3 DEF AnswerInv, MarksAreSelected
  <2>4. QED
    BY <2>2, <2>3
<1>6. MovesAreExplained'
  <2>1. SUFFICES ASSUME NEW d \in AnswerCalls, moved[d], d # Beside, at'[Beside] = "waiting"
                 PROVE  \E e \in AnswerCalls : e # d /\ at'[e] = "failed"
    BY <1>1 DEF MovesAreExplained
  <2>2. at[Beside] = "waiting"
    BY <1>1, <1>2, <2>1, CallsAreBeside
  <2>3. PICK e \in AnswerCalls : e # d /\ at[e] = "failed"
    BY <2>1, <2>2 DEF AnswerInv, MovesAreExplained
  <2>4. QED
    BY <1>1, <1>2, <2>3
<1>7. AN!NothingRunsBehindAnAnswer'
  BY <1>1, <1>2 DEF AnswerInv, AN!NothingRunsBehindAnAnswer
<1>8. AN!AnswersTellTheOutcome'
  <2>1. /\ failed[c] => "error" \in AN!toldInTheEnd(c)
        /\ ~failed[c] => AN!Asks[tool[c]] \ {"pages"} \subseteq AN!toldInTheEnd(c)
    BY DEF AN!toldInTheEnd
  <2>2. QED
    BY <1>1, <1>2, <2>1 DEF AnswerInv, AN!AnswersTellTheOutcome
<1>9. QED
  BY <1>3, <1>4, <1>5, <1>6, <1>7, <1>8 DEF AnswerInv

LEMMA AnswerStep == AnswerInv /\ [AN!Next]_(AN!answerVars) => AnswerInv'
<1> SUFFICES ASSUME AnswerInv, [AN!Next]_(AN!answerVars) PROVE AnswerInv'
  OBVIOUS
<1>1. CASE UNCHANGED <<selected, running, tool, at, parts, failed, marked, told, moved>>
  BY <1>1 DEF AnswerInv, AnswerTypes, OneAtATime, MarksAreSelected, MovesAreExplained,
     AN!NothingRunsBehindAnAnswer, AN!AnswersTellTheOutcome
<1>2. CASE UNCHANGED AN!answerVars
  BY <1>1, <1>2 DEF AN!answerVars, AN!contextVars, AN!textVars
<1>3. ASSUME NEW p, AN!PageOpens(p) \/ AN!PageCloses(p) PROVE AnswerInv'
  BY <1>1, <1>3 DEF AN!PageOpens, AN!PageCloses, AN!textVars
<1>4. QED
  BY <1>2, <1>3, CallBegins, HandlerIsOver, PartIsOver, TitlesBegin, TitleIsWritten, TextEnds
     DEF AN!Next

LEMMA AnswersAreCounted == \A S : AN!Cardinality(S) = Cardinality(S)
  BY DEF Cardinality, AN!Cardinality

LEMMA AnswerKept ==
    AnswerInv => AN!OnePageIsSelected /\ AN!NothingRunsBehindAnAnswer /\ AN!AnswersTellTheOutcome
<1> SUFFICES ASSUME AnswerInv
             PROVE  AN!OnePageIsSelected
  BY DEF AnswerInv
<1>1. ASSUME NEW S, NEW x, S \subseteq {x} PROVE ~(AN!Cardinality(S) > 1)
  <2>1. IsFiniteSet({x}) /\ Cardinality({x}) = 1
    BY FS_Singleton
  <2>2. Cardinality(S) <= 1 /\ Cardinality(S) \in Nat
    BY <1>1, <2>1, FS_Subset, FS_CardinalityType
  <2>3. QED
    BY <2>2, AnswersAreCounted
<1>2. \A c \in AnswerCalls : AN!Cardinality(marked[c]) > 1 => moved[c]
  BY <1>1 DEF AnswerInv, MarksAreSelected
<1>3. QED
  BY <1>2 DEF AnswerInv, MovesAreExplained, AN!OnePageIsSelected

-----------------------------------------------------------------------------
(* The types of an answer *)

Place == AN!Open \cup {"waiting", "answered", "failed"}

\* What an answer is put together from.
AnswerMoreTypes ==
    /\ listed \in Seq(AnswerPages) /\ selected \in AnswerPages \cup {None}
    /\ fallback \in BOOLEAN /\ running \in AnswerCalls \cup {None}
    /\ tool \in [AnswerCalls -> DOMAIN AN!Asks] /\ at \in [AnswerCalls -> Place]
    /\ titles \in [AnswerCalls -> Seq(AnswerPages)]
    /\ \A c \in AnswerCalls : parts[c] \subseteq AN!Asks[tool[c]] /\ marked[c] \subseteq AnswerPages

LEMMA AnswerMoreTypesFirst == AN!Init => AnswerMoreTypes
<1> SUFFICES ASSUME AN!Init PROVE AnswerMoreTypes
  OBVIOUS
<1>1. PICK n \in Nat : listed \in [1 .. n -> AnswerPages] /\ n # 0
  <2>1. /\ Cardinality(AnswerPages) \in Nat
        /\ ExistsBijection(1 .. Cardinality(AnswerPages), AnswerPages)
    BY PagesAreOpen, FS_CardinalityType
  <2> DEFINE n == Cardinality(AnswerPages)
  <2>2. n = AN!Cardinality(AnswerPages)
    BY AnswersAreCounted DEF Cardinality, AN!Cardinality
  <2>3. PICK f \in Bijection(1 .. n, AnswerPages) : TRUE
    BY <2>1 DEF ExistsBijection
  <2>4. f \in [1 .. n -> AnswerPages] /\ AN!IsInjective(f)
    BY <2>3 DEF Bijection, Injection, IsInjective, AN!IsInjective
  <2>5. listed = CHOOSE g \in [1 .. AN!Cardinality(AnswerPages) -> AnswerPages] : AN!IsInjective(g)
    BY DEF AN!Init, AN!SetToSeq
  <2> HIDE DEF n
  <2>6. listed \in [1 .. n -> AnswerPages]
    BY <2>2, <2>4, <2>5
  <2>7. n # 0
    BY PagesAreOpen, FS_EmptySet DEF n
  <2>8. n \in Nat
    BY <2>1 DEF n
  <2>9. QED
    BY <2>6, <2>7, <2>8
<1>2. listed \in Seq(AnswerPages) /\ Head(listed) \in AnswerPages
  <2>1. listed \in Seq(AnswerPages) /\ Len(listed) = n
    BY <1>1
  <2>2. listed # <<>>
    BY <1>1, <2>1
  <2>3. QED
    BY <2>1, <2>2
<1>3. "other" \in DOMAIN AN!Asks /\ "waiting" \in Place /\ <<>> \in Seq(AnswerPages)
  BY DEF AN!Asks, Place
<1>4. QED
  BY <1>2, <1>3 DEF AN!Init, AnswerMoreTypes

LEMMA OneIsRemoved ==
    ASSUME NEW s \in Seq(AnswerPages), NEW i \in DOMAIN s
    PROVE  AN!RemoveAt(s, i) \in Seq(AnswerPages)
<1>1. i \in 1 .. Len(s) /\ Len(s) \in Nat
  OBVIOUS
<1>2. SubSeq(s, 1, i - 1) \in Seq(AnswerPages)
  BY <1>1
<1>3. SubSeq(s, i + 1, Len(s)) \in Seq(AnswerPages)
  BY <1>1
<1>4. QED
  BY <1>2, <1>3 DEF AN!RemoveAt

\* The pages a call may select.
LEMMA MovesToAPage ==
    ASSUME AnswerMoreTypes
    PROVE  /\ AN!ToSet(listed) \subseteq AnswerPages
           /\ \A p \in AN!ToSet(listed) \cup {selected}, isFallback \in BOOLEAN : AN!Selects(p, isFallback) =>
                selected' \in AnswerPages \cup {None} /\ fallback' \in BOOLEAN
           /\ AN!createPagesSnapshot =>
                selected' \in AnswerPages \cup {None} /\ fallback' \in BOOLEAN
<1>1. AN!ToSet(listed) \subseteq AnswerPages
  BY DEF AnswerMoreTypes, AN!ToSet
<1>2. \A p \in AN!ToSet(listed) \cup {selected}, isFallback \in BOOLEAN : AN!Selects(p, isFallback) =>
         selected' \in AnswerPages \cup {None} /\ fallback' \in BOOLEAN
  BY <1>1 DEF AnswerMoreTypes, AN!Selects
<1>3. ASSUME AN!createPagesSnapshot
      PROVE  selected' \in AnswerPages \cup {None} /\ fallback' \in BOOLEAN
  <2>1. CASE selected \in AN!ToSet(listed)
    BY <1>2, <1>3, <2>1 DEF AN!createPagesSnapshot
  <2>2. CASE selected \notin AN!ToSet(listed)
    <3>1. (IF listed = <<>> THEN None ELSE Head(listed)) \in AnswerPages \cup {None}
      BY DEF AnswerMoreTypes
    <3>2. AN!Selects(IF listed = <<>> THEN None ELSE Head(listed), selected # None)
      BY <1>3, <2>2 DEF AN!createPagesSnapshot
    <3>3. QED
      BY <3>1, <3>2 DEF AN!Selects
  <2>3. QED
    BY <2>1, <2>2
<1>4. QED
  BY <1>1, <1>2, <1>3

LEMMA AnswerMoreTypesStep ==
    ASSUME AnswerInv, AnswerMoreTypes, [AN!Next]_(AN!answerVars)
    PROVE  AnswerMoreTypes'
<1>0. /\ parts = [d \in AnswerCalls |-> parts[d]] /\ marked = [d \in AnswerCalls |-> marked[d]]
      /\ \A c \in AnswerCalls : parts[c] # {} => at[c] \in {"parts", "failed"}
  BY DEF AnswerInv, AnswerTypes, AN!NothingRunsBehindAnAnswer
<1>1. CASE UNCHANGED AN!answerVars
  BY <1>1 DEF AN!answerVars, AN!contextVars, AN!textVars, AnswerMoreTypes
<1>2. ASSUME NEW p \in AnswerPages, AN!PageOpens(p) PROVE AnswerMoreTypes'
  <2>1. /\ listed' = Append(listed, p)
        /\ UNCHANGED <<selected, fallback, running, tool, at, parts, titles, marked>>
    BY <1>2 DEF AN!PageOpens, AN!textVars
  <2>2. QED
    BY <2>1 DEF AnswerMoreTypes
<1>3. ASSUME NEW p \in AnswerPages, AN!PageCloses(p) PROVE AnswerMoreTypes'
  <2>1. PICK i \in DOMAIN listed :
           /\ listed' = AN!RemoveAt(listed, i)
           /\ UNCHANGED <<selected, fallback, running, tool, at, parts, titles, marked>>
    BY <1>3 DEF AN!PageCloses, AN!textVars
  <2>2. listed' \in Seq(AnswerPages)
    BY <2>1, OneIsRemoved DEF AnswerMoreTypes
  <2>3. QED
    BY <2>1, <2>2 DEF AnswerMoreTypes
<1>4. ASSUME NEW c \in AnswerCalls, NEW t \in AnswerTools, AN!Begin(c, t) PROVE AnswerMoreTypes'
  <2>1. /\ at[c] = "waiting" /\ running' \in {running, c}
        /\ tool' = [tool EXCEPT ![c] = t] /\ at' = [at EXCEPT ![c] = "handler"]
        /\ UNCHANGED <<listed, selected, fallback, parts, titles, marked>>
    BY <1>4 DEF AN!Begin, AN!contextVars, AN!textVars
  <2>2. parts[c] = {} /\ "handler" \in Place /\ t \in DOMAIN AN!Asks
    BY <1>0, <2>1, ToolsAreKnown DEF Place, AN!Open
  <2>3. \A d \in AnswerCalls : parts[d] \subseteq AN!Asks[tool'[d]]
    BY <2>1, <2>2 DEF AnswerMoreTypes
  <2>4. QED
    BY <2>1, <2>2, <2>3 DEF AnswerMoreTypes
<1>5. ASSUME NEW c \in AnswerCalls, AN!HandlerReturns(c) PROVE AnswerMoreTypes'
  <2>1. /\ at' \in {[at EXCEPT ![c] = "failed"], [at EXCEPT ![c] = "parts"]}
        /\ running' \in {running, None}
        /\ parts' \in {parts, [parts EXCEPT ![c] = {}], [parts EXCEPT ![c] = AN!Asks[tool[c]]]}
        /\ UNCHANGED <<listed, tool, titles, marked>>
    BY <1>5 DEF AN!HandlerReturns, AN!Ends, AN!textVars
  <2>2. \/ \E p \in AN!ToSet(listed) \cup {selected} : AN!Selects(p, FALSE)
        \/ UNCHANGED <<selected, fallback>>
    BY <1>5 DEF AN!HandlerReturns
  <2>3. selected' \in AnswerPages \cup {None} /\ fallback' \in BOOLEAN
    BY <2>2, MovesToAPage DEF AnswerMoreTypes
  <2>4. "failed" \in Place /\ "parts" \in Place
    BY DEF Place, AN!Open
  <2>5. at' \in [AnswerCalls -> Place]
    BY <2>1, <2>4 DEF AnswerMoreTypes
  <2>6. \A d \in AnswerCalls : parts'[d] \subseteq AN!Asks[tool[d]]
    BY <1>0, <2>1 DEF AnswerMoreTypes
  <2>7. QED
    BY <2>1, <2>3, <2>5, <2>6 DEF AnswerMoreTypes
<1>6. ASSUME NEW c \in AnswerCalls, AN!format(c) PROVE AnswerMoreTypes'
  <2>1. /\ titles' \in {[titles EXCEPT ![c] = listed], [titles EXCEPT ![c] = <<>>]}
        /\ at' = [at EXCEPT ![c] = "titles"]
        /\ UNCHANGED <<listed, selected, fallback, running, tool, parts, marked>>
    BY <1>6 DEF AN!format, AN!contextVars
  <2>2. "titles" \in Place
    BY DEF Place, AN!Open
  <2>3. titles' \in [AnswerCalls -> Seq(AnswerPages)]
    <3>1. <<>> \in Seq(AnswerPages) /\ listed \in Seq(AnswerPages)
          /\ titles \in [AnswerCalls -> Seq(AnswerPages)]
      BY DEF AnswerMoreTypes
    <3> DEFINE S == Seq(AnswerPages)
    <3>2. \A l \in S : [titles EXCEPT ![c] = l] \in [AnswerCalls -> S]
      BY <3>1
    <3>3. QED
      BY <2>1, <3>1, <3>2
  <2>4. QED
    BY <2>1, <2>2, <2>3 DEF AnswerMoreTypes
<1>7. ASSUME NEW c \in AnswerCalls, AN!fetchPageTitle(c) PROVE AnswerMoreTypes'
  <2>1. /\ titles[c] # <<>> /\ titles' = [titles EXCEPT ![c] = Tail(titles[c])]
        /\ marked' = [marked EXCEPT ![c] = IF Head(titles[c]) = selected
                                            THEN marked[c] \cup {selected} ELSE marked[c]]
        /\ UNCHANGED <<listed, selected, fallback, running, tool, at, parts>>
    BY <1>7 DEF AN!fetchPageTitle, AN!contextVars
  <2>2. titles[c] \in Seq(AnswerPages)
    BY DEF AnswerMoreTypes
  <2>3. Tail(titles[c]) \in Seq(AnswerPages) /\ Head(titles[c]) \in AnswerPages
    BY <2>1, <2>2
  <2>4. \A d \in AnswerCalls : marked'[d] \subseteq AnswerPages
    BY <1>0, <2>1, <2>3 DEF AnswerMoreTypes
  <2>5. titles' \in [AnswerCalls -> Seq(AnswerPages)]
    BY <2>1, <2>3 DEF AnswerMoreTypes
  <2>6. QED
    BY <2>1, <2>4, <2>5 DEF AnswerMoreTypes
<1>8. ASSUME NEW c \in AnswerCalls, AN!formatEnds(c) PROVE AnswerMoreTypes'
  <2>1. /\ at' = [at EXCEPT ![c] = "answered"] /\ running' \in {running, None}
        /\ UNCHANGED <<listed, selected, fallback, tool, parts, titles, marked>>
    BY <1>8 DEF AN!formatEnds, AN!Ends, AN!contextVars
  <2>2. "answered" \in Place
    BY DEF Place
  <2>3. QED
    BY <2>1, <2>2 DEF AnswerMoreTypes
<1>9. ASSUME NEW c \in AnswerCalls, NEW x, AN!PartIsIn(c, x) PROVE AnswerMoreTypes'
  <2>1. /\ parts' = [parts EXCEPT ![c] = parts[c] \ {x}]
        /\ UNCHANGED <<listed, running, tool, at, titles, marked>>
        /\ AN!createPagesSnapshot \/ UNCHANGED <<selected, fallback>>
    BY <1>9 DEF AN!PartIsIn, AN!textVars
  <2>2. selected' \in AnswerPages \cup {None} /\ fallback' \in BOOLEAN
    BY <2>1, MovesToAPage DEF AnswerMoreTypes
  <2>3. \A d \in AnswerCalls : parts'[d] \subseteq AN!Asks[tool[d]]
    BY <1>0, <2>1 DEF AnswerMoreTypes
  <2>4. QED
    BY <2>1, <2>2, <2>3 DEF AnswerMoreTypes
<1>10. ASSUME NEW c \in AnswerCalls, NEW x, AN!PartThrows(c, x) PROVE AnswerMoreTypes'
  <2>1. /\ parts' = [parts EXCEPT ![c] = parts[c] \ {x}]
        /\ at' \in {at, [at EXCEPT ![c] = "failed"]} /\ running' \in {running, None}
        /\ UNCHANGED <<listed, selected, fallback, tool, titles, marked>>
    BY <1>10 DEF AN!PartThrows, AN!Ends, AN!contextVars, AN!textVars
  <2>2. \A d \in AnswerCalls : parts'[d] \subseteq AN!Asks[tool[d]]
    BY <1>0, <2>1 DEF AnswerMoreTypes
  <2>3. "failed" \in Place
    BY DEF Place
  <2>4. QED
    BY <2>1, <2>2, <2>3 DEF AnswerMoreTypes
<1>11. QED
  BY <1>1, <1>2, <1>3, <1>4, <1>5, <1>6, <1>7, <1>8, <1>9, <1>10 DEF AN!Next

LEMMA AnswersAreTyped == AnswerInv /\ AnswerMoreTypes => AN!TypeOK
<1> SUFFICES ASSUME AnswerInv, AnswerMoreTypes PROVE AN!TypeOK
  OBVIOUS
<1>1. AN!ToSet(listed) \subseteq AnswerPages /\ failed \in [AnswerCalls -> BOOLEAN]
  BY MovesToAPage DEF AnswerInv, AnswerTypes
<1>2. \A c \in AnswerCalls : AN!ToSet(titles[c]) \subseteq AnswerPages
  BY DEF AnswerMoreTypes, AN!ToSet
<1>3. QED
  BY <1>1, <1>2 DEF AnswerMoreTypes, Place, AN!TypeOK

-----------------------------------------------------------------------------
(* Stack traces *)

Link == [error : Errors, of : Targets, stack : {"none", "built", "missing"}, late : SUBSET Scripts]

TraceTypes ==
    /\ attached \subseteq Targets /\ origin \in Targets
    /\ frames \in [Errors -> SUBSET Scripts] /\ causeOf \in [Errors -> Errors \cup {0}]
    /\ current \in Errors /\ used \in Targets /\ links \in Seq(Link)

\* A wait that is over has its map, and one that listens has its script still to come.
WaitsAreForTheTrace ==
    stage = "waiting" =>
        /\ waits = [s \in Scripts |-> waits[s]]
        /\ \A s \in Scripts : waits[s] = "idle" <=> s \notin frames[current]
        /\ \A s \in Scripts : waits[s] = "in" => <<used, s>> \in settled
        /\ \A s \in Scripts : waits[s] = "listening" => <<used, s>> \notin parsed

\* The error the answer is at follows the last of its links, or is the last.
Follows ==
    current = IF Len(links) = 0 THEN 1 ELSE causeOf[links[Len(links)].error]

ChainIsFollowed ==
    /\ stage \in {"idle", "details", "trace", "waiting"} => Follows
    /\ stage = "cause" => Len(links) # 0 /\ links[Len(links)].error = current

TraceInv ==
    /\ TraceTypes /\ WaitsAreForTheTrace /\ ChainIsFollowed
    /\ ST!TracesAreTranslated /\ ST!NoScriptIsMissed /\ ST!ChainIsTheErrors

LEMMA TraceFirst == ST!Init => TraceInv
<1> SUFFICES ASSUME ST!Init PROVE TraceInv
  OBVIOUS
<1>1. TraceTypes
  BY TracesAreOfScripts DEF ST!Init, TraceTypes
<1>2. links = <<>> /\ stage = "idle" /\ current = 1
  BY DEF ST!Init
<1>3. WaitsAreForTheTrace /\ ChainIsFollowed
  BY <1>2 DEF WaitsAreForTheTrace, ChainIsFollowed, Follows
<1>4. ST!TracesAreTranslated /\ ST!NoScriptIsMissed /\ ST!ChainIsTheErrors
  BY <1>2 DEF ST!TracesAreTranslated, ST!NoScriptIsMissed, ST!ChainIsTheErrors
<1>5. QED
  BY <1>1, <1>3, <1>4 DEF TraceInv

\* One more link.
LEMMA Linked ==
    ASSUME TraceInv, NEW of \in Targets, NEW stack \in {"none", "built", "missing"},
           NEW late \in SUBSET Scripts,
           links' = Append(links, [error |-> current, of |-> of, stack |-> stack, late |-> late]),
           Follows,
           stack = "built" => \A s \in frames[current] : <<of, s>> \in settled,
           stack = "missing" => late # {},
           UNCHANGED <<settled, frames, causeOf, current>>
    PROVE  /\ links' \in Seq(Link)
           /\ Len(links') # 0 /\ links'[Len(links')].error = current
           /\ ST!TracesAreTranslated' /\ ST!NoScriptIsMissed' /\ ST!ChainIsTheErrors'
<1> DEFINE link == [error |-> current, of |-> of, stack |-> stack, late |-> late]
           n == Len(links)
<1>1. link \in Link /\ links \in Seq(Link) /\ n \in Nat
  BY DEF Link, TraceInv, TraceTypes
<1>2. link.error = current /\ link.of = of /\ link.stack = stack /\ link.late = late
  OBVIOUS
<1>3. links' = Append(links, link)
  OBVIOUS
<1> HIDE DEF link
<1>4. /\ links' \in Seq(Link) /\ Len(links') = n + 1 /\ DOMAIN links' = 1 .. n + 1
      /\ DOMAIN links = 1 .. n
      /\ links'[n + 1] = link /\ \A i \in 1 .. n : links'[i] = links[i]
  BY <1>1, <1>3
<1> HIDE DEF n
<1>5. ST!TracesAreTranslated'
  <2>1. SUFFICES ASSUME NEW i \in 1 .. n + 1, links'[i].stack = "built"
                 PROVE  \A s \in frames[links'[i].error] : <<links'[i].of, s>> \in settled
    BY <1>4 DEF ST!TracesAreTranslated
  <2>2. CASE i = n + 1
    BY <1>2, <1>4, <2>1, <2>2
  <2>3. CASE i # n + 1
    <3>1. i \in 1 .. n
      BY <1>1, <2>3
    <3>2. links'[i] = links[i] /\ i \in DOMAIN links
      BY <1>4, <3>1
    <3>3. QED
      BY <2>1, <3>2 DEF TraceInv, ST!TracesAreTranslated
  <2>4. QED
    BY <2>2, <2>3
<1>6. ST!NoScriptIsMissed'
  <2>1. SUFFICES ASSUME NEW i \in 1 .. n + 1, links'[i].stack = "missing" PROVE links'[i].late # {}
    BY <1>4 DEF ST!NoScriptIsMissed
  <2>2. CASE i = n + 1
    BY <1>2, <1>4, <2>1, <2>2
  <2>3. CASE i # n + 1
    <3>1. i \in 1 .. n
      BY <1>1, <2>3
    <3>2. links'[i] = links[i] /\ i \in DOMAIN links
      BY <1>4, <3>1
    <3>3. QED
      BY <2>1, <3>2 DEF TraceInv, ST!NoScriptIsMissed
  <2>4. QED
    BY <2>2, <2>3
<1>7. ST!ChainIsTheErrors'
  <2>1. SUFFICES ASSUME NEW i \in 1 .. n + 1
                 PROVE  links'[i].error = IF i = 1 THEN 1 ELSE causeOf[links'[i - 1].error]
    BY <1>4 DEF ST!ChainIsTheErrors
  <2>2. CASE i = n + 1
    <3>1. n = 0 => links'[i].error = 1 /\ i = 1
      BY <1>2, <1>4, <2>2 DEF Follows, n
    <3>2. n # 0 => links'[i].error = causeOf[links[n].error]
      BY <1>2, <1>4, <2>2 DEF Follows, n
    <3>3. n # 0 => i # 1 /\ i - 1 = n /\ n \in 1 .. n
      BY <1>1, <2>2
    <3>4. n # 0 => links'[i - 1] = links[n]
      BY <1>4, <3>3
    <3>5. QED
      BY <3>1, <3>2, <3>3, <3>4
  <2>3. CASE i # n + 1
    <3>1. i \in 1 .. n /\ (i # 1 => i - 1 \in 1 .. n)
      BY <1>1, <2>3
    <3>2. links'[i] = links[i] /\ i \in DOMAIN links /\ (i # 1 => links'[i - 1] = links[i - 1])
      BY <1>4, <3>1
    <3>3. links[i].error = IF i = 1 THEN 1 ELSE causeOf[links[i - 1].error]
      BY <3>2 DEF TraceInv, ST!ChainIsTheErrors
    <3>4. QED
      BY <3>2, <3>3
  <2>4. QED
    BY <2>2, <2>3
<1>8. Len(links') # 0 /\ links'[Len(links')].error = current
  BY <1>1, <1>2, <1>4
<1>9. QED
  BY <1>4, <1>5, <1>6, <1>7, <1>8

LEMMA ScriptIsParsed ==
    ASSUME TraceInv, NEW t \in Targets, NEW s \in Scripts, ST!ScriptParsed(t, s)
    PROVE  TraceInv'
<1>1. /\ parsed' = parsed \cup {<<t, s>>} /\ used' = used
      /\ waits' = IF t = used THEN ST!Looked(parsed', settled) ELSE waits
      /\ UNCHANGED <<attached, settled, asked, origin, frames, causeOf, stage, current, links>>
  BY DEF ST!ScriptParsed, ST!worldVars
<1>2. WaitsAreForTheTrace'
  <2>1. SUFFICES ASSUME stage = "waiting" PROVE WaitsAreForTheTrace'
    BY <1>1 DEF WaitsAreForTheTrace
  <2>2. CASE t = used
    <3>1. waits' = ST!Looked(parsed', settled)
      BY <1>1, <2>2
    <3>2. \A z \in Scripts : waits'[z] = IF waits[z] \in {"idle", "in"} THEN waits[z]
                                         ELSE ST!waitForScript(z, waits[z], parsed', settled)
      BY <3>1 DEF ST!Looked
    <3>3. waits' = [z \in Scripts |-> waits'[z]]
      BY <3>1 DEF ST!Looked
    <3>4. QED
      BY <1>1, <2>1, <3>2, <3>3 DEF TraceInv, WaitsAreForTheTrace, ST!waitForScript
  <2>3. CASE t # used
    BY <1>1, <2>1, <2>3 DEF TraceInv, WaitsAreForTheTrace
  <2>4. QED
    BY <2>2, <2>3
<1>3. QED
  BY <1>1, <1>2 DEF TraceInv, TraceTypes, ChainIsFollowed, Follows, ST!TracesAreTranslated,
     ST!NoScriptIsMissed, ST!ChainIsTheErrors

LEMMA MapIsSettled ==
    ASSUME TraceInv, NEW t \in Targets, NEW s \in Scripts, ST!MapSettles(t, s)
    PROVE  TraceInv'
<1>1. /\ settled' = settled \cup {<<t, s>>} /\ used' = used
      /\ waits' = IF t = used /\ waits[s] = "map" THEN [waits EXCEPT ![s] = "in"] ELSE waits
      /\ UNCHANGED <<attached, parsed, asked, origin, frames, causeOf, stage, current, links>>
  BY DEF ST!MapSettles, ST!worldVars
<1>2. WaitsAreForTheTrace'
  <2>1. SUFFICES ASSUME stage = "waiting" PROVE WaitsAreForTheTrace'
    BY <1>1 DEF WaitsAreForTheTrace
  <2>2. CASE t = used /\ waits[s] = "map"
    <3>1. waits' = [waits EXCEPT ![s] = "in"]
      BY <1>1, <2>2
    <3>2. waits = [z \in Scripts |-> waits[z]]
      BY <2>1 DEF TraceInv, WaitsAreForTheTrace
    <3>3. /\ waits' = [z \in Scripts |-> waits'[z]] /\ waits'[s] = "in"
          /\ \A z \in Scripts \ {s} : waits'[z] = waits[z]
      BY <3>1, <3>2
    <3>4. QED
      BY <1>1, <2>1, <2>2, <3>3 DEF TraceInv, WaitsAreForTheTrace
  <2>3. CASE ~(t = used /\ waits[s] = "map")
    BY <1>1, <2>1, <2>3 DEF TraceInv, WaitsAreForTheTrace
  <2>4. QED
    BY <2>2, <2>3
<1>3. ST!TracesAreTranslated'
  BY <1>1 DEF TraceInv, ST!TracesAreTranslated
<1>4. QED
  BY <1>1, <1>2, <1>3 DEF TraceInv, TraceTypes, ChainIsFollowed, Follows,
     ST!NoScriptIsMissed, ST!ChainIsTheErrors

LEMMA TraceStep == TraceInv /\ [ST!Next]_(ST!traceVars) => TraceInv'
<1> SUFFICES ASSUME TraceInv, [ST!Next]_(ST!traceVars) PROVE TraceInv'
  OBVIOUS
<1> USE DEF ST!worldVars
<1>1. CASE UNCHANGED ST!traceVars
  BY <1>1 DEF ST!traceVars, TraceInv, TraceTypes, WaitsAreForTheTrace, ChainIsFollowed, Follows,
     ST!TracesAreTranslated, ST!NoScriptIsMissed, ST!ChainIsTheErrors
<1>2. ASSUME NEW t \in Targets, ST!stopForwardingCdpEvents(t) PROVE TraceInv'
  BY <1>2 DEF ST!stopForwardingCdpEvents, TraceInv, TraceTypes, WaitsAreForTheTrace,
     ChainIsFollowed, Follows, ST!TracesAreTranslated, ST!NoScriptIsMissed, ST!ChainIsTheErrors
<1>3. CASE ST!from
  BY <1>3 DEF ST!from, TraceInv, TraceTypes, WaitsAreForTheTrace, ChainIsFollowed, Follows,
     ST!TracesAreTranslated, ST!NoScriptIsMissed, ST!ChainIsTheErrors
\* An answer with one more link waits for nothing, and is told or asks for the cause.
<1>4. ASSUME links' \in Seq(Link) /\ Len(links') # 0 /\ links'[Len(links')].error = current,
             ST!TracesAreTranslated' /\ ST!NoScriptIsMissed' /\ ST!ChainIsTheErrors',
             stage' \in {"cause", "told"},
             UNCHANGED <<attached, origin, frames, causeOf, current, used>>
      PROVE  TraceInv'
  BY <1>4 DEF TraceInv, TraceTypes, WaitsAreForTheTrace, ChainIsFollowed, Follows
<1>5. CASE ST!getExceptionDetails
  <2>1. CASE stage' = "trace" /\ UNCHANGED links
    BY <1>5, <2>1 DEF ST!getExceptionDetails, TraceInv, TraceTypes, WaitsAreForTheTrace,
       ChainIsFollowed, Follows, ST!TracesAreTranslated, ST!NoScriptIsMissed, ST!ChainIsTheErrors
  <2>2. CASE stage' = "told" /\ links' = ST!Linked("none", {})
    <3>1. UNCHANGED <<attached, origin, frames, causeOf, current, used, settled>> /\ stage = "details"
      BY <1>5 DEF ST!getExceptionDetails
    <3>2. links' = Append(links, [error |-> current, of |-> used, stack |-> "none", late |-> {}])
      BY <2>2, <3>1 DEF ST!Linked
    <3>3. used \in Targets /\ Follows
      BY <3>1 DEF TraceInv, TraceTypes, ChainIsFollowed
    <3>4. QED
      BY <1>4, <2>2, <3>1, <3>2, <3>3, Linked
  <2>3. QED
    BY <1>5, <2>1, <2>2 DEF ST!getExceptionDetails
<1>6. CASE ST!createStackTrace
  <2>1. /\ stage = "trace" /\ stage' = "waiting" /\ used' = ST!targetOf
        /\ waits' = [s \in Scripts |-> IF s \notin frames[current] THEN "idle"
                                       ELSE ST!waitForScript(s, "idle", parsed, settled)]
        /\ UNCHANGED <<attached, parsed, settled, origin, frames, causeOf, current, links>>
    BY <1>6 DEF ST!createStackTrace
  <2>2. used' \in Targets
    BY <2>1, TracesAreOfScripts DEF ST!targetOf, TraceInv, TraceTypes
  <2>3. /\ waits' = [s \in Scripts |-> waits'[s]]
        /\ \A s \in Scripts : waits'[s] = IF s \notin frames[current] THEN "idle"
                                          ELSE ST!waitForScript(s, "idle", parsed, settled)
    BY <2>1
  <2>4. WaitsAreForTheTrace'
    BY <2>1, <2>3 DEF WaitsAreForTheTrace, ST!waitForScript
  <2>5. QED
    BY <2>1, <2>2, <2>4 DEF TraceInv, TraceTypes, ChainIsFollowed, Follows,
       ST!TracesAreTranslated, ST!NoScriptIsMissed, ST!ChainIsTheErrors
<1>7. CASE ST!NoStackTrace
  <2>1. UNCHANGED <<attached, origin, frames, causeOf, current, used, settled>>
        /\ stage = "trace" /\ stage' \in {"cause", "told"}
    BY <1>7 DEF ST!NoStackTrace
  <2>2. links' = Append(links, [error |-> current, of |-> used, stack |-> "none", late |-> {}])
    BY <1>7, <2>1 DEF ST!NoStackTrace, ST!Linked
  <2>3. used \in Targets /\ Follows
    BY <2>1 DEF TraceInv, TraceTypes, ChainIsFollowed
  <2>4. QED
    BY <1>4, <2>1, <2>2, <2>3, Linked
<1>8. ASSUME NEW outcome \in {"built", "missing"}, ST!TraceEnds(outcome) PROVE TraceInv'
  <2> DEFINE late == {s \in frames[current] : <<used, s>> \notin parsed}
  <2>1. UNCHANGED <<attached, origin, frames, causeOf, current, used, settled>>
        /\ stage = "waiting" /\ stage' \in {"cause", "told"}
    BY <1>8 DEF ST!TraceEnds
  <2>2. links' = Append(links, [error |-> current, of |-> used, stack |-> outcome, late |-> late])
    BY <1>8, <2>1 DEF ST!TraceEnds, ST!Linked
  <2>3. used \in Targets /\ Follows /\ frames[current] \subseteq Scripts
    BY <2>1 DEF TraceInv, TraceTypes, ChainIsFollowed
  <2>4. late \in SUBSET Scripts
    BY <2>3
  <2>5. WaitsAreForTheTrace
    BY DEF TraceInv
  <2>6. outcome = "built" => \A s \in frames[current] : <<used, s>> \in settled
    <3>1. SUFFICES ASSUME outcome = "built", NEW s \in frames[current] PROVE <<used, s>> \in settled
      OBVIOUS
    <3>2. s \in Scripts /\ waits[s] \in {"idle", "in"}
      BY <1>8, <2>3, <3>1 DEF ST!TraceEnds
    <3>3. waits[s] = "in"
      BY <2>1, <2>5, <3>2 DEF WaitsAreForTheTrace
    <3>4. QED
      BY <2>1, <2>5, <3>2, <3>3 DEF WaitsAreForTheTrace
  <2>7. outcome = "missing" => late # {}
    <3>1. SUFFICES ASSUME outcome = "missing" PROVE late # {}
      OBVIOUS
    <3>2. PICK s \in Scripts : waits[s] = "listening"
      BY <1>8, <3>1 DEF ST!TraceEnds
    <3>3. s \in frames[current] /\ <<used, s>> \notin parsed
      BY <2>1, <2>5, <3>2 DEF WaitsAreForTheTrace
    <3>4. QED
      BY <3>3
  <2> HIDE DEF late
  <2>8. QED
    BY <1>4, <2>1, <2>2, <2>3, <2>4, <2>6, <2>7, Linked
<1>9. CASE ST!lookupCause
  <2>1. UNCHANGED <<attached, origin, frames, causeOf, used, settled, links>> /\ stage = "cause"
    BY <1>9 DEF ST!lookupCause
  <2>2. Len(links) # 0 /\ links[Len(links)].error = current
    BY <2>1 DEF TraceInv, ChainIsFollowed
  <2>3. CASE stage' = "told" /\ UNCHANGED current
    BY <2>1, <2>3 DEF TraceInv, TraceTypes, WaitsAreForTheTrace, ChainIsFollowed, Follows,
       ST!TracesAreTranslated, ST!NoScriptIsMissed, ST!ChainIsTheErrors
  <2>4. CASE causeOf[current] # 0 /\ current' = causeOf[current] /\ stage' = "details"
    <3>1. current' \in Errors
      BY <2>4 DEF TraceInv, TraceTypes
    <3>2. ChainIsFollowed'
      BY <2>1, <2>2, <2>4 DEF ChainIsFollowed, Follows
    <3>3. QED
      BY <2>1, <2>4, <3>1, <3>2 DEF TraceInv, TraceTypes, WaitsAreForTheTrace,
         ST!TracesAreTranslated, ST!NoScriptIsMissed, ST!ChainIsTheErrors
  <2>5. QED
    BY <1>9, <2>3, <2>4 DEF ST!lookupCause, ST!NoCause
<1>10. QED
  BY <1>1, <1>2, <1>3, <1>5, <1>6, <1>7, <1>8, <1>9, ScriptIsParsed, MapIsSettled
     DEF ST!Next, ST!World

-----------------------------------------------------------------------------
(* The types of a stack trace *)

TraceMoreTypes ==
    /\ parsed \subseteq Targets \X Scripts /\ settled \subseteq parsed
    /\ stage \in {"idle", "details", "trace", "waiting", "cause", "told"}
    /\ waits \in [Scripts -> {"idle", "listening", "map", "in"}]

LEMMA TraceMoreTypesFirst == ST!Init => TraceMoreTypes
BY DEF ST!Init, TraceMoreTypes

LEMMA TraceMoreTypesStep ==
    ASSUME TraceMoreTypes, [ST!Next]_(ST!traceVars)
    PROVE  TraceMoreTypes'
<1>1. CASE UNCHANGED ST!traceVars
  BY <1>1 DEF ST!traceVars, TraceMoreTypes
<1>2. ASSUME NEW t \in Targets, NEW s \in Scripts, ST!ScriptParsed(t, s) PROVE TraceMoreTypes'
  <2>1. \A r, b, k, m : ST!waitForScript(r, b, k, m) \in {"listening", "map", "in"}
    BY DEF ST!waitForScript
  <2>2. ST!Looked(parsed', settled) \in [Scripts -> {"idle", "listening", "map", "in"}]
    BY <2>1 DEF ST!Looked
  <2>3. waits' \in [Scripts -> {"idle", "listening", "map", "in"}]
    BY <1>2, <2>2 DEF ST!ScriptParsed, TraceMoreTypes
  <2>4. parsed' = parsed \cup {<<t, s>>} /\ UNCHANGED <<settled, stage>>
    BY <1>2 DEF ST!ScriptParsed
  <2>5. QED
    BY <2>3, <2>4 DEF TraceMoreTypes
<1>3. ASSUME NEW t \in Targets, NEW s \in Scripts, ST!MapSettles(t, s) PROVE TraceMoreTypes'
  BY <1>3 DEF ST!MapSettles, TraceMoreTypes
<1>4. ASSUME NEW t, ST!stopForwardingCdpEvents(t) PROVE TraceMoreTypes'
  BY <1>4 DEF ST!stopForwardingCdpEvents, TraceMoreTypes
<1>5. CASE ST!from \/ ST!getExceptionDetails \/ ST!NoStackTrace \/ ST!lookupCause
  BY <1>5 DEF ST!from, ST!getExceptionDetails, ST!NoStackTrace, ST!lookupCause, TraceMoreTypes
<1>6. CASE ST!createStackTrace
  <2>1. \A r, b, k, m : ST!waitForScript(r, b, k, m) \in {"listening", "map", "in"}
    BY DEF ST!waitForScript
  <2>2. /\ stage' = "waiting" /\ UNCHANGED <<parsed, settled>>
        /\ waits' = [s \in Scripts |-> IF s \notin frames[current] THEN "idle"
                                   ELSE ST!waitForScript(s, "idle", parsed, settled)]
    BY <1>6 DEF ST!createStackTrace
  <2>3. QED
    BY <2>1, <2>2 DEF TraceMoreTypes
<1>7. ASSUME NEW outcome, ST!TraceEnds(outcome) PROVE TraceMoreTypes'
  BY <1>7 DEF ST!TraceEnds, TraceMoreTypes
<1>8. QED
  BY <1>1, <1>2, <1>3, <1>4, <1>5, <1>6, <1>7 DEF ST!Next, ST!World

LEMMA TracesAreTyped == TraceInv /\ TraceMoreTypes => ST!TypeOK
BY DEF TraceInv, TraceTypes, TraceMoreTypes, Link, ST!TypeOK

-----------------------------------------------------------------------------
(* Text snapshots *)

\* The place of a number among those of a finite set.
LEMMA Ranked ==
    ASSUME NEW U, U \subseteq Nat, IsFiniteSet(U), NEW c \in U
    PROVE  /\ Cardinality({d \in U : d < c}) \in 0 .. Cardinality(U) - 1
           /\ \A e \in U : c < e =>
                Cardinality({d \in U : d < c}) < Cardinality({d \in U : d < e})
<1> DEFINE L(e) == {d \in U : d < e}
<1>1. \A e \in U : IsFiniteSet(L(e)) /\ Cardinality(L(e)) \in Nat
  BY FS_Subset, FS_CardinalityType
<1>2. ASSUME NEW T, IsFiniteSet(T), L(c) \subseteq T, c \in T
      PROVE  Cardinality(L(c)) < Cardinality(T)
  <2>1. c \notin L(c)
    OBVIOUS
  <2>2. Cardinality(L(c) \cup {c}) = Cardinality(L(c)) + 1
    BY <1>1, <2>1, FS_AddElement
  <2>3. Cardinality(L(c) \cup {c}) <= Cardinality(T) /\ Cardinality(T) \in Nat
    BY <1>2, FS_Subset, FS_CardinalityType
  <2>4. QED
    BY <1>1, <2>2, <2>3
<1>3. Cardinality(L(c)) < Cardinality(U) /\ Cardinality(U) \in Nat
  BY <1>2, FS_CardinalityType
<1>4. ASSUME NEW e \in U, c < e PROVE Cardinality(L(c)) < Cardinality(L(e))
  <2>1. c \in Nat /\ e \in Nat /\ \A d \in L(c) : d \in Nat /\ d \in U /\ d < c
    OBVIOUS
  <2>2. L(c) \subseteq L(e) /\ c \in L(e)
    <3>1. ASSUME NEW d \in L(c) PROVE d < e
      BY <1>4, <2>1
    <3>2. QED
      BY <1>4, <2>1, <3>1
  <2>3. QED
    BY <1>1, <1>2, <2>2
<1>5. QED
  BY <1>1, <1>3, <1>4


Handle == [d : Nat, b : Nat]

\* f with more.
Grows(f, g) == \A x \in DOMAIN f : x \in DOMAIN g /\ g[x] = f[x]

\* The uids of these nodes are those on record, and name what they are said to name.
Right(ids, names, nodes, extra) ==
    \A u \in DOMAIN nodes :
        /\ u \in DOMAIN names
        /\ u \in extra =>
              /\ names[u] = nodes[u] \/ names[u].d < nodes[u].d
              /\ TS!customId(nodes[u].b) \in DOMAIN ids /\ ids[TS!customId(nodes[u].b)] = u
        /\ u \notin extra =>
              /\ names[u] = nodes[u]
              /\ TS!uniqueBackendId(nodes[u].d, nodes[u].b) \in DOMAIN ids
              /\ ids[TS!uniqueBackendId(nodes[u].d, nodes[u].b)] = u

SnapshotTypes ==
    /\ document \in [SnapshotPages -> Nat] /\ nextSnapshotId \in Nat
    /\ mcpIds = [p \in SnapshotPages |-> mcpIds[p]]
    /\ textSnapshot = [p \in SnapshotPages |-> textSnapshot[p]]
    /\ extraHandles \in [SnapshotPages -> Seq(Handle)]

\* A uid on record is of one key of one page, and of a snapshot that was begun.
IdsAreUnique ==
    /\ \A p \in SnapshotPages : \A k \in DOMAIN mcpIds[p] :
          mcpIds[p][k] \in Nat \X Nat /\ mcpIds[p][k][1] < nextSnapshotId
    /\ \A p, q \in SnapshotPages : \A k \in DOMAIN mcpIds[p], l \in DOMAIN mcpIds[q] :
          mcpIds[p][k] = mcpIds[q][l] => p = q /\ k = l
    /\ \A u \in DOMAIN named : u \in Nat \X Nat /\ u[1] < nextSnapshotId

\* What the uid of a key was first given to: an element of the key's document, or the
\* handed out one of its id that was the first.
IdsAreOfElements ==
    \A p \in SnapshotPages :
        /\ \A d, b \in Nat : TS!uniqueBackendId(d, b) \in DOMAIN mcpIds[p] =>
              /\ mcpIds[p][TS!uniqueBackendId(d, b)] \in DOMAIN named
              /\ named[mcpIds[p][TS!uniqueBackendId(d, b)]] = [d |-> d, b |-> b]
        /\ \A b \in Nat :
              TS!customId(b) \in DOMAIN mcpIds[p] /\ mcpIds[p][TS!customId(b)] \in DOMAIN named =>
                \E d \in 0 .. document[p] :
                    named[mcpIds[p][TS!customId(b)]] = [d |-> d, b |-> b]

\* The snapshot being made: its uids so far, and room for those to come.
MakingIsRight ==
    making # TS!Nothing =>
        /\ making = [page |-> making.page, id |-> making.id, nodes |-> making.nodes,
                     count |-> making.count, seen |-> making.seen, todo |-> making.todo,
                     extra |-> making.extra, reorganise |-> making.reorganise,
                     parent |-> making.parent]
        /\ making.page \in SnapshotPages /\ making.count \in Nat /\ making.id \in Nat
        /\ making.id + 1 = nextSnapshotId
        /\ making.todo \in Seq(Handle)
        /\ Right(mcpIds[making.page], named, making.nodes, making.extra)
        /\ \A u \in DOMAIN making.nodes : making.nodes[u] \in Handle
        /\ \A u \in DOMAIN making.nodes :
              IF u \in making.extra THEN TS!customId(making.nodes[u].b) \in making.seen
              ELSE TS!uniqueBackendId(making.nodes[u].d, making.nodes[u].b) \in making.seen
        /\ \A p \in SnapshotPages : \A k \in DOMAIN mcpIds[p] :
              mcpIds[p][k][1] = making.id => mcpIds[p][k][2] < making.count
        /\ \A u \in DOMAIN named : u[1] = making.id => u[2] < making.count

SnapshotsAreRight ==
    \A p \in SnapshotPages :
        Right(mcpIds[p], named, textSnapshot[p].nodes, textSnapshot[p].extra)

SnapshotInv ==
    SnapshotTypes /\ IdsAreUnique /\ IdsAreOfElements /\ MakingIsRight /\ SnapshotsAreRight

LEMMA SnapshotFirst == TS!Init => SnapshotInv
<1> SUFFICES ASSUME TS!Init PROVE SnapshotInv
  OBVIOUS
<1>1. SnapshotTypes
  BY DEF TS!Init, SnapshotTypes
<1>2. DOMAIN named = {} /\ (\A p \in SnapshotPages : DOMAIN mcpIds[p] = {}) /\ making = TS!Nothing
  BY DEF TS!Init
<1>3. \A p \in SnapshotPages : DOMAIN textSnapshot[p].nodes = {}
  BY DEF TS!Init, TS!NoSnapshot
<1>4. IdsAreUnique
  BY <1>2 DEF IdsAreUnique
<1>5. IdsAreOfElements
  BY <1>2 DEF IdsAreOfElements
<1>6. MakingIsRight
  BY <1>2 DEF MakingIsRight
<1>7. SnapshotsAreRight
  BY <1>3 DEF SnapshotsAreRight, Right
<1>8. QED
  BY <1>1, <1>4, <1>5, <1>6, <1>7 DEF SnapshotInv

LEMMA StaysRight ==
    ASSUME NEW ids, NEW ids2, NEW names, NEW names2, NEW nodes, NEW extra,
           Right(ids, names, nodes, extra), Grows(ids, ids2), Grows(names, names2)
    PROVE  Right(ids2, names2, nodes, extra)
  BY DEF Right, Grows

LEMMA WithGrows ==
    ASSUME NEW f, NEW g
    PROVE  /\ Grows(f, TS!With(f, g))
           /\ DOMAIN TS!With(f, g) = DOMAIN f \cup DOMAIN g
           /\ \A x \in DOMAIN g \ DOMAIN f : TS!With(f, g)[x] = g[x]
  BY DEF Grows, TS!With

\* The keys are told apart.
LEMMA KeysDiffer ==
    \A d, b, e, c :
        /\ TS!uniqueBackendId(d, b) # TS!customId(c)
        /\ TS!uniqueBackendId(d, b) = TS!uniqueBackendId(e, c) => d = e /\ b = c
        /\ TS!customId(b) = TS!customId(c) => b = c
  BY DEF TS!uniqueBackendId, TS!customId
LEMMA ElementsAreCounted == \A S : TS!Cardinality(S) = Cardinality(S)
  BY DEF Cardinality, TS!Cardinality

LEMMA Created ==
    ASSUME SnapshotInv, NEW p \in SnapshotPages, NEW tree, tree \subseteq Nat,
           IsFiniteSet(tree), NEW handed \in Seq(Handle), TS!create(p, tree, handed)
    PROVE  SnapshotInv'
<1> DEFINE d == document[p]
           n == nextSnapshotId
           fresh == {b \in tree : TS!uniqueBackendId(d, b) \notin DOMAIN mcpIds[p]}
           keys == {TS!uniqueBackendId(d, b) : b \in fresh}
           new == [k \in keys |-> <<n, TS!Cardinality({b \in fresh : b < k[3]})>>]
           ids == TS!With(mcpIds[p], new)
           uid1(b) == ids[TS!uniqueBackendId(d, b)]
           nodes == [u \in {uid1(b) : b \in tree} |->
                       [d |-> d, b |-> CHOOSE b \in tree : uid1(b) = u]]
           size == TS!Cardinality(fresh)
           rank(b) == TS!Cardinality({c \in fresh : c < b})
<1>1. /\ making = TS!Nothing /\ nextSnapshotId' = n + 1
      /\ mcpIds' = [mcpIds EXCEPT ![p] = ids]
      /\ extraHandles' = [extraHandles EXCEPT ![p] = IF handed = <<>> THEN extraHandles[p] ELSE handed]
      /\ named' = TS!With(named, nodes)
      /\ UNCHANGED <<document, textSnapshot>>
  BY DEF TS!create
<1>2. \E parent :
        making' = [page |-> p, id |-> n, nodes |-> nodes, count |-> size,
                   seen |-> {TS!uniqueBackendId(d, b) : b \in tree}, todo |-> extraHandles'[p],
                   extra |-> {}, reorganise |-> <<>>, parent |-> parent]
  BY Zenon DEF TS!create
<1>3. n \in Nat /\ d \in Nat
  BY DEF SnapshotInv, SnapshotTypes
<1>4. fresh \subseteq Nat /\ IsFiniteSet(fresh) /\ fresh \subseteq tree
  BY FS_Subset
<1>5. /\ \A b \in tree : b \notin fresh => TS!uniqueBackendId(d, b) \in DOMAIN mcpIds[p]
      /\ \A b \in fresh : TS!uniqueBackendId(d, b) \notin DOMAIN mcpIds[p]
  OBVIOUS
<1> HIDE DEF fresh
<1>6. size \in Nat /\ \A b \in fresh : rank(b) \in Nat /\ rank(b) < size
  <2>1. Cardinality(fresh) \in Nat
    BY <1>4, FS_CardinalityType
  <2>2. ASSUME NEW b \in fresh
        PROVE  Cardinality({c \in fresh : c < b}) \in 0 .. Cardinality(fresh) - 1
    BY <1>4, Ranked
  <2>3. QED
    BY <2>1, <2>2, ElementsAreCounted
<1>7. \A b, c \in fresh : rank(b) = rank(c) => b = c
  <2>1. SUFFICES ASSUME NEW b \in fresh, NEW c \in fresh, rank(b) = rank(c) PROVE b = c
    OBVIOUS
  <2>2. b \in Nat /\ c \in Nat
    BY <1>4
  <2>3. b < c => rank(b) < rank(c)
    BY <1>4, Ranked, ElementsAreCounted
  <2>4. c < b => rank(c) < rank(b)
    BY <1>4, Ranked, ElementsAreCounted
  <2>5. rank(b) \in Nat /\ rank(c) \in Nat
    BY <1>6
  <2> HIDE DEF rank
  <2>6. QED
    BY <2>1, <2>2, <2>3, <2>4, <2>5
<1>8. DOMAIN new = keys /\ \A b \in fresh :
          TS!uniqueBackendId(d, b) \in keys /\ new[TS!uniqueBackendId(d, b)] = <<n, rank(b)>>
  <2>1. \A b : TS!uniqueBackendId(d, b)[3] = b
    BY DEF TS!uniqueBackendId
  <2>2. QED
    BY <2>1
<1>9. keys = {TS!uniqueBackendId(d, b) : b \in fresh}
  OBVIOUS
<1>10. /\ DOMAIN nodes = {uid1(b) : b \in tree}
       /\ \A u \in DOMAIN nodes : nodes[u] = [d |-> d, b |-> CHOOSE b \in tree : uid1(b) = u]
  OBVIOUS
<1> HIDE DEF rank, new, keys, size, d, n, nodes
<1>11. Grows(mcpIds[p], TS!With(mcpIds[p], new)) /\ DOMAIN ids = DOMAIN mcpIds[p] \cup DOMAIN new
  BY WithGrows
<1>12. \A k \in DOMAIN new \ DOMAIN mcpIds[p] : TS!With(mcpIds[p], new)[k] = new[k]
  BY WithGrows
<1>13. /\ Grows(mcpIds[p], ids)
       /\ DOMAIN ids = DOMAIN mcpIds[p] \cup {TS!uniqueBackendId(d, b) : b \in fresh}
       /\ \A b \in fresh : ids[TS!uniqueBackendId(d, b)] = <<n, rank(b)>>
  BY <1>5, <1>8, <1>9, <1>11, <1>12
<1>14. \A b \in tree : TS!uniqueBackendId(d, b) \in DOMAIN ids
  BY <1>5, <1>13
<1> HIDE DEF ids
<1>17. SnapshotTypes'
  <2>1. nextSnapshotId' \in Nat
    BY <1>1, <1>3
  <2>2. mcpIds' = [q \in SnapshotPages |-> mcpIds'[q]]
    BY <1>1 DEF SnapshotInv, SnapshotTypes
  <2>3. extraHandles' \in [SnapshotPages -> Seq(Handle)]
    BY <1>1 DEF SnapshotInv, SnapshotTypes
  <2>4. QED
    BY <1>1, <2>1, <2>2, <2>3 DEF SnapshotInv, SnapshotTypes
<1>18. mcpIds'[p] = ids /\ \A q \in SnapshotPages \ {p} : mcpIds'[q] = mcpIds[q]
  BY <1>1 DEF SnapshotInv, SnapshotTypes
<1>19. \A q \in SnapshotPages : Grows(mcpIds[q], mcpIds'[q])
  BY <1>13, <1>18 DEF Grows
\* A key of a page is an old one with its uid, or a new one of this page.
<1>20. ASSUME NEW q \in SnapshotPages, NEW k \in DOMAIN mcpIds'[q]
       PROVE  \/ k \in DOMAIN mcpIds[q] /\ mcpIds'[q][k] = mcpIds[q][k]
              \/ q = p /\ \E b \in fresh : k = TS!uniqueBackendId(d, b) /\ mcpIds'[q][k] = <<n, rank(b)>>
  BY <1>13, <1>18 DEF Grows
<1>21. /\ \A q \in SnapshotPages : \A k \in DOMAIN mcpIds[q] :
            mcpIds[q][k] \in Nat \X Nat /\ mcpIds[q][k][1] < n
       /\ \A q, r \in SnapshotPages : \A k \in DOMAIN mcpIds[q], l \in DOMAIN mcpIds[r] :
            mcpIds[q][k] = mcpIds[r][l] => q = r /\ k = l
       /\ \A u \in DOMAIN named : u \in Nat \X Nat /\ u[1] < n
  BY DEF SnapshotInv, IdsAreUnique, n
<1>22. \A q \in SnapshotPages : \A k \in DOMAIN mcpIds'[q] :
            mcpIds'[q][k] \in Nat \X Nat /\ mcpIds'[q][k][1] < n + 1
  <2>1. SUFFICES ASSUME NEW q \in SnapshotPages, NEW k \in DOMAIN mcpIds'[q]
                 PROVE  mcpIds'[q][k] \in Nat \X Nat /\ mcpIds'[q][k][1] < n + 1
    OBVIOUS
  <2>2. CASE k \in DOMAIN mcpIds[q] /\ mcpIds'[q][k] = mcpIds[q][k]
    <3>1. mcpIds[q][k] \in Nat \X Nat /\ mcpIds[q][k][1] < n
      BY <1>21, <2>2
    <3>2. QED
      BY <1>3, <2>2, <3>1
  <2>3. CASE \E b \in fresh : mcpIds'[q][k] = <<n, rank(b)>>
    BY <1>3, <1>6, <2>3
  <2>4. QED
    BY <1>20, <2>2, <2>3
<1>23. ASSUME NEW q \in SnapshotPages, NEW r \in SnapshotPages, NEW k \in DOMAIN mcpIds'[q],
              NEW l \in DOMAIN mcpIds'[r], mcpIds'[q][k] = mcpIds'[r][l]
       PROVE  q = r /\ k = l
  <2>1. CASE k \in DOMAIN mcpIds[q] /\ mcpIds'[q][k] = mcpIds[q][k]
    <3>1. mcpIds'[q][k][1] < n
      BY <1>21, <2>1
    <3>2. l \in DOMAIN mcpIds[r] /\ mcpIds'[r][l] = mcpIds[r][l]
      BY <1>3, <1>20, <1>23, <3>1
    <3>3. mcpIds[q][k] = mcpIds[r][l] /\ k \in DOMAIN mcpIds[q] /\ l \in DOMAIN mcpIds[r]
      BY <1>23, <2>1, <3>2
    <3>4. QED
      BY <1>21, <3>3
  <2>2. CASE q = p /\ \E b \in fresh : k = TS!uniqueBackendId(d, b) /\ mcpIds'[q][k] = <<n, rank(b)>>
    <3>1. PICK b \in fresh : k = TS!uniqueBackendId(d, b) /\ mcpIds'[q][k] = <<n, rank(b)>>
      BY <2>2
    <3>2. ~(l \in DOMAIN mcpIds[r] /\ mcpIds'[r][l] = mcpIds[r][l])
      BY <1>3, <1>21, <1>23, <3>1
    <3>3. PICK c \in fresh : r = p /\ l = TS!uniqueBackendId(d, c) /\ mcpIds'[r][l] = <<n, rank(c)>>
      BY <1>20, <3>2
    <3>4. QED
      BY <1>7, <1>23, <2>2, <3>1, <3>3
  <2>3. QED
    BY <1>20, <2>1, <2>2
\* The nodes.
<1>24. \A b, c \in tree : uid1(b) = uid1(c) => b = c
  <2>1. SUFFICES ASSUME NEW b \in tree, NEW c \in tree, uid1(b) = uid1(c) PROVE b = c
    OBVIOUS
  <2>2. TS!uniqueBackendId(d, b) = TS!uniqueBackendId(d, c)
    BY <1>14, <1>18, <1>23, <2>1
  <2>3. QED
    BY <2>2, KeysDiffer
<1>25. \A b \in tree : uid1(b) \in DOMAIN nodes /\ nodes[uid1(b)] = [d |-> d, b |-> b]
  <2>1. SUFFICES ASSUME NEW b \in tree
                 PROVE uid1(b) \in DOMAIN nodes /\ nodes[uid1(b)] = [d |-> d, b |-> b]
    OBVIOUS
  <2>2. (CHOOSE c \in tree : uid1(c) = uid1(b)) = b
    BY <1>24
  <2>3. QED
    BY <1>10, <2>2
<1>26. \A u \in DOMAIN nodes : \E b \in tree : u = uid1(b)
  BY <1>10
<1> HIDE DEF uid1
<1>27. /\ Grows(named, named')
       /\ DOMAIN named' = DOMAIN named \cup DOMAIN nodes
       /\ \A u \in DOMAIN nodes \ DOMAIN named : named'[u] = nodes[u]
  <2>1. Grows(named, TS!With(named, nodes)) /\ DOMAIN TS!With(named, nodes) = DOMAIN named \cup DOMAIN nodes
    BY WithGrows
  <2>2. \A u \in DOMAIN nodes \ DOMAIN named : TS!With(named, nodes)[u] = nodes[u]
    BY WithGrows
  <2>3. named' = TS!With(named, nodes)
    BY <1>1
  <2>4. QED
    BY <2>1, <2>2, <2>3
<1>28. \A b \in tree : uid1(b) \in Nat \X Nat /\ uid1(b)[1] < n + 1
  BY <1>14, <1>18, <1>22 DEF uid1
<1>29. IdsAreUnique'
  <2>1. \A u \in DOMAIN named' : u \in Nat \X Nat /\ u[1] < n + 1
    BY <1>3, <1>21, <1>26, <1>27, <1>28
  <2>2. nextSnapshotId' = n + 1
    BY <1>1
  <2>3. QED
    BY <1>22, <1>23, <2>1, <2>2 DEF IdsAreUnique
\* An element of the tree is named by its uid.
<1>30. \A b \in tree : uid1(b) \in DOMAIN named' /\ named'[uid1(b)] = [d |-> d, b |-> b]
  <2>1. SUFFICES ASSUME NEW b \in tree
                 PROVE  uid1(b) \in DOMAIN named' /\ named'[uid1(b)] = [d |-> d, b |-> b]
    OBVIOUS
  <2>2. CASE b \in fresh
    <3>1. uid1(b) = <<n, rank(b)>>
      BY <1>13, <2>2 DEF uid1
    <3>2. uid1(b) \notin DOMAIN named
      BY <1>3, <1>21, <3>1
    <3>3. QED
      BY <1>25, <1>27, <3>2
  <2>3. CASE b \notin fresh
    <3>1. TS!uniqueBackendId(d, b) \in DOMAIN mcpIds[p] /\ uid1(b) = mcpIds[p][TS!uniqueBackendId(d, b)]
      BY <1>13, <1>5, <2>3 DEF uid1, Grows
    <3>2. b \in Nat
      OBVIOUS
    <3>3. uid1(b) \in DOMAIN named /\ named[uid1(b)] = [d |-> d, b |-> b]
      BY <1>3, <3>1, <3>2 DEF SnapshotInv, IdsAreOfElements
    <3>4. QED
      BY <1>27, <3>3 DEF Grows
  <2>4. QED
    BY <2>2, <2>3
<1>31. IdsAreOfElements'
  <2>1. ASSUME NEW q \in SnapshotPages, NEW e \in Nat, NEW b \in Nat,
               TS!uniqueBackendId(e, b) \in DOMAIN mcpIds'[q]
        PROVE  /\ mcpIds'[q][TS!uniqueBackendId(e, b)] \in DOMAIN named'
               /\ named'[mcpIds'[q][TS!uniqueBackendId(e, b)]] = [d |-> e, b |-> b]
    <3> DEFINE k == TS!uniqueBackendId(e, b)
    <3>1. CASE k \in DOMAIN mcpIds[q] /\ mcpIds'[q][k] = mcpIds[q][k]
      <4>1. mcpIds[q][k] \in DOMAIN named /\ named[mcpIds[q][k]] = [d |-> e, b |-> b]
        BY <3>1 DEF SnapshotInv, IdsAreOfElements
      <4>2. QED
        BY <1>27, <3>1, <4>1 DEF Grows
    <3>2. CASE q = p /\ \E c \in fresh : k = TS!uniqueBackendId(d, c)
      <4>1. PICK c \in fresh : k = TS!uniqueBackendId(d, c)
        BY <3>2
      <4>2. d = e /\ c = b
        BY <4>1, KeysDiffer
      <4>3. QED
        BY <1>4, <1>18, <1>30, <3>2, <4>1, <4>2 DEF uid1
    <3>3. QED
      BY <1>20, <2>1, <3>1, <3>2
  <2>2. ASSUME NEW q \in SnapshotPages, NEW b \in Nat,
               TS!customId(b) \in DOMAIN mcpIds'[q], mcpIds'[q][TS!customId(b)] \in DOMAIN named'
        PROVE  \E e \in 0 .. document'[q] :
                    named'[mcpIds'[q][TS!customId(b)]] = [d |-> e, b |-> b]
    <3> DEFINE k == TS!customId(b)
    <3>1. k \in DOMAIN mcpIds[q] /\ mcpIds'[q][k] = mcpIds[q][k]
      BY <1>20, <2>2, KeysDiffer
    <3>2. mcpIds[q][k] \in DOMAIN named
      <4>1. SUFFICES ASSUME mcpIds[q][k] \in DOMAIN nodes PROVE FALSE
        BY <1>27, <2>2, <3>1
      <4>2. PICK c \in tree : mcpIds[q][k] = uid1(c)
        BY <1>26, <4>1
      <4>3. TS!uniqueBackendId(d, c) \in DOMAIN mcpIds'[p] /\ mcpIds'[p][TS!uniqueBackendId(d, c)] = mcpIds'[q][k]
        BY <1>14, <1>18, <3>1, <4>2 DEF uid1
      <4>4. k = TS!uniqueBackendId(d, c)
        BY <1>23, <2>2, <4>3
      <4>5. QED
        BY <4>4, KeysDiffer
    <3>3. \E e \in 0 .. document[q] : named[mcpIds[q][k]] = [d |-> e, b |-> b]
      BY <3>1, <3>2 DEF SnapshotInv, IdsAreOfElements
    <3>4. document'[q] = document[q] /\ named'[mcpIds[q][k]] = named[mcpIds[q][k]]
      BY <1>1, <1>27, <3>2 DEF Grows
    <3>5. QED
      BY <3>1, <3>3, <3>4
  <2>3. QED
    BY <2>1, <2>2 DEF IdsAreOfElements
<1>32. MakingIsRight'
  <2>1. PICK parent :
        making' = [page |-> p, id |-> n, nodes |-> nodes, count |-> size,
                   seen |-> {TS!uniqueBackendId(d, b) : b \in tree}, todo |-> extraHandles'[p],
                   extra |-> {}, reorganise |-> <<>>, parent |-> parent]
    BY <1>2
  <2>2. /\ making'.page = p /\ making'.id = n /\ making'.nodes = nodes /\ making'.count = size
        /\ making'.seen = {TS!uniqueBackendId(d, b) : b \in tree} /\ making'.todo = extraHandles'[p]
        /\ making'.extra = {} /\ making'.reorganise = <<>> /\ making'.parent = parent
    BY <2>1
  <2>3. making' = [page |-> making'.page, id |-> making'.id, nodes |-> making'.nodes,
                   count |-> making'.count, seen |-> making'.seen, todo |-> making'.todo,
                   extra |-> making'.extra, reorganise |-> making'.reorganise,
                   parent |-> making'.parent]
    BY <2>1, <2>2
  <2>4. Right(ids, named', nodes, {})
    <3>1. SUFFICES ASSUME NEW u \in DOMAIN nodes
                   PROVE  /\ u \in DOMAIN named' /\ named'[u] = nodes[u]
                          /\ TS!uniqueBackendId(nodes[u].d, nodes[u].b) \in DOMAIN ids
                          /\ ids[TS!uniqueBackendId(nodes[u].d, nodes[u].b)] = u
      BY DEF Right
    <3>2. PICK b \in tree : u = uid1(b)
      BY <1>26
    <3>3. nodes[u] = [d |-> d, b |-> b]
      BY <1>25, <3>2
    <3> nodes[u].d = d /\ nodes[u].b = b
      BY <3>3
    <3>4. QED
      BY <1>14, <1>30, <3>2, <3>3 DEF uid1
  <2>5. \A u \in DOMAIN nodes :
          nodes[u] \in Handle /\ TS!uniqueBackendId(nodes[u].d, nodes[u].b) \in {TS!uniqueBackendId(d, b) : b \in tree}
    <3>1. SUFFICES ASSUME NEW u \in DOMAIN nodes
                   PROVE nodes[u] \in Handle /\ TS!uniqueBackendId(nodes[u].d, nodes[u].b) \in {TS!uniqueBackendId(d, b) : b \in tree}
      OBVIOUS
    <3>2. PICK b \in tree : u = uid1(b)
      BY <1>26
    <3>3. nodes[u] = [d |-> d, b |-> b]
      BY <1>25, <3>2
    <3> nodes[u].d = d /\ nodes[u].b = b
      BY <3>3
    <3> b \in Nat
      OBVIOUS
    <3>4. QED
      BY <1>3, <3>3 DEF Handle
  <2>6. \A q \in SnapshotPages : \A k \in DOMAIN mcpIds'[q] :
              mcpIds'[q][k][1] = n => mcpIds'[q][k][2] < size
    BY <1>3, <1>6, <1>20, <1>21
  <2>7. \A u \in DOMAIN named' : u[1] = n => u[2] < size
    <3>1. SUFFICES ASSUME NEW u \in DOMAIN named', u[1] = n PROVE u[2] < size
      OBVIOUS
    <3>2. u \notin DOMAIN named
      BY <1>3, <1>21, <3>1
    <3>3. PICK b \in tree : u = uid1(b)
      BY <1>26, <1>27, <3>2
    <3>4. QED
      BY <1>14, <1>18, <2>6, <3>1, <3>3 DEF uid1
  <2>8. making'.todo \in Seq(Handle)
    BY <1>17, <2>2 DEF SnapshotTypes
  <2>9. Right(mcpIds'[making'.page], named', making'.nodes, making'.extra)
    BY <1>18, <2>2, <2>4
  <2>10. QED
    BY <1>1, <1>3, <1>6, <2>2, <2>3, <2>5, <2>6, <2>7, <2>8, <2>9 DEF MakingIsRight
<1>33. SnapshotsAreRight'
  <2>1. SUFFICES ASSUME NEW q \in SnapshotPages
                 PROVE  Right(mcpIds'[q], named', textSnapshot[q].nodes, textSnapshot[q].extra)
    BY <1>1 DEF SnapshotsAreRight
  <2>2. Right(mcpIds[q], named, textSnapshot[q].nodes, textSnapshot[q].extra)
    BY DEF SnapshotInv, SnapshotsAreRight
  <2>3. QED
    BY <1>19, <1>27, <2>2, StaysRight
<1>34. QED
  BY <1>17, <1>29, <1>31, <1>32, <1>33 DEF SnapshotInv
\* An element handed out gets its uid.
Entered(key, uid1) ==
    /\ making # TS!Nothing
    /\ uid1 = IF key \in DOMAIN mcpIds[making.page] THEN mcpIds[making.page][key]
              ELSE <<making.id, making.count>>
    /\ mcpIds' = [mcpIds EXCEPT ![making.page] =
                     TS!With(mcpIds[making.page], [k \in {key} |-> uid1])]

LEMMA IdEntered ==
    ASSUME SnapshotInv, NEW key, NEW uid1, Entered(key, uid1)
    PROVE  /\ mcpIds' = [q \in SnapshotPages |-> mcpIds'[q]]
           /\ \A q \in SnapshotPages : Grows(mcpIds[q], mcpIds'[q])
           /\ key \in DOMAIN mcpIds'[making.page] /\ mcpIds'[making.page][key] = uid1
           /\ uid1 \in Nat \X Nat /\ uid1[1] < nextSnapshotId
           /\ \A q \in SnapshotPages : \A k \in DOMAIN mcpIds'[q] :
                \/ k \in DOMAIN mcpIds[q] /\ mcpIds'[q][k] = mcpIds[q][k]
                \/ q = making.page /\ k = key /\ mcpIds'[q][k] = uid1
           /\ \A q \in SnapshotPages : \A k \in DOMAIN mcpIds'[q] :
                mcpIds'[q][k] \in Nat \X Nat /\ mcpIds'[q][k][1] < nextSnapshotId
           /\ \A q, r \in SnapshotPages : \A k \in DOMAIN mcpIds'[q], l \in DOMAIN mcpIds'[r] :
                mcpIds'[q][k] = mcpIds'[r][l] => q = r /\ k = l
           /\ key \notin DOMAIN mcpIds[making.page] =>
                uid1 = <<making.id, making.count>> /\ uid1 \notin DOMAIN named
<1> DEFINE p == making.page
           ids == TS!With(mcpIds[p], [k \in {key} |-> uid1])
<1>1. /\ p \in SnapshotPages /\ making.count \in Nat /\ making.id \in Nat
      /\ making.id + 1 = nextSnapshotId
      /\ \A q \in SnapshotPages : \A k \in DOMAIN mcpIds[q] :
              mcpIds[q][k][1] = making.id => mcpIds[q][k][2] < making.count
      /\ \A u \in DOMAIN named : u[1] = making.id => u[2] < making.count
  BY DEF SnapshotInv, MakingIsRight, Entered
<1>2. /\ \A q \in SnapshotPages : \A k \in DOMAIN mcpIds[q] :
            mcpIds[q][k] \in Nat \X Nat /\ mcpIds[q][k][1] < nextSnapshotId
      /\ \A q, r \in SnapshotPages : \A k \in DOMAIN mcpIds[q], l \in DOMAIN mcpIds[r] :
            mcpIds[q][k] = mcpIds[r][l] => q = r /\ k = l
  BY DEF SnapshotInv, IdsAreUnique
<1>3. /\ DOMAIN ids = DOMAIN mcpIds[p] \cup {key} /\ ids[key] = uid1 /\ Grows(mcpIds[p], ids)
      /\ \A k \in DOMAIN ids : k = key \/ (k \in DOMAIN mcpIds[p] /\ ids[k] = mcpIds[p][k])
  <2> DEFINE one == [k \in {key} |-> uid1]
  <2>1. DOMAIN one = {key} /\ one[key] = uid1
    OBVIOUS
  <2> HIDE DEF one
  <2>2. Grows(mcpIds[p], TS!With(mcpIds[p], one))
        /\ DOMAIN TS!With(mcpIds[p], one) = DOMAIN mcpIds[p] \cup DOMAIN one
    BY WithGrows
  <2>3. \A k \in DOMAIN one \ DOMAIN mcpIds[p] : TS!With(mcpIds[p], one)[k] = one[k]
    BY WithGrows
  <2>4. ids = TS!With(mcpIds[p], one)
    BY DEF one
  <2> HIDE DEF ids
  <2>5. key \in DOMAIN mcpIds[p] => mcpIds[p][key] = uid1
    BY DEF Entered
  <2>6. QED
    BY <2>1, <2>2, <2>3, <2>4, <2>5 DEF Grows
<1> HIDE DEF ids
<1>4. mcpIds' = [mcpIds EXCEPT ![p] = ids] /\ mcpIds = [q \in SnapshotPages |-> mcpIds[q]]
  BY DEF Entered, ids, SnapshotInv, SnapshotTypes
<1> HIDE DEF p
<1>5. mcpIds'[p] = ids /\ \A q \in SnapshotPages \ {p} : mcpIds'[q] = mcpIds[q]
  BY <1>1, <1>4
<1>6. mcpIds' = [q \in SnapshotPages |-> mcpIds'[q]]
  BY <1>4
<1>7. \A q \in SnapshotPages : Grows(mcpIds[q], mcpIds'[q])
  BY <1>3, <1>5 DEF Grows
<1>8. \A q \in SnapshotPages : \A k \in DOMAIN mcpIds'[q] :
          \/ k \in DOMAIN mcpIds[q] /\ mcpIds'[q][k] = mcpIds[q][k]
          \/ q = p /\ k = key /\ mcpIds'[q][k] = uid1
  BY <1>3, <1>5
<1>9. CASE key \in DOMAIN mcpIds[p]
  <2>1. uid1 = mcpIds[p][key]
    BY <1>9 DEF Entered, p
  <2>2. \A q \in SnapshotPages : \A k \in DOMAIN mcpIds'[q] :
          k \in DOMAIN mcpIds[q] /\ mcpIds'[q][k] = mcpIds[q][k]
    BY <1>8, <1>9, <2>1
  <2>3. /\ \A q \in SnapshotPages : \A k \in DOMAIN mcpIds'[q] :
            mcpIds'[q][k] \in Nat \X Nat /\ mcpIds'[q][k][1] < nextSnapshotId
        /\ \A q, r \in SnapshotPages : \A k \in DOMAIN mcpIds'[q], l \in DOMAIN mcpIds'[r] :
            mcpIds'[q][k] = mcpIds'[r][l] => q = r /\ k = l
    BY <1>2, <2>2
  <2>4. uid1 \in Nat \X Nat /\ uid1[1] < nextSnapshotId
    BY <1>1, <1>2, <1>9, <2>1
  <2>5. QED
    BY <1>3, <1>5, <1>6, <1>7, <1>8, <1>9, <2>3, <2>4 DEF p
<1>10. CASE key \notin DOMAIN mcpIds[p]
  <2>1. uid1 = <<making.id, making.count>> /\ uid1[1] = making.id /\ uid1[2] = making.count
    BY <1>10 DEF Entered, p
  <2>2. uid1 \in Nat \X Nat /\ uid1[1] < nextSnapshotId
    BY <1>1, <2>1
  <2>3. uid1 \notin DOMAIN named
    BY <1>1, <2>1
  <2>4. \A q \in SnapshotPages : \A k \in DOMAIN mcpIds[q] : mcpIds[q][k] # uid1
    BY <1>1, <2>1
  <2>5. \A q \in SnapshotPages : \A k \in DOMAIN mcpIds'[q] :
            mcpIds'[q][k] \in Nat \X Nat /\ mcpIds'[q][k][1] < nextSnapshotId
    <3>1. SUFFICES ASSUME NEW q \in SnapshotPages, NEW k \in DOMAIN mcpIds'[q]
                   PROVE  mcpIds'[q][k] \in Nat \X Nat /\ mcpIds'[q][k][1] < nextSnapshotId
      OBVIOUS
    <3>2. CASE mcpIds'[q][k] = uid1
      BY <2>2, <3>2
    <3>3. CASE k \in DOMAIN mcpIds[q] /\ mcpIds'[q][k] = mcpIds[q][k]
      BY <1>2, <3>3
    <3>4. QED
      BY <1>8, <3>2, <3>3
  <2>6. \A q, r \in SnapshotPages : \A k \in DOMAIN mcpIds'[q], l \in DOMAIN mcpIds'[r] :
            mcpIds'[q][k] = mcpIds'[r][l] => q = r /\ k = l
    <3>1. SUFFICES ASSUME NEW q \in SnapshotPages, NEW r \in SnapshotPages,
                          NEW k \in DOMAIN mcpIds'[q], NEW l \in DOMAIN mcpIds'[r],
                          mcpIds'[q][k] = mcpIds'[r][l]
                   PROVE  q = r /\ k = l
      OBVIOUS
    <3>2. CASE mcpIds'[q][k] = uid1
      <4>1. q = p /\ k = key
        BY <1>8, <2>4, <3>2
      <4>2. mcpIds'[r][l] = uid1
        BY <3>1, <3>2
      <4>3. r = p /\ l = key
        BY <1>8, <2>4, <4>2
      <4>4. QED
        BY <4>1, <4>3
    <3>3. CASE mcpIds'[q][k] # uid1
      <4>1. /\ k \in DOMAIN mcpIds[q] /\ mcpIds'[q][k] = mcpIds[q][k]
            /\ l \in DOMAIN mcpIds[r] /\ mcpIds'[r][l] = mcpIds[r][l]
        BY <1>8, <3>1, <3>3
      <4>2. mcpIds[q][k] = mcpIds[r][l]
        BY <3>1, <4>1
      <4>3. QED
        BY <1>2, <4>1, <4>2
    <3>4. QED
      BY <3>2, <3>3
  <2>7. QED
    BY <1>3, <1>5, <1>6, <1>7, <1>8, <2>1, <2>2, <2>3, <2>5, <2>6 DEF p
<1>11. QED
  BY <1>9, <1>10

\* Its document is gone: the making ends.
LEMMA ElementIsGone ==
    ASSUME SnapshotInv, NEW b \in Nat, NEW uid1, Entered(TS!customId(b), uid1),
           making' = TS!Nothing,
           UNCHANGED <<document, extraHandles, textSnapshot, nextSnapshotId, named>>
    PROVE  SnapshotInv'
<1> DEFINE key == TS!customId(b)
           p == making.page
<1>1. /\ mcpIds' = [q \in SnapshotPages |-> mcpIds'[q]]
      /\ \A q \in SnapshotPages : Grows(mcpIds[q], mcpIds'[q])
      /\ \A q \in SnapshotPages : \A k \in DOMAIN mcpIds'[q] :
           \/ k \in DOMAIN mcpIds[q] /\ mcpIds'[q][k] = mcpIds[q][k]
           \/ q = p /\ k = key /\ mcpIds'[q][k] = uid1
      /\ \A q \in SnapshotPages : \A k \in DOMAIN mcpIds'[q] :
           mcpIds'[q][k] \in Nat \X Nat /\ mcpIds'[q][k][1] < nextSnapshotId
      /\ \A q, r \in SnapshotPages : \A k \in DOMAIN mcpIds'[q], l \in DOMAIN mcpIds'[r] :
           mcpIds'[q][k] = mcpIds'[r][l] => q = r /\ k = l
      /\ key \notin DOMAIN mcpIds[p] => uid1 \notin DOMAIN named
  BY IdEntered
<1>2. SnapshotTypes'
  BY <1>1 DEF SnapshotInv, SnapshotTypes
<1>3. IdsAreUnique'
  BY <1>1 DEF SnapshotInv, IdsAreUnique
<1> DEFINE old(q, k) == k \in DOMAIN mcpIds[q] /\ mcpIds'[q][k] = mcpIds[q][k]
<1>4. ASSUME NEW q \in SnapshotPages, NEW k \in DOMAIN mcpIds'[q],
             k # key \/ mcpIds'[q][k] \in DOMAIN named
      PROVE  old(q, k)
  <2>1. CASE q = p /\ k = key /\ mcpIds'[q][k] = uid1
    <3>1. key \in DOMAIN mcpIds[p]
      BY <1>1, <1>4, <2>1
    <3>2. QED
      BY <1>1, <2>1, <3>1 DEF Grows, Entered, SnapshotInv, MakingIsRight
  <2>2. QED
    BY <1>1, <2>1
<1>5. IdsAreOfElements'
  <2>1. ASSUME NEW q \in SnapshotPages, NEW e \in Nat, NEW c \in Nat,
               TS!uniqueBackendId(e, c) \in DOMAIN mcpIds'[q]
        PROVE  /\ mcpIds'[q][TS!uniqueBackendId(e, c)] \in DOMAIN named
               /\ named[mcpIds'[q][TS!uniqueBackendId(e, c)]] = [d |-> e, b |-> c]
    <3>1. TS!uniqueBackendId(e, c) # key
      BY KeysDiffer
    <3>2. old(q, TS!uniqueBackendId(e, c))
      BY <1>4, <2>1, <3>1
    <3>3. QED
      BY <3>2 DEF SnapshotInv, IdsAreOfElements
  <2>2. ASSUME NEW q \in SnapshotPages, NEW c \in Nat,
               TS!customId(c) \in DOMAIN mcpIds'[q], mcpIds'[q][TS!customId(c)] \in DOMAIN named
        PROVE  \E e \in 0 .. document[q] :
                    named[mcpIds'[q][TS!customId(c)]] = [d |-> e, b |-> c]
    <3>1. old(q, TS!customId(c))
      BY <1>4, <2>2
    <3>2. mcpIds[q][TS!customId(c)] \in DOMAIN named
      BY <2>2, <3>1
    <3>3. \E e \in 0 .. document[q] : named[mcpIds[q][TS!customId(c)]] = [d |-> e, b |-> c]
      BY <3>1, <3>2 DEF SnapshotInv, IdsAreOfElements
    <3>4. QED
      BY <3>1, <3>3
  <2>3. QED
    BY <2>1, <2>2 DEF IdsAreOfElements
<1>6. MakingIsRight'
  BY DEF MakingIsRight
<1>7. SnapshotsAreRight'
  <2>1. SUFFICES ASSUME NEW q \in SnapshotPages
                 PROVE  Right(mcpIds'[q], named, textSnapshot[q].nodes, textSnapshot[q].extra)
    BY DEF SnapshotsAreRight
  <2>2. Right(mcpIds[q], named, textSnapshot[q].nodes, textSnapshot[q].extra)
    BY DEF SnapshotInv, SnapshotsAreRight
  <2>3. Grows(mcpIds[q], mcpIds'[q]) /\ Grows(named, named)
    BY <1>1 DEF Grows
  <2>4. QED
    BY <2>2, <2>3, StaysRight
<1>8. QED
  BY <1>2, <1>3, <1>5, <1>6, <1>7 DEF SnapshotInv

\* It is put into the tree.
LEMMA ElementIsAdded ==
    ASSUME SnapshotInv, NEW handle \in Handle, NEW uid1, Entered(TS!customId(handle.b), uid1),
           handle.d = document[making.page],
           named' = TS!With(named, [u \in {uid1} |-> handle]),
           NEW todo \in Seq(Handle), NEW reorganise,
           making' = [making EXCEPT
                !.todo = todo, !.nodes = TS!With([u \in {uid1} |-> handle], making.nodes),
                !.seen = making.seen \cup {TS!customId(handle.b)},
                !.extra = making.extra \cup {uid1},
                !.count = IF TS!customId(handle.b) \in DOMAIN mcpIds[making.page]
                          THEN making.count ELSE making.count + 1,
                !.reorganise = reorganise],
           UNCHANGED <<document, extraHandles, textSnapshot, nextSnapshotId>>
    PROVE  SnapshotInv'
<1> DEFINE b == handle.b
           key == TS!customId(b)
           p == making.page
           one == [u \in {uid1} |-> handle]
<1>1. /\ mcpIds' = [q \in SnapshotPages |-> mcpIds'[q]]
      /\ \A q \in SnapshotPages : Grows(mcpIds[q], mcpIds'[q])
      /\ key \in DOMAIN mcpIds'[p] /\ mcpIds'[p][key] = uid1
      /\ uid1 \in Nat \X Nat /\ uid1[1] < nextSnapshotId
      /\ \A q \in SnapshotPages : \A k \in DOMAIN mcpIds'[q] :
           \/ k \in DOMAIN mcpIds[q] /\ mcpIds'[q][k] = mcpIds[q][k]
           \/ q = p /\ k = key /\ mcpIds'[q][k] = uid1
      /\ \A q \in SnapshotPages : \A k \in DOMAIN mcpIds'[q] :
           mcpIds'[q][k] \in Nat \X Nat /\ mcpIds'[q][k][1] < nextSnapshotId
      /\ \A q, r \in SnapshotPages : \A k \in DOMAIN mcpIds'[q], l \in DOMAIN mcpIds'[r] :
           mcpIds'[q][k] = mcpIds'[r][l] => q = r /\ k = l
      /\ key \notin DOMAIN mcpIds[p] =>
           uid1 = <<making.id, making.count>> /\ uid1 \notin DOMAIN named
  BY IdEntered
<1>2. /\ p \in SnapshotPages /\ making.count \in Nat /\ making.id \in Nat
      /\ making.id + 1 = nextSnapshotId /\ making # TS!Nothing
      /\ making = [page |-> making.page, id |-> making.id, nodes |-> making.nodes,
                   count |-> making.count, seen |-> making.seen, todo |-> making.todo,
                   extra |-> making.extra, reorganise |-> making.reorganise,
                   parent |-> making.parent]
      /\ Right(mcpIds[p], named, making.nodes, making.extra)
      /\ \A u \in DOMAIN making.nodes : making.nodes[u] \in Handle
      /\ \A u \in DOMAIN making.nodes :
              IF u \in making.extra THEN TS!customId(making.nodes[u].b) \in making.seen
              ELSE TS!uniqueBackendId(making.nodes[u].d, making.nodes[u].b) \in making.seen
      /\ \A q \in SnapshotPages : \A k \in DOMAIN mcpIds[q] :
              mcpIds[q][k][1] = making.id => mcpIds[q][k][2] < making.count
      /\ \A u \in DOMAIN named : u[1] = making.id => u[2] < making.count
  BY DEF SnapshotInv, MakingIsRight, Entered
<1>3. handle = [d |-> handle.d, b |-> handle.b] /\ b \in Nat /\ handle.d \in Nat
  BY DEF Handle
<1>4. DOMAIN one = {uid1} /\ one[uid1] = handle
  OBVIOUS
<1>5. named' = TS!With(named, one)
  OBVIOUS
<1> DEFINE more == TS!With(one, making.nodes)
           many == IF key \in DOMAIN mcpIds[p] THEN making.count ELSE making.count + 1
<1>6. making' = [making EXCEPT !.todo = todo, !.nodes = more, !.seen = making.seen \cup {key},
                    !.extra = making.extra \cup {uid1}, !.count = many,
                    !.reorganise = reorganise]
  OBVIOUS
<1>7. Right(mcpIds[p], named, making.nodes, making.extra)
  BY <1>2
<1> HIDE DEF one
<1>8. /\ Grows(named, named') /\ DOMAIN named' = DOMAIN named \cup {uid1}
      /\ uid1 \notin DOMAIN named => named'[uid1] = handle
  <2>1. Grows(named, TS!With(named, one)) /\ DOMAIN TS!With(named, one) = DOMAIN named \cup DOMAIN one
    BY WithGrows
  <2>2. \A u \in DOMAIN one \ DOMAIN named : TS!With(named, one)[u] = one[u]
    BY WithGrows
  <2>3. QED
    BY <1>4, <1>5, <2>1, <2>2
<1>9. /\ DOMAIN more = DOMAIN making.nodes \cup {uid1} /\ more[uid1] = handle
      /\ \A u \in DOMAIN making.nodes \ {uid1} : more[u] = making.nodes[u]
  <2>1. Grows(one, TS!With(one, making.nodes))
        /\ DOMAIN TS!With(one, making.nodes) = DOMAIN one \cup DOMAIN making.nodes
    BY WithGrows
  <2>2. \A u \in DOMAIN making.nodes \ DOMAIN one : TS!With(one, making.nodes)[u] = making.nodes[u]
    BY WithGrows
  <2>3. QED
    BY <1>4, <2>1, <2>2 DEF Grows
<1> HIDE DEF more, many
<1>10. /\ making'.page = p /\ making'.id = making.id /\ making'.nodes = more
       /\ making'.count = many /\ making'.seen = making.seen \cup {key} /\ making'.todo = todo
       /\ making'.extra = making.extra \cup {uid1} /\ making'.reorganise = reorganise
       /\ making'.parent = making.parent
       /\ making' = [page |-> making'.page, id |-> making'.id, nodes |-> making'.nodes,
                     count |-> making'.count, seen |-> making'.seen, todo |-> making'.todo,
                     extra |-> making'.extra, reorganise |-> making'.reorganise,
                     parent |-> making'.parent]
  BY <1>2, <1>6
<1>11. SnapshotTypes'
  <2>1. mcpIds' = [q \in SnapshotPages |-> mcpIds'[q]]
    BY <1>1
  <2>2. /\ document' \in [SnapshotPages -> Nat] /\ nextSnapshotId' \in Nat
        /\ textSnapshot' = [q \in SnapshotPages |-> textSnapshot'[q]]
        /\ extraHandles' \in [SnapshotPages -> Seq(Handle)]
    BY DEF SnapshotInv, SnapshotTypes
  <2>3. QED
    BY <2>1, <2>2 DEF SnapshotTypes
<1>12. IdsAreUnique'
  <2>1. \A u \in DOMAIN named' : u \in Nat \X Nat /\ u[1] < nextSnapshotId
    BY <1>1, <1>8 DEF SnapshotInv, IdsAreUnique
  <2>2. QED
    BY <1>1, <2>1 DEF IdsAreUnique
<1>13. ASSUME NEW q \in SnapshotPages, NEW k \in DOMAIN mcpIds'[q], k # key \/ q # p
       PROVE  k \in DOMAIN mcpIds[q] /\ mcpIds'[q][k] = mcpIds[q][k] /\ mcpIds'[q][k] # uid1
  <2>1. k \in DOMAIN mcpIds[q] /\ mcpIds'[q][k] = mcpIds[q][k]
    BY <1>1, <1>13
  <2>2. mcpIds'[q][k] # uid1
    BY <1>1, <1>2, <1>13
  <2>3. QED
    BY <2>1, <2>2
\* The element the uid of the key was first given to.
<1>14. /\ uid1 \in DOMAIN named'
       /\ \E e \in 0 .. document[p] : named'[uid1] = [d |-> e, b |-> b]
       /\ named'[uid1] = handle \/ named'[uid1].d < handle.d
  <2>1. CASE uid1 \in DOMAIN named
    <3>1. key \in DOMAIN mcpIds[p] /\ mcpIds[p][key] = uid1
      BY <1>1, <1>2, <2>1 DEF Grows
    <3>2. PICK e \in 0 .. document[p] : named[uid1] = [d |-> e, b |-> b]
      BY <1>2, <1>3, <2>1, <3>1 DEF SnapshotInv, IdsAreOfElements
    <3>3. named'[uid1] = [d |-> e, b |-> b] /\ uid1 \in DOMAIN named'
      BY <1>8, <2>1, <3>2 DEF Grows
    <3>4. e = handle.d \/ e < handle.d
      BY <1>3, <3>2
    <3>5. CASE e = handle.d
      BY <1>3, <3>2, <3>3, <3>5
    <3>6. CASE e < handle.d
      <4>1. named'[uid1].d = e
        BY <3>3
      <4>2. QED
        BY <3>2, <3>3, <3>6, <4>1
    <3>7. QED
      BY <3>4, <3>5, <3>6
  <2>2. CASE uid1 \notin DOMAIN named
    <3>1. handle.d \in 0 .. document[p] /\ named'[uid1] = [d |-> handle.d, b |-> b]
      BY <1>3, <1>8, <2>2
    <3>2. QED
      BY <1>8, <2>2, <3>1
  <2>3. QED
    BY <2>1, <2>2
<1>15. IdsAreOfElements'
  <2>1. ASSUME NEW q \in SnapshotPages, NEW e \in Nat, NEW c \in Nat,
               TS!uniqueBackendId(e, c) \in DOMAIN mcpIds'[q]
        PROVE  /\ mcpIds'[q][TS!uniqueBackendId(e, c)] \in DOMAIN named'
               /\ named'[mcpIds'[q][TS!uniqueBackendId(e, c)]] = [d |-> e, b |-> c]
    <3> DEFINE k == TS!uniqueBackendId(e, c)
    <3>1. k # key
      BY KeysDiffer
    <3>2. k \in DOMAIN mcpIds[q] /\ mcpIds'[q][k] = mcpIds[q][k]
      BY <1>13, <2>1, <3>1
    <3>3. mcpIds[q][k] \in DOMAIN named /\ named[mcpIds[q][k]] = [d |-> e, b |-> c]
      BY <3>2 DEF SnapshotInv, IdsAreOfElements
    <3>4. QED
      BY <1>8, <3>2, <3>3 DEF Grows
  <2>2. ASSUME NEW q \in SnapshotPages, NEW c \in Nat,
               TS!customId(c) \in DOMAIN mcpIds'[q], mcpIds'[q][TS!customId(c)] \in DOMAIN named'
        PROVE  \E e \in 0 .. document'[q] :
                    named'[mcpIds'[q][TS!customId(c)]] = [d |-> e, b |-> c]
    <3> DEFINE k == TS!customId(c)
    <3>1. CASE k = key /\ q = p
      <4>1. c = b /\ mcpIds'[q][k] = uid1 /\ document'[q] = document[p]
        BY <1>1, <3>1, KeysDiffer
      <4>2. QED
        BY <1>14, <4>1
    <3>2. CASE k # key \/ q # p
      <4>1. k \in DOMAIN mcpIds[q] /\ mcpIds'[q][k] = mcpIds[q][k] /\ mcpIds'[q][k] # uid1
        BY <1>13, <2>2, <3>2
      <4>2. mcpIds[q][k] \in DOMAIN named
        BY <1>8, <2>2, <4>1
      <4>3. \E e \in 0 .. document[q] : named[mcpIds[q][k]] = [d |-> e, b |-> c]
        BY <4>1, <4>2 DEF SnapshotInv, IdsAreOfElements
      <4>4. QED
        BY <1>8, <4>1, <4>2, <4>3 DEF Grows
    <3>3. QED
      BY <3>1, <3>2
  <2>3. QED
    BY <2>1, <2>2 DEF IdsAreOfElements
<1>16. MakingIsRight'
  <2>1. Right(mcpIds'[p], named', more, making.extra \cup {uid1})
    <3>1. Grows(mcpIds[p], mcpIds'[p]) /\ Grows(named, named')
      BY <1>1, <1>2, <1>8
    <3>2. Right(mcpIds'[p], named', making.nodes, making.extra)
      BY <1>7, <3>1, StaysRight
    <3>3. TS!customId(handle.b) \in DOMAIN mcpIds'[p] /\ mcpIds'[p][TS!customId(handle.b)] = uid1
      BY <1>1
    <3> HIDE DEF p, b, key
    <3>4. QED
      BY <1>9, <1>14, <3>2, <3>3 DEF Right
  <2>2. many \in Nat /\ making.count <= many
    BY <1>2 DEF many
  <2>3. uid1[1] = making.id => uid1[2] < many
    <3>1. CASE key \in DOMAIN mcpIds[p]
      <4>1. mcpIds[p][key] = uid1
        BY <1>1, <1>2, <3>1 DEF Grows
      <4>2. QED
        BY <1>2, <3>1, <4>1 DEF many
    <3>2. CASE key \notin DOMAIN mcpIds[p]
      BY <1>1, <1>2, <3>2 DEF many
    <3>3. QED
      BY <3>1, <3>2
  <2>4. ASSUME NEW q \in SnapshotPages, NEW k \in DOMAIN mcpIds'[q], mcpIds'[q][k][1] = making.id
        PROVE  mcpIds'[q][k][2] < many
    <3>1. CASE mcpIds'[q][k] = uid1
      BY <2>3, <2>4, <3>1
    <3>2. CASE k \in DOMAIN mcpIds[q] /\ mcpIds'[q][k] = mcpIds[q][k]
      <4>1. mcpIds[q][k][2] < making.count /\ mcpIds[q][k] \in Nat \X Nat
        BY <1>2, <2>4, <3>2 DEF SnapshotInv, IdsAreUnique
      <4>2. QED
        BY <1>2, <2>2, <3>2, <4>1
    <3>3. QED
      BY <1>1, <3>1, <3>2
  <2>5. ASSUME NEW u \in DOMAIN named', u[1] = making.id PROVE u[2] < many
    <3>1. CASE u = uid1
      BY <2>3, <2>5, <3>1
    <3>2. CASE u \in DOMAIN named
      <4>1. u[2] < making.count /\ u \in Nat \X Nat
        BY <1>2, <2>5, <3>2 DEF SnapshotInv, IdsAreUnique
      <4>2. QED
        BY <1>2, <2>2, <4>1
    <3>3. QED
      BY <1>8, <3>1, <3>2
  <2>6. \A u \in DOMAIN more : more[u] \in Handle
    BY <1>2, <1>9
  <2>7. ASSUME NEW u \in DOMAIN more
        PROVE  IF u \in making.extra \cup {uid1} THEN TS!customId(more[u].b) \in making.seen \cup {key}
               ELSE TS!uniqueBackendId(more[u].d, more[u].b) \in making.seen \cup {key}
    <3>1. CASE u = uid1
      BY <1>9, <3>1
    <3>2. CASE u # uid1
      BY <1>2, <1>9, <3>2
    <3>3. QED
      BY <3>1, <3>2
  <2>8. making'.id + 1 = nextSnapshotId' /\ making'.id \in Nat /\ making'.count \in Nat
        /\ making'.page \in SnapshotPages /\ making'.todo \in Seq(Handle)
    BY <1>2, <1>10, <2>2
  <2>9. Right(mcpIds'[making'.page], named', making'.nodes, making'.extra)
    BY <1>10, <2>1
  <2>10. QED
    BY <1>10, <2>4, <2>5, <2>6, <2>7, <2>8, <2>9 DEF MakingIsRight
<1>17. SnapshotsAreRight'
  <2>1. SUFFICES ASSUME NEW q \in SnapshotPages
                 PROVE  Right(mcpIds'[q], named', textSnapshot[q].nodes, textSnapshot[q].extra)
    BY DEF SnapshotsAreRight
  <2>2. Right(mcpIds[q], named, textSnapshot[q].nodes, textSnapshot[q].extra)
    BY DEF SnapshotInv, SnapshotsAreRight
  <2>3. QED
    BY <1>1, <1>8, <2>2, StaysRight
<1>18. QED
  BY <1>11, <1>12, <1>15, <1>16, <1>17 DEF SnapshotInv
\* The tree has it already.
LEMMA ElementIsPassed ==
    ASSUME SnapshotInv, making # TS!Nothing, NEW todo \in Seq(Handle),
           making' = [making EXCEPT !.todo = todo],
           UNCHANGED <<document, mcpIds, extraHandles, textSnapshot, nextSnapshotId, named>>
    PROVE  SnapshotInv'
<1>1. making = [page |-> making.page, id |-> making.id, nodes |-> making.nodes,
                count |-> making.count, seen |-> making.seen, todo |-> making.todo,
                extra |-> making.extra, reorganise |-> making.reorganise,
                parent |-> making.parent]
  BY DEF SnapshotInv, MakingIsRight
<1>2. /\ making'.page = making.page /\ making'.id = making.id /\ making'.nodes = making.nodes
      /\ making'.count = making.count /\ making'.seen = making.seen /\ making'.todo = todo
      /\ making'.extra = making.extra /\ making'.reorganise = making.reorganise
      /\ making'.parent = making.parent
      /\ making' = [page |-> making'.page, id |-> making'.id, nodes |-> making'.nodes,
                    count |-> making'.count, seen |-> making'.seen, todo |-> making'.todo,
                    extra |-> making'.extra, reorganise |-> making'.reorganise,
                    parent |-> making'.parent]
  BY <1>1
<1>3. MakingIsRight'
  BY <1>2 DEF SnapshotInv, MakingIsRight
<1>4. QED
  BY <1>3 DEF SnapshotInv, SnapshotTypes, IdsAreUnique, IdsAreOfElements, SnapshotsAreRight

\* The ids a page has after one of its snapshots is made.
LEMMA Ended ==
    ASSUME SnapshotInv, TS!createEnds
    PROVE  /\ making # TS!Nothing /\ making.page \in SnapshotPages /\ making' = TS!Nothing
           /\ \E parent : textSnapshot' = [textSnapshot EXCEPT ![making.page] =
                  [nodes |-> making.nodes, parent |-> parent, extra |-> making.extra]]
           /\ mcpIds' = [mcpIds EXCEPT ![making.page] =
                  TS!Kept(mcpIds[making.page], making.seen)]
           /\ UNCHANGED <<document, extraHandles, nextSnapshotId, named>>
<1>1. making # TS!Nothing
  BY DEF TS!createEnds
<1>2. \E parent : textSnapshot' = [textSnapshot EXCEPT ![making.page] =
                  [nodes |-> making.nodes, parent |-> parent, extra |-> making.extra]]
  BY Zenon DEF TS!createEnds
<1>3. QED
  BY <1>1, <1>2 DEF TS!createEnds, SnapshotInv, MakingIsRight

LEMMA SnapshotIsMade ==
    ASSUME SnapshotInv, TS!createEnds
    PROVE  SnapshotInv'
<1> DEFINE p == making.page
           kept == TS!Kept(mcpIds[p], making.seen)
<1>1. PICK parent :
        /\ making # TS!Nothing /\ p \in SnapshotPages /\ making' = TS!Nothing
        /\ textSnapshot' = [textSnapshot EXCEPT ![p] =
                  [nodes |-> making.nodes, parent |-> parent, extra |-> making.extra]]
        /\ mcpIds' = [mcpIds EXCEPT ![p] = kept]
        /\ UNCHANGED <<document, extraHandles, nextSnapshotId, named>>
  BY Ended
<1>2. /\ DOMAIN kept = DOMAIN mcpIds[p] \cap making.seen
      /\ \A k \in DOMAIN kept : kept[k] = mcpIds[p][k]
  BY DEF TS!Kept
<1> HIDE DEF kept, p
<1>3. SnapshotTypes /\ IdsAreUnique /\ IdsAreOfElements /\ SnapshotsAreRight
  BY DEF SnapshotInv
<1>4. /\ mcpIds'[p] = kept /\ \A q \in SnapshotPages \ {p} : mcpIds'[q] = mcpIds[q]
      /\ mcpIds' = [q \in SnapshotPages |-> mcpIds'[q]]
  BY <1>1, <1>3 DEF SnapshotTypes
<1>5. /\ textSnapshot'[p].nodes = making.nodes /\ textSnapshot'[p].extra = making.extra
      /\ \A q \in SnapshotPages \ {p} : textSnapshot'[q] = textSnapshot[q]
      /\ textSnapshot' = [q \in SnapshotPages |-> textSnapshot'[q]]
  <2>1. textSnapshot'[p] = [nodes |-> making.nodes, parent |-> parent, extra |-> making.extra]
    BY <1>1, <1>3 DEF SnapshotTypes
  <2>2. QED
    BY <1>1, <1>3, <2>1 DEF SnapshotTypes
<1>6. \A q \in SnapshotPages : \A k \in DOMAIN mcpIds'[q] :
          k \in DOMAIN mcpIds[q] /\ mcpIds'[q][k] = mcpIds[q][k]
  BY <1>2, <1>4
<1>7. SnapshotTypes'
  BY <1>1, <1>3, <1>4, <1>5 DEF SnapshotTypes
<1>8. IdsAreUnique'
  <2>1. /\ \A q \in SnapshotPages : \A k \in DOMAIN mcpIds[q] :
              mcpIds[q][k] \in Nat \X Nat /\ mcpIds[q][k][1] < nextSnapshotId
        /\ \A q, r \in SnapshotPages : \A k \in DOMAIN mcpIds[q], l \in DOMAIN mcpIds[r] :
              mcpIds[q][k] = mcpIds[r][l] => q = r /\ k = l
        /\ \A u \in DOMAIN named : u \in Nat \X Nat /\ u[1] < nextSnapshotId
    BY <1>3 DEF IdsAreUnique
  <2>2. /\ \A q \in SnapshotPages : \A k \in DOMAIN mcpIds'[q] :
              mcpIds'[q][k] \in Nat \X Nat /\ mcpIds'[q][k][1] < nextSnapshotId
        /\ \A q, r \in SnapshotPages : \A k \in DOMAIN mcpIds'[q], l \in DOMAIN mcpIds'[r] :
              mcpIds'[q][k] = mcpIds'[r][l] => q = r /\ k = l
    BY <1>6, <2>1
  <2>3. QED
    BY <1>1, <2>1, <2>2 DEF IdsAreUnique
<1>9. IdsAreOfElements'
  BY <1>1, <1>3, <1>6 DEF IdsAreOfElements
<1>10. MakingIsRight'
  BY <1>1 DEF MakingIsRight
<1>11. SnapshotsAreRight'
  <2>1. SUFFICES ASSUME NEW q \in SnapshotPages
                 PROVE  Right(mcpIds'[q], named, textSnapshot'[q].nodes, textSnapshot'[q].extra)
    BY <1>1 DEF SnapshotsAreRight
  <2>2. CASE q # p
    BY <1>3, <1>4, <1>5, <2>2 DEF SnapshotsAreRight
  <2>3. CASE q = p
    <3>1. /\ Right(mcpIds[p], named, making.nodes, making.extra)
          /\ \A u \in DOMAIN making.nodes :
              IF u \in making.extra THEN TS!customId(making.nodes[u].b) \in making.seen
              ELSE TS!uniqueBackendId(making.nodes[u].d, making.nodes[u].b) \in making.seen
      BY <1>1 DEF SnapshotInv, MakingIsRight, p
    <3>2. Right(kept, named, making.nodes, making.extra)
      BY <1>2, <3>1 DEF Right
    <3>3. QED
      BY <1>4, <1>5, <2>3, <3>2
  <2>4. QED
    BY <2>2, <2>3
<1>12. QED
  BY <1>7, <1>8, <1>9, <1>10, <1>11 DEF SnapshotInv

\* Two snapshots of a page, of which the second has just been made, call an element
\* by the uid it is on record under: so did the first.
LEMMA UidStays ==
    ASSUME SnapshotInv, TS!createEnds
    PROVE  TS!KeepsUids
<1> DEFINE p == making.page
<1>1. PICK parent :
        /\ making # TS!Nothing /\ p \in SnapshotPages
        /\ textSnapshot' = [textSnapshot EXCEPT ![p] =
                  [nodes |-> making.nodes, parent |-> parent, extra |-> making.extra]]
  BY Ended
<1>2. /\ Right(mcpIds[p], named, making.nodes, making.extra)
      /\ \A q \in SnapshotPages : Right(mcpIds[q], named, textSnapshot[q].nodes, textSnapshot[q].extra)
      /\ textSnapshot = [q \in SnapshotPages |-> textSnapshot[q]]
  BY <1>1 DEF SnapshotInv, MakingIsRight, SnapshotsAreRight, SnapshotTypes
<1> HIDE DEF p
<1>3. /\ textSnapshot'[p].nodes = making.nodes /\ textSnapshot'[p].extra = making.extra
      /\ \A q \in SnapshotPages \ {p} : textSnapshot'[q] = textSnapshot[q]
  <2>1. textSnapshot'[p] = [nodes |-> making.nodes, parent |-> parent, extra |-> making.extra]
    BY <1>1, <1>2
  <2>2. QED
    BY <1>1, <1>2, <2>1
<1>4. \A q \in SnapshotPages : Right(mcpIds[q], named, textSnapshot'[q].nodes, textSnapshot'[q].extra)
  BY <1>2, <1>3
<1>5. ASSUME NEW q \in SnapshotPages,
             NEW u \in DOMAIN textSnapshot[q].nodes, NEW v \in DOMAIN textSnapshot'[q].nodes,
             textSnapshot[q].nodes[u] = textSnapshot'[q].nodes[v],
             (u \in textSnapshot[q].extra) = (v \in textSnapshot'[q].extra)
      PROVE  u = v
  <2> DEFINE node == textSnapshot[q].nodes[u]
  <2>1. CASE u \in textSnapshot[q].extra
    <3>1. mcpIds[q][TS!customId(node.b)] = u
      BY <1>2, <2>1 DEF Right
    <3>2. v \in textSnapshot'[q].extra
      BY <1>5, <2>1
    <3>3. mcpIds[q][TS!customId(textSnapshot'[q].nodes[v].b)] = v
      BY <1>4, <3>2 DEF Right
    <3>4. QED
      BY <1>5, <3>1, <3>3
  <2>2. CASE u \notin textSnapshot[q].extra
    <3>1. mcpIds[q][TS!uniqueBackendId(node.d, node.b)] = u
      BY <1>2, <2>2 DEF Right
    <3>2. v \notin textSnapshot'[q].extra
      BY <1>5, <2>2
    <3>3. mcpIds[q][TS!uniqueBackendId(textSnapshot'[q].nodes[v].d, textSnapshot'[q].nodes[v].b)] = v
      BY <1>4, <3>2 DEF Right
    <3>4. QED
      BY <1>5, <3>1, <3>3
  <2>3. QED
    BY <2>1, <2>2
<1>6. QED
  BY <1>5 DEF TS!KeepsUids

LEMMA UidStaysOtherwise ==
    ASSUME SnapshotInv, UNCHANGED textSnapshot
    PROVE  TS!KeepsUids
<1>1. ASSUME NEW q \in SnapshotPages,
             NEW u \in DOMAIN textSnapshot[q].nodes, NEW v \in DOMAIN textSnapshot[q].nodes,
             textSnapshot[q].nodes[u] = textSnapshot[q].nodes[v],
             (u \in textSnapshot[q].extra) = (v \in textSnapshot[q].extra)
      PROVE  u = v
  <2>1. Right(mcpIds[q], named, textSnapshot[q].nodes, textSnapshot[q].extra)
    BY DEF SnapshotInv, SnapshotsAreRight
  <2> DEFINE node == textSnapshot[q].nodes[u]
  <2>2. CASE u \in textSnapshot[q].extra
    BY <1>1, <2>1, <2>2 DEF Right
  <2>3. CASE u \notin textSnapshot[q].extra
    BY <1>1, <2>1, <2>3 DEF Right
  <2>4. QED
    BY <2>2, <2>3
<1>2. QED
  BY <1>1 DEF TS!KeepsUids
\* Elements handed out are a sequence, those of a failed tool too.
LEMMA HandedOut ==
    ASSUME SnapshotInv, NEW p \in SnapshotPages,
           NEW elements \in TS!BoundedSeq(TS!BackendIds \ {1}, 2)
    PROVE  [i \in DOMAIN elements |-> [d |-> document[p], b |-> elements[i]]] \in Seq(Handle)
<1>1. PICK m \in 0 .. 2 : elements \in [1 .. m -> TS!BackendIds \ {1}]
  BY DEF TS!BoundedSeq, TS!SeqOf
<1>2. TS!BackendIds \subseteq Nat
  BY ElementsAreNumbered DEF TS!BackendIds
<1>3. document[p] \in Nat
  BY DEF SnapshotInv, SnapshotTypes
<1>4. \A i \in 1 .. m : [d |-> document[p], b |-> elements[i]] \in Handle
  BY <1>1, <1>2, <1>3 DEF Handle
<1>5. DOMAIN elements = 1 .. m /\ m \in Nat
  BY <1>1
<1>6. QED
  BY <1>4, <1>5

LEMMA TreesAreFinite ==
    ASSUME NEW tree \in Trees
    PROVE  tree \subseteq Nat /\ IsFiniteSet(tree)
<1>1. Len(Parents) \in Nat /\ tree \subseteq 1 .. Len(Parents)
  BY ElementsAreNumbered
<1>2. IsFiniteSet(1 .. Len(Parents))
  BY <1>1, FS_Interval
<1>3. IsFiniteSet(tree)
  BY <1>1, <1>2, FS_Subset
<1>4. QED
  BY <1>1, <1>3

LEMMA NextElement ==
    ASSUME SnapshotInv, TS!createExtraNode
    PROVE  SnapshotInv'
<1> DEFINE p == making.page
           handle == Head(making.todo)
           key == TS!customId(handle.b)
           id == IF key \in DOMAIN mcpIds[p] THEN mcpIds[p][key] ELSE <<making.id, making.count>>
<1>1. making # TS!Nothing /\ making.todo # <<>>
      /\ UNCHANGED <<document, extraHandles, textSnapshot, nextSnapshotId>>
  BY DEF TS!createExtraNode
<1>2. making.todo \in Seq(Handle)
  BY <1>1 DEF SnapshotInv, MakingIsRight
<1>3. handle \in Handle /\ Tail(making.todo) \in Seq(Handle)
  BY <1>1, <1>2
<1>4. handle.b \in Nat
  BY <1>3 DEF Handle
<1>5. CASE making' = [making EXCEPT !.todo = Tail(making.todo)] /\ UNCHANGED <<mcpIds, named>>
  BY <1>1, <1>3, <1>5, ElementIsPassed
<1>6. CASE /\ mcpIds' = [mcpIds EXCEPT ![p] = TS!With(mcpIds[p], [k \in {key} |-> id])]
           /\ IF handle.d # document[p]
              THEN making' = TS!Nothing /\ UNCHANGED named
              ELSE /\ named' = TS!With(named, [u \in {id} |-> handle])
                   /\ making' = [making EXCEPT
                            !.todo = Tail(making.todo),
                            !.nodes = TS!With([u \in {id} |-> handle], making.nodes),
                            !.seen = making.seen \cup {key}, !.extra = making.extra \cup {id},
                            !.count = IF key \in DOMAIN mcpIds[p] THEN making.count ELSE making.count + 1,
                            !.reorganise = Append(making.reorganise, <<id, TS!attachTarget(handle.b)>>)]
  <2>1. Entered(key, id)
    BY <1>1, <1>6 DEF Entered
  <2> DEFINE reorganise == Append(making.reorganise, <<id, TS!attachTarget(handle.b)>>)
  <2>2. CASE handle.d # document[p]
    <3> HIDE DEF id, handle
    <3>1. QED
      BY <1>1, <1>4, <1>6, <2>1, <2>2, ElementIsGone
  <2>3. CASE handle.d = document[p]
    <3>1. /\ named' = TS!With(named, [u \in {id} |-> handle])
          /\ making' = [making EXCEPT
                !.todo = Tail(making.todo), !.nodes = TS!With([u \in {id} |-> handle], making.nodes),
                !.seen = making.seen \cup {TS!customId(handle.b)},
                !.extra = making.extra \cup {id},
                !.count = IF TS!customId(handle.b) \in DOMAIN mcpIds[making.page]
                          THEN making.count ELSE making.count + 1,
                !.reorganise = reorganise]
      BY <1>6, <2>3
    <3>2. handle.d = document[making.page] /\ Entered(TS!customId(handle.b), id)
      BY <2>1, <2>3
    <3> HIDE DEF id, handle, p, key, reorganise
    <3>3. QED
      BY <1>1, <1>3, <3>1, <3>2, ElementIsAdded
  <2>4. QED
    BY <2>2, <2>3
<1>7. QED
  BY <1>5, <1>6 DEF TS!createExtraNode

LEMMA SnapshotStep == SnapshotInv /\ [TS!Next]_(TS!snapshotVars) => SnapshotInv'
<1> SUFFICES ASSUME SnapshotInv, [TS!Next]_(TS!snapshotVars) PROVE SnapshotInv'
  OBVIOUS
<1>1. CASE UNCHANGED TS!snapshotVars
  BY <1>1 DEF TS!snapshotVars, SnapshotInv, SnapshotTypes, IdsAreUnique, IdsAreOfElements,
     MakingIsRight, SnapshotsAreRight
<1>2. ASSUME NEW p \in SnapshotPages, TS!Navigate(p) PROVE SnapshotInv'
  <2>1. /\ document' = [document EXCEPT ![p] = @ + 1]
        /\ UNCHANGED <<mcpIds, extraHandles, textSnapshot, nextSnapshotId, making, named>>
    BY <1>2 DEF TS!Navigate
  <2>2. document' \in [SnapshotPages -> Nat] /\ \A q \in SnapshotPages : document[q] <= document'[q]
    BY <2>1 DEF SnapshotInv, SnapshotTypes
  <2>3. SnapshotTypes' /\ IdsAreUnique' /\ MakingIsRight' /\ SnapshotsAreRight'
    BY <2>1, <2>2 DEF SnapshotInv, SnapshotTypes, IdsAreUnique, MakingIsRight, SnapshotsAreRight
  <2>4. \A q \in SnapshotPages : \A e \in 0 .. document[q] : e \in 0 .. document'[q]
    BY <2>2 DEF SnapshotInv, SnapshotTypes
  <2>5. IdsAreOfElements'
    <3>1. ASSUME NEW q \in SnapshotPages, NEW b \in Nat,
                 TS!customId(b) \in DOMAIN mcpIds[q], mcpIds[q][TS!customId(b)] \in DOMAIN named
          PROVE  \E e \in 0 .. document'[q] : named[mcpIds[q][TS!customId(b)]] = [d |-> e, b |-> b]
      <4>1. PICK e \in 0 .. document[q] : named[mcpIds[q][TS!customId(b)]] = [d |-> e, b |-> b]
        BY <3>1 DEF SnapshotInv, IdsAreOfElements
      <4>2. QED
        BY <2>4, <4>1
    <3>2. \A q \in SnapshotPages : \A d, b \in Nat : TS!uniqueBackendId(d, b) \in DOMAIN mcpIds[q] =>
              /\ mcpIds[q][TS!uniqueBackendId(d, b)] \in DOMAIN named
              /\ named[mcpIds[q][TS!uniqueBackendId(d, b)]] = [d |-> d, b |-> b]
      BY DEF SnapshotInv, IdsAreOfElements
    <3>3. QED
      BY <2>1, <3>1, <3>2 DEF IdsAreOfElements
  <2>6. QED
    BY <2>3, <2>5 DEF SnapshotInv
<1>3. ASSUME NEW p \in SnapshotPages, TS!createFails(p) PROVE SnapshotInv'
  <2> DEFINE lost == [i \in DOMAIN extraHandles[p] |-> [extraHandles[p][i] EXCEPT !.d = 0]]
  <2>1. /\ extraHandles' = [extraHandles EXCEPT ![p] = lost]
        /\ UNCHANGED <<document, mcpIds, textSnapshot, nextSnapshotId, making, named>>
    BY <1>3 DEF TS!createFails
  <2>2. extraHandles \in [SnapshotPages -> Seq(Handle)] /\ extraHandles[p] \in Seq(Handle)
    BY DEF SnapshotInv, SnapshotTypes
  <2>3. \A i \in DOMAIN extraHandles[p] : [extraHandles[p][i] EXCEPT !.d = 0] \in Handle
    <3>1. \A h \in Handle : [h EXCEPT !.d = 0] \in Handle
      BY DEF Handle
    <3>2. \A i \in DOMAIN extraHandles[p] : extraHandles[p][i] \in Handle
      BY <2>2
    <3>3. QED
      BY <3>1, <3>2
  <2>4. lost \in Seq(Handle)
    BY <2>2, <2>3
  <2> HIDE DEF lost
  <2>5. extraHandles' \in [SnapshotPages -> Seq(Handle)]
    BY <2>1, <2>2, <2>4
  <2>6. QED
    BY <2>1, <2>5 DEF SnapshotInv, SnapshotTypes, IdsAreUnique, IdsAreOfElements,
       MakingIsRight, SnapshotsAreRight
<1>4. ASSUME NEW p \in SnapshotPages, TS!handleSnapshot(p) PROVE SnapshotInv'
  <2>1. PICK tree \in Trees : TS!create(p, tree, <<>>)
    BY <1>4 DEF TS!handleSnapshot
  <2>2. <<>> \in Seq(Handle)
    OBVIOUS
  <2>3. QED
    BY <2>1, <2>2, TreesAreFinite, Created
<1>5. ASSUME NEW p \in SnapshotPages, TS!executeThirdPartyDeveloperTool(p) PROVE SnapshotInv'
  <2>1. PICK tree \in Trees, elements \in TS!BoundedSeq(TS!BackendIds \ {1}, 2) :
            TS!create(p, tree, [i \in DOMAIN elements |-> [d |-> document[p], b |-> elements[i]]])
    BY <1>5 DEF TS!executeThirdPartyDeveloperTool
  <2> DEFINE handed == [i \in DOMAIN elements |-> [d |-> document[p], b |-> elements[i]]]
  <2>2. handed \in Seq(Handle)
    BY HandedOut
  <2>3. TS!create(p, tree, handed)
    BY <2>1
  <2> HIDE DEF handed
  <2>4. QED
    BY <2>2, <2>3, TreesAreFinite, Created
<1>6. QED
  BY <1>1, <1>2, <1>3, <1>4, <1>5, NextElement, SnapshotIsMade DEF TS!Next

LEMMA UidsStay == SnapshotInv /\ [TS!Next]_(TS!snapshotVars) => TS!KeepsUids
<1> SUFFICES ASSUME SnapshotInv, [TS!Next]_(TS!snapshotVars) PROVE TS!KeepsUids
  OBVIOUS
<1>1. CASE TS!createEnds
  BY <1>1, UidStays
<1>2. CASE ~TS!createEnds
  <2>1. UNCHANGED textSnapshot
    <3>1. ASSUME NEW p, NEW tree, NEW handed, TS!create(p, tree, handed) PROVE UNCHANGED textSnapshot
      BY <3>1 DEF TS!create
    <3>2. ASSUME NEW p, TS!handleSnapshot(p) PROVE UNCHANGED textSnapshot
      BY <3>1, <3>2 DEF TS!handleSnapshot
    <3>3. ASSUME NEW p, TS!executeThirdPartyDeveloperTool(p) PROVE UNCHANGED textSnapshot
      BY <3>1, <3>3 DEF TS!executeThirdPartyDeveloperTool
    <3>4. ASSUME NEW p, TS!Navigate(p) \/ TS!createFails(p) PROVE UNCHANGED textSnapshot
      BY <3>4 DEF TS!Navigate, TS!createFails
    <3>5. TS!createExtraNode => UNCHANGED textSnapshot
      BY DEF TS!createExtraNode
    <3>6. QED
      BY <1>2, <3>2, <3>3, <3>4, <3>5 DEF TS!Next, TS!snapshotVars
  <2>2. QED
    BY <2>1, UidStaysOtherwise
<1>3. QED
  BY <1>1, <1>2

LEMMA SnapshotKept == SnapshotInv => TS!UidsNameOneElement
  BY DEF SnapshotInv, SnapshotsAreRight, Right, TS!UidsNameOneElement

-----------------------------------------------------------------------------
(* The types of a snapshot *)

\* Elements that are handed out, two at most.
Few(s) == s \in Seq(TS!Elements) /\ Len(s) <= 2

\* The uids the snapshot being made still gives are fewer than the elements and two.
MakingIsBounded ==
    making # TS!Nothing =>
        /\ making.id \in 1 .. MaxSnapshots
        /\ \A u \in DOMAIN making.nodes : making.nodes[u] \in TS!Elements
        /\ Few(making.todo)
        /\ making.count + Len(making.todo) <= Len(Parents) + 2

LEMMA FewAreBounded == \A s : Few(s) <=> s \in TS!BoundedSeq(TS!Elements, 2)
<1>1. ASSUME NEW s, Few(s) PROVE s \in TS!BoundedSeq(TS!Elements, 2)
  <2>1. s \in Seq(TS!Elements) /\ Len(s) \in Nat /\ Len(s) <= 2
    BY <1>1 DEF Few
  <2>2. s \in [1 .. Len(s) -> TS!Elements]
    BY <2>1
  <2>3. Len(s) \in 0 .. 2
    <3> DEFINE n == Len(s)
    <3>1. n \in Nat /\ n <= 2
      BY <2>1
    <3> HIDE DEF n
    <3>2. n \in 0 .. 2
      BY <3>1
    <3>3. QED
      BY <3>2 DEF n
  <2>4. QED
    BY <2>2, <2>3 DEF TS!BoundedSeq, TS!SeqOf
<1>2. ASSUME NEW s \in TS!BoundedSeq(TS!Elements, 2) PROVE Few(s)
  <2>1. PICK m \in 0 .. 2 : s \in [1 .. m -> TS!Elements]
    BY DEF TS!BoundedSeq, TS!SeqOf
  <2>2. s \in Seq(TS!Elements) /\ Len(s) = m
    BY <2>1
  <2>3. QED
    BY <2>1, <2>2 DEF Few
<1>3. QED
  BY <1>1, <1>2

LEMMA SnapshotTypeFirst == TS!Init => TS!TypeOK /\ MakingIsBounded
<1> SUFFICES ASSUME TS!Init PROVE TS!TypeOK /\ MakingIsBounded
  OBVIOUS
<1>1. Few(<<>>)
  BY DEF Few
<1>2. 1 \in 1 .. SnapshotDocuments /\ nextSnapshotId \in 1 .. MaxSnapshots + 1
  BY SnapshotsAreNumbered DEF TS!Init
<1>3. \A p \in SnapshotPages : /\ DOMAIN mcpIds[p] = {} /\ extraHandles[p] = <<>>
                               /\ DOMAIN textSnapshot[p].nodes = {}
  BY DEF TS!Init, TS!NoSnapshot
<1>4. DOMAIN named = {}
  BY DEF TS!Init
<1>5. document \in [SnapshotPages -> 1 .. SnapshotDocuments]
  BY <1>2 DEF TS!Init
<1>6. \A p \in SnapshotPages : extraHandles[p] \in TS!BoundedSeq(TS!Elements, 2)
  BY <1>1, <1>3, FewAreBounded
<1>7. TS!TypeOK
  BY <1>2, <1>3, <1>4, <1>5, <1>6 DEF TS!TypeOK
<1>8. MakingIsBounded
  BY DEF TS!Init, MakingIsBounded
<1>9. QED
  BY <1>7, <1>8

\* A snapshot that is begun has an element for a node, and a uid within the bounds.
LEMMA CreatedIsTyped ==
    ASSUME SnapshotInv, TS!TypeOK, NEW p \in SnapshotPages, NEW tree,
           tree \subseteq TS!BackendIds, NEW handed, Few(handed), TS!create(p, tree, handed)
    PROVE  TS!TypeOK' /\ MakingIsBounded'
<1> DEFINE d == document[p]
           n == nextSnapshotId
           fresh == {b \in tree : TS!uniqueBackendId(d, b) \notin DOMAIN mcpIds[p]}
           keys == {TS!uniqueBackendId(d, b) : b \in fresh}
           new == [k \in keys |-> <<n, TS!Cardinality({b \in fresh : b < k[3]})>>]
           ids == TS!With(mcpIds[p], new)
           uid1(b) == ids[TS!uniqueBackendId(d, b)]
           nodes == [u \in {uid1(b) : b \in tree} |->
                       [d |-> d, b |-> CHOOSE b \in tree : uid1(b) = u]]
           size == TS!Cardinality(fresh)
           handles == IF handed = <<>> THEN extraHandles[p] ELSE handed
<1>1. /\ n <= MaxSnapshots /\ nextSnapshotId' = n + 1
      /\ mcpIds' = [mcpIds EXCEPT ![p] = ids]
      /\ extraHandles' = [extraHandles EXCEPT ![p] = handles]
      /\ named' = TS!With(named, nodes)
      /\ UNCHANGED <<document, textSnapshot>>
  BY DEF TS!create
<1>2. making'.id = n /\ making'.nodes = nodes /\ making'.count = size
      /\ making'.todo = extraHandles'[p]
  BY Zenon DEF TS!create
<1>3. /\ n \in 1 .. MaxSnapshots /\ n + 1 \in 1 .. MaxSnapshots + 1 /\ d \in 0 .. SnapshotDocuments
      /\ Len(Parents) \in Nat /\ TS!BackendIds = 1 .. Len(Parents)
  <2>1. nextSnapshotId \in 1 .. MaxSnapshots + 1 /\ document[p] \in 1 .. SnapshotDocuments
    BY DEF TS!TypeOK
  <2>2. QED
    BY <1>1, <2>1, SnapshotsAreNumbered, ElementsAreNumbered DEF TS!BackendIds
<1>4. IsFiniteSet(tree) /\ Cardinality(tree) \in Nat /\ Cardinality(tree) <= Len(Parents)
  <2>1. IsFiniteSet(1 .. Len(Parents)) /\ Cardinality(1 .. Len(Parents)) = Len(Parents)
    <3> DEFINE most == Len(Parents)
    <3>1. most \in Nat
      BY <1>3
    <3> HIDE DEF most
    <3>2. IsFiniteSet(1 .. most) /\ Cardinality(1 .. most) = IF 1 > most THEN 0 ELSE most - 1 + 1
      BY <3>1, FS_Interval
    <3>3. (IF 1 > most THEN 0 ELSE most - 1 + 1) = most
      BY <3>1
    <3>4. QED
      BY <3>2, <3>3 DEF most
  <2>2. tree \subseteq 1 .. Len(Parents)
    BY <1>3
  <2>3. IsFiniteSet(tree) /\ Cardinality(tree) <= Cardinality(1 .. Len(Parents))
    BY <2>1, <2>2, FS_Subset
  <2>4. Cardinality(tree) \in Nat
    BY <2>3, FS_CardinalityType
  <2>5. QED
    BY <2>1, <2>3, <2>4
<1>5. ASSUME NEW S, S \subseteq tree PROVE TS!Cardinality(S) \in 0 .. Len(Parents)
  <2>1. IsFiniteSet(S) /\ Cardinality(S) <= Cardinality(tree)
    BY <1>4, <1>5, FS_Subset
  <2>2. Cardinality(S) \in Nat
    BY <2>1, FS_CardinalityType
  <2>3. QED
    BY <1>3, <1>4, <2>1, <2>2, ElementsAreCounted
<1>6. size \in 0 .. Len(Parents)
  BY <1>5
<1>7. \A k \in DOMAIN new : new[k] \in TS!Uids
  <2>1. ASSUME NEW k \in keys PROVE new[k] \in TS!Uids
    <3>1. TS!Cardinality({b \in fresh : b < k[3]}) \in 0 .. Len(Parents)
      BY <1>5
    <3>2. QED
      BY <1>3, <3>1 DEF TS!Uids
  <2>2. QED
    BY <2>1
<1>8. \A k \in DOMAIN mcpIds[p] : mcpIds[p][k] \in TS!Uids
  BY DEF TS!TypeOK
<1>9. \A k \in DOMAIN ids : ids[k] \in TS!Uids
  <2> HIDE DEF new
  <2>1. QED
    BY <1>7, <1>8 DEF TS!With
<1>10. \A b \in tree : TS!uniqueBackendId(d, b) \in DOMAIN ids
  <2>1. DOMAIN ids = DOMAIN mcpIds[p] \cup keys
    BY WithGrows
  <2>2. QED
    BY <2>1
<1>11. Few(extraHandles[p])
  BY FewAreBounded DEF TS!TypeOK
<1>12. Few(handles)
  BY <1>11
<1> HIDE DEF ids, fresh, new, keys, size, handles
<1>13. \A u \in DOMAIN nodes : u \in TS!Uids /\ nodes[u] \in TS!Elements
  <2>1. ASSUME NEW b \in tree
        PROVE  /\ uid1(b) \in TS!Uids
               /\ (CHOOSE c \in tree : uid1(c) = uid1(b)) \in TS!BackendIds
    BY <1>9, <1>10
  <2>2. QED
    BY <1>3, <2>1 DEF TS!Elements
<1> HIDE DEF nodes
<1>14. /\ mcpIds'[p] = ids /\ \A q \in SnapshotPages \ {p} : mcpIds'[q] = mcpIds[q]
       /\ extraHandles'[p] = handles
       /\ \A q \in SnapshotPages \ {p} : extraHandles'[q] = extraHandles[q]
  BY <1>1 DEF SnapshotInv, SnapshotTypes
<1>15. DOMAIN named' \subseteq TS!Uids
  BY <1>1, <1>13, WithGrows DEF TS!TypeOK
<1>16. TS!TypeOK'
  <2>1. \A q \in SnapshotPages :
          /\ \A k \in DOMAIN mcpIds'[q] : mcpIds'[q][k] \in TS!Uids
          /\ extraHandles'[q] \in TS!BoundedSeq(TS!Elements, 2)
    BY <1>9, <1>12, <1>14, FewAreBounded DEF TS!TypeOK
  <2>2. QED
    BY <1>1, <1>3, <1>15, <2>1 DEF TS!TypeOK
<1>17. MakingIsBounded'
  <2>1. size + Len(handles) <= Len(Parents) + 2
    BY <1>3, <1>6, <1>12 DEF Few
  <2>2. QED
    BY <1>2, <1>3, <1>12, <1>13, <1>14, <2>1 DEF MakingIsBounded
<1>18. QED
  BY <1>16, <1>17

\* The id of an element that was handed out is within the bounds.
LEMMA EnteredIsTyped ==
    ASSUME SnapshotInv, TS!TypeOK, MakingIsBounded, making # TS!Nothing, making.todo # <<>>,
           NEW key, NEW uid1, Entered(key, uid1)
    PROVE  /\ uid1 \in TS!Uids
           /\ \A q \in SnapshotPages : \A k \in DOMAIN mcpIds'[q] : mcpIds'[q][k] \in TS!Uids
<1>1. /\ making.page \in SnapshotPages /\ making.count \in Nat /\ making.id \in 1 .. MaxSnapshots
      /\ Few(making.todo) /\ making.count + Len(making.todo) <= Len(Parents) + 2
      /\ Len(Parents) \in Nat
  BY ElementsAreNumbered DEF SnapshotInv, MakingIsRight, MakingIsBounded
<1>2. making.count \in 0 .. Len(Parents) + 1
  <2>1. Len(making.todo) \in Nat /\ Len(making.todo) >= 1
    BY <1>1 DEF Few
  <2> DEFINE n == Len(making.todo)
             m == Len(Parents)
             c == making.count
  <2>2. n \in Nat /\ n >= 1 /\ m \in Nat /\ c \in Nat /\ c + n <= m + 2
    BY <1>1, <2>1
  <2> HIDE DEF n, m, c
  <2>3. c \in 0 .. m + 1
    BY <2>2
  <2>4. QED
    BY <2>3 DEF c, m
<1>3. \A q \in SnapshotPages : \A k \in DOMAIN mcpIds[q] : mcpIds[q][k] \in TS!Uids
  BY DEF TS!TypeOK
<1>4. uid1 \in TS!Uids
  <2>1. CASE key \in DOMAIN mcpIds[making.page]
    BY <1>1, <1>3, <2>1 DEF Entered
  <2>2. CASE key \notin DOMAIN mcpIds[making.page]
    BY <1>1, <1>2, <2>2 DEF Entered, TS!Uids
  <2>3. QED
    BY <2>1, <2>2
<1>5. \A q \in SnapshotPages : \A k \in DOMAIN mcpIds'[q] :
                \/ k \in DOMAIN mcpIds[q] /\ mcpIds'[q][k] = mcpIds[q][k]
                \/ q = making.page /\ k = key /\ mcpIds'[q][k] = uid1
  BY IdEntered
<1>6. QED
  BY <1>3, <1>4, <1>5

LEMMA NextElementIsTyped ==
    ASSUME SnapshotInv, TS!TypeOK, MakingIsBounded, TS!createExtraNode
    PROVE  TS!TypeOK' /\ MakingIsBounded'
<1> DEFINE p == making.page
           handle == Head(making.todo)
           key == TS!customId(handle.b)
           id == IF key \in DOMAIN mcpIds[p] THEN mcpIds[p][key] ELSE <<making.id, making.count>>
<1>1. making # TS!Nothing /\ making.todo # <<>>
      /\ UNCHANGED <<document, extraHandles, textSnapshot, nextSnapshotId>>
  BY DEF TS!createExtraNode
<1>2. /\ making = [page |-> making.page, id |-> making.id, nodes |-> making.nodes,
                   count |-> making.count, seen |-> making.seen, todo |-> making.todo,
                   extra |-> making.extra, reorganise |-> making.reorganise,
                   parent |-> making.parent]
      /\ making.count \in Nat /\ making.id \in 1 .. MaxSnapshots
      /\ Few(making.todo) /\ making.count + Len(making.todo) <= Len(Parents) + 2
      /\ Len(Parents) \in Nat
      /\ \A u \in DOMAIN making.nodes : making.nodes[u] \in TS!Elements
  BY <1>1, ElementsAreNumbered DEF SnapshotInv, MakingIsRight, MakingIsBounded
<1>3. /\ handle \in TS!Elements /\ Few(Tail(making.todo))
      /\ Len(Tail(making.todo)) = Len(making.todo) - 1 /\ Len(making.todo) \in Nat
      /\ Len(making.todo) >= 1
  BY <1>1, <1>2 DEF Few
<1>4. \A c \in {making.count, making.count + 1} :
          c + Len(Tail(making.todo)) <= Len(Parents) + 2
  <2> DEFINE n == Len(making.todo)
             m == Len(Parents)
             t == Len(Tail(making.todo))
  <2>1. n \in Nat /\ m \in Nat /\ t = n - 1 /\ making.count + n <= m + 2
    BY <1>2, <1>3
  <2> HIDE DEF n, m, t
  <2>2. \A c \in {making.count, making.count + 1} : c + t <= m + 2
    BY <1>2, <2>1
  <2>3. QED
    BY <2>2 DEF m, t
<1>5. CASE making' = [making EXCEPT !.todo = Tail(making.todo)] /\ UNCHANGED <<mcpIds, named>>
  <2>1. TS!TypeOK'
    BY <1>1, <1>5 DEF TS!TypeOK
  <2>2. /\ making'.id = making.id /\ making'.nodes = making.nodes
        /\ making'.count = making.count /\ making'.todo = Tail(making.todo)
    BY <1>2, <1>5
  <2>3. QED
    BY <1>2, <1>3, <1>4, <2>1, <2>2 DEF MakingIsBounded
<1>6. CASE /\ mcpIds' = [mcpIds EXCEPT ![p] = TS!With(mcpIds[p], [k \in {key} |-> id])]
           /\ IF handle.d # document[p]
              THEN making' = TS!Nothing /\ UNCHANGED named
              ELSE /\ named' = TS!With(named, [u \in {id} |-> handle])
                   /\ making' = [making EXCEPT
                            !.todo = Tail(making.todo),
                            !.nodes = TS!With([u \in {id} |-> handle], making.nodes),
                            !.seen = making.seen \cup {key}, !.extra = making.extra \cup {id},
                            !.count = IF key \in DOMAIN mcpIds[p] THEN making.count ELSE making.count + 1,
                            !.reorganise = Append(making.reorganise, <<id, TS!attachTarget(handle.b)>>)]
  <2>1. Entered(key, id)
    BY <1>1, <1>6 DEF Entered
  <2>2. id \in TS!Uids /\ \A q \in SnapshotPages : \A k \in DOMAIN mcpIds'[q] : mcpIds'[q][k] \in TS!Uids
    <3> HIDE DEF id, key
    <3>1. QED
      BY <1>1, <2>1, EnteredIsTyped
  <2>3. CASE handle.d # document[p]
    <3>1. making' = TS!Nothing /\ named' = named
      BY <1>6, <2>3
    <3>2. QED
      BY <1>1, <2>2, <3>1 DEF TS!TypeOK, MakingIsBounded
  <2>4. CASE handle.d = document[p]
    <3> DEFINE one == [u \in {id} |-> handle]
               nodes == TS!With(one, making.nodes)
               count == IF key \in DOMAIN mcpIds[p] THEN making.count ELSE making.count + 1
               seen == making.seen \cup {key}
               extra == making.extra \cup {id}
               reorganise == Append(making.reorganise, <<id, TS!attachTarget(handle.b)>>)
    <3>1. /\ named' = TS!With(named, one)
          /\ making' = [making EXCEPT !.todo = Tail(making.todo), !.nodes = nodes, !.seen = seen,
                          !.extra = extra, !.count = count, !.reorganise = reorganise]
      BY <1>6, <2>4
    <3>2. DOMAIN one = {id} /\ one[id] = handle
      OBVIOUS
    <3>3. count \in {making.count, making.count + 1}
      OBVIOUS
    <3> HIDE DEF one, count, seen, extra, reorganise, id, handle, key
    <3>4. DOMAIN named' \subseteq TS!Uids
      BY <2>2, <3>1, <3>2, WithGrows DEF TS!TypeOK
    <3>5. \A u \in DOMAIN nodes : nodes[u] \in TS!Elements
      BY <1>2, <1>3, <3>2 DEF TS!With
    <3> HIDE DEF nodes
    <3>6. /\ making'.id = making.id /\ making'.nodes = nodes
          /\ making'.count = count /\ making'.todo = Tail(making.todo)
      BY <1>2, <3>1
    <3>7. TS!TypeOK'
      BY <1>1, <2>2, <3>4 DEF TS!TypeOK
    <3>8. MakingIsBounded'
      BY <1>2, <1>3, <1>4, <3>3, <3>5, <3>6 DEF MakingIsBounded
    <3>9. QED
      BY <3>7, <3>8
  <2>5. QED
    BY <2>3, <2>4
<1>7. QED
  BY <1>5, <1>6 DEF TS!createExtraNode

LEMMA SnapshotTypeStep ==
    SnapshotInv /\ TS!TypeOK /\ MakingIsBounded /\ [TS!Next]_(TS!snapshotVars)
        => TS!TypeOK' /\ MakingIsBounded'
<1> SUFFICES ASSUME SnapshotInv, TS!TypeOK, MakingIsBounded, [TS!Next]_(TS!snapshotVars)
             PROVE  TS!TypeOK' /\ MakingIsBounded'
  OBVIOUS
<1>0. SnapshotDocuments \in Nat /\ TS!BackendIds \in SUBSET Nat
      /\ \A tree \in Trees : tree \subseteq TS!BackendIds
  BY SnapshotsAreNumbered, ElementsAreNumbered DEF TS!BackendIds
<1>1. CASE UNCHANGED TS!snapshotVars
  BY <1>1 DEF TS!snapshotVars, TS!TypeOK, MakingIsBounded
<1>2. ASSUME NEW p \in SnapshotPages, TS!Navigate(p) PROVE TS!TypeOK' /\ MakingIsBounded'
  <2>1. /\ document' = [document EXCEPT ![p] = @ + 1] /\ document[p] < SnapshotDocuments
        /\ UNCHANGED <<mcpIds, extraHandles, textSnapshot, nextSnapshotId, making, named>>
    BY <1>2 DEF TS!Navigate
  <2>2. document \in [SnapshotPages -> 1 .. SnapshotDocuments]
    BY DEF TS!TypeOK
  <2>3. document[p] + 1 \in 1 .. SnapshotDocuments
    BY <1>0, <2>1, <2>2
  <2>4. document' \in [SnapshotPages -> 1 .. SnapshotDocuments]
    BY <2>1, <2>2, <2>3
  <2>5. QED
    BY <2>1, <2>4 DEF TS!TypeOK, MakingIsBounded
<1>3. ASSUME NEW p \in SnapshotPages, TS!createFails(p) PROVE TS!TypeOK' /\ MakingIsBounded'
  <2> DEFINE lost == [i \in DOMAIN extraHandles[p] |-> [extraHandles[p][i] EXCEPT !.d = 0]]
  <2>1. /\ extraHandles' = [extraHandles EXCEPT ![p] = lost]
        /\ UNCHANGED <<document, mcpIds, textSnapshot, nextSnapshotId, making, named>>
    BY <1>3 DEF TS!createFails
  <2>2. Few(extraHandles[p])
    BY FewAreBounded DEF TS!TypeOK
  <2>3. \A h \in TS!Elements : [h EXCEPT !.d = 0] \in TS!Elements
    <3>1. 0 \in 0 .. SnapshotDocuments
      BY <1>0
    <3>2. QED
      BY <3>1 DEF TS!Elements
  <2>4. \A i \in DOMAIN extraHandles[p] : [extraHandles[p][i] EXCEPT !.d = 0] \in TS!Elements
    BY <2>2, <2>3 DEF Few
  <2>5. lost \in Seq(TS!Elements) /\ Len(lost) = Len(extraHandles[p])
    BY <2>2, <2>4 DEF Few
  <2>6. lost \in TS!BoundedSeq(TS!Elements, 2)
    BY <2>2, <2>5, FewAreBounded DEF Few
  <2> HIDE DEF lost
  <2>7. \A q \in SnapshotPages : extraHandles'[q] \in TS!BoundedSeq(TS!Elements, 2)
    BY <2>1, <2>6 DEF TS!TypeOK, SnapshotInv, SnapshotTypes
  <2>8. QED
    BY <2>1, <2>7 DEF TS!TypeOK, MakingIsBounded
<1>4. ASSUME NEW p \in SnapshotPages, TS!handleSnapshot(p) PROVE TS!TypeOK' /\ MakingIsBounded'
  <2>1. PICK tree \in Trees : TS!create(p, tree, <<>>)
    BY <1>4 DEF TS!handleSnapshot
  <2>2. Few(<<>>)
    BY DEF Few
  <2>3. QED
    BY <1>0, <2>1, <2>2, CreatedIsTyped
<1>5. ASSUME NEW p \in SnapshotPages, TS!executeThirdPartyDeveloperTool(p)
      PROVE  TS!TypeOK' /\ MakingIsBounded'
  <2>1. PICK tree \in Trees, elements \in TS!BoundedSeq(TS!BackendIds \ {1}, 2) :
            TS!create(p, tree, [i \in DOMAIN elements |-> [d |-> document[p], b |-> elements[i]]])
    BY <1>5 DEF TS!executeThirdPartyDeveloperTool
  <2> DEFINE handed == [i \in DOMAIN elements |-> [d |-> document[p], b |-> elements[i]]]
  <2>2. PICK m \in 0 .. 2 : elements \in [1 .. m -> TS!BackendIds \ {1}]
    BY DEF TS!BoundedSeq, TS!SeqOf
  <2>3. document[p] \in 0 .. SnapshotDocuments
    <3>1. document[p] \in 1 .. SnapshotDocuments
      BY DEF TS!TypeOK
    <3>2. QED
      BY <1>0, <3>1
  <2>4. handed \in [1 .. m -> TS!Elements]
    BY <2>2, <2>3 DEF TS!Elements
  <2>5. Few(handed)
    <3> HIDE DEF handed
    <3>1. handed \in TS!BoundedSeq(TS!Elements, 2)
      BY <2>4 DEF TS!BoundedSeq, TS!SeqOf
    <3>2. QED
      BY <3>1, FewAreBounded
  <2>6. TS!create(p, tree, handed) /\ tree \subseteq TS!BackendIds
    BY <1>0, <2>1
  <2> HIDE DEF handed
  <2>7. QED
    BY <2>5, <2>6, CreatedIsTyped
<1>6. CASE TS!createEnds
  <2>1. PICK parent :
        /\ making # TS!Nothing /\ making.page \in SnapshotPages /\ making' = TS!Nothing
        /\ textSnapshot' = [textSnapshot EXCEPT ![making.page] =
                  [nodes |-> making.nodes, parent |-> parent, extra |-> making.extra]]
        /\ mcpIds' = [mcpIds EXCEPT ![making.page] =
                  TS!Kept(mcpIds[making.page], making.seen)]
        /\ UNCHANGED <<document, extraHandles, nextSnapshotId, named>>
    BY <1>6, Ended
  <2> DEFINE kept == TS!Kept(mcpIds[making.page], making.seen)
             made == [nodes |-> making.nodes, parent |-> parent, extra |-> making.extra]
  <2>2. \A k \in DOMAIN kept : kept[k] \in TS!Uids
    BY <2>1 DEF TS!Kept, TS!TypeOK
  <2>3. made.nodes = making.nodes
    OBVIOUS
  <2> HIDE DEF kept, made
  <2>4. \A q \in SnapshotPages : \A k \in DOMAIN mcpIds'[q] : mcpIds'[q][k] \in TS!Uids
    <3>1. mcpIds' = [mcpIds EXCEPT ![making.page] = kept]
      BY <2>1 DEF kept
    <3>2. mcpIds = [q \in SnapshotPages |-> mcpIds[q]]
      BY DEF SnapshotInv, SnapshotTypes
    <3>3. QED
      BY <2>2, <3>1, <3>2 DEF TS!TypeOK
  <2>5. \A q \in SnapshotPages : \A u \in DOMAIN textSnapshot'[q].nodes :
            textSnapshot'[q].nodes[u] \in TS!Elements
    <3>1. textSnapshot' = [textSnapshot EXCEPT ![making.page] = made]
      BY <2>1 DEF made
    <3>2. textSnapshot = [q \in SnapshotPages |-> textSnapshot[q]]
      BY DEF SnapshotInv, SnapshotTypes
    <3>3. \A u \in DOMAIN making.nodes : making.nodes[u] \in TS!Elements
      BY <2>1 DEF MakingIsBounded
    <3>4. QED
      BY <2>3, <3>1, <3>2, <3>3 DEF TS!TypeOK
  <2>6. TS!TypeOK'
    BY <2>1, <2>4, <2>5 DEF TS!TypeOK
  <2>7. QED
    BY <2>1, <2>6 DEF MakingIsBounded
<1>7. QED
  BY <1>1, <1>2, <1>3, <1>4, <1>5, <1>6, NextElementIsTyped DEF TS!Next

-----------------------------------------------------------------------------
(* Heap snapshots *)

HeapTypes ==
    /\ onDisk \in [Files -> Nat] /\ loaded \in [Files -> Nat]
    /\ uid \in [Files -> Nat] /\ nextUid \in Nat \ {0}
    /\ idToClassKey \in [Files -> Seq(Classes)]
    /\ diffs \in [Files -> SUBSET (Nat \X Nat)]
    /\ told \in [Files -> SUBSET (Nat \X Classes)]

\* A uid is of one load.
UidsAreOfLoads ==
    /\ \A f \in Files : uid[f] < nextUid
    /\ \A f, g \in Files : uid[f] = uid[g] /\ uid[f] # 0 => f = g

\* A listing names the ids of what is loaded.
ListingsHold ==
    /\ \A f \in Files : uid[f] = 0 => told[f] = {}
    /\ \A f \in Files : \A t \in told[f] :
          t[1] \in 1 .. Len(idToClassKey[f]) /\ idToClassKey[f][t[1]] = t[2]

\* A difference is to the load of its uid.
DiffsAreOfLoads ==
    \A f \in Files : \A d \in diffs[f] :
        0 < d[1] /\ d[1] < nextUid /\ \A g \in Files : d[1] = uid[g] => d[2] = loaded[g]

HeapInv == HeapTypes /\ UidsAreOfLoads /\ ListingsHold /\ DiffsAreOfLoads

LEMMA HeapFirst == HS!Init => HeapInv
  BY DEF HS!Init, HeapInv, HeapTypes, UidsAreOfLoads, ListingsHold, DiffsAreOfLoads

LEMMA ClassesAreCounted == \A S : HS!Cardinality(S) = Cardinality(S)
  BY DEF Cardinality, HS!Cardinality

\* What is listed in any order is a sequence.
LEMMA ListedInOrder ==
    ASSUME NEW S \in SUBSET Classes, NEW order \in HS!SetToSeqs(S)
    PROVE  order \in Seq(Classes)
<1>1. Cardinality(S) \in Nat
  BY ClassesAreFinite, FS_Subset, FS_CardinalityType
<1>2. order \in [1 .. Cardinality(S) -> S]
  BY ClassesAreCounted DEF HS!SetToSeqs
<1>3. QED
  BY <1>1, <1>2

LEMMA HeapLoads ==
    ASSUME HeapInv, NEW f \in Files, HS!getSnapshot(f), UNCHANGED <<onDisk, told>>
    PROVE  HeapInv'
<1>1. CASE uid[f] # 0
  <2>1. UNCHANGED <<onDisk, uid, loaded, nextUid, idToClassKey, diffs, told>>
    BY <1>1 DEF HS!getSnapshot, HS!managerVars
  <2>2. HeapTypes' /\ UidsAreOfLoads'
    BY <2>1 DEF HeapInv, HeapTypes, UidsAreOfLoads
  <2>3. ListingsHold' /\ DiffsAreOfLoads'
    BY <2>1 DEF HeapInv, ListingsHold, DiffsAreOfLoads
  <2>4. QED
    BY <2>2, <2>3 DEF HeapInv
<1>2. CASE uid[f] = 0
  <2>1. /\ uid' = [uid EXCEPT ![f] = nextUid] /\ nextUid' = nextUid + 1
        /\ loaded' = [loaded EXCEPT ![f] = onDisk[f]]
        /\ idToClassKey' = [idToClassKey EXCEPT ![f] = <<>>]
        /\ diffs' = [diffs EXCEPT ![f] = {}]
    BY <1>2 DEF HS!getSnapshot
  <2>2. HeapTypes'
    BY <2>1 DEF HeapInv, HeapTypes
  <2>3. UidsAreOfLoads'
    BY <1>2, <2>1 DEF HeapInv, HeapTypes, UidsAreOfLoads
  <2>4. ListingsHold'
    <3>1. \A g \in Files : told'[g] = told[g] /\ (uid'[g] = 0 => uid[g] = 0)
      BY <1>2, <2>1 DEF HeapInv, HeapTypes
    <3>2. told[f] = {} /\ \A g \in Files \ {f} : idToClassKey'[g] = idToClassKey[g]
      BY <1>2, <2>1 DEF HeapInv, HeapTypes, ListingsHold
    <3>3. QED
      BY <3>1, <3>2 DEF HeapInv, ListingsHold
  <2>5. DiffsAreOfLoads'
    <3>1. ASSUME NEW g \in Files, NEW d \in diffs'[g]
          PROVE  g # f /\ d \in diffs[g] /\ d \in Nat \X Nat
      BY <2>1 DEF HeapInv, HeapTypes
    <3>2. nextUid \in Nat /\ nextUid' = nextUid + 1
      BY <2>1 DEF HeapInv, HeapTypes
    <3>3. ASSUME NEW g \in Files, NEW d \in diffs'[g]
          PROVE  0 < d[1] /\ d[1] < nextUid'
      <4>1. 0 < d[1] /\ d[1] < nextUid /\ d[1] \in Nat
        BY <3>1, <3>3 DEF HeapInv, DiffsAreOfLoads
      <4>2. QED
        BY <3>2, <4>1
    <3>4. ASSUME NEW g \in Files, NEW d \in diffs'[g], NEW h \in Files, d[1] = uid'[h]
          PROVE  d[2] = loaded'[h]
      <4>1. d[1] < nextUid /\ d[1] \in Nat
        BY <3>1, <3>4 DEF HeapInv, DiffsAreOfLoads
      <4>2. h # f
        BY <2>1, <3>2, <3>4, <4>1 DEF HeapInv, HeapTypes
      <4>3. uid'[h] = uid[h] /\ loaded'[h] = loaded[h]
        BY <2>1, <4>2 DEF HeapInv, HeapTypes
      <4>4. QED
        BY <3>1, <3>4, <4>3 DEF HeapInv, DiffsAreOfLoads
    <3>5. QED
      BY <3>3, <3>4 DEF DiffsAreOfLoads
  <2>6. QED
    BY <2>2, <2>3, <2>4, <2>5 DEF HeapInv
<1>3. QED
  BY <1>1, <1>2

LEMMA HeapAggregates ==
    ASSUME HeapInv, NEW f \in Files, NEW classes \in SUBSET Classes,
           HS!getAggregates(f, classes)
    PROVE  HeapInv'
<1>1. PICK order \in HS!SetToSeqs(classes \ HS!ToSet(idToClassKey[f])) :
          idToClassKey' = [idToClassKey EXCEPT ![f] = idToClassKey[f] \o order]
  BY DEF HS!getAggregates
<1>2. order \in Seq(Classes)
  BY ListedInOrder
<1> DEFINE keys == idToClassKey[f] \o order
<1>3. /\ keys \in Seq(Classes) /\ Len(keys) >= Len(idToClassKey[f])
      /\ \A i \in 1 .. Len(idToClassKey[f]) : keys[i] = idToClassKey[f][i]
      /\ Len(idToClassKey[f]) \in Nat
  BY <1>2 DEF HeapInv, HeapTypes
<1>4. idToClassKey' = [idToClassKey EXCEPT ![f] = keys]
  BY <1>1
<1> HIDE DEF keys
<1>5. idToClassKey' \in [Files -> Seq(Classes)] /\ idToClassKey'[f] = keys
      /\ \A g \in Files \ {f} : idToClassKey'[g] = idToClassKey[g]
  BY <1>3, <1>4 DEF HeapInv, HeapTypes
<1> DEFINE new == {<<i, keys[i]>> : i \in {j \in DOMAIN keys : keys[j] \in classes}}
<1>6. told' = [told EXCEPT ![f] = told[f] \cup new]
  <2>1. told' = [told EXCEPT ![f] = told[f] \cup
                    {<<i, idToClassKey'[f][i]>> :
                        i \in {j \in DOMAIN idToClassKey'[f] : idToClassKey'[f][j] \in classes}}]
    BY DEF HS!getAggregates
  <2>2. idToClassKey'[f] = keys
    BY <1>5
  <2>3. QED
    BY <2>1, <2>2, Zenon
<1>7. \A t \in new : t \in Nat \X Classes /\ t[1] \in 1 .. Len(keys) /\ keys[t[1]] = t[2]
  BY <1>3
<1> HIDE DEF new
<1>8. told' \in [Files -> SUBSET (Nat \X Classes)]
  BY <1>6, <1>7 DEF HeapInv, HeapTypes
<1>9. ASSUME NEW g \in Files, NEW t \in told'[g]
      PROVE  t[1] \in 1 .. Len(idToClassKey'[g]) /\ idToClassKey'[g][t[1]] = t[2]
  <2>1. CASE g # f
    <3>1. told'[g] = told[g] /\ idToClassKey'[g] = idToClassKey[g]
      BY <1>5, <1>6, <2>1 DEF HeapInv, HeapTypes
    <3>2. QED
      BY <1>9, <3>1 DEF HeapInv, ListingsHold
  <2>2. CASE g = f /\ t \in new
    BY <1>5, <1>7, <2>2
  <2>3. CASE g = f /\ t \in told[f]
    <3>1. t[1] \in 1 .. Len(idToClassKey[f]) /\ idToClassKey[f][t[1]] = t[2]
      BY <2>3 DEF HeapInv, ListingsHold
    <3>2. t[1] \in 1 .. Len(keys)
      BY <1>3, <3>1
    <3>3. QED
      BY <1>3, <1>5, <2>3, <3>1, <3>2
  <2>4. QED
    BY <1>6, <2>1, <2>2, <2>3 DEF HeapInv, HeapTypes
<1>10. \A g \in Files : uid[g] = 0 => told'[g] = {}
  BY <1>6 DEF HeapInv, HeapTypes, ListingsHold, HS!getAggregates
<1>11. UNCHANGED <<onDisk, uid, loaded, nextUid, diffs>>
  BY DEF HS!getAggregates
<1>12. HeapTypes'
  BY <1>5, <1>8, <1>11 DEF HeapInv, HeapTypes
<1>13. ListingsHold'
  BY <1>9, <1>10, <1>11 DEF ListingsHold
<1>14. UidsAreOfLoads' /\ DiffsAreOfLoads'
  BY <1>11 DEF HeapInv, UidsAreOfLoads, DiffsAreOfLoads
<1>15. QED
  BY <1>12, <1>13, <1>14 DEF HeapInv

LEMMA HeapCompares ==
    ASSUME HeapInv, NEW base \in Files, NEW f \in Files,
           HS!compareHeapSnapshots(base, f)
    PROVE  HeapInv'
<1>1. /\ uid[base] # 0
      /\ \/ diffs' = [diffs EXCEPT ![f] = diffs[f]]
         \/ diffs' = [diffs EXCEPT ![f] =
                        diffs[f] \cup {<<uid[base], loaded[base]>>}]
      /\ UNCHANGED <<onDisk, uid, loaded, nextUid, idToClassKey, told>>
  BY DEF HS!compareHeapSnapshots
<1> DEFINE d == <<uid[base], loaded[base]>>
<1>2. /\ d \in Nat \X Nat /\ 0 < d[1] /\ d[1] < nextUid
      /\ \A g \in Files : d[1] = uid[g] => d[2] = loaded[g]
  BY <1>1 DEF HeapInv, HeapTypes, UidsAreOfLoads
<1>3. diffs' = [diffs EXCEPT ![f] = diffs[f]] \/ diffs' = [diffs EXCEPT ![f] = diffs[f] \cup {d}]
  BY <1>1
<1> HIDE DEF d
<1>4. /\ diffs' \in [Files -> SUBSET (Nat \X Nat)]
      /\ \A g \in Files : \A e \in diffs'[g] : e \in diffs[g] \/ e = d
  <2>1. \E D : diffs' = [diffs EXCEPT ![f] = D] /\ diffs[f] \subseteq D /\ D \subseteq diffs[f] \cup {d}
    BY <1>3
  <2>2. PICK D : diffs' = [diffs EXCEPT ![f] = D] /\ D \subseteq diffs[f] \cup {d}
    BY <2>1
  <2>3. D \in SUBSET (Nat \X Nat) /\ diffs \in [Files -> SUBSET (Nat \X Nat)]
    BY <1>2, <2>2 DEF HeapInv, HeapTypes
  <2>4. diffs' \in [Files -> SUBSET (Nat \X Nat)]
    BY <2>2, <2>3
  <2>5. diffs'[f] = D /\ \A g \in Files \ {f} : diffs'[g] = diffs[g]
    BY <2>2, <2>3
  <2>6. QED
    BY <2>2, <2>4, <2>5
<1>5. HeapTypes'
  BY <1>1, <1>4 DEF HeapInv, HeapTypes
<1>6. DiffsAreOfLoads'
  <2>1. ASSUME NEW g \in Files, NEW e \in diffs'[g]
        PROVE  0 < e[1] /\ e[1] < nextUid /\ \A h \in Files : e[1] = uid[h] => e[2] = loaded[h]
    BY <1>2, <1>4 DEF HeapInv, DiffsAreOfLoads
  <2>2. QED
    BY <1>1, <2>1 DEF DiffsAreOfLoads
<1>7. UidsAreOfLoads' /\ ListingsHold'
  BY <1>1 DEF HeapInv, UidsAreOfLoads, ListingsHold
<1>8. QED
  BY <1>5, <1>6, <1>7 DEF HeapInv

LEMMA HeapDisposes ==
    ASSUME HeapInv, NEW f \in Files, HS!disposeSnapshot(f)
    PROVE  HeapInv'
<1>1. HeapTypes'
  BY DEF HeapInv, HeapTypes, HS!disposeSnapshot
<1>2. /\ uid'[f] = 0 /\ told'[f] = {} /\ diffs'[f] = {} /\ nextUid' = nextUid
      /\ \A g \in Files \ {f} : /\ uid'[g] = uid[g] /\ told'[g] = told[g] /\ diffs'[g] = diffs[g]
                              /\ idToClassKey'[g] = idToClassKey[g] /\ loaded'[g] = loaded[g]
  BY DEF HeapInv, HeapTypes, HS!disposeSnapshot
<1>3. UidsAreOfLoads'
  <2>1. 0 < nextUid
    BY DEF HeapInv, HeapTypes
  <2>2. QED
    BY <1>2, <2>1 DEF HeapInv, UidsAreOfLoads
<1>4. ListingsHold'
  BY <1>2 DEF HeapInv, ListingsHold
<1>5. DiffsAreOfLoads'
  <2>1. ASSUME NEW g \in Files, NEW d \in diffs'[g]
        PROVE  d \in diffs[g]
    BY <1>2
  <2>2. ASSUME NEW g \in Files, NEW d \in diffs'[g], NEW h \in Files, d[1] = uid'[h]
        PROVE  d[2] = loaded'[h]
    <3>1. 0 < d[1] /\ (d[1] = uid[h] => d[2] = loaded[h])
      BY <2>1, <2>2 DEF HeapInv, DiffsAreOfLoads
    <3>2. h # f
      BY <1>2, <2>2, <3>1
    <3>3. QED
      BY <1>2, <2>2, <3>1, <3>2
  <2>3. QED
    BY <1>2, <2>1, <2>2 DEF HeapInv, DiffsAreOfLoads
<1>6. QED
  BY <1>1, <1>3, <1>4, <1>5 DEF HeapInv

LEMMA HeapStep == HeapInv /\ [HS!Next]_(HS!heapVars) => HeapInv'
<1> SUFFICES ASSUME HeapInv, [HS!Next]_(HS!heapVars) PROVE HeapInv'
  OBVIOUS
<1>1. CASE UNCHANGED HS!heapVars
  BY <1>1 DEF HeapInv, HeapTypes, UidsAreOfLoads, ListingsHold, DiffsAreOfLoads, HS!heapVars,
         HS!managerVars
<1>2. CASE HS!dispose
  <2>1. HeapTypes'
    BY <1>2 DEF HeapInv, HeapTypes, HS!dispose
  <2>2. /\ nextUid' = nextUid /\ 0 < nextUid
        /\ \A f \in Files : uid'[f] = 0 /\ told'[f] = {} /\ diffs'[f] = {}
    BY <1>2 DEF HeapInv, HeapTypes, HS!dispose
  <2>3. QED
    BY <2>1, <2>2 DEF HeapInv, UidsAreOfLoads, ListingsHold, DiffsAreOfLoads
<1>3. ASSUME NEW f \in Files, HS!takeHeapSnapshot(f) PROVE HeapInv'
  <2>1. onDisk' \in [Files -> Nat]
    BY <1>3 DEF HeapInv, HeapTypes, HS!takeHeapSnapshot
  <2>2. UNCHANGED <<uid, loaded, nextUid, idToClassKey, diffs, told>>
    BY <1>3 DEF HS!takeHeapSnapshot, HS!managerVars
  <2>3. QED
    BY <2>1, <2>2 DEF HeapInv, HeapTypes, UidsAreOfLoads, ListingsHold, DiffsAreOfLoads
<1>4. ASSUME NEW f \in Files, HS!LoadFails(f) PROVE HeapInv'
  <2>1. nextUid' = nextUid + 1 /\ UNCHANGED <<onDisk, uid, loaded, idToClassKey, diffs, told>>
    BY <1>4 DEF HS!LoadFails
  <2>2. HeapTypes'
    BY <2>1 DEF HeapInv, HeapTypes
  <2>3. \A n \in Nat : n < nextUid => n < nextUid'
    BY <2>1 DEF HeapInv, HeapTypes
  <2>4. UidsAreOfLoads'
    BY <2>1, <2>3 DEF HeapInv, HeapTypes, UidsAreOfLoads
  <2>5. DiffsAreOfLoads'
    <3>1. \A g \in Files : \A d \in diffs[g] : d[1] \in Nat
      BY DEF HeapInv, HeapTypes
    <3>2. QED
      BY <2>1, <2>3, <3>1 DEF HeapInv, DiffsAreOfLoads
  <2>6. QED
    BY <2>1, <2>2, <2>4, <2>5 DEF HeapInv, ListingsHold
<1>5. ASSUME NEW f \in Files, HS!disposeSnapshot(f) PROVE HeapInv'
  BY <1>5, HeapDisposes
<1>6. ASSUME NEW f \in Files, HS!Shows(f) PROVE HeapInv'
  BY <1>6, HeapLoads DEF HS!Shows
<1>7. ASSUME NEW f \in Files, NEW classes \in SUBSET Classes, HS!getAggregates(f, classes)
      PROVE  HeapInv'
  BY <1>7, HeapAggregates
<1>8. ASSUME NEW f \in Files, NEW base \in Files, HS!compareHeapSnapshots(base, f)
      PROVE  HeapInv'
  BY <1>8, HeapCompares
<1>9. QED
  BY <1>1, <1>2, <1>3, <1>4, <1>5, <1>6, <1>7, <1>8
     DEF HS!Next, HS!getHeapSnapshotSummary, HS!getHeapSnapshotDuplicateStrings,
         HS!getHeapSnapshotRetainers, HS!getHeapSnapshotRetainingPaths,
         HS!getHeapSnapshotEdges, HS!getHeapSnapshotDominators,
         HS!getHeapSnapshotObjectDetails, HS!getNodesById

LEMMA HeapKept == HeapInv => HS!HeapIdsResolve
  BY DEF HeapInv, HeapTypes, ListingsHold, DiffsAreOfLoads, HS!HeapIdsResolve

-----------------------------------------------------------------------------
(* The types of heap snapshots *)

LEMMA HeapTypeFirst == HS!Init => HS!TypeOK
BY LoadsAreNumbered DEF HS!Init, HS!TypeOK

LEMMA HeapTypeStep ==
    HeapInv /\ HeapInv' /\ HS!TypeOK /\ [HS!Next]_(HS!heapVars) => HS!TypeOK'
<1> SUFFICES ASSUME HeapInv, HeapInv', HS!TypeOK, [HS!Next]_(HS!heapVars) PROVE HS!TypeOK'
  OBVIOUS
<1> USE LoadsAreNumbered DEF HS!TypeOK
<1>0. idToClassKey' \in [Files -> Seq(Classes)]
  BY DEF HeapInv, HeapTypes
<1>1. CASE UNCHANGED HS!heapVars
  BY <1>1 DEF HS!heapVars, HS!managerVars
<1>2. CASE HS!dispose
  BY <1>0, <1>2 DEF HS!dispose
<1>3. ASSUME NEW f \in Files, HS!takeHeapSnapshot(f) PROVE HS!TypeOK'
  <2>1. /\ onDisk[f] < MaxVersion /\ onDisk' = [onDisk EXCEPT ![f] = @ + 1]
        /\ UNCHANGED <<uid, loaded, nextUid, idToClassKey, leaked>>
    BY <1>3 DEF HS!takeHeapSnapshot, HS!managerVars
  <2>2. onDisk[f] + 1 \in 0 .. MaxVersion
    BY <2>1
  <2>3. QED
    BY <2>1, <2>2
<1>4. ASSUME NEW f \in Files, HS!LoadFails(f) PROVE HS!TypeOK'
  BY <1>4 DEF HS!LoadFails
<1>5. ASSUME NEW f \in Files, HS!disposeSnapshot(f) PROVE HS!TypeOK'
  <2>1. 0 \in 0 .. MaxLoads /\ 0 \in 0 .. MaxVersion
    OBVIOUS
  <2>2. QED
    BY <1>0, <1>5, <2>1 DEF HS!disposeSnapshot
<1>6. ASSUME NEW f \in Files, HS!Shows(f) PROVE HS!TypeOK'
  <2>1. HS!getSnapshot(f) /\ onDisk' = onDisk
    BY <1>6 DEF HS!Shows
  <2>2. CASE UNCHANGED HS!managerVars
    BY <2>1, <2>2 DEF HS!managerVars
  <2>3. CASE ~UNCHANGED HS!managerVars
    <3>1. /\ nextUid <= MaxLoads /\ uid' = [uid EXCEPT ![f] = nextUid] /\ nextUid' = nextUid + 1
          /\ loaded' = [loaded EXCEPT ![f] = onDisk[f]] /\ leaked' = leaked
      BY <2>1, <2>3 DEF HS!getSnapshot
    <3>2. nextUid \in 0 .. MaxLoads /\ nextUid + 1 \in 1 .. MaxLoads + 1
      BY <3>1
    <3>3. QED
      BY <1>0, <2>1, <3>1, <3>2
  <2>4. QED
    BY <2>2, <2>3
<1>7. ASSUME NEW f \in Files, NEW classes \in SUBSET Classes, HS!getAggregates(f, classes)
      PROVE  HS!TypeOK'
  BY <1>0, <1>7 DEF HS!getAggregates
<1>8. ASSUME NEW f \in Files, NEW base \in Files, HS!compareHeapSnapshots(base, f)
      PROVE  HS!TypeOK'
  BY <1>0, <1>8 DEF HS!compareHeapSnapshots
<1>9. QED
  BY <1>1, <1>2, <1>3, <1>4, <1>5, <1>6, <1>7, <1>8
     DEF HS!Next, HS!getHeapSnapshotSummary, HS!getHeapSnapshotDuplicateStrings,
         HS!getHeapSnapshotRetainers, HS!getHeapSnapshotRetainingPaths,
         HS!getHeapSnapshotEdges, HS!getHeapSnapshotDominators,
         HS!getHeapSnapshotObjectDetails, HS!getNodesById

-----------------------------------------------------------------------------
(* Recursion on numbers *)

\* A set of numbers that is not empty has a least one.
LEMMA LeastNumber ==
    ASSUME NEW T, T \subseteq Nat, T # {}
    PROVE  \E x \in T : \A y \in T : x <= y
<1> DEFINE R == {s \in Nat \X Nat : s[1] < s[2]}
<1>1. IsWellFoundedOn(R, Nat)
  BY NatLessThanWellFounded DEF OpToRel
<1> HIDE DEF R
<1>2. PICK x \in T : \A y \in T : ~(<<y, x>> \in R)
  BY <1>1, WFMin
<1>3. \A y \in T : ~(y < x)
  BY <1>2 DEF R
<1>4. QED
  BY <1>3

\* What holds of the first and goes from each to the next holds of all.
LEMMA Stepwise ==
    ASSUME NEW a \in Int, NEW n \in Int, NEW S, a \in S, \A i \in a .. n - 1 : i \in S => i + 1 \in S
    PROVE  a .. n \subseteq S
<1> DEFINE T == {i - a : i \in (a .. n) \ S}
<1> SUFFICES ASSUME T # {} PROVE FALSE
  BY DEF T
<1>1. \A t \in T : t \in Nat /\ a + t \in a .. n /\ a + t \notin S
  OBVIOUS
<1>2. \A i \in a .. n : i \notin S => i - a \in T
  OBVIOUS
<1> HIDE DEF T
<1>3. PICK t \in T : \A u \in T : t <= u
  <2>1. T \subseteq Nat
    BY <1>1
  <2>2. QED
    BY <2>1, LeastNumber
<1>4. t \in Nat /\ a + t \in a .. n /\ a + t \notin S
  BY <1>1
<1>5. t # 0
  BY <1>4
<1>6. a + t - 1 \in S
  <2>1. a + t - 1 \in a .. n /\ (a + t - 1) - a = t - 1 /\ ~(t <= t - 1)
    BY <1>4, <1>5
  <2>2. QED
    BY <1>2, <1>3, <2>1
<1>7. a + t \in S
  <2>1. a + t - 1 \in a .. n - 1 /\ (a + t - 1) + 1 = a + t
    BY <1>4, <1>5
  <2>2. QED
    BY <1>6, <2>1
<1>8. QED
  BY <1>4, <1>7

\* F says of each place what stands there, from what stands before it.
FromBefore(F, a, n, V) ==
    /\ a \in Int /\ n \in Int /\ V # {}
    /\ F \in [[a .. n -> V] -> [a .. n -> V]]
    /\ \A f, g \in [a .. n -> V], m \in a .. n :
          (\A i \in a .. m - 1 : f[i] = g[i]) => F[f][m] = F[g][m]

Obeyed(F, a, n, V) == \E f \in [a .. n -> V] : f = F[f]

\* A definition by recursion, in which a value depends on those before it only, has a
\* function that obeys it.
LEMMA Recursion ==
    ASSUME NEW F, NEW a, NEW n, NEW V, FromBefore(F, a, n, V)
    PROVE  Obeyed(F, a, n, V)
<1> USE FromBefore(F, a, n, V) DEF FromBefore, Obeyed
<1> PICK some : some \in V
  OBVIOUS
<1> DEFINE Fns == [a .. n -> V]
           S == {k \in a - 1 .. n : \E f \in Fns : \A i \in a .. k : f[i] = F[f][i]}
<1>1. CASE n < a
  <2>1. a .. n = {}
    BY <1>1
  <2>2. [i \in a .. n |-> some] \in Fns
    BY <2>1
  <2>3. PICK f : f \in Fns
    BY <2>2
  <2>4. F[f] \in Fns
    BY <2>3
  <2>5. \A i \in a .. n : f[i] = F[f][i]
    BY <2>1
  <2>6. f = F[f]
    BY <2>3, <2>4, <2>5
  <2>7. QED
    BY <2>3, <2>6
<1>2. CASE a <= n
  <2>1. a - 1 \in S
    <3>1. [i \in a .. n |-> some] \in Fns
      OBVIOUS
    <3>2. a .. a - 1 = {} /\ a - 1 \in a - 1 .. n
      BY <1>2
    <3>3. QED
      BY <3>1, <3>2
  <2>2. ASSUME NEW k \in a - 1 .. n - 1, k \in S PROVE k + 1 \in S
    <3>1. PICK f \in Fns : \A i \in a .. k : f[i] = F[f][i]
      BY <2>2
    <3>2. k + 1 \in a .. n /\ k + 1 \in a - 1 .. n /\ (k + 1) - 1 = k
      OBVIOUS
    <3> DEFINE g == [f EXCEPT ![k + 1] = F[f][k + 1]]
    <3>3. F[f] \in Fns
      BY <3>1
    <3>4. g \in Fns
      BY <3>1, <3>2, <3>3
    <3>5. \A i \in a .. k : g[i] = f[i] /\ i \in a .. n
      BY <3>1, <3>2
    <3>6. g[k + 1] = F[f][k + 1]
      BY <3>1, <3>2
    <3> HIDE DEF g, Fns
    <3>7. \A m \in a .. k + 1 : F[g][m] = F[f][m]
      <4>1. SUFFICES ASSUME NEW m \in a .. k + 1 PROVE F[g][m] = F[f][m]
        OBVIOUS
      <4>2. m \in a .. n /\ \A i \in a .. m - 1 : i \in a .. k
        BY <3>2
      <4>3. QED
        BY <3>1, <3>4, <3>5, <4>2 DEF Fns
    <3>8. \A i \in a .. k + 1 : g[i] = F[g][i]
      <4>1. \A i \in a .. k + 1 : i = k + 1 \/ i \in a .. k
        OBVIOUS
      <4>2. QED
        BY <3>1, <3>5, <3>6, <3>7, <4>1
    <3>9. QED
      BY <3>2, <3>4, <3>8
  <2> HIDE DEF S
  <2>3. a - 1 .. n \subseteq S
    <3>1. \A i \in a - 1 .. n - 1 : i \in S => i + 1 \in S
      BY <2>2
    <3>2. a - 1 \in Int
      OBVIOUS
    <3>3. QED
      BY <2>1, <3>1, <3>2, Stepwise
  <2>4. n \in S
    BY <1>2, <2>3
  <2>5. PICK f \in Fns : \A i \in a .. n : f[i] = F[f][i]
    BY <2>4 DEF S
  <2>6. F[f] \in Fns
    BY <2>5
  <2>7. f = F[f]
    BY <2>5, <2>6
  <2>8. QED
    BY <2>5, <2>7
<1>3. QED
  BY <1>1, <1>2

-----------------------------------------------------------------------------
(* The tree of a snapshot *)

\* An element's ancestors are its parent and the parent's.
LEMMA AboveIs ==
    TS!Above = [b \in 1 .. Len(Parents) |->
        IF Parents[b] = 0 THEN {} ELSE {Parents[b]} \cup TS!Above[Parents[b]]]
<1> DEFINE n == Len(Parents)
           V == SUBSET Nat
           F == [f \in [1 .. n -> V] |-> [b \in 1 .. n |->
                    IF Parents[b] = 0 THEN {} ELSE {Parents[b]} \cup f[Parents[b]]]]
<1>1. n \in Nat /\ \A b \in 1 .. n : Parents[b] \in Nat /\ Parents[b] < b
  BY ElementsAreNumbered
<1>2. \A b \in 1 .. n : Parents[b] # 0 => Parents[b] \in 1 .. b - 1 /\ Parents[b] \in 1 .. n
  BY <1>1
<1>3. F \in [[1 .. n -> V] -> [1 .. n -> V]]
  <2>1. SUFFICES ASSUME NEW f \in [1 .. n -> V], NEW b \in 1 .. n
                 PROVE  (IF Parents[b] = 0 THEN {} ELSE {Parents[b]} \cup f[Parents[b]]) \in V
    OBVIOUS
  <2>2. QED
    BY <1>1, <1>2
<1>4. ASSUME NEW f \in [1 .. n -> V], NEW g \in [1 .. n -> V], NEW m \in 1 .. n,
             \A i \in 1 .. m - 1 : f[i] = g[i]
      PROVE  F[f][m] = F[g][m]
  BY <1>2, <1>4
<1>5. \A f \in [1 .. n -> V] : F[f] = [b \in 1 .. n |->
          IF Parents[b] = 0 THEN {} ELSE {Parents[b]} \cup f[Parents[b]]]
  OBVIOUS
<1> HIDE DEF F
<1>6. \E f \in [1 .. n -> V] : f = F[f]
  <2>1. V # {} /\ 1 \in Int /\ n \in Int
    BY <1>1
  <2>2. FromBefore(F, 1, n, V)
    BY <1>3, <1>4, <2>1 DEF FromBefore
  <2>3. Obeyed(F, 1, n, V)
    BY <2>2, Recursion
  <2> HIDE DEF V, n, F
  <2>4. QED
    BY <2>3 DEF Obeyed
<1>7. PICK f \in [1 .. n -> V] : f = F[f]
  BY <1>6
<1>8. f = [b \in 1 .. n |->
          IF Parents[b] = 0 THEN {} ELSE {Parents[b]} \cup f[Parents[b]]]
  BY <1>5, <1>7
<1>9. \E g : g = [b \in 1 .. n |-> IF Parents[b] = 0 THEN {} ELSE {Parents[b]} \cup g[Parents[b]]]
  BY <1>8
<1>10. QED
  BY <1>9, Zenon DEF TS!Above, TS!BackendIds

\* Ancestors have smaller numbers, and are above one another.
LEMMA AncestorsAreAbove ==
    ASSUME NEW b \in 1 .. Len(Parents)
    PROVE  /\ TS!Above[b] \subseteq 1 .. b - 1
           /\ TS!Above[b] = {} <=> b = 1
           /\ b # 1 => 1 \in TS!Above[b]
           /\ \A c \in TS!Above[b] : TS!Above[c] \subseteq TS!Above[b]
           /\ \A c, d \in TS!Above[b] : c < d => c \in TS!Above[d]
<1> DEFINE n == Len(Parents)
           Up == TS!Above
           Good(e) == /\ Up[e] \subseteq 1 .. e - 1
                      /\ Up[e] = {} <=> e = 1
                      /\ e # 1 => 1 \in Up[e]
                      /\ \A c \in Up[e] : Up[c] \subseteq Up[e]
                      /\ \A c, d \in Up[e] : c < d => c \in Up[d]
           S == {m \in 0 .. n : \A e \in 1 .. m : Good(e)}
<1>1. n \in Nat /\ \A e \in 1 .. n : Parents[e] \in Nat /\ Parents[e] < e /\ (Parents[e] = 0 <=> e = 1)
  BY ElementsAreNumbered
<1>2. \A e \in 1 .. n : Up[e] = IF Parents[e] = 0 THEN {} ELSE {Parents[e]} \cup Up[Parents[e]]
  BY AboveIs
<1> HIDE DEF Up, n
<1>3. 0 \in S
  BY <1>1
<1>4. ASSUME NEW m \in 0 .. n - 1, m \in S PROVE m + 1 \in S
  <2>1. m + 1 \in 1 .. n /\ \A e \in 1 .. m : Good(e)
    <3> HIDE DEF Good
    <3>1. QED
      BY <1>1, <1>4
  <2>2. CASE m + 1 = 1
    <3>1. Up[1] = {}
      BY <1>1, <1>2, <2>1, <2>2
    <3>2. QED
      BY <1>1, <2>1, <2>2, <3>1
  <2>3. CASE m + 1 # 1
    <3> DEFINE e == m + 1
               q == Parents[e]
    <3>1. q \in 1 .. m /\ Up[e] = {q} \cup Up[q]
      <4>1. e \in 1 .. n /\ e # 1
        BY <2>1, <2>3
      <4>2. q \in Nat /\ q < e /\ q # 0
        BY <1>1, <4>1
      <4>3. q \in 1 .. m
        BY <4>2
      <4>4. QED
        BY <1>2, <4>1, <4>2, <4>3
    <3>2. Good(q)
      BY <2>1, <3>1
    <3> HIDE DEF q
    <3>3. Good(e)
      <4>1. Up[e] \subseteq 1 .. e - 1 /\ Up[e] # {} /\ 1 \in Up[e]
        BY <3>1, <3>2
      <4>2. \A c \in Up[e] : Up[c] \subseteq Up[e]
        BY <3>1, <3>2
      <4>3. ASSUME NEW c \in Up[e], NEW d \in Up[e], c < d PROVE c \in Up[d]
        <5>1. CASE d = q
          <6>1. c # q
            BY <3>1, <4>3, <5>1
          <6>2. QED
            BY <3>1, <5>1, <6>1
        <5>2. CASE d \in Up[q]
          <6>1. d < q /\ c # q
            BY <3>1, <3>2, <4>3, <5>2
          <6>2. QED
            BY <3>1, <3>2, <4>3, <5>2, <6>1
        <5>3. QED
          BY <3>1, <5>1, <5>2
      <4>4. QED
        BY <2>3, <4>1, <4>2, <4>3
    <3> HIDE DEF Good
    <3>4. \A i \in 1 .. m + 1 : i \in 1 .. m \/ i = m + 1
      OBVIOUS
    <3>5. QED
      BY <1>1, <2>1, <3>3, <3>4
  <2>4. QED
    BY <2>2, <2>3
<1>5. n \in S
  <2>1. 0 .. n \subseteq S
    <3> HIDE DEF S
    <3>1. 0 \in Int /\ n \in Int /\ \A i \in 0 .. n - 1 : i \in S => i + 1 \in S
      BY <1>1, <1>4
    <3>2. QED
      BY <1>3, <3>1, Stepwise
  <2>2. QED
    BY <1>1, <2>1
<1>6. Good(b)
  BY <1>5 DEF n
<1>7. QED
  BY <1>6 DEF Up

Among(nodes, N) == [u \in N |-> nodes[u]]

\* These nodes are of different elements, and the root is one of them.
OfTree(nodes, N) ==
    /\ \A u \in N : nodes[u].b \in 1 .. Len(Parents)
    /\ \A u, v \in N : nodes[u].b = nodes[v].b => u = v
    /\ \E u \in N : nodes[u].b = 1

\* Each of them hangs below the closest of its ancestors among them.
Hangs(nodes, parent, N) ==
    /\ parent = [u \in N |-> parent[u]]
    /\ \A u \in N : parent[u] = IF TS!Above[nodes[u].b] = {} THEN u
                                ELSE TS!Closest(Among(nodes, N), nodes[u].b)

\* c is the closest of the ancestors of b.
ClosestOf(nodes, N, b, c) ==
    /\ c \in N /\ nodes[c].b \in TS!Above[b]
    /\ \A v \in N : nodes[v].b \in TS!Above[b] => nodes[v].b <= nodes[c].b

LEMMA OneIsClosest ==
    ASSUME NEW nodes, NEW N, OfTree(nodes, N), NEW b \in 1 .. Len(Parents),
           NEW c, ClosestOf(nodes, N, b, c)
    PROVE  TS!Closest(Among(nodes, N), b) = c
<1> DEFINE some == Among(nodes, N)
           over == {u \in DOMAIN some : some[u].b \in TS!Above[b]}
<1>1. DOMAIN some = N /\ \A u \in N : some[u] = nodes[u]
  BY DEF Among
<1>2. c \in over /\ \A v \in over : some[v].b <= some[c].b
  BY <1>1 DEF ClosestOf
<1>3. ASSUME NEW d \in over, \A v \in over : some[v].b <= some[d].b PROVE d = c
  <2>1. nodes[c].b <= nodes[d].b /\ nodes[d].b <= nodes[c].b
    BY <1>1, <1>2, <1>3
  <2>2. nodes[c].b \in 1 .. Len(Parents) /\ nodes[d].b \in 1 .. Len(Parents) /\ c \in N /\ d \in N
    BY <1>1, <1>2 DEF OfTree
  <2>3. QED
    BY <2>1, <2>2 DEF OfTree
<1>4. TS!Closest(some, b) = CHOOSE u \in over : \A v \in over : some[v].b <= some[u].b
  BY DEF TS!Closest
<1> HIDE DEF over, some
<1>5. (CHOOSE u \in over : \A v \in over : some[v].b <= some[u].b) = c
  <2>1. \E u \in over : \A v \in over : some[v].b <= some[u].b
    BY <1>2
  <2>2. QED
    BY <1>3, <2>1
<1>6. QED
  BY <1>4, <1>5 DEF some

LEMMA ClosestIs ==
    ASSUME NEW nodes, NEW N, OfTree(nodes, N), NEW b \in 1 .. Len(Parents), b # 1
    PROVE  ClosestOf(nodes, N, b, TS!Closest(Among(nodes, N), b))
<1> DEFINE T == {b - nodes[u].b : u \in {v \in N : nodes[v].b \in TS!Above[b]}}
<1>1. Len(Parents) \in Nat /\ \A u \in N : nodes[u].b \in 1 .. Len(Parents)
  BY ElementsAreNumbered DEF OfTree
<1>2. TS!Above[b] \subseteq 1 .. b - 1 /\ 1 \in TS!Above[b]
  BY AncestorsAreAbove
<1>3. \A u \in N : nodes[u].b \in TS!Above[b] => b - nodes[u].b \in T
  OBVIOUS
<1>4. \A t \in T : t \in Nat /\ \E u \in N : nodes[u].b \in TS!Above[b] /\ t = b - nodes[u].b
  BY <1>1, <1>2
<1>5. T # {}
  BY <1>2, <1>3 DEF OfTree
<1> HIDE DEF T
<1>6. PICK t \in T : \A s \in T : t <= s
  <2>1. T \subseteq Nat
    BY <1>4
  <2>2. QED
    BY <1>5, <2>1, LeastNumber
<1>7. PICK c \in N : nodes[c].b \in TS!Above[b] /\ t = b - nodes[c].b
  BY <1>4
<1>8. ASSUME NEW v \in N, nodes[v].b \in TS!Above[b] PROVE nodes[v].b <= nodes[c].b
  <2>1. b - nodes[c].b <= b - nodes[v].b
    BY <1>3, <1>6, <1>7, <1>8
  <2>2. nodes[v].b \in Int /\ nodes[c].b \in Int
    BY <1>1
  <2>3. QED
    BY <2>1, <2>2
<1>9. ClosestOf(nodes, N, b, c)
  BY <1>7, <1>8 DEF ClosestOf
<1>10. QED
  BY <1>9, OneIsClosest

\* An element put in takes its place, and what is below it comes along.
LEMMA ElementTakesItsPlace ==
    ASSUME NEW nodes, NEW N, OfTree(nodes, N), NEW e, e \notin N, OfTree(nodes, N \cup {e}),
           nodes[e].b # 1, NEW parent, Hangs(nodes, parent, N)
    PROVE  Hangs(nodes, TS!moveChildNodes(nodes, parent, e,
                            TS!Closest(Among(nodes, N), nodes[e].b)), N \cup {e})
<1> DEFINE t == TS!Closest(Among(nodes, N), nodes[e].b)
           shifted == TS!moveChildNodes(nodes, parent, e, t)
           M == N \cup {e}
<1>1. Len(Parents) \in Nat /\ \A u \in M : nodes[u].b \in 1 .. Len(Parents)
  BY ElementsAreNumbered DEF OfTree
<1>2. ClosestOf(nodes, N, nodes[e].b, t)
  BY <1>1, ClosestIs
<1>3. DOMAIN parent = N
  BY DEF Hangs
<1>4. shifted = [u \in M |-> IF u = e THEN t
                           ELSE IF parent[u] = t /\ nodes[e].b \in TS!Above[nodes[u].b] THEN e
                           ELSE parent[u]]
  BY <1>3 DEF TS!moveChildNodes
<1>5. TS!Above[nodes[e].b] # {} /\ nodes[e].b \notin TS!Above[nodes[e].b]
  BY <1>1, AncestorsAreAbove
<1>6. TS!Closest(Among(nodes, M), nodes[e].b) = t
  <2>1. ClosestOf(nodes, M, nodes[e].b, t)
    BY <1>2, <1>5 DEF ClosestOf
  <2>2. QED
    BY <1>1, <2>1, OneIsClosest
<1>7. ASSUME NEW u \in N
      PROVE  shifted[u] = IF TS!Above[nodes[u].b] = {} THEN u
                        ELSE TS!Closest(Among(nodes, M), nodes[u].b)
  <2> DEFINE b == nodes[u].b
             d == nodes[e].b
             c == TS!Closest(Among(nodes, N), b)
  <2>1. u # e /\ u \in M /\ b \in 1 .. Len(Parents) /\ d \in 1 .. Len(Parents)
    BY <1>1
  <2>2. parent[u] = IF TS!Above[b] = {} THEN u ELSE c
    BY DEF Hangs
  <2>3. shifted[u] = IF parent[u] = t /\ d \in TS!Above[b] THEN e ELSE parent[u]
    BY <1>4, <2>1
  <2>4. CASE TS!Above[b] = {}
    BY <2>2, <2>3, <2>4
  <2>5. CASE TS!Above[b] # {}
    <3>1. b # 1
      BY <2>1, <2>5, AncestorsAreAbove
    <3>2. ClosestOf(nodes, N, b, c)
      BY <2>1, <3>1, ClosestIs
    <3>3. CASE d \notin TS!Above[b]
      <4>1. ClosestOf(nodes, M, b, c)
        BY <3>2, <3>3 DEF ClosestOf
      <4>2. TS!Closest(Among(nodes, M), b) = c
        BY <2>1, <4>1, OneIsClosest
      <4>3. QED
        BY <2>2, <2>3, <2>5, <3>3, <4>2
    <3>4. CASE d \in TS!Above[b] /\ c = t
      <4>1. nodes[t].b < d
        BY <1>1, <1>2, AncestorsAreAbove DEF ClosestOf
      <4>2. \A v \in N : nodes[v].b \in TS!Above[b] => nodes[v].b <= d
        <5>1. ASSUME NEW v \in N, nodes[v].b \in TS!Above[b] PROVE nodes[v].b <= d
          <6>1. nodes[v].b <= nodes[t].b
            BY <3>2, <3>4, <5>1 DEF ClosestOf
          <6>2. t \in N
            BY <1>2 DEF ClosestOf
          <6>3. nodes[v].b \in Nat /\ nodes[t].b \in Nat /\ d \in Nat
            BY <1>1, <6>2
          <6> HIDE DEF d, t
          <6>4. QED
            BY <4>1, <6>1, <6>3
        <5>2. QED
          BY <5>1
      <4>3. ClosestOf(nodes, M, b, e)
        <5>1. d <= d
          BY <2>1
        <5>2. QED
          BY <3>4, <4>2, <5>1 DEF ClosestOf
      <4>4. TS!Closest(Among(nodes, M), b) = e
        BY <2>1, <4>3, OneIsClosest
      <4>5. QED
        BY <2>2, <2>3, <2>5, <3>4, <4>4
    <3>5. CASE d \in TS!Above[b] /\ c # t
      <4>1. c \in N /\ nodes[c].b \in TS!Above[b] /\ t \in N /\ nodes[t].b \in TS!Above[d]
        BY <1>2, <3>2 DEF ClosestOf
      <4>2. nodes[t].b \in TS!Above[b]
        BY <2>1, <3>5, <4>1, AncestorsAreAbove
      <4>3. nodes[t].b <= nodes[c].b
        BY <3>2, <4>1, <4>2 DEF ClosestOf
      <4>4. ~(nodes[c].b < d)
        <5>1. ASSUME nodes[c].b < d PROVE FALSE
          <6>1. nodes[c].b \in TS!Above[d]
            BY <2>1, <3>5, <4>1, <5>1, AncestorsAreAbove
          <6>2. nodes[c].b <= nodes[t].b
            BY <1>2, <4>1, <6>1 DEF ClosestOf
          <6>3. nodes[c].b \in Nat /\ nodes[t].b \in Nat
            BY <1>1, <4>1
          <6>4. nodes[c].b = nodes[t].b
            <7> HIDE DEF c, t
            <7>1. QED
              BY <4>3, <6>2, <6>3
          <6>5. QED
            BY <3>5, <4>1, <6>4 DEF OfTree
        <5>2. QED
          BY <5>1
      <4>5. nodes[c].b # d
        BY <4>1 DEF OfTree
      <4>6. d <= nodes[c].b
        <5>1. nodes[c].b \in Nat /\ d \in Nat
          BY <1>1, <4>1
        <5> HIDE DEF c, d
        <5>2. QED
          BY <4>4, <5>1
      <4>7. ClosestOf(nodes, M, b, c)
        BY <3>2, <4>6 DEF ClosestOf
      <4>8. TS!Closest(Among(nodes, M), b) = c
        BY <2>1, <4>7, OneIsClosest
      <4>9. QED
        BY <2>2, <2>3, <2>5, <3>5, <4>8
    <3>6. QED
      BY <3>3, <3>4, <3>5
  <2>6. QED
    BY <2>4, <2>5
<1>8. \A u \in M : shifted[u] = IF TS!Above[nodes[u].b] = {} THEN u
                              ELSE TS!Closest(Among(nodes, M), nodes[u].b)
  <2>1. shifted[e] = t
    BY <1>4
  <2> HIDE DEF shifted, t
  <2>2. QED
    BY <1>5, <1>6, <1>7, <2>1
<1>9. shifted = [u \in M |-> shifted[u]]
  <2> HIDE DEF t
  <2>1. QED
    BY <1>4
<1>10. QED
  BY <1>8, <1>9 DEF Hangs

\* The nodes that are in the tree once k of the elements of this making have been put in.
Reached(m, k) == (DOMAIN m.nodes \ m.extra) \cup {m.reorganise[i][1] : i \in 1 .. k}

\* An element is put in where the tree had none of it, and knows its closest ancestor
\* among the nodes that were there by then.
Joins(m, k) ==
    LET u == m.reorganise[k][1] IN
    /\ u \in DOMAIN m.nodes /\ u \notin Reached(m, k - 1) /\ m.nodes[u].b # 1
    /\ m.reorganise[k][2] = TS!Closest(Among(m.nodes, Reached(m, k - 1)), m.nodes[u].b)

Uid == Nat \X Nat
HandedOutOnes == 2 .. Len(Parents)

Growing(m) ==
    /\ m.nodes = [u \in DOMAIN m.nodes |-> m.nodes[u]]
    /\ m.reorganise \in Seq(Uid \X Uid)
    /\ \A i \in 1 .. Len(m.todo) : m.todo[i].b \in HandedOutOnes
    /\ OfTree(m.nodes, DOMAIN m.nodes)
    /\ OfTree(m.nodes, Reached(m, 0)) /\ Hangs(m.nodes, m.parent, Reached(m, 0))
    /\ \A k \in 1 .. Len(m.reorganise) : Joins(m, k)
    /\ Reached(m, Len(m.reorganise)) = DOMAIN m.nodes

MakingGrows == making # TS!Nothing => Growing(making)

TreesAreRight ==
    \A p \in SnapshotPages :
        Hangs(textSnapshot[p].nodes, textSnapshot[p].parent, DOMAIN textSnapshot[p].nodes)
        /\ textSnapshot[p].nodes = [u \in DOMAIN textSnapshot[p].nodes |-> textSnapshot[p].nodes[u]]

HandlesAreElements ==
    \A p \in SnapshotPages : \A i \in 1 .. Len(extraHandles[p]) :
        extraHandles[p][i].b \in HandedOutOnes

TreeInv == MakingGrows /\ TreesAreRight /\ HandlesAreElements

LEMMA Wholly == ASSUME NEW nodes, nodes = [u \in DOMAIN nodes |-> nodes[u]]
                PROVE  Among(nodes, DOMAIN nodes) = nodes
  BY DEF Among

\* The recursion that moves the elements to their places.
LEMMA ReorganisedIs ==
    ASSUME making # TS!Nothing, MakingGrows
    PROVE  TS!reorganised = [n \in 0 .. Len(making.reorganise) |->
              IF n = 0 THEN making.parent
              ELSE TS!moveChildNodes(making.nodes, TS!reorganised[n - 1],
                                     making.reorganise[n][1], making.reorganise[n][2])]
<1> DEFINE r == making.reorganise
           n == Len(r)
           D == DOMAIN making.nodes \cup Uid
           V == UNION {[A -> D] : A \in SUBSET D}
           Next1(k, v) == IF k = 0 THEN making.parent
                          ELSE TS!moveChildNodes(making.nodes, v, r[k][1], r[k][2])
           F == [f \in [0 .. n -> V] |-> [k \in 0 .. n |-> Next1(k, f[k - 1])]]
<1>1. n \in Nat /\ \A k \in 1 .. n : r[k][1] \in D /\ r[k][2] \in D
  BY DEF MakingGrows, Growing
<1>2. making.parent \in V
  <2>1. making.parent \in [Reached(making, 0) -> D]
    <3>1. making.parent = [u \in Reached(making, 0) |-> making.parent[u]]
      BY DEF MakingGrows, Growing, Hangs
    <3>2. ASSUME NEW u \in Reached(making, 0) PROVE making.parent[u] \in D
      <4>1. /\ making.nodes[u].b \in 1 .. Len(Parents) /\ u \in DOMAIN making.nodes
            /\ making.parent[u] = IF TS!Above[making.nodes[u].b] = {} THEN u
                    ELSE TS!Closest(Among(making.nodes, Reached(making, 0)), making.nodes[u].b)
        <5>1. u \in DOMAIN making.nodes
          BY DEF Reached, MakingGrows, Growing
        <5>2. making.nodes[u].b \in 1 .. Len(Parents)
          BY <5>1 DEF MakingGrows, Growing, OfTree
        <5>3. Hangs(making.nodes, making.parent, Reached(making, 0))
          BY DEF MakingGrows, Growing
        <5> HIDE DEF D
        <5>4. QED
          BY <5>1, <5>2, <5>3 DEF Hangs
      <4>2. CASE TS!Above[making.nodes[u].b] = {}
        BY <4>1, <4>2
      <4>3. CASE TS!Above[making.nodes[u].b] # {}
        <5>1. making.nodes[u].b # 1
          BY <4>1, <4>3, AncestorsAreAbove
        <5>2. making.parent[u] \in Reached(making, 0)
          BY <4>1, <4>3, <5>1, ClosestIs DEF MakingGrows, Growing, ClosestOf
        <5>3. Reached(making, 0) \subseteq DOMAIN making.nodes
          BY DEF Reached
        <5>4. QED
          BY <5>2, <5>3
      <4>4. QED
        BY <4>2, <4>3
    <3>3. QED
      BY <3>1, <3>2
  <2>2. Reached(making, 0) \subseteq D
    BY DEF Reached
  <2> HIDE DEF D
  <2>3. QED
    BY <2>1, <2>2
<1>3. ASSUME NEW k \in 1 .. n, NEW v \in V PROVE Next1(k, v) \in V
  <2>1. PICK A \in SUBSET D : v \in [A -> D]
    OBVIOUS
  <2>2. k # 0 /\ r[k][1] \in D /\ r[k][2] \in D
    BY <1>1
  <2> HIDE DEF D, r, n
  <2>3. Next1(k, v) = TS!moveChildNodes(making.nodes, v, r[k][1], r[k][2])
    BY <2>2
  <2>4. TS!moveChildNodes(making.nodes, v, r[k][1], r[k][2]) \in [A \cup {r[k][1]} -> D]
    BY <2>1, <2>2 DEF TS!moveChildNodes
  <2>5. A \cup {r[k][1]} \in SUBSET D
    BY <2>2
  <2>6. QED
    BY <2>3, <2>4, <2>5
<1>4. Next1(0, 0) = making.parent /\ \A v : Next1(0, v) = making.parent
  OBVIOUS
<1> HIDE DEF Next1, V, D
<1>5. ASSUME NEW f \in [0 .. n -> V], NEW k \in 0 .. n PROVE Next1(k, f[k - 1]) \in V
  <2>1. CASE k = 0
    BY <1>2, <1>4, <2>1
  <2>2. CASE k # 0
    <3>1. k \in 1 .. n /\ k - 1 \in 0 .. n
      BY <1>1, <2>2
    <3>2. QED
      BY <1>3, <3>1
  <2>3. QED
    BY <2>1, <2>2
<1>6. F \in [[0 .. n -> V] -> [0 .. n -> V]]
  BY <1>5
<1>7. ASSUME NEW f \in [0 .. n -> V], NEW g \in [0 .. n -> V], NEW m \in 0 .. n,
             \A i \in 0 .. m - 1 : f[i] = g[i]
      PROVE  F[f][m] = F[g][m]
  <2>1. CASE m = 0
    BY <1>4, <2>1
  <2>2. CASE m # 0
    <3>1. m - 1 \in 0 .. m - 1
      BY <1>1, <2>2
    <3>2. f[m - 1] = g[m - 1]
      BY <1>7, <3>1
    <3>3. QED
      BY <3>2
  <2>3. QED
    BY <2>1, <2>2
<1>8. \A f \in [0 .. n -> V] : F[f] = [k \in 0 .. n |-> Next1(k, f[k - 1])]
  OBVIOUS
<1> HIDE DEF F
<1>9. Obeyed(F, 0, n, V)
  <2>1. FromBefore(F, 0, n, V)
    BY <1>1, <1>2, <1>6, <1>7 DEF FromBefore
  <2>2. QED
    BY <2>1, Recursion
<1>10. PICK f \in [0 .. n -> V] : f = F[f]
  BY <1>9 DEF Obeyed
<1>11. f = [k \in 0 .. n |-> Next1(k, f[k - 1])]
  BY <1>8, <1>10
<1>12. \E g : g = [k \in 0 .. Len(making.reorganise) |->
              IF k = 0 THEN making.parent
              ELSE TS!moveChildNodes(making.nodes, g[k - 1],
                                     making.reorganise[k][1], making.reorganise[k][2])]
  BY <1>11 DEF Next1
<1>13. QED
  BY <1>12, Zenon DEF TS!reorganised

LEMMA AllInPlace ==
    ASSUME making # TS!Nothing, MakingGrows
    PROVE  Hangs(making.nodes, TS!reorganised[Len(making.reorganise)], DOMAIN making.nodes)
<1> DEFINE n == Len(making.reorganise)
           nodes == making.nodes
           S == {k \in 0 .. n : /\ Reached(making, k) \subseteq DOMAIN nodes
                                /\ OfTree(nodes, Reached(making, k))
                                /\ Hangs(nodes, TS!reorganised[k], Reached(making, k))}
<1>1. n \in Nat
  BY DEF MakingGrows, Growing
<1>2. TS!reorganised[0] = making.parent /\ \A k \in 1 .. n :
          TS!reorganised[k] = TS!moveChildNodes(nodes, TS!reorganised[k - 1],
                                  making.reorganise[k][1], making.reorganise[k][2])
  BY <1>1, ReorganisedIs
<1>3. 0 \in S
  <2>1. Reached(making, 0) \subseteq DOMAIN nodes
    BY DEF Reached
  <2>2. QED
    BY <1>1, <1>2, <2>1 DEF MakingGrows, Growing
<1>4. ASSUME NEW k \in 0 .. n - 1, k \in S PROVE k + 1 \in S
  <2> DEFINE u == making.reorganise[k + 1][1]
  <2>1. k + 1 \in 1 .. n /\ (k + 1) - 1 = k /\ k \in Nat
    BY <1>1
  <2>2. /\ u \in DOMAIN nodes /\ u \notin Reached(making, k) /\ nodes[u].b # 1
        /\ making.reorganise[k + 1][2] = TS!Closest(Among(nodes, Reached(making, k)), nodes[u].b)
    BY <2>1 DEF MakingGrows, Growing, Joins
  <2>3. Reached(making, k + 1) = Reached(making, k) \cup {u}
    <3>1. \A i : i \in 1 .. k + 1 <=> i \in 1 .. k \/ i = k + 1
      BY <2>1
    <3>2. QED
      BY <3>1 DEF Reached
  <2>4. Reached(making, k) \subseteq DOMAIN nodes /\ OfTree(nodes, Reached(making, k))
        /\ Hangs(nodes, TS!reorganised[k], Reached(making, k))
    BY <1>4
  <2>5. OfTree(nodes, DOMAIN nodes)
    BY DEF MakingGrows, Growing
  <2> HIDE DEF u
  <2>6. OfTree(nodes, Reached(making, k) \cup {u})
    BY <2>2, <2>4, <2>5 DEF OfTree
  <2>7. TS!reorganised[k + 1] =
            TS!moveChildNodes(nodes, TS!reorganised[k], u, making.reorganise[k + 1][2])
    BY <1>2, <2>1 DEF u
  <2> HIDE DEF nodes, S
  <2> DEFINE N == Reached(making, k)
             parent == TS!reorganised[k]
  <2>8. Hangs(nodes, TS!reorganised[k + 1], N \cup {u})
    <3>1. Hangs(nodes, TS!moveChildNodes(nodes, parent, u, TS!Closest(Among(nodes, N), nodes[u].b)),
                N \cup {u})
      <4>1. OfTree(nodes, N) /\ u \notin N /\ OfTree(nodes, N \cup {u}) /\ nodes[u].b # 1
            /\ Hangs(nodes, parent, N)
        BY <2>2, <2>4, <2>6
      <4> HIDE DEF N, parent
      <4>2. QED
        BY <4>1, ElementTakesItsPlace
    <3>2. QED
      BY <2>2, <2>7, <3>1
  <2>9. QED
    <3>1. Reached(making, k + 1) \subseteq DOMAIN nodes
      BY <2>2, <2>3, <2>4
    <3>2. k + 1 \in 0 .. n
      BY <2>1
    <3>3. QED
      BY <2>3, <2>6, <2>8, <3>1, <3>2 DEF S
<1>5. n \in S
  <2> HIDE DEF S, n
  <2>1. \A i \in 0 .. n - 1 : i \in S => i + 1 \in S
    BY <1>4
  <2>2. 0 .. n \subseteq S
    <3>1. 0 \in Int /\ n \in Int
      BY <1>1
    <3>2. QED
      BY <1>3, <2>1, <3>1, Stepwise
  <2>3. QED
    BY <1>1, <2>2
<1>6. QED
  BY <1>5 DEF MakingGrows, Growing

\* What is compared of two makings.
LEMMA GrowingStays ==
    ASSUME NEW m, NEW m2, Growing(m), m2.nodes = m.nodes, m2.reorganise = m.reorganise,
           m2.extra = m.extra, m2.parent = m.parent,
           \A i \in 1 .. Len(m2.todo) : m2.todo[i].b \in HandedOutOnes
    PROVE  Growing(m2)
<1>1. \A k : Reached(m2, k) = Reached(m, k)
  BY DEF Reached
<1>2. \A k : Joins(m, k) => Joins(m2, k)
  BY <1>1 DEF Joins
<1>3. QED
  BY <1>1, <1>2 DEF Growing

LEMMA TreeFirst == TS!Init => TreeInv
<1> SUFFICES ASSUME TS!Init PROVE TreeInv
  OBVIOUS
<1>1. making = TS!Nothing /\ \A p \in SnapshotPages :
          textSnapshot[p] = TS!NoSnapshot /\ extraHandles[p] = <<>>
  BY DEF TS!Init
<1>2. MakingGrows
  BY <1>1 DEF MakingGrows
<1>3. TreesAreRight
  <2>1. /\ TS!NoSnapshot.nodes = <<>> /\ TS!NoSnapshot.parent = <<>> /\ DOMAIN <<>> = {}
        /\ <<>> = [u \in {} |-> <<>>[u]]
    BY DEF TS!NoSnapshot
  <2>2. Hangs(<<>>, <<>>, {})
    BY <2>1 DEF Hangs
  <2>3. QED
    BY <1>1, <2>1, <2>2 DEF TreesAreRight
<1>4. HandlesAreElements
  BY <1>1 DEF HandlesAreElements
<1>5. QED
  BY <1>2, <1>3, <1>4 DEF TreeInv

LEMMA TreeIsStarted ==
    ASSUME SnapshotInv, SnapshotInv', TreeInv, NEW p \in SnapshotPages, NEW tree \in Trees,
           NEW handed \in Seq(Handle), \A i \in 1 .. Len(handed) : handed[i].b \in HandedOutOnes,
           TS!create(p, tree, handed)
    PROVE  TreeInv'
<1> DEFINE d == document[p]
           n == nextSnapshotId
           fresh == {b \in tree : TS!uniqueBackendId(d, b) \notin DOMAIN mcpIds[p]}
           keys == {TS!uniqueBackendId(d, b) : b \in fresh}
           new == [k \in keys |-> <<n, TS!Cardinality({b \in fresh : b < k[3]})>>]
           ids == TS!With(mcpIds[p], new)
           uid1(b) == ids[TS!uniqueBackendId(d, b)]
           nodes == [u \in {uid1(b) : b \in tree} |->
                       [d |-> d, b |-> CHOOSE b \in tree : uid1(b) = u]]
           parent == [u \in DOMAIN nodes |->
                        IF Parents[nodes[u].b] = 0 THEN u ELSE TS!Closest(nodes, nodes[u].b)]
           m == making'
           first(u) == CHOOSE b \in tree : uid1(b) = u
<1>1. /\ making = TS!Nothing
      /\ mcpIds' = [mcpIds EXCEPT ![p] = ids]
      /\ extraHandles' = [extraHandles EXCEPT ![p] = IF handed = <<>> THEN extraHandles[p] ELSE handed]
      /\ UNCHANGED textSnapshot
  BY DEF TS!create
<1>2. making' = [page |-> p, id |-> n, nodes |-> nodes, count |-> TS!Cardinality(fresh),
                 seen |-> {TS!uniqueBackendId(d, b) : b \in tree}, todo |-> extraHandles'[p],
                 extra |-> {}, reorganise |-> <<>>, parent |-> parent]
  BY Zenon DEF TS!create
<1>3. /\ m.page = p /\ m.nodes = nodes /\ m.extra = {} /\ m.reorganise = <<>> /\ m.parent = parent
      /\ m.todo = extraHandles'[p]
  BY <1>2
<1>4. HandlesAreElements'
  <2>1. /\ extraHandles \in [SnapshotPages -> Seq(Handle)]
        /\ \A q \in SnapshotPages : \A i \in 1 .. Len(extraHandles[q]) :
              extraHandles[q][i].b \in HandedOutOnes
    BY DEF SnapshotInv, SnapshotTypes, TreeInv, HandlesAreElements
  <2>2. \A q \in SnapshotPages :
            extraHandles'[q] = extraHandles[q] \/ extraHandles'[q] = handed
    BY <1>1, <2>1
  <2>3. QED
    BY <2>1, <2>2 DEF HandlesAreElements
<1>5. TreesAreRight'
  BY <1>1 DEF TreeInv, TreesAreRight
<1>6. DOMAIN nodes = {uid1(b) : b \in tree}
      /\ \A u \in DOMAIN nodes : nodes[u] = [d |-> d, b |-> first(u)]
  OBVIOUS
<1>19. nodes = [u \in DOMAIN nodes |-> nodes[u]]
  OBVIOUS
<1>7. parent = [u \in DOMAIN nodes |->
                 IF Parents[nodes[u].b] = 0 THEN u ELSE TS!Closest(nodes, nodes[u].b)]
  OBVIOUS
<1>8. tree \subseteq 1 .. Len(Parents) /\ 1 \in tree /\ Len(Parents) \in Nat
      /\ \A b \in 1 .. Len(Parents) : Parents[b] = 0 <=> b = 1
  BY ElementsAreNumbered
<1>9. mcpIds'[p] = ids
  BY <1>1 DEF SnapshotInv, SnapshotTypes
<1> HIDE DEF nodes, parent, fresh, keys, new, ids, d, n
<1>10. \A u \in DOMAIN nodes : \E b \in tree : u = uid1(b)
  BY <1>6
<1>11. \A u \in DOMAIN nodes : nodes[u].d = d /\ nodes[u].b \in tree /\ uid1(nodes[u].b) = u
  <2>1. SUFFICES ASSUME NEW u \in DOMAIN nodes
                 PROVE nodes[u].d = d /\ nodes[u].b \in tree /\ uid1(nodes[u].b) = u
    OBVIOUS
  <2>2. \E b \in tree : uid1(b) = u
    BY <1>10
  <2> HIDE DEF uid1
  <2>3. first(u) \in tree /\ uid1(first(u)) = u
    BY <2>2
  <2> HIDE DEF first
  <2>4. nodes[u] = [d |-> d, b |-> first(u)]
    BY <1>6
  <2>5. nodes[u].d = d /\ nodes[u].b = first(u)
    BY <2>4
  <2>6. QED
    BY <2>3, <2>5
<1>12. \A u \in DOMAIN nodes :
          TS!uniqueBackendId(d, nodes[u].b) \in DOMAIN ids
          /\ ids[TS!uniqueBackendId(d, nodes[u].b)] = u
  <2>1. making' # TS!Nothing
    <3>1. DOMAIN making' # DOMAIN TS!Nothing
      <4>1. "nodes" \in DOMAIN making' /\ "nodes" \notin DOMAIN TS!Nothing
        BY <1>2 DEF TS!Nothing
      <4>2. QED
        BY <4>1
    <3>2. QED
      BY <3>1
  <2>2. Right(ids, named', nodes, {})
    <3>1. Right(mcpIds'[m.page], named', m.nodes, m.extra)
      BY <2>1 DEF SnapshotInv, MakingIsRight
    <3>2. QED
      BY <1>3, <1>9, <3>1
  <2>3. QED
    BY <1>11, <2>2 DEF Right
<1>13. uid1(1) \in DOMAIN nodes
  BY <1>6, <1>8
<1>14. nodes[uid1(1)].b = 1
  <2> DEFINE c == nodes[uid1(1)].b
  <2>1. c \in tree /\ uid1(c) = uid1(1)
    BY <1>11, <1>13
  <2>2. ids[TS!uniqueBackendId(d, c)] = ids[TS!uniqueBackendId(d, 1)]
    BY <2>1
  <2>3. TS!uniqueBackendId(d, c) \in DOMAIN ids
    BY <1>12, <1>13
  <2>4. \A b \in tree : TS!uniqueBackendId(d, b) \in DOMAIN ids
    <3>1. DOMAIN ids = DOMAIN mcpIds[p] \cup DOMAIN new
      BY DEF ids, TS!With
    <3>2. DOMAIN new = {TS!uniqueBackendId(d, b) : b \in fresh}
      BY DEF new, keys
    <3>3. QED
      BY <3>1, <3>2 DEF fresh
  <2>5. \A k, l \in DOMAIN ids : ids[k] = ids[l] => k = l
    <3>1. \A k, l \in DOMAIN mcpIds'[p] : mcpIds'[p][k] = mcpIds'[p][l] => k = l
      BY DEF SnapshotInv, IdsAreUnique
    <3>2. QED
      BY <1>9, <3>1
  <2>6. TS!uniqueBackendId(d, c) = TS!uniqueBackendId(d, 1)
    BY <1>8, <2>2, <2>3, <2>4, <2>5
  <2>7. QED
    BY <2>6, KeysDiffer
<1>15. OfTree(nodes, DOMAIN nodes)
  <2>1. \A u, v \in DOMAIN nodes : nodes[u].b = nodes[v].b => u = v
    BY <1>11
  <2>2. QED
    BY <1>8, <1>11, <1>13, <1>14, <2>1 DEF OfTree
<1>16. Hangs(nodes, parent, DOMAIN nodes)
  <2>1. Among(nodes, DOMAIN nodes) = nodes
    BY <1>19, Wholly
  <2>2. \A u \in DOMAIN nodes : parent[u] = IF TS!Above[nodes[u].b] = {} THEN u
                                ELSE TS!Closest(nodes, nodes[u].b)
    <3>1. SUFFICES ASSUME NEW u \in DOMAIN nodes
                   PROVE  parent[u] = IF TS!Above[nodes[u].b] = {} THEN u
                                      ELSE TS!Closest(nodes, nodes[u].b)
      OBVIOUS
    <3>2. nodes[u].b \in 1 .. Len(Parents)
      BY <1>8, <1>11
    <3>3. TS!Above[nodes[u].b] = {} <=> Parents[nodes[u].b] = 0
      BY <1>8, <3>2, AncestorsAreAbove
    <3>4. QED
      BY <1>7, <3>3
  <2>3. parent = [u \in DOMAIN nodes |-> parent[u]]
    BY <1>7
  <2>4. QED
    BY <2>1, <2>2, <2>3 DEF Hangs
<1>17. Growing(m)
  <2> HIDE DEF m
  <2>1. Reached(m, 0) = DOMAIN nodes
    <3>1. {m.reorganise[i][1] : i \in 1 .. 0} = {} /\ DOMAIN m.nodes \ m.extra = DOMAIN nodes
      BY <1>3
    <3>2. QED
      BY <3>1 DEF Reached
  <2>2. Len(m.reorganise) = 0 /\ m.reorganise \in Seq(Uid \X Uid)
    BY <1>3
  <2>3. \A i \in 1 .. Len(m.todo) : m.todo[i].b \in HandedOutOnes
    BY <1>3, <1>4 DEF HandlesAreElements
  <2>4. \A k \in 1 .. Len(m.reorganise) : Joins(m, k)
    BY <2>2
  <2>5. QED
    BY <1>3, <1>19, <1>15, <1>16, <2>1, <2>2, <2>3, <2>4 DEF Growing
<1>18. QED
  BY <1>4, <1>5, <1>17 DEF TreeInv, MakingGrows

LEMMA NodesAreOnRecord ==
    ASSUME SnapshotInv, making # TS!Nothing
    PROVE  DOMAIN making.nodes \subseteq Uid /\ DOMAIN making.nodes \subseteq DOMAIN named
<1>1. Right(mcpIds[making.page], named, making.nodes, making.extra)
  BY DEF SnapshotInv, MakingIsRight
<1>2. QED
  BY <1>1 DEF Right, SnapshotInv, IdsAreUnique, Uid

\* An element put in is not one of the nodes there are: it has a uid of its own.
LEMMA ElementIsNew ==
    ASSUME SnapshotInv, NEW b, NEW id, Entered(TS!customId(b), id),
           \A u \in DOMAIN making.nodes : making.nodes[u].b # b
    PROVE  id \notin DOMAIN making.nodes
<1> DEFINE key == TS!customId(b)
           p == making.page
<1>1. SUFFICES ASSUME id \in DOMAIN making.nodes PROVE FALSE
  OBVIOUS
<1>2. Right(mcpIds[p], named, making.nodes, making.extra) /\ making # TS!Nothing
  BY DEF SnapshotInv, MakingIsRight, Entered
<1>3. id \in DOMAIN named
  BY <1>1, <1>2 DEF Right
<1>4. key \in DOMAIN mcpIds[p]
  BY <1>3, IdEntered
<1>5. mcpIds[p][key] = id
  BY <1>4 DEF Entered
<1>6. p \in SnapshotPages /\ \A k, l \in DOMAIN mcpIds[p] : mcpIds[p][k] = mcpIds[p][l] => k = l
  BY <1>2 DEF SnapshotInv, IdsAreUnique, MakingIsRight
<1>7. \/ TS!customId(making.nodes[id].b) = key
      \/ TS!uniqueBackendId(making.nodes[id].d, making.nodes[id].b) = key
  BY <1>1, <1>2, <1>4, <1>5, <1>6 DEF Right
<1>8. QED
  BY <1>1, <1>7, KeysDiffer

\* It is put in.
LEMMA TreeGrows ==
    ASSUME NEW m, NEW m2, Growing(m), DOMAIN m.nodes \subseteq Uid,
           NEW id \in Uid, id \notin DOMAIN m.nodes,
           NEW handle, handle.b \in HandedOutOnes, \A u \in DOMAIN m.nodes : m.nodes[u].b # handle.b,
           m2.nodes = TS!With([u \in {id} |-> handle], m.nodes),
           m2.extra = m.extra \cup {id}, m2.parent = m.parent,
           m2.reorganise = Append(m.reorganise, <<id, TS!Closest(m.nodes, handle.b)>>),
           \A i \in 1 .. Len(m2.todo) : m2.todo[i].b \in HandedOutOnes
    PROVE  Growing(m2)
<1> DEFINE nodes == m2.nodes
           r == m.reorganise
           n == Len(r)
           t == TS!Closest(m.nodes, handle.b)
<1>1. /\ DOMAIN nodes = DOMAIN m.nodes \cup {id} /\ nodes[id] = handle
      /\ \A u \in DOMAIN m.nodes : nodes[u] = m.nodes[u]
      /\ nodes = [u \in DOMAIN nodes |-> nodes[u]]
  <2> DEFINE one == [u \in {id} |-> handle]
  <2>1. nodes = [u \in DOMAIN one \cup DOMAIN m.nodes |-> IF u \in DOMAIN one THEN one[u] ELSE m.nodes[u]]
    BY DEF TS!With
  <2>2. DOMAIN one = {id} /\ one[id] = handle
    OBVIOUS
  <2> HIDE DEF one, nodes
  <2>3. QED
    BY <2>1, <2>2
<1>2. n \in Nat /\ r \in Seq(Uid \X Uid) /\ Len(Parents) \in Nat
      /\ handle.b \in 1 .. Len(Parents) /\ handle.b # 1
  BY ElementsAreNumbered DEF Growing, HandedOutOnes
<1>3. ClosestOf(m.nodes, DOMAIN m.nodes, handle.b, t)
  <2>1. Among(m.nodes, DOMAIN m.nodes) = m.nodes /\ OfTree(m.nodes, DOMAIN m.nodes)
    BY DEF Growing, Among
  <2>2. ClosestOf(m.nodes, DOMAIN m.nodes, handle.b, TS!Closest(Among(m.nodes, DOMAIN m.nodes), handle.b))
    BY <1>2, <2>1, ClosestIs
  <2>3. QED
    BY <2>1, <2>2
<1>4. t \in DOMAIN m.nodes
  BY <1>3 DEF ClosestOf
<1> HIDE DEF t
<1>5. /\ m2.reorganise \in Seq(Uid \X Uid) /\ Len(m2.reorganise) = n + 1
      /\ \A k \in 1 .. n : m2.reorganise[k] = r[k]
      /\ m2.reorganise[n + 1] = <<id, t>>
  BY <1>2, <1>4 DEF t
<1>6. \A k \in 0 .. n : Reached(m, k) \subseteq DOMAIN m.nodes
  BY <1>2 DEF Growing, Joins, Reached
<1>7. \A k \in 0 .. n : Reached(m2, k) = Reached(m, k)
  <2>1. DOMAIN nodes \ m2.extra = DOMAIN m.nodes \ m.extra
    BY <1>1
  <2>2. \A k \in 0 .. n : {m2.reorganise[i][1] : i \in 1 .. k} = {r[i][1] : i \in 1 .. k}
    <3>1. SUFFICES ASSUME NEW k \in 0 .. n
                   PROVE {m2.reorganise[i][1] : i \in 1 .. k} = {r[i][1] : i \in 1 .. k}
      OBVIOUS
    <3>2. \A i \in 1 .. k : m2.reorganise[i] = r[i]
      BY <1>2, <1>5
    <3>3. QED
      BY <3>2
  <2>3. QED
    BY <2>1, <2>2 DEF Reached
<1>8. Reached(m2, n + 1) = DOMAIN nodes /\ Reached(m2, n) = DOMAIN m.nodes
  <2>1. Reached(m, n) = DOMAIN m.nodes
    BY DEF Growing
  <2>2. Reached(m2, n) = DOMAIN m.nodes
    BY <1>2, <1>7, <2>1
  <2>3. Reached(m2, n + 1) = Reached(m2, n) \cup {m2.reorganise[n + 1][1]}
    <3>1. \A i : i \in 1 .. n + 1 <=> i \in 1 .. n \/ i = n + 1
      BY <1>2
    <3>2. QED
      BY <3>1 DEF Reached
  <2>4. m2.reorganise[n + 1][1] = id
    BY <1>5
  <2>5. QED
    BY <1>1, <2>2, <2>3, <2>4
<1>9. \A N \in SUBSET DOMAIN m.nodes : Among(nodes, N) = Among(m.nodes, N)
      /\ (OfTree(m.nodes, N) => OfTree(nodes, N))
  <2>1. SUFFICES ASSUME NEW N \in SUBSET DOMAIN m.nodes
                 PROVE Among(nodes, N) = Among(m.nodes, N) /\ (OfTree(m.nodes, N) => OfTree(nodes, N))
    OBVIOUS
  <2>2. \A u \in N : nodes[u] = m.nodes[u]
    BY <1>1
  <2>3. QED
    BY <2>2 DEF Among, OfTree
<1>10. OfTree(nodes, DOMAIN nodes)
  <2>1. OfTree(m.nodes, DOMAIN m.nodes)
    BY DEF Growing
  <2>2. QED
    BY <1>1, <1>2, <2>1 DEF OfTree
<1>11. OfTree(nodes, Reached(m2, 0)) /\ Hangs(nodes, m2.parent, Reached(m2, 0))
  <2>1. Reached(m2, 0) = Reached(m, 0) /\ Reached(m, 0) \in SUBSET DOMAIN m.nodes
    BY <1>2, <1>6, <1>7
  <2>2. OfTree(m.nodes, Reached(m, 0)) /\ Hangs(m.nodes, m.parent, Reached(m, 0))
    BY DEF Growing
  <2>3. OfTree(nodes, Reached(m, 0)) /\ Among(nodes, Reached(m, 0)) = Among(m.nodes, Reached(m, 0))
    BY <1>9, <2>1, <2>2
  <2>4. \A u \in Reached(m, 0) : nodes[u] = m.nodes[u]
    BY <1>1, <2>1
  <2>5. Hangs(nodes, m.parent, Reached(m, 0))
    BY <2>2, <2>3, <2>4 DEF Hangs
  <2>6. QED
    BY <2>1, <2>3, <2>5
<1>12. ASSUME NEW k \in 1 .. n + 1 PROVE Joins(m2, k)
  <2>1. CASE k \in 1 .. n
    <3>1. k - 1 \in 0 .. n /\ m2.reorganise[k] = r[k]
      BY <1>2, <1>5, <2>1
    <3>2. Joins(m, k)
      BY <2>1 DEF Growing
    <3>3. r[k][1] \in DOMAIN m.nodes /\ nodes[r[k][1]] = m.nodes[r[k][1]]
      BY <1>1, <3>2 DEF Joins
    <3>4. Reached(m2, k - 1) = Reached(m, k - 1) /\ Reached(m, k - 1) \in SUBSET DOMAIN m.nodes
      BY <1>6, <1>7, <3>1
    <3>5. Among(nodes, Reached(m2, k - 1)) = Among(m.nodes, Reached(m, k - 1))
      BY <1>9, <3>4
    <3>6. QED
      BY <1>1, <3>1, <3>2, <3>3, <3>4, <3>5 DEF Joins
  <2>2. CASE k = n + 1
    <3>1. k - 1 = n /\ m2.reorganise[k][1] = id /\ m2.reorganise[k][2] = t
      BY <1>2, <1>5, <2>2
    <3>2. Reached(m2, k - 1) = DOMAIN m.nodes
      BY <1>8, <3>1
    <3>3. Among(nodes, DOMAIN m.nodes) = m.nodes
      BY <1>9 DEF Growing, Among
    <3>4. m2.reorganise[k][2] = TS!Closest(Among(m2.nodes, Reached(m2, k - 1)), m2.nodes[id].b)
      BY <1>1, <3>1, <3>2, <3>3 DEF t
    <3>5. QED
      BY <1>1, <1>2, <3>1, <3>2, <3>4 DEF Joins
  <2>3. QED
    BY <1>2, <2>1, <2>2
<1>13. QED
  BY <1>1, <1>5, <1>8, <1>10, <1>11, <1>12 DEF Growing

\* The next of the elements handed out.
LEMMA ElementIntoTree ==
    ASSUME SnapshotInv, TreeInv, TS!createExtraNode
    PROVE  TreeInv'
<1> DEFINE p == making.page
           handle == Head(making.todo)
           key == TS!customId(handle.b)
           id == IF key \in DOMAIN mcpIds[p] THEN mcpIds[p][key] ELSE <<making.id, making.count>>
<1>1. making # TS!Nothing /\ making.todo # <<>>
      /\ UNCHANGED <<document, extraHandles, textSnapshot, nextSnapshotId>>
  BY DEF TS!createExtraNode
<1>2. TreesAreRight' /\ HandlesAreElements'
  BY <1>1 DEF TreeInv, TreesAreRight, HandlesAreElements
<1>3. /\ making.todo \in Seq(Handle) /\ Growing(making)
      /\ making = [page |-> making.page, id |-> making.id, nodes |-> making.nodes,
                   count |-> making.count, seen |-> making.seen, todo |-> making.todo,
                   extra |-> making.extra, reorganise |-> making.reorganise,
                   parent |-> making.parent]
  BY <1>1 DEF SnapshotInv, MakingIsRight, TreeInv, MakingGrows
<1>4. handle.b \in HandedOutOnes
      /\ \A i \in 1 .. Len(Tail(making.todo)) : Tail(making.todo)[i].b \in HandedOutOnes
  BY <1>1, <1>3 DEF Growing
<1>5. CASE making' = [making EXCEPT !.todo = Tail(making.todo)]
  <2>1. /\ making'.nodes = making.nodes /\ making'.reorganise = making.reorganise
        /\ making'.extra = making.extra /\ making'.parent = making.parent
        /\ making'.todo = Tail(making.todo)
    BY <1>3, <1>5
  <2>2. Growing(making')
    <3> DEFINE m == making
               m2 == making'
    <3>1. \A i \in 1 .. Len(m2.todo) : m2.todo[i].b \in HandedOutOnes
      BY <1>4, <2>1
    <3>2. Growing(m) /\ m2.nodes = m.nodes /\ m2.reorganise = m.reorganise
          /\ m2.extra = m.extra /\ m2.parent = m.parent
      BY <1>3, <2>1
    <3> HIDE DEF m, m2
    <3>3. Growing(m2)
      BY <3>1, <3>2, GrowingStays
    <3>4. QED
      BY <3>3 DEF m2
  <2>3. QED
    BY <1>2, <2>2 DEF TreeInv, MakingGrows
<1>6. CASE making' = TS!Nothing
  BY <1>2, <1>6 DEF TreeInv, MakingGrows
<1>7. CASE /\ \A u \in DOMAIN making.nodes : making.nodes[u].b # handle.b
           /\ mcpIds' = [mcpIds EXCEPT ![p] = TS!With(mcpIds[p], [k \in {key} |-> id])]
           /\ making' = [making EXCEPT
                            !.todo = Tail(making.todo),
                            !.nodes = TS!With([u \in {id} |-> handle], making.nodes),
                            !.seen = making.seen \cup {key}, !.extra = making.extra \cup {id},
                            !.count = IF key \in DOMAIN mcpIds[p] THEN making.count ELSE making.count + 1,
                            !.reorganise = Append(making.reorganise, <<id, TS!attachTarget(handle.b)>>)]
  <2>1. Entered(key, id)
    BY <1>1, <1>7 DEF Entered
  <2>2. id \notin DOMAIN making.nodes
    <3> HIDE DEF id, handle
    <3>1. QED
      BY <1>7, <2>1, ElementIsNew
  <2>3. id \in Uid
    <3> HIDE DEF id, key
    <3>1. QED
      BY <2>1, IdEntered DEF Uid
  <2>4. DOMAIN making.nodes \subseteq Uid
    BY <1>1, NodesAreOnRecord
  <2>5. TS!attachTarget(handle.b) = TS!Closest(making.nodes, handle.b)
    BY DEF TS!attachTarget
  <2> HIDE DEF id, handle, key
  <2>6. /\ making'.nodes = TS!With([u \in {id} |-> handle], making.nodes)
        /\ making'.extra = making.extra \cup {id} /\ making'.parent = making.parent
        /\ making'.reorganise = Append(making.reorganise, <<id, TS!Closest(making.nodes, handle.b)>>)
        /\ making'.todo = Tail(making.todo)
    BY <1>3, <1>7, <2>5
  <2>7. Growing(making')
    <3> DEFINE m == making
               m2 == making'
    <3>1. /\ m2.nodes = TS!With([u \in {id} |-> handle], m.nodes)
          /\ m2.extra = m.extra \cup {id} /\ m2.parent = m.parent
          /\ m2.reorganise = Append(m.reorganise, <<id, TS!Closest(m.nodes, handle.b)>>)
          /\ \A i \in 1 .. Len(m2.todo) : m2.todo[i].b \in HandedOutOnes
      BY <1>4, <2>6
    <3>2. /\ Growing(m) /\ DOMAIN m.nodes \subseteq Uid /\ id \in Uid /\ id \notin DOMAIN m.nodes
          /\ handle.b \in HandedOutOnes /\ \A u \in DOMAIN m.nodes : m.nodes[u].b # handle.b
      BY <1>3, <1>4, <1>7, <2>2, <2>3, <2>4
    <3> HIDE DEF m, m2
    <3>3. Growing(m2)
      BY <3>1, <3>2, TreeGrows
    <3>4. QED
      BY <3>3 DEF m2
  <2>8. QED
    BY <1>2, <2>7 DEF TreeInv, MakingGrows
<1>8. QED
  BY <1>5, <1>6, <1>7 DEF TS!createExtraNode

\* The snapshot is made.
LEMMA TreeIsMade ==
    ASSUME SnapshotInv, TreeInv, TS!createEnds
    PROVE  TreeInv'
<1> DEFINE p == making.page
           end == TS!reorganised[Len(making.reorganise)]
<1>1. /\ making # TS!Nothing /\ making' = TS!Nothing /\ UNCHANGED extraHandles
      /\ textSnapshot' = [textSnapshot EXCEPT ![p] =
              [nodes |-> making.nodes, parent |-> end, extra |-> making.extra]]
  BY DEF TS!createEnds
<1>2. MakingGrows' /\ HandlesAreElements'
  BY <1>1 DEF TreeInv, MakingGrows, HandlesAreElements
<1>3. Growing(making) /\ Hangs(making.nodes, end, DOMAIN making.nodes)
  BY <1>1, AllInPlace DEF TreeInv, MakingGrows
<1>4. textSnapshot = [q \in SnapshotPages |-> textSnapshot[q]] /\ p \in SnapshotPages
  BY <1>1 DEF SnapshotInv, SnapshotTypes, MakingIsRight
<1> HIDE DEF p, end
<1>5. textSnapshot'[p] = [nodes |-> making.nodes, parent |-> end, extra |-> making.extra]
      /\ \A q \in SnapshotPages \ {p} : textSnapshot'[q] = textSnapshot[q]
  BY <1>1, <1>4
<1>6. textSnapshot'[p].nodes = making.nodes /\ textSnapshot'[p].parent = end
  BY <1>5
<1>7. making.nodes = [u \in DOMAIN making.nodes |-> making.nodes[u]]
  BY <1>3 DEF Growing
<1>8. TreesAreRight'
  BY <1>3, <1>5, <1>6, <1>7 DEF TreeInv, TreesAreRight
<1>9. QED
  BY <1>2, <1>8 DEF TreeInv

LEMMA TreeStep == SnapshotInv /\ SnapshotInv' /\ TreeInv /\ [TS!Next]_(TS!snapshotVars) => TreeInv'
<1> SUFFICES ASSUME SnapshotInv, SnapshotInv', TreeInv, [TS!Next]_(TS!snapshotVars) PROVE TreeInv'
  OBVIOUS
<1>1. CASE UNCHANGED TS!snapshotVars
  BY <1>1 DEF TS!snapshotVars, TreeInv, MakingGrows, TreesAreRight, HandlesAreElements
<1>2. ASSUME NEW p \in SnapshotPages, TS!Navigate(p) PROVE TreeInv'
  BY <1>2 DEF TS!Navigate, TreeInv, MakingGrows, TreesAreRight, HandlesAreElements
<1>3. ASSUME NEW p \in SnapshotPages, TS!createFails(p) PROVE TreeInv'
  <2> DEFINE lost == [i \in DOMAIN extraHandles[p] |-> [extraHandles[p][i] EXCEPT !.d = 0]]
  <2>1. extraHandles' = [extraHandles EXCEPT ![p] = lost] /\ UNCHANGED <<textSnapshot, making>>
    BY <1>3 DEF TS!createFails
  <2>2. extraHandles \in [SnapshotPages -> Seq(Handle)] /\ extraHandles[p] \in Seq(Handle)
    BY DEF SnapshotInv, SnapshotTypes
  <2>3. Len(lost) = Len(extraHandles[p])
        /\ \A i \in 1 .. Len(extraHandles[p]) : lost[i].b = extraHandles[p][i].b
    <3>1. DOMAIN lost = 1 .. Len(extraHandles[p]) /\ Len(extraHandles[p]) \in Nat
      BY <2>2
    <3>2. Len(lost) = Len(extraHandles[p])
      BY <3>1
    <3>3. \A h \in Handle : [h EXCEPT !.d = 0].b = h.b
      BY DEF Handle
    <3>4. \A i \in 1 .. Len(extraHandles[p]) : extraHandles[p][i] \in Handle
      BY <2>2
    <3>5. QED
      BY <3>1, <3>2, <3>3, <3>4
  <2> HIDE DEF lost
  <2>4. HandlesAreElements'
    BY <2>1, <2>2, <2>3 DEF TreeInv, HandlesAreElements
  <2>5. QED
    BY <2>1, <2>4 DEF TreeInv, MakingGrows, TreesAreRight
<1>4. ASSUME NEW p \in SnapshotPages, TS!handleSnapshot(p) PROVE TreeInv'
  <2>1. PICK tree \in Trees : TS!create(p, tree, <<>>)
    BY <1>4 DEF TS!handleSnapshot
  <2>2. <<>> \in Seq(Handle) /\ \A i \in 1 .. Len(<<>>) : <<>>[i].b \in HandedOutOnes
    OBVIOUS
  <2>3. QED
    BY <2>1, <2>2, TreeIsStarted
<1>5. ASSUME NEW p \in SnapshotPages, TS!executeThirdPartyDeveloperTool(p) PROVE TreeInv'
  <2>1. PICK tree \in Trees, elements \in TS!BoundedSeq(TS!BackendIds \ {1}, 2) :
            TS!create(p, tree, [i \in DOMAIN elements |-> [d |-> document[p], b |-> elements[i]]])
    BY <1>5 DEF TS!executeThirdPartyDeveloperTool
  <2> DEFINE handed == [i \in DOMAIN elements |-> [d |-> document[p], b |-> elements[i]]]
  <2>2. handed \in Seq(Handle)
    BY HandedOut
  <2>3. \A i \in 1 .. Len(handed) : handed[i].b \in HandedOutOnes
    <3>1. PICK m \in 0 .. 2 : elements \in [1 .. m -> TS!BackendIds \ {1}]
      BY DEF TS!BoundedSeq, TS!SeqOf
    <3>2. DOMAIN elements = 1 .. m /\ Len(handed) = m
      BY <3>1
    <3>3. \A i \in 1 .. m : elements[i] \in HandedOutOnes
      <4>1. Len(Parents) \in Nat
        BY ElementsAreNumbered
      <4>2. TS!BackendIds \ {1} = HandedOutOnes
        BY <4>1 DEF TS!BackendIds, HandedOutOnes
      <4>3. QED
        BY <3>1, <4>2
    <3>4. QED
      BY <3>2, <3>3
  <2>4. TS!create(p, tree, handed)
    BY <2>1
  <2> HIDE DEF handed
  <2>5. QED
    BY <2>2, <2>3, <2>4, TreeIsStarted
<1>6. QED
  BY <1>1, <1>2, <1>3, <1>4, <1>5, ElementIntoTree, TreeIsMade DEF TS!Next

LEMMA TreeKept == TreeInv => TS!TreeIsTheDocuments
<1> SUFFICES ASSUME TreeInv, NEW p \in SnapshotPages, NEW u \in DOMAIN textSnapshot[p].nodes
             PROVE  textSnapshot[p].parent[u] =
                      IF TS!Above[textSnapshot[p].nodes[u].b] = {} THEN u
                      ELSE TS!Closest(textSnapshot[p].nodes, textSnapshot[p].nodes[u].b)
  BY DEF TS!TreeIsTheDocuments
<1>1. /\ Hangs(textSnapshot[p].nodes, textSnapshot[p].parent, DOMAIN textSnapshot[p].nodes)
      /\ textSnapshot[p].nodes = [v \in DOMAIN textSnapshot[p].nodes |-> textSnapshot[p].nodes[v]]
  BY DEF TreeInv, TreesAreRight
<1>2. Among(textSnapshot[p].nodes, DOMAIN textSnapshot[p].nodes) = textSnapshot[p].nodes
  BY <1>1, Wholly
<1>3. QED
  BY <1>1, <1>2 DEF Hangs

-----------------------------------------------------------------------------
(* Listings *)

\* The next item joins the last line, or is a line of its own.
Put(L, i, joins) ==
    IF joins THEN [L EXCEPT ![Len(L)] = L[Len(L)] \cup {i}] ELSE Append(L, {i})

JoinsLast(L, i) == list = "console" /\ L # <<>> /\ \E j \in L[Len(L)] : LI!alike(j, i)

\* The lines of the first n items: what was asked for of them, in order.
Rows(L, n) ==
    /\ L \in Seq(SUBSET (1 .. n)) /\ Len(L) <= n
    /\ \A l \in 1 .. Len(L) : L[l] # {}
    /\ \A l, m \in 1 .. Len(L) : l < m => \A i \in L[l], j \in L[m] : i < j

LEMMA GroupedIs == \A L, i : LI!groupConsecutive(L, i) = Put(L, i, JoinsLast(L, i))
  BY DEF LI!groupConsecutive, Put, JoinsLast

LEMMA PutInSeq ==
    ASSUME NEW L \in Seq(SUBSET Nat), NEW i \in Nat, NEW joins \in BOOLEAN, joins => L # <<>>
    PROVE  Put(L, i, joins) \in Seq(SUBSET Nat)
<1>1. CASE joins
  <2>1. Len(L) \in Nat /\ Len(L) \in 1 .. Len(L) /\ L \in [1 .. Len(L) -> SUBSET Nat]
    BY <1>1
  <2>2. [L EXCEPT ![Len(L)] = L[Len(L)] \cup {i}] \in [1 .. Len(L) -> SUBSET Nat]
    BY <2>1
  <2>3. QED
    BY <1>1, <2>1, <2>2 DEF Put
<1>2. CASE ~joins
  BY <1>2 DEF Put
<1>3. QED
  BY <1>1, <1>2

\* The recursion that groups what was collected.
LEMMA LinesAre ==
    log \in Seq(Kinds) =>
        LI!linesUpTo = [n \in 0 .. Len(log) |->
            IF n = 0 THEN <<>>
            ELSE IF LI!wanted(n) THEN LI!groupConsecutive(LI!linesUpTo[n - 1], n)
            ELSE LI!linesUpTo[n - 1]]
<1> SUFFICES ASSUME log \in Seq(Kinds)
             PROVE  LI!linesUpTo = [n \in 0 .. Len(log) |->
                        IF n = 0 THEN <<>>
                        ELSE IF LI!wanted(n) THEN LI!groupConsecutive(LI!linesUpTo[n - 1], n)
                        ELSE LI!linesUpTo[n - 1]]
  OBVIOUS
<1> DEFINE n == Len(log)
           V == Seq(SUBSET Nat)
           Next1(k, v) == IF k = 0 THEN <<>>
                          ELSE IF LI!wanted(k) THEN LI!groupConsecutive(v, k) ELSE v
           F == [f \in [0 .. n -> V] |-> [k \in 0 .. n |-> Next1(k, f[k - 1])]]
<1>1. n \in Nat /\ V # {} /\ <<>> \in V
  BY Len(log) \in Nat, <<>> \in V
<1>2. ASSUME NEW k \in 1 .. n, NEW v \in V PROVE Next1(k, v) \in V
  <2>1. LI!groupConsecutive(v, k) = Put(v, k, JoinsLast(v, k))
    BY GroupedIs
  <2>2. JoinsLast(v, k) \in BOOLEAN /\ (JoinsLast(v, k) => v # <<>>)
    BY DEF JoinsLast
  <2>3. k \in Nat /\ k # 0
    BY <1>1
  <2> HIDE DEF n
  <2>4. Put(v, k, JoinsLast(v, k)) \in V
    BY <2>2, <2>3, PutInSeq
  <2>5. QED
    BY <2>1, <2>3, <2>4
<1>3. \A v : Next1(0, v) = <<>>
  OBVIOUS
<1> HIDE DEF Next1, V, n
<1>4. ASSUME NEW f \in [0 .. n -> V], NEW k \in 0 .. n PROVE Next1(k, f[k - 1]) \in V
  <2>1. CASE k = 0
    BY <1>1, <1>3, <2>1
  <2>2. CASE k # 0
    <3>1. k \in 1 .. n /\ k - 1 \in 0 .. n
      BY <1>1, <2>2
    <3>2. QED
      BY <1>2, <3>1
  <2>3. QED
    BY <2>1, <2>2
<1>5. F \in [[0 .. n -> V] -> [0 .. n -> V]]
  BY <1>4
<1>6. ASSUME NEW f \in [0 .. n -> V], NEW g \in [0 .. n -> V], NEW m \in 0 .. n,
             \A i \in 0 .. m - 1 : f[i] = g[i]
      PROVE  F[f][m] = F[g][m]
  <2>1. CASE m = 0
    BY <1>3, <2>1
  <2>2. CASE m # 0
    <3>1. m - 1 \in 0 .. m - 1
      BY <1>1, <2>2
    <3>2. f[m - 1] = g[m - 1]
      BY <1>6, <3>1
    <3>3. QED
      BY <3>2
  <2>3. QED
    BY <2>1, <2>2
<1>7. \A f \in [0 .. n -> V] : F[f] = [k \in 0 .. n |-> Next1(k, f[k - 1])]
  OBVIOUS
<1> HIDE DEF F
<1>8. Obeyed(F, 0, n, V)
  <2>1. FromBefore(F, 0, n, V)
    <3>1. \A f, g \in [0 .. n -> V], m \in 0 .. n :
              (\A i \in 0 .. m - 1 : f[i] = g[i]) => F[f][m] = F[g][m]
      BY <1>6
    <3>2. 0 \in Int /\ n \in Int /\ V # {}
      BY <1>1
    <3>3. QED
      BY <1>5, <3>1, <3>2 DEF FromBefore
  <2>2. QED
    BY <2>1, Recursion
<1>9. PICK f \in [0 .. n -> V] : f = F[f]
  BY <1>8 DEF Obeyed
<1>10. f = [k \in 0 .. n |-> Next1(k, f[k - 1])]
  BY <1>7, <1>9
<1>11. \E g : g = [k \in 0 .. Len(log) |->
            IF k = 0 THEN <<>>
            ELSE IF LI!wanted(k) THEN LI!groupConsecutive(g[k - 1], k) ELSE g[k - 1]]
  BY <1>10 DEF Next1, n
<1>12. QED
  BY <1>11, Zenon DEF LI!linesUpTo

LEMMA LinesGo ==
    log \in Seq(Kinds) =>
        /\ LI!linesUpTo[0] = <<>>
        /\ \A n \in 1 .. Len(log) :
              LI!linesUpTo[n] = IF LI!wanted(n)
                                THEN Put(LI!linesUpTo[n - 1], n, JoinsLast(LI!linesUpTo[n - 1], n))
                                ELSE LI!linesUpTo[n - 1]
<1> SUFFICES ASSUME log \in Seq(Kinds)
             PROVE  /\ LI!linesUpTo[0] = <<>>
                    /\ \A n \in 1 .. Len(log) :
                          LI!linesUpTo[n] = IF LI!wanted(n)
                                THEN Put(LI!linesUpTo[n - 1], n, JoinsLast(LI!linesUpTo[n - 1], n))
                                ELSE LI!linesUpTo[n - 1]
  OBVIOUS
<1>1. Len(log) \in Nat
  OBVIOUS
<1>2. LI!linesUpTo = [n \in 0 .. Len(log) |->
            IF n = 0 THEN <<>>
            ELSE IF LI!wanted(n) THEN LI!groupConsecutive(LI!linesUpTo[n - 1], n)
            ELSE LI!linesUpTo[n - 1]]
  BY LinesAre
<1>3. ASSUME NEW n \in 1 .. Len(log)
      PROVE  LI!linesUpTo[n] = IF LI!wanted(n) THEN LI!groupConsecutive(LI!linesUpTo[n - 1], n)
                               ELSE LI!linesUpTo[n - 1]
  <2>1. n \in 0 .. Len(log) /\ n # 0
    BY <1>1
  <2>2. QED
    BY <1>2, <2>1
<1>4. 0 \in 0 .. Len(log)
  BY <1>1
<1>5. QED
  BY <1>2, <1>3, <1>4, GroupedIs

LEMMA LinesGoOn ==
    log' \in Seq(Kinds) =>
        /\ LI!linesUpTo'[0] = <<>>
        /\ \A n \in 1 .. Len(log') :
              LI!linesUpTo'[n] = IF LI!wanted(n)'
                                THEN Put(LI!linesUpTo'[n - 1], n, JoinsLast(LI!linesUpTo[n - 1], n)')
                                ELSE LI!linesUpTo'[n - 1]
<1>1. (log \in Seq(Kinds))' =>
        (/\ LI!linesUpTo[0] = <<>>
         /\ \A n \in 1 .. Len(log) :
              LI!linesUpTo[n] = IF LI!wanted(n)
                                THEN Put(LI!linesUpTo[n - 1], n, JoinsLast(LI!linesUpTo[n - 1], n))
                                ELSE LI!linesUpTo[n - 1])'
  BY LinesGo, PTL
<1>2. QED
  BY <1>1

\* They are what was asked for of the first n.
AreShown(L, n) == \A i : (\E l \in 1 .. Len(L) : i \in L[l]) <=> i \in 1 .. n /\ LI!wanted(i)

\* M is L with more in its last line or behind it.
GoesOn(L, M) == Len(L) <= Len(M) /\ \A l \in 1 .. Len(L) - 1 : M[l] = L[l]

LEMMA PutKeepsRows ==
    ASSUME NEW n \in Nat, n # 0, NEW L, Rows(L, n - 1), NEW joins \in BOOLEAN, joins => L # <<>>
    PROVE  LET P == Put(L, n, joins) IN
           /\ Rows(P, n) /\ GoesOn(L, P)
           /\ \A i : (\E l \in 1 .. Len(P) : i \in P[l]) <=> i = n \/ \E l \in 1 .. Len(L) : i \in L[l]
<1> DEFINE P == Put(L, n, joins)
<1>1. /\ L \in Seq(SUBSET (1 .. n - 1)) /\ Len(L) <= n - 1 /\ Len(L) \in Nat
      /\ \A l \in 1 .. Len(L) : L[l] # {} /\ L[l] \subseteq 1 .. n - 1
      /\ \A l, m \in 1 .. Len(L) : l < m => \A i \in L[l], j \in L[m] : i < j
  BY DEF Rows
<1>2. \A l \in 1 .. Len(L) : \A i \in L[l] : i < n /\ i \in 1 .. n
  BY <1>1
<1>3. CASE joins
  <2>1. Len(L) \in 1 .. Len(L)
    BY <1>1, <1>3
  <2>2. /\ Len(P) = Len(L) /\ P[Len(L)] = L[Len(L)] \cup {n}
        /\ \A l \in 1 .. Len(L) - 1 : P[l] = L[l]
        /\ P \in [1 .. Len(L) -> SUBSET (1 .. n)]
    <3>1. P = [L EXCEPT ![Len(L)] = L[Len(L)] \cup {n}]
      BY <1>3 DEF Put
    <3>2. L \in [1 .. Len(L) -> SUBSET (1 .. n)]
      BY <1>1, <1>2
    <3>3. L[Len(L)] \cup {n} \in SUBSET (1 .. n)
      BY <1>2, <2>1
    <3> HIDE DEF P
    <3>4. P \in [1 .. Len(L) -> SUBSET (1 .. n)]
      BY <2>1, <3>1, <3>2, <3>3
    <3>5. Len(P) = Len(L)
      BY <1>1, <3>4
    <3>6. P[Len(L)] = L[Len(L)] \cup {n}
      BY <2>1, <3>1, <3>2
    <3>7. ASSUME NEW l \in 1 .. Len(L) - 1 PROVE P[l] = L[l]
      <4>1. l \in 1 .. Len(L) /\ l # Len(L)
        BY <1>1
      <4>2. QED
        BY <3>1, <3>2, <4>1
    <3>8. QED
      BY <3>4, <3>5, <3>6, <3>7
  <2> HIDE DEF P
  <2>3. P \in Seq(SUBSET (1 .. n))
    BY <1>1, <2>2
  <2>4. \A l \in 1 .. Len(P) : P[l] # {}
    BY <1>1, <2>1, <2>2
  <2>5. ASSUME NEW l \in 1 .. Len(P), NEW m \in 1 .. Len(P), l < m, NEW i \in P[l], NEW j \in P[m]
        PROVE  i < j
    <3>1. l \in 1 .. Len(L) - 1 /\ i \in L[l] /\ l \in 1 .. Len(L) /\ m \in 1 .. Len(L)
      BY <1>1, <2>2, <2>5
    <3>2. j = n \/ j \in L[m]
      <4>1. CASE m = Len(L)
        BY <2>2, <4>1
      <4>2. CASE m # Len(L)
        <5>1. m \in 1 .. Len(L) - 1
          BY <1>1, <3>1, <4>2
        <5>2. QED
          BY <2>2, <5>1
      <4>3. QED
        BY <4>1, <4>2
    <3>3. CASE j = n
      BY <1>2, <3>1, <3>3
    <3>4. CASE j \in L[m]
      BY <1>1, <2>5, <3>1, <3>4
    <3>5. QED
      BY <3>2, <3>3, <3>4
  <2>6. \A l \in 1 .. Len(L) : l = Len(L) \/ l \in 1 .. Len(L) - 1
    BY <1>1
  <2>7. \A i : (\E l \in 1 .. Len(P) : i \in P[l]) <=> i = n \/ \E l \in 1 .. Len(L) : i \in L[l]
    BY <1>1, <2>1, <2>2, <2>6
  <2>8. Rows(P, n) /\ GoesOn(L, P)
    BY <1>1, <2>2, <2>3, <2>4, <2>5 DEF Rows, GoesOn
  <2>9. QED
    BY <2>7, <2>8 DEF P
<1>4. CASE ~joins
  <2>1. P = Append(L, {n})
    BY <1>4 DEF Put
  <2> HIDE DEF P
  <2>2. /\ P \in Seq(SUBSET (1 .. n)) /\ Len(P) = Len(L) + 1 /\ P[Len(L) + 1] = {n}
        /\ \A l \in 1 .. Len(L) : P[l] = L[l]
    <3>1. L \in Seq(SUBSET (1 .. n)) /\ {n} \in SUBSET (1 .. n)
      BY <1>1, <1>2
    <3>2. QED
      BY <1>1, <2>1, <3>1
  <2>3. \A l \in 1 .. Len(P) : l = Len(L) + 1 \/ l \in 1 .. Len(L)
    BY <1>1, <2>2
  <2>4. \A l \in 1 .. Len(P) : P[l] # {}
    BY <1>1, <2>2, <2>3
  <2>5. ASSUME NEW l \in 1 .. Len(P), NEW m \in 1 .. Len(P), l < m, NEW i \in P[l], NEW j \in P[m]
        PROVE  i < j
    <3>1. l \in 1 .. Len(L) /\ i \in L[l]
      BY <1>1, <2>2, <2>5
    <3>2. CASE m = Len(L) + 1
      BY <1>2, <2>2, <3>1, <3>2
    <3>3. CASE m \in 1 .. Len(L)
      BY <1>1, <2>2, <2>5, <3>1, <3>3
    <3>4. QED
      BY <2>3, <3>2, <3>3
  <2>6. \A i : (\E l \in 1 .. Len(P) : i \in P[l]) <=> i = n \/ \E l \in 1 .. Len(L) : i \in L[l]
    <3>1. Len(L) + 1 \in 1 .. Len(P) /\ \A l \in 1 .. Len(L) : l \in 1 .. Len(P)
      BY <1>1, <2>2
    <3>2. QED
      BY <2>2, <2>3, <3>1
  <2>7. Rows(P, n) /\ GoesOn(L, P)
    BY <1>1, <2>2, <2>4, <2>5 DEF Rows, GoesOn
  <2>8. QED
    BY <2>6, <2>7 DEF P
<1>5. QED
  BY <1>3, <1>4

LEMMA LinesAreRows ==
    ASSUME log \in Seq(Kinds), NEW n \in 0 .. Len(log)
    PROVE  Rows(LI!linesUpTo[n], n) /\ AreShown(LI!linesUpTo[n], n)
<1> DEFINE up == LI!linesUpTo
           S == {m \in 0 .. n : Rows(up[m], m) /\ AreShown(up[m], m)}
<1>1. Len(log) \in Nat /\ n \in Nat
  OBVIOUS
<1>2. up[0] = <<>> /\ \A m \in 1 .. Len(log) :
          up[m] = IF LI!wanted(m) THEN Put(up[m - 1], m, JoinsLast(up[m - 1], m)) ELSE up[m - 1]
  BY LinesGo
<1> HIDE DEF up
<1>3. 0 \in S
  <2>1. Rows(<<>>, 0) /\ AreShown(<<>>, 0)
    BY DEF Rows, AreShown
  <2>2. QED
    BY <1>1, <1>2, <2>1
<1>4. ASSUME NEW m \in 0 .. n - 1, m \in S PROVE m + 1 \in S
  <2> DEFINE L == up[m]
             k == m + 1
             joins == JoinsLast(L, k)
  <2>1. Rows(L, m) /\ AreShown(L, m)
    BY <1>4
  <2>2. k \in 1 .. Len(log) /\ k - 1 = m /\ k \in Nat /\ k # 0 /\ k \in 0 .. n
    BY <1>1
  <2>3. \A i : i \in 1 .. k <=> i \in 1 .. m \/ i = k
    BY <2>2
  <2>4. up[k] = IF LI!wanted(k) THEN Put(L, k, joins) ELSE L
    BY <1>2, <2>2
  <2>5. joins \in BOOLEAN /\ (joins => L # <<>>)
    BY DEF JoinsLast
  <2> HIDE DEF L, joins, k, S
  <2>6. CASE LI!wanted(k)
    <3> DEFINE P == Put(L, k, joins)
    <3>1. /\ Rows(P, k)
          /\ \A i : (\E l \in 1 .. Len(P) : i \in P[l]) <=> i = k \/ \E l \in 1 .. Len(L) : i \in L[l]
      BY <2>1, <2>2, <2>5, PutKeepsRows
    <3>2. up[k] = P
      BY <2>4, <2>6
    <3> HIDE DEF P
    <3>3. AreShown(P, k)
      BY <2>1, <2>3, <2>6, <3>1 DEF AreShown
    <3>4. QED
      BY <2>2, <3>1, <3>2, <3>3 DEF S, k
  <2>7. CASE ~LI!wanted(k)
    <3>1. up[k] = L
      BY <2>4, <2>7
    <3>2. AreShown(L, k)
      BY <2>1, <2>3, <2>7 DEF AreShown
    <3>3. Rows(L, k)
      <4>1. L \in Seq(SUBSET (1 .. m)) /\ Len(L) <= m /\ m <= k /\ SUBSET (1 .. m) \subseteq SUBSET (1 .. k)
        BY <2>1, <2>2, <2>3 DEF Rows
      <4>2. L \in Seq(SUBSET (1 .. k)) /\ Len(L) <= k
        BY <2>2, <4>1
      <4>3. QED
        BY <2>1, <4>2 DEF Rows
    <3>4. QED
      BY <2>2, <3>1, <3>2, <3>3 DEF S, k
  <2>8. QED
    BY <2>6, <2>7
<1>5. n \in S
  <2> HIDE DEF S
  <2>1. \A i \in 0 .. n - 1 : i \in S => i + 1 \in S
    BY <1>4
  <2>2. 0 \in Int /\ n \in Int
    BY <1>1
  <2>3. 0 .. n \subseteq S
    BY <1>3, <2>1, <2>2, Stepwise
  <2>4. QED
    BY <1>1, <2>3
<1>6. QED
  BY <1>5 DEF up

\* What a page goes on to collect leaves the lines as they are, but for the last.
LEMMA MoreIsCollected ==
    ASSUME log \in Seq(Kinds), NEW k \in Kinds, log' = Append(log, k), UNCHANGED <<list, types>>
    PROVE  /\ GoesOn(LI!lines, LI!lines')
           /\ \A i \in 1 .. Len(log) : LI!wanted(i)' = LI!wanted(i)
<1> SUFFICES ASSUME NEW n \in Nat, n = Len(log)
             PROVE  /\ GoesOn(LI!lines, LI!lines')
                    /\ \A i \in 1 .. n : LI!wanted(i)' = LI!wanted(i)
  BY Len(log) \in Nat
<1> DEFINE up == LI!linesUpTo
           Up == LI!linesUpTo'
           S == {m \in 0 .. n : Up[m] = up[m]}
<1>1. /\ n \in Nat /\ log' \in Seq(Kinds) /\ Len(log') = n + 1
      /\ \A i \in 1 .. n : log'[i] = log[i]
  OBVIOUS
<1>2. \A i \in 1 .. n : LI!wanted(i)' = LI!wanted(i)
  BY <1>1 DEF LI!wanted
<1>3. up[0] = <<>> /\ \A m \in 1 .. n :
          up[m] = IF LI!wanted(m) THEN Put(up[m - 1], m, JoinsLast(up[m - 1], m)) ELSE up[m - 1]
  BY LinesGo
<1>4. Up[0] = <<>> /\ \A m \in 1 .. n + 1 :
          Up[m] = IF LI!wanted(m)' THEN Put(Up[m - 1], m, JoinsLast(LI!linesUpTo[m - 1], m)') ELSE Up[m - 1]
  BY <1>1, LinesGoOn
<1>5. ASSUME NEW m \in 1 .. n, Up[m - 1] = up[m - 1] PROVE Up[m] = up[m]
  <2> DEFINE L == up[m - 1]
  <2>1. m - 1 \in 0 .. n /\ m \in 1 .. n + 1
    BY <1>1
  <2>2. Rows(L, m - 1)
    BY <2>1, LinesAreRows
  <2>3. \A j \in L[Len(L)] : L # <<>> => j \in 1 .. n
    BY <1>1, <2>2 DEF Rows
  <2>4. JoinsLast(LI!linesUpTo[m - 1], m)' = JoinsLast(up[m - 1], m)
    <3>1. \A j \in 1 .. n : LI!alike(j, m)' = LI!alike(j, m)
      BY <1>1 DEF LI!alike
    <3>2. JoinsLast(LI!linesUpTo[m - 1], m)' <=>
            list = "console" /\ L # <<>> /\ \E j \in L[Len(L)] : LI!alike(j, m)'
      BY <1>5 DEF JoinsLast
    <3>3. JoinsLast(up[m - 1], m) <=>
            list = "console" /\ L # <<>> /\ \E j \in L[Len(L)] : LI!alike(j, m)
      BY DEF JoinsLast
    <3>4. JoinsLast(LI!linesUpTo[m - 1], m)' \in BOOLEAN /\ JoinsLast(up[m - 1], m) \in BOOLEAN
      BY DEF JoinsLast
    <3> HIDE DEF L
    <3>5. QED
      BY <2>3, <3>1, <3>2, <3>3, <3>4
  <2>5. QED
    BY <1>2, <1>3, <1>4, <1>5, <2>1, <2>4
<1> HIDE DEF up, Up
<1>6. Up[n] = up[n]
  <2>1. 0 \in S
    BY <1>1, <1>3, <1>4
  <2>2. \A i \in 0 .. n - 1 : i \in S => i + 1 \in S
    <3>1. SUFFICES ASSUME NEW i \in 0 .. n - 1, i \in S PROVE i + 1 \in S
      OBVIOUS
    <3>2. i + 1 \in 1 .. n /\ (i + 1) - 1 = i /\ i + 1 \in 0 .. n
      BY <1>1
    <3>3. QED
      BY <1>5, <3>1, <3>2
  <2> HIDE DEF S
  <2>3. 0 \in Int /\ n \in Int
    BY <1>1
  <2>4. 0 .. n \subseteq S
    BY <2>1, <2>2, <2>3, Stepwise
  <2>5. n \in S
    BY <1>1, <2>4
  <2>6. QED
    BY <2>5 DEF S
<1>7. LI!lines = up[n] /\ LI!lines' = Up[n + 1]
  BY <1>1 DEF LI!lines, up, Up
<1>8. GoesOn(up[n], Up[n + 1])
  <2> DEFINE L == up[n]
             k1 == n + 1
             joins == JoinsLast(LI!linesUpTo[k1 - 1], k1)'
  <2>1. k1 \in 1 .. n + 1 /\ k1 - 1 = n /\ k1 \in Nat /\ k1 # 0
    BY <1>1
  <2>2. Up[k1] = IF LI!wanted(k1)' THEN Put(L, k1, joins) ELSE L
    BY <1>4, <1>6, <2>1
  <2>3. Rows(L, k1 - 1)
    <3>1. n \in 0 .. Len(log)
      BY <1>1
    <3>2. Rows(L, n)
      BY <3>1, LinesAreRows DEF up
    <3>3. QED
      BY <2>1, <3>2
  <2>4. joins \in BOOLEAN
    BY DEF JoinsLast
  <2>5. joins => L # <<>>
    <3>1. joins => Up[k1 - 1] # <<>>
      BY DEF JoinsLast, Up
    <3>2. QED
      BY <1>6, <2>1, <3>1
  <2> HIDE DEF joins, L
  <2>6. GoesOn(L, Put(L, k1, joins))
    <3> HIDE DEF k1
    <3>1. QED
      BY <2>1, <2>3, <2>4, <2>5, PutKeepsRows
  <2>7. GoesOn(L, L)
    <3>1. Len(L) \in Nat
      BY <2>3 DEF Rows
    <3>2. QED
      BY <3>1 DEF GoesOn
  <2>8. QED
    BY <2>2, <2>6, <2>7 DEF L
<1>9. QED
  BY <1>2, <1>7, <1>8

\* These are the first n lines.
AreFirst(lines1, n, L) ==
    lines1 \in Seq(SUBSET Nat) /\ Len(lines1) = n /\ \A l \in 1 .. n : lines1[l] = L[l]

ListTypes ==
    /\ LI!TypeOK /\ shown \in Seq(SUBSET Nat)

ListInv ==
    /\ ListTypes
    /\ ~walking => pageIdx = 0
    /\ ~navigated => since <= Len(log)
    /\ walking /\ ~navigated =>
          pageIdx * pageSize < Len(LI!lines) /\ AreFirst(shown, pageIdx * pageSize, LI!lines)
    /\ LI!WalksShowEverything

\* How many pages there are.
LEMMA PagesAreCounted ==
    ASSUME NEW total \in Nat, NEW size \in Nat \ {0}
    PROVE  LET pages == LI!AtLeastOne(LI!Ceil(total, size)) IN
           /\ pages \in Nat /\ pages # 0 /\ pages <= total + 1 /\ (total # 0 => pages <= total)
           /\ total <= pages * size
           /\ \A i \in Nat : i < pages - 1 => (i + 1) * size < total
<1> DEFINE c == (total + size - 1) \div size
           pages == LI!AtLeastOne(LI!Ceil(total, size))
<1>1. total + size - 1 \in Nat /\ size \in Nat
  OBVIOUS
<1>2. c \in Nat /\ c * size <= total + size - 1 /\ total + size - 1 < c * size + size
  <2> DEFINE a == total + size - 1
  <2>1. a \in Nat
    OBVIOUS
  <2> HIDE DEF a
  <2>2. a \div size \in Nat /\ (a \div size) * size <= a /\ a < (a \div size) * size + size
    BY <2>1
  <2>3. QED
    BY <2>2 DEF a
<1>3. pages = IF c < 1 THEN 1 ELSE c
  BY DEF LI!AtLeastOne, LI!Ceil
<1> HIDE DEF c, pages
<1>4. c * size \in Nat
  BY <1>2
<1>5. total <= c * size
  BY <1>1, <1>2, <1>4
<1>6. c <= total
  <2>1. SUFFICES ASSUME c > total PROVE FALSE
    BY <1>2
  <2>2. (total + 1) * size <= c * size
    BY <1>2, <2>1
  <2>3. (total + 1) * size = total * size + size /\ total * size \in Nat /\ total <= total * size
    BY <1>1
  <2>4. QED
    BY <1>1, <1>2, <1>4, <2>2, <2>3
<1>7. ASSUME NEW i \in Nat, i < pages - 1 PROVE (i + 1) * size < total
  <2>1. i + 1 <= c - 1 /\ c - 1 \in Nat /\ i + 1 \in Nat
    BY <1>2, <1>3, <1>7
  <2>2. (i + 1) * size <= (c - 1) * size
    BY <1>1, <2>1
  <2>3. (c - 1) * size = c * size - size /\ (i + 1) * size \in Nat
    BY <1>1, <1>2, <2>1
  <2>4. QED
    BY <1>1, <1>2, <1>4, <2>2, <2>3
<1>8. pages \in Nat /\ pages # 0 /\ pages <= total + 1 /\ (total # 0 => pages <= total)
  BY <1>2, <1>3, <1>6
<1>9. total <= pages * size
  <2>1. CASE c < 1
    <3>1. c = 0 /\ pages * size = size /\ c * size = 0
      BY <1>1, <1>2, <1>3, <2>1
    <3>2. QED
      BY <1>1, <1>5, <3>1
  <2>2. CASE ~(c < 1)
    BY <1>3, <1>5, <2>2
  <2>3. QED
    BY <2>1, <2>2
<1>10. QED
  BY <1>7, <1>8, <1>9 DEF pages

\* A page of a list.
LEMMA APage ==
    ASSUME NEW L \in Seq(SUBSET Nat), NEW size \in Nat \ {0}, NEW idx \in Nat, L # <<>>
    PROVE  LET page == LI!paginate(L, size, idx) IN
           /\ page.items \in Seq(SUBSET Nat)
           /\ page.hasNextPage \in BOOLEAN /\ page.invalidPage \in BOOLEAN
           /\ page.hasNextPage /\ ~page.invalidPage => idx + 1 <= Len(L)
           /\ idx * size < Len(L) =>
                /\ ~page.invalidPage
                /\ page.hasNextPage =>
                     /\ (idx + 1) * size < Len(L)
                     /\ page.items = SubSeq(L, idx * size + 1, idx * size + size)
                /\ ~page.hasNextPage => page.items = SubSeq(L, idx * size + 1, Len(L))
<1> DEFINE total == Len(L)
           pages == LI!AtLeastOne(LI!Ceil(total, size))
           valid == ~(idx >= pages)
           turn == IF idx >= pages THEN 0 ELSE idx
           start == turn * size
           end == IF start + size < total THEN start + size ELSE total
           page == LI!paginate(L, size, idx)
<1>1. total \in Nat /\ total # 0
  OBVIOUS
<1>2. /\ page.items = SubSeq(L, start + 1, end)
      /\ page.hasNextPage \in BOOLEAN /\ (page.hasNextPage <=> turn < pages - 1)
      /\ page.invalidPage \in BOOLEAN /\ (page.invalidPage <=> idx >= pages)
  <2> DEFINE r == LI!resolvePageIndex(idx, pages)
             next == r.currentPage < pages - 1
             over == idx >= pages
             items == SubSeq(L, r.currentPage * size + 1,
                             IF r.currentPage * size + size < Len(L)
                             THEN r.currentPage * size + size ELSE Len(L))
  <2>1. r.currentPage = turn /\ r.invalidPage \in BOOLEAN /\ (r.invalidPage <=> over)
    <3> HIDE DEF pages
    <3>1. r = IF over THEN [currentPage |-> 0, invalidPage |-> TRUE]
              ELSE [currentPage |-> idx, invalidPage |-> FALSE]
      BY DEF LI!resolvePageIndex
    <3> HIDE DEF r
    <3>2. CASE over
      BY <3>1, <3>2
    <3>3. CASE ~over
      BY <3>1, <3>3
    <3>4. QED
      BY <3>2, <3>3
  <2>2. page = [items |-> items, hasNextPage |-> next, invalidPage |-> r.invalidPage]
    BY DEF LI!paginate
  <2>3. next \in BOOLEAN /\ (next <=> turn < pages - 1) /\ items = SubSeq(L, start + 1, end)
    BY <2>1
  <2> HIDE DEF r, pages, page, turn, start, end, next, over, items
  <2>4. page.items = items /\ page.hasNextPage = next /\ page.invalidPage = r.invalidPage
    BY <2>2
  <2>5. QED
    BY <2>1, <2>3, <2>4 DEF over
<1> HIDE DEF total
<1>3. /\ pages \in Nat /\ pages # 0 /\ pages <= total /\ total <= pages * size
      /\ \A i \in Nat : i < pages - 1 => (i + 1) * size < total
  BY <1>1, PagesAreCounted
<1> HIDE DEF pages
<1>4. turn \in Nat /\ start \in Nat /\ end \in Nat /\ end <= total
  BY <1>1, <1>3
<1> HIDE DEF page, start, end
<1>5. SubSeq(L, start + 1, end) \in Seq(SUBSET Nat)
  <2>1. \A i \in start + 1 .. end : i \in 1 .. Len(L)
    BY <1>4 DEF total
  <2>2. QED
    BY <1>4, <2>1
<1>6. page.hasNextPage /\ ~page.invalidPage => idx + 1 <= Len(L)
  BY <1>1, <1>2, <1>3 DEF total
<1>7. ASSUME idx * size < total
      PROVE  /\ ~page.invalidPage
             /\ page.hasNextPage =>
                     /\ (idx + 1) * size < total
                     /\ page.items = SubSeq(L, idx * size + 1, idx * size + size)
             /\ ~page.hasNextPage => page.items = SubSeq(L, idx * size + 1, total)
  <2>1. idx < pages
    <3>1. SUFFICES ASSUME pages <= idx PROVE FALSE
      BY <1>3
    <3>2. pages * size <= idx * size
      BY <1>3, <3>1
    <3>3. pages * size \in Nat /\ idx * size \in Nat
      BY <1>3
    <3>4. QED
      BY <1>1, <1>3, <1>7, <3>2, <3>3
  <2>2. turn = idx /\ start = idx * size
    BY <1>3, <2>1 DEF start
  <2>3. (idx + 1) * size = idx * size + size /\ idx * size \in Nat /\ idx + 1 \in Nat
    OBVIOUS
  <2>4. ASSUME turn < pages - 1
        PROVE (idx + 1) * size < total /\ end = idx * size + size
    <3>1. (idx + 1) * size < total
      BY <1>3, <2>2, <2>4
    <3>2. QED
      BY <2>2, <2>3, <3>1 DEF end
  <2>5. ASSUME ~(turn < pages - 1) PROVE end = total
    <3>1. pages = idx + 1
      BY <1>3, <2>1, <2>2, <2>5
    <3>2. total <= idx * size + size
      BY <1>3, <2>3, <3>1
    <3>3. QED
      BY <1>1, <2>2, <2>3, <3>2 DEF end
  <2> HIDE DEF turn
  <2>6. ~page.invalidPage
    BY <1>2, <1>3, <2>1
  <2>7. ASSUME page.hasNextPage
        PROVE  (idx + 1) * size < total /\ page.items = SubSeq(L, idx * size + 1, idx * size + size)
    BY <1>2, <2>2, <2>4, <2>7
  <2>8. ASSUME ~page.hasNextPage PROVE page.items = SubSeq(L, idx * size + 1, total)
    BY <1>2, <2>2, <2>5, <2>8
  <2>9. QED
    BY <2>6, <2>7, <2>8
<1>8. QED
  BY <1>2, <1>5, <1>6, <1>7 DEF total, page

\* Lines behind the first ones.
LEMMA MoreAreFirst ==
    ASSUME NEW L \in Seq(SUBSET Nat), NEW a \in Nat, NEW b \in Nat, a <= b, b <= Len(L),
           NEW lines1, AreFirst(lines1, a, L)
    PROVE  AreFirst(lines1 \o SubSeq(L, a + 1, b), b, L)
<1> DEFINE more == SubSeq(L, a + 1, b)
<1>1. Len(more) = b - a /\ \A i \in 1 .. b - a : more[i] = L[a + i]
  OBVIOUS
<1>2. more \in Seq(SUBSET Nat)
  <2>1. \A i \in a + 1 .. b : i \in 1 .. Len(L)
    OBVIOUS
  <2>2. QED
    BY <2>1
<1> HIDE DEF more
<1>3. lines1 \in Seq(SUBSET Nat) /\ Len(lines1) = a /\ \A l \in 1 .. a : lines1[l] = L[l]
  BY DEF AreFirst
<1>4. lines1 \o more \in Seq(SUBSET Nat) /\ Len(lines1 \o more) = b
  <2>1. lines1 \o more \in Seq(SUBSET Nat) /\ Len(lines1 \o more) = Len(lines1) + Len(more)
    BY <1>2, <1>3
  <2>2. QED
    BY <1>1, <1>3, <2>1
<1>5. ASSUME NEW l \in 1 .. b PROVE (lines1 \o more)[l] = L[l]
  <2>1. CASE l <= a
    BY <1>2, <1>3, <2>1
  <2>2. CASE l > a
    <3>1. (lines1 \o more)[l] = more[l - a]
      BY <1>1, <1>2, <1>3, <2>2
    <3>2. l - a \in 1 .. b - a /\ a + (l - a) = l
      BY <2>2
    <3>3. QED
      BY <1>1, <3>1, <3>2
  <2>3. l <= a \/ l > a
    OBVIOUS
  <2>4. QED
    BY <2>1, <2>2, <2>3
<1>6. QED
  BY <1>4, <1>5 DEF AreFirst, more

LEMMA LinesStay == UNCHANGED <<log, list, types>> => UNCHANGED LI!lines
  BY DEF LI!lines, LI!linesUpTo, LI!wanted, LI!groupConsecutive, LI!alike

\* All the lines: everything that was asked for of what had been collected, in order.
LEMMA AllAreShown ==
    ASSUME log \in Seq(Kinds), NEW S, AreFirst(S, Len(LI!lines), LI!lines), NEW n \in 0 .. Len(log)
    PROVE  /\ (UNION {S[l] : l \in DOMAIN S}) \cap (1 .. n) = {i \in 1 .. n : LI!wanted(i)}
           /\ \A l, m \in DOMAIN S : l < m => \A i \in S[l], j \in S[m] : i < j
<1> DEFINE L == LI!lines
           N == Len(log)
<1>1. N \in Nat /\ \A i \in 1 .. n : i \in 1 .. N
  OBVIOUS
<1>2. Rows(L, N) /\ AreShown(L, N)
  BY <1>1, LinesAreRows DEF LI!lines
<1> HIDE DEF L
<1>3. DOMAIN S = 1 .. Len(L) /\ \A l \in 1 .. Len(L) : S[l] = L[l]
  BY DEF AreFirst, L
<1>4. \A i : i \in UNION {S[l] : l \in DOMAIN S} <=> \E l \in 1 .. Len(L) : i \in L[l]
  BY <1>3
<1>5. \A i \in 1 .. n : i \in UNION {S[l] : l \in DOMAIN S} <=> LI!wanted(i)
  BY <1>1, <1>2, <1>4 DEF AreShown
<1>6. (UNION {S[l] : l \in DOMAIN S}) \cap (1 .. n) = {i \in 1 .. n : LI!wanted(i)}
  BY <1>5
<1>7. \A l, m \in DOMAIN S : l < m => \A i \in S[l], j \in S[m] : i < j
  BY <1>2, <1>3 DEF Rows
<1>8. QED
  BY <1>6, <1>7

LEMMA LinesAreLines ==
    ASSUME log \in Seq(Kinds)
    PROVE  LI!lines \in Seq(SUBSET Nat) /\ Len(LI!lines) <= Len(log) /\ Len(log) \in Nat
<1>1. Rows(LI!lines, Len(log)) /\ Len(log) \in Nat
  BY LinesAreRows DEF LI!lines
<1>2. LI!lines \in Seq(SUBSET (1 .. Len(log))) /\ SUBSET (1 .. Len(log)) \subseteq SUBSET Nat
  BY <1>1 DEF Rows
<1>3. LI!lines \in Seq(SUBSET Nat)
  BY <1>2
<1>4. QED
  BY <1>1, <1>3 DEF Rows

LEMMA ListFirst == LI!Init => ListInv
<1> SUFFICES ASSUME LI!Init PROVE ListInv
  OBVIOUS
<1>1. /\ list \in {"console", "network"} /\ pageSize \in PageSizes /\ log = <<>> /\ pageIdx = 0
      /\ shown = <<>> /\ since = 0 /\ walking = FALSE /\ navigated = FALSE
  BY DEF LI!Init
<1>2. MaxLogged \in Nat
  BY PagesHaveLines
<1>3. ListTypes
  <2>1. log \in Seq(Kinds) /\ Len(log) = 0 /\ shown \in Seq(SUBSET Nat)
    BY <1>1
  <2>2. Len(log) <= MaxLogged /\ pageIdx \in 0 .. MaxLogged /\ since \in 0 .. MaxLogged
    BY <1>1, <1>2, <2>1
  <2>3. walking \in BOOLEAN /\ navigated \in BOOLEAN
    BY <1>1
  <2>4. QED
    BY <1>1, <2>1, <2>2, <2>3 DEF ListTypes, LI!TypeOK
<1>4. LI!WalksShowEverything
  BY <1>1 DEF LI!WalksShowEverything
<1>5. QED
  BY <1>1, <1>3, <1>4 DEF ListInv

\* A call for a page of the list.
LEMMA PageIsListed ==
    ASSUME ListInv, LI!ListPage
    PROVE  ListInv'
<1> DEFINE L == LI!lines
           page == LI!paginate(L, pageSize, pageIdx)
           s == pageIdx * pageSize
<1>1. /\ L # <<>>
      /\ shown' = IF pageIdx = 0 THEN page.items ELSE shown \o page.items
      /\ since' = IF pageIdx = 0 THEN Len(log) ELSE since
      /\ navigated' = (navigated /\ pageIdx # 0)
      /\ walking' = (page.hasNextPage /\ ~page.invalidPage)
      /\ pageIdx' = IF walking' THEN pageIdx + 1 ELSE 0
      /\ UNCHANGED <<list, types, pageSize, log>>
  BY DEF LI!ListPage
<1>2. /\ list \in {"console", "network"} /\ pageSize \in PageSizes
      /\ log \in Seq(Kinds) /\ Len(log) <= MaxLogged /\ Len(log) \in Nat
      /\ pageIdx \in 0 .. MaxLogged /\ since \in 0 .. MaxLogged
      /\ walking \in BOOLEAN /\ navigated \in BOOLEAN /\ shown \in Seq(SUBSET Nat)
      /\ pageSize \in Nat \ {0} /\ MaxLogged \in Nat /\ pageIdx \in Nat
  BY PagesHaveLines DEF ListInv, ListTypes, LI!TypeOK
<1>3. L \in Seq(SUBSET Nat) /\ Len(L) <= Len(log) /\ Len(L) \in Nat
  BY <1>2, LinesAreLines
<1>4. LI!lines' = L
  BY <1>1, LinesStay
<1>5. \A i : LI!wanted(i)' = LI!wanted(i)
  BY <1>1 DEF LI!wanted
<1> HIDE DEF L
<1>6. /\ page.items \in Seq(SUBSET Nat)
      /\ page.hasNextPage \in BOOLEAN /\ page.invalidPage \in BOOLEAN
      /\ page.hasNextPage /\ ~page.invalidPage => pageIdx + 1 <= Len(L)
      /\ s < Len(L) =>
           /\ ~page.invalidPage
           /\ page.hasNextPage =>
                /\ (pageIdx + 1) * pageSize < Len(L)
                /\ page.items = SubSeq(L, s + 1, s + pageSize)
           /\ ~page.hasNextPage => page.items = SubSeq(L, s + 1, Len(L))
  BY <1>1, <1>2, <1>3, APage
<1> HIDE DEF page
<1>7. /\ s \in Nat /\ (pageIdx = 0 => s = 0)
      /\ (pageIdx + 1) * pageSize = s + pageSize /\ s + pageSize \in Nat
  BY <1>2
<1> HIDE DEF s
<1>8. ListTypes'
  <2>1. pageIdx' \in 0 .. MaxLogged
    <3>1. CASE walking'
      <4>1. pageIdx' = pageIdx + 1 /\ pageIdx + 1 <= Len(L)
        BY <1>1, <1>6, <3>1
      <4>2. QED
        BY <1>2, <1>3, <4>1
    <3>2. CASE ~walking'
      BY <1>1, <1>2, <3>2
    <3>3. QED
      BY <3>1, <3>2
  <2>2. since' \in 0 .. MaxLogged
    BY <1>1, <1>2
  <2>3. shown' \in Seq(SUBSET Nat)
    BY <1>1, <1>2, <1>6
  <2>4. walking' \in BOOLEAN /\ navigated' \in BOOLEAN
    BY <1>1
  <2>5. QED
    BY <1>1, <1>2, <2>1, <2>2, <2>3, <2>4 DEF ListTypes, LI!TypeOK
<1>9. ~walking' => pageIdx' = 0
  BY <1>1
<1>10. ~navigated' => since' <= Len(log')
  <2>1. CASE pageIdx = 0
    BY <1>1, <1>2, <2>1
  <2>2. CASE pageIdx # 0
    BY <1>1, <2>2 DEF ListInv
  <2>3. QED
    BY <2>1, <2>2
\* A walk that saw no navigation.
<1>11. ASSUME ~navigated'
       PROVE  /\ s < Len(L)
              /\ page.hasNextPage => AreFirst(shown', s + pageSize, L)
              /\ ~page.hasNextPage => AreFirst(shown', Len(L), L)
  <2>1. s < Len(L) /\ \E before : AreFirst(before, s, L) /\ shown' = before \o page.items
    <3>1. CASE pageIdx = 0
      <4>1. s = 0 /\ 0 < Len(L)
        BY <1>1, <1>3, <1>7, <3>1
      <4>2. AreFirst(<<>>, 0, L)
        BY DEF AreFirst
      <4>3. shown' = <<>> \o page.items
        BY <1>1, <1>6, <3>1
      <4>4. QED
        BY <4>1, <4>2, <4>3
    <3>2. CASE pageIdx # 0
      <4>1. walking /\ ~navigated
        BY <1>1, <1>11, <3>2 DEF ListInv
      <4>2. s < Len(L) /\ AreFirst(shown, s, L)
        BY <4>1 DEF ListInv, s, L
      <4>3. shown' = shown \o page.items
        BY <1>1, <3>2
      <4>4. QED
        BY <4>2, <4>3
    <3>3. QED
      BY <3>1, <3>2
  <2>2. PICK before : AreFirst(before, s, L) /\ shown' = before \o page.items
    BY <2>1
  <2>3. ASSUME page.hasNextPage PROVE AreFirst(shown', s + pageSize, L)
    <3>1. page.items = SubSeq(L, s + 1, s + pageSize) /\ s + pageSize <= Len(L) /\ s <= s + pageSize
      BY <1>2, <1>3, <1>6, <1>7, <2>1, <2>3
    <3>2. AreFirst(before \o SubSeq(L, s + 1, s + pageSize), s + pageSize, L)
      BY <1>3, <1>7, <2>2, <3>1, MoreAreFirst
    <3>3. QED
      BY <2>2, <3>1, <3>2
  <2>4. ASSUME ~page.hasNextPage PROVE AreFirst(shown', Len(L), L)
    <3>1. page.items = SubSeq(L, s + 1, Len(L)) /\ s <= Len(L)
      BY <1>3, <1>6, <1>7, <2>1, <2>4
    <3>2. AreFirst(before \o SubSeq(L, s + 1, Len(L)), Len(L), L)
      <4>1. Len(L) <= Len(L)
        BY <1>3
      <4>2. QED
        BY <1>3, <1>7, <2>2, <3>1, <4>1, MoreAreFirst
    <3>3. QED
      BY <2>2, <3>1, <3>2
  <2>5. QED
    BY <2>1, <2>3, <2>4
<1>12. ASSUME walking', ~navigated'
       PROVE  pageIdx' * pageSize' < Len(L) /\ AreFirst(shown', pageIdx' * pageSize', L)
  <2>1. pageIdx' = pageIdx + 1 /\ page.hasNextPage /\ pageSize' = pageSize
    BY <1>1, <1>12
  <2>2. pageIdx' * pageSize' = s + pageSize
    BY <1>7, <2>1
  <2>3. AreFirst(shown', s + pageSize, L) /\ s + pageSize < Len(L)
    BY <1>6, <1>7, <1>11, <1>12, <2>1
  <2>4. QED
    BY <2>2, <2>3
<1>13. LI!WalksShowEverything'
  <2>1. SUFFICES ASSUME ~walking', ~navigated'
                 PROVE  /\ (UNION {shown'[l] : l \in DOMAIN shown'}) \cap (1 .. since')
                             = {i \in 1 .. since' : LI!wanted(i)'}
                        /\ \A l, m \in DOMAIN shown' : l < m =>
                              \A i \in shown'[l], j \in shown'[m] : i < j
    BY DEF LI!WalksShowEverything
  <2>2. ~page.hasNextPage /\ AreFirst(shown', Len(L), L)
    BY <1>1, <1>6, <1>11, <2>1
  <2>3. since' \in 0 .. Len(log)
    BY <1>1, <1>8, <1>10, <2>1 DEF ListTypes, LI!TypeOK
  <2>4. /\ (UNION {shown'[l] : l \in DOMAIN shown'}) \cap (1 .. since')
                             = {i \in 1 .. since' : LI!wanted(i)}
        /\ \A l, m \in DOMAIN shown' : l < m => \A i \in shown'[l], j \in shown'[m] : i < j
    BY <1>2, <2>2, <2>3, AllAreShown DEF L
  <2>5. QED
    BY <1>5, <2>4
<1>14. walking' /\ ~navigated' =>
          pageIdx' * pageSize' < Len(LI!lines') /\ AreFirst(shown', pageIdx' * pageSize', LI!lines')
  BY <1>4, <1>12
<1>15. QED
  BY <1>8, <1>9, <1>10, <1>13, <1>14 DEF ListInv

LEMMA LinesAreSeq == log \in Seq(Kinds) => LI!lines \in Seq(SUBSET Nat)
BY LinesAreLines

LEMMA LinesAreSeqNext == (log \in Seq(Kinds))' => (LI!lines \in Seq(SUBSET Nat))'
BY LinesAreSeq, PTL

LEMMA ListStep == ListInv /\ [LI!Next]_(LI!listingVars) => ListInv'
<1> SUFFICES ASSUME ListInv, [LI!Next]_(LI!listingVars) PROVE ListInv'
  OBVIOUS
<1>1. /\ list \in {"console", "network"} /\ pageSize \in PageSizes
      /\ log \in Seq(Kinds) /\ Len(log) <= MaxLogged /\ Len(log) \in Nat
      /\ pageIdx \in 0 .. MaxLogged /\ since \in 0 .. MaxLogged
      /\ walking \in BOOLEAN /\ navigated \in BOOLEAN /\ shown \in Seq(SUBSET Nat)
      /\ pageSize \in Nat \ {0} /\ MaxLogged \in Nat /\ pageIdx \in Nat
  BY PagesHaveLines DEF ListInv, ListTypes, LI!TypeOK
<1>2. LI!lines \in Seq(SUBSET Nat) /\ Len(LI!lines) \in Nat
  BY <1>1, LinesAreLines
<1>3. CASE UNCHANGED LI!listingVars
  <2>1. UNCHANGED <<list, types, pageSize, log, pageIdx, shown, since, walking, navigated>>
    BY <1>3 DEF LI!listingVars
  <2>2. LI!lines' = LI!lines /\ \A i : LI!wanted(i)' = LI!wanted(i)
    BY <2>1, LinesStay DEF LI!wanted
  <2>3. LI!WalksShowEverything'
    BY <2>1, <2>2 DEF ListInv, LI!WalksShowEverything
  <2>4. ListTypes'
    BY <2>1 DEF ListInv, ListTypes, LI!TypeOK
  <2>5. QED
    BY <2>1, <2>2, <2>3, <2>4 DEF ListInv
<1>4. ASSUME NEW k \in Kinds, LI!Collect(k) PROVE ListInv'
  <2>1. /\ Len(log) < MaxLogged /\ log' = Append(log, k)
        /\ UNCHANGED <<list, types, pageSize, pageIdx, shown, since, walking, navigated>>
    BY <1>4 DEF LI!Collect
  <2>2. log' \in Seq(Kinds) /\ Len(log') = Len(log) + 1
    BY <1>1, <2>1
  <2>3. GoesOn(LI!lines, LI!lines') /\ \A i \in 1 .. Len(log) : LI!wanted(i)' = LI!wanted(i)
    BY <1>1, <2>1, MoreIsCollected
  <2>4. ListTypes'
    BY <1>1, <2>1, <2>2 DEF ListTypes, LI!TypeOK
  <2>5. ~navigated' => since' <= Len(log')
    BY <1>1, <2>1, <2>2 DEF ListInv
  <2>6. ASSUME walking, ~navigated
        PROVE  /\ pageIdx * pageSize < Len(LI!lines')
               /\ AreFirst(shown, pageIdx * pageSize, LI!lines')
    <3> DEFINE s == pageIdx * pageSize
               L == LI!lines
               M == LI!lines'
    <3>1. s < Len(L) /\ AreFirst(shown, s, L)
      BY <2>6 DEF ListInv
    <3>2. Len(L) <= Len(M) /\ \A l \in 1 .. Len(L) - 1 : M[l] = L[l]
      BY <2>3 DEF GoesOn
    <3>3. s \in Nat
      BY <1>1
    <3>4. Len(M) \in Nat
      <4>1. LI!lines' \in Seq(SUBSET Nat)
        BY <2>2, LinesAreSeqNext
      <4>2. QED
        BY <4>1
    <3> HIDE DEF s, L, M
    <3>5. s < Len(M) /\ \A l \in 1 .. s : l \in 1 .. Len(L) - 1
      BY <1>2, <3>1, <3>2, <3>3, <3>4 DEF L
    <3>6. AreFirst(shown, s, M)
      BY <3>1, <3>2, <3>5 DEF AreFirst
    <3>7. QED
      BY <3>5, <3>6 DEF s, M
  <2>7. LI!WalksShowEverything'
    <3>1. SUFFICES ASSUME ~walking, ~navigated
                   PROVE  /\ (UNION {shown[l] : l \in DOMAIN shown}) \cap (1 .. since)
                             = {i \in 1 .. since : LI!wanted(i)'}
                          /\ \A l, m \in DOMAIN shown : l < m =>
                              \A i \in shown[l], j \in shown[m] : i < j
      BY <2>1 DEF LI!WalksShowEverything
    <3>2. /\ (UNION {shown[l] : l \in DOMAIN shown}) \cap (1 .. since)
                             = {i \in 1 .. since : LI!wanted(i)}
          /\ \A l, m \in DOMAIN shown : l < m => \A i \in shown[l], j \in shown[m] : i < j
      BY <3>1 DEF ListInv, LI!WalksShowEverything
    <3>3. \A i \in 1 .. since : i \in 1 .. Len(log)
      BY <1>1, <3>1 DEF ListInv
    <3>4. \A i \in 1 .. since : LI!wanted(i)' = LI!wanted(i)
      BY <2>3, <3>3
    <3>5. {i \in 1 .. since : LI!wanted(i)'} = {i \in 1 .. since : LI!wanted(i)}
      BY <3>4
    <3>6. QED
      BY <3>2, <3>5
  <2>8. QED
    BY <2>1, <2>4, <2>5, <2>6, <2>7 DEF ListInv
<1>5. CASE LI!Navigate
  <2>1. log' = <<>> /\ navigated' = TRUE
        /\ UNCHANGED <<list, types, pageSize, pageIdx, shown, since, walking>>
    BY <1>5 DEF LI!Navigate
  <2>2. log' \in Seq(Kinds) /\ Len(log') = 0 /\ navigated' \in BOOLEAN
    BY <2>1
  <2>3. ListTypes'
    BY <1>1, <2>1, <2>2 DEF ListTypes, LI!TypeOK
  <2>4. LI!WalksShowEverything'
    BY <2>1 DEF LI!WalksShowEverything
  <2>5. QED
    BY <2>1, <2>3, <2>4 DEF ListInv
<1>6. CASE LI!ListNothing
  <2>1. /\ LI!lines = <<>> /\ shown' = <<>> /\ since' = Len(log) /\ walking' = FALSE /\ pageIdx' = 0
        /\ navigated' = FALSE /\ UNCHANGED <<list, types, pageSize, log>>
    BY <1>6 DEF LI!ListNothing
  <2>2. ListTypes'
    <3>1. shown' \in Seq(SUBSET Nat) /\ since' \in 0 .. MaxLogged /\ pageIdx' \in 0 .. MaxLogged
      BY <1>1, <2>1
    <3>2. walking' \in BOOLEAN /\ navigated' \in BOOLEAN
      BY <2>1
    <3>3. QED
      BY <1>1, <2>1, <3>1, <3>2 DEF ListTypes, LI!TypeOK
  <2>3. AreFirst(shown', Len(LI!lines), LI!lines)
    <3>1. <<>> \in Seq(SUBSET Nat) /\ Len(<<>>) = 0
      OBVIOUS
    <3>2. QED
      BY <2>1, <3>1 DEF AreFirst
  <2>4. /\ (UNION {shown'[l] : l \in DOMAIN shown'}) \cap (1 .. since')
                 = {i \in 1 .. since' : LI!wanted(i)}
        /\ \A l, m \in DOMAIN shown' : l < m => \A i \in shown'[l], j \in shown'[m] : i < j
    <3>1. since' \in 0 .. Len(log)
      BY <1>1, <2>1
    <3>2. QED
      BY <1>1, <2>3, <3>1, AllAreShown
  <2>5. LI!WalksShowEverything'
    <3>1. \A i : LI!wanted(i)' = LI!wanted(i)
      BY <2>1 DEF LI!wanted
    <3>2. QED
      BY <2>4, <3>1 DEF LI!WalksShowEverything
  <2>6. since' <= Len(log')
    BY <1>1, <2>1
  <2>7. QED
    BY <2>1, <2>2, <2>5, <2>6 DEF ListInv
<1>7. QED
  BY <1>3, <1>4, <1>5, <1>6, PageIsListed DEF LI!Next

-----------------------------------------------------------------------------
(* Judging a picture *)

LEMMA MoreTimes ==
    ASSUME NEW a \in Nat, NEW b \in Nat, a <= b, NEW d \in Nat
    PROVE  a * d <= b * d /\ a * d \in Nat /\ b * d \in Nat
<1> DEFINE c == b - a
<1>1. c \in Nat /\ b = a + c
  OBVIOUS
<1> HIDE DEF c
<1>2. c * d \in Nat
  BY <1>1
<1>3. b * d = a * d + c * d
  BY <1>1
<1>4. a * d \in Nat
  OBVIOUS
<1>5. QED
  BY <1>2, <1>3, <1>4

LEMMA WholeParts ==
    ASSUME NEW q \in Nat, NEW d \in Nat \ {0}, NEW k \in 0 .. d - 1
    PROVE  (q * d + k) \div d = q /\ (q * d + k) % d = k
<1> DEFINE x == q * d + k
           p == x \div d
<1>1. q * d \in Nat
  OBVIOUS
<1>2. x \in Nat
  BY <1>1
<1>3. p \in Nat /\ p * d <= x /\ x < p * d + d /\ x % d = x - p * d
  <2>1. \A y \in Nat : y \div d \in Nat /\ (y \div d) * d <= y /\ y < (y \div d) * d + d
                       /\ y % d = y - (y \div d) * d
    OBVIOUS
  <2>2. QED
    BY <1>2, <2>1
<1>4. x = q * d + k
  OBVIOUS
<1> HIDE DEF x, p
<1>5. p = q
  <2>1. CASE p + 1 <= q
    <3>1. (p + 1) * d <= q * d
      BY <1>3, <2>1, MoreTimes
    <3>2. (p + 1) * d = p * d + d
      BY <1>3
    <3>3. QED
      BY <1>1, <1>3, <1>4, <3>1, <3>2
  <2>2. CASE q + 1 <= p
    <3>1. (q + 1) * d <= p * d
      BY <1>3, <2>2, MoreTimes
    <3>2. (q + 1) * d = q * d + d
      OBVIOUS
    <3>3. QED
      BY <1>1, <1>3, <1>4, <3>1, <3>2
  <2>3. QED
    BY <1>3, <2>1, <2>2
<1>6. x % d = k
  BY <1>3, <1>4, <1>5, <1>1
<1>7. QED
  BY <1>5, <1>6 DEF p, x

\* A line has bytes, a picture lines.
LEMMA LinesHaveBytes ==
    /\ UP!LineLength \in Nat \ {0} /\ UP!StreamLength = (UP!LineLength + 1) * Height
    /\ UP!StreamLength \in Nat \ {0} /\ Channels <= UP!LineLength
<1>1. Width \in Nat /\ Channels \in Nat /\ Height \in Nat /\ 1 <= Width /\ 1 <= Channels /\ 1 <= Height
  BY PictureHasPixels
<1>2. 1 * Channels <= Width * Channels /\ Width * Channels \in Nat
  BY <1>1, MoreTimes
<1>3. UP!LineLength \in Nat /\ Channels <= UP!LineLength /\ UP!LineLength # 0
  BY <1>1, <1>2 DEF UP!LineLength
<1>4. 1 * (UP!LineLength + 1) <= Height * (UP!LineLength + 1) /\ Height * (UP!LineLength + 1) \in Nat
  BY <1>1, <1>3, MoreTimes
<1>5. UP!StreamLength = (UP!LineLength + 1) * Height
  BY DEF UP!StreamLength
<1>6. UP!StreamLength = Height * (UP!LineLength + 1)
  BY <1>1, <1>3, <1>5
<1>7. QED
  BY <1>3, <1>4, <1>5, <1>6

\* Where the lines of a picture stand in the stream.
LEMMA PlacesOfBytes ==
    ASSUME NEW r \in 1 .. Height, NEW i \in 0 .. UP!LineLength
    PROVE  /\ (r - 1) * (UP!LineLength + 1) + 1 + i \in 1 .. UP!StreamLength
           /\ ((r - 1) * (UP!LineLength + 1) + 1 + i) % (UP!LineLength + 1) = 1 <=> i = 0
<1> DEFINE d == UP!LineLength + 1
           q == r - 1
<1>1. d \in Nat \ {0} /\ q \in Nat /\ Height \in Nat /\ i \in Nat /\ i <= d - 1 /\ d > 1
      /\ UP!LineLength \in Nat
  BY LinesHaveBytes, PictureHasPixels
<1>2. UP!StreamLength = d * Height
  BY LinesHaveBytes
<1>3. q + 1 \in Nat /\ q + 1 <= Height
  OBVIOUS
<1> HIDE DEF d, q
<1>4. (q + 1) * d <= Height * d /\ (q + 1) * d = q * d + d /\ q * d \in Nat /\ Height * d = UP!StreamLength
  BY <1>1, <1>2, <1>3, MoreTimes
<1>5. q * d + 1 + i \in 1 .. UP!StreamLength
  BY <1>1, <1>4, LinesHaveBytes
<1>6. CASE i < d - 1
  <2>1. i + 1 \in 0 .. d - 1
    BY <1>1, <1>6
  <2>2. (q * d + (i + 1)) % d = i + 1
    BY <1>1, <2>1, WholeParts
  <2>3. q * d + (i + 1) = q * d + 1 + i
    BY <1>1, <1>4
  <2>4. QED
    BY <1>1, <1>5, <2>2, <2>3 DEF d, q
<1>7. CASE i = d - 1
  <2>1. 0 \in 0 .. d - 1
    BY <1>1
  <2>2. ((q + 1) * d + 0) % d = 0
    BY <1>1, <1>3, <2>1, WholeParts
  <2>3. (q + 1) * d + 0 = q * d + 1 + i
    BY <1>1, <1>4, <1>7
  <2>4. QED
    BY <1>1, <1>5, <1>7, <2>2, <2>3 DEF d, q
<1>8. QED
  BY <1>1, <1>6, <1>7

\* What a byte may be.
LEMMA BytesAreBytes ==
    ASSUME stream \in UP!Streams, NEW r \in 1 .. Height
    PROVE  /\ UP!FilterOf(r) \in Nat /\ UP!FilterOf(r) \in Filters
           /\ \A i \in 1 .. UP!LineLength : UP!ByteOf(r, i) \in UP!Bytes
           /\ UP!Bytes \subseteq Nat
<1> DEFINE place(i) == (r - 1) * (UP!LineLength + 1) + 1 + i
<1>1. \A i \in 0 .. UP!LineLength : place(i) \in 1 .. UP!StreamLength
                                    /\ (place(i) % (UP!LineLength + 1) = 1 <=> i = 0)
  BY PlacesOfBytes
<1>2. place(0) = (r - 1) * (UP!LineLength + 1) + 1
  <2>1. UP!LineLength + 1 \in Nat /\ r - 1 \in Nat
    BY LinesHaveBytes
  <2>2. QED
    BY <2>1
<1>3. \A i \in 1 .. UP!StreamLength :
          stream[i] \in IF i % (UP!LineLength + 1) = 1 THEN Filters ELSE UP!Bytes
  BY DEF UP!Streams
<1>4. 0 \in 0 .. UP!LineLength /\ \A i \in 1 .. UP!LineLength : i \in 0 .. UP!LineLength /\ i # 0
  BY LinesHaveBytes
<1>5. UP!Bytes \subseteq Nat /\ Filters \subseteq Nat
  BY PictureHasPixels DEF UP!Bytes
<1> HIDE DEF place
<1>6. stream[place(0)] \in Filters /\ \A i \in 1 .. UP!LineLength : stream[place(i)] \in UP!Bytes
  BY <1>1, <1>3, <1>4
<1>7. UP!FilterOf(r) = stream[place(0)]
  BY <1>2 DEF UP!FilterOf
<1>8. \A i \in 1 .. UP!LineLength : UP!ByteOf(r, i) = stream[place(i)]
  BY DEF UP!ByteOf, place
<1>9. QED
  BY <1>5, <1>6, <1>7, <1>8

LEMMA PredictionsAreNumbers ==
    ASSUME NEW f \in Nat, NEW l \in Nat, NEW a \in Nat, NEW u \in Nat
    PROVE  UP!Predicted(f, l, a, u) \in Nat
<1>1. UP!paethPredictor(l, a, u) \in {l, a, u}
  BY DEF UP!paethPredictor
<1>2. f \in Nat => (l + a) \div 2 \in Nat
  OBVIOUS
<1>3. QED
  BY <1>1, <1>2 DEF UP!Predicted

\* A byte of the picture, from the bytes around it.
ByteBelow(r, over, row, i) ==
    IF i < 1 THEN 0
    ELSE (UP!ByteOf(r, i) + UP!Predicted(UP!FilterOf(r), row[i - Channels], over[i],
                                         over[i - Channels])) % ByteSize

Padded == [1 - Channels .. UP!LineLength -> UP!Bytes]

LEMMA ByteBelowIsAByte ==
    ASSUME stream \in UP!Streams, NEW r \in 1 .. Height, NEW over \in Padded,
           NEW row \in Padded, NEW i \in 1 - Channels .. UP!LineLength
    PROVE  ByteBelow(r, over, row, i) \in UP!Bytes
<1>1. ByteSize \in Nat \ {0} /\ 0 \in UP!Bytes /\ \A n \in Nat : n % ByteSize \in UP!Bytes
  BY PictureHasPixels DEF UP!Bytes
<1>2. CASE i < 1
  BY <1>1, <1>2 DEF ByteBelow
<1>3. CASE i >= 1
  <2>1. /\ i \in 1 .. UP!LineLength /\ i - Channels \in 1 - Channels .. UP!LineLength
        /\ ~(i < 1)
    BY <1>3, LinesHaveBytes, PictureHasPixels
  <2>2. row[i - Channels] \in Nat /\ over[i] \in Nat /\ over[i - Channels] \in Nat
    BY <2>1, BytesAreBytes DEF Padded
  <2>3. UP!FilterOf(r) \in Nat /\ UP!ByteOf(r, i) \in Nat
    BY <2>1, BytesAreBytes
  <2>4. UP!Predicted(UP!FilterOf(r), row[i - Channels], over[i], over[i - Channels]) \in Nat
    BY <2>2, <2>3, PredictionsAreNumbers
  <2>5. \A a, b \in Nat : a + b \in Nat
    OBVIOUS
  <2>6. ByteBelow(r, over, row, i) \in UP!Bytes
    BY <1>1, <2>1, <2>3, <2>4, <2>5 DEF ByteBelow
  <2>7. QED
    BY <2>6
<1>4. QED
  BY <1>2, <1>3, LinesHaveBytes, PictureHasPixels

\* A line of the picture follows from the one above it.
LEMMA BelowIs ==
    ASSUME stream \in UP!Streams, NEW r \in 1 .. Height, NEW over \in Padded
    PROVE  /\ UP!Below(r, over) \in Padded
           /\ \A i \in 1 - Channels .. UP!LineLength :
                 UP!Below(r, over)[i] = ByteBelow(r, over, UP!Below(r, over), i)
<1> DEFINE a == 1 - Channels
           n == UP!LineLength
           V == UP!Bytes
           F == [row \in [a .. n -> V] |-> [i \in a .. n |-> ByteBelow(r, over, row, i)]]
<1>1. a \in Int /\ n \in Int /\ V # {} /\ Channels \in Nat \ {0}
  BY LinesHaveBytes, PictureHasPixels DEF UP!Bytes
<1>2. F \in [[a .. n -> V] -> [a .. n -> V]]
  BY ByteBelowIsAByte DEF Padded
<1>3. ASSUME NEW f \in [a .. n -> V], NEW g \in [a .. n -> V], NEW m \in a .. n,
             \A i \in a .. m - 1 : f[i] = g[i]
      PROVE  F[f][m] = F[g][m]
  <2>1. m >= 1 => m - Channels \in a .. m - 1
    BY <1>1
  <2>2. m \in Int
    BY <1>1
  <2>3. m < 1 \/ m >= 1
    BY <2>2
  <2>4. ByteBelow(r, over, f, m) = ByteBelow(r, over, g, m)
    BY <1>3, <2>1, <2>3 DEF ByteBelow
  <2>5. QED
    BY <2>4
<1>4. \A f \in [a .. n -> V] : F[f] = [i \in a .. n |-> ByteBelow(r, over, f, i)]
  OBVIOUS
<1> HIDE DEF F
<1>5. FromBefore(F, a, n, V)
  BY <1>1, <1>2, <1>3 DEF FromBefore
<1>6. Obeyed(F, a, n, V)
  BY <1>5, Recursion
<1>7. PICK f \in [a .. n -> V] : f = F[f]
  BY <1>6 DEF Obeyed
<1>8. f = [i \in a .. n |-> ByteBelow(r, over, f, i)]
  BY <1>4, <1>7
<1>9. f = [i \in 1 - Channels .. UP!LineLength |->
            IF i < 1 THEN 0
            ELSE (UP!ByteOf(r, i) + UP!Predicted(UP!FilterOf(r), f[i - Channels], over[i],
                                         over[i - Channels])) % ByteSize]
  BY <1>8 DEF ByteBelow
<1> DEFINE B == UP!Below(r, over)
<1>10. B = [i \in 1 - Channels .. UP!LineLength |->
            IF i < 1 THEN 0
            ELSE (UP!ByteOf(r, i) + UP!Predicted(UP!FilterOf(r), B[i - Channels], over[i],
                                         over[i - Channels])) % ByteSize]
  BY <1>9, Zenon DEF UP!Below
<1> HIDE DEF B
<1>11. B = [i \in a .. n |-> ByteBelow(r, over, B, i)]
  BY <1>10 DEF ByteBelow
<1>12. \A i \in a .. n : B[i] = ByteBelow(r, over, B, i)
  BY <1>11
<1>13. B \in [a .. n -> V]
  <2>1. \E b : b = [i \in a .. n |-> ByteBelow(r, over, b, i)] /\ b = B
    BY <1>11
  <2> DEFINE T == {k \in a - 1 .. n : \A i \in a .. k : B[i] \in V}
  <2>2. a - 1 \in T
    <3>1. a .. a - 1 = {} /\ a - 1 \in a - 1 .. n
      BY <1>1, LinesHaveBytes
    <3>2. QED
      BY <3>1
  <2>3. ASSUME NEW k \in a - 1 .. n - 1, k \in T PROVE k + 1 \in T
    <3> DEFINE b == [i \in a .. n |-> IF i <= k THEN B[i] ELSE 0]
    <3>1. b \in Padded
      <4>1. 0 \in V
        BY PictureHasPixels DEF UP!Bytes
      <4>2. \A i \in a .. n : i <= k => i \in a .. k
        BY <1>1
      <4>3. QED
        BY <2>3, <4>1, <4>2 DEF Padded
    <3>2. k + 1 \in a .. n /\ k \in Int
      BY <1>1
    <3>3. ByteBelow(r, over, b, k + 1) \in V
      BY <3>1, <3>2, ByteBelowIsAByte
    <3>4. k + 1 >= 1 => k + 1 - Channels \in a .. n /\ k + 1 - Channels <= k
      BY <1>1, <3>2
    <3>5. ByteBelow(r, over, b, k + 1) = ByteBelow(r, over, B, k + 1)
      <4> DEFINE m == k + 1
      <4>1. m >= 1 => b[m - Channels] = B[m - Channels]
        <5>1. \A x \in a .. n : x <= k => b[x] = B[x]
          OBVIOUS
        <5> HIDE DEF b
        <5>2. QED
          BY <1>1, <3>2, <3>4, <5>1
      <4>2. m \in Int
        BY <3>2
      <4> HIDE DEF b, m
      <4>3. ByteBelow(r, over, b, m) = ByteBelow(r, over, B, m)
        BY <4>1, <4>2 DEF ByteBelow
      <4>4. QED
        BY <4>3 DEF m
    <3>6. B[k + 1] \in V
      BY <1>12, <3>2, <3>3, <3>5
    <3>7. \A i \in a .. k + 1 : i = k + 1 \/ i \in a .. k
      BY <1>1, <3>2
    <3>8. k + 1 \in a - 1 .. n
      BY <1>1, <3>2
    <3>9. QED
      BY <2>3, <3>6, <3>7, <3>8
  <2> HIDE DEF T
  <2>4. a - 1 .. n \subseteq T
    <3>1. \A k \in a - 1 .. n - 1 : k \in T => k + 1 \in T
      BY <2>3
    <3>2. a - 1 \in Int /\ n \in Int
      BY <1>1
    <3> HIDE DEF a, n
    <3>3. QED
      BY <2>2, <3>1, <3>2, Stepwise
  <2>5. n \in a - 1 .. n
    BY <1>1, LinesHaveBytes, PictureHasPixels
  <2>6. \A i \in a .. n : B[i] \in V
    BY <2>4, <2>5 DEF T
  <2>7. QED
    BY <1>11, <2>6
<1>14. QED
  BY <1>12, <1>13 DEF B, Padded

\* The picture is defined line by line.
LEMMA PictureIs ==
    ASSUME stream \in UP!Streams
    PROVE  /\ UP!Picture \in [0 .. Height -> Padded]
           /\ UP!Picture[0] = [i \in 1 - Channels .. UP!LineLength |-> 0]
           /\ \A r \in 1 .. Height : UP!Picture[r] = UP!Below(r, UP!Picture[r - 1])
<1> DEFINE n == Height
           V == Padded
           Zeros == [i \in 1 - Channels .. UP!LineLength |-> 0]
           F == [p \in [0 .. n -> V] |-> [r \in 0 .. n |->
                    IF r = 0 THEN Zeros ELSE UP!Below(r, p[r - 1])]]
<1>1. n \in Nat /\ Zeros \in V /\ n >= 0
  BY PictureHasPixels DEF Padded, UP!Bytes
<1>2. \A r \in 0 .. n : r # 0 => r \in 1 .. n /\ r - 1 \in 0 .. n /\ r - 1 \in 0 .. r - 1
  BY <1>1
<1> HIDE DEF V, Zeros
<1>3. F \in [[0 .. n -> V] -> [0 .. n -> V]]
  <2>1. SUFFICES ASSUME NEW p \in [0 .. n -> V], NEW r \in 0 .. n
                 PROVE  (IF r = 0 THEN Zeros ELSE UP!Below(r, p[r - 1])) \in V
    OBVIOUS
  <2>2. r # 0 => UP!Below(r, p[r - 1]) \in V
    BY <1>2, BelowIs DEF V
  <2>3. QED
    BY <1>1, <2>2
<1>4. ASSUME NEW f \in [0 .. n -> V], NEW g \in [0 .. n -> V], NEW m \in 0 .. n,
             \A i \in 0 .. m - 1 : f[i] = g[i]
      PROVE  F[f][m] = F[g][m]
  BY <1>2, <1>4
<1>5. \A f \in [0 .. n -> V] : F[f] = [r \in 0 .. n |->
                    IF r = 0 THEN Zeros ELSE UP!Below(r, f[r - 1])]
  OBVIOUS
<1> HIDE DEF F
<1>6. \E f \in [0 .. n -> V] : f = F[f]
  <2>1. 0 \in Int /\ n \in Int /\ V # {}
    BY <1>1
  <2>2. FromBefore(F, 0, n, V)
    BY <1>3, <1>4, <2>1 DEF FromBefore
  <2> HIDE DEF n
  <2>3. Obeyed(F, 0, n, V)
    BY <2>2, Recursion
  <2>4. QED
    BY <2>3 DEF Obeyed
<1>7. PICK f \in [0 .. n -> V] : f = F[f]
  BY <1>6
<1>8. f = [r \in 0 .. Height |-> IF r = 0 THEN [i \in 1 - Channels .. UP!LineLength |-> 0]
                                 ELSE UP!Below(r, f[r - 1])]
  BY <1>5, <1>7 DEF Zeros
<1> DEFINE P == UP!Picture
<1>9. P = [r \in 0 .. Height |-> IF r = 0 THEN [i \in 1 - Channels .. UP!LineLength |-> 0]
                                 ELSE UP!Below(r, P[r - 1])]
  BY <1>8, Zenon DEF UP!Picture
<1> HIDE DEF P
<1>10. P[0] = Zeros /\ \A r \in 1 .. n : P[r] = UP!Below(r, P[r - 1])
  <2>1. 0 \in 0 .. Height /\ \A r \in 1 .. Height : r \in 0 .. Height /\ r # 0
    BY <1>1
  <2>2. QED
    BY <1>9, <2>1 DEF Zeros
<1> DEFINE T == {r \in 0 .. n : P[r] \in V}
<1>11. 0 \in T
  BY <1>1, <1>10
<1>12. ASSUME NEW r \in 0 .. n - 1, r \in T PROVE r + 1 \in T
  <2>1. r + 1 \in 1 .. n /\ (r + 1) - 1 = r /\ r + 1 \in 0 .. n
    BY <1>1
  <2>2. UP!Below(r + 1, P[r]) \in V
    BY <1>12, <2>1, BelowIs DEF V
  <2>3. QED
    BY <1>10, <2>1, <2>2
<1>13. 0 .. n \subseteq T
  <2>1. 0 \in Int /\ n \in Int
    BY <1>1
  <2>2. \A r \in 0 .. n - 1 : r \in T => r + 1 \in T
    BY <1>12
  <2> HIDE DEF T, n
  <2>3. QED
    BY <1>11, <2>1, <2>2, Stepwise
<1>14. P \in [0 .. n -> V]
  BY <1>9, <1>13
<1>15. QED
  BY <1>10, <1>14 DEF P, V, Zeros

\* Around the picture there are zeros.
LEMMA PaddingIsZero ==
    ASSUME stream \in UP!Streams, NEW r \in 0 .. Height, NEW i \in 1 - Channels .. 0
    PROVE  UP!Picture[r][i] = 0
<1>1. i < 1 /\ i \in 1 - Channels .. UP!LineLength
  BY LinesHaveBytes, PictureHasPixels
<1>2. CASE r = 0
  BY <1>1, <1>2, PictureIs
<1>3. CASE r # 0
  <2>1. r \in 1 .. Height /\ r - 1 \in 0 .. Height
    BY <1>3, PictureHasPixels
  <2>2. UP!Picture[r] = UP!Below(r, UP!Picture[r - 1]) /\ UP!Picture[r - 1] \in Padded
    BY <2>1, PictureIs
  <2>3. UP!Picture[r][i] = ByteBelow(r, UP!Picture[r - 1], UP!Picture[r], i)
    BY <1>1, <2>1, <2>2, BelowIs
  <2>4. QED
    BY <1>1, <2>3 DEF ByteBelow
<1>4. QED
  BY <1>2, <1>3

\* A byte of a line as the decoder has it, from the bytes in front of it.
ByteDone(filter, raw, over, done, i) ==
    (raw[i] + UP!Predicted(filter, IF i > Channels THEN done[i - Channels] ELSE 0, over[i],
                           IF i > Channels THEN over[i - Channels] ELSE 0)) % ByteSize

\* The decoder's line is the picture's (unfilterScanline).
LEMMA LineIsThePictures ==
    ASSUME stream \in UP!Streams, NEW r \in 1 .. Height, NEW raw, NEW over,
           \A i \in 1 .. UP!LineLength : raw[i] = UP!ByteOf(r, i),
           \A i \in 1 .. UP!LineLength : over[i] = UP!Picture[r - 1][i]
    PROVE  UP!unfilterScanline(UP!FilterOf(r), raw, over)
              = [i \in 1 .. UP!LineLength |-> UP!Picture[r][i]]
<1> DEFINE f == UP!FilterOf(r)
           n == UP!LineLength
           P == UP!Picture[r]
           O == UP!Picture[r - 1]
           g == [i \in 1 .. n |-> P[i]]
<1>1. /\ n \in Nat \ {0} /\ Channels \in Nat \ {0} /\ r - 1 \in 0 .. Height /\ r \in 0 .. Height
      /\ \A i \in 1 .. n : i \in 1 - Channels .. n
  BY LinesHaveBytes, PictureHasPixels
<1>2. \A i \in 1 - Channels .. n : P[i] = ByteBelow(r, O, P, i)
  BY <1>1, PictureIs, BelowIs
<1>3. \A i \in 1 - Channels .. 0 : P[i] = 0 /\ O[i] = 0
  BY <1>1, PaddingIsZero
<1> HIDE DEF P, O
<1>4. ASSUME NEW d, NEW i \in 1 .. n,
             i > Channels => d[i - Channels] = P[i - Channels]
      PROVE  ByteDone(f, raw, over, d, i) = P[i]
  <2>1. P[i] = (UP!ByteOf(r, i) + UP!Predicted(f, P[i - Channels], O[i], O[i - Channels])) % ByteSize
    <3>1. ~(i < 1) /\ P[i] = ByteBelow(r, O, P, i)
      BY <1>1, <1>2
    <3>2. QED
      BY <3>1 DEF ByteBelow
  <2>2. raw[i] = UP!ByteOf(r, i) /\ over[i] = O[i]
    BY DEF O
  <2>3. CASE i > Channels
    <3>1. i - Channels \in 1 .. n
      BY <1>1, <2>3
    <3>2. over[i - Channels] = O[i - Channels] /\ d[i - Channels] = P[i - Channels]
      BY <1>4, <2>3, <3>1 DEF O
    <3>3. QED
      BY <2>1, <2>2, <2>3, <3>2 DEF ByteDone
  <2>4. CASE ~(i > Channels)
    <3>1. i - Channels \in 1 - Channels .. 0
      BY <1>1, <2>4
    <3>2. P[i - Channels] = 0 /\ O[i - Channels] = 0
      BY <1>3, <3>1
    <3>3. QED
      BY <2>1, <2>2, <2>4, <3>2 DEF ByteDone
  <2>5. QED
    BY <2>3, <2>4
<1>5. \A i \in 1 .. n : i > Channels => i - Channels \in 1 .. n /\ i - Channels \in 1 .. i - 1
  BY <1>1
<1>6. g = [i \in 1 .. n |-> ByteDone(f, raw, over, g, i)]
  <2>1. \A i \in 1 .. n : i > Channels => g[i - Channels] = P[i - Channels]
    BY <1>5
  <2>2. \A i \in 1 .. n : g[i] = P[i]
    OBVIOUS
  <2>3. \A i \in 1 .. n : ByteDone(f, raw, over, g, i) = P[i]
    BY <1>4, <2>1
  <2>4. QED
    BY <2>3
<1> DEFINE D == CHOOSE d : d = [i \in 1 .. n |-> ByteDone(f, raw, over, d, i)]
<1>7. D = [i \in 1 .. n |-> ByteDone(f, raw, over, D, i)]
  <2> HIDE DEF g
  <2>1. \E d : d = [i \in 1 .. n |-> ByteDone(f, raw, over, d, i)]
    BY <1>6
  <2>2. QED
    BY <2>1, Zenon
<1> HIDE DEF D
<1>8. \A i \in 1 .. n : D[i] = P[i]
  <2> DEFINE T == {k \in 0 .. n : \A i \in 1 .. k : D[i] = P[i]}
  <2>1. 0 \in T
    BY <1>1
  <2>2. ASSUME NEW k \in 0 .. n - 1, k \in T PROVE k + 1 \in T
    <3>1. k + 1 \in 1 .. n /\ k + 1 \in 0 .. n
      BY <1>1
    <3>2. k + 1 > Channels => D[k + 1 - Channels] = P[k + 1 - Channels]
      <4>1. k + 1 > Channels => k + 1 - Channels \in 1 .. k
        BY <1>1
      <4>2. QED
        BY <2>2, <4>1
    <3>3. D[k + 1] = P[k + 1]
      <4>1. \A i \in 1 .. n : D[i] = ByteDone(f, raw, over, D, i)
        BY <1>7
      <4> DEFINE m == k + 1
      <4>2. m \in 1 .. n /\ (m > Channels => D[m - Channels] = P[m - Channels])
        BY <1>1, <3>1, <3>2
      <4> HIDE DEF m
      <4>3. ByteDone(f, raw, over, D, m) = P[m]
        BY <1>4, <4>2
      <4>4. D[m] = P[m]
        BY <4>1, <4>2, <4>3
      <4>5. QED
        BY <4>4 DEF m
    <3>4. \A i \in 1 .. k + 1 : i = k + 1 \/ i \in 1 .. k
      OBVIOUS
    <3>5. QED
      BY <2>2, <3>1, <3>3, <3>4
  <2>3. 0 .. n \subseteq T
    <3>1. \A k \in 0 .. n - 1 : k \in T => k + 1 \in T
      BY <2>2
    <3>2. 0 \in Int /\ n \in Int
      BY <1>1
    <3> HIDE DEF T, n
    <3>3. QED
      BY <2>1, <3>1, <3>2, Stepwise
  <2>4. n \in 0 .. n
    BY <1>1
  <2>5. QED
    BY <2>3, <2>4
<1>9. UP!unfilterScanline(f, raw, over) = [i \in 1 .. n |-> D[i]]
  BY Zenon DEF UP!unfilterScanline, D, ByteDone
<1>10. QED
  BY <1>8, <1>9 DEF P

\* The bytes of the stream that are put behind a line.
LEMMA BytesAreTaken ==
    ASSUME NEW s \in Seq(Nat), NEW l \in Seq(Nat), NEW offset \in Nat, NEW take \in Nat,
           offset + take <= Len(s)
    PROVE  LET taken == l \o SubSeq(s, offset + 1, offset + take)
           IN  /\ taken \in Seq(Nat) /\ Len(taken) = Len(l) + take
               /\ \A i \in 1 .. Len(l) : taken[i] = l[i]
               /\ \A i \in 1 .. take : taken[Len(l) + i] = s[offset + i]
<1> DEFINE t == SubSeq(s, offset + 1, offset + take)
<1>1. t \in Seq(Nat) /\ Len(t) = take /\ \A i \in 1 .. take : t[i] = s[offset + i]
  <2>1. \A i \in offset + 1 .. offset + take : i \in 1 .. Len(s)
    OBVIOUS
  <2>2. t \in Seq(Nat) /\ Len(t) = take
    BY <2>1
  <2>3. \A i \in 1 .. take : t[i] = s[offset + i]
    BY <2>1
  <2>4. QED
    BY <2>2, <2>3
<1> DEFINE u == l \o t
<1> HIDE DEF t
<1>2. /\ u \in Seq(Nat) /\ Len(u) = Len(l) + take
      /\ \A i \in 1 .. Len(l) : u[i] = l[i]
      /\ \A i \in 1 .. take : u[Len(l) + i] = s[offset + i]
  <2>1. u \in Seq(Nat) /\ Len(u) = Len(l) + take /\ Len(l) \in Nat
    BY <1>1
  <2>2. \A i \in 1 .. Len(u) : u[i] = IF i <= Len(l) THEN l[i] ELSE t[i - Len(l)]
    BY <1>1
  <2> HIDE DEF u
  <2>3. ASSUME NEW i \in 1 .. Len(l) PROVE u[i] = l[i]
    BY <2>1, <2>2
  <2>4. ASSUME NEW i \in 1 .. take PROVE u[Len(l) + i] = s[offset + i]
    <3>1. Len(l) + i \in 1 .. Len(u) /\ ~(Len(l) + i <= Len(l)) /\ (Len(l) + i) - Len(l) = i
      BY <2>1
    <3>2. QED
      BY <1>1, <2>2, <3>1
  <2>5. QED
    BY <2>1, <2>3, <2>4
<1>3. QED
  BY <1>2 DEF t

LEMMA StreamsAreSequences ==
    ASSUME stream \in UP!Streams
    PROVE  stream \in Seq(Nat) /\ Len(stream) = UP!StreamLength + 1
<1>1. UP!StreamLength + 1 \in Nat /\ UP!Bytes \cup Filters \subseteq Nat
  BY LinesHaveBytes, PictureHasPixels DEF UP!Bytes
<1>2. stream \in [1 .. UP!StreamLength + 1 -> UP!Bytes \cup Filters]
  BY DEF UP!Streams
<1>3. stream \in [1 .. UP!StreamLength + 1 -> Nat]
  BY <1>1, <1>2
<1>4. QED
  BY <1>1, <1>3

(* Where the decoder is. *)
PngTypes ==
    /\ stream \in UP!Streams
    /\ inflated \in 0 .. UP!StreamLength + 1 /\ unread \in 0 .. inflated
    /\ filterType \in Filters \cup {-1} /\ line \in Seq(Nat) /\ Len(line) < UP!LineLength
    /\ previous \in [1 .. UP!LineLength -> UP!Bytes] /\ scanlines \in 0 .. Height
    /\ verdict \in {"reading", "uniform", "differs", "unknown"}

\* As far as it has read, it has read the lines of the picture, and they are of one colour.
PngReads ==
    /\ inflated - unread = scanlines * (UP!LineLength + 1)
                             + (IF filterType < 0 THEN 0 ELSE 1 + Len(line))
    /\ filterType < 0 => line = <<>>
    /\ filterType >= 0 => filterType = UP!FilterOf(scanlines + 1)
    /\ \A i \in 1 .. Len(line) : line[i] = UP!ByteOf(scanlines + 1, i)
    /\ \A i \in 1 .. UP!LineLength : previous[i] = UP!Picture[scanlines][i]
    /\ scanlines > 0 => \A c \in 1 .. Channels : reference[c] = UP!Picture[1][c]
    /\ UP!Sound(scanlines) /\ UP!OneColour(scanlines)

PngInv ==
    /\ PngTypes
    /\ verdict = "reading" => PngReads
    /\ verdict = "uniform" => UP!Rows = Height /\ UP!Sound(Height) /\ UP!OneColour(Height)
    /\ verdict = "differs" => UP!Rows > 0 /\ ~UP!OneColour(scanlines)

LEMMA RowsAre ==
    ASSUME NEW q \in Nat, NEW k \in 0 .. UP!LineLength, inflated = q * (UP!LineLength + 1) + k
    PROVE  UP!Rows = q
<1>1. UP!LineLength + 1 \in Nat \ {0} /\ k \in 0 .. (UP!LineLength + 1) - 1
  BY LinesHaveBytes
<1> DEFINE d == UP!LineLength + 1
<1> HIDE DEF d
<1>2. (q * d + k) \div d = q
  BY <1>1, WholeParts DEF d
<1>3. QED
  BY <1>2 DEF UP!Rows, d

\* Nothing has been read in front of the first line.
LEMMA NoRowsYet == UP!Sound(0) /\ UP!OneColour(0)
BY DEF UP!Sound, UP!OneColour

LEMMA PngFirst == UP!Init => PngInv
<1> SUFFICES ASSUME UP!Init PROVE PngInv
  OBVIOUS
<1>1. /\ stream \in UP!Streams /\ inflated = 0 /\ unread = 0 /\ filterType = -1 /\ line = <<>>
      /\ previous = [i \in 1 .. UP!LineLength |-> 0]
      /\ reference = <<>> /\ scanlines = 0 /\ verdict = "reading"
  BY DEF UP!Init
<1>2. Height \in Nat /\ UP!LineLength \in Nat \ {0} /\ UP!StreamLength \in Nat /\ Channels \in Nat
  BY LinesHaveBytes, PictureHasPixels
<1>3. PngTypes
  <2>1. previous \in [1 .. UP!LineLength -> UP!Bytes]
    BY <1>1, PictureHasPixels DEF UP!Bytes
  <2>2. Len(line) < UP!LineLength /\ line \in Seq(Nat)
    BY <1>1, <1>2
  <2>3. inflated \in 0 .. UP!StreamLength + 1 /\ unread \in 0 .. inflated /\ scanlines \in 0 .. Height
    BY <1>1, <1>2
  <2>4. QED
    BY <1>1, <2>1, <2>2, <2>3 DEF PngTypes
<1>4. \A i \in 1 .. UP!LineLength : previous[i] = UP!Picture[scanlines][i]
  <2>1. \A i \in 1 .. UP!LineLength : i \in 1 - Channels .. UP!LineLength
    BY <1>2
  <2>2. QED
    BY <1>1, <2>1, PictureIs
<1>5. inflated - unread = scanlines * (UP!LineLength + 1)
  BY <1>1, <1>2
<1>6. PngReads
  <2>1. Len(line) = 0 /\ 1 .. Len(line) = {} /\ filterType < 0 /\ ~(filterType >= 0) /\ ~(scanlines > 0)
    BY <1>1
  <2>2. inflated - unread = scanlines * (UP!LineLength + 1)
                             + (IF filterType < 0 THEN 0 ELSE 1 + Len(line))
    BY <1>1, <1>2, <2>1
  <2>3. Len(line) < UP!LineLength
    BY <1>2, <2>1
  <2>4. UP!Sound(scanlines) /\ UP!OneColour(scanlines)
    BY <1>1, NoRowsYet
  <2>5. QED
    BY <1>1, <1>4, <2>1, <2>2, <2>3, <2>4 DEF PngReads
<1>7. QED
  BY <1>1, <1>3, <1>6 DEF PngInv

\* What is read of the stream is the same as long as the stream is.
LEMMA StreamStays ==
    ASSUME stream' = stream
    PROVE  /\ (UP!Streams)' = UP!Streams
           /\ \A r, i : UP!ByteOf(r, i)' = UP!ByteOf(r, i)
           /\ \A r : UP!FilterOf(r)' = UP!FilterOf(r)
           /\ UP!Picture' = UP!Picture
           /\ \A r : UP!Sound(r)' = UP!Sound(r)
           /\ \A r : UP!OneColour(r)' = UP!OneColour(r)
<1>1. \A r, i : UP!ByteOf(r, i)' = UP!ByteOf(r, i)
  BY DEF UP!ByteOf
<1>2. \A r : UP!FilterOf(r)' = UP!FilterOf(r)
  BY DEF UP!FilterOf
<1>3. \A r, over : UP!Below(r, over)' = UP!Below(r, over)
  BY Zenon DEF UP!Below, UP!ByteOf, UP!FilterOf
<1>4. UP!Picture' = UP!Picture
  BY DEF UP!Picture, UP!Below, UP!ByteOf, UP!FilterOf
<1>5. \A r : UP!Sound(r)' = UP!Sound(r)
  BY <1>2 DEF UP!Sound
<1>6. \A r : UP!OneColour(r)' = UP!OneColour(r)
  BY <1>4 DEF UP!OneColour
<1>7. QED
  BY <1>1, <1>2, <1>4, <1>5, <1>6

\* A chunk comes, and the walk has it before it.
LEMMA ChunkComes ==
    ASSUME PngInv, UP!Chunk
    PROVE  PngInv'
<1>1. PICK n \in 1 .. Len(stream) - inflated :
          /\ verdict = "reading" /\ unread = 0 /\ inflated' = inflated + n /\ unread' = n
          /\ UNCHANGED <<stream, filterType, line, previous, reference, scanlines, verdict>>
  BY DEF UP!Chunk, UP!decoder
<1>2. PngTypes /\ PngReads
  BY <1>1 DEF PngInv
<1>3. Len(stream) = UP!StreamLength + 1 /\ UP!StreamLength \in Nat
  BY <1>2, StreamsAreSequences, LinesHaveBytes DEF PngTypes
<1>4. PngTypes'
  BY <1>1, <1>2, <1>3, StreamStays DEF PngTypes
<1>5. inflated' - unread' = inflated - unread
  BY <1>1, <1>2, <1>3 DEF PngTypes
<1>6. PngReads'
  BY <1>1, <1>2, <1>5, StreamStays DEF PngReads
<1>7. QED
  BY <1>1, <1>4, <1>6 DEF PngInv

\* The filter of a line is read.
LEMMA FilterIsRead ==
    ASSUME PngInv, UP!ReadFilter
    PROVE  PngInv'
<1>1. /\ unread > 0 /\ filterType < 0 /\ verdict = "reading"
      /\ filterType' = stream[inflated - unread + 1] /\ unread' = unread - 1
      /\ UNCHANGED <<stream, inflated, line, previous, reference, scanlines, verdict>>
  BY DEF UP!ReadFilter
<1>2. PngTypes /\ PngReads
  BY <1>1 DEF PngInv
<1>3. /\ Len(stream) = UP!StreamLength + 1 /\ UP!StreamLength \in Nat /\ stream \in Seq(Nat)
      /\ UP!LineLength \in Nat
  BY <1>2, StreamsAreSequences, LinesHaveBytes DEF PngTypes
<1>4. inflated \in Nat /\ unread \in Nat /\ inflated <= Len(stream) /\ unread <= inflated /\ scanlines \in Nat
  BY <1>2, <1>3 DEF PngTypes
<1>5. inflated - unread = scanlines * (UP!LineLength + 1) /\ line = <<>>
  <2>1. inflated - unread = scanlines * (UP!LineLength + 1) + 0 /\ line = <<>>
    BY <1>1, <1>2 DEF PngReads
  <2>2. scanlines * (UP!LineLength + 1) \in Nat
    BY <1>3, <1>4
  <2>3. QED
    BY <2>1, <2>2
<1>6. filterType' \in Filters /\ filterType' \in Nat /\ filterType' = UP!FilterOf(scanlines + 1)
  <2>1. inflated - unread + 1 \in 1 .. Len(stream)
    BY <1>1, <1>4
  <2>2. (scanlines + 1) - 1 = scanlines
    BY <1>4
  <2>3. UP!FilterOf(scanlines + 1) = stream[scanlines * (UP!LineLength + 1) + 1]
    BY <2>2 DEF UP!FilterOf
  <2>4. filterType' \in Nat /\ filterType' = UP!FilterOf(scanlines + 1)
    BY <1>1, <1>3, <1>5, <2>1, <2>3
  <2>5. CASE scanlines < Height
    <3>1. scanlines + 1 \in 1 .. Height
      BY <1>4, <2>5, PictureHasPixels
    <3>2. QED
      BY <1>2, <2>4, <3>1, BytesAreBytes DEF PngTypes
  <2>6. CASE scanlines = Height
    <3>1. scanlines * (UP!LineLength + 1) = UP!StreamLength
      BY <1>3, <1>4, <2>6, LinesHaveBytes
    <3>2. UP!FilterOf(scanlines + 1) = stream[UP!StreamLength + 1]
      BY <2>3, <3>1
    <3>3. stream[UP!StreamLength + 1] = 0
      BY <1>2 DEF PngTypes, UP!Streams
    <3>4. QED
      BY <2>4, <3>2, <3>3, PictureHasPixels
  <2>7. QED
    BY <1>2, <2>4, <2>5, <2>6, PictureHasPixels DEF PngTypes
<1>7. PngTypes'
  BY <1>1, <1>2, <1>4, <1>6, StreamStays DEF PngTypes
<1>8. inflated' - unread' = scanlines' * (UP!LineLength + 1)
                             + (IF filterType' < 0 THEN 0 ELSE 1 + Len(line'))
  <2>1. ~(filterType' < 0) /\ Len(line') = 0
    BY <1>1, <1>5, <1>6
  <2>2. inflated' - unread' = (inflated - unread) + 1 /\ inflated - unread \in Nat
    BY <1>1, <1>4
  <2>3. QED
    BY <1>1, <1>5, <2>1, <2>2
<1>9. PngReads'
  BY <1>1, <1>2, <1>5, <1>6, <1>8, StreamStays DEF PngReads
<1>10. QED
  BY <1>1, <1>7, <1>9 DEF PngInv

\* The stream ends, or cannot be inflated any further.
LEMMA StreamIsOver ==
    ASSUME PngInv, UP!StreamEnds \/ UP!StreamFails
    PROVE  PngInv'
<1>1. /\ verdict = "reading" /\ unread = 0
      /\ verdict' = "unknown" \/ (verdict' = "uniform" /\ scanlines = Height)
      /\ UNCHANGED <<stream, inflated, unread, filterType, line, previous, reference, scanlines>>
  BY DEF UP!StreamEnds, UP!StreamFails, UP!decoder
<1>2. PngTypes /\ PngReads
  BY <1>1 DEF PngInv
<1>3. PngTypes'
  BY <1>1, <1>2, StreamStays DEF PngTypes
<1>4. ASSUME scanlines = Height PROVE UP!Rows = Height
  <2>1. UP!LineLength \in Nat \ {0} /\ inflated \in Nat /\ scanlines \in Nat /\ Len(line) \in Nat
    BY <1>2, LinesHaveBytes, PictureHasPixels DEF PngTypes
  <2> DEFINE k == IF filterType < 0 THEN 0 ELSE 1 + Len(line)
  <2>2. k \in 0 .. UP!LineLength
    BY <1>2, <2>1 DEF PngTypes
  <2>3. inflated = scanlines * (UP!LineLength + 1) + k
    <3>1. inflated - unread = scanlines * (UP!LineLength + 1) + k
      BY <1>2 DEF PngReads
    <3>2. QED
      BY <1>1, <2>1, <3>1
  <2> HIDE DEF k
  <2>4. QED
    BY <1>4, <2>1, <2>2, <2>3, RowsAre
<1>5. UP!Rows' = UP!Rows
  BY <1>1 DEF UP!Rows
<1>6. verdict' = "uniform" => UP!Rows' = Height /\ UP!Sound(Height)' /\ UP!OneColour(Height)'
  <2>1. verdict' = "uniform" => scanlines = Height
    BY <1>1
  <2>2. scanlines = Height => UP!Sound(Height)' /\ UP!OneColour(Height)'
    BY <1>1, <1>2, StreamStays DEF PngReads
  <2>3. QED
    BY <1>4, <1>5, <2>1, <2>2
<1>7. verdict' # "reading" /\ verdict' # "differs"
  BY <1>1
<1>8. QED
  BY <1>3, <1>6, <1>7 DEF PngInv

\* A line that is read in full: it is the next of the picture, and is of the one
\* colour or is not.
LEMMA LineIsRead ==
    ASSUME PngTypes, PngReads, filterType \in 0 .. 4, scanlines + 1 \in 1 .. Height, NEW taken,
           \A i \in 1 .. UP!LineLength : taken[i] = UP!ByteOf(scanlines + 1, i)
    PROVE  LET whole == UP!unfilterScanline(filterType, taken, previous)
               first == IF scanlines = 0 THEN SubSeq(whole, 1, Channels) ELSE reference
               differs == \E i \in 1 .. UP!LineLength :
                              whole[i] # first[((i - 1) % Channels) + 1]
           IN  /\ whole \in [1 .. UP!LineLength -> UP!Bytes]
               /\ \A i \in 1 .. UP!LineLength : whole[i] = UP!Picture[scanlines + 1][i]
               /\ \A c \in 1 .. Channels : first[c] = UP!Picture[1][c]
               /\ UP!Sound(scanlines + 1)
               /\ differs <=> ~UP!OneColour(scanlines + 1)
<1> DEFINE n == UP!LineLength
           s == scanlines
           P == UP!Picture
           W == [i \in 1 .. n |-> P[s + 1][i]]
           first == IF s = 0 THEN SubSeq(W, 1, Channels) ELSE reference
           differs == \E i \in 1 .. n : W[i] # first[((i - 1) % Channels) + 1]
<1>1. /\ n \in Nat \ {0} /\ Channels \in Nat \ {0} /\ Channels <= n /\ s \in Nat
      /\ stream \in UP!Streams /\ s + 1 \in 1 .. Height /\ (s + 1) - 1 = s
  BY LinesHaveBytes, PictureHasPixels DEF PngTypes
<1>2. filterType = UP!FilterOf(s + 1)
  BY DEF PngReads
<1>3. UP!unfilterScanline(filterType, taken, previous) = W
  <2>1. \A i \in 1 .. n : previous[i] = P[(s + 1) - 1][i]
    BY <1>1 DEF PngReads
  <2>2. \A i \in 1 .. n : taken[i] = UP!ByteOf(s + 1, i)
    OBVIOUS
  <2>3. UP!unfilterScanline(UP!FilterOf(s + 1), taken, previous) = W
    BY <1>1, <2>1, <2>2, LineIsThePictures
  <2>4. QED
    BY <1>2, <2>3
<1>4. \A i \in 1 .. n : W[i] = P[s + 1][i]
  OBVIOUS
<1>5. /\ P[s + 1] \in Padded /\ \A i \in 1 .. n : P[s + 1][i] \in Nat
      /\ W \in [1 .. n -> UP!Bytes]
  <2>1. P[s + 1] \in Padded
    BY <1>1, PictureIs
  <2>2. \A i \in 1 .. n : i \in 1 - Channels .. n
    BY <1>1
  <2>3. UP!Bytes \subseteq Nat
    BY DEF UP!Bytes
  <2>4. QED
    BY <2>1, <2>2, <2>3 DEF Padded
<1>6. \A c \in 1 .. Channels : first[c] = P[1][c]
  <2>1. CASE s = 0
    <3>1. W \in Seq(Nat) /\ Len(W) = n
      BY <1>1, <1>5
    <3> HIDE DEF W
    <3>2. \A c \in 1 .. Channels : SubSeq(W, 1, Channels)[c] = W[c] /\ c \in 1 .. n
      BY <1>1, <3>1
    <3>3. \A c \in 1 .. Channels : first[c] = W[c]
      BY <2>1, <3>2
    <3>4. s + 1 = 1
      BY <2>1
    <3> HIDE DEF first, s
    <3>5. QED
      BY <1>4, <3>2, <3>3, <3>4
  <2>2. CASE s # 0
    BY <1>1, <2>2 DEF PngReads
  <2>3. QED
    BY <2>1, <2>2
<1> HIDE DEF first, W
<1>7. UP!Sound(s + 1)
  <2>1. \A r \in 1 .. s + 1 : r \in 1 .. s \/ r = s + 1
    BY <1>1
  <2>2. UP!Sound(s) /\ UP!FilterOf(s + 1) <= 4
    BY <1>2 DEF PngReads
  <2>3. QED
    BY <2>1, <2>2 DEF UP!Sound
<1>8. \A i \in 1 .. n : ((i - 1) % Channels) + 1 \in 1 .. Channels
  BY <1>1
<1>9. \A i \in 1 .. n : first[((i - 1) % Channels) + 1] = P[1][((i - 1) % Channels) + 1]
  BY <1>6, <1>8
<1>10. differs <=> ~UP!OneColour(s + 1)
  <2> DEFINE here(r) == \A i \in 1 .. n : P[r][i] = P[1][((i - 1) % Channels) + 1]
  <2>1. differs <=> ~here(s + 1)
    BY <1>4, <1>9
  <2>2. \A k : UP!OneColour(k) <=> \A r \in 1 .. k : here(r)
    BY DEF UP!OneColour
  <2>3. \A r \in 1 .. s : here(r)
    BY <2>2 DEF PngReads
  <2>4. \A r \in 1 .. s + 1 : r \in 1 .. s \/ r = s + 1
    BY <1>1
  <2>5. s + 1 \in 1 .. s + 1
    BY <1>1
  <2> HIDE DEF here, differs
  <2>6. QED
    BY <2>1, <2>2, <2>3, <2>4, <2>5
<1>11. QED
  BY <1>3, <1>4, <1>5, <1>6, <1>7, <1>10 DEF first

\* The bytes of a line are read.
LEMMA BytesAreRead ==
    ASSUME PngInv, UP!TakeBytes
    PROVE  PngInv'
<1> DEFINE d == UP!LineLength + 1
           take == IF unread < UP!LineLength - Len(line) THEN unread ELSE UP!LineLength - Len(line)
           offset == inflated - unread
           taken == line \o SubSeq(stream, offset + 1, offset + take)
           whole == UP!unfilterScanline(filterType, taken, previous)
           first == IF scanlines = 0 THEN SubSeq(whole, 1, Channels) ELSE reference
           differs == \E i \in 1 .. UP!LineLength : whole[i] # first[((i - 1) % Channels) + 1]
<1>1. /\ unread > 0 /\ filterType >= 0 /\ verdict = "reading" /\ UNCHANGED <<stream, inflated>>
      /\ \/ /\ Len(taken) < UP!LineLength
            /\ line' = taken /\ unread' = unread - take
            /\ UNCHANGED <<filterType, previous, reference, scanlines, verdict>>
         \/ /\ ~(Len(taken) < UP!LineLength) /\ filterType > 4
            /\ verdict' = "unknown" /\ unread' = 0
            /\ UNCHANGED <<filterType, line, previous, reference, scanlines>>
         \/ /\ ~(Len(taken) < UP!LineLength) /\ ~(filterType > 4)
            /\ reference' = first /\ previous' = whole
            /\ line' = <<>> /\ filterType' = -1 /\ scanlines' = scanlines + 1
            /\ verdict' = IF differs THEN "differs" ELSE "reading"
            /\ unread' = IF differs THEN 0 ELSE unread - take
  BY DEF UP!TakeBytes, UP!decoder, UP!Kept
<1>2. PngTypes /\ PngReads
  BY <1>1 DEF PngInv
<1>3. /\ Len(stream) = UP!StreamLength + 1 /\ UP!StreamLength \in Nat /\ stream \in Seq(Nat)
      /\ UP!LineLength \in Nat \ {0} /\ d \in Nat /\ d >= 2
      /\ UP!StreamLength = d * Height /\ Height \in Nat
  BY <1>2, StreamsAreSequences, LinesHaveBytes, PictureHasPixels DEF PngTypes
<1>4. /\ inflated \in Nat /\ unread \in Nat /\ inflated <= Len(stream) /\ unread <= inflated
      /\ scanlines \in Nat /\ scanlines <= Height /\ line \in Seq(Nat) /\ Len(line) \in Nat
      /\ filterType \in Int /\ Len(line) < UP!LineLength
  <2>1. inflated \in 0 .. Len(stream) /\ Len(stream) \in Nat
    BY <1>2, <1>3 DEF PngTypes
  <2>2. inflated \in Nat /\ inflated <= Len(stream)
    BY <2>1
  <2>3. unread \in 0 .. inflated /\ scanlines \in 0 .. Height /\ line \in Seq(Nat) /\ filterType \in Int
    BY <1>2, PictureHasPixels DEF PngTypes
  <2>4. Len(line) < UP!LineLength
    BY <1>2 DEF PngTypes
  <2>5. QED
    BY <1>3, <2>2, <2>3, <2>4
<1>5. /\ take \in Nat /\ take <= unread /\ offset \in Nat /\ offset + take <= inflated
      /\ Len(line) + take <= UP!LineLength /\ offset + take <= Len(stream) /\ take > 0
  <2>1. unread > 0
    BY <1>1
  <2>2. take = unread \/ take = UP!LineLength - Len(line)
    OBVIOUS
  <2>3. take <= unread /\ take <= UP!LineLength - Len(line) /\ take \in Nat /\ take > 0
    BY <1>3, <1>4, <2>1
  <2>4. take # unread => take = UP!LineLength - Len(line)
    OBVIOUS
  <2>5. offset \in Nat /\ offset + unread = inflated
    BY <1>4
  <2> HIDE DEF take, offset
  <2>6. offset + take <= inflated /\ offset + take <= Len(stream) /\ Len(line) + take <= UP!LineLength
    BY <1>3, <1>4, <2>3, <2>5
  <2>7. QED
    BY <1>3, <1>4, <2>3, <2>5, <2>6
<1>6. offset = scanlines * d + 1 + Len(line)
  <2>1. ~(filterType < 0) /\ scanlines * d \in Nat
    BY <1>1, <1>3, <1>4
  <2>2. inflated - unread = scanlines * d + (1 + Len(line))
    BY <1>2, <2>1 DEF PngReads
  <2>3. QED
    BY <1>4, <2>1, <2>2
<1> HIDE DEF take, offset
<1>7. /\ taken \in Seq(Nat) /\ Len(taken) = Len(line) + take
      /\ \A i \in 1 .. Len(line) : taken[i] = line[i]
      /\ \A i \in 1 .. take : taken[Len(line) + i] = stream[offset + i]
  <2>1. offset \in Nat /\ take \in Nat /\ offset + take <= Len(stream) /\ stream \in Seq(Nat) /\ line \in Seq(Nat)
    BY <1>3, <1>4, <1>5
  <2>2. QED
    BY <2>1, BytesAreTaken
<1> HIDE DEF taken
<1>8. \A i \in 1 .. Len(taken) : taken[i] = UP!ByteOf(scanlines + 1, i)
  <2>1. SUFFICES ASSUME NEW i \in 1 .. Len(taken) PROVE taken[i] = UP!ByteOf(scanlines + 1, i)
    OBVIOUS
  <2>2. CASE i <= Len(line)
    <3>1. i \in 1 .. Len(line)
      BY <1>4, <1>5, <1>7, <2>2
    <3>2. QED
      BY <1>2, <1>7, <3>1 DEF PngReads
  <2>3. CASE i > Len(line)
    <3>1. i - Len(line) \in 1 .. take /\ Len(line) + (i - Len(line)) = i
      BY <1>4, <1>5, <1>7, <2>3
    <3>2. taken[i] = stream[offset + (i - Len(line))]
      BY <1>7, <3>1
    <3>3. (scanlines + 1) - 1 = scanlines /\ scanlines * d \in Nat
      BY <1>3, <1>4
    <3>4. offset + (i - Len(line)) = scanlines * d + 1 + i
      BY <1>4, <1>6, <3>3
    <3>5. UP!ByteOf(scanlines + 1, i) = stream[scanlines * d + 1 + i]
      BY <3>3 DEF UP!ByteOf
    <3>6. QED
      BY <3>2, <3>4, <3>5
  <2>4. QED
    BY <1>4, <1>5, <1>7, <2>2, <2>3
<1>9. scanlines * d \in Nat /\ (scanlines + 1) * d = scanlines * d + d
  BY <1>3, <1>4
<1>10. CASE Len(taken) < UP!LineLength
  <2>1. /\ line' = taken /\ unread' = unread - take
        /\ UNCHANGED <<filterType, previous, reference, scanlines, verdict, stream, inflated>>
    BY <1>1, <1>10
  <2>2. PngTypes'
    <3>1. unread' \in 0 .. inflated'
      BY <1>4, <1>5, <2>1
    <3>2. QED
      BY <1>2, <1>7, <1>10, <2>1, <3>1, StreamStays DEF PngTypes
  <2>3. inflated' - unread' = scanlines' * d + (IF filterType' < 0 THEN 0 ELSE 1 + Len(line'))
    <3>1. inflated' - unread' = offset + take
      BY <1>4, <1>5, <2>1 DEF offset
    <3>2. ~(filterType' < 0) /\ Len(line') = Len(line) + take /\ scanlines' = scanlines
      BY <1>1, <1>4, <1>7, <2>1
    <3>3. offset + take = scanlines * d + (1 + (Len(line) + take))
      BY <1>4, <1>5, <1>6, <1>9
    <3>4. QED
      BY <3>1, <3>2, <3>3
  <2>4. \A i \in 1 .. Len(line') : line'[i] = UP!ByteOf(scanlines + 1, i)'
    BY <1>8, <2>1, StreamStays
  <2>5. ~(filterType < 0) /\ Len(line') < UP!LineLength
    BY <1>1, <1>4, <1>10, <2>1
  <2>6. PngReads'
    BY <1>2, <2>1, <2>3, <2>4, <2>5, StreamStays DEF PngReads
  <2>7. QED
    BY <1>1, <2>1, <2>2, <2>6 DEF PngInv
<1>11. CASE ~(Len(taken) < UP!LineLength) /\ filterType > 4
  <2>1. /\ verdict' = "unknown" /\ unread' = 0
        /\ UNCHANGED <<filterType, line, previous, reference, scanlines, stream, inflated>>
    BY <1>1, <1>11
  <2>2. PngTypes'
    BY <1>2, <1>4, <2>1, StreamStays DEF PngTypes
  <2>3. QED
    BY <2>1, <2>2 DEF PngInv
<1>12. CASE ~(Len(taken) < UP!LineLength) /\ ~(filterType > 4)
  <2>1. /\ reference' = first /\ previous' = whole
        /\ line' = <<>> /\ filterType' = -1 /\ scanlines' = scanlines + 1
        /\ verdict' = (IF differs THEN "differs" ELSE "reading")
        /\ unread' = (IF differs THEN 0 ELSE unread - take)
        /\ UNCHANGED <<stream, inflated>>
    BY <1>1, <1>12
  <2>2. Len(taken) = UP!LineLength /\ offset + take = (scanlines + 1) * d
    <3>1. Len(taken) = UP!LineLength
      <4>1. Len(taken) \in Nat /\ Len(taken) <= UP!LineLength /\ UP!LineLength \in Nat
        BY <1>3, <1>4, <1>5, <1>7
      <4>2. QED
        BY <1>12, <4>1
    <3>2. QED
      <4>1. Len(line) + take = d - 1
        BY <1>3, <1>7, <3>1
      <4>2. d \in Nat /\ scanlines * d \in Nat /\ take \in Nat /\ Len(line) \in Nat
        BY <1>3, <1>4, <1>5, <1>9
      <4> DEFINE x == scanlines * d
                 y == (scanlines + 1) * d
      <4>3. x \in Nat /\ y = x + d /\ offset = x + 1 + Len(line)
        BY <1>6, <1>9
      <4> HIDE DEF d, x, y
      <4>4. offset + take = y
        BY <4>1, <4>2, <4>3
      <4>5. QED
        BY <3>1, <4>4 DEF y
  <2>3. (scanlines + 1) * d <= inflated
    BY <1>5, <2>2
  <2>4. scanlines + 1 <= Height
    <3>1. SUFFICES ASSUME Height <= scanlines PROVE FALSE
      BY <1>3, <1>4
    <3>2. Height * d <= scanlines * d /\ Height * d \in Nat
      BY <1>3, <1>4, <3>1, MoreTimes
    <3>3. Height * d = UP!StreamLength
      BY <1>3
    <3> HIDE DEF d
    <3>4. QED
      BY <1>3, <1>4, <1>9, <2>3, <3>2, <3>3
  <2>5. /\ whole \in [1 .. UP!LineLength -> UP!Bytes]
        /\ \A i \in 1 .. UP!LineLength : whole[i] = UP!Picture[scanlines + 1][i]
        /\ \A c \in 1 .. Channels : first[c] = UP!Picture[1][c]
        /\ UP!Sound(scanlines + 1)
        /\ differs <=> ~UP!OneColour(scanlines + 1)
    <3>1. \A i \in 1 .. UP!LineLength : taken[i] = UP!ByteOf(scanlines + 1, i)
      BY <1>8, <2>2
    <3>2. filterType \in 0 .. 4 /\ scanlines + 1 \in 1 .. Height
      BY <1>1, <1>3, <1>4, <1>12, <2>4
    <3>3. QED
      BY <1>2, <3>1, <3>2, LineIsRead
  <2> HIDE DEF whole, first, differs
  <2>6. PngTypes'
    <3>1. unread' \in 0 .. inflated'
      BY <1>4, <1>5, <2>1
    <3>2. scanlines' \in 0 .. Height
      BY <1>3, <1>4, <2>1, <2>4
    <3>3. verdict' \in {"reading", "uniform", "differs", "unknown"}
      BY <2>1
    <3>4. /\ line' \in Seq(Nat) /\ filterType' \in Filters \cup {-1} /\ inflated' = inflated
          /\ previous' \in [1 .. UP!LineLength -> UP!Bytes] /\ Len(line') < UP!LineLength
      BY <1>3, <2>1, <2>5
    <3>5. QED
      BY <1>2, <2>1, <3>1, <3>2, <3>3, <3>4, StreamStays DEF PngTypes
  <2>7. CASE differs
    <3>1. verdict' = "differs"
      BY <2>1, <2>7
    <3>2. ~UP!OneColour(scanlines + 1)
      BY <2>5, <2>7
    <3>3. ~UP!OneColour(scanlines)'
      <4>1. \A r : UP!OneColour(r)' = UP!OneColour(r)
        BY <2>1, StreamStays
      <4>2. UP!Picture' = UP!Picture
        BY <2>1, StreamStays
      <4>3. QED
        BY <2>1, <3>2, <4>2 DEF UP!OneColour
    <3>4. UP!Rows' > 0
      <4>1. 1 * d <= (scanlines + 1) * d /\ 1 * d = d
        <5>1. 1 <= scanlines + 1 /\ scanlines + 1 \in Nat /\ 1 \in Nat
          BY <1>4
        <5>2. QED
          BY <1>3, <5>1, MoreTimes
      <4>2. d <= inflated
        BY <1>3, <1>4, <1>9, <2>3, <4>1
      <4>3. \A x \in Nat : x < (x \div d) * d + d /\ x \div d \in Nat
        <5>1. d \in Nat \ {0}
          BY <1>3
        <5> HIDE DEF d
        <5>2. QED
          BY <5>1
      <4>4. inflated \div d > 0
        <5>1. inflated \div d \in Nat /\ inflated < (inflated \div d) * d + d
          BY <1>4, <4>3
        <5>2. inflated \div d # 0
          <6>1. 0 * d = 0
            BY <1>3
          <6>2. QED
            BY <1>3, <1>4, <4>2, <5>1, <6>1
        <5>3. QED
          BY <5>1, <5>2
      <4>5. QED
        BY <2>1, <4>4 DEF UP!Rows
    <3>5. QED
      BY <2>6, <3>1, <3>3, <3>4 DEF PngInv
  <2>8. CASE ~differs
    <3>1. verdict' = "reading" /\ unread' = unread - take
      BY <2>1, <2>8
    <3>2. UP!Sound(scanlines)' /\ UP!OneColour(scanlines)'
      <4>1. UP!Picture' = UP!Picture /\ \A r : UP!FilterOf(r)' = UP!FilterOf(r)
        BY <2>1, StreamStays
      <4>2. QED
        BY <2>1, <2>5, <2>8, <4>1 DEF UP!OneColour, UP!Sound
    <3>3. inflated' - unread' = scanlines' * d + (IF filterType' < 0 THEN 0 ELSE 1 + Len(line'))
      <4>1. inflated' - unread' = offset + take
        BY <1>4, <1>5, <2>1, <3>1 DEF offset
      <4>2. filterType' < 0 /\ scanlines' * d = (scanlines + 1) * d /\ (scanlines + 1) * d \in Nat
        BY <1>3, <1>9, <2>1
      <4>3. QED
        BY <2>2, <4>1, <4>2
    <3>4. Len(line') = 0 /\ filterType' < 0 /\ line' = <<>> /\ ~(filterType' >= 0) /\ 1 .. Len(line') = {}
      BY <2>1
    <3>5. Len(line') < UP!LineLength
      BY <1>3, <3>4
    <3>6. /\ \A i \in 1 .. UP!LineLength : previous'[i] = UP!Picture'[scanlines'][i]
          /\ \A c \in 1 .. Channels : reference'[c] = UP!Picture'[1][c]
      <4>1. UP!Picture' = UP!Picture
        BY <2>1, StreamStays
      <4>2. QED
        BY <2>1, <2>5, <4>1
    <3>7. PngReads'
      BY <3>2, <3>3, <3>4, <3>5, <3>6 DEF PngReads
    <3>8. QED
      BY <2>6, <3>1, <3>7 DEF PngInv
  <2>9. QED
    BY <2>7, <2>8
<1>13. QED
  BY <1>10, <1>11, <1>12

LEMMA PngStep == PngInv /\ [UP!Next]_(UP!pngVars) => PngInv'
<1> SUFFICES ASSUME PngInv, [UP!Next]_(UP!pngVars) PROVE PngInv'
  OBVIOUS
<1>1. CASE UNCHANGED UP!pngVars
  <2>1. UNCHANGED <<stream, inflated, unread, filterType, line, previous, reference, scanlines, verdict>>
    BY <1>1 DEF UP!pngVars, UP!decoder
  <2>2. PngTypes'
    BY <2>1, StreamStays DEF PngInv, PngTypes
  <2>3. (verdict = "reading" => PngReads)'
    BY <2>1, StreamStays DEF PngInv, PngReads
  <2>4. UP!Rows' = UP!Rows
    BY <2>1 DEF UP!Rows
  <2>5. QED
    BY <2>1, <2>2, <2>3, <2>4, StreamStays DEF PngInv
<1>2. QED
  BY <1>1, ChunkComes, FilterIsRead, BytesAreRead, StreamIsOver DEF UP!Next

LEMMA PngKept == PngInv => UP!VerdictIsThePictures
<1> SUFFICES ASSUME PngInv PROVE UP!VerdictIsThePictures
  OBVIOUS
<1>1. ASSUME verdict = "reading", unread = 0 PROVE UP!Rows = scanlines
  <2>1. PngTypes /\ PngReads
    BY <1>1 DEF PngInv
  <2>2. UP!LineLength \in Nat \ {0} /\ inflated \in Nat /\ scanlines \in Nat /\ Len(line) \in Nat
    BY <2>1, LinesHaveBytes, PictureHasPixels DEF PngTypes
  <2> DEFINE k == IF filterType < 0 THEN 0 ELSE 1 + Len(line)
  <2>3. k \in 0 .. UP!LineLength
    BY <2>1, <2>2 DEF PngTypes
  <2>4. inflated = scanlines * (UP!LineLength + 1) + k
    <3>1. inflated - unread = scanlines * (UP!LineLength + 1) + k
      BY <2>1 DEF PngReads
    <3>2. QED
      BY <1>1, <2>2, <3>1
  <2> HIDE DEF k
  <2>5. QED
    BY <2>2, <2>3, <2>4, RowsAre
<1>2. verdict = "reading" => UP!Sound(scanlines) /\ UP!OneColour(scanlines)
  BY DEF PngInv, PngReads
<1>3. QED
  BY <1>1, <1>2 DEF PngInv, UP!VerdictIsThePictures

LEMMA PngTypeKept == PngInv => UP!TypeOK
BY StreamsAreSequences DEF PngInv, PngTypes, UP!TypeOK

-----------------------------------------------------------------------------
(* The parts together *)

AnswersPart == part = "answers" => AnswerInv

LEMMA AnswersPartFirst == AnswerInit => AnswersPart
<1>1. ASSUME AnswerInit, part = "answers" PROVE AN!Init
  BY <1>1 DEF AnswerInit
<1>2. QED
  BY <1>1, AnswerFirst DEF AnswersPart

LEMMA AnswersPartStep == AnswersPart /\ [AnswerNext]_vars => AnswersPart'
<1> SUFFICES ASSUME AnswersPart, [AnswerNext]_vars, part' = "answers" PROVE AnswerInv'
  BY DEF AnswersPart
<1>1. part = "answers" /\ [AN!Next]_(AN!answerVars)
  <2>1. CASE AnswerNext
    BY <2>1 DEF AnswerNext
  <2>2. CASE UNCHANGED vars
    BY <2>2 DEF vars, AN!answerVars, AN!contextVars, AN!textVars, listed, selected,
       fallback, running, tool, at, parts, failed, titles, marked, told, moved
  <2>3. QED
    BY <2>1, <2>2
<1>2. AnswerInv
  BY <1>1 DEF AnswersPart
<1>3. QED
  BY <1>1, <1>2, AnswerStep

TracesPart == part = "traces" => TraceInv

LEMMA TracesPartFirst == AnswerInit => TracesPart
<1>1. ASSUME AnswerInit, part = "traces" PROVE ST!Init
  BY <1>1 DEF AnswerInit
<1>2. QED
  BY <1>1, TraceFirst DEF TracesPart

LEMMA TracesPartStep == TracesPart /\ [AnswerNext]_vars => TracesPart'
<1> SUFFICES ASSUME TracesPart, [AnswerNext]_vars, part' = "traces" PROVE TraceInv'
  BY DEF TracesPart
<1>1. part = "traces" /\ [ST!Next]_(ST!traceVars)
  <2>1. CASE AnswerNext
    BY <2>1 DEF AnswerNext
  <2>2. CASE UNCHANGED vars
    BY <2>2 DEF vars, ST!traceVars, ST!worldVars, attached, parsed, settled, asked,
       origin, frames, causeOf, stage, current, used, waits, links
  <2>3. QED
    BY <2>1, <2>2
<1>2. TraceInv
  BY <1>1 DEF TracesPart
<1>3. QED
  BY <1>1, <1>2, TraceStep

SnapshotsPart == part = "snapshots" => SnapshotInv

LEMMA SnapshotsPartFirst == AnswerInit => SnapshotsPart
<1>1. ASSUME AnswerInit, part = "snapshots" PROVE TS!Init
  BY <1>1 DEF AnswerInit
<1>2. QED
  BY <1>1, SnapshotFirst DEF SnapshotsPart

LEMMA SnapshotsPartStep == SnapshotsPart /\ [AnswerNext]_vars => SnapshotsPart'
<1> SUFFICES ASSUME SnapshotsPart, [AnswerNext]_vars, part' = "snapshots" PROVE SnapshotInv'
  BY DEF SnapshotsPart
<1>1. part = "snapshots" /\ [TS!Next]_(TS!snapshotVars)
  <2>1. CASE AnswerNext
    BY <2>1 DEF AnswerNext
  <2>2. CASE UNCHANGED vars
    BY <2>2 DEF vars, TS!snapshotVars, document, mcpIds, extraHandles, textSnapshot,
       nextSnapshotId, making, named
  <2>3. QED
    BY <2>1, <2>2
<1>2. SnapshotInv
  BY <1>1 DEF SnapshotsPart
<1>3. QED
  BY <1>1, <1>2, SnapshotStep

HeapsPart == part = "heaps" => HeapInv

LEMMA HeapsPartFirst == AnswerInit => HeapsPart
<1>1. ASSUME AnswerInit, part = "heaps" PROVE HS!Init
  BY <1>1 DEF AnswerInit
<1>2. QED
  BY <1>1, HeapFirst DEF HeapsPart

LEMMA HeapsPartStep == HeapsPart /\ [AnswerNext]_vars => HeapsPart'
<1> SUFFICES ASSUME HeapsPart, [AnswerNext]_vars, part' = "heaps" PROVE HeapInv'
  BY DEF HeapsPart
<1>1. part = "heaps" /\ [HS!Next]_(HS!heapVars)
  <2>1. CASE AnswerNext
    BY <2>1 DEF AnswerNext
  <2>2. CASE UNCHANGED vars
    BY <2>2 DEF vars, HS!heapVars, HS!managerVars, onDisk, uid, loaded, nextUid,
       idToClassKey, diffs, leaked, told, shown
  <2>3. QED
    BY <2>1, <2>2
<1>2. HeapInv
  BY <1>1 DEF HeapsPart
<1>3. QED
  BY <1>1, <1>2, HeapStep

TreePart == part = "snapshots" => TreeInv

LEMMA TreePartFirst == AnswerInit => TreePart
<1>1. ASSUME AnswerInit, part = "snapshots" PROVE TS!Init
  BY <1>1 DEF AnswerInit
<1>2. QED
  BY <1>1, TreeFirst DEF TreePart

LEMMA TreePartStep == SnapshotsPart /\ SnapshotsPart' /\ TreePart /\ [AnswerNext]_vars => TreePart'
<1> SUFFICES ASSUME SnapshotsPart, SnapshotsPart', TreePart, [AnswerNext]_vars,
                    part' = "snapshots"
             PROVE  TreeInv'
  BY DEF TreePart
<1>1. part = "snapshots" /\ [TS!Next]_(TS!snapshotVars)
  <2>1. CASE AnswerNext
    BY <2>1 DEF AnswerNext
  <2>2. CASE UNCHANGED vars
    BY <2>2 DEF vars, TS!snapshotVars, document, mcpIds, extraHandles, textSnapshot,
       nextSnapshotId, making, named
  <2>3. QED
    BY <2>1, <2>2
<1>2. SnapshotInv /\ SnapshotInv' /\ TreeInv
  BY <1>1 DEF SnapshotsPart, TreePart
<1>3. QED
  BY <1>1, <1>2, TreeStep

ListingsPart == part = "listings" => ListInv

LEMMA ListingsPartFirst == AnswerInit => ListingsPart
<1>1. ASSUME AnswerInit, part = "listings" PROVE LI!Init
  BY <1>1 DEF AnswerInit
<1>2. QED
  BY <1>1, ListFirst DEF ListingsPart

LEMMA ListingsPartStep == ListingsPart /\ [AnswerNext]_vars => ListingsPart'
<1> SUFFICES ASSUME ListingsPart, [AnswerNext]_vars, part' = "listings" PROVE ListInv'
  BY DEF ListingsPart
<1>1. part = "listings" /\ [LI!Next]_(LI!listingVars)
  <2>1. CASE AnswerNext
    BY <2>1 DEF AnswerNext
  <2>2. CASE UNCHANGED vars
    BY <2>2 DEF vars, LI!listingVars, list, types, pageSize, log, pageIdx, shown,
       since, walking, navigated
  <2>3. QED
    BY <2>1, <2>2
<1>2. ListInv
  BY <1>1 DEF ListingsPart
<1>3. QED
  BY <1>1, <1>2, ListStep

PngPart == part = "png" => PngInv

LEMMA PngPartFirst == AnswerInit => PngPart
<1>1. ASSUME AnswerInit, part = "png" PROVE UP!Init
  BY <1>1 DEF AnswerInit
<1>2. QED
  BY <1>1, PngFirst DEF PngPart

LEMMA PngPartStep == PngPart /\ [AnswerNext]_vars => PngPart'
<1> SUFFICES ASSUME PngPart, [AnswerNext]_vars, part' = "png" PROVE PngInv'
  BY DEF PngPart
<1>1. part = "png" /\ [UP!Next]_(UP!pngVars)
  <2>1. CASE AnswerNext
    BY <2>1 DEF AnswerNext
  <2>2. CASE UNCHANGED vars
    BY <2>2 DEF vars, UP!pngVars, UP!decoder, stream, inflated, unread, filterType,
       line, previous, reference, scanlines, verdict
  <2>3. QED
    BY <2>1, <2>2
<1>2. PngInv
  BY <1>1 DEF PngPart
<1>3. QED
  BY <1>1, <1>2, PngStep

TypesPart ==
    /\ part = "answers" => AnswerMoreTypes
    /\ part = "traces" => TraceMoreTypes
    /\ part = "snapshots" => TS!TypeOK /\ MakingIsBounded
    /\ part = "heaps" => HS!TypeOK

LEMMA TypesPartFirst == AnswerInit => TypesPart
<1> SUFFICES ASSUME AnswerInit PROVE TypesPart
  OBVIOUS
<1>1. ASSUME part = "answers" PROVE AnswerMoreTypes
  <2>1. AN!Init
    BY <1>1 DEF AnswerInit
  <2>2. QED
    BY <2>1, AnswerMoreTypesFirst
<1>2. ASSUME part = "traces" PROVE TraceMoreTypes
  <2>1. ST!Init
    BY <1>2 DEF AnswerInit
  <2>2. QED
    BY <2>1, TraceMoreTypesFirst
<1>3. ASSUME part = "snapshots" PROVE TS!TypeOK /\ MakingIsBounded
  <2>1. TS!Init
    BY <1>3 DEF AnswerInit
  <2>2. QED
    BY <2>1, SnapshotTypeFirst
<1>4. ASSUME part = "heaps" PROVE HS!TypeOK
  <2>1. HS!Init
    BY <1>4 DEF AnswerInit
  <2>2. QED
    BY <2>1, HeapTypeFirst
<1>5. QED
  BY <1>1, <1>2, <1>3, <1>4 DEF TypesPart

LEMMA TypesPartStep ==
    AnswersPart /\ SnapshotsPart /\ HeapsPart /\ HeapsPart' /\ TypesPart /\ [AnswerNext]_vars
        => TypesPart'
<1> SUFFICES ASSUME AnswersPart, SnapshotsPart, HeapsPart, HeapsPart', TypesPart,
                    [AnswerNext]_vars
             PROVE  TypesPart'
  OBVIOUS
<1>1. ASSUME part' = "answers" PROVE AnswerMoreTypes'
  <2>1. part = "answers" /\ [AN!Next]_(AN!answerVars)
    <3>1. CASE AnswerNext
      BY <1>1, <3>1 DEF AnswerNext
    <3>2. CASE UNCHANGED vars
      BY <1>1, <3>2 DEF vars, AN!answerVars, AN!contextVars, AN!textVars, listed, selected,
         fallback, running, tool, at, parts, failed, titles, marked, told, moved
    <3>3. QED
      BY <3>1, <3>2
  <2>2. AnswerInv /\ AnswerMoreTypes
    BY <2>1 DEF AnswersPart, TypesPart
  <2>3. QED
    BY <2>1, <2>2, AnswerMoreTypesStep
<1>2. ASSUME part' = "traces" PROVE TraceMoreTypes'
  <2>1. part = "traces" /\ [ST!Next]_(ST!traceVars)
    <3>1. CASE AnswerNext
      BY <1>2, <3>1 DEF AnswerNext
    <3>2. CASE UNCHANGED vars
      BY <1>2, <3>2 DEF vars, ST!traceVars, ST!worldVars, attached, parsed, settled, asked,
         origin, frames, causeOf, stage, current, used, waits, links
    <3>3. QED
      BY <3>1, <3>2
  <2>2. TraceMoreTypes
    BY <2>1 DEF TypesPart
  <2>3. QED
    BY <2>1, <2>2, TraceMoreTypesStep
<1>3. ASSUME part' = "snapshots" PROVE (TS!TypeOK /\ MakingIsBounded)'
  <2>1. part = "snapshots" /\ [TS!Next]_(TS!snapshotVars)
    <3>1. CASE AnswerNext
      BY <1>3, <3>1 DEF AnswerNext
    <3>2. CASE UNCHANGED vars
      BY <1>3, <3>2 DEF vars, TS!snapshotVars, document, mcpIds, extraHandles, textSnapshot,
         nextSnapshotId, making, named
    <3>3. QED
      BY <3>1, <3>2
  <2>2. SnapshotInv /\ TS!TypeOK /\ MakingIsBounded
    BY <2>1 DEF SnapshotsPart, TypesPart
  <2>3. QED
    BY <2>1, <2>2, SnapshotTypeStep
<1>4. ASSUME part' = "heaps" PROVE HS!TypeOK'
  <2>1. part = "heaps" /\ [HS!Next]_(HS!heapVars)
    <3>1. CASE AnswerNext
      BY <1>4, <3>1 DEF AnswerNext
    <3>2. CASE UNCHANGED vars
      BY <1>4, <3>2 DEF vars, HS!heapVars, HS!managerVars, onDisk, uid, loaded, nextUid,
         idToClassKey, diffs, leaked, told, shown
    <3>3. QED
      BY <3>1, <3>2
  <2>2. HeapInv /\ HeapInv' /\ HS!TypeOK
    BY <1>4, <2>1 DEF HeapsPart, TypesPart
  <2>3. QED
    BY <2>1, <2>2, HeapTypeStep
<1>5. QED
  BY <1>1, <1>2, <1>3, <1>4 DEF TypesPart

\* For any calls, pages, tools, scripts, errors and chains of causes, in any order of
\* their steps: an answer calls one page selected at most unless the selection was
\* moved beside the queue, nothing of it runs behind it, and it tells its call's outcome
\* (McpResponse.ts); a trace in it has the source maps of its scripts, none is left out
\* for a script that was heard of, and causes follow the chain (DevtoolsUtils.ts).
THEOREM AnswersAreKeptWhole == AnswerSpec => []AnswersAreWhole
<1>1. AnswersPart /\ TracesPart => AnswersAreWhole
  BY AnswerKept DEF AnswersPart, TracesPart, AnswersAreWhole, TraceInv
<1>2. QED
  BY <1>1, AnswersPartFirst, AnswersPartStep, TracesPartFirst, TracesPartStep,
     PTL DEF AnswerSpec

\* For any pages, trees and files, in any order of navigations, snapshots made and
\* failed, files written, loaded and closed: the uid an answer has named leads to the
\* element it was given to, or to nothing (TextSnapshot.ts), and the id of a class of a
\* heap snapshot to that class, while the snapshot is loaded (HeapSnapshotManager.ts).
THEOREM IdsLeadBack == AnswerSpec => []SnapshotIdsResolve
<1>1. SnapshotsPart /\ HeapsPart => SnapshotIdsResolve
  BY SnapshotKept, HeapKept DEF SnapshotsPart, HeapsPart, SnapshotIdsResolve
<1>2. QED
  BY <1>1, SnapshotsPartFirst, SnapshotsPartStep, HeapsPartFirst, HeapsPartStep,
     PTL DEF AnswerSpec

\* For any pages and trees: no step gives an element that is in two snapshots of its
\* page, one after the other, another uid (TextSnapshot.create, insertExtraNodes).
THEOREM ElementsKeepTheirUids == AnswerSpec => UidsAreKept
<1>1. SnapshotsPart /\ [AnswerNext]_vars => [part = "snapshots" => TS!KeepsUids]_vars
  <2>1. SUFFICES ASSUME SnapshotsPart, AnswerNext, part = "snapshots" PROVE TS!KeepsUids
    OBVIOUS
  <2>2. TS!Next /\ SnapshotInv
    BY <2>1 DEF AnswerNext, SnapshotsPart
  <2>3. QED
    BY <2>2, UidsStay
<1>2. QED
  BY <1>1, SnapshotsPartFirst, SnapshotsPartStep, PTL DEF AnswerSpec, UidsAreKept

\* For any collected items, page sizes, trees and pictures: a walk through the pages of a
\* list shows everything that was asked for of what was there, once and in order, whatever
\* is collected meanwhile and however like messages are grouped (McpResponse.ts); the tree
\* of a snapshot has the document's elements below their closest ancestors that are in it,
\* those that tools have handed out as well (TextSnapshot.ts); and a picture is said to be
\* of one colour, or not to be, as it is, wherever the inflater's chunks end (screenshot.ts).
THEOREM AnswersShowIt == AnswerSpec => []AnswersShowWhatIsThere
<1>1. ListingsPart /\ TreePart /\ PngPart => AnswersShowWhatIsThere
  BY TreeKept, PngKept DEF ListingsPart, TreePart, PngPart, ListInv, AnswersShowWhatIsThere
<1>2. QED
  BY <1>1, ListingsPartFirst, ListingsPartStep, SnapshotsPartFirst, SnapshotsPartStep,
     TreePartFirst, TreePartStep, PngPartFirst, PngPartStep, PTL DEF AnswerSpec

\* What an answer is put together from stays what the modules say: a node of a snapshot
\* is an element, an extra handle is given out twice at most and numbers stay in their
\* bounds, those of the classes of a heap snapshot, of pages and of a picture's bytes.
THEOREM AnswerPartsAreTyped == AnswerSpec => []AnswerTypeOK
<1>1. ASSUME AnswersPart, TracesPart, ListingsPart, SnapshotsPart, HeapsPart, PngPart, TypesPart
      PROVE  AnswerTypeOK
  <2>1. part = "answers" => AN!TypeOK
    BY <1>1, AnswersAreTyped DEF AnswersPart, TypesPart
  <2>2. part = "traces" => ST!TypeOK
    BY <1>1, TracesAreTyped DEF TracesPart, TypesPart
  <2>3. part = "listings" => LI!TypeOK
    BY <1>1 DEF ListingsPart, ListInv, ListTypes
  <2>4. part = "snapshots" => TS!TypeOK
    BY <1>1 DEF TypesPart
  <2>5. part = "heaps" => HS!TypeOK
    BY <1>1 DEF TypesPart
  <2>6. part = "png" => UP!TypeOK
    BY <1>1, PngTypeKept DEF PngPart
  <2>7. QED
    BY <2>1, <2>2, <2>3, <2>4, <2>5, <2>6 DEF AnswerTypeOK
<1>2. QED
  BY <1>1, AnswersPartFirst, AnswersPartStep, TracesPartFirst, TracesPartStep,
     ListingsPartFirst, ListingsPartStep, SnapshotsPartFirst, SnapshotsPartStep,
     HeapsPartFirst, HeapsPartStep, PngPartFirst, PngPartStep, TypesPartFirst,
     TypesPartStep, PTL DEF AnswerSpec
=============================================================================
