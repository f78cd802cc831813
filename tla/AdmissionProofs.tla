-------------------------- MODULE AdmissionProofs --------------------------
(***************************************************************************)
(* Proofs about Admission, for any number of calls, browsers and names.    *)
(*                                                                         *)
(* The argument rests on two facts about what the map and the history say: *)
(* the notes of a browser are exactly its calls in flight (NotesAreCalls), *)
(* so a look into the map is a look at what runs; and whatever is still    *)
(* carried out after its call was over was struck off while it was carried *)
(* out (ForgottenRunsOn), so nothing else can lie behind an admission.     *)
(***************************************************************************)
EXTENDS Admission, TLAPS

\* What a daemon carries out for a call that is over was forgotten.
ForgottenRunsOn == \A c \in Calls : at[c] = "over" /\ c \in carriedOut => c \in forgotten

\* At most one exempt call per browser is in flight.
OneExempt ==
    \A c, d \in Calls :
        /\ at[c] \in InFlight /\ at[d] \in InFlight /\ sessionId[c] = sessionId[d]
        /\ command[c] = ABANDONMENT_EXEMPT_COMMAND /\ command[d] = ABANDONMENT_EXEMPT_COMMAND
        => c = d

IInv == TypeOK /\ NotesAreCalls /\ ForgottenRunsOn /\ OneExempt /\ NothingBehindAnAbandonedCall

-----------------------------------------------------------------------------

\* Every variable keeps its type.
THEOREM TypeCorrect == Spec => []TypeOK
<1>1. Init => TypeOK
  BY RestartsAreBounded DEF Init, TypeOK, Stage
<1>2. TypeOK /\ [Next]_vars => TypeOK'
  <2> SUFFICES ASSUME TypeOK, [Next]_vars PROVE TypeOK'
    OBVIOUS
  <2> USE DEF TypeOK, Stage, InFlight, request
  <2>1. ASSUME NEW c \in Calls, Admit(c) PROVE TypeOK'
    <3>1. callsInFlight' \in [Keys -> SUBSET Calls]
      BY <2>1 DEF Admit, registerCall
    <3>2. behind' \in [Calls -> SUBSET Calls] /\ at' \in [Calls -> Stage]
      BY <2>1 DEF Admit, Unwaited
    <3>3. QED
      BY <2>1, <3>1, <3>2 DEF Admit
  <2>2. ASSUME NEW c \in Calls, Refuse(c) \/ ClientCloses(c) PROVE TypeOK'
    BY <2>2 DEF Refuse, ClientCloses
  <2>3. ASSUME NEW c \in Calls, SendCommand(c) \/ ToolEnds(c) PROVE TypeOK'
    BY <2>3 DEF SendCommand, ToolEnds
  <2>4. ASSUME NEW c \in Calls, Ends(c) PROVE TypeOK'
    <3>1. callsInFlight' \in [Keys -> SUBSET Calls]
      BY <2>4 DEF Ends, unregisterCall
    <3>2. QED
      BY <2>4, <3>1 DEF Ends
  <2>5. CASE FrontRestart
    BY <2>5, RestartsAreBounded DEF FrontRestart
  <2>6. CASE AllOver \/ UNCHANGED vars
    BY <2>6 DEF AllOver, vars
  <2>7. QED
    BY <2>1, <2>2, <2>3, <2>4, <2>5, <2>6 DEF Next
<1>3. QED
  BY <1>1, <1>2, PTL DEF Spec

\* The map stays a true picture of what runs.
LEMMA NotesStep ==
    ASSUME TypeOK, NotesAreCalls, [Next]_vars
    PROVE  NotesAreCalls'
<1> USE DEF TypeOK, NotesAreCalls, InFlight, request, key, Keys
<1>1. ASSUME NEW c \in Calls, Admit(c) PROVE NotesAreCalls'
  <2>1. /\ at' = [at EXCEPT ![c] = "planning"] /\ sessionId' = sessionId
        /\ callsInFlight' = [callsInFlight EXCEPT ![sessionId[c]] = callsInFlight[sessionId[c]] \cup {c}]
    BY <1>1 DEF Admit, registerCall
  <2>2. QED
    BY <2>1
<1>2. ASSUME NEW c \in Calls, Refuse(c) PROVE NotesAreCalls'
  BY <1>2 DEF Refuse
<1>3. ASSUME NEW c \in Calls, SendCommand(c) PROVE NotesAreCalls'
  BY <1>3 DEF SendCommand
<1>4. ASSUME NEW c \in Calls, ClientCloses(c) \/ ToolEnds(c) PROVE NotesAreCalls'
  BY <1>4 DEF ClientCloses, ToolEnds
<1>5. ASSUME NEW c \in Calls, Ends(c) PROVE NotesAreCalls'
  <2>1. /\ at' = [at EXCEPT ![c] = "over"] /\ sessionId' = sessionId
        /\ callsInFlight' = [callsInFlight EXCEPT ![sessionId[c]] = callsInFlight[sessionId[c]] \ {c}]
    BY <1>5 DEF Ends, unregisterCall
  <2>2. QED
    BY <2>1
<1>6. CASE FrontRestart
  BY <1>6 DEF FrontRestart
<1>7. CASE AllOver \/ UNCHANGED vars
  BY <1>7 DEF AllOver, vars
<1>8. QED
  BY <1>1, <1>2, <1>3, <1>4, <1>5, <1>6, <1>7 DEF Next

\* A call that is over and still carried out stays forgotten.
LEMMA ForgottenStep ==
    ASSUME TypeOK, ForgottenRunsOn, [Next]_vars
    PROVE  ForgottenRunsOn'
<1> USE DEF TypeOK, ForgottenRunsOn, InFlight, request
<1>1. ASSUME NEW c \in Calls, Admit(c) \/ Refuse(c) \/ ClientCloses(c) PROVE ForgottenRunsOn'
  BY <1>1 DEF Admit, Refuse, ClientCloses
<1>2. ASSUME NEW c \in Calls, SendCommand(c) \/ ToolEnds(c) PROVE ForgottenRunsOn'
  BY <1>2 DEF SendCommand, ToolEnds
<1>3. ASSUME NEW c \in Calls, Ends(c) PROVE ForgottenRunsOn'
  BY <1>3 DEF Ends
<1>4. CASE FrontRestart
  BY <1>4 DEF FrontRestart
<1>5. CASE AllOver \/ UNCHANGED vars
  BY <1>5 DEF AllOver, vars
<1>6. QED
  BY <1>1, <1>2, <1>3, <1>4, <1>5 DEF Next

\* A second exempt call finds the note of the first.
LEMMA ExemptStep ==
    ASSUME TypeOK, NotesAreCalls, OneExempt, [Next]_vars
    PROVE  OneExempt'
<1> USE DEF TypeOK, OneExempt, InFlight, request
<1>1. ASSUME NEW c \in Calls, Admit(c) PROVE OneExempt'
  <2>1. at' = [at EXCEPT ![c] = "planning"] /\ sessionId' = sessionId /\ command' = command
    BY <1>1 DEF Admit
  <2>2. ASSUME NEW d \in Calls \ {c}, command[c] = ABANDONMENT_EXEMPT_COMMAND,
               command[d] = ABANDONMENT_EXEMPT_COMMAND, sessionId[d] = sessionId[c],
               at[d] \in InFlight
        PROVE  FALSE
    <3>1. d \in callsInFlight[sessionId[c]]
      BY <2>2 DEF NotesAreCalls, Keys
    <3>2. exemptCall(c) = {}
      BY <1>1, <2>2 DEF Admit, assertAdmissible
    <3>3. QED
      BY <2>2, <3>1, <3>2 DEF exemptCall, key
  <2>3. QED
    BY <2>1, <2>2
<1>2. ASSUME NEW c \in Calls, Refuse(c) \/ ClientCloses(c) \/ ToolEnds(c) PROVE OneExempt'
  BY <1>2 DEF Refuse, ClientCloses, ToolEnds
<1>3. ASSUME NEW c \in Calls, SendCommand(c) PROVE OneExempt'
  BY <1>3 DEF SendCommand
<1>4. ASSUME NEW c \in Calls, Ends(c) PROVE OneExempt'
  BY <1>4 DEF Ends
<1>5. CASE FrontRestart
  BY <1>5 DEF FrontRestart
<1>6. CASE AllOver \/ UNCHANGED vars
  BY <1>6 DEF AllOver, vars
<1>7. QED
  BY <1>1, <1>2, <1>3, <1>4, <1>5, <1>6 DEF Next

\* What lies behind an admission that is not exempt was forgotten.
LEMMA BehindStep ==
    ASSUME TypeOK, NotesAreCalls, ForgottenRunsOn, NothingBehindAnAbandonedCall, [Next]_vars
    PROVE  NothingBehindAnAbandonedCall'
<1> USE DEF TypeOK, NothingBehindAnAbandonedCall, request
<1>1. ASSUME NEW c \in Calls, Admit(c) PROVE NothingBehindAnAbandonedCall'
  <2>1. /\ behind' = [behind EXCEPT ![c] = Unwaited(c)] /\ command' = command
        /\ forgotten' = forgotten
    BY <1>1 DEF Admit
  <2>2. ASSUME command[c] # ABANDONMENT_EXEMPT_COMMAND PROVE Unwaited(c) \subseteq forgotten
    <3> SUFFICES ASSUME NEW d \in Unwaited(c) PROVE d \in forgotten
      OBVIOUS
    <3>1. CASE at[d] = "over" /\ d \in carriedOut
      BY <3>1 DEF Unwaited, ForgottenRunsOn
    <3>2. CASE at[d] \in InFlight /\ d \in gone
      <4>1. d \in callsInFlight[sessionId[c]]
        BY <3>2 DEF NotesAreCalls, Keys, Unwaited
      <4>2. abandonedCall(c) = {}
        BY <1>1, <2>2 DEF Admit, assertAdmissible
      <4>3. QED
        BY <3>2, <4>1, <4>2 DEF abandonedCall, key
    <3>3. QED
      BY <3>1, <3>2 DEF Unwaited
  <2>3. QED
    BY <2>1, <2>2
<1>2. ASSUME NEW c \in Calls, Refuse(c) \/ ClientCloses(c) \/ ToolEnds(c)
      PROVE  NothingBehindAnAbandonedCall'
  BY <1>2 DEF Refuse, ClientCloses, ToolEnds
<1>3. ASSUME NEW c \in Calls, SendCommand(c) \/ Ends(c) PROVE NothingBehindAnAbandonedCall'
  BY <1>3 DEF SendCommand, Ends
<1>4. CASE FrontRestart
  BY <1>4 DEF FrontRestart
<1>5. CASE AllOver \/ UNCHANGED vars
  BY <1>5 DEF AllOver, vars
<1>6. QED
  BY <1>1, <1>2, <1>3, <1>4, <1>5 DEF Next

\* The inductive invariant holds throughout.
LEMMA Inductive == Spec => []IInv
<1>1. Init => IInv
  BY TypeCorrect, RestartsAreBounded
     DEF Init, IInv, TypeOK, Stage, NotesAreCalls, ForgottenRunsOn, OneExempt,
         NothingBehindAnAbandonedCall, InFlight
<1>2. IInv /\ TypeOK' /\ [Next]_vars => IInv'
  BY NotesStep, ForgottenStep, ExemptStep, BehindStep DEF IInv
<1>3. QED
  BY <1>1, <1>2, TypeCorrect, PTL DEF Spec

\* No note outlives its call, and none is missing.
THEOREM NotesAreTheCalls == Spec => []NotesAreCalls
BY Inductive, PTL DEF IInv

\* Nothing but the exempt command is ever let in behind a call that was
\* abandoned and is still noted.
THEOREM NothingBehind == Spec => []NothingBehindAnAbandonedCall
BY Inductive, PTL DEF IInv

\* One rescuer at a time: two of them would both be exempt.
THEOREM OneRescuer == Spec => []OneRescuerAtATime
<1>1. IInv => OneRescuerAtATime
  BY DEF IInv, OneRescuerAtATime, NothingBehindAnAbandonedCall, OneExempt
<1>2. QED
  BY <1>1, Inductive, PTL

\* The notes are the calls in flight, and one rescuer at a time gets past them.
THEOREM NotesBar == Spec => []NotesBarAllButOne
BY NotesAreTheCalls, OneRescuer, PTL DEF NotesBarAllButOne
=============================================================================
