---------------------------- MODULE EventSender -----------------------------
(***************************************************************************)
(* Telemetry (src/telemetry): a server writes its events to the pipe of a  *)
(* watchdog, which keeps them in a buffer, sends them on a timer in one    *)
(* request, and sends what is left when the pipe ends.  An answer can be   *)
(* lost behind the endpoint, a request be refused for now or for good, the *)
(* watchdog be missing or die.  Events are numbered as they are written.   *)
(***************************************************************************)
EXTENDS Integers, Sequences, FiniteSets, SequencesExt

CONSTANTS
    MaxEvents,  \* bound: events written
    MaxBuffer   \* MAX_BUFFER_SIZE

VARIABLES
    server,     \* "up", "down"
    pipe,       \* what is written to the watchdog's stdin and not read
    watchdog,   \* "up", "closing": onParentDeath has run, "gone", "unborn"
    written,    \* how many events there have been
    buffer,     \* #buffer
    flight,     \* the batch #flush has sent, <<>> when there is none
    isFlushing, timer, timerStarted,  \* #isFlushing, #flushTimer armed, #timerStarted
    final,      \* the batch #finalFlush has sent
    accepted, twice,  \* events the endpoint has accepted, has accepted again
    dropped,    \* events the buffer let go, or that were refused for good
    unsure      \* history: events that were accepted with the answer lost

senderVars == <<buffer, flight, isFlushing, timer, timerStarted, final>>
telemetryVars == <<server, pipe, watchdog, written, senderVars,
                   accepted, twice, dropped, unsure>>

Events == 1 .. MaxEvents

Init ==
    /\ server = "up" /\ pipe = <<>> /\ watchdog \in {"up", "unborn"}
    /\ written = 0
    /\ buffer = <<>> /\ flight = <<>> /\ isFlushing = FALSE
    /\ timer = FALSE /\ timerStarted = FALSE /\ final = <<>>
    /\ accepted = {} /\ twice = {} /\ dropped = {} /\ unsure = {}

(***************************************************************************)
(* The server: ClearcutLogger and WatchdogClient.                          *)
(***************************************************************************)
\* A tool was called, an error met, the server started, a day begun.  What there
\* is no watchdog for is dropped.
logs ==
    /\ server = "up" /\ written < MaxEvents - 1
    /\ written' = written + 1
    /\ IF watchdog = "up" THEN pipe' = Append(pipe, written + 1) /\ UNCHANGED dropped
       ELSE dropped' = dropped \cup {written + 1} /\ UNCHANGED pipe
    /\ UNCHANGED <<server, watchdog, senderVars, accepted, twice, unsure>>

ServerEnds ==
    /\ server = "up" /\ server' = "down"
    /\ UNCHANGED <<pipe, watchdog, written, senderVars, accepted, twice, dropped, unsure>>

(***************************************************************************)
(* The watchdog: main.ts and ClearcutSender.                               *)
(***************************************************************************)
\* #addToBuffer: a buffer that is full lets its oldest event go.
addToBuffer(event) ==
    LET full == Len(buffer) >= MaxBuffer
    IN  /\ buffer' = Append(IF full THEN Tail(buffer) ELSE buffer, event)
        /\ dropped' = IF full THEN dropped \cup {Head(buffer)} ELSE dropped

\* enqueueEvent: the first event starts the timer.
enqueueEvent(event) == addToBuffer(event) /\ timerStarted' = TRUE

\* A line arrives.
onLine ==
    /\ watchdog = "up" /\ pipe # <<>>
    /\ pipe' = Tail(pipe)
    /\ enqueueEvent(Head(pipe)) /\ timer' = (timer \/ ~timerStarted)
    /\ UNCHANGED <<server, watchdog, written, flight, isFlushing, final,
                   accepted, twice, unsure>>

\* #flush, by the timer: everything in the buffer is on its way.  The interval and
\* every wait an endpoint asks for outlast the shutdown.
flush ==
    /\ watchdog = "up" /\ timer
    /\ IF isFlushing THEN timer' = FALSE /\ UNCHANGED <<flight, isFlushing, buffer>>
       ELSE /\ flight' = buffer /\ isFlushing' = (buffer # <<>>)
            /\ timer' = (buffer = <<>>)
            /\ buffer' = <<>>
    /\ UNCHANGED <<server, pipe, watchdog, written, timerStarted, final,
                   accepted, twice, dropped, unsure>>

Accepted(batch) ==
    /\ accepted' = accepted \cup ToSet(batch)
    /\ twice' = twice \cup (accepted \cap ToSet(batch))

\* Defect for mutation: what is sent again stands behind what came meanwhile.
flushEndsBehind(answer) ==
    /\ watchdog \in {"up", "closing"} /\ isFlushing
    /\ isFlushing' = FALSE /\ timer' = TRUE /\ flight' = <<>>
    /\ IF answer \in {"accepted", "lost"} THEN Accepted(flight) ELSE UNCHANGED <<accepted, twice>>
    /\ unsure' = IF answer = "lost" THEN unsure \cup ToSet(flight) ELSE unsure
    /\ dropped' = IF answer = "refused" THEN dropped \cup ToSet(flight) ELSE dropped
    /\ buffer' = IF answer \in {"failed", "lost"} THEN buffer \o flight ELSE buffer
    /\ UNCHANGED <<server, pipe, watchdog, written, timerStarted, final>>

\* The request is over: accepted; refused for good; failed for now; or accepted and
\* the answer lost, cut short or late, which is a failure to the sender.
flushEnds(answer) ==
    /\ watchdog \in {"up", "closing"} /\ isFlushing
    /\ isFlushing' = FALSE /\ timer' = TRUE /\ flight' = <<>>
    /\ IF answer \in {"accepted", "lost"} THEN Accepted(flight) ELSE UNCHANGED <<accepted, twice>>
    /\ unsure' = IF answer = "lost" THEN unsure \cup ToSet(flight) ELSE unsure
    /\ dropped' = IF answer = "refused" THEN dropped \cup ToSet(flight) ELSE dropped
    /\ buffer' = IF answer \in {"failed", "lost"} THEN flight \o buffer ELSE buffer
    /\ UNCHANGED <<server, pipe, watchdog, written, timerStarted, final>>

\* onParentDeath, once: the shutdown event joins the buffer, and #finalFlush sends
\* it all, with what #flush has under way left to itself.
onParentDeath ==
    /\ watchdog = "up" /\ server = "down" /\ pipe = <<>>
    /\ watchdog' = "closing" /\ written' = written + 1
    /\ enqueueEvent(written + 1)
    /\ timer' = ~timerStarted
    /\ final' = buffer'
    /\ UNCHANGED <<server, pipe, flight, isFlushing, accepted, twice, unsure>>

\* The final request is over, or SHUTDOWN_TIMEOUT_MS: the process ends, whatever is
\* in the buffer or under way.
Exits(answer) ==
    /\ watchdog = "closing" /\ watchdog' = "gone"
    /\ IF answer = "accepted" THEN Accepted(final) ELSE UNCHANGED <<accepted, twice>>
    /\ buffer' = <<>> /\ flight' = <<>> /\ final' = <<>>
    /\ isFlushing' = FALSE /\ timer' = FALSE
    /\ UNCHANGED <<server, pipe, written, timerStarted, dropped, unsure>>

\* The watchdog is killed.
WatchdogDies ==
    /\ watchdog \in {"up", "closing"} /\ watchdog' = "gone"
    /\ pipe' = <<>> /\ buffer' = <<>> /\ flight' = <<>> /\ final' = <<>>
    /\ isFlushing' = FALSE /\ timer' = FALSE
    /\ UNCHANGED <<server, written, timerStarted, accepted, twice, dropped, unsure>>

Next ==
    \/ logs \/ ServerEnds \/ onLine \/ onParentDeath \/ WatchdogDies
    \/ flush
    \/ \E answer \in {"accepted", "refused", "failed", "lost"} : flushEnds(answer)
    \/ \E answer \in {"accepted", "failed"} : Exits(answer)

Spec == Init /\ [][Next]_telemetryVars

----------------------------------------------------------------------------
TypeOK ==
    /\ server \in {"up", "down"} /\ watchdog \in {"up", "closing", "gone", "unborn"}
    /\ pipe \in Seq(Events) /\ buffer \in Seq(Events) /\ flight \in Seq(Events)
    /\ final \in Seq(Events) /\ written \in 0 .. MaxEvents
    /\ isFlushing \in BOOLEAN /\ timer \in BOOLEAN /\ timerStarted \in BOOLEAN
    /\ dropped \subseteq Events /\ unsure \subseteq Events
    /\ accepted \subseteq Events /\ twice \subseteq accepted

InHand == ToSet(pipe) \cup ToSet(flight) \cup ToSet(buffer) \cup ToSet(final)

\* As long as its watchdog lives no event gets lost: it was accepted, or let go by a
\* full buffer or a refusal, or is on its way - and is accepted twice only where an
\* answer got lost.
EventsAreAccounted ==
    watchdog \in {"up", "closing"} =>
        \A e \in 1 .. written :
            /\ e \in accepted \cup dropped \cup InHand
            /\ e \in twice \cup (accepted \cap InHand) => e \in unsure

\* What is sent again keeps its place: the events under way and in the buffer are
\* in the order they were written in, so that a full buffer lets the oldest go; and
\* none is in two requests at once ("race conditions where a simultaneous
\* #finalFlush would include these same events").
EventsKeepTheirOrder ==
    LET queue == flight \o (IF final = <<>> THEN buffer ELSE final) \o pipe
    IN  \A i, j \in DOMAIN queue : i < j => queue[i] < queue[j]

=============================================================================
