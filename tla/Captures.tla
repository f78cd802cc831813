------------------------------ MODULE Captures ------------------------------
(***************************************************************************)
(* The performance trace and the screencast of a context                   *)
(* (src/tools/performance.ts, src/tools/screencast.ts).  Tools run one     *)
(* after the other, so a call is one step with an outcome; between calls   *)
(* another page is selected, a page closes, ffmpeg dies.  The browser has  *)
(* one trace at a time, and only the page that began it can end it.        *)
(***************************************************************************)
EXTENDS Integers

CONSTANTS Pages, None

VARIABLES
    page,          \* the page the next call is about
    open,          \* pages that are open
    traceRunning,  \* isRunningPerformanceTrace()
    traced,        \* the page the browser traces, None when none
    blanked,       \* pages a trace has sent to about:blank and not back
    stored,        \* recordedTraces() has one
    outlived,      \* history: a trace was to be stopped and the browser would not
    gone,          \* history: the page of the running trace has closed
    recorder,      \* getScreenRecorder(): "none", "recording", "dead"
    guard,         \* frameWriteGuard is set
    patches        \* how many guards have console.log and uncaughtException

traceVars == <<traceRunning, traced, blanked, stored, outlived, gone>>
castVars == <<recorder, guard, patches>>
captureVars == <<page, open, traceVars, castVars>>

Init ==
    /\ open \in SUBSET Pages /\ open # {} /\ page \in open
    /\ traceRunning = FALSE /\ traced = None /\ blanked = {} /\ stored = FALSE
    /\ outlived = FALSE /\ gone = FALSE
    /\ recorder = "none" /\ guard = FALSE /\ patches = 0

\* select_page, and the fallback when the selected page closed.
Selected(p) ==
    /\ p \in open \ {page} /\ page' = p
    /\ UNCHANGED <<open, traceVars, castVars>>

\* The trace of a page ends with it; the context is not told.
PageCloses(p) ==
    /\ p \in open /\ open # {p} /\ open' = open \ {p}
    /\ page' \in (IF page = p THEN open' ELSE {page})
    /\ traced' = IF traced = p THEN None ELSE traced
    /\ gone' = (gone \/ (traceRunning /\ traced = p))
    /\ blanked' = blanked \ {p}
    /\ UNCHANGED <<traceRunning, stored, outlived, castVars>>

----------------------------------------------------------------------------
\* tracing.stop() on the page: what the browser traces then.
AfterStop == IF traced = page THEN None ELSE traced

\* stopTracingAndAppendOutput: the page's trace is ended, written, parsed and
\* kept; whatever of that fails, and if the browser refuses, the flag is cleared.
stopTracingAndAppendOutput(parsed) ==
    /\ parsed => traced = page
    /\ traced' = AfterStop /\ outlived' = (traced' # None)
    /\ stored' = (stored \/ parsed)
    /\ traceRunning' = FALSE

\* performance_start_trace left to performance_stop_trace.
startTrace ==
    /\ ~traceRunning /\ traced = None
    /\ traceRunning' = TRUE /\ traced' = page /\ gone' = FALSE
    /\ UNCHANGED <<page, open, blanked, stored, outlived, castVars>>

\* A step of performance_start_trace fails - the way to about:blank, the start,
\* the way back - and what is there is unwound; the page stays where it is.
startTraceFails(reload, step) ==
    /\ ~traceRunning
    /\ step \in {"blank", "back"} => reload
    /\ step = "back" => traced = None
    /\ traceRunning' = FALSE
    /\ traced' = (IF step = "back" THEN None ELSE AfterStop)
    /\ outlived' = (traced' # None)
    /\ blanked' = IF reload /\ step # "blank" THEN blanked \cup {page} ELSE blanked
    /\ UNCHANGED <<page, open, stored, gone, castVars>>

\* performance_start_trace with autoStop: the page it began on is the one it ends.
recordTrace(parsed) ==
    /\ ~traceRunning /\ traced = None
    /\ stored' = (stored \/ parsed)
    /\ UNCHANGED <<page, open, traceRunning, traced, blanked, outlived, gone, castVars>>

\* performance_stop_trace.
stopTrace(parsed) ==
    /\ traceRunning /\ stopTracingAndAppendOutput(parsed)
    /\ UNCHANGED <<page, open, blanked, gone, castVars>>

\* navigate_page takes a page from about:blank to where it is sent.
Navigates ==
    /\ page \in blanked /\ blanked' = blanked \ {page}
    /\ UNCHANGED <<page, open, traceRunning, traced, stored, outlived, gone, castVars>>

----------------------------------------------------------------------------
\* screencast_start: the guard is up before the recorder starts ...
startScreencast ==
    /\ recorder = "none" /\ recorder' = "recording"
    /\ guard' = TRUE /\ patches' = (IF guard THEN patches - 1 ELSE patches) + 1
    /\ UNCHANGED <<page, open, traceVars>>

\* ... and down again when that fails, be it before the guard or behind it.
startScreencastFails(begun) ==
    /\ recorder = "none"
    /\ patches' = IF begun /\ guard THEN patches - 1 ELSE patches
    /\ guard' = (guard /\ ~begun)
    /\ UNCHANGED <<page, open, recorder, traceVars>>

\* ffmpeg exits under the recording: frames fail in the guard from now on.
RecorderDies ==
    /\ recorder = "recording" /\ recorder' = "dead"
    /\ UNCHANGED <<page, open, traceVars, guard, patches>>

\* screencast_stop: stopped, given up on, or failed, the recording is over.
stopScreencast ==
    /\ recorder # "none" /\ recorder' = "none"
    /\ guard' = FALSE /\ patches' = IF guard THEN patches - 1 ELSE patches
    /\ UNCHANGED <<page, open, traceVars>>

Next ==
    \/ \E p \in Pages : Selected(p) \/ PageCloses(p)
    \/ startTrace \/ Navigates
    \/ \E reload \in BOOLEAN, step \in {"blank", "start", "back"} : startTraceFails(reload, step)
    \/ \E parsed \in BOOLEAN : recordTrace(parsed) \/ stopTrace(parsed)
    \/ startScreencast \/ RecorderDies \/ stopScreencast
    \/ \E begun \in BOOLEAN : startScreencastFails(begun)

Spec == Init /\ [][Next]_captureVars

----------------------------------------------------------------------------
TypeOK ==
    /\ open \subseteq Pages /\ page \in open /\ blanked \subseteq open
    /\ traceRunning \in BOOLEAN /\ stored \in BOOLEAN /\ outlived \in BOOLEAN
    /\ gone \in BOOLEAN
    /\ traced \in Pages \cup {None}
    /\ recorder \in {"none", "recording", "dead"}
    /\ guard \in BOOLEAN /\ patches \in 0 .. 1

\* Tools take the trace for running exactly when it is left to performance_stop_trace:
\* whichever step failed, the flag does not stay up and block every trace to come,
\* and nothing is traced behind it - unless the trace was to be stopped on another
\* page than its own, which the browser refuses, or its page has closed.
TraceFlagIsTheTrace ==
    /\ traced # None => traceRunning \/ outlived
    /\ traceRunning => traced # None \/ gone

\* The process's console.log and its uncaught exceptions are the screencast's for as
\* long as a recording is on, dead or alive, and no longer.
GuardIsTheRecordings == guard = (recorder # "none") /\ patches = (IF guard THEN 1 ELSE 0)
=============================================================================
