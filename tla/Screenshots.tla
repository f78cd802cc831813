----------------------------- MODULE Screenshots -----------------------------
(***************************************************************************)
(* take_screenshot of src/tools/screenshot.ts: the window is put into a    *)
(* state in which it paints, the picture is captured, scaled down to the   *)
(* bounds of the command line, and the window is put back the way it was   *)
(* found.  Each step is a call to the browser that may fail.               *)
(***************************************************************************)
EXTENDS Integers

CONSTANTS Boxes,           \* what can be captured: width and height
          Bounds,          \* --screenshot-max-width and --screenshot-max-height
          Unbounded        \* a bound that is not set

VARIABLES
    window,   \* "normal", "minimized", or "none": nothing to be inspected
    front,    \* the page is the active tab
    found,    \* previousState of prepareWindowForCapture
    clip,     \* the scale of the capture as a fraction
    shown,    \* the area captured
    limits,   \* the bounds
    captured, \* "no", or the state of the window when the picture was taken
    lost,     \* the call that failed, or "none"
    at

screenshotVars == <<window, front, found, clip, shown, limits, captured, lost, at>>

\* Fractions, and 1 for no scaling.
Whole == <<1, 1>>
Less(a, b) == a[1] * b[2] < b[1] * a[2]
AtMost(max, size) == IF max # Unbounded /\ max < size THEN <<max, size>> ELSE Whole
Rounded(a, n) == (2 * a[1] * n + a[2]) \div (2 * a[2])

computeDownscaleClip(box, max) ==
    LET w == AtMost(max.width, box.width)
        h == AtMost(max.height, box.height)
        scale == IF Less(w, h) THEN w ELSE h
    IN  IF Rounded(scale, box.width) < 1 \/ Rounded(scale, box.height) < 1 THEN Whole ELSE scale

Init ==
    /\ window \in {"normal", "minimized", "none"} /\ front \in BOOLEAN
    /\ shown \in Boxes /\ limits \in Bounds
    /\ clip = Whole /\ found = "none" /\ captured = "no" /\ lost = "none" /\ at = "box"

\* A box without an extent is one that is not known.
getSourceBox ==
    /\ at = "box" /\ at' = "window"
    /\ clip' = IF shown.width = 0 THEN Whole ELSE computeDownscaleClip(shown, limits)
    /\ UNCHANGED <<window, front, found, shown, limits, captured, lost>>

\* prepareWindowForCapture: the window as it is.  Without one the capture is
\* made as it comes, the page not brought to the front.
getWindow ==
    /\ at = "window"
    /\ \/ found' = window /\ at' = IF window = "none" THEN "capture"
                                   ELSE IF window = "minimized" THEN "normal" ELSE "front"
       \/ found' = "none" /\ at' = "capture"
    /\ UNCHANGED <<window, front, clip, shown, limits, captured, lost>>

\* A call to the browser that fails ends the tool.
Lost(call) == lost' = call /\ at' = "thrown"

\* The minimized window is asked to be normal, and may stay minimized.
setWindowNormal ==
    /\ at = "normal"
    /\ \/ /\ window' \in {"normal", "minimized"}
          /\ IF window' = "normal" THEN at' = "front" /\ UNCHANGED lost ELSE Lost("window")
       \/ window' \in {"normal", "minimized"} /\ Lost("window")
    /\ UNCHANGED <<front, found, clip, shown, limits, captured>>

bringToFront ==
    /\ at = "front"
    /\ \/ front' = TRUE /\ at' = "capture" /\ UNCHANGED lost
       \/ front' \in {front, TRUE} /\ Lost("front")
    /\ UNCHANGED <<window, found, clip, shown, limits, captured>>

\* page.screenshot or element.screenshot, and the finally behind it.
capture ==
    /\ at = "capture"
    /\ \/ captured' = window /\ UNCHANGED lost
       \/ lost' = "capture" /\ UNCHANGED captured
    /\ at' = "restore"
    /\ UNCHANGED <<window, front, found, clip, shown, limits>>

\* Defect for mutation: the window is put back when the capture was made.
restoreWindowAfterCapture ==
    /\ at = "restore"
    /\ window' = IF found = "minimized" /\ lost # "capture" THEN found ELSE window
    /\ at' = IF lost = "capture" THEN "thrown" ELSE "picture"
    /\ UNCHANGED <<front, found, clip, shown, limits, captured, lost>>

\* The window is put back; that this fails is let pass.
restoreWindow ==
    /\ at = "restore"
    /\ \/ /\ window' = (IF found = "minimized" THEN found ELSE window)
          /\ UNCHANGED lost
       \/ /\ found = "minimized" /\ UNCHANGED window
          /\ lost' = IF lost = "capture" THEN "both" ELSE "restore"
    /\ at' = IF captured = "no" THEN "thrown" ELSE "picture"
    /\ UNCHANGED <<front, found, clip, shown, limits, captured>>

\* The answer: attached, or saved to a file, which may fail.
deliver ==
    /\ at = "picture" /\ at' \in {"returned", "thrown"}
    /\ UNCHANGED <<window, front, found, clip, shown, limits, captured, lost>>

Next == getSourceBox \/ getWindow \/ setWindowNormal \/ bringToFront
        \/ capture \/ restoreWindow \/ deliver

Spec == Init /\ [][Next]_screenshotVars

----------------------------------------------------------------------------
TypeOK ==
    /\ window \in {"normal", "minimized", "none"} /\ found \in {"normal", "minimized", "none"}
    /\ front \in BOOLEAN /\ shown \in Boxes /\ limits \in Bounds
    /\ clip[1] \in Nat /\ clip[2] \in Nat \ {0}
    /\ captured \in {"no", "normal", "minimized", "none"}
    /\ lost \in {"none", "window", "front", "capture", "restore", "both"}
    /\ at \in {"box", "window", "normal", "front", "capture", "restore", "picture",
               "returned", "thrown"}

\* take_screenshot leaves a window minimized that it found minimized, also when
\* the capture fails; it is left open only by a preparation that fails half-way
\* or when putting it back fails.  No minimized window is captured knowingly.
WindowIsPutBack ==
    /\ at \in {"picture", "returned", "thrown"} /\ found = "minimized" =>
          window = "minimized" \/ lost \in {"window", "front", "restore", "both"}
    /\ captured = "minimized" => found = "none"
    /\ captured # "no" /\ found # "none" => front

\* A picture respects both bounds of the command line and is not made smaller
\* than they ask; one that would vanish is not scaled at all.
BoundsAreRespected ==
    at = "picture" /\ shown.width > 0 =>
        LET fits(scale) == /\ limits.width = Unbounded \/ ~ Less(<<limits.width, shown.width>>, scale)
                           /\ limits.height = Unbounded \/ ~ Less(<<limits.height, shown.height>>, scale)
            larger == <<clip[1] + 1, clip[2]>>
        IN  IF fits(Whole) THEN clip = Whole
            ELSE IF clip # Whole
                 THEN fits(clip) /\ ~ fits(larger) /\ Rounded(clip, shown.width) > 0
                      /\ Rounded(clip, shown.height) > 0
                 ELSE \A n \in 1 .. shown.width + shown.height :
                        LET scale == <<1, n>> IN
                        fits(scale) => Rounded(scale, shown.width) < 1 \/ Rounded(scale, shown.height) < 1
=============================================================================
