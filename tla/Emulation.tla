----------------------------- MODULE Emulation ------------------------------
(***************************************************************************)
(* What a page emulates (src/McpPage.ts): emulate applies the features one *)
(* after the other, each an await of its own that can fail, and takes down *)
(* what it applied only behind the last of them; the timeouts follow, and  *)
(* the viewport comes behind both.  lighthouse_audit sets features of its  *)
(* own and has the page's restored.  0 stands for "no emulation".          *)
(***************************************************************************)
EXTENDS Integers, Sequences

VARIABLES
    blocked,   \* #hasNetworkBlockOrAllowlist
    applied,   \* per feature what the browser emulates
    settings,  \* per feature what emulationSettings says
    timeouts,  \* <<cpu, network>>: what the page's timeouts are multiplied for
    failed     \* history: the last emulate or restoreEmulation has failed

emulationVars == <<blocked, applied, settings, timeouts, failed>>

\* In the order they are applied; the user agent stands for the geolocation and the
\* color scheme as well, which are treated alike and stand beside it.
Features == <<"networkConditions", "cpuThrottlingRate", "userAgent", "extraHttpHeaders",
              "viewport">>

Named == {Features[k] : k \in DOMAIN Features}

Values == 0 .. 1

Omitted == -1

\* What is asked for: a value, or nothing at all.
Options == [Named -> Values \cup {Omitted}]

Throttled(s) == <<s["cpuThrottlingRate"], s["networkConditions"]>>

Init ==
    /\ blocked \in BOOLEAN
    /\ applied = [f \in Named |-> 0] /\ settings = applied
    /\ timeouts = Throttled(settings) /\ failed = FALSE

\* Whether the browser is called for it: the headers are left alone when they are
\* omitted, and the network where requests are blocked.
Called(f, options) ==
    ~(f = "extraHttpHeaders" /\ options[f] = Omitted) /\ ~(f = "networkConditions" /\ blocked)

\* What a feature becomes: what is omitted is reset, unless it is left alone.
Becomes(f, options) ==
    IF ~Called(f, options) THEN settings[f]
    ELSE IF options[f] = Omitted THEN 0 ELSE options[f]

Last == Len(Features)

\* Applies the features up to the k-th, from what is emulated.
Apply(from, options, k) ==
    [f \in Named |-> IF Called(f, options) /\ \E i \in 1 .. k : Features[i] = f
                     THEN Becomes(f, options) ELSE from[f]]

\* emulate, with the k-th feature the last that is applied: all of them, or the
\* next has failed.  Settings and timeouts come between the headers and the viewport.
emulate(from, options, k) ==
    /\ applied' = Apply(from, options, k)
    /\ failed' = (k < Last) /\ UNCHANGED blocked
    /\ IF k >= Last - 1
       THEN /\ settings' = [f \in Named |-> Becomes(f, options)]
            /\ timeouts' = Throttled(settings')
       ELSE UNCHANGED <<settings, timeouts>>

\* The network cannot be throttled where requests are blocked: nothing is begun.
Refused(options) == blocked /\ options["networkConditions"] # Omitted

EmulateTool ==
    \E options \in Options, k \in 0 .. Last :
        ~Refused(options) /\ emulate(applied, options, k)

\* restoreEmulation: what is set, as options; what is not set is omitted.
Restored == [f \in Named |-> IF settings[f] = 0 THEN Omitted ELSE settings[f]]

\* Defect for mutation: an audit that fails restores nothing.
lighthouseAuditUnrestored(others, k) ==
    /\ applied' = others /\ UNCHANGED <<blocked, settings, timeouts, failed>>

\* lighthouse_audit: done or failed, what it emulated is replaced by what is set.
lighthouseAudit(others, k) == emulate(others, Restored, k)

\* What an audit leaves behind: throttling, a user agent, a screen.
Audited ==
    {others \in [Named -> Values] :
        others["extraHttpHeaders"] = applied["extraHttpHeaders"]}

Audit ==
    \E others \in Audited, k \in 0 .. Last :
        (blocked => others["networkConditions"] = applied["networkConditions"])
        /\ lighthouseAudit(others, k)

Next == EmulateTool \/ Audit

Spec == Init /\ [][Next]_emulationVars

----------------------------------------------------------------------------
TypeOK ==
    /\ applied \in [Named -> Values] /\ settings \in [Named -> Values]
    /\ timeouts \in Values \X Values /\ failed \in BOOLEAN /\ blocked \in BOOLEAN

\* The settings an answer reports, and that scale the timeouts of every later wait,
\* are what the browser emulates, unless the last call has failed; the timeouts
\* never belong to other settings than those.
SettingsAreApplied ==
    /\ ~failed => applied = settings
    /\ timeouts = Throttled(settings)
=============================================================================
