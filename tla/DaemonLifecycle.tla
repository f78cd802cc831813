-------------------------- MODULE DaemonLifecycle --------------------------
(***************************************************************************)
(* How the chromectl front carries its calls out with the daemon of one    *)
(* browser (chromectl/daemon.mjs on top of src/daemon/client.ts): ensure a *)
(* daemon, send the command, tell the failures apart, replace a daemon     *)
(* that lost its browser link, retry once.  Sessions share nothing, so one *)
(* browser is modelled.                                                    *)
(*                                                                         *)
(* The front is one event loop.  What follows an awaited promise in the    *)
(* same turn is a microtask: a call in phase "send" runs before any other  *)
(* event of the front, while the daemon processes keep running beside it.  *)
(***************************************************************************)
EXTENDS DaemonProcess

CONSTANT MaxRestarts  \* bound: how often the front itself is restarted

ASSUME RestartsAreBounded == MaxRestarts \in Nat

VARIABLES
    phase,      \* [Calls -> Phase] where invokeTool stands for the call
    attempt,    \* [Calls -> 0..1] its loop counter
    noted,      \* [Calls -> Nat] the generation its command runs under
    outcome,    \* [Calls -> Outcome] what the caller was told
    generation, \* daemonGenerations: starts that came up, as the front counts
    stage,      \* the lifecycle operation in daemonOperations, "idle" if none
    why,        \* [Calls -> Cause] history: what the retry was for
    culprit,    \* history: the daemon the replacement in flight is about
    orphaned,   \* history: a start was given up while its process was booting
    restarts    \* history: restarts of the front so far

frontVars == <<phase, attempt, noted, outcome, generation, stage, why,
               culprit, orphaned, restarts>>
vars == <<daemonVars, frontVars>>

Phase == {"idle", "waiting", "send", "sent", "answered"}
Outcome == {"none", "answer", "tool", "unreachable", "cut"}
Cause == {"none", "linkGone", "socket"}

\* stopTargetDaemon passes through the first three stages, startTargetDaemon
\* through the others: pid file, status, and the recording that is forgotten.
StopStage == {"stopWait", "termWait", "killWait"}
StartStage == {"pidWait", "readyWait", "forget"}
Stage == {"idle"} \cup StopStage \cup StartStage

TypeOK ==
    /\ DaemonTypeOK
    /\ phase \in [Calls -> Phase]
    /\ attempt \in [Calls -> 0..1]
    /\ noted \in [Calls -> Nat]
    /\ outcome \in [Calls -> Outcome]
    /\ generation \in Nat
    /\ stage \in Stage
    /\ why \in [Calls -> Cause]
    /\ culprit \in Daemons \cup {None}
    /\ orphaned \in BOOLEAN
    /\ restarts \in 0..MaxRestarts

Init ==
    /\ DaemonInit
    /\ phase = [c \in Calls |-> "idle"]
    /\ attempt = [c \in Calls |-> 0]
    /\ noted = [c \in Calls |-> 0]
    /\ outcome = [c \in Calls |-> "none"]
    /\ generation = 0
    /\ stage = "idle"
    /\ why = [c \in Calls |-> "none"]
    /\ culprit = None
    /\ orphaned = FALSE
    /\ restarts = 0

-----------------------------------------------------------------------------
(* The event loop *)

\* No continuation is left over from the event handled last.
TurnOver == \A c \in Calls : phase[c] # "send"

Unread(c) == phase[c] = "sent" /\ (line[c] \in Answers \/ Broken(c))

\* The deadlines here are seconds long, an event that has arrived is handled
\* within milliseconds: no timer fires past an answer or a broken socket.
TimersDue == TurnOver /\ \A c \in Calls : ~Unread(c)

HangUp(c) ==
    /\ conn' = [conn EXCEPT ![c] = None]
    /\ line' = [line EXCEPT ![c] = "none"]

Answered(c, told) ==
    /\ phase' = [phase EXCEPT ![c] = "answered"]
    /\ outcome' = [outcome EXCEPT ![c] = told]

-----------------------------------------------------------------------------
(* Lifecycle operations *)

\* startDaemon, entered only where the front has just seen no daemon running: a
\* stale pid file is unlinked and a detached process spawned.  When the supply
\* of identities is used up, the child stands for one that never comes up.
StartDaemon ==
    /\ \/ \E d \in Daemons : /\ proc[d] = "unborn"
                             /\ proc' = [proc EXCEPT ![d] = "booting"]
       \/ /\ \A d \in Daemons : proc[d] # "unborn"
          /\ proc' = proc
    /\ pidFile' = None
    /\ stage' = "pidWait"

Join(c) == phase' = [phase EXCEPT ![c] = "waiting"]

\* The continuation of a call that needs to wait for nothing.
GoOn(c) ==
    /\ phase' = [phase EXCEPT ![c] = "send"]
    /\ noted' = [noted EXCEPT ![c] = generation]

\* Variant: the pid file alone is asked, not the operation in flight.
EnsureByPidFile(c) ==
    \/ /\ IsDaemonRunning
       /\ GoOn(c)
       /\ UNCHANGED <<stage, proc, pidFile>>
    \/ /\ ~IsDaemonRunning
       /\ StartDaemon
       /\ Join(c)
       /\ UNCHANGED noted

\* ensureDaemon: join the operation in flight, take the daemon that runs, or
\* start one.
EnsureDaemon(c) ==
    \/ /\ stage # "idle"
       /\ Join(c)
       /\ UNCHANGED <<noted, stage, proc, pidFile>>
    \/ /\ stage = "idle"
       /\ IsDaemonRunning
       /\ GoOn(c)
       /\ UNCHANGED <<stage, proc, pidFile>>
    \/ /\ stage = "idle"
       /\ ~IsDaemonRunning
       /\ StartDaemon
       /\ Join(c)
       /\ UNCHANGED noted

\* The `stop` command goes to whoever listens; one refused is not repeated.
SendStop ==
    asked' = [d \in Daemons |-> IF Listening(d) /\ asked[d] = "no" THEN "stop" ELSE asked[d]]

\* Variant: a failure replaces whatever daemon is there by now.
ReplaceWhateverRuns(c) ==
    \/ /\ stage # "idle"
       /\ Join(c)
       /\ UNCHANGED <<noted, stage, proc, pidFile, asked, culprit>>
    \/ /\ stage = "idle"
       /\ culprit' = conn[c]
       /\ Join(c)
       /\ \/ /\ IsDaemonRunning
             /\ stage' = "stopWait"
             /\ SendStop
             /\ UNCHANGED <<proc, pidFile>>
          \/ /\ ~IsDaemonRunning
             /\ StartDaemon
             /\ UNCHANGED asked
       /\ UNCHANGED noted

\* replaceDaemon: join the operation in flight, leave a daemon alone that has
\* been replaced since, or take it down (its own `stop` first) and start anew.
ReplaceDaemon(c) ==
    \/ /\ stage # "idle"
       /\ Join(c)
       /\ UNCHANGED <<noted, stage, proc, pidFile, asked, culprit>>
    \/ /\ stage = "idle"
       /\ generation # noted[c]
       /\ GoOn(c)
       /\ UNCHANGED <<stage, proc, pidFile, asked, culprit>>
    \/ /\ stage = "idle"
       /\ generation = noted[c]
       /\ culprit' = conn[c]
       /\ Join(c)
       /\ \/ /\ IsDaemonRunning
             /\ stage' = "stopWait"
             /\ SendStop
             /\ UNCHANGED <<proc, pidFile>>
          \/ /\ ~IsDaemonRunning
             /\ StartDaemon
             /\ UNCHANGED asked
       /\ UNCHANGED noted

\* The operation ends: the map entry goes first, then everyone who awaited it
\* goes on under the generation of this moment, or fails with it.
OperationEnds ==
    /\ stage' = "idle"
    /\ culprit' = None

OperationFails ==
    /\ OperationEnds
    /\ phase' = [c \in Calls |-> IF phase[c] = "waiting" THEN "answered" ELSE phase[c]]
    /\ outcome' = [c \in Calls |-> IF phase[c] = "waiting" THEN "unreachable" ELSE outcome[c]]

\* waitForDaemonGone, at whichever step of the taking down.
DaemonGone ==
    /\ TurnOver
    /\ stage \in StopStage
    /\ ~IsDaemonRunning
    /\ StartDaemon
    /\ UNCHANGED <<asked, socket, conn, line, running, begun, phase, attempt, noted,
                   outcome, generation, why, culprit, orphaned, restarts>>

\* The next signal in line, sent to whomever the pid file names now.
Signal(from, to, signal) ==
    /\ stage = from
    /\ stage' = to
    /\ asked' = [asked EXCEPT ![pidFile] = signal]

StopTimeout ==
    /\ TimersDue
    /\ IsDaemonRunning
    /\ \/ Signal("stopWait", "termWait", "term")
       \/ Signal("termWait", "killWait", "kill")
    /\ UNCHANGED <<proc, pidFile, socket, conn, line, running, begun, phase, attempt,
                   noted, outcome, generation, why, culprit, orphaned, restarts>>

\* waitForFile sees a pid file with something in it.
PidFileSeen ==
    /\ TurnOver
    /\ stage = "pidWait"
    /\ pidFile # None
    /\ stage' = "readyWait"
    /\ UNCHANGED <<daemonVars, phase, attempt, noted, outcome, generation, why,
                   culprit, orphaned, restarts>>

\* Variant: a daemon that came up is not counted.
DaemonUpUncounted ==
    /\ TurnOver
    /\ stage = "readyWait"
    /\ IsDaemonRunning
    /\ \E d \in Daemons : Listening(d) /\ proc[d] # "starting"
    /\ stage' = "forget"
    /\ UNCHANGED <<daemonVars, phase, attempt, noted, outcome, generation, why,
                   culprit, orphaned, restarts>>

\* waitForDaemonReady got its `status` answered: whoever listens has finished
\* starting, or failed to and is about to go.
DaemonUp ==
    /\ TurnOver
    /\ stage = "readyWait"
    /\ IsDaemonRunning
    /\ \E d \in Daemons : Listening(d) /\ proc[d] # "starting"
    /\ generation' = generation + 1
    /\ stage' = "forget"
    /\ UNCHANGED <<daemonVars, phase, attempt, noted, outcome, why, culprit,
                   orphaned, restarts>>

\* forgetRecording is through and the operation resolves.
OperationDone ==
    /\ TurnOver
    /\ stage = "forget"
    /\ OperationEnds
    /\ phase' = [c \in Calls |-> IF phase[c] = "waiting" THEN "send" ELSE phase[c]]
    /\ noted' = [c \in Calls |-> IF phase[c] = "waiting" THEN generation ELSE noted[c]]
    /\ UNCHANGED <<daemonVars, attempt, outcome, generation, why, orphaned, restarts>>

\* Variant: waitForFile has no deadline.
OperationTimeoutReadyOnly ==
    /\ TimersDue
    /\ stage = "readyWait"
    /\ OperationFails
    /\ orphaned' = (orphaned \/ \E d \in Daemons : Booting(d))
    /\ UNCHANGED <<daemonVars, attempt, noted, generation, why, restarts>>

\* FILE_TIMEOUT runs out on the pid file or on the status, or a daemon survives
\* even its SIGKILL.  The process that was started is left to itself.
OperationTimeout ==
    /\ TimersDue
    /\ stage \in {"pidWait", "readyWait", "killWait"}
    /\ stage = "killWait" => IsDaemonRunning
    /\ OperationFails
    /\ orphaned' = (orphaned \/ \E d \in Daemons : Booting(d))
    /\ UNCHANGED <<daemonVars, attempt, noted, generation, why, restarts>>

-----------------------------------------------------------------------------
(* One call: invokeTool *)

Arrive(c) ==
    /\ TurnOver
    /\ phase[c] = "idle"
    /\ EnsureDaemon(c)
    /\ UNCHANGED <<asked, socket, conn, line, running, begun, attempt, outcome,
                   generation, why, culprit, orphaned, restarts>>

\* Variant: a lost daemon is retried as often as it is lost.
SendErrorRetriesOn(c) ==
    \/ /\ IsDaemonRunning /\ generation = noted[c]
       /\ Answered(c, "tool")
       /\ UNCHANGED <<attempt, why, noted, stage, proc, pidFile>>
    \/ /\ ~IsDaemonRunning \/ generation # noted[c]
       /\ attempt' = [attempt EXCEPT ![c] = @ + 1]
       /\ why' = [why EXCEPT ![c] = "socket"]
       /\ EnsureDaemon(c)
       /\ UNCHANGED outcome

\* The catch branch of invokeTool.  A socket failure is the daemon's when it is
\* not running or not the one the command was sent to any more.
SendError(c) ==
    \/ /\ attempt[c] = 1 \/ (IsDaemonRunning /\ generation = noted[c])
       /\ Answered(c, "tool")
       /\ UNCHANGED <<attempt, why, noted, stage, proc, pidFile>>
    \/ /\ attempt[c] = 0
       /\ ~IsDaemonRunning \/ generation # noted[c]
       /\ attempt' = [attempt EXCEPT ![c] = 1]
       /\ why' = [why EXCEPT ![c] = "socket"]
       /\ EnsureDaemon(c)
       /\ UNCHANGED outcome

\* sendCommand: refused at once when no daemon runs, else a connection to the
\* socket path, which may not be accepted.
SendCommand(c) ==
    /\ phase[c] = "send"
    /\ \/ /\ IsDaemonRunning
          /\ phase' = [phase EXCEPT ![c] = "sent"]
          /\ line' = [line EXCEPT ![c] = "sent"]
          /\ \/ \E d \in Daemons : Listening(d) /\ conn' = [conn EXCEPT ![c] = d]
             \/ /\ ~\E d \in Daemons : Listening(d)
                /\ conn' = [conn EXCEPT ![c] = None]
          /\ UNCHANGED <<attempt, why, outcome, noted, stage, proc, pidFile>>
       \/ /\ ~IsDaemonRunning
          /\ SendError(c)
          /\ UNCHANGED <<conn, line>>
    /\ UNCHANGED <<asked, socket, running, begun, generation, culprit, orphaned, restarts>>

\* The socket breaks, or the budget of the call runs out on it.
SocketFails(c) ==
    /\ TurnOver
    /\ phase[c] = "sent"
    /\ line[c] \in {"sent", "taken"}
    /\ Broken(c) \/ TimersDue
    /\ HangUp(c)
    /\ SendError(c)
    /\ UNCHANGED <<asked, socket, running, begun, generation, culprit, orphaned, restarts>>

\* Variant: "Connection closed" is taken for a missing link as well.
AnyFailureIsLinkGone(c) == line[c] \in {"linkGone", "failed"}

BROWSER_LINK_GONE(c) == line[c] = "linkGone"

\* An answer arrives.  One that says the daemon has no link to its browser is,
\* once, a reason to replace the daemon; any other goes to the caller.
ReadAnswer(c) ==
    /\ TurnOver
    /\ phase[c] = "sent"
    /\ line[c] \in Answers
    /\ HangUp(c)
    /\ \/ /\ ~(attempt[c] = 0 /\ BROWSER_LINK_GONE(c))
          /\ Answered(c, IF line[c] = "ok" THEN "answer" ELSE "tool")
          /\ UNCHANGED <<attempt, why, noted, stage, proc, pidFile, asked, culprit>>
       \/ /\ attempt[c] = 0
          /\ BROWSER_LINK_GONE(c)
          /\ attempt' = [attempt EXCEPT ![c] = 1]
          /\ why' = [why EXCEPT ![c] = "linkGone"]
          /\ ReplaceDaemon(c)
          /\ UNCHANGED outcome
    /\ UNCHANGED <<socket, running, begun, generation, orphaned, restarts>>

\* The front is restarted: its maps and its callers are gone, the daemons, which
\* are detached, are not.
FrontRestart ==
    /\ restarts < MaxRestarts
    /\ restarts' = restarts + 1
    /\ phase' = [c \in Calls |-> IF phase[c] = "idle" THEN "idle" ELSE "answered"]
    /\ outcome' = [c \in Calls |-> IF phase[c] \in {"idle", "answered"}
                                   THEN outcome[c] ELSE "cut"]
    /\ conn' = [c \in Calls |-> None]
    /\ line' = [c \in Calls |-> "none"]
    /\ generation' = 0
    /\ OperationEnds
    /\ orphaned' = (orphaned \/ \E d \in Daemons : Booting(d))
    /\ UNCHANGED <<proc, asked, pidFile, socket, running, begun, attempt, noted, why>>

-----------------------------------------------------------------------------
CallStep(c) == SendCommand(c) \/ SocketFails(c) \/ ReadAnswer(c)

OperationStep ==
    DaemonGone \/ StopTimeout \/ PidFileSeen \/ DaemonUp \/ OperationDone \/ OperationTimeout

DaemonMoves(d) == DaemonStep(d) /\ UNCHANGED frontVars

\* Every call made has been answered: nothing is left to happen but the daemon's
\* own life.
AllAnswered == (\A c \in Calls : phase[c] = "answered") /\ UNCHANGED vars

Next ==
    \/ \E c \in Calls : Arrive(c) \/ CallStep(c)
    \/ OperationStep
    \/ \E d \in Daemons : DaemonMoves(d)
    \/ FrontRestart
    \/ AllAnswered

Spec == Init /\ [][Next]_vars

\* The event loop turns and its timers fire; of a daemon nothing is expected,
\* and no call has to arrive.
Fairness == WF_vars(OperationStep) /\ \A c \in Calls : WF_vars(CallStep(c))

FairSpec == Spec /\ Fairness

-----------------------------------------------------------------------------
(* Properties *)

\* Two requests that both find no daemon never spawn two of them, and a daemon
\* is started only over one that is gone (daemonOperations, daemon.mjs:156).
\* Only a process whose start was given up while it booted can overlap.
AtMostOneDaemon ==
    ~orphaned => \A d, e \in Daemons : Alive(d) /\ Alive(e) => d = e

\* What "an unchanged generation means the daemon itself failed" rests on
\* (daemonGenerations, daemon.mjs:147): while no operation is in flight, a
\* command under the current generation sits on the socket of the daemon that
\* runs, or was refused by it.
CurrentGenerationIsCurrentDaemon ==
    ~orphaned /\ stage = "idle" =>
        \A c \in Calls : phase[c] = "sent" /\ noted[c] = generation /\ IsDaemonRunning
                          => conn[c] \in {pidFile, None}

\* A failure is a reason to replace the daemon that produced it, never the one
\* that has since taken its place (replaceDaemon, daemon.mjs:297).
ReplacesTheCulprit ==
    ~orphaned /\ stage \in StopStage /\ IsDaemonRunning => pidFile = culprit

\* Whoever waits, waits for an operation that is in flight: no joiner is left
\* behind when one ends, however it ends (withDaemonLifecycle).
WaitersHaveAnOperation ==
    \A c \in Calls : phase[c] = "waiting" => stage # "idle"

\* A retry after a lost browser link repeats nothing: the command had not begun
\* in any browser (invokeTool, daemon.mjs:331).
LinkGoneRetryIsSound ==
    \A c \in Calls : why[c] = "linkGone" => begun[c] <= 1

\* What the comment on invokeTool says of both retries: a command that is sent
\* again never reached the browser before (daemon.mjs:331).
RetriedNeverBegan ==
    \A c \in Calls : begun[c] <= 1

\* Whatever the daemons do, every call that arrives is answered.
EveryCallIsAnswered ==
    \A c \in Calls : phase[c] # "idle" ~> phase[c] = "answered"

-----------------------------------------------------------------------------
(* What makes the properties inductive *)

\* A process past its pid check is the one the pid file names; one on its way
\* there is what the start in flight waits for, over an empty pid file.
AliveIsKnown ==
    ~orphaned => \A d \in Daemons :
        /\ Named(d) => pidFile = d
        /\ Booting(d) => stage = "pidWait" /\ pidFile = None

\* A command on a socket belongs to a call that waits for it, was sent under a
\* generation already counted, and is answered by somebody.
SocketsInUse ==
    \A c \in Calls :
        /\ phase[c] = "sent" <=> line[c] # "none"
        /\ phase[c] \in {"send", "sent"} => noted[c] <= generation
        /\ line[c] \notin {"none", "sent"} => conn[c] # None

\* CurrentGenerationIsCurrentDaemon, also while an old daemon is taken down.
GenerationIsDaemon ==
    ~orphaned /\ stage \notin {"pidWait", "readyWait"} =>
        \A c \in Calls : phase[c] = "sent" /\ noted[c] = generation /\ IsDaemonRunning
                          => conn[c] \in {pidFile, None}

\* A call that was never retried after a socket failure has begun at most once,
\* and not at all as long as it has not been handed to an MCP server.
CleanCallsBeginOnce ==
    \A c \in Calls :
        /\ attempt[c] = 0 => why[c] = "none"
        /\ why[c] # "socket" =>
              /\ begun[c] <= 1
              /\ phase[c] \in {"idle", "waiting", "send"} => begun[c] = 0
              /\ phase[c] = "sent" /\ line[c] \in {"sent", "linkGone"} => begun[c] = 0
=============================================================================
