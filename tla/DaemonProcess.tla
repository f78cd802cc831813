--------------------------- MODULE DaemonProcess ---------------------------
(***************************************************************************)
(* The daemon processes of ONE browser (src/daemon/daemon.ts), the two     *)
(* files they leave in the runtime directory of the session, and the unix  *)
(* socket over which tool commands reach them.                             *)
(*                                                                         *)
(* A daemon is an operating-system process that nobody locks out: it looks *)
(* at the pid file, writes it, binds the socket path, starts an MCP server *)
(* as its child and hands it every command.  It may be told to stop, be    *)
(* signalled, lose its MCP server, or simply die between any two steps.    *)
(***************************************************************************)
EXTENDS Naturals

CONSTANTS
    Calls,    \* tool calls that may be sent to this browser
    Daemons,  \* process identities a daemon of this browser may get
    None      \* no daemon

ASSUME NoneIsNoDaemon == None \notin Daemons

VARIABLES
    proc,     \* [Daemons -> ProcState] where each process is in its life
    asked,    \* [Daemons -> Ask] the strongest request to go it was given
    pidFile,  \* the process the pid file names, or None
    socket,   \* the process that bound the socket path last, or None
    conn,     \* [Calls -> Daemons \cup {None}] the far end of a call's socket
    line,     \* [Calls -> LineState] the command, and then its answer, on it
    running,  \* [Daemons -> SUBSET Calls] commands its MCP server carries out
    begun     \* [Calls -> Nat] history: how often a command began to run

daemonVars == <<proc, asked, pidFile, socket, conn, line, running, begun>>

\* "checked" is a process that has seen no other daemon and has not written
\* its pid yet; "starting" has pid file and socket but no MCP server;
\* "closing" is shutting down and still accepts; "draining" accepts no more.
ProcState == {"unborn", "booting", "checked", "starting", "ready",
              "closing", "draining", "dead"}
Ask == {"no", "stop", "term", "kill"}
LineState == {"none", "sent", "taken", "ok", "linkGone", "failed"}
Answers == {"ok", "linkGone", "failed"}

Booting(d) == proc[d] \in {"booting", "checked"}
Named(d)   == proc[d] \in {"starting", "ready", "closing", "draining"}
Alive(d)   == Booting(d) \/ Named(d)
Accepts(d) == proc[d] \in {"starting", "ready", "closing"}

\* isDaemonRunning: the pid file names a process, and signal 0 reaches it.
IsDaemonRunning == \E d \in Daemons : pidFile = d /\ Alive(d)

\* Whether a connection to the socket path is taken, and by whom.
Listening(d) == socket = d /\ Accepts(d)

\* The far end of a call's socket is gone, or never was there.
Broken(c) == line[c] \in {"sent", "taken"} /\ ~\E d \in Daemons : conn[c] = d /\ Alive(d)

DaemonTypeOK ==
    /\ proc \in [Daemons -> ProcState]
    /\ asked \in [Daemons -> Ask]
    /\ pidFile \in Daemons \cup {None}
    /\ socket \in Daemons \cup {None}
    /\ conn \in [Calls -> Daemons \cup {None}]
    /\ line \in [Calls -> LineState]
    /\ running \in [Daemons -> SUBSET Calls]
    /\ begun \in [Calls -> Nat]

DaemonInit ==
    /\ proc = [d \in Daemons |-> "unborn"]
    /\ asked = [d \in Daemons |-> "no"]
    /\ pidFile = None
    /\ socket = None
    /\ conn = [c \in Calls |-> None]
    /\ line = [c \in Calls |-> "none"]
    /\ running = [d \in Daemons |-> {}]
    /\ begun = [c \in Calls |-> 0]

-----------------------------------------------------------------------------
(* Coming up *)

\* A process that finds another daemon running exits.
BootCheck(d) ==
    /\ proc[d] = "booting"
    /\ proc' = [proc EXCEPT ![d] = IF IsDaemonRunning THEN "dead" ELSE "checked"]
    /\ UNCHANGED <<asked, pidFile, socket, conn, line, running, begun>>

\* The pid file is truncated and written, whoever it named; the socket path is
\* unlinked and bound.  Both happen in one synchronous stretch of daemon.ts.
WritePid(d) ==
    /\ proc[d] = "checked"
    /\ proc' = [proc EXCEPT ![d] = "starting"]
    /\ pidFile' = d
    /\ socket' = d
    /\ UNCHANGED <<asked, conn, line, running, begun>>

\* `await mcpClient.connect(...)` resolves, or rejects and the daemon cleans up.
SetupMCPClient(d) ==
    /\ proc[d] = "starting"
    /\ \E up \in {"ready", "closing"} : proc' = [proc EXCEPT ![d] = up]
    /\ UNCHANGED <<asked, pidFile, socket, conn, line, running, begun>>

-----------------------------------------------------------------------------
(* Commands *)

\* Answers c with a, unless its caller has hung up or c is another daemon's.
Reply(d, cs, a) ==
    [c \in Calls |-> IF c \in cs /\ conn[c] = d /\ line[c] = "taken" THEN a ELSE line[c]]

\* invoke_tool read from the socket.  The MCP client takes it when it holds a
\* link; one that does not have it yet, or not any more, reports itself.
HandleInvokeTool(d, c) ==
    /\ Named(d)
    /\ conn[c] = d
    /\ line[c] = "sent"
    /\ \/ /\ proc[d] \in {"starting", "ready"}
          /\ line' = [line EXCEPT ![c] = "taken"]
          /\ running' = [running EXCEPT ![d] = @ \cup {c}]
          /\ begun' = [begun EXCEPT ![c] = @ + 1]
       \/ /\ proc[d] # "ready"
          /\ line' = [line EXCEPT ![c] = "linkGone"]
          /\ UNCHANGED <<running, begun>>
       \/ /\ proc[d] \in {"closing", "draining"}
          /\ line' = [line EXCEPT ![c] = "failed"]
          /\ UNCHANGED <<running, begun>>
    /\ UNCHANGED <<proc, asked, pidFile, socket, conn>>

\* The MCP server answers; an answer nobody waits for any more is dropped.
ToolDone(d, c) ==
    /\ Named(d)
    /\ c \in running[d]
    /\ running' = [running EXCEPT ![d] = @ \ {c}]
    /\ line' = Reply(d, {c}, "ok")
    /\ UNCHANGED <<proc, asked, pidFile, socket, conn, begun>>

-----------------------------------------------------------------------------
(* Going down *)

\* The MCP server dies: pending requests fail with "Connection closed" and
\* `onclose` starts the cleanup.
ServerLost(d) ==
    /\ proc[d] = "ready"
    /\ proc' = [proc EXCEPT ![d] = "closing"]
    /\ running' = [running EXCEPT ![d] = {}]
    /\ line' = Reply(d, running[d], "failed")
    /\ UNCHANGED <<asked, pidFile, socket, conn, begun>>

\* A daemon obeys its `stop` once it has started, SIGTERM at any time, and
\* SIGKILL without a word.
Obey(d) ==
    /\ \/ /\ asked[d] = "stop" /\ proc[d] = "ready"
          /\ proc' = [proc EXCEPT ![d] = "closing"]
       \/ /\ asked[d] = "term" /\ proc[d] \in {"starting", "ready"}
          /\ proc' = [proc EXCEPT ![d] = "closing"]
       \/ /\ asked[d] = "kill" /\ Alive(d)
          /\ proc' = [proc EXCEPT ![d] = "dead"]
    /\ UNCHANGED <<asked, pidFile, socket, conn, line, running, begun>>

\* cleanup() has closed the MCP client, which fails what was still pending,
\* and closes the listening socket.
CloseServer(d) ==
    /\ proc[d] = "closing"
    /\ proc' = [proc EXCEPT ![d] = "draining"]
    /\ running' = [running EXCEPT ![d] = {}]
    /\ line' = Reply(d, running[d], "failed")
    /\ UNCHANGED <<asked, pidFile, socket, conn, begun>>

\* Once no connection is open, both files are unlinked -- whoever they belong
\* to by then -- and the process exits.
Exit(d) ==
    /\ proc[d] = "draining"
    /\ \A c \in Calls : conn[c] = d => line[c] \in Answers
    /\ proc' = [proc EXCEPT ![d] = "dead"]
    /\ pidFile' = None
    /\ socket' = None
    /\ UNCHANGED <<asked, conn, line, running, begun>>

\* The process dies without a cleanup: both files stay, the sockets break.
Crash(d) ==
    /\ Alive(d)
    /\ proc' = [proc EXCEPT ![d] = "dead"]
    /\ UNCHANGED <<asked, pidFile, socket, conn, line, running, begun>>

\* The MCP server a dead daemon leaves behind shuts down when its stdin closes;
\* until then it goes on driving the browser.
OrphanStops(d) ==
    /\ proc[d] = "dead"
    /\ running[d] # {}
    /\ running' = [running EXCEPT ![d] = {}]
    /\ UNCHANGED <<proc, asked, pidFile, socket, conn, line, begun>>

DaemonStep(d) ==
    \/ BootCheck(d) \/ WritePid(d) \/ SetupMCPClient(d)
    \/ \E c \in Calls : HandleInvokeTool(d, c) \/ ToolDone(d, c)
    \/ ServerLost(d) \/ Obey(d) \/ CloseServer(d) \/ Exit(d)
    \/ Crash(d) \/ OrphanStops(d)
=============================================================================
