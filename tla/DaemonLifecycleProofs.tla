----------------------- MODULE DaemonLifecycleProofs -----------------------
(***************************************************************************)
(* What DaemonLifecycle promises for any number of calls, of daemon        *)
(* processes and of restarts of the front.                                 *)
(***************************************************************************)
EXTENDS DaemonLifecycle, TLAPS

\* Every variable keeps its type.
THEOREM TypeCorrect == Spec => []TypeOK
<1>1. Init => TypeOK
  <2> SUFFICES ASSUME Init PROVE TypeOK
    OBVIOUS
  <2>1. DaemonTypeOK
    BY DEF Init, DaemonInit, DaemonTypeOK, ProcState, Ask, LineState
  <2>2. phase \in [Calls -> Phase] /\ outcome \in [Calls -> Outcome] /\ why \in [Calls -> Cause]
    BY DEF Init, Phase, Outcome, Cause
  <2>3. attempt \in [Calls -> 0..1] /\ noted \in [Calls -> Nat] /\ generation \in Nat
    BY DEF Init
  <2>4. stage \in Stage /\ culprit \in Daemons \cup {None} /\ restarts \in 0..MaxRestarts
    BY RestartsAreBounded DEF Init, Stage
  <2>5. orphaned \in BOOLEAN
    BY Zenon DEF Init
  <2>6. QED
    BY <2>1, <2>2, <2>3, <2>4, <2>5 DEF TypeOK
<1>2. TypeOK /\ [Next]_vars => TypeOK'
  <2> SUFFICES ASSUME TypeOK, [Next]_vars PROVE TypeOK'
    OBVIOUS
  <2> USE DEF TypeOK, DaemonTypeOK, ProcState, Ask, LineState, Phase, Outcome, Cause,
              Stage, StopStage, StartStage
  <2>1. ASSUME NEW c \in Calls, Arrive(c) PROVE TypeOK'
    BY <2>1 DEF Arrive, EnsureDaemon, Join, GoOn, StartDaemon
  <2>2. ASSUME NEW c \in Calls, SendCommand(c) PROVE TypeOK'
    BY SMTT(30), <2>2 DEF SendCommand, SendError, Answered, EnsureDaemon, Join, GoOn, StartDaemon
  <2>3. ASSUME NEW c \in Calls, SocketFails(c) PROVE TypeOK'
    BY SMTT(30), <2>3 DEF SocketFails, HangUp, SendError, Answered, EnsureDaemon, Join, GoOn, StartDaemon
  <2>4. ASSUME NEW c \in Calls, ReadAnswer(c) PROVE TypeOK'
    BY SMTT(30), <2>4 DEF ReadAnswer, HangUp, Answered, ReplaceDaemon, Join, GoOn, StartDaemon, SendStop
  <2>5. CASE OperationStep
    <3>1. CASE DaemonGone
      BY <3>1 DEF DaemonGone, StartDaemon
    <3>2. CASE StopTimeout
      BY <3>2 DEF StopTimeout, Signal, IsDaemonRunning
    <3>3. CASE PidFileSeen \/ DaemonUp
      BY <3>3 DEF PidFileSeen, DaemonUp, daemonVars
    <3>4. CASE OperationDone
      BY <3>4 DEF OperationDone, OperationEnds, daemonVars
    <3>5. CASE OperationTimeout
      BY <3>5 DEF OperationTimeout, OperationEnds, OperationFails, daemonVars
    <3>6. QED
      BY <2>5, <3>1, <3>2, <3>3, <3>4, <3>5 DEF OperationStep
  <2>6. ASSUME NEW d \in Daemons, DaemonMoves(d) PROVE TypeOK'
    <3>1. CASE BootCheck(d) \/ WritePid(d) \/ SetupMCPClient(d)
      BY <2>6, <3>1 DEF DaemonMoves, BootCheck, WritePid, SetupMCPClient, frontVars
    <3>2. ASSUME NEW c \in Calls, HandleInvokeTool(d, c) PROVE TypeOK'
      BY <2>6, <3>2 DEF DaemonMoves, HandleInvokeTool, frontVars
    <3>3. ASSUME NEW c \in Calls, ToolDone(d, c) PROVE TypeOK'
      BY <2>6, <3>3 DEF DaemonMoves, ToolDone, Reply, frontVars
    <3>4. CASE ServerLost(d) \/ CloseServer(d)
      BY <2>6, <3>4 DEF DaemonMoves, ServerLost, CloseServer, Reply, frontVars
    <3>5. CASE Obey(d) \/ Exit(d) \/ Crash(d) \/ OrphanStops(d)
      BY <2>6, <3>5 DEF DaemonMoves, Obey, Exit, Crash, OrphanStops, frontVars
    <3>6. QED
      BY <2>6, <3>1, <3>2, <3>3, <3>4, <3>5 DEF DaemonMoves, DaemonStep
  <2>7. CASE FrontRestart
    BY <2>7, RestartsAreBounded DEF FrontRestart, OperationEnds
  <2>8. CASE UNCHANGED vars
    BY <2>8 DEF vars, daemonVars, frontVars
  <2>9. QED
    BY <2>1, <2>2, <2>3, <2>4, <2>5, <2>6, <2>7, <2>8 DEF Next, CallStep, AllAnswered
<1>3. QED
  BY <1>1, <1>2, PTL DEF Spec

-----------------------------------------------------------------------------
(* One daemon per browser *)

\* The steps of a daemon process, the only ones but StartDaemon that change
\* what is alive and what the pid file says.
OneKnownDaemon == AliveIsKnown /\ AtMostOneDaemon

\* A start over no running daemon leaves exactly the process it spawned.
LEMMA StartLeavesOne ==
  ASSUME TypeOK, OneKnownDaemon, ~IsDaemonRunning, stage # "pidWait", StartDaemon,
         orphaned' = orphaned
  PROVE  OneKnownDaemon'
<1>1. ~orphaned => \A d \in Daemons : ~Alive(d)
  BY DEF OneKnownDaemon, AliveIsKnown, IsDaemonRunning, Alive
<1>2. QED
  BY <1>1 DEF StartDaemon, OneKnownDaemon, AliveIsKnown, AtMostOneDaemon, Alive, Booting,
     Named, TypeOK, DaemonTypeOK, ProcState

\* So does ensureDaemon, whichever way it goes.
LEMMA EnsureLeavesOne ==
  ASSUME TypeOK, OneKnownDaemon, NEW c \in Calls, EnsureDaemon(c), orphaned' = orphaned
  PROVE  OneKnownDaemon'
<1>1. CASE UNCHANGED <<stage, proc, pidFile>>
  BY <1>1 DEF OneKnownDaemon, AliveIsKnown, AtMostOneDaemon, Alive, Booting, Named
<1>2. CASE stage = "idle" /\ ~IsDaemonRunning /\ StartDaemon
  BY <1>2, StartLeavesOne
<1>3. QED
  BY <1>1, <1>2 DEF EnsureDaemon

LEMMA OneKnownDaemonStep ==
  ASSUME TypeOK, OneKnownDaemon, [Next]_vars
  PROVE  OneKnownDaemon'
<1> USE DEF OneKnownDaemon
<1>1. ASSUME NEW c \in Calls, Arrive(c) PROVE OneKnownDaemon'
  BY <1>1, EnsureLeavesOne DEF Arrive
<1>2. ASSUME NEW c \in Calls, SendError(c), orphaned' = orphaned PROVE OneKnownDaemon'
  <2>1. CASE EnsureDaemon(c)
    BY <1>2, <2>1, EnsureLeavesOne
  <2>2. CASE UNCHANGED <<stage, proc, pidFile>>
    BY <1>2, <2>2 DEF AliveIsKnown, AtMostOneDaemon, Alive, Booting, Named
  <2>3. QED
    BY <1>2, <2>1, <2>2 DEF SendError
<1>3. ASSUME NEW c \in Calls, SendCommand(c) PROVE OneKnownDaemon'
  <2>1. CASE SendError(c)
    BY <1>2, <1>3, <2>1 DEF SendCommand
  <2>2. CASE UNCHANGED <<stage, proc, pidFile>>
    BY <1>3, <2>2 DEF SendCommand, AliveIsKnown, AtMostOneDaemon, Alive, Booting, Named
  <2>3. QED
    BY <1>3, <2>1, <2>2 DEF SendCommand
<1>4. ASSUME NEW c \in Calls, SocketFails(c) PROVE OneKnownDaemon'
  BY <1>2, <1>4 DEF SocketFails
<1>5. ASSUME NEW c \in Calls, ReadAnswer(c) PROVE OneKnownDaemon'
  <2>1. CASE ~IsDaemonRunning /\ stage = "idle" /\ StartDaemon
    BY <1>5, <2>1, StartLeavesOne DEF ReadAnswer
  <2>2. CASE proc' = proc /\ pidFile' = pidFile /\ (stage' = stage \/ stage = "idle")
    BY <1>5, <2>2 DEF ReadAnswer, AliveIsKnown, AtMostOneDaemon, Alive, Booting, Named
  <2>3. QED
    BY <1>5, <2>1, <2>2 DEF ReadAnswer, ReplaceDaemon
<1>6. CASE DaemonGone
  BY <1>6, StartLeavesOne DEF DaemonGone, StopStage
<1>7. CASE StopTimeout \/ PidFileSeen \/ DaemonUp \/ OperationDone
  <2>1. proc' = proc /\ pidFile' = pidFile /\ orphaned' = orphaned
    BY <1>7 DEF StopTimeout, PidFileSeen, DaemonUp, OperationDone, daemonVars
  <2>2. stage = "pidWait" => pidFile # None
    BY <1>7 DEF StopTimeout, PidFileSeen, DaemonUp, OperationDone, Signal
  <2>3. QED
    BY <2>1, <2>2 DEF AliveIsKnown, AtMostOneDaemon, Alive, Booting, Named
<1>8. CASE OperationTimeout \/ FrontRestart
  <2>1. proc' = proc /\ pidFile' = pidFile
    BY <1>8 DEF OperationTimeout, FrontRestart, daemonVars
  <2>2. ~orphaned' => ~orphaned /\ \A d \in Daemons : ~Booting(d)
    BY <1>8 DEF OperationTimeout, FrontRestart
  <2>3. QED
    BY <2>1, <2>2 DEF AliveIsKnown, AtMostOneDaemon, Alive, Booting, Named
<1>9. ASSUME NEW d \in Daemons, DaemonMoves(d) PROVE OneKnownDaemon'
  <2>1. orphaned' = orphaned /\ stage' = stage
    BY <1>9 DEF DaemonMoves, frontVars
  <2>2. CASE proc' = proc /\ pidFile' = pidFile
    BY <2>1, <2>2 DEF AliveIsKnown, AtMostOneDaemon, Alive, Booting, Named
  <2>3. CASE BootCheck(d) \/ WritePid(d) \/ SetupMCPClient(d)
    BY <2>1, <2>3 DEF BootCheck, WritePid, SetupMCPClient, AliveIsKnown, AtMostOneDaemon,
       Alive, Booting, Named, TypeOK, DaemonTypeOK
  <2>4. CASE ServerLost(d) \/ CloseServer(d) \/ Obey(d)
    BY <2>1, <2>4 DEF ServerLost, CloseServer, Obey, AliveIsKnown, AtMostOneDaemon,
       Alive, Booting, Named, TypeOK, DaemonTypeOK
  <2>5. CASE Exit(d) \/ Crash(d)
    BY <2>1, <2>5 DEF Exit, Crash, AliveIsKnown, AtMostOneDaemon,
       Alive, Booting, Named, TypeOK, DaemonTypeOK
  <2>6. QED
    BY <1>9, <2>2, <2>3, <2>4, <2>5 DEF DaemonMoves, DaemonStep, HandleInvokeTool, ToolDone,
       OrphanStops
<1>10. CASE UNCHANGED vars
  BY <1>10 DEF vars, daemonVars, frontVars, AliveIsKnown, AtMostOneDaemon, Alive, Booting, Named
<1>11. QED
  BY <1>1, <1>3, <1>4, <1>5, <1>6, <1>7, <1>8, <1>9, <1>10
     DEF Next, CallStep, OperationStep, AllAnswered

LEMMA OneKnownDaemonHolds == Spec => []OneKnownDaemon
<1>1. Init => OneKnownDaemon
  BY DEF Init, DaemonInit, OneKnownDaemon, AliveIsKnown, AtMostOneDaemon, Alive, Booting, Named
<1>2. QED
  BY <1>1, OneKnownDaemonStep, TypeCorrect, PTL DEF Spec

\* At most one daemon of a browser is alive, as long as no start was given up
\* while its process was still booting.
THEOREM OneDaemon == Spec => []AtMostOneDaemon
<1>1. OneKnownDaemon => AtMostOneDaemon
  BY DEF OneKnownDaemon
<1>2. QED
  BY <1>1, OneKnownDaemonHolds, PTL

-----------------------------------------------------------------------------
(* Commands on their sockets *)

\* The only steps that touch a socket open one for a call about to send, hang
\* one up, or put a daemon's answer on it.
LEMMA SocketsInUseStep ==
  ASSUME TypeOK, SocketsInUse, [Next]_vars
  PROVE  SocketsInUse'
<1> USE DEF SocketsInUse, TypeOK, DaemonTypeOK
<1>1. ASSUME NEW c \in Calls, Arrive(c) PROVE SocketsInUse'
  BY <1>1 DEF Arrive, EnsureDaemon, Join, GoOn
<1>2. ASSUME NEW c \in Calls, SendCommand(c) PROVE SocketsInUse'
  <2>1. CASE SendError(c) /\ UNCHANGED <<conn, line>>
    BY <1>2, <2>1 DEF SendCommand, SendError, EnsureDaemon, Join, GoOn, Answered
  <2>2. CASE /\ line' = [line EXCEPT ![c] = "sent"]
             /\ phase' = [phase EXCEPT ![c] = "sent"]
             /\ noted' = noted
             /\ \E e \in Daemons \cup {None} : conn' = [conn EXCEPT ![c] = e]
    BY <1>2, <2>2 DEF SendCommand
  <2>3. QED
    BY <1>2, <2>1, <2>2 DEF SendCommand
<1>3. ASSUME NEW c \in Calls, SocketFails(c) PROVE SocketsInUse'
  BY <1>3 DEF SocketFails, HangUp, SendError, EnsureDaemon, Join, GoOn, Answered
<1>4. ASSUME NEW c \in Calls, ReadAnswer(c) PROVE SocketsInUse'
  BY <1>4 DEF ReadAnswer, HangUp, ReplaceDaemon, Join, GoOn, Answered
<1>5. CASE DaemonGone \/ StopTimeout \/ PidFileSeen
  BY <1>5 DEF DaemonGone, StopTimeout, PidFileSeen, daemonVars
<1>6. CASE DaemonUp
  BY <1>6 DEF DaemonUp, daemonVars
<1>7. CASE OperationDone
  BY <1>7 DEF OperationDone, daemonVars
<1>8. CASE OperationTimeout
  BY <1>8 DEF OperationTimeout, OperationFails, daemonVars
<1>9. ASSUME NEW d \in Daemons, DaemonMoves(d) PROVE SocketsInUse'
  <2>1. UNCHANGED <<phase, noted, generation>>
    BY <1>9 DEF DaemonMoves, frontVars
  <2>2. conn' = conn
    BY <1>9 DEF DaemonMoves, DaemonStep, BootCheck, WritePid, SetupMCPClient, HandleInvokeTool,
       ToolDone, ServerLost, Obey, CloseServer, Exit, Crash, OrphanStops
  <2>3. \A c \in Calls : line'[c] # line[c] =>
           line[c] # "none" /\ line'[c] # "none" /\ conn[c] = d
    BY <1>9 DEF DaemonMoves, DaemonStep, BootCheck, WritePid, SetupMCPClient, HandleInvokeTool,
       ToolDone, ServerLost, Obey, CloseServer, Exit, Crash, OrphanStops, Reply
  <2>4. QED
    BY <2>1, <2>2, <2>3, NoneIsNoDaemon
<1>10. CASE FrontRestart
  BY <1>10 DEF FrontRestart
<1>11. CASE UNCHANGED vars
  BY <1>11 DEF vars, daemonVars, frontVars
<1>12. QED
  BY <1>1, <1>2, <1>3, <1>4, <1>5, <1>6, <1>7, <1>8, <1>9, <1>10, <1>11
     DEF Next, CallStep, OperationStep, AllAnswered

LEMMA SocketsStayInUse == Spec => []SocketsInUse
<1>1. Init => SocketsInUse
  BY DEF Init, DaemonInit, SocketsInUse
<1>2. QED
  BY <1>1, SocketsInUseStep, TypeCorrect, PTL DEF Spec

-----------------------------------------------------------------------------
(* The generation names the daemon, and a replacement hits the right one *)

\* A step that leaves the pid file alone, or empties it, and opens no socket.
LEMMA GenerationKept ==
  ASSUME TypeOK, GenerationIsDaemon,
         stage' \notin {"pidWait", "readyWait"} => stage \notin {"pidWait", "readyWait"},
         generation' = generation, orphaned' = orphaned,
         IsDaemonRunning' => IsDaemonRunning /\ pidFile' = pidFile,
         \A c \in Calls : phase'[c] = "sent" =>
            phase[c] = "sent" /\ noted'[c] = noted[c] /\ conn'[c] = conn[c]
  PROVE  GenerationIsDaemon'
BY DEF GenerationIsDaemon

LEMMA GenerationIsDaemonStep ==
  ASSUME TypeOK, OneKnownDaemon, SocketsInUse, GenerationIsDaemon, [Next]_vars
  PROVE  GenerationIsDaemon'
<1> USE DEF TypeOK, DaemonTypeOK, IsDaemonRunning, Alive, Booting, Named
<1>1. ASSUME NEW c \in Calls, EnsureDaemon(c), generation' = generation,
             orphaned' = orphaned, \A b \in Calls \ {c} : conn'[b] = conn[b]
      PROVE  GenerationIsDaemon'
  BY <1>1 DEF EnsureDaemon, Join, GoOn, StartDaemon, GenerationIsDaemon
<1>2. ASSUME NEW c \in Calls, Arrive(c) PROVE GenerationIsDaemon'
  BY <1>1, <1>2 DEF Arrive, EnsureDaemon, StartDaemon
<1>3. ASSUME NEW c \in Calls, SendError(c), generation' = generation, orphaned' = orphaned,
             \A b \in Calls \ {c} : conn'[b] = conn[b]
      PROVE  GenerationIsDaemon'
  <2>1. CASE EnsureDaemon(c)
    BY <1>1, <1>3, <2>1 DEF EnsureDaemon, StartDaemon
  <2>2. CASE UNCHANGED <<noted, stage, proc, pidFile>> /\ Answered(c, "tool")
    BY <1>3, <2>2 DEF Answered, GenerationIsDaemon
  <2>3. QED
    BY <1>3, <2>1, <2>2 DEF SendError
<1>4. ASSUME NEW c \in Calls, SendCommand(c) PROVE GenerationIsDaemon'
  <2>1. CASE SendError(c) /\ conn' = conn
    BY <1>3, <1>4, <2>1 DEF SendCommand
  <2>2. CASE /\ UNCHANGED <<noted, stage, proc, pidFile>>
             /\ phase' = [phase EXCEPT ![c] = "sent"]
             /\ \/ conn' = [conn EXCEPT ![c] = None]
                \/ \E d \in Daemons : Listening(d) /\ conn' = [conn EXCEPT ![c] = d]
    BY <1>4, <2>2 DEF SendCommand, Listening, Accepts, GenerationIsDaemon, OneKnownDaemon,
       AliveIsKnown, AtMostOneDaemon
  <2>3. QED
    BY <1>4, <2>1, <2>2 DEF SendCommand
<1>5. ASSUME NEW c \in Calls, SocketFails(c) PROVE GenerationIsDaemon'
  BY <1>3, <1>5 DEF SocketFails, HangUp
<1>6. ASSUME NEW c \in Calls, ReadAnswer(c) PROVE GenerationIsDaemon'
  BY <1>6 DEF ReadAnswer, HangUp, ReplaceDaemon, Answered, Join, GoOn, StartDaemon,
     GenerationIsDaemon
<1>7. CASE DaemonGone \/ PidFileSeen
  BY <1>7 DEF DaemonGone, PidFileSeen, StartDaemon, GenerationIsDaemon
<1>8. CASE StopTimeout
  BY <1>8, GenerationKept DEF StopTimeout, Signal
<1>9. CASE DaemonUp
  BY <1>9 DEF DaemonUp, SocketsInUse, GenerationIsDaemon
<1>10. CASE OperationDone
  BY <1>10 DEF OperationDone, OperationEnds, daemonVars, GenerationIsDaemon
<1>11. CASE OperationTimeout
  \* Nothing unread: a call still on its socket holds on to a living daemon.
  <2>1. \A c \in Calls : phase[c] = "sent" => \E d \in Daemons : conn[c] = d /\ Alive(d)
    BY <1>11 DEF OperationTimeout, TimersDue, Unread, Broken, SocketsInUse, Answers, LineState
  <2>2. UNCHANGED <<proc, pidFile, conn, noted, generation>>
    BY <1>11 DEF OperationTimeout, daemonVars
  <2>3. \A c \in Calls : phase'[c] = "sent" => phase[c] = "sent"
    BY <1>11 DEF OperationTimeout, OperationFails
  <2>4. ~orphaned' => ~orphaned
    BY <1>11 DEF OperationTimeout
  <2>5. QED
    BY <2>1, <2>2, <2>3, <2>4 DEF GenerationIsDaemon, OneKnownDaemon, AtMostOneDaemon
<1>12. ASSUME NEW d \in Daemons, DaemonMoves(d) PROVE GenerationIsDaemon'
  <2>1. UNCHANGED frontVars /\ conn' = conn
    BY <1>12 DEF DaemonMoves, DaemonStep, BootCheck, WritePid, SetupMCPClient, HandleInvokeTool,
       ToolDone, ServerLost, Obey, CloseServer, Exit, Crash, OrphanStops
  <2>2. CASE WritePid(d)
    BY <2>1, <2>2 DEF WritePid, frontVars, OneKnownDaemon, AliveIsKnown, GenerationIsDaemon
  <2>3. CASE ~WritePid(d)
    <3>1. pidFile' \in {pidFile, None}
      BY <1>12, <2>3 DEF DaemonMoves, DaemonStep, BootCheck, SetupMCPClient, HandleInvokeTool,
         ToolDone, ServerLost, Obey, CloseServer, Exit, Crash, OrphanStops
    <3>2. \A e \in Daemons : Alive(e)' => Alive(e)
      BY <1>12, <2>3 DEF DaemonMoves, DaemonStep, BootCheck, SetupMCPClient, HandleInvokeTool,
         ToolDone, ServerLost, Obey, CloseServer, Exit, Crash, OrphanStops
    <3>3. QED
      BY <2>1, <3>1, <3>2, NoneIsNoDaemon DEF frontVars, GenerationIsDaemon
  <2>4. QED
    BY <2>2, <2>3
<1>13. CASE FrontRestart
  BY <1>13 DEF FrontRestart, GenerationIsDaemon
<1>14. CASE UNCHANGED vars
  BY <1>14 DEF vars, daemonVars, frontVars, GenerationIsDaemon
<1>15. QED
  BY <1>2, <1>4, <1>5, <1>6, <1>7, <1>8, <1>9, <1>10, <1>11, <1>12, <1>13, <1>14
     DEF Next, CallStep, OperationStep, AllAnswered

\* The daemon a replacement takes down is the one whose answer asked for it.
LEMMA ReplacesTheCulpritStep ==
  ASSUME TypeOK, OneKnownDaemon, SocketsInUse, GenerationIsDaemon, ReplacesTheCulprit,
         [Next]_vars
  PROVE  ReplacesTheCulprit'
<1> USE DEF TypeOK, DaemonTypeOK, IsDaemonRunning, Alive, Booting, Named, StopStage
<1>1. ASSUME NEW c \in Calls, SendError(c), culprit' = culprit, orphaned' = orphaned
      PROVE  ReplacesTheCulprit'
  BY <1>1 DEF SendError, EnsureDaemon, StartDaemon, ReplacesTheCulprit
<1>2. ASSUME NEW c \in Calls, Arrive(c) PROVE ReplacesTheCulprit'
  BY <1>2 DEF Arrive, EnsureDaemon, StartDaemon, ReplacesTheCulprit
<1>3. ASSUME NEW c \in Calls, SendCommand(c) PROVE ReplacesTheCulprit'
  BY <1>1, <1>3 DEF SendCommand, ReplacesTheCulprit
<1>4. ASSUME NEW c \in Calls, SocketFails(c) PROVE ReplacesTheCulprit'
  BY <1>1, <1>4 DEF SocketFails
<1>5. ASSUME NEW c \in Calls, ReadAnswer(c) PROVE ReplacesTheCulprit'
  <2>1. CASE UNCHANGED <<stage, proc, pidFile, culprit>>
    BY <1>5, <2>1 DEF ReadAnswer, ReplacesTheCulprit
  <2>2. CASE StartDaemon
    BY <2>2 DEF StartDaemon, ReplacesTheCulprit
  <2>3. CASE /\ stage = "idle" /\ generation = noted[c] /\ culprit' = conn[c]
             /\ UNCHANGED <<proc, pidFile>> /\ IsDaemonRunning
    <3>1. conn[c] # None
      BY <1>5 DEF ReadAnswer, SocketsInUse, Answers
    <3>2. ~orphaned => conn[c] = pidFile
      BY <1>5, <2>3, <3>1 DEF ReadAnswer, GenerationIsDaemon
    <3>3. QED
      BY <1>5, <2>3, <3>2 DEF ReadAnswer, ReplacesTheCulprit
  <2>4. QED
    BY <1>5, <2>1, <2>2, <2>3 DEF ReadAnswer, ReplaceDaemon
<1>6. CASE OperationStep
  BY <1>6 DEF OperationStep, DaemonGone, StopTimeout, PidFileSeen, DaemonUp, OperationDone,
     OperationTimeout, Signal, StartDaemon, OperationEnds, OperationFails, daemonVars,
     ReplacesTheCulprit
<1>7. ASSUME NEW d \in Daemons, DaemonMoves(d) PROVE ReplacesTheCulprit'
  <2>1. UNCHANGED frontVars
    BY <1>7 DEF DaemonMoves
  <2>2. CASE WritePid(d)
    BY <2>1, <2>2 DEF WritePid, frontVars, OneKnownDaemon, AliveIsKnown, ReplacesTheCulprit
  <2>3. CASE ~WritePid(d)
    <3>1. pidFile' \in {pidFile, None}
      BY <1>7, <2>3 DEF DaemonMoves, DaemonStep, BootCheck, SetupMCPClient, HandleInvokeTool,
         ToolDone, ServerLost, Obey, CloseServer, Exit, Crash, OrphanStops
    <3>2. \A e \in Daemons : Alive(e)' => Alive(e)
      BY <1>7, <2>3 DEF DaemonMoves, DaemonStep, BootCheck, SetupMCPClient, HandleInvokeTool,
         ToolDone, ServerLost, Obey, CloseServer, Exit, Crash, OrphanStops
    <3>3. QED
      BY <2>1, <3>1, <3>2, NoneIsNoDaemon DEF frontVars, ReplacesTheCulprit
  <2>4. QED
    BY <2>2, <2>3
<1>8. CASE FrontRestart \/ UNCHANGED vars
  BY <1>8 DEF FrontRestart, OperationEnds, vars, daemonVars, frontVars, ReplacesTheCulprit
<1>9. QED
  BY <1>2, <1>3, <1>4, <1>5, <1>6, <1>7, <1>8 DEF Next, CallStep, AllAnswered

\* The facts about generations and sockets, together inductive.
LEMMA GenerationsHold == Spec => [](GenerationIsDaemon /\ ReplacesTheCulprit)
<1>1. Init => GenerationIsDaemon /\ ReplacesTheCulprit
  BY DEF Init, GenerationIsDaemon, ReplacesTheCulprit, StopStage
<1>2. QED
  BY <1>1, OneKnownDaemonHolds, GenerationIsDaemonStep, ReplacesTheCulpritStep, SocketsStayInUse, TypeCorrect,
     PTL DEF Spec

\* While no operation is in flight, a command under the current generation sits
\* on the socket of the daemon that runs.
THEOREM GenerationNamesDaemon == Spec => []CurrentGenerationIsCurrentDaemon
<1>1. GenerationIsDaemon => CurrentGenerationIsCurrentDaemon
  BY DEF GenerationIsDaemon, CurrentGenerationIsCurrentDaemon
<1>2. QED
  BY <1>1, GenerationsHold, PTL

\* No replacement takes down a daemon other than the one that failed.
THEOREM ReplacementIsDeserved == Spec => []ReplacesTheCulprit
BY GenerationsHold, PTL

-----------------------------------------------------------------------------
(* Waiting, and beginning *)

\* No call is left waiting for an operation that has ended.
THEOREM NoWaiterLeftBehind == Spec => []WaitersHaveAnOperation
<1>1. Init => WaitersHaveAnOperation
  BY DEF Init, WaitersHaveAnOperation
<1>2. ASSUME TypeOK, WaitersHaveAnOperation, [Next]_vars PROVE WaitersHaveAnOperation'
  <2> USE <1>2 DEF WaitersHaveAnOperation, TypeOK, DaemonTypeOK
  <2>1. ASSUME NEW c \in Calls, Arrive(c) \/ CallStep(c) PROVE WaitersHaveAnOperation'
    BY <2>1 DEF Arrive, CallStep, SendCommand, SocketFails, ReadAnswer, SendError, Answered,
       EnsureDaemon, ReplaceDaemon, Join, GoOn, StartDaemon
  <2>2. CASE DaemonGone \/ StopTimeout \/ PidFileSeen \/ DaemonUp
    BY <2>2 DEF DaemonGone, StopTimeout, PidFileSeen, DaemonUp, Signal, StartDaemon
  <2>3. CASE OperationDone \/ OperationTimeout
    BY <2>3 DEF OperationDone, OperationTimeout, OperationFails
  <2>4. CASE FrontRestart
    BY <2>4 DEF FrontRestart
  <2>5. CASE (\E d \in Daemons : DaemonMoves(d)) \/ UNCHANGED vars
    BY <2>5 DEF DaemonMoves, frontVars, vars
  <2>6. QED
    BY <2>1, <2>2, <2>3, <2>4, <2>5 DEF Next, OperationStep, AllAnswered
<1>3. QED
  BY <1>1, <1>2, TypeCorrect, PTL DEF Spec

LEMMA CleanCallsStep ==
  ASSUME TypeOK, SocketsInUse, CleanCallsBeginOnce, [Next]_vars
  PROVE  CleanCallsBeginOnce'
<1> USE DEF CleanCallsBeginOnce, TypeOK, DaemonTypeOK
<1>1. ASSUME NEW c \in Calls, SendError(c), begun' = begun, phase[c] \in {"send", "sent"},
             line' = line \/ line' = [line EXCEPT ![c] = "none"]
      PROVE  CleanCallsBeginOnce'
  BY <1>1 DEF SendError, EnsureDaemon, Answered, Join, GoOn
<1>2. ASSUME NEW c \in Calls, Arrive(c) PROVE CleanCallsBeginOnce'
  BY <1>2 DEF Arrive, EnsureDaemon, Join, GoOn
<1>3. ASSUME NEW c \in Calls, SendCommand(c) PROVE CleanCallsBeginOnce'
  <2>1. CASE SendError(c) /\ line' = line
    BY <1>1, <1>3, <2>1 DEF SendCommand
  <2>2. CASE /\ line' = [line EXCEPT ![c] = "sent"]
             /\ phase' = [phase EXCEPT ![c] = "sent"]
             /\ UNCHANGED <<attempt, why, begun>>
    BY <1>3, <2>2 DEF SendCommand
  <2>3. QED
    BY <1>3, <2>1, <2>2 DEF SendCommand
<1>4. ASSUME NEW c \in Calls, SocketFails(c) PROVE CleanCallsBeginOnce'
  BY <1>1, <1>4 DEF SocketFails, HangUp
<1>5. ASSUME NEW c \in Calls, ReadAnswer(c) PROVE CleanCallsBeginOnce'
  BY <1>5 DEF ReadAnswer, HangUp, Answered, ReplaceDaemon, Join, GoOn, BROWSER_LINK_GONE
<1>6. CASE OperationStep
  BY <1>6 DEF OperationStep, DaemonGone, StopTimeout, PidFileSeen, DaemonUp, OperationDone,
     OperationTimeout, OperationFails, daemonVars
<1>7. ASSUME NEW d \in Daemons, DaemonMoves(d) PROVE CleanCallsBeginOnce'
  <2>1. UNCHANGED <<phase, attempt, why>>
    BY <1>7 DEF DaemonMoves, frontVars
  <2>2. ASSUME NEW c \in Calls, HandleInvokeTool(d, c) PROVE CleanCallsBeginOnce'
    BY <2>1, <2>2 DEF HandleInvokeTool, SocketsInUse
  <2>3. CASE begun' = begun /\ \A c \in Calls : line'[c] # line[c] => line'[c] \in {"ok", "failed"}
    BY <2>1, <2>3
  <2>4. QED
    BY <1>7, <2>2, <2>3 DEF DaemonMoves, DaemonStep, BootCheck, WritePid, SetupMCPClient,
       ToolDone, ServerLost, Obey, CloseServer, Exit, Crash, OrphanStops, Reply
<1>8. CASE FrontRestart
  BY <1>8 DEF FrontRestart, SocketsInUse
<1>9. CASE UNCHANGED vars
  BY <1>9 DEF vars, daemonVars, frontVars
<1>10. QED
  BY <1>2, <1>3, <1>4, <1>5, <1>6, <1>7, <1>8, <1>9 DEF Next, CallStep, AllAnswered

\* A retry after a lost browser link never repeats what had begun.
THEOREM LinkGoneRetry == Spec => []LinkGoneRetryIsSound
<1>1. Init => CleanCallsBeginOnce
  <2>1. ASSUME Init, NEW c \in Calls
        PROVE  begun[c] = 0 /\ why[c] = "none"
    BY <2>1 DEF Init, DaemonInit
  <2>2. ASSUME NEW c \in Calls, begun[c] = 0
        PROVE  begun[c] <= 1
    BY <2>2
  <2>3. QED
    BY <2>1, <2>2 DEF CleanCallsBeginOnce
<1>2. CleanCallsBeginOnce => LinkGoneRetryIsSound
  BY DEF CleanCallsBeginOnce, LinkGoneRetryIsSound
<1>3. QED
  BY <1>1, <1>2, CleanCallsStep, SocketsStayInUse, TypeCorrect, PTL DEF Spec
=============================================================================
