------------------------ MODULE DaemonLifecycleProofs ------------------------
(***************************************************************************)
(* Theorems about DaemonLifecycle for any number of daemons and shells.    *)
(***************************************************************************)
EXTENDS DaemonLifecycle, TLAPS

\* The initial state is well typed.
LEMMA TypeInit == Init => TypeOK
  BY DEF Init, TypeOK, Booting, MainStates, ServeStates, Verdicts

\* Every step keeps the state well typed.
LEMMA TypeStep == ASSUME TypeOK, [Next]_vars PROVE TypeOK'
<1> USE NoDaemonAssumption
    DEF TypeOK, Booting, MainStates, ServeStates, Verdicts, InCommand, daemonVars
<1>1. ASSUME NEW c \in Client, BeginStart(c) \/ BeginStop(c) PROVE TypeOK'
  BY <1>1 DEF BeginStart, BeginStop
<1>2. ASSUME NEW c \in Client, Command(c) PROVE TypeOK'
  <2>1. CASE ProbeAnswered(c) \/ AwaitAnswered(c) \/ AwaitTimesOut(c)
                \/ ForegroundReturns(c) \/ PollUnanswered(c) \/ PollTimesOut(c)
    BY <2>1 DEF ProbeAnswered, AwaitAnswered, AwaitTimesOut,
                ForegroundReturns, PollUnanswered, PollTimesOut
  <2>2. ASSUME NEW d \in Daemon, ProbeUnanswered(c, d) PROVE TypeOK'
    BY <2>2 DEF ProbeUnanswered
  <2>3. ASSUME NEW d \in Daemon, ShutdownAnswered(c, d) PROVE TypeOK'
    BY <2>3 DEF ShutdownAnswered
  <2>4. CASE ShutdownUnanswered(c)
    BY <2>4 DEF ShutdownUnanswered
  <2>5. QED
    BY <1>2, <2>1, <2>2, <2>3, <2>4 DEF Command
<1>3. ASSUME NEW d \in Daemon, Listener(d) PROVE TypeOK'
  BY <1>3 DEF Listener, UnlinkStale, BindPath, ListenPath, BindPort,
              PublishPort, AcceptLoopStops
<1>4. ASSUME NEW d \in Daemon, MainThread(d) PROVE TypeOK'
  <2>1. CASE StartReturns(d) \/ NoticeShutdown(d) \/ BeginStopping(d)
    BY <2>1 DEF StartReturns, NoticeShutdown, BeginStopping, ListenerOver
  <2>2. CASE CloseSocket(d)
    BY <2>2 DEF CloseSocket
  <2>3. CASE JoinAndCleanup(d)
    BY <2>3 DEF JoinAndCleanup
  <2>4. QED
    BY <1>4, <2>1, <2>2, <2>3 DEF MainThread
<1>5. ASSUME NEW d \in Daemon, Fault(d) PROVE TypeOK'
  <2>1. CASE EndpointUnusable(d) \/ ListenerAborts(d) \/ AcceptLoopGivesUp(d)
    BY <2>1 DEF EndpointUnusable, ListenerAborts, AcceptLoopGivesUp
  <2>2. CASE CleanupFails(d)
    BY <2>2 DEF CleanupFails
  <2>3. CASE Interrupt(d)
    BY <2>3 DEF Interrupt
  <2>4. CASE Dies(d)
    BY <2>4 DEF Dies
  <2>5. QED
    BY <1>5, <2>1, <2>2, <2>3, <2>4 DEF Fault, Crash, StartTimesOut
<1>6. CASE UNCHANGED vars
  BY <1>6 DEF vars
<1>7. QED
  BY <1>1, <1>2, <1>3, <1>4, <1>5, <1>6 DEF Next

\* The state of every process and shell is one of those named, whatever the
\* faults and however commands interleave.
THEOREM TypeCorrect == Spec => []TypeOK
  BY TypeInit, TypeStep, PTL DEF Spec

-----------------------------------------------------------------------------
(***************************************************************************)
(* A graceful exit leaves no endpoint file of its own.  Inductive with:    *)
(* the listener of an ended process is over, so nothing can publish d      *)
(* again after JoinAndCleanup emptied the path.                            *)
(***************************************************************************)
EndedIsOver ==
    \A d \in Daemon : main[d] \in {"exited", "left", "crashed"} => serve[d] = "done"

ExitInv == TypeOK /\ EndedIsOver /\ CleanExit

\* No daemon leaves its endpoint file behind, under every fault and every
\* interleaving of commands (Server.stop, Server._cleanup).
THEOREM ExitIsClean == Spec => []CleanExit
<1>1. Init => ExitInv
  BY TypeInit DEF Init, ExitInv, EndedIsOver, CleanExit
<1>2. ExitInv /\ [Next]_vars => ExitInv'
  <2> SUFFICES ASSUME ExitInv, [Next]_vars PROVE EndedIsOver' /\ CleanExit'
    BY TypeStep DEF ExitInv
  <2> USE NoDaemonAssumption DEF ExitInv, EndedIsOver, CleanExit, TypeOK
  <2>1. ASSUME NEW c \in Client, BeginStart(c) \/ BeginStop(c)
        PROVE  EndedIsOver' /\ CleanExit'
    BY <2>1 DEF BeginStart, BeginStop, daemonVars
  <2>2. ASSUME NEW c \in Client, Command(c) PROVE EndedIsOver' /\ CleanExit'
    <3>1. CASE UNCHANGED <<endpoint, main, serve>>
      BY <3>1
    <3>2. ASSUME NEW d \in Daemon, ProbeUnanswered(c, d)
          PROVE  EndedIsOver' /\ CleanExit'
      BY <3>2 DEF ProbeUnanswered
    <3>3. QED
      BY <2>2, <3>1, <3>2
      DEF Command, ProbeAnswered, AwaitAnswered, AwaitTimesOut,
          ForegroundReturns, ShutdownAnswered, ShutdownUnanswered,
          PollUnanswered, PollTimesOut, daemonVars
  <2>3. ASSUME NEW d \in Daemon, Listener(d) PROVE EndedIsOver' /\ CleanExit'
    BY <2>3 DEF Listener, UnlinkStale, BindPath, ListenPath, BindPort,
                PublishPort, AcceptLoopStops
  <2>4. ASSUME NEW d \in Daemon, MainThread(d) PROVE EndedIsOver' /\ CleanExit'
    BY <2>4 DEF MainThread, StartReturns, NoticeShutdown, BeginStopping,
                CloseSocket, JoinAndCleanup, ListenerOver
  <2>5. ASSUME NEW d \in Daemon, Fault(d) PROVE EndedIsOver' /\ CleanExit'
    BY <2>5 DEF Fault, EndpointUnusable, ListenerAborts, AcceptLoopGivesUp,
                CleanupFails, Interrupt, Crash,
                StartTimesOut, Dies, Alive
  <2>6. CASE UNCHANGED vars
    BY <2>6 DEF vars
  <2>7. QED
    BY <2>1, <2>2, <2>3, <2>4, <2>5, <2>6 DEF Next
<1>3. ExitInv => CleanExit
  BY DEF ExitInv
<1>4. QED
  BY <1>1, <1>2, <1>3, PTL DEF Spec

-----------------------------------------------------------------------------
(***************************************************************************)
(* "stopped" is the truth whenever replies beat their timeouts.  Inductive *)
(* with: a daemon that took a SHUTDOWN has its boot behind it, and only a  *)
(* booting listener can make a daemon reachable.                           *)
(***************************************************************************)
AskedHasBooted ==
    \A c \in Client : cli[c] \in {"polling", "stopped"} =>
        /\ target[c] \in Daemon
        /\ serve[target[c]] \in {"accepting", "failed", "aborted", "done"}

UnbornIsIdle == \A d \in Daemon : main[d] = "unborn" => serve[d] = "none"

StopInv == TypeOK /\ UnbornIsIdle /\ AskedHasBooted /\ StopIsTruthful

\* `daemon stop` prints "stopped" only of a daemon that can no longer be
\* reached, however commands interleave and daemons die, unless answers are
\* slower than their timeouts (cmd_daemon's poll loop).
THEOREM StopTellsTheTruth ==
    ASSUME "slow" \notin Faults PROVE Spec => []StopIsTruthful
<1>1. Init => StopInv
  BY TypeInit DEF Init, StopInv, UnbornIsIdle, AskedHasBooted, StopIsTruthful
<1>2. StopInv /\ [Next]_vars => StopInv'
  <2> SUFFICES ASSUME StopInv, [Next]_vars
               PROVE  UnbornIsIdle' /\ AskedHasBooted' /\ StopIsTruthful'
    BY TypeStep DEF StopInv
  <2> DEFINE Goal == UnbornIsIdle' /\ AskedHasBooted' /\ StopIsTruthful'
  <2> USE NoDaemonAssumption
      DEF StopInv, UnbornIsIdle, AskedHasBooted, StopIsTruthful, TypeOK, Answers
  <2>1. ASSUME NEW c \in Client, BeginStart(c) \/ BeginStop(c)
        PROVE  Goal
    BY <2>1 DEF BeginStart, BeginStop, daemonVars
  <2>2. ASSUME NEW c \in Client, Command(c)
        PROVE  Goal
    <3>1. CASE ProbeAnswered(c) \/ AwaitAnswered(c) \/ AwaitTimesOut(c)
                  \/ ForegroundReturns(c) \/ PollTimesOut(c)
      <4>1. /\ UNCHANGED <<endpoint, main, serve, listening, target>>
            /\ \E v \in Verdicts \ {"stopped"} : cli' = [cli EXCEPT ![c] = v]
        BY <3>1 DEF ProbeAnswered, AwaitAnswered, AwaitTimesOut, Verdicts,
                    ForegroundReturns, PollTimesOut, daemonVars
      <4>2. QED
        BY <4>1 DEF Verdicts
    <3>2. ASSUME NEW d \in Daemon, ProbeUnanswered(c, d)
          PROVE  Goal
      BY <3>2 DEF ProbeUnanswered
    <3>3. ASSUME NEW d \in Daemon, ShutdownAnswered(c, d)
          PROVE  Goal
      BY <3>3 DEF ShutdownAnswered
    <3>4. CASE ShutdownUnanswered(c)
      BY <3>4 DEF ShutdownUnanswered
    <3>5. CASE PollUnanswered(c)
      BY <3>5 DEF PollUnanswered, MayGoUnanswered, daemonVars
    <3>6. QED
      BY <2>2, <3>1, <3>2, <3>3, <3>4, <3>5 DEF Command
  <2>3. ASSUME NEW d \in Daemon, Listener(d)
        PROVE  Goal
    BY <2>3 DEF Listener, UnlinkStale, BindPath, ListenPath, BindPort,
                PublishPort, AcceptLoopStops
  <2>4. ASSUME NEW d \in Daemon, MainThread(d)
        PROVE  Goal
    BY <2>4 DEF MainThread, StartReturns, NoticeShutdown, BeginStopping,
                CloseSocket, JoinAndCleanup, ListenerOver
  <2>5. ASSUME NEW d \in Daemon, Fault(d)
        PROVE  Goal
    BY <2>5 DEF Fault, EndpointUnusable, ListenerAborts, AcceptLoopGivesUp,
                CleanupFails, Interrupt, Crash,
                StartTimesOut, Dies, Alive
  <2>6. CASE UNCHANGED vars
    BY <2>6 DEF vars
  <2>7. QED
    BY <2>1, <2>2, <2>3, <2>4, <2>5, <2>6 DEF Next
<1>3. StopInv => StopIsTruthful
  BY DEF StopInv
<1>4. QED
  BY <1>1, <1>2, <1>3, PTL DEF Spec

-----------------------------------------------------------------------------
(***************************************************************************)
(* Racing starts never cost the endpoint.  Inductive with: as long as no   *)
(* daemon has been stopped or has died, the path leads to a daemon that    *)
(* has bound it, unless one is between its unlink and its bind, and that   *)
(* one will bind it then.  A daemon that is no longer fresh never is again.*)
(***************************************************************************)
Fresh(d) ==
    /\ main[d] \in {"unborn", "starting", "waiting"}
    /\ serve[d] \notin {"aborted", "done"}

PathLeadsSomewhere ==
    (\A d \in Daemon : Fresh(d)) =>
        /\ \A d \in Daemon : serve[d] = "accepting" => d \in listening
        /\ transport = "unix" =>
              /\ endpoint # NoDaemon => serve[endpoint] \in {"bound", "accepting"}
              /\ endpoint = NoDaemon =>
                    \/ \E d \in Daemon : serve[d] = "unlinked"
                    \/ \A d \in Daemon : serve[d] \notin {"bound", "accepting"}
        /\ transport = "loopback" =>
              /\ \A d \in Daemon : serve[d] = "bound" => d \in listening
              /\ endpoint # NoDaemon => serve[endpoint] = "accepting"
              /\ endpoint = NoDaemon => \A d \in Daemon : serve[d] # "accepting"

ReachInv == TypeOK /\ UnbornIsIdle /\ PathLeadsSomewhere

LEMMA ReachInit == Init => ReachInv
  BY TypeInit DEF Init, ReachInv, UnbornIsIdle, PathLeadsSomewhere

\* No step makes a daemon fresh again.
LEMMA FreshBefore ==
    ASSUME ReachInv, [Next]_vars, NEW d \in Daemon, Fresh(d)'
    PROVE  Fresh(d)
<1> USE DEF Fresh, ReachInv, UnbornIsIdle, TypeOK
<1>1. ASSUME NEW c \in Client, BeginStart(c) \/ BeginStop(c) PROVE Fresh(d)
  BY <1>1 DEF BeginStart, BeginStop, daemonVars
<1>2. ASSUME NEW c \in Client, Command(c) PROVE Fresh(d)
  BY <1>2 DEF Command, ProbeAnswered, ProbeUnanswered, AwaitAnswered,
              AwaitTimesOut, ForegroundReturns, ShutdownAnswered,
              ShutdownUnanswered, PollUnanswered, PollTimesOut, daemonVars
<1>3. ASSUME NEW e \in Daemon, Listener(e) PROVE Fresh(d)
  BY <1>3 DEF Listener, UnlinkStale, BindPath, ListenPath, BindPort,
              PublishPort, AcceptLoopStops
<1>4. ASSUME NEW e \in Daemon, MainThread(e) PROVE Fresh(d)
  BY <1>4 DEF MainThread, StartReturns, NoticeShutdown, BeginStopping,
              CloseSocket, JoinAndCleanup, ListenerOver
<1>5. ASSUME NEW e \in Daemon, Fault(e) PROVE Fresh(d)
  BY <1>5 DEF Fault, EndpointUnusable, ListenerAborts, AcceptLoopGivesUp,
              CleanupFails, Interrupt, Crash, StartTimesOut, Dies, Alive
<1>6. CASE UNCHANGED vars
  BY <1>6 DEF vars
<1>7. QED
  BY <1>1, <1>2, <1>3, <1>4, <1>5, <1>6 DEF Next

LEMMA ReachStep == ReachInv /\ [Next]_vars => ReachInv'
<1> SUFFICES ASSUME ReachInv, [Next]_vars
             PROVE  UnbornIsIdle' /\ PathLeadsSomewhere'
  BY TypeStep DEF ReachInv
<1>t. TypeOK /\ UnbornIsIdle /\ PathLeadsSomewhere /\ TypeOK'
  BY TypeStep DEF ReachInv
<1>f. (\A d \in Daemon : Fresh(d))' => \A d \in Daemon : Fresh(d)
  BY FreshBefore
<1> DEFINE Goal == UnbornIsIdle' /\ PathLeadsSomewhere'
<1> USE NoDaemonAssumption, <1>t, <1>f
    DEF UnbornIsIdle, PathLeadsSomewhere, TypeOK
<1>1. ASSUME NEW c \in Client, BeginStart(c) \/ BeginStop(c) PROVE Goal
  BY <1>1 DEF BeginStart, BeginStop, daemonVars, Fresh
<1>2. ASSUME NEW c \in Client, Command(c) PROVE Goal
  <2>1. CASE UNCHANGED daemonVars
    BY <2>1 DEF daemonVars, Fresh
  <2>2. ASSUME NEW d \in Daemon, ProbeUnanswered(c, d) PROVE Goal
    BY <2>2 DEF ProbeUnanswered
  <2>3. CASE UNCHANGED <<transport, endpoint, main, serve, listening>>
    BY <2>3 DEF Fresh
  <2>4. QED
    BY <1>2, <2>1, <2>2, <2>3
    DEF Command, ProbeAnswered, AwaitAnswered, AwaitTimesOut,
        ForegroundReturns, ShutdownAnswered, ShutdownUnanswered,
        PollUnanswered, PollTimesOut
<1>3. ASSUME NEW d \in Daemon, Listener(d) PROVE Goal
  <2>1. CASE UnlinkStale(d) \/ BindPath(d)
    BY <2>1 DEF UnlinkStale, BindPath
  <2>2. CASE ListenPath(d) \/ BindPort(d)
    BY <2>2 DEF ListenPath, BindPort
  <2>3. CASE PublishPort(d)
    BY <2>3 DEF PublishPort
  <2>4. CASE AcceptLoopStops(d)
    BY <2>4 DEF AcceptLoopStops, Stopping, Fresh
  <2>5. QED
    BY <1>3, <2>1, <2>2, <2>3, <2>4 DEF Listener
<1>4. ASSUME NEW d \in Daemon, MainThread(d) PROVE Goal
  BY <1>4 DEF MainThread, StartReturns, NoticeShutdown, BeginStopping,
              CloseSocket, JoinAndCleanup, ListenerOver, Fresh
<1>5. ASSUME NEW d \in Daemon, Fault(d) PROVE Goal
  BY <1>5 DEF Fault, EndpointUnusable, ListenerAborts, AcceptLoopGivesUp,
              CleanupFails, Interrupt, Crash, StartTimesOut, Dies, Alive, Fresh
<1>6. CASE UNCHANGED vars
  BY <1>6 DEF vars, Fresh
<1>7. QED
  BY <1>1, <1>2, <1>3, <1>4, <1>5, <1>6 DEF Next

\* However many starts race, and whatever goes wrong with their binds, once
\* they are over and one accepts, a request reaches one (_serve_unix,
\* _serve_loopback).
THEOREM RacingStartsKeepTheEndpoint == Spec => []SomebodyReachable
<1>1. ReachInv => SomebodyReachable
  <2> SUFFICES ASSUME ReachInv,
                      \A d \in Daemon :
                          ~Booting(d) /\ serve[d] \notin {"aborted", "done"}
                             /\ main[d] \in {"unborn", "starting", "waiting"},
                      NEW e \in Daemon, serve[e] = "accepting"
               PROVE  \E d \in Daemon : Answers(d)
    BY DEF SomebodyReachable
  <2>1. \A d \in Daemon : Fresh(d)
    BY DEF Fresh
  <2>2. transport \in {"unix", "loopback"}
    BY ModeAssumption DEF ReachInv, TypeOK, TransportKinds
  <2>3. endpoint \in Daemon /\ serve[endpoint] = "accepting"
    BY <2>1, <2>2 DEF ReachInv, TypeOK, PathLeadsSomewhere, Booting
  <2>4. Answers(endpoint)
    BY <2>1, <2>3 DEF ReachInv, PathLeadsSomewhere, Answers
  <2>5. QED  BY <2>3, <2>4
<1>2. QED
  BY ReachInit, ReachStep, <1>1, PTL DEF Spec

-----------------------------------------------------------------------------
(***************************************************************************)
(* Commands that do not overlap on a machine that is not slow.             *)
(***************************************************************************)
Sequential == Serial /\ PromptExit /\ Faults \subseteq {"crash", "interrupt"}

\* The two threads of one process, and its socket, agree.
ThreadsAgree ==
    \A d \in Daemon :
        /\ main[d] = "unborn" => serve[d] = "none"
        /\ Booting(d) => main[d] = "starting"
        /\ main[d] = "starting" => Booting(d) \/ serve[d] = "accepting"
        /\ main[d] \in {"waiting", "grace"} => serve[d] = "accepting"
        /\ main[d] \in {"stopping", "closed"} => serve[d] \in {"accepting", "done"}
        /\ main[d] \in {"exited", "crashed"} => serve[d] = "done"
        /\ main[d] # "left"
        /\ main[d] = "closed" => d \notin listening
        /\ serve[d] = "accepting" /\ main[d] # "closed" => d \in listening
        /\ serve[d] = "bound" /\ transport = "loopback" => d \in listening

\* A command names the process it is about, once that process exists.
TargetsExist ==
    \A c \in Client :
        /\ target[c] \in Daemon => main[target[c]] # "unborn"
        /\ cli[c] \in {"awaiting", "foreground"} => target[c] \in Daemon

\* At most one command is in progress, and every boot belongs to it.
OneCommand ==
    /\ \A c, o \in Client : Busy(c) /\ Busy(o) => c = o
    /\ \A d \in Daemon : Booting(d) =>
          \E c \in Client : cli[c] \in {"awaiting", "foreground"} /\ target[c] = d

\* While a daemon boots, no other can take connections; past the point where
\* stop() may delay it, no other is on its way out either.
BootsAlone ==
    \A d, e \in Daemon : Booting(d) =>
        /\ serve[e] = "accepting" => main[e] = "closed" /\ serve[d] = "entered"
        /\ serve[d] # "entered" => ~Stopping(e)

\* On its way out, a daemon is the last that accepts.
StopsAlone ==
    \A d, e \in Daemon : Stopping(d) /\ serve[e] = "accepting" => e = d

\* What a booting daemon finds at the path.
PathIsOurs ==
    \A d \in Daemon :
        /\ serve[d] = "unlinked" => endpoint = NoDaemon
        /\ serve[d] = "bound" /\ transport = "unix" => endpoint = d

\* What holds of the processes and the path, and what holds of the shells.
DaemonInv ==
    /\ ThreadsAgree
    /\ BootsAlone
    /\ StopsAlone
    /\ PathIsOurs
    /\ NoOrphan
    /\ BindSucceeds

SeqInv == TypeOK /\ DaemonInv /\ TargetsExist /\ OneCommand

\* The initial state satisfies the strengthened invariant.
LEMMA SeqInit == Init => SeqInv
<1> SUFFICES ASSUME Init PROVE SeqInv
  OBVIOUS
<1>1. TypeOK
  BY TypeInit
<1>2. \A d \in Daemon : main[d] = "unborn" /\ serve[d] = "none"
  BY DEF Init
<1>3. \A c \in Client : cli[c] = "idle" /\ target[c] = NoDaemon
  BY DEF Init
<1>4. QED
  BY <1>1, <1>2, <1>3, NoDaemonAssumption
  DEF SeqInv, DaemonInv, ThreadsAgree, TargetsExist, OneCommand, BootsAlone,
      StopsAlone, PathIsOurs, NoOrphan, BindSucceeds, Busy, Booting, Stopping

\* A step that leaves the processes and the path alone keeps DaemonInv.
LEMMA DaemonInvFrame ==
    ASSUME DaemonInv, UNCHANGED daemonVars PROVE DaemonInv'
  BY DEF DaemonInv, daemonVars, ThreadsAgree, BootsAlone, StopsAlone,
         PathIsOurs, NoOrphan, BindSucceeds, Booting, Stopping

\* When no command is in progress, nothing boots.
LEMMA IdleMeansNoBoot ==
    ASSUME OneCommand, TargetsExist, \A o \in Client : ~Busy(o)
    PROVE  \A d \in Daemon : ~Booting(d)
  BY DEF OneCommand, TargetsExist, Busy

\* When a daemon answers, nothing boots.
LEMMA AnsweredMeansNoBoot ==
    ASSUME DaemonInv, NEW e \in Daemon, Answers(e)
    PROVE  \A d \in Daemon : ~Booting(d)
  BY DEF DaemonInv, BootsAlone, ThreadsAgree, Answers

\* One daemon boots at a time.
LEMMA OneBoot ==
    ASSUME OneCommand, NEW d \in Daemon, NEW e \in Daemon,
           Booting(d), Booting(e)
    PROVE  d = e
<1>1. PICK c \in Client :
         cli[c] \in {"awaiting", "foreground"} /\ target[c] = d
  BY DEF OneCommand
<1>2. PICK o \in Client :
         cli[o] \in {"awaiting", "foreground"} /\ target[o] = e
  BY DEF OneCommand
<1>3. Busy(c) /\ Busy(o)
  BY <1>1, <1>2 DEF Busy
<1>4. QED
  BY <1>1, <1>2, <1>3 DEF OneCommand

\* Steps of the shells.
LEMMA CommandKeepsSeqInv ==
    ASSUME Sequential, SeqInv, TypeOK', NEW c \in Client,
           BeginStart(c) \/ BeginStop(c) \/ Command(c)
    PROVE  SeqInv'
<1> USE DEF SeqInv
<1>1. CASE BeginStart(c) \/ BeginStop(c)
  <2>1. UNCHANGED daemonVars /\ target' = [target EXCEPT ![c] = NoDaemon]
    BY <1>1 DEF BeginStart, BeginStop
  <2>2. \A o \in Client : ~Busy(o)
    BY <1>1 DEF BeginStart, BeginStop, MayBegin, Sequential
  <2>3. \A d \in Daemon : ~Booting(d)
    BY <2>2, IdleMeansNoBoot
  <2>4. cli[c] \in Verdicts
        /\ \E v \in {"probing", "asking"} : cli' = [cli EXCEPT ![c] = v]
    BY <1>1 DEF BeginStart, BeginStop, MayBegin
  <2>5. TargetsExist'
    BY <2>1, <2>4, NoDaemonAssumption DEF TargetsExist, TypeOK, daemonVars
  <2>6. OneCommand'
    BY <2>1, <2>2, <2>3, <2>4 DEF OneCommand, Busy, Booting, TypeOK, daemonVars
  <2>7. QED
    BY <2>1, <2>5, <2>6, DaemonInvFrame
<1>2. CASE ProbeAnswered(c) \/ AwaitAnswered(c) \/ AwaitTimesOut(c)
              \/ ForegroundReturns(c) \/ PollUnanswered(c) \/ PollTimesOut(c)
  \* c ends its command, and nothing it started is still booting.
  <2> DEFINE Ends == /\ cli[c] \in InCommand
                     /\ \E v \in Verdicts : cli' = [cli EXCEPT ![c] = v]
                     /\ UNCHANGED daemonVars
                     /\ UNCHANGED target
  <2>1. Ends
    BY <1>2 DEF ProbeAnswered, AwaitAnswered, AwaitTimesOut, InCommand, Verdicts,
                ForegroundReturns, PollUnanswered, PollTimesOut
  <2>2. ASSUME NEW d \in Daemon, Booting(d), target[c] = d,
               cli[c] \in {"awaiting", "foreground"}
        PROVE  FALSE
    <3>1. CASE AwaitAnswered(c)
      BY <2>2, <3>1, AnsweredMeansNoBoot DEF AwaitAnswered
    <3>2. CASE AwaitTimesOut(c)
      BY <2>2, <3>2 DEF AwaitTimesOut, Sequential
    <3>3. CASE ForegroundReturns(c)
      BY <2>2, <3>3 DEF ForegroundReturns, Alive, DaemonInv, ThreadsAgree
    <3>4. QED
      BY <1>2, <2>2, <3>1, <3>2, <3>3
      DEF ProbeAnswered, PollUnanswered, PollTimesOut
  <2>3. TargetsExist'
    BY <2>1 DEF TargetsExist, TypeOK, daemonVars, Verdicts
  <2>4. \A o \in Client : Busy(o)' => o # c /\ Busy(o)
    BY <2>1 DEF Busy, Booting, TypeOK, daemonVars, Verdicts
  <2>5. OneCommand'
    BY <2>1, <2>2, <2>4 DEF OneCommand, Booting, TypeOK, daemonVars
  <2>6. QED
    BY <2>1, <2>3, <2>5, DaemonInvFrame
<1>3. ASSUME NEW d \in Daemon, ProbeUnanswered(c, d) PROVE SeqInv'
  <2>1. \A o \in Client : Busy(o) => o = c
    BY <1>3 DEF ProbeUnanswered, OneCommand, Busy
  <2>2. \A e \in Daemon : ~Booting(e)
    BY <2>1, <1>3 DEF ProbeUnanswered, OneCommand, Busy
  <2>3. \A e \in Daemon : serve[e] = "accepting" => main[e] = "closed"
    BY <1>3 DEF ProbeUnanswered, MayGoUnanswered, Sequential, Answers,
                DaemonInv, NoOrphan, ThreadsAgree
  <2>4. DaemonInv'
    BY <1>3, <2>2, <2>3 DEF ProbeUnanswered, DaemonInv, ThreadsAgree, BootsAlone,
       StopsAlone, PathIsOurs, NoOrphan, BindSucceeds, Booting, Stopping, TypeOK
  <2>5. TargetsExist'
    BY <1>3 DEF ProbeUnanswered, TargetsExist, TypeOK
  <2>6. \A o \in Client : Busy(o)' => o = c
    BY <1>3, <2>1 DEF ProbeUnanswered, Busy, Booting, TargetsExist, TypeOK
  <2>7. OneCommand'
    BY <1>3, <2>2, <2>6 DEF ProbeUnanswered, OneCommand, Booting, TypeOK
  <2>8. QED
    BY <2>4, <2>5, <2>7
<1>4. ASSUME NEW d \in Daemon, ShutdownAnswered(c, d) PROVE SeqInv'
  <2>1. \A e \in Daemon : ~Booting(e)
    BY <1>4, AnsweredMeansNoBoot DEF ShutdownAnswered
  <2>2. DaemonInv'
    BY <1>4 DEF ShutdownAnswered, DaemonInv, ThreadsAgree, BootsAlone,
       StopsAlone, PathIsOurs, NoOrphan, BindSucceeds, Booting, Stopping
  <2>3. TargetsExist'
    BY <1>4 DEF ShutdownAnswered, Answers, DaemonInv, ThreadsAgree, TargetsExist,
       TypeOK
  <2>4. \A o \in Client : Busy(o)' => Busy(o)
    BY <1>4 DEF ShutdownAnswered, Busy, Booting, TypeOK
  <2>5. OneCommand'
    BY <1>4, <2>1, <2>4 DEF ShutdownAnswered, OneCommand, Booting
  <2>6. QED
    BY <2>2, <2>3, <2>5
<1>5. CASE ShutdownUnanswered(c)
  <2>1. DaemonInv'
    BY <1>5 DEF ShutdownUnanswered, DaemonInv, ThreadsAgree, BootsAlone,
       StopsAlone, PathIsOurs, NoOrphan, BindSucceeds, Booting, Stopping
  <2>2. TargetsExist'
    BY <1>5 DEF ShutdownUnanswered, TargetsExist, TypeOK
  <2>3. \A o \in Client : Busy(o)' => Busy(o)
    BY <1>5 DEF ShutdownUnanswered, Busy, Booting, TypeOK
  <2>4. OneCommand'
    <3>1. /\ cli \in [Client -> Verdicts \cup InCommand]
          /\ cli[c] = "asking"
          /\ cli' = [cli EXCEPT ![c] = "not running"]
          /\ UNCHANGED <<serve, target>>
      BY <1>5 DEF ShutdownUnanswered, TypeOK
    <3>2. QED
      BY <2>3, <3>1 DEF OneCommand, Booting
  <2>5. QED
    BY <2>1, <2>2, <2>4
<1>6. QED
  BY <1>1, <1>2, <1>3, <1>4, <1>5 DEF Command

\* Steps of a daemon's threads keep what holds of the processes and the path.
LEMMA DaemonKeepsDaemonInv ==
    ASSUME Sequential, SeqInv, TypeOK', NEW d \in Daemon,
           Listener(d) \/ MainThread(d) \/ Fault(d)
    PROVE  DaemonInv'
<1> USE NoDaemonAssumption DEF SeqInv
<1>1. CASE UnlinkStale(d)
  BY <1>1, OneBoot DEF UnlinkStale, MayReachBind, Sequential,
     DaemonInv, ThreadsAgree, BootsAlone, StopsAlone, PathIsOurs,
     NoOrphan, BindSucceeds, Booting, Stopping, TypeOK
<1>2. CASE BindPath(d)
  BY <1>2, OneBoot DEF BindPath,
     DaemonInv, ThreadsAgree, BootsAlone, StopsAlone, PathIsOurs,
     NoOrphan, BindSucceeds, Booting, Stopping, TypeOK
<1>3. CASE ListenPath(d)
  BY <1>3, OneBoot DEF ListenPath,
     DaemonInv, ThreadsAgree, BootsAlone, StopsAlone, PathIsOurs,
     NoOrphan, BindSucceeds, Booting, Stopping, TypeOK
<1>4. CASE BindPort(d)
  BY <1>4, OneBoot DEF BindPort, MayReachBind, Sequential, DaemonInv,
     ThreadsAgree, BootsAlone, StopsAlone, PathIsOurs, NoOrphan, BindSucceeds,
     Booting, Stopping, TypeOK
<1>5. CASE PublishPort(d)
  BY <1>5, OneBoot DEF PublishPort,
     DaemonInv, ThreadsAgree, BootsAlone, StopsAlone, PathIsOurs,
     NoOrphan, BindSucceeds, Booting, Stopping, TypeOK
<1>6. CASE AcceptLoopStops(d)
  BY <1>6, OneBoot DEF AcceptLoopStops,
     DaemonInv, ThreadsAgree, BootsAlone, StopsAlone, PathIsOurs,
     NoOrphan, BindSucceeds, Booting, Stopping, TypeOK
<1>7. CASE StartReturns(d)
  BY <1>7, OneBoot DEF StartReturns, ListenerOver,
     DaemonInv, ThreadsAgree, BootsAlone, StopsAlone, PathIsOurs,
     NoOrphan, BindSucceeds, Booting, Stopping, TypeOK
<1>8. CASE NoticeShutdown(d)
  BY <1>8, OneBoot DEF NoticeShutdown,
     DaemonInv, ThreadsAgree, BootsAlone, StopsAlone, PathIsOurs,
     NoOrphan, BindSucceeds, Booting, Stopping, TypeOK
<1>9. CASE BeginStopping(d)
  BY <1>9, OneBoot DEF BeginStopping,
     DaemonInv, ThreadsAgree, BootsAlone, StopsAlone, PathIsOurs,
     NoOrphan, BindSucceeds, Booting, Stopping, TypeOK
<1>10. CASE CloseSocket(d)
  BY <1>10, OneBoot DEF CloseSocket,
     DaemonInv, ThreadsAgree, BootsAlone, StopsAlone, PathIsOurs,
     NoOrphan, BindSucceeds, Booting, Stopping, TypeOK
<1>11. CASE JoinAndCleanup(d)
  BY <1>11, OneBoot DEF JoinAndCleanup, Sequential,
     DaemonInv, ThreadsAgree, BootsAlone, StopsAlone, PathIsOurs,
     NoOrphan, BindSucceeds, Booting, Stopping, TypeOK
<1>12. CASE Interrupt(d)
  BY <1>12, OneBoot DEF Interrupt,
     DaemonInv, ThreadsAgree, BootsAlone, StopsAlone, PathIsOurs,
     NoOrphan, BindSucceeds, Booting, Stopping, TypeOK
<1>13. CASE Crash(d)
  BY <1>13 DEF Crash, Dies, Alive,
     DaemonInv, ThreadsAgree, BootsAlone, StopsAlone, PathIsOurs,
     NoOrphan, BindSucceeds, Booting, Stopping, TypeOK
<1>14. QED
  BY <1>1, <1>2, <1>3, <1>4, <1>5, <1>6, <1>7, <1>8, <1>9, <1>10, <1>11,
     <1>12, <1>13
  DEF Listener, MainThread, Fault, Sequential, EndpointUnusable,
      ListenerAborts, CleanupFails, AcceptLoopGivesUp, StartTimesOut

\* A daemon's step leaves the shells alone, starts no boot and gives birth to
\* no process.
LEMMA DaemonKeepsCommands ==
    ASSUME SeqInv, TypeOK', NEW d \in Daemon,
           Listener(d) \/ MainThread(d) \/ Fault(d)
    PROVE  TargetsExist' /\ OneCommand'
<1>1. /\ UNCHANGED <<cli, target>>
      /\ \A e \in Daemon : Booting(e)' => Booting(e)
      /\ \A e \in Daemon : main[e]' = "unborn" => main[e] = "unborn"
  <2>1. CASE Listener(d)
    BY <2>1 DEF Listener, UnlinkStale, BindPath, ListenPath, BindPort,
                PublishPort, AcceptLoopStops, Booting, SeqInv, TypeOK
  <2>2. CASE MainThread(d)
    BY <2>2 DEF MainThread, StartReturns, NoticeShutdown, BeginStopping,
                CloseSocket, JoinAndCleanup, ListenerOver, Booting, SeqInv, TypeOK
  <2>3. CASE Fault(d)
    BY <2>3 DEF Fault, EndpointUnusable, ListenerAborts, AcceptLoopGivesUp,
                CleanupFails, Interrupt, Crash,
                StartTimesOut, Dies, Booting, SeqInv, TypeOK
  <2>4. QED
    BY <2>1, <2>2, <2>3
<1>2. TargetsExist'
  BY <1>1 DEF SeqInv, TargetsExist
<1>3. \A o \in Client : Busy(o)' => Busy(o)
  BY <1>1 DEF Busy
<1>4. OneCommand'
  BY <1>1, <1>3 DEF SeqInv, OneCommand
<1>5. QED
  BY <1>2, <1>4

\* SeqInv is inductive for commands that do not overlap.
LEMMA SeqStep == ASSUME Sequential, SeqInv, [Next]_vars PROVE SeqInv'
<1>1. TypeOK'
  BY TypeStep DEF SeqInv
<1>2. ASSUME NEW c \in Client, BeginStart(c) \/ BeginStop(c) \/ Command(c)
      PROVE  SeqInv'
  BY <1>1, <1>2, CommandKeepsSeqInv
<1>3. ASSUME NEW d \in Daemon, Listener(d) \/ MainThread(d) \/ Fault(d)
      PROVE  SeqInv'
  BY <1>1, <1>3, DaemonKeepsDaemonInv, DaemonKeepsCommands DEF SeqInv
<1>4. CASE UNCHANGED vars
  <2>1. DaemonInv'
    BY <1>4, DaemonInvFrame DEF SeqInv, vars, daemonVars
  <2>2. TargetsExist' /\ OneCommand'
    BY <1>4 DEF SeqInv, vars, TargetsExist, OneCommand, Busy, Booting
  <2>3. QED
    BY <1>1, <2>1, <2>2 DEF SeqInv
<1>5. QED
  BY <1>2, <1>3, <1>4 DEF Next

\* Commands that do not overlap never leave a daemon that accepts where no
\* client looks for it, whoever is killed or interrupted in between, provided
\* replies beat their timeouts and stop() beats the next start.
THEOREM SequentialNoOrphan ==
    ASSUME Sequential PROVE Spec => []NoOrphan
<1>1. SeqInv => NoOrphan
  BY DEF SeqInv, DaemonInv
<1>2. SeqInv /\ [Next]_vars => SeqInv'
  BY SeqStep
<1>3. QED
  BY <1>1, <1>2, SeqInit, PTL DEF Spec

\* Under the same conditions a bind never fails: what a killed daemon left at
\* the path does not keep the next one out.
THEOREM SequentialBindSucceeds ==
    ASSUME Sequential PROVE Spec => []BindSucceeds
<1>1. SeqInv => BindSucceeds
  BY DEF SeqInv, DaemonInv
<1>2. SeqInv /\ [Next]_vars => SeqInv'
  BY SeqStep
<1>3. QED
  BY <1>1, <1>2, SeqInit, PTL DEF Spec

-----------------------------------------------------------------------------
(***************************************************************************)
(* Refinement.  Seen through their listener threads alone, daemons take    *)
(* turns: only ListenPath and PublishPort begin a turn, and BootsAlone     *)
(* says that nobody else's is on then.                                     *)
(***************************************************************************)
phaseBar == [d \in Daemon |-> PhaseOf(serve[d])]

\* A step in which one listener goes from s to t and the others stay.
Moves(d, s, t) ==
    /\ serve[d] \in s
    /\ serve' = [serve EXCEPT ![d] = t]

\* Every step moves one listener at most, and only these ways.
LEMMA ListenerMoves ==
    ASSUME Sequential, SeqInv, [Next]_vars
    PROVE  \/ UNCHANGED serve
           \/ \E d \in Daemon :
                \/ Moves(d, {"none"}, "entered")
                \/ Moves(d, {"entered"}, "unlinked")
                \/ Moves(d, {"entered", "unlinked"}, "bound")
                \/ Moves(d, {"bound"}, "accepting")
                \/ Moves(d, {"entered", "unlinked", "bound", "accepting",
                             "done"}, "done")
<1> USE DEF SeqInv, Moves
<1>1. ASSUME NEW c \in Client, BeginStart(c) \/ BeginStop(c)
      PROVE  UNCHANGED serve
  BY <1>1 DEF BeginStart, BeginStop, daemonVars
<1>2. ASSUME NEW c \in Client, Command(c)
      PROVE  \/ UNCHANGED serve
             \/ \E d \in Daemon : Moves(d, {"none"}, "entered")
  BY <1>2 DEF Command, ProbeAnswered, ProbeUnanswered, AwaitAnswered,
     AwaitTimesOut, ForegroundReturns, ShutdownAnswered, ShutdownUnanswered,
     PollUnanswered, PollTimesOut, daemonVars, DaemonInv, ThreadsAgree
<1>3. ASSUME NEW d \in Daemon, Listener(d)
      PROVE  \/ Moves(d, {"entered"}, "unlinked")
             \/ Moves(d, {"entered", "unlinked"}, "bound")
             \/ Moves(d, {"bound"}, "accepting")
             \/ Moves(d, {"accepting"}, "done")
  <2>1. endpoint = NoDaemon \/ serve[d] # "unlinked"
    BY DEF DaemonInv, PathIsOurs
  <2>2. QED
    BY <1>3, <2>1 DEF Listener, UnlinkStale, BindPath, ListenPath, BindPort,
       PublishPort, AcceptLoopStops
<1>4. ASSUME NEW d \in Daemon, MainThread(d)
      PROVE  UNCHANGED serve \/ Moves(d, {"done"}, "done")
  BY <1>4 DEF MainThread, StartReturns, NoticeShutdown, BeginStopping,
     CloseSocket, JoinAndCleanup, ListenerOver, Sequential,
     DaemonInv, BindSucceeds
<1>5. ASSUME NEW d \in Daemon, Fault(d)
      PROVE  \/ UNCHANGED serve
             \/ Moves(d, {"entered", "unlinked", "bound", "accepting", "done"},
                      "done")
  BY <1>5 DEF Fault, EndpointUnusable, ListenerAborts, AcceptLoopGivesUp,
     CleanupFails, Interrupt, Crash,
     StartTimesOut, Dies, Alive, Sequential, TypeOK, ServeStates, MainStates,
     DaemonInv, BindSucceeds, ThreadsAgree, Booting
<1>6. CASE UNCHANGED vars
  BY <1>6 DEF vars
<1>7. QED
  BY <1>1, <1>2, <1>3, <1>4, <1>5, <1>6 DEF Next

\* The mapped state begins as the abstract one does.
LEMMA PhaseInit == Init => Endpoint!Init
  BY DEF Init, Endpoint!Init, PhaseOf

\* Every step is a step of ExclusiveEndpoint or leaves it alone.
LEMMA PhaseStep ==
    ASSUME Sequential, SeqInv, [Next]_vars
    PROVE  Endpoint!Next \/ UNCHANGED phaseBar
<1> USE DEF SeqInv, TypeOK, Moves, PhaseOf, phaseBar
<1>1. CASE UNCHANGED serve
  BY <1>1
<1>2. ASSUME NEW d \in Daemon,
             \/ Moves(d, {"none"}, "entered")
             \/ Moves(d, {"entered"}, "unlinked")
             \/ Moves(d, {"entered", "unlinked"}, "bound")
             \/ Moves(d, {"done"}, "done")
      PROVE  UNCHANGED phaseBar
  BY <1>2
<1>3. ASSUME NEW d \in Daemon, Moves(d, {"bound"}, "accepting")
      PROVE  Endpoint!Take(d)
  <2>1. \A e \in Daemon : serve[e] # "accepting"
    BY <1>3 DEF DaemonInv, BootsAlone, Booting
  <2>2. QED
    BY <1>3, <2>1 DEF Endpoint!Take
<1>4. ASSUME NEW d \in Daemon,
             Moves(d, {"entered", "unlinked", "bound", "accepting"}, "done")
      PROVE  Endpoint!Leave(d)
  BY <1>4 DEF Endpoint!Leave
<1>5. QED
  <2>1. ASSUME NEW d \in Daemon,
               Moves(d, {"entered", "unlinked", "bound", "accepting", "done"},
                     "done")
        PROVE  \/ Moves(d, {"entered", "unlinked", "bound", "accepting"}, "done")
               \/ Moves(d, {"done"}, "done")
    BY <2>1
  <2>2. QED
    BY ListenerMoves, <1>1, <1>2, <1>3, <1>4, <2>1 DEF Endpoint!Next

\* Commands that do not overlap make the daemons take turns at the endpoint.
THEOREM SequentialImplementsExclusive ==
    ASSUME Sequential PROVE Spec => OneAtATime
<1>1. SeqInv /\ [Next]_vars => SeqInv'
  BY SeqStep
<1>2. SeqInv /\ [Next]_vars => [Endpoint!Next]_phaseBar
  BY PhaseStep
<1>3. QED
  BY <1>1, <1>2, SeqInit, PhaseInit, PTL
  DEF Spec, OneAtATime, Endpoint!Spec, phaseBar

=============================================================================
