--------------------------- MODULE DaemonLifecycle ---------------------------
(***************************************************************************)
(* The life of cl-ai daemons that share one endpoint: `cl-ai daemon start` *)
(* and `cl-ai daemon stop` (cli.py, cmd_daemon) run from any number of     *)
(* shells, the daemon's main thread (daemon/server.py, main) and its       *)
(* listener thread (daemon/transport.py, Server).                          *)
(*                                                                         *)
(* A request is one indivisible step here: it is answered by the daemon    *)
(* whose accept loop takes the connection, or it comes back as None.       *)
(***************************************************************************)
EXTENDS FiniteSets, Naturals

CONSTANTS
    Daemon,       \* daemon processes; bounds how many are ever spawned
    Client,       \* shells that run daemon commands, one at a time each
    NoDaemon,     \* "no process": an absent endpoint file, no target
    Transports,   \* the platforms considered, a subset of TransportKinds
    Faults,       \* what may go wrong, a subset of FaultKinds
    Serial,       \* a command begins only when no other is in progress
    PromptExit    \* stop() finishes before a later daemon reaches its bind

\* "crash":     a process is killed or dies at any point
\* "slow":      a reply, a join or a start overruns the caller's timeout
\* "accept":    ten accept() calls in a row fail
\* "bind":      the endpoint is unusable (path too long, no directory), or
\*              setting it up fails half-way
\* "unlink":    removing the endpoint's file fails (an OSError, suppressed)
\* "interrupt": Ctrl-C in the terminal of a foreground daemon
FaultKinds == {"crash", "slow", "accept", "bind", "unlink", "interrupt"}

\* A unix-domain socket file, or a loopback port whose number is in a file.
TransportKinds == {"unix", "loopback"}

ASSUME NoDaemonAssumption == NoDaemon \notin Daemon
ASSUME ModeAssumption ==
    /\ Transports \subseteq TransportKinds
    /\ Serial \in BOOLEAN
    /\ PromptExit \in BOOLEAN
    /\ Faults \subseteq FaultKinds

VARIABLES
    transport,  \* what this machine uses, for good (WINDOWS in transport.py)
    endpoint,   \* whose socket (or port) the endpoint's file leads to
    main,       \* main[d]: where the main thread of process d is
    serve,      \* serve[d]: where its listener thread is
    listening,  \* the daemons that hold an open listening socket
    shutdown,   \* the daemons whose _shutdown event is set
    cli,        \* cli[c]: the command c runs, or the verdict of its last one
    target      \* target[c]: the daemon that command is about

daemonVars == <<transport, endpoint, main, serve, listening, shutdown>>
vars == <<transport, endpoint, main, serve, listening, shutdown, cli, target>>

MainStates == {"unborn", "starting", "waiting", "grace", "stopping",
               "closed", "exited", "left", "crashed"}
ServeStates == {"none", "entered", "unlinked", "bound", "accepting",
                "failed", "aborted", "done"}
\* What the shell of c has printed last; a new command may begin.
Verdicts == {"idle", "already running", "started", "unanswered", "stopped",
             "still listening", "not running"}
InCommand == {"probing", "awaiting", "foreground", "asking", "polling"}

\* d is on its way from Popen to its accept loop.
Booting(d) == serve[d] \in {"entered", "unlinked", "bound"}

\* A listening socket belongs to a process that has not closed it yet, and a
\* daemon boots before its main thread goes on (Server.start, Server.stop).
TypeOK ==
    /\ transport \in Transports
    /\ endpoint \in Daemon \cup {NoDaemon}
    /\ main \in [Daemon -> MainStates]
    /\ serve \in [Daemon -> ServeStates]
    /\ listening \subseteq
           {d \in Daemon : main[d] \in {"starting", "waiting", "grace", "stopping"}}
    /\ \A d \in Daemon : Booting(d) => main[d] = "starting"
    /\ shutdown \subseteq Daemon
    /\ cli \in [Client -> Verdicts \cup InCommand]
    /\ target \in [Client -> Daemon \cup {NoDaemon}]

-----------------------------------------------------------------------------
(* State predicates. *)

\* The process exists.
Alive(d) == main[d] \notin {"unborn", "exited", "left", "crashed"}

\* The listener thread of d has ended.
ListenerOver(d) == serve[d] \in {"failed", "aborted", "done"}

\* Server._stop is set: stop() has begun.
Stopping(d) == main[d] \in {"stopping", "closed"}

\* A request sent now reaches d's accept loop and is answered.
Answers(d) == endpoint = d /\ d \in listening /\ serve[d] = "accepting"

\* A request sent now may come back as None.
MayGoUnanswered == "slow" \in Faults \/ \A d \in Daemon : ~Answers(d)

\* c is in the middle of a command.  A foreground daemon keeps its shell for
\* as long as it lives, but is a running daemon like any other once it is up.
Busy(c) ==
    \/ cli[c] \in {"probing", "awaiting", "asking", "polling"}
    \/ cli[c] = "foreground" /\ target[c] \in Daemon /\ Booting(target[c])

MayBegin(c) ==
    /\ cli[c] \in Verdicts
    /\ Serial => \A o \in Client : ~Busy(o)

-----------------------------------------------------------------------------
Init ==
    /\ transport \in Transports
    /\ endpoint = NoDaemon
    /\ main = [d \in Daemon |-> "unborn"]
    /\ serve = [d \in Daemon |-> "none"]
    /\ listening = {}
    /\ shutdown = {}
    /\ cli = [c \in Client |-> "idle"]
    /\ target = [c \in Client |-> NoDaemon]

-----------------------------------------------------------------------------
(* cl-ai daemon start *)

\* The bound on processes: a start begins only if one is left to spawn for it.
BeginStart(c) ==
    /\ MayBegin(c)
    /\ Cardinality({o \in Client : cli[o] = "probing"})
           < Cardinality({d \in Daemon : main[d] = "unborn"})
    /\ cli' = [cli EXCEPT ![c] = "probing"]
    /\ target' = [target EXCEPT ![c] = NoDaemon]
    /\ UNCHANGED daemonVars

ProbeAnswered(c) ==
    /\ cli[c] = "probing"
    /\ \E d \in Daemon : Answers(d)
    /\ cli' = [cli EXCEPT ![c] = "already running"]
    /\ UNCHANGED <<daemonVars, target>>

\* Mutant: spawn without looking whether the probe was answered.
SpawnWithoutProbe(c, d) ==
    /\ cli[c] = "probing"
    /\ main[d] = "unborn"
    /\ main' = [main EXCEPT ![d] = "starting"]
    /\ serve' = [serve EXCEPT ![d] = "entered"]
    /\ cli' = [cli EXCEPT ![c] = "awaiting"]
    /\ target' = [target EXCEPT ![c] = d]
    /\ UNCHANGED <<transport, endpoint, listening, shutdown>>

\* Mutant: report success as soon as the process is spawned.
SpawnAndReturn(c, d) ==
    /\ cli[c] = "probing"
    /\ MayGoUnanswered
    /\ main[d] = "unborn"
    /\ main' = [main EXCEPT ![d] = "starting"]
    /\ serve' = [serve EXCEPT ![d] = "entered"]
    /\ cli' = [cli EXCEPT ![c] = "started"]
    /\ target' = [target EXCEPT ![c] = d]
    /\ UNCHANGED <<transport, endpoint, listening, shutdown>>

\* The probe came back as None: run the daemon, detached or in this terminal.
\* Its main thread starts the listener thread and waits for _ready.
ProbeUnanswered(c, d) ==
    /\ cli[c] = "probing"
    /\ MayGoUnanswered
    /\ main[d] = "unborn"
    /\ main' = [main EXCEPT ![d] = "starting"]
    /\ serve' = [serve EXCEPT ![d] = "entered"]
    /\ \E mode \in {"awaiting", "foreground"} : cli' = [cli EXCEPT ![c] = mode]
    /\ target' = [target EXCEPT ![c] = d]
    /\ UNCHANGED <<transport, endpoint, listening, shutdown>>

AwaitAnswered(c) ==
    /\ cli[c] = "awaiting"
    /\ \E d \in Daemon : Answers(d)
    /\ cli' = [cli EXCEPT ![c] = "started"]
    /\ UNCHANGED <<daemonVars, target>>

\* Ten seconds of pings without an answer.  A daemon that is still booting
\* gets there first unless the machine is slow.
AwaitTimesOut(c) ==
    /\ cli[c] = "awaiting"
    /\ MayGoUnanswered
    /\ "slow" \in Faults \/ ~Booting(target[c])
    /\ cli' = [cli EXCEPT ![c] = "unanswered"]
    /\ UNCHANGED <<daemonVars, target>>

ForegroundReturns(c) ==
    /\ cli[c] = "foreground"
    /\ ~Alive(target[c])
    /\ cli' = [cli EXCEPT ![c] = "idle"]
    /\ UNCHANGED <<daemonVars, target>>

-----------------------------------------------------------------------------
(* cl-ai daemon stop *)

BeginStop(c) ==
    /\ MayBegin(c)
    /\ cli' = [cli EXCEPT ![c] = "asking"]
    /\ target' = [target EXCEPT ![c] = NoDaemon]
    /\ UNCHANGED daemonVars

\* The handler sets _shutdown and answers; the shell begins to poll.
ShutdownAnswered(c, d) ==
    /\ cli[c] = "asking"
    /\ Answers(d)
    /\ shutdown' = shutdown \cup {d}
    /\ cli' = [cli EXCEPT ![c] = "polling"]
    /\ target' = [target EXCEPT ![c] = d]
    /\ UNCHANGED <<transport, endpoint, main, serve, listening>>

\* None: there was nobody to ask, or the answer of a daemon that did take the
\* request came too late.
ShutdownUnanswered(c) ==
    /\ cli[c] = "asking"
    /\ MayGoUnanswered
    /\ shutdown' \in {shutdown, shutdown \cup {d \in Daemon : Answers(d)}}
    /\ cli' = [cli EXCEPT ![c] = "not running"]
    /\ UNCHANGED <<transport, endpoint, main, serve, listening, target>>

\* Mutant: return right after the SHUTDOWN reply.
ReturnWithoutPolling(c) ==
    /\ cli[c] = "polling"
    /\ cli' = [cli EXCEPT ![c] = "stopped"]
    /\ UNCHANGED <<daemonVars, target>>

PollUnanswered(c) ==
    /\ cli[c] = "polling"
    /\ MayGoUnanswered
    /\ cli' = [cli EXCEPT ![c] = "stopped"]
    /\ UNCHANGED <<daemonVars, target>>

\* Ten seconds of answered pings: the daemon is slow to stop, or the answers
\* are those of another daemon that took the endpoint over.
PollTimesOut(c) ==
    /\ cli[c] = "polling"
    /\ \E d \in Daemon : Answers(d) /\ ("slow" \in Faults \/ d # target[c])
    /\ cli' = [cli EXCEPT ![c] = "still listening"]
    /\ UNCHANGED <<daemonVars, target>>

-----------------------------------------------------------------------------
(* The listener thread, Server._serve *)

MayReachBind(d) ==
    PromptExit => \A e \in Daemon \ {d} : ~Stopping(e)

\* Mutant: bind straight away, without removing a stale socket.
KeepStale(d) ==
    /\ transport = "unix"
    /\ serve[d] = "entered"
    /\ MayReachBind(d)
    /\ serve' = [serve EXCEPT ![d] = "unlinked"]
    /\ UNCHANGED <<transport, endpoint, main, listening, shutdown, cli, target>>

\* _serve_unix: whatever is at the path is taken for a dead daemon's socket
\* and unlinked; should that fail, the boot goes on.
UnlinkStale(d) ==
    /\ transport = "unix"
    /\ serve[d] = "entered"
    /\ MayReachBind(d)
    /\ \/ endpoint' = NoDaemon
       \/ "unlink" \in Faults /\ UNCHANGED endpoint
    /\ serve' = [serve EXCEPT ![d] = "unlinked"]
    /\ UNCHANGED <<transport, main, listening, shutdown, cli, target>>

\* Mutant: a listener that fails to bind cleans the path up on its way out.
BindOrUnlink(d) ==
    /\ transport = "unix"
    /\ serve[d] = "unlinked"
    /\ endpoint' = IF endpoint = NoDaemon THEN d ELSE NoDaemon
    /\ serve' = [serve EXCEPT ![d] =
                    IF endpoint = NoDaemon THEN "bound" ELSE "failed"]
    /\ UNCHANGED <<transport, main, listening, shutdown, cli, target>>

\* bind() creates the socket file and refuses a path that exists.
BindPath(d) ==
    /\ transport = "unix"
    /\ serve[d] = "unlinked"
    /\ IF endpoint = NoDaemon
       THEN /\ endpoint' = d
            /\ serve' = [serve EXCEPT ![d] = "bound"]
       ELSE /\ serve' = [serve EXCEPT ![d] = "failed"]
            /\ UNCHANGED endpoint
    /\ UNCHANGED <<transport, main, listening, shutdown, cli, target>>

ListenPath(d) ==
    /\ transport = "unix"
    /\ serve[d] = "bound"
    /\ listening' = listening \cup {d}
    /\ serve' = [serve EXCEPT ![d] = "accepting"]
    /\ UNCHANGED <<transport, endpoint, main, shutdown, cli, target>>

\* _serve_loopback: bind an ephemeral port and listen on it ...
BindPort(d) ==
    /\ transport = "loopback"
    /\ serve[d] = "entered"
    /\ MayReachBind(d)
    /\ listening' = listening \cup {d}
    /\ serve' = [serve EXCEPT ![d] = "bound"]
    /\ UNCHANGED <<transport, endpoint, main, shutdown, cli, target>>

\* Mutant: leave a port file alone that is already there.
PublishPortOnce(d) ==
    /\ transport = "loopback"
    /\ serve[d] = "bound"
    /\ endpoint' = IF endpoint = NoDaemon THEN d ELSE endpoint
    /\ serve' = [serve EXCEPT ![d] = "accepting"]
    /\ UNCHANGED <<transport, main, listening, shutdown, cli, target>>

\* ... then overwrite the port file.
PublishPort(d) ==
    /\ transport = "loopback"
    /\ serve[d] = "bound"
    /\ endpoint' = d
    /\ serve' = [serve EXCEPT ![d] = "accepting"]
    /\ UNCHANGED <<transport, main, listening, shutdown, cli, target>>

\* The listener raises before it touches the path; _serve keeps the error
\* and sets _ready all the same.
EndpointUnusable(d) ==
    /\ "bind" \in Faults
    /\ serve[d] = "entered"
    /\ serve' = [serve EXCEPT ![d] = "failed"]
    /\ UNCHANGED <<transport, endpoint, main, listening, shutdown, cli, target>>

\* It raises further on: socket(), bind() or listen() after the unlink, or
\* the writing of the port file, which may have emptied the old one by then.
ListenerAborts(d) ==
    /\ "bind" \in Faults
    /\ serve[d] \in {"unlinked", "bound"}
    /\ serve' = [serve EXCEPT ![d] = "aborted"]
    /\ \/ UNCHANGED endpoint
       \/ transport = "loopback" /\ endpoint' = NoDaemon
    /\ UNCHANGED <<transport, main, listening, shutdown, cli, target>>

\* The self-request of stop(), the accept timeout or the closed socket wakes
\* the loop, which sees _stop.
AcceptLoopStops(d) ==
    /\ serve[d] = "accepting"
    /\ Stopping(d)
    /\ serve' = [serve EXCEPT ![d] = "done"]
    /\ UNCHANGED <<transport, endpoint, main, listening, shutdown, cli, target>>

\* "giving up ... after repeated accept errors": the thread ends, the process
\* and its listening socket stay.
AcceptLoopGivesUp(d) ==
    /\ "accept" \in Faults
    /\ serve[d] = "accepting"
    /\ ~Stopping(d)
    /\ serve' = [serve EXCEPT ![d] = "done"]
    /\ UNCHANGED <<transport, endpoint, main, listening, shutdown, cli, target>>

Listener(d) ==
    \/ UnlinkStale(d) \/ BindPath(d) \/ ListenPath(d)
    \/ BindPort(d) \/ PublishPort(d)
    \/ AcceptLoopStops(d)

-----------------------------------------------------------------------------
(* The main thread, main() *)

\* Mutant: main() clears the event once the server is up.
StartClearsShutdown(d) ==
    /\ main[d] = "starting"
    /\ serve[d] = "accepting" \/ ListenerOver(d)
    /\ main' = [main EXCEPT ![d] = "waiting"]
    /\ shutdown' = shutdown \ {d}
    /\ UNCHANGED <<transport, endpoint, serve, listening, cli, target>>

\* start() waits for _ready, which a failed listener sets as well.
StartReturns(d) ==
    /\ main[d] = "starting"
    /\ serve[d] = "accepting" \/ ListenerOver(d)
    /\ main' = [main EXCEPT ![d] = "waiting"]
    /\ UNCHANGED <<transport, endpoint, serve, listening, shutdown, cli, target>>

NoticeShutdown(d) ==
    /\ main[d] = "waiting"
    /\ d \in shutdown
    /\ main' = [main EXCEPT ![d] = "grace"]
    /\ UNCHANGED <<transport, endpoint, serve, listening, shutdown, cli, target>>

\* The grace period is over: stop() sets _stop and sends itself a request.
BeginStopping(d) ==
    /\ main[d] = "grace"
    /\ main' = [main EXCEPT ![d] = "stopping"]
    /\ UNCHANGED <<transport, endpoint, serve, listening, shutdown, cli, target>>

\* Mutant: stop() leaves the listening socket open.
KeepSocketOpen(d) ==
    /\ main[d] = "stopping"
    /\ main' = [main EXCEPT ![d] = "closed"]
    /\ UNCHANGED <<transport, endpoint, serve, listening, shutdown, cli, target>>

CloseSocket(d) ==
    /\ main[d] = "stopping"
    /\ main' = [main EXCEPT ![d] = "closed"]
    /\ listening' = listening \ {d}
    /\ UNCHANGED <<transport, endpoint, serve, shutdown, cli, target>>

\* Mutant: _cleanup without its loopback half.
CleanupOnUnixOnly(d) ==
    /\ main[d] = "closed"
    /\ ListenerOver(d) \/ "slow" \in Faults
    /\ endpoint' = IF transport = "unix" THEN NoDaemon ELSE endpoint
    /\ main' = [main EXCEPT ![d] = "exited"]
    /\ serve' = [serve EXCEPT ![d] = "done"]
    /\ UNCHANGED <<transport, listening, shutdown, cli, target>>

\* stop() joins the listener (for five seconds at most), unlinks the endpoint
\* file whoever's it is, and main() returns.
JoinAndCleanup(d) ==
    /\ main[d] = "closed"
    /\ ListenerOver(d) \/ "slow" \in Faults
    /\ endpoint' = NoDaemon
    /\ main' = [main EXCEPT ![d] = "exited"]
    /\ serve' = [serve EXCEPT ![d] = "done"]
    /\ UNCHANGED <<transport, listening, shutdown, cli, target>>

\* _cleanup suppresses the error of an unlink that fails: the file stays.
CleanupFails(d) ==
    /\ "unlink" \in Faults
    /\ main[d] = "closed"
    /\ ListenerOver(d) \/ "slow" \in Faults
    /\ main' = [main EXCEPT ![d] = "left"]
    /\ serve' = [serve EXCEPT ![d] = "done"]
    /\ UNCHANGED <<transport, endpoint, listening, shutdown, cli, target>>

MainThread(d) ==
    \/ StartReturns(d) \/ NoticeShutdown(d) \/ BeginStopping(d)
    \/ CloseSocket(d) \/ JoinAndCleanup(d)

\* Ctrl-C reaches main() while it waits: the finally clause runs stop().
Interrupt(d) ==
    /\ "interrupt" \in Faults
    /\ main[d] \in {"waiting", "grace"}
    /\ \E c \in Client : cli[c] = "foreground" /\ target[c] = d
    /\ main' = [main EXCEPT ![d] = "stopping"]
    /\ UNCHANGED <<transport, endpoint, serve, listening, shutdown, cli, target>>

\* The process ends without stop(): its threads and sockets go, the endpoint
\* file stays.
Dies(d) ==
    /\ main' = [main EXCEPT ![d] = "crashed"]
    /\ serve' = [serve EXCEPT ![d] = "done"]
    /\ listening' = listening \ {d}
    /\ UNCHANGED <<transport, endpoint, shutdown, cli, target>>

Crash(d) == "crash" \in Faults /\ Alive(d) /\ Dies(d)

\* start() gives up after five seconds; its RuntimeError ends main().
StartTimesOut(d) ==
    /\ "slow" \in Faults
    /\ main[d] = "starting"
    /\ Booting(d)
    /\ Dies(d)

-----------------------------------------------------------------------------
Command(c) ==
    \/ ProbeAnswered(c)
    \/ \E d \in Daemon : ProbeUnanswered(c, d)
    \/ AwaitAnswered(c) \/ AwaitTimesOut(c) \/ ForegroundReturns(c)
    \/ \E d \in Daemon : ShutdownAnswered(c, d)
    \/ ShutdownUnanswered(c)
    \/ PollUnanswered(c) \/ PollTimesOut(c)

Fault(d) ==
    \/ EndpointUnusable(d) \/ ListenerAborts(d) \/ AcceptLoopGivesUp(d)
    \/ CleanupFails(d)
    \/ Interrupt(d) \/ Crash(d) \/ StartTimesOut(d)

Next ==
    \/ \E c \in Client : BeginStart(c) \/ BeginStop(c) \/ Command(c)
    \/ \E d \in Daemon : Listener(d) \/ MainThread(d) \/ Fault(d)

Spec == Init /\ [][Next]_vars

(***************************************************************************)
(* Threads are scheduled and commands run to their end: both loops of      *)
(* cmd_daemon have a deadline, accept() has a timeout.  Nobody is bound to *)
(* begin a command, and no fault is bound to happen.                       *)
(***************************************************************************)
Fairness ==
    /\ \A c \in Client : WF_vars(Command(c))
    /\ \A d \in Daemon : WF_vars(Listener(d)) /\ WF_vars(MainThread(d))

FairSpec == Spec /\ Fairness

-----------------------------------------------------------------------------
(* Properties under any faults and any interleaving of commands. *)

\* A daemon that left through stop() leaves no endpoint file of its own, unless
\* unlinking it failed: the next client is not sent to a dead socket or port
\* (Server._cleanup).
CleanExit == \A d \in Daemon : main[d] = "exited" => endpoint # d

\* Racing starts never cost the endpoint: as long as no daemon has been
\* stopped, has died or has had its listener break down half-way, once every
\* boot is over and some daemon accepts, some daemon can be reached (the unlink
\* and bind of _serve_unix).
SomebodyReachable ==
    /\ \A d \in Daemon :
          ~Booting(d) /\ serve[d] \notin {"aborted", "done"}
             /\ main[d] \in {"unborn", "starting", "waiting"}
    /\ \E d \in Daemon : serve[d] = "accepting"
    => \E d \in Daemon : Answers(d)

\* A daemon that took a SHUTDOWN ends: the handler's event reaches main(),
\* and stop() does not wait for itself or for a listener that never wakes.
ShutdownTerminates ==
    \A d \in Daemon : d \in shutdown ~> ~Alive(d)

-----------------------------------------------------------------------------
(* Properties of commands that do not overlap, on a machine that is not     *)
(* slow: stop() beats the next start, replies beat their timeouts.          *)

\* No daemon accepts connections that cannot reach it (the orphan that
\* Server.start's comment describes for two listeners of one process).
NoOrphan == \A d \in Daemon : serve[d] = "accepting" => endpoint = d

\* "stopped" is printed only once the daemon that was asked can no longer be
\* reached (the poll loop of cmd_daemon stop).
StopIsTruthful ==
    \A c \in Client : cli[c] = "stopped" => ~Answers(target[c])

\* What a dead daemon left behind never keeps the next one from its endpoint
\* ("a stale socket from a crashed daemon", _serve_unix).
BindSucceeds == \A d \in Daemon : serve[d] \notin {"failed", "aborted"}

\* A start that found nobody ends with its daemon answering, unless that very
\* daemon was killed (cmd_daemon start).
StartSucceeds ==
    \A c \in Client : \A d \in Daemon :
        cli[c] = "awaiting" /\ target[c] = d
            ~> cli[c] = "started" \/ main[d] = "crashed"

\* The daemons take turns at the endpoint.
PhaseOf(s) ==
    CASE s = "accepting" -> "serving"
      [] s \in {"failed", "aborted", "done"} -> "over"
      [] OTHER -> "new"

Endpoint == INSTANCE ExclusiveEndpoint
    WITH phase <- [d \in Daemon |-> PhaseOf(serve[d])]

OneAtATime == Endpoint!Spec

=============================================================================
