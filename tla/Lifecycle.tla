----------------------------- MODULE Lifecycle -----------------------------
(***************************************************************************)
(* Starting and stopping the daemon: the CLI commands start, stop and      *)
(* restart (src/cli/commands.rs), the daemon processes they spawn and      *)
(* signal, and the two files they find each other by, state/daemon.pid and *)
(* tailcat-node.sock.                                                      *)
(*                                                                         *)
(* Every file operation and every signal is a step of its own where        *)
(* another process can get in between.  A pid stands for the process that  *)
(* has it now; a pid that is free may be given to the next process.        *)
(***************************************************************************)

CONSTANTS
  Pids,       \* process ids
  NoPid,      \* no process
  NoFile,     \* a file that is not there
  Blank,      \* a pid file that was truncated and is not written yet
  Ops,        \* terminals, each running one command at a time
  Cmds,       \* the commands in use
  Patient,    \* do the 5 s of start and restart outlast what they wait for?
  Crashes,    \* may a daemon be killed by something other than the CLI?
  BootFails,  \* may a daemon exit with an error while it starts?
  Foreign     \* may other programs get the pid of a daemon that is gone?

ASSUME PidAssumption ==
  /\ NoPid \notin Pids /\ NoFile \notin Pids /\ Blank \notin Pids
  /\ NoFile # Blank
ASSUME CmdAssumption == Cmds \subseteq {"start", "stop", "restart"}
ASSUME SwitchAssumption == {Patient, Crashes, BootFails, Foreign} \subseteq BOOLEAN

VARIABLES
  main,     \* main[d]: how far the main task of process d is
  sig,      \* sig[d]: its SIGTERM handler
  pidfile,  \* state/daemon.pid
  sock,     \* tailcat-node.sock: the process that bound it, alive or not
  op        \* the command each terminal is running

vars == <<main, sig, pidfile, sock, op>>

Mains == {"free", "foreign", "booting", "naming", "named", "spawned", "cleared", "serving"}
Sigs  == {"default", "armed", "caught", "unnamed", "unbound"}
Steps == {"idle", "checking", "unlinking", "spawning", "waiting",
          "stopping", "stop_waiting", "clearing_pid", "clearing_sock"}

Alive(d)  == main[d] # "free"               \* kill(d, 0) = 0
Daemon(d) == main[d] \notin {"free", "foreign"}
Daemons   == {d \in Pids : Daemon(d)}

TypeOK ==
  /\ main \in [Pids -> Mains]
  /\ sig \in [Pids -> Sigs]
  /\ pidfile \in Pids \cup {NoFile, Blank}
  /\ sock \in Pids \cup {NoFile}
  /\ op \in [Ops -> [at: Steps, pid: Pids \cup {NoPid}]]

Init ==
  /\ main = [d \in Pids |-> "free"]
  /\ sig = [d \in Pids |-> "default"]
  /\ pidfile = NoFile
  /\ sock = NoFile
  /\ op = [o \in Ops |-> [at |-> "idle", pid |-> NoPid]]

Gone(d) ==
  /\ main' = [main EXCEPT ![d] = "free"]
  /\ sig'  = [sig EXCEPT ![d] = "default"]

Advance(d, from, to) ==
  /\ main[d] = from
  /\ main' = [main EXCEPT ![d] = to]

Step(o, s)   == op' = [op EXCEPT ![o].at = s]
Return(o)    == op' = [op EXCEPT ![o] = [at |-> "idle", pid |-> NoPid]]

(***************************************************************************)
(* A daemon process: `start --foreground`.  It looks at neither file       *)
(* before it writes them.                                                  *)
(***************************************************************************)
\* Daemon::new and backend_start succeed; fs::write truncates the pid file...
TruncatePid(d) ==
  /\ Advance(d, "booting", "naming")
  /\ pidfile' = Blank
  /\ UNCHANGED <<sig, sock, op>>

\* ... and writes the pid.
WritePid(d) ==
  /\ Advance(d, "naming", "named")
  /\ pidfile' = d
  /\ UNCHANGED <<sig, sock, op>>

\* The log is opened, and the task that handles signals is spawned.
SpawnHandler(d) ==
  /\ Advance(d, "named", "spawned")
  /\ UNCHANGED <<sig, pidfile, sock, op>>

\* The handler task gets to install the handler, while serve() goes on.
Arm(d) ==
  /\ main[d] \in {"spawned", "cleared", "serving"}
  /\ sig[d] = "default"
  /\ sig' = [sig EXCEPT ![d] = "armed"]
  /\ UNCHANGED <<main, pidfile, sock, op>>

\* serve(): "Remove any stale socket" removes any socket, stale or not.
ClearSocket(d) ==
  /\ Advance(d, "spawned", "cleared")
  /\ sock' = NoFile
  /\ UNCHANGED <<sig, pidfile, op>>

Bind(d) ==
  /\ sock = NoFile
  /\ Advance(d, "cleared", "serving")
  /\ sock' = d
  /\ UNCHANGED <<sig, pidfile, op>>

\* Address in use: the error leaves start() before the pid file is removed.
BindFails(d) ==
  /\ sock # NoFile
  /\ main[d] = "cleared"
  /\ Gone(d)
  /\ UNCHANGED <<pidfile, sock, op>>

\* peers.toml does not parse, genkey fails, the log cannot be opened.
BootError(d) ==
  /\ BootFails
  /\ main[d] \in {"booting", "named"}
  /\ Gone(d)
  /\ UNCHANGED <<pidfile, sock, op>>

(***************************************************************************)
(* SIGTERM, and its handler.  Before the handler is there, the signal      *)
(* kills at once; after it was caught once, more signals change nothing.   *)
(***************************************************************************)
\* A signal that comes before the handler is there is lost.
TerminateLost(d) ==
  \/ /\ main[d] = "free" \/ (Daemon(d) /\ sig[d] # "armed")
     /\ UNCHANGED <<main, sig>>
  \/ /\ main[d] = "foreign"
     /\ Gone(d)
  \/ /\ Daemon(d) /\ sig[d] = "armed"
     /\ sig' = [sig EXCEPT ![d] = "caught"]
     /\ UNCHANGED main

Terminate(d) ==
  \/ /\ main[d] = "free" \/ (Daemon(d) /\ sig[d] \notin {"default", "armed"})
     /\ UNCHANGED <<main, sig>>
  \/ /\ main[d] = "foreign" \/ (Daemon(d) /\ sig[d] = "default")
     /\ Gone(d)
  \/ /\ Daemon(d) /\ sig[d] = "armed"
     /\ sig' = [sig EXCEPT ![d] = "caught"]
     /\ UNCHANGED main

\* The handler gives up when the pid file is not there.
RemovePidStrict(d) ==
  /\ sig[d] = "caught"
  /\ pidfile # NoFile
  /\ sig' = [sig EXCEPT ![d] = "unnamed"]
  /\ pidfile' = NoFile
  /\ UNCHANGED <<main, sock, op>>

\* The handler removes the paths, whoever they belong to by now.
RemovePid(d) ==
  /\ sig[d] = "caught"
  /\ sig' = [sig EXCEPT ![d] = "unnamed"]
  /\ pidfile' = NoFile
  /\ UNCHANGED <<main, sock, op>>

RemoveSocket(d) ==
  /\ sig[d] = "unnamed"
  /\ sig' = [sig EXCEPT ![d] = "unbound"]
  /\ sock' = NoFile
  /\ UNCHANGED <<main, pidfile, op>>

ExitProcess(d) ==
  /\ sig[d] = "unbound"
  /\ Gone(d)
  /\ UNCHANGED <<pidfile, sock, op>>

Crash(d) ==
  /\ Crashes
  /\ Daemon(d)
  /\ Gone(d)
  /\ UNCHANGED <<pidfile, sock, op>>

\* Some other program starts and ends.
ForeignProcess(d) ==
  /\ Foreign
  /\ Advance(d, "free", "foreign") \/ Advance(d, "foreign", "free")
  /\ UNCHANGED <<sig, pidfile, sock, op>>

(***************************************************************************)
(* start: "Check if already running", then spawn a detached child and wait *)
(* until there is a socket.                                                *)
(***************************************************************************)
Start(o) ==
  /\ "start" \in Cmds
  /\ op[o].at = "idle"
  /\ op' = [op EXCEPT ![o] = [at |-> "checking", pid |-> NoPid]]
  /\ UNCHANGED <<main, sig, pidfile, sock>>

\* Any pid file there is stands for a running daemon.
CheckPidExists(o) ==
  /\ op[o].at = "checking"
  /\ \/ pidfile = NoFile /\ Step(o, "spawning")
     \/ /\ pidfile # NoFile
        /\ op' = [op EXCEPT ![o] = [at |-> "idle", pid |-> pidfile]]
  /\ UNCHANGED <<main, sig, pidfile, sock>>

\* A pid file that is blank does not parse, and counts as stale.
CheckPid(o) ==
  /\ op[o].at = "checking"
  /\ \/ /\ pidfile = NoFile
        /\ Step(o, "spawning")
     \/ /\ pidfile \in Pids /\ Alive(pidfile)
        /\ op' = [op EXCEPT ![o] = [at |-> "idle", pid |-> pidfile]]
     \/ /\ pidfile \in Pids => ~Alive(pidfile)
        /\ pidfile # NoFile
        /\ Step(o, "unlinking")
  /\ UNCHANGED <<main, sig, pidfile, sock>>

UnlinkStalePid(o) ==
  /\ op[o].at = "unlinking"
  /\ pidfile' = NoFile
  /\ Step(o, "spawning")
  /\ UNCHANGED <<main, sig, sock>>

SpawnChild(o) ==
  /\ op[o].at = "spawning"
  /\ \E d \in Pids :
       /\ Advance(d, "free", "booting")
       /\ op' = [op EXCEPT ![o].at = "waiting", ![o].pid = d]
  /\ UNCHANGED <<sig, pidfile, sock>>

\* cmd.spawn() fails when no more processes can be had.
SpawnFails(o) ==
  /\ op[o].at = "spawning"
  /\ \A d \in Pids : Alive(d)
  /\ Return(o)
  /\ UNCHANGED <<main, sig, pidfile, sock>>

\* The loop ends when the socket exists, or after 5 s; both print "started".
\* A patient start gives up on a child only when it is gone.
Started(o) ==
  /\ op[o].at = "waiting"
  /\ sock # NoFile \/ ~Patient \/ ~Daemon(op[o].pid)
  /\ Return(o)
  /\ UNCHANGED <<main, sig, pidfile, sock>>

(***************************************************************************)
(* stop: signal the process in the pid file, and remove the file.          *)
(***************************************************************************)
Stop(o) ==
  /\ "stop" \in Cmds
  /\ op[o].at = "idle"
  /\ \/ /\ pidfile \in {NoFile, Blank}
        /\ Return(o)
        /\ UNCHANGED <<main, sig>>
     \/ /\ pidfile \in Pids
        /\ Terminate(pidfile)
        /\ op' = [op EXCEPT ![o] = [at |-> "stopping", pid |-> pidfile]]
  /\ UNCHANGED <<pidfile, sock>>

StopUnlinksPid(o) ==
  /\ op[o].at = "stopping"
  /\ pidfile' = NoFile
  /\ Return(o)
  /\ UNCHANGED <<main, sig, sock>>

(***************************************************************************)
(* restart: signal, wait for the process to be gone for at most 5 s, and   *)
(* remove both files; then start.  Without a pid file it only starts.      *)
(***************************************************************************)
\* The daemon that runs is left alone.
RestartStartsOnly(o) ==
  /\ "restart" \in Cmds
  /\ op[o].at = "idle"
  /\ op' = [op EXCEPT ![o] = [at |-> "checking", pid |-> NoPid]]
  /\ UNCHANGED <<main, sig, pidfile, sock>>

Restart(o) ==
  /\ "restart" \in Cmds
  /\ op[o].at = "idle"
  /\ \/ /\ pidfile = NoFile
        /\ op' = [op EXCEPT ![o] = [at |-> "checking", pid |-> NoPid]]
        /\ UNCHANGED <<main, sig>>
     \/ /\ pidfile = Blank
        /\ op' = [op EXCEPT ![o] = [at |-> "clearing_pid", pid |-> NoPid]]
        /\ UNCHANGED <<main, sig>>
     \/ /\ pidfile \in Pids
        /\ Terminate(pidfile)
        /\ op' = [op EXCEPT ![o] = [at |-> "stop_waiting", pid |-> pidfile]]
  /\ UNCHANGED <<pidfile, sock>>

\* The wait of stop: there is none.
NoWaitForExit(o) ==
  /\ op[o].at = "stop_waiting"
  /\ Step(o, "clearing_pid")
  /\ UNCHANGED <<main, sig, pidfile, sock>>

WaitForExit(o) ==
  /\ op[o].at = "stop_waiting"
  /\ ~Alive(op[o].pid) \/ ~Patient
  /\ Step(o, "clearing_pid")
  /\ UNCHANGED <<main, sig, pidfile, sock>>

ClearPid(o) ==
  /\ op[o].at = "clearing_pid"
  /\ pidfile' = NoFile
  /\ Step(o, "clearing_sock")
  /\ UNCHANGED <<main, sig, sock>>

\* The socket of the old daemon stays.
ClearSockSkipped(o) ==
  /\ op[o].at = "clearing_sock"
  /\ sock' = sock
  /\ Step(o, "checking")
  /\ UNCHANGED <<main, sig, pidfile>>

ClearSock(o) ==
  /\ op[o].at = "clearing_sock"
  /\ sock' = NoFile
  /\ Step(o, "checking")
  /\ UNCHANGED <<main, sig, pidfile>>

-----------------------------------------------------------------------------
MainStep(d) == TruncatePid(d) \/ WritePid(d) \/ SpawnHandler(d) \/ ClearSocket(d)
                 \/ Bind(d) \/ BindFails(d)
HandlerStep(d) == Arm(d) \/ RemovePid(d) \/ RemoveSocket(d) \/ ExitProcess(d)

OpStep(o) == CheckPid(o) \/ UnlinkStalePid(o) \/ SpawnChild(o) \/ SpawnFails(o)
               \/ Started(o) \/ StopUnlinksPid(o) \/ WaitForExit(o)
               \/ ClearPid(o) \/ ClearSock(o)

Next ==
  \/ \E d \in Pids : MainStep(d) \/ HandlerStep(d)
                       \/ BootError(d) \/ Crash(d) \/ ForeignProcess(d)
  \/ \E o \in Ops : Start(o) \/ Stop(o) \/ Restart(o) \/ OpStep(o)

Spec == Init /\ [][Next]_vars

\* Processes run, and both tasks of a daemon are polled: the runtime of
\* #[tokio::main] has several threads.
FairSpec ==
  /\ Spec
  /\ \A d \in Pids : WF_vars(MainStep(d)) /\ WF_vars(HandlerStep(d))
  /\ \A o \in Ops : WF_vars(OpStep(o))

-----------------------------------------------------------------------------
(***************************************************************************)
(* A careful operator, who waits for a command to end, and for a daemon    *)
(* that was told to exit to be gone, and starts no daemon over the socket  *)
(* of one that has crashed: only a restart that finds a pid file removes   *)
(* it.  Module Node is about this operator.                                *)
(***************************************************************************)
Quiet == \A o \in Ops : op[o].at = "idle"

Told(d) == sig[d] \in {"caught", "unnamed", "unbound"}

Ready == Quiet /\ \A d \in Daemons : ~Told(d)

NoStaleSocket == sock \in Pids => Alive(sock)

Launch(o) == Ready /\ NoStaleSocket /\ Start(o)

Replace(o) ==
  /\ Ready
  /\ \/ Stop(o)
     \/ (NoStaleSocket \/ pidfile # NoFile) /\ Restart(o)

CarefulCommand(o) == Launch(o) \/ Replace(o)

\* The daemon that listens does not crash between a start that finds it and the
\* end of that start.
TimelyFault(d) ==
  /\ sock = d => \A o \in Ops : op[o].at \notin {"checking", "unlinking", "spawning"}
  /\ BootError(d) \/ Crash(d)

CarefulNext ==
  \/ \E d \in Pids : MainStep(d) \/ HandlerStep(d) \/ TimelyFault(d)
  \/ \E o \in Ops : OpStep(o) \/ CarefulCommand(o)

CarefulSpec == Init /\ [][CarefulNext]_vars

-----------------------------------------------------------------------------
(***************************************************************************)
(* Properties                                                              *)
(***************************************************************************)

\* One node, one daemon: start refuses while one is running, and restart
\* replaces it.
AtMostOneDaemon == \A c, d \in Daemons : c = d

\* When no command is under way, a daemon that lives and has not been told to
\* exit can be found: it answers on the socket, and the pid file names it to
\* stop and restart.
NoOrphan ==
  Quiet => \A d \in Daemons :
             Told(d) \/ (main[d] = "serving" /\ sock = d /\ pidfile = d)

\* A daemon that has caught SIGTERM exits, whatever its main task is doing and
\* whoever else removes or creates its files.
SignalledExits == \A d \in Pids : sig[d] = "caught" ~> main[d] = "free"

=============================================================================
