-------------------------- MODULE LifecycleProofs --------------------------
(***************************************************************************)
(* Theorems of module Lifecycle, for any processes and terminals: type     *)
(* correctness, with every race, crash and failure that the module has;    *)
(* then, for the careful operator, one daemon at most and no orphan.       *)
(* Module NodeProofs uses the lemmas for the Lifecycle in a node.          *)
(***************************************************************************)
EXTENDS Lifecycle, TLAPS

LEMMA TypeInductive ==
  /\ Init => TypeOK
  /\ TypeOK /\ [Next]_vars => TypeOK'
<1> USE DEF TypeOK
<1>1. Init => TypeOK
  BY DEF Init, Mains, Sigs, Steps
<1>2. ASSUME TypeOK, [Next]_vars PROVE TypeOK'
  <2> USE <1>2
  <2>1. CASE UNCHANGED vars
    BY <2>1 DEF vars
  <2>2. ASSUME NEW d \in Pids, MainStep(d) PROVE TypeOK'
    BY <2>2 DEF MainStep, TruncatePid, WritePid, SpawnHandler, ClearSocket, Bind, BindFails,
                Advance, Gone, Mains, Sigs
  <2>3. ASSUME NEW d \in Pids, HandlerStep(d) PROVE TypeOK'
    BY <2>3 DEF HandlerStep, Arm, RemovePid, RemoveSocket, ExitProcess, Gone, Mains, Sigs
  <2>4. ASSUME NEW d \in Pids, BootError(d) \/ Crash(d) \/ ForeignProcess(d) PROVE TypeOK'
    BY <2>4 DEF BootError, Crash, ForeignProcess, Advance, Gone, Mains, Sigs
  <2>5. ASSUME NEW d \in Pids, Terminate(d)
        PROVE  main' \in [Pids -> Mains] /\ sig' \in [Pids -> Sigs]
    BY <2>5 DEF Terminate, Gone, Mains, Sigs
  <2>6. ASSUME NEW o \in Ops, Start(o) PROVE TypeOK'
    BY <2>6 DEF Start, Steps
  <2>7. ASSUME NEW o \in Ops, Stop(o) PROVE TypeOK'
    BY <2>5, <2>7 DEF Stop, Return, Steps
  <2>8. ASSUME NEW o \in Ops, Restart(o) PROVE TypeOK'
    BY <2>5, <2>8 DEF Restart, Steps
  <2>9. ASSUME NEW o \in Ops, OpStep(o) PROVE TypeOK'
    <3>1. ASSUME NEW s \in Steps, Step(o, s)
          PROVE  op' \in [Ops -> [at: Steps, pid: Pids \cup {NoPid}]]
      BY <3>1 DEF Step
    <3>2. ASSUME Return(o)
          PROVE  op' \in [Ops -> [at: Steps, pid: Pids \cup {NoPid}]]
      BY <3>2 DEF Return, Steps
    <3>3. CASE CheckPid(o)
      BY <3>1, <3>3 DEF CheckPid, Steps
    <3>4. CASE UnlinkStalePid(o) \/ WaitForExit(o) \/ ClearPid(o) \/ ClearSock(o)
      BY <3>1, <3>4 DEF UnlinkStalePid, WaitForExit, ClearPid, ClearSock, Steps
    <3>5. CASE SpawnChild(o)
      <4>1. PICK d \in Pids : /\ main' = [main EXCEPT ![d] = "booting"]
                              /\ op' = [op EXCEPT ![o].at = "waiting", ![o].pid = d]
        BY <3>5 DEF SpawnChild, Advance
      <4>2. [op[o] EXCEPT !.at = "waiting", !.pid = d]
              \in [at: Steps, pid: Pids \cup {NoPid}]
        BY DEF Steps
      <4>3. op' \in [Ops -> [at: Steps, pid: Pids \cup {NoPid}]]
        BY <4>1, <4>2
      <4> QED BY <3>5, <4>1, <4>3 DEF SpawnChild, Mains
    <3>6. CASE SpawnFails(o) \/ Started(o) \/ StopUnlinksPid(o)
      BY <3>2, <3>6 DEF SpawnFails, Started, StopUnlinksPid
    <3> QED BY <2>9, <3>3, <3>4, <3>5, <3>6 DEF OpStep
  <2> QED BY <2>1, <2>2, <2>3, <2>4, <2>6, <2>7, <2>8, <2>9 DEF Next
<1> QED BY <1>1, <1>2

\* Type correctness: in particular a command only ever waits for, or signals, a
\* process.
THEOREM TypeCorrect == Spec => []TypeOK
BY TypeInductive, PTL DEF Spec

(***************************************************************************)
(* The careful operator.                                                   *)
(*                                                                         *)
(* AtMostOneDaemon and NoOrphan are not inductive: they say nothing of the *)
(* files while a daemon starts or a command runs.  The invariant that is   *)
(* gives, for every stage of a daemon, what the two files hold, and for    *)
(* every step of a command, which daemon there may be.                     *)
(***************************************************************************)
Booting == {"booting", "naming", "named", "spawned", "cleared"}

\* One terminal is busy at a time.
OneCommand == \A a, b \in Ops : op[a].at # "idle" /\ op[b].at # "idle" => a = b

\* The socket appears when the daemon serves, the pid file before; the handler of
\* a daemon that was told to exit takes them away.  A daemon that boots has a
\* start that waits for it.
DaemonInv(d) ==
  /\ main[d] # "foreign"
  /\ main[d] \in {"free", "booting", "naming", "named"} => sig[d] = "default"
  /\ main[d] \in Booting => /\ ~Told(d)
                            /\ sock = NoFile
                            /\ \E o \in Ops : op[o].at = "waiting" /\ op[o].pid = d
  /\ main[d] = "booting" => pidfile = NoFile
  /\ main[d] = "naming" => pidfile = Blank
  /\ main[d] \in {"named", "spawned", "cleared"} => pidfile = d
  /\ main[d] = "serving" => \/ ~Told(d) /\ sock = d /\ pidfile = d
                            \/ Told(d) /\ sock \in {d, NoFile} /\ pidfile \in {d, NoFile}

NobodyHome == Daemons = {} /\ sock = NoFile

\* A start checks the pid file of a daemon that serves, or there is no daemon;
\* what is signalled is the only one there is.
CommandInv(o) ==
  /\ op[o].at = "checking" => NobodyHome \/ \E d \in Daemons : main[d] = "serving" /\ ~Told(d)
  /\ op[o].at \in {"unlinking", "spawning"} => NobodyHome
  /\ op[o].at = "spawning" => pidfile = NoFile
  /\ op[o].at = "waiting" => /\ op[o].pid \in Pids
                             /\ \A d \in Daemons : d = op[o].pid /\ ~Told(d)
  /\ op[o].at \in {"stopping", "stop_waiting"} =>
       op[o].pid \in Pids /\ \A d \in Daemons : d = op[o].pid /\ Told(d)
  /\ op[o].at \in {"clearing_pid", "clearing_sock"} => Daemons = {}

CarefulInv ==
  /\ AtMostOneDaemon
  /\ OneCommand
  /\ \A d \in Pids : DaemonInv(d)
  /\ \A o \in Ops : CommandInv(o)

\* Next to a daemon there are only free pids.
LEMMA Alone ==
  ASSUME TypeOK, CarefulInv, NEW d \in Pids, Daemon(d)
  PROVE  \A e \in Pids : e # d => main[e] = "free" /\ sig[e] = "default"
BY DEF CarefulInv, AtMostOneDaemon, DaemonInv, Daemons, Daemon, TypeOK

LEMMA NoDaemon ==
  ASSUME TypeOK, CarefulInv, Daemons = {}
  PROVE  \A e \in Pids : main[e] = "free" /\ sig[e] = "default"
BY DEF CarefulInv, DaemonInv, Daemons, Daemon, TypeOK

LEMMA MainStepKeeps ==
  ASSUME TypeOK, CarefulInv, NEW d \in Pids, MainStep(d)
  PROVE  CarefulInv'
<1> USE DEF TypeOK
<1>1. op' = op /\ main[d] \in Booting
  BY DEF MainStep, TruncatePid, WritePid, SpawnHandler, ClearSocket, Bind, BindFails, Advance, Booting
<1>2. Daemon(d)
  BY <1>1 DEF Booting, Daemon
<1>3. PICK o \in Ops : op[o].at = "waiting" /\ op[o].pid = d
  BY <1>1 DEF CarefulInv, DaemonInv
<1>4. \A a \in Ops : a # o => op[a].at = "idle"
  BY <1>3 DEF CarefulInv, OneCommand, Steps
<1>5. /\ \A e \in Pids : e # d => main'[e] = "free" /\ sig'[e] = "default"
      /\ ~Told(d)'
      /\ DaemonInv(d)'
  <2>1. \A e \in Pids : e # d => main[e] = "free" /\ sig[e] = "default"
    BY <1>2, Alone
  <2>2. DaemonInv(d) /\ sock = NoFile /\ ~Told(d)
    BY <1>1 DEF CarefulInv, DaemonInv
  <2>3. ~BindFails(d)
    BY <2>2 DEF BindFails
  <2>4. CASE TruncatePid(d)
    BY <1>1, <1>3, <2>1, <2>2, <2>4, PidAssumption DEF TruncatePid, Advance, DaemonInv, Booting, Told
  <2>5. CASE WritePid(d)
    BY <1>1, <1>3, <2>1, <2>2, <2>5 DEF WritePid, Advance, DaemonInv, Booting, Told
  <2>6. CASE SpawnHandler(d)
    BY <1>1, <1>3, <2>1, <2>2, <2>6 DEF SpawnHandler, Advance, DaemonInv, Booting, Told
  <2>7. CASE ClearSocket(d)
    BY <1>1, <1>3, <2>1, <2>2, <2>7 DEF ClearSocket, Advance, DaemonInv, Booting, Told
  <2>8. CASE Bind(d)
    BY <1>1, <1>3, <2>1, <2>2, <2>8 DEF Bind, Advance, DaemonInv, Booting, Told
  <2> QED BY <2>3, <2>4, <2>5, <2>6, <2>7, <2>8 DEF MainStep
<1>6. \A e \in Pids : e # d => DaemonInv(e)'
  BY <1>5 DEF DaemonInv, Booting
<1>7. Daemons' \subseteq {d}
  BY <1>5 DEF Daemons, Daemon
<1>8. \A a \in Ops : CommandInv(a)'
  BY <1>1, <1>3, <1>4, <1>5, <1>7 DEF CommandInv
<1> QED BY <1>1, <1>5, <1>6, <1>7, <1>8 DEF CarefulInv, AtMostOneDaemon, OneCommand

LEMMA HandlerStepKeeps ==
  ASSUME TypeOK, CarefulInv, NEW d \in Pids, HandlerStep(d)
  PROVE  CarefulInv'
<1> USE DEF TypeOK
<1>1. op' = op
  BY DEF HandlerStep, Arm, RemovePid, RemoveSocket, ExitProcess
<1>2. Daemon(d) /\ main[d] \in {"spawned", "cleared", "serving"}
  <2>1. main[d] \in {"spawned", "cleared", "serving"} \/ sig[d] # "default"
    BY DEF HandlerStep, Arm, RemovePid, RemoveSocket, ExitProcess
  <2> QED BY <2>1 DEF CarefulInv, DaemonInv, Daemon, Mains
<1>3. \A e \in Pids : e # d => main[e] = "free" /\ sig[e] = "default"
  BY <1>2, Alone
<1>4. DaemonInv(d)
  BY DEF CarefulInv
<1>5. CASE Arm(d)
  <2>1. main' = main /\ \A e \in Pids : Told(e)' <=> Told(e)
    BY <1>5 DEF Arm, Told
  <2>2. Daemons' = Daemons /\ UNCHANGED <<pidfile, sock>> /\ sig' = [sig EXCEPT ![d] = "armed"]
    BY <1>5 DEF Arm, Daemons, Daemon
  <2>3. \A e \in Pids : DaemonInv(e)'
    BY <1>1, <1>2, <2>1, <2>2 DEF CarefulInv, DaemonInv
  <2>4. \A a \in Ops : CommandInv(a)'
    BY <1>1, <2>1, <2>2 DEF CarefulInv, CommandInv, NobodyHome, Daemons
  <2> QED BY <1>1, <2>2, <2>3, <2>4 DEF CarefulInv, AtMostOneDaemon, OneCommand
<1>6. CASE RemovePid(d) \/ RemoveSocket(d)
  <2>1. main' = main /\ Told(d) /\ Told(d)' /\ sig' \in [Pids -> Sigs]
        /\ \A e \in Pids : e # d => sig'[e] = "default"
    BY <1>3, <1>6 DEF RemovePid, RemoveSocket, Told, Sigs
  <2>2. main[d] = "serving" /\ pidfile' \in {pidfile, NoFile} /\ sock' \in {sock, NoFile}
    BY <1>2, <1>4, <1>6, <2>1 DEF RemovePid, RemoveSocket, DaemonInv, Booting
  <2>3. DaemonInv(d)'
    BY <1>4, <2>1, <2>2 DEF DaemonInv, Booting
  <2>4. \A e \in Pids : e # d => DaemonInv(e)'
    BY <1>3, <2>1 DEF DaemonInv, Booting
  <2>5. Daemons' = Daemons /\ Daemons = {d}
    BY <1>2, <1>3, <2>1 DEF Daemons, Daemon
  <2>6. \A a \in Ops : CommandInv(a)'
    BY <1>1, <2>1, <2>5 DEF CarefulInv, CommandInv, NobodyHome
  <2> QED BY <1>1, <2>3, <2>4, <2>5, <2>6 DEF CarefulInv, AtMostOneDaemon, OneCommand
<1>7. CASE ExitProcess(d)
  <2>1. Told(d) /\ Daemons = {d} /\ UNCHANGED <<pidfile, sock>>
    BY <1>2, <1>3, <1>7 DEF ExitProcess, Told, Daemons, Daemon
  <2>2. Daemons' = {} /\ \A e \in Pids : main'[e] = "free" /\ sig'[e] = "default"
    BY <1>3, <1>7 DEF ExitProcess, Gone, Daemons, Daemon
  <2>3. \A e \in Pids : DaemonInv(e)'
    BY <2>2 DEF DaemonInv, Booting
  <2>4. \A a \in Ops : CommandInv(a)'
    BY <1>1, <2>1, <2>2 DEF CarefulInv, CommandInv, NobodyHome
  <2> QED BY <1>1, <2>2, <2>3, <2>4 DEF CarefulInv, AtMostOneDaemon, OneCommand
<1> QED BY <1>5, <1>6, <1>7 DEF HandlerStep

LEMMA FaultKeeps ==
  ASSUME TypeOK, CarefulInv, NEW d \in Pids, TimelyFault(d)
  PROVE  CarefulInv'
<1> USE DEF TypeOK
<1>1. op' = op /\ Daemon(d) /\ Gone(d) /\ UNCHANGED <<pidfile, sock>>
  BY DEF TimelyFault, BootError, Crash, Daemon
<1>2. \A e \in Pids : main'[e] = "free" /\ sig'[e] = "default"
  BY <1>1, Alone DEF Gone
<1>3. Daemons' = {} /\ Daemons = {d}
  BY <1>1, <1>2, Alone DEF Daemons, Daemon
<1>4. \A e \in Pids : DaemonInv(e)'
  BY <1>2 DEF DaemonInv, Booting
<1>5. \A a \in Ops : CommandInv(a)'
  <2>1. ASSUME NEW a \in Ops PROVE op[a].at \notin {"checking", "unlinking", "spawning"}
    <3>1. CASE main[d] = "serving" /\ ~Told(d)
      BY <3>1 DEF CarefulInv, DaemonInv, TimelyFault
    <3>2. CASE ~(main[d] = "serving" /\ ~Told(d))
      BY <1>3, <3>2 DEF CarefulInv, CommandInv, NobodyHome
    <3> QED BY <3>1, <3>2
  <2> QED BY <1>1, <1>3, <2>1 DEF CarefulInv, CommandInv
<1> QED BY <1>1, <1>3, <1>4, <1>5 DEF CarefulInv, AtMostOneDaemon, OneCommand

\* A step of a command that leaves the daemons as they are.
LEMMA CommandMoves ==
  ASSUME TypeOK, CarefulInv, NEW o \in Ops, UNCHANGED <<main, sig>>,
         \A a \in Ops : a # o => op[a].at = "idle" /\ op'[a] = op[a],
         \A d \in Pids : DaemonInv(d)', CommandInv(o)'
  PROVE  CarefulInv'
<1>1. Daemons' = Daemons
  BY DEF Daemons, Daemon
<1>2. \A a \in Ops : CommandInv(a)'
  BY DEF CommandInv
<1> QED BY <1>1, <1>2 DEF CarefulInv, AtMostOneDaemon, OneCommand

LEMMA OpStepKeeps ==
  ASSUME TypeOK, CarefulInv, Patient, NEW o \in Ops, OpStep(o)
  PROVE  CarefulInv'
<1> USE DEF TypeOK
<1>1. op[o].at # "idle"
  BY DEF OpStep, CheckPid, UnlinkStalePid, SpawnChild, SpawnFails, Started, StopUnlinksPid,
         WaitForExit, ClearPid, ClearSock
<1>2. \A a \in Ops : a # o => op[a].at = "idle"
  BY <1>1 DEF CarefulInv, OneCommand
<1>3. CommandInv(o) /\ \A d \in Pids : DaemonInv(d)
  BY DEF CarefulInv
<1>4. CASE CheckPid(o)
  <2>1. UNCHANGED <<main, sig, pidfile, sock>> /\ op[o].at = "checking"
        /\ \A a \in Ops : a # o => op'[a] = op[a]
    BY <1>4 DEF CheckPid, Step
  <2>2. \A d \in Pids : DaemonInv(d)'
    BY <1>2, <1>3, <2>1 DEF DaemonInv, Told
  <2>3. CASE op'[o].at = "idle"
    BY <1>2, <2>1, <2>2, <2>3, CommandMoves DEF CommandInv
  <2>4. CASE op'[o].at # "idle"
    <3>1. /\ op'[o].at \in {"spawning", "unlinking"}
          /\ op'[o].at = "spawning" => pidfile = NoFile
          /\ pidfile \in Pids => ~Alive(pidfile)
      BY <1>4, <2>4, PidAssumption DEF CheckPid, Step
    <3>2. \A d \in Pids : pidfile # d \/ ~Daemon(d)
      BY <3>1, PidAssumption DEF Alive, Daemon
    <3>3. NobodyHome
      BY <1>3, <2>1, <3>2 DEF CommandInv, DaemonInv, Daemons
    <3>4. CommandInv(o)'
      BY <2>1, <3>1, <3>3 DEF CommandInv, NobodyHome, Daemons, Daemon
    <3> QED BY <1>2, <2>1, <2>2, <3>4, CommandMoves
  <2> QED BY <2>3, <2>4
<1>5. CASE UnlinkStalePid(o)
  <2>1. UNCHANGED <<main, sig, sock>> /\ pidfile' = NoFile /\ op'[o].at = "spawning"
        /\ \A a \in Ops : a # o => op'[a] = op[a]
    BY <1>5 DEF UnlinkStalePid, Step
  <2>2. NobodyHome
    BY <1>3, <1>5 DEF UnlinkStalePid, CommandInv
  <2>3. \A d \in Pids : DaemonInv(d)'
    BY <2>1, <2>2, NoDaemon DEF NobodyHome, DaemonInv, Booting
  <2>4. CommandInv(o)'
    BY <2>1, <2>2 DEF CommandInv, NobodyHome, Daemons, Daemon
  <2> QED BY <1>2, <2>1, <2>3, <2>4, CommandMoves
<1>6. CASE SpawnChild(o)
  <2>1. NobodyHome /\ pidfile = NoFile
    BY <1>3, <1>6 DEF SpawnChild, CommandInv
  <2>2. \A e \in Pids : main[e] = "free" /\ sig[e] = "default"
    BY <2>1, NoDaemon DEF NobodyHome
  <2>3. PICK d \in Pids : /\ main' = [main EXCEPT ![d] = "booting"]
                          /\ op' = [op EXCEPT ![o].at = "waiting", ![o].pid = d]
    BY <1>6 DEF SpawnChild, Advance
  <2>4. UNCHANGED <<sig, pidfile, sock>>
    BY <1>6 DEF SpawnChild
  <2>5. op'[o].at = "waiting" /\ op'[o].pid = d /\ \A a \in Ops : a # o => op'[a] = op[a]
    BY <2>3
  <2>6. Daemons' = {d} /\ ~Told(d)'
    BY <2>2, <2>3, <2>4 DEF Daemons, Daemon, Told
  <2>7. \A e \in Pids : DaemonInv(e)'
    BY <2>1, <2>2, <2>3, <2>4, <2>5, <2>6 DEF DaemonInv, Booting, NobodyHome
  <2>8. \A a \in Ops : CommandInv(a)'
    BY <1>2, <2>5, <2>6 DEF CommandInv
  <2> QED BY <1>2, <2>5, <2>6, <2>7, <2>8 DEF CarefulInv, AtMostOneDaemon, OneCommand
<1>7. CASE SpawnFails(o)
  <2>1. UNCHANGED <<main, sig, pidfile, sock>> /\ op'[o].at = "idle" /\ op[o].at = "spawning"
        /\ \A a \in Ops : a # o => op'[a] = op[a]
    BY <1>7 DEF SpawnFails, Return
  <2>2. \A d \in Pids : DaemonInv(d)'
    BY <1>2, <1>3, <2>1 DEF DaemonInv, Told
  <2> QED BY <1>2, <2>1, <2>2, CommandMoves DEF CommandInv
<1>8. CASE Started(o)
  <2>1. UNCHANGED <<main, sig, pidfile, sock>> /\ op'[o].at = "idle" /\ op[o].at = "waiting"
        /\ (sock # NoFile \/ ~Daemon(op[o].pid))
        /\ \A a \in Ops : a # o => op'[a] = op[a]
    BY <1>8 DEF Started, Return
  <2>2. \A d \in Pids : main[d] \notin Booting
    BY <1>3, <2>1 DEF CommandInv, DaemonInv, Daemons, Daemon, Booting
  <2>3. \A d \in Pids : DaemonInv(d)'
    BY <1>3, <2>1, <2>2 DEF DaemonInv, Told
  <2> QED BY <1>2, <2>1, <2>3, CommandMoves DEF CommandInv
<1>9. CASE StopUnlinksPid(o)
  <2>1. UNCHANGED <<main, sig, sock>> /\ pidfile' = NoFile /\ op'[o].at = "idle"
        /\ op[o].at = "stopping" /\ \A a \in Ops : a # o => op'[a] = op[a]
    BY <1>9 DEF StopUnlinksPid, Return
  <2>2. \A d \in Pids : Daemon(d) => Told(d) /\ main[d] = "serving"
    BY <1>3, <2>1 DEF CommandInv, DaemonInv, Daemons, Daemon, Booting, Mains
  <2>3. \A d \in Pids : DaemonInv(d)'
    BY <1>3, <2>1, <2>2 DEF DaemonInv, Booting, Told, Daemon
  <2> QED BY <1>2, <2>1, <2>3, CommandMoves DEF CommandInv
<1>10. CASE WaitForExit(o)
  <2>1. UNCHANGED <<main, sig, pidfile, sock>> /\ op'[o].at = "clearing_pid"
        /\ op[o].at = "stop_waiting" /\ ~Alive(op[o].pid)
        /\ \A a \in Ops : a # o => op'[a] = op[a]
    BY <1>10 DEF WaitForExit, Step
  <2>2. Daemons = {}
    BY <1>3, <2>1 DEF CommandInv, Daemons, Daemon, Alive
  <2>3. \A d \in Pids : DaemonInv(d)'
    BY <2>1, <2>2, NoDaemon DEF DaemonInv, Booting
  <2>4. CommandInv(o)'
    BY <2>1, <2>2 DEF CommandInv, Daemons, Daemon
  <2> QED BY <1>2, <2>1, <2>3, <2>4, CommandMoves
<1>11. CASE ClearPid(o) \/ ClearSock(o)
  <2>1. /\ UNCHANGED <<main, sig>>
        /\ op'[o].at = "clearing_sock" \/ (op'[o].at = "checking" /\ sock' = NoFile)
        /\ op[o].at \in {"clearing_pid", "clearing_sock"}
        /\ \A a \in Ops : a # o => op'[a] = op[a]
    BY <1>11 DEF ClearPid, ClearSock, Step
  <2>2. Daemons = {}
    BY <1>3, <2>1 DEF CommandInv
  <2>3. \A d \in Pids : DaemonInv(d)'
    BY <2>1, <2>2, NoDaemon DEF DaemonInv, Booting
  <2>4. CommandInv(o)'
    BY <2>1, <2>2 DEF CommandInv, NobodyHome, Daemons, Daemon
  <2> QED BY <1>2, <2>1, <2>3, <2>4, CommandMoves
<1> QED BY <1>4, <1>5, <1>6, <1>7, <1>8, <1>9, <1>10, <1>11 DEF OpStep

\* What is signalled when the operator is ready is the only daemon, or nothing.
LEMMA TerminateWhenReady ==
  ASSUME TypeOK, CarefulInv, Ready, pidfile \in Pids, Terminate(pidfile)
  PROVE  /\ \A e \in Pids : e # pidfile => main'[e] = "free" /\ sig'[e] = "default"
         /\ \/ main'[pidfile] = "free" /\ sig'[pidfile] = "default"
            \/ main'[pidfile] = "serving" /\ sig'[pidfile] = "caught" /\ sock = pidfile
<1> USE DEF TypeOK
<1>1. \A e \in Pids : DaemonInv(e) /\ main[e] \notin Booting
  BY DEF CarefulInv, DaemonInv, Ready, Quiet
<1>2. \A e \in Pids : Daemon(e) => main[e] = "serving" /\ ~Told(e) /\ sock = e /\ pidfile = e
  BY <1>1 DEF DaemonInv, Daemon, Booting, Mains, Ready, Daemons
<1>3. \A e \in Pids : e # pidfile => main[e] = "free" /\ sig[e] = "default"
  BY <1>1, <1>2 DEF Daemon, DaemonInv
<1>4. CASE main[pidfile] = "free"
  BY <1>1, <1>3, <1>4 DEF Terminate, Daemon, DaemonInv
<1>5. CASE main[pidfile] # "free"
  <2>1. Daemon(pidfile) /\ main[pidfile] = "serving" /\ sock = pidfile
        /\ sig[pidfile] \in {"default", "armed"}
    BY <1>1, <1>2, <1>5 DEF Daemon, DaemonInv, Told, Sigs
  <2>2. CASE sig[pidfile] = "default"
    BY <1>3, <2>1, <2>2 DEF Terminate, Gone, Daemon
  <2>3. CASE sig[pidfile] = "armed"
    BY <1>3, <2>1, <2>3 DEF Terminate, Daemon
  <2> QED BY <2>1, <2>2, <2>3
<1> QED BY <1>4, <1>5

LEMMA CarefulCommandKeeps ==
  ASSUME TypeOK, CarefulInv, NEW o \in Ops, CarefulCommand(o)
  PROVE  CarefulInv'
<1> USE DEF TypeOK
<1>1. \A a \in Ops : op[a].at = "idle"
  BY DEF CarefulCommand, Launch, Replace, Ready, Quiet
<1>2. \A d \in Pids : DaemonInv(d)
  BY DEF CarefulInv
<1>3. \A d \in Pids : Daemon(d) => main[d] = "serving" /\ ~Told(d) /\ sock = d /\ pidfile = d
  BY <1>1, <1>2 DEF DaemonInv, Daemon, Booting, Mains, CarefulCommand, Launch, Replace, Ready, Daemons
<1>4. NoStaleSocket => NobodyHome \/ \E d \in Daemons : main[d] = "serving" /\ ~Told(d)
  BY <1>2, <1>3 DEF NoStaleSocket, NobodyHome, Daemons, Daemon, Alive, DaemonInv
<1>5. ASSUME UNCHANGED <<main, sig, pidfile, sock>>,
             op'[o].at \in {"idle", "checking", "clearing_pid"},
             \A a \in Ops : a # o => op'[a] = op[a],
             op'[o].at = "checking" => NoStaleSocket,
             op'[o].at = "clearing_pid" => pidfile = Blank
      PROVE  CarefulInv'
  <2>1. \A d \in Pids : DaemonInv(d)'
    BY <1>1, <1>2, <1>5 DEF DaemonInv, Told
  <2>2. pidfile = Blank => Daemons = {}
    BY <1>3, PidAssumption DEF Daemons
  <2>3. CommandInv(o)'
    BY <1>4, <1>5, <2>2 DEF CommandInv, NobodyHome, Daemons, Daemon, Told
  <2> QED BY <1>1, <1>5, <2>1, <2>3, CommandMoves
<1>6. ASSUME pidfile \in Pids, Terminate(pidfile), UNCHANGED <<pidfile, sock>>,
             NEW s \in {"stopping", "stop_waiting"},
             op' = [op EXCEPT ![o] = [at |-> s, pid |-> pidfile]]
      PROVE  CarefulInv'
  <2>1. Ready
    BY DEF CarefulCommand, Launch, Replace
  <2>2. /\ \A e \in Pids : e # pidfile => main'[e] = "free" /\ sig'[e] = "default"
        /\ \/ main'[pidfile] = "free" /\ sig'[pidfile] = "default"
           \/ main'[pidfile] = "serving" /\ sig'[pidfile] = "caught" /\ sock = pidfile
    BY <1>6, <2>1, TerminateWhenReady
  <2>3. \A d \in Pids : DaemonInv(d)'
    BY <1>6, <2>2 DEF DaemonInv, Booting, Told
  <2>4. Daemons' \subseteq {pidfile} /\ \A d \in Daemons' : d = pidfile /\ Told(d)'
    BY <1>6, <2>2 DEF Daemons, Daemon, Told
  <2>5. op'[o].at = s /\ op'[o].pid = pidfile /\ \A a \in Ops : a # o => op'[a] = op[a]
    BY <1>6
  <2>6. \A a \in Ops : CommandInv(a)'
    BY <1>1, <1>6, <2>4, <2>5 DEF CommandInv
  <2> QED BY <1>1, <2>3, <2>4, <2>5, <2>6 DEF CarefulInv, AtMostOneDaemon, OneCommand
<1>7. CASE NoStaleSocket /\ Start(o)
  BY <1>5, <1>7 DEF Start
<1>8. CASE Stop(o)
  <2>1. CASE pidfile \in {NoFile, Blank}
    BY <1>5, <1>8, <2>1, PidAssumption DEF Stop, Return
  <2>2. CASE pidfile \in Pids
    BY <1>6, <1>8, <2>2, PidAssumption DEF Stop
  <2> QED BY <2>1, <2>2
<1>9. CASE (NoStaleSocket \/ pidfile # NoFile) /\ Restart(o)
  <2>1. CASE pidfile = NoFile
    BY <1>5, <1>9, <2>1, PidAssumption DEF Restart
  <2>2. CASE pidfile = Blank
    BY <1>5, <1>9, <2>2, PidAssumption DEF Restart
  <2>3. CASE pidfile \in Pids
    BY <1>6, <1>9, <2>3, PidAssumption DEF Restart
  <2> QED BY <2>1, <2>2, <2>3
<1> QED BY <1>7, <1>8, <1>9 DEF CarefulCommand, Launch, Replace

LEMMA CarefulIsNext ==
  ASSUME [CarefulNext]_vars
  PROVE  [Next]_vars
BY DEF CarefulNext, Next, TimelyFault, CarefulCommand, Launch, Replace

LEMMA CarefulInductive ==
  /\ Init => CarefulInv
  /\ Patient /\ TypeOK /\ CarefulInv /\ [CarefulNext]_vars => TypeOK' /\ CarefulInv'
<1>1. Init => CarefulInv
  BY DEF Init, CarefulInv, AtMostOneDaemon, OneCommand, DaemonInv, CommandInv, Daemons, Daemon,
         Booting
<1>2. ASSUME Patient, TypeOK, CarefulInv, [CarefulNext]_vars PROVE TypeOK' /\ CarefulInv'
  <2>1. TypeOK'
    BY <1>2, CarefulIsNext, TypeInductive
  <2>2. CASE UNCHANGED vars
    <3>1. Daemons' = Daemons /\ \A d \in Pids : Told(d)' <=> Told(d)
      BY <2>2 DEF vars, Daemons, Daemon, Told
    <3>2. \A d \in Pids : DaemonInv(d)'
      BY <1>2, <2>2, <3>1 DEF vars, CarefulInv, DaemonInv
    <3>3. \A o \in Ops : CommandInv(o)'
      BY <1>2, <2>2, <3>1 DEF vars, CarefulInv, CommandInv, NobodyHome, Daemons
    <3> QED BY <1>2, <2>1, <2>2, <3>1, <3>2, <3>3 DEF vars, CarefulInv, AtMostOneDaemon, OneCommand
  <2>3. ASSUME NEW d \in Pids, MainStep(d) \/ HandlerStep(d) \/ TimelyFault(d)
        PROVE  CarefulInv'
    BY <1>2, <2>3, MainStepKeeps, HandlerStepKeeps, FaultKeeps
  <2>4. ASSUME NEW o \in Ops, OpStep(o) \/ CarefulCommand(o)
        PROVE  CarefulInv'
    BY <1>2, <2>4, OpStepKeeps, CarefulCommandKeeps
  <2> QED BY <1>2, <2>1, <2>2, <2>3, <2>4 DEF CarefulNext
<1> QED BY <1>1, <1>2

\* Between two commands the daemon that there is boots no more.
LEMMA CarefulImplies ==
  ASSUME TypeOK, CarefulInv
  PROVE  AtMostOneDaemon /\ NoOrphan
<1>1. ASSUME Quiet, NEW d \in Daemons, ~Told(d)
      PROVE  main[d] = "serving" /\ sock = d /\ pidfile = d
  BY <1>1 DEF TypeOK, Mains, Quiet, CarefulInv, DaemonInv, Booting, Daemons, Daemon
<1> QED BY <1>1 DEF CarefulInv, NoOrphan

\* With a careful operator whose commands wait long enough, there is one daemon
\* at most, through starts, stops, restarts, crashes and boots that fail.
THEOREM OneDaemon ==
  ASSUME Patient
  PROVE  CarefulSpec => []AtMostOneDaemon
BY TypeInductive, CarefulInductive, CarefulImplies, PTL DEF CarefulSpec

\* And between two commands it answers on the socket and is named by the pid
\* file, unless it was told to exit.
THEOREM NoneOrphaned ==
  ASSUME Patient
  PROVE  CarefulSpec => []NoOrphan
BY TypeInductive, CarefulInductive, CarefulImplies, PTL DEF CarefulSpec

=============================================================================
