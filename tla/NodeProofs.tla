----------------------------- MODULE NodeProofs -----------------------------
(***************************************************************************)
(* Theorems of module Node, for any number of processes, terminals, peers, *)
(* tokens and services.                                                    *)
(*                                                                         *)
(* A node is a careful operator's Lifecycle and a PeerConfig without       *)
(* faults, side by side: every step is a step, or a stutter, of each.  So  *)
(* their invariants, proved in LifecycleProofs and PeerConfigProofs, hold  *)
(* of a node.  What the node adds needs both: that a daemon reads the      *)
(* files when there is no other, and that the operator's restart finds the *)
(* one there is.                                                           *)
(***************************************************************************)
EXTENDS Node, TLAPS

LifeP == INSTANCE LifecycleProofs WITH Patient <- TRUE, Foreign <- FALSE

PeerP == INSTANCE PeerConfigProofs WITH Clients <- Ops, Faults <- FALSE, daemon <- Status

(***************************************************************************)
(* The instances of Node and of the proofs are the same.                   *)
(***************************************************************************)
LEMMA SameLife ==
  /\ Life!Init <=> LifeP!Init
  /\ Life!TypeOK <=> LifeP!TypeOK
  /\ [Life!CarefulNext]_life <=> [LifeP!CarefulNext]_LifeP!vars
  /\ Life!AtMostOneDaemon <=> LifeP!AtMostOneDaemon
  /\ Life!NoOrphan <=> LifeP!NoOrphan
<1> USE DEF Life!Daemons, LifeP!Daemons, Life!Daemon, LifeP!Daemon, Life!Told, LifeP!Told,
            Life!Quiet, LifeP!Quiet
<1>1. Life!Init <=> LifeP!Init
  BY DEF Life!Init, LifeP!Init
<1>2. Life!TypeOK <=> LifeP!TypeOK
  BY DEF Life!TypeOK, LifeP!TypeOK, Life!Mains, LifeP!Mains, Life!Sigs, LifeP!Sigs,
         Life!Steps, LifeP!Steps
<1>3. Life!AtMostOneDaemon <=> LifeP!AtMostOneDaemon
  BY DEF Life!AtMostOneDaemon, LifeP!AtMostOneDaemon
<1>4. Life!NoOrphan <=> LifeP!NoOrphan
  BY DEF Life!NoOrphan, LifeP!NoOrphan
<1>5. ASSUME NEW d
      PROVE /\ Life!MainStep(d) <=> LifeP!MainStep(d)
            /\ Life!HandlerStep(d) <=> LifeP!HandlerStep(d)
            /\ Life!TimelyFault(d) <=> LifeP!TimelyFault(d)
            /\ Life!Terminate(d) <=> LifeP!Terminate(d)
  BY DEF Life!MainStep, LifeP!MainStep, Life!HandlerStep, LifeP!HandlerStep, Life!TimelyFault,
         LifeP!TimelyFault, Life!Terminate, LifeP!Terminate, Life!TruncatePid, LifeP!TruncatePid,
         Life!WritePid, LifeP!WritePid, Life!SpawnHandler, LifeP!SpawnHandler, Life!ClearSocket,
         LifeP!ClearSocket, Life!Bind, LifeP!Bind, Life!BindFails, LifeP!BindFails,
         Life!Arm, LifeP!Arm, Life!RemovePid, LifeP!RemovePid, Life!RemoveSocket, LifeP!RemoveSocket,
         Life!ExitProcess, LifeP!ExitProcess, Life!BootError, LifeP!BootError, Life!Crash, LifeP!Crash,
         Life!Advance, LifeP!Advance, Life!Gone, LifeP!Gone
<1>6. ASSUME NEW o
      PROVE Life!OpStep(o) <=> LifeP!OpStep(o)
  BY DEF Life!OpStep, LifeP!OpStep, Life!CheckPid, LifeP!CheckPid, Life!UnlinkStalePid,
         LifeP!UnlinkStalePid, Life!SpawnChild, LifeP!SpawnChild, Life!SpawnFails, LifeP!SpawnFails,
         Life!Started, LifeP!Started, Life!StopUnlinksPid, LifeP!StopUnlinksPid, Life!WaitForExit,
         LifeP!WaitForExit, Life!ClearPid, LifeP!ClearPid, Life!ClearSock, LifeP!ClearSock,
         Life!Step, LifeP!Step, Life!Return, LifeP!Return, Life!Alive, LifeP!Alive,
         Life!Advance, LifeP!Advance
<1>7. ASSUME NEW o
      PROVE Life!CarefulCommand(o) <=> LifeP!CarefulCommand(o)
  BY <1>5 DEF Life!CarefulCommand, LifeP!CarefulCommand, Life!Launch, LifeP!Launch,
         Life!Replace, LifeP!Replace, Life!Ready, LifeP!Ready,
         Life!NoStaleSocket, LifeP!NoStaleSocket, Life!Start, LifeP!Start, Life!Stop, LifeP!Stop,
         Life!Restart, LifeP!Restart, Life!Return, LifeP!Return, Life!Alive, LifeP!Alive
<1>8. [Life!CarefulNext]_life <=> [LifeP!CarefulNext]_LifeP!vars
  BY <1>5, <1>6, <1>7 DEF Life!CarefulNext, LifeP!CarefulNext, life, LifeP!vars
<1> QED BY <1>1, <1>2, <1>3, <1>4, <1>8

LEMMA SamePeer ==
  /\ Peer!Init <=> PeerP!Init
  /\ Peer!TypeOK <=> PeerP!TypeOK
  /\ [Peer!Next]_<<config, Status>> <=> [PeerP!Next]_PeerP!vars
  /\ Peer!EditsStick <=> PeerP!EditsStick
  /\ Peer!OnlyConfiguredConnect <=> PeerP!OnlyConfiguredConnect
<1>1. /\ Peer!Init <=> PeerP!Init
      /\ Peer!TypeOK <=> PeerP!TypeOK
      /\ Peer!EditsStick <=> PeerP!EditsStick
      /\ Peer!OnlyConfiguredConnect <=> PeerP!OnlyConfiguredConnect
  BY DEF Peer!Init, PeerP!Init, Peer!TypeOK, PeerP!TypeOK, Peer!Registry, PeerP!Registry,
         Peer!Entry, PeerP!Entry, Peer!Files, PeerP!Files, Peer!NoPeers, PeerP!NoPeers,
         Peer!Command, PeerP!Command, Peer!Steps, PeerP!Steps, Peer!Idle, PeerP!Idle,
         Peer!EditsStick, PeerP!EditsStick, Peer!OnlyConfiguredConnect, PeerP!OnlyConfiguredConnect, Peer!At,
         PeerP!At, Peer!Loadable, PeerP!Loadable, Peer!Enabled, PeerP!Enabled, Peer!Known,
         PeerP!Known
<1>2. /\ Peer!Boot <=> PeerP!Boot
      /\ Peer!Listen <=> PeerP!Listen
      /\ Peer!Exit <=> PeerP!Exit
  BY DEF Peer!Boot, PeerP!Boot, Peer!Listen, PeerP!Listen, Peer!Exit, PeerP!Exit,
         Peer!Interruptible, PeerP!Interruptible, Peer!Loadable, PeerP!Loadable, Peer!Registry,
         PeerP!Registry, Peer!Entry, PeerP!Entry, Peer!At, PeerP!At, Peer!Waiting,
         PeerP!Waiting, Peer!NoteSurvivors, PeerP!NoteSurvivors, Peer!DaemonCut,
         PeerP!DaemonCut, Peer!Cut, PeerP!Cut, Peer!Known, PeerP!Known, Peer!NewEntry,
         PeerP!NewEntry, Peer!NoPeers, PeerP!NoPeers
<1>3. ASSUME NEW c, NEW kind, NEW p, NEW tok
      PROVE  Peer!Issue(c, kind, p, tok) <=> PeerP!Issue(c, kind, p, tok)
  BY DEF Peer!Issue, PeerP!Issue, Peer!At, PeerP!At, Peer!NoPeers, PeerP!NoPeers
<1>4. ASSUME NEW c
      PROVE  Peer!Ask(c) <=> PeerP!Ask(c)
  BY DEF Peer!Ask, PeerP!Ask, Peer!NotRunning, PeerP!NotRunning, Peer!BadRequest,
         PeerP!BadRequest, Peer!Adopt, PeerP!Adopt, Peer!RemoveUnknown, PeerP!RemoveUnknown,
         Peer!Add, PeerP!Add, Peer!Remove, PeerP!Remove, Peer!Known, PeerP!Known,
         Peer!NewEntry, PeerP!NewEntry, Peer!At, PeerP!At, Peer!Go, PeerP!Go
<1>5. ASSUME NEW c
      PROVE  Peer!Proceed(c) <=> PeerP!Proceed(c)
  BY DEF Peer!Proceed, PeerP!Proceed, Peer!SaveOpens, PeerP!SaveOpens, Peer!SaveWrites,
         PeerP!SaveWrites, Peer!Reply, PeerP!Reply, Peer!Load, PeerP!Load, Peer!LoadRefused, PeerP!LoadRefused,
         Peer!Open, PeerP!Open, Peer!Write, PeerP!Write, Peer!Overlay, PeerP!Overlay,
         Peer!Report, PeerP!Report, Peer!Outcome, PeerP!Outcome, Peer!Registry, PeerP!Registry,
         Peer!Entry, PeerP!Entry, Peer!Loadable, PeerP!Loadable, Peer!SetEnabled,
         PeerP!SetEnabled, Peer!NoPeers, PeerP!NoPeers, Peer!Add, PeerP!Add, Peer!Remove,
         PeerP!Remove, Peer!Known, PeerP!Known, Peer!NewEntry, PeerP!NewEntry, Peer!At,
         PeerP!At, Peer!Go, PeerP!Go,
         Peer!End, PeerP!End, Peer!Idle, PeerP!Idle
<1>6. ASSUME NEW c
      PROVE  (Peer!SaveFails(c) <=> PeerP!SaveFails(c)) /\ (Peer!Kill(c) <=> PeerP!Kill(c))
  BY DEF Peer!SaveFails, PeerP!SaveFails, Peer!Kill, PeerP!Kill, Peer!Cut, PeerP!Cut,
         Peer!Registry, PeerP!Registry, Peer!Entry, PeerP!Entry, Peer!NoPeers, PeerP!NoPeers,
         Peer!Known, PeerP!Known, Peer!NewEntry, PeerP!NewEntry, Peer!At, PeerP!At, Peer!Go,
         PeerP!Go, Peer!End, PeerP!End, Peer!Idle, PeerP!Idle, Peer!Waiting, PeerP!Waiting
<1>7. Peer!Next <=> PeerP!Next
  BY <1>2, <1>3, <1>4, <1>5, <1>6 DEF Peer!Next, PeerP!Next
<1> QED BY <1>1, <1>7 DEF config, PeerP!vars

(***************************************************************************)
(* A node is a Lifecycle and a PeerConfig.                                 *)
(***************************************************************************)
LEMMA StepIsLifeStep ==
  ASSUME [Next]_vars
  PROVE  [Life!CarefulNext]_life
BY DEF Next, vars, MainStep, HandlerStep, Fault, OpStep, PeerStep, StartDaemon, ReplaceDaemon,
       EditPeer, AddService, RemoveService, Life!CarefulNext, Life!CarefulCommand

LEMMA SameStatus ==
  ASSUME UNCHANGED life
  PROVE  Status' = Status
BY DEF life, Status

LEMMA StepIsPeerStep ==
  ASSUME [Next]_vars
  PROVE  [Peer!Next]_<<config, Status>>
<1>1. ASSUME Follow PROVE [Peer!Next]_<<config, Status>>
  BY <1>1 DEF Follow, Peer!Next
<1>2. ASSUME NEW d \in Pids, MainStep(d) \/ HandlerStep(d) \/ Fault(d) PROVE Follow
  BY <1>2 DEF MainStep, HandlerStep, Fault
<1>3. ASSUME NEW o \in Ops, OpStep(o) \/ StartDaemon(o) \/ ReplaceDaemon(o) PROVE Follow
  BY <1>3 DEF OpStep, StartDaemon, ReplaceDaemon
<1>4. ASSUME NEW o \in Ops, PeerStep(o) \/ EditPeer(o) PROVE Peer!Next
  BY <1>4 DEF PeerStep, EditPeer, Peer!Next
<1>5. CASE AddService \/ RemoveService \/ UNCHANGED vars
  BY <1>5, SameStatus DEF AddService, RemoveService, vars
<1> QED BY <1>1, <1>2, <1>3, <1>4, <1>5 DEF Next

\* The commands of a node start and stop its daemon as those of Lifecycle do, in
\* the hands of a careful operator.
THEOREM ImplementsLifecycle == Spec => Life!CarefulSpec
<1>1. Init => Life!Init
  BY DEF Init
<1> QED BY <1>1, StepIsLifeStep, PTL DEF Spec, Life!CarefulSpec, life, Life!vars

\* The rest of the node, which start, stop and crashes reach through the files a
\* daemon reads and the socket it binds, is a PeerConfig whose daemon is the one
\* that Status finds.
THEOREM ImplementsPeerConfig == Spec => Peer!Spec
<1>1. Init => Peer!Init
  BY DEF Init
<1>2. ASSUME [Next]_vars PROVE [Peer!Next]_Peer!vars
  BY <1>2, StepIsPeerStep DEF config, Peer!vars
<1> QED BY <1>1, <1>2, PTL DEF Spec, Peer!Spec

(***************************************************************************)
(* The invariant: those of both parts, that one command edits the peers at *)
(* a time, as SerialInv of PeerConfigProofs supposes, and what is known of *)
(* the services: unless they were edited behind its back, a daemon that    *)
(* was not told to exit has the ones of the file.                          *)
(***************************************************************************)
\* Process d has read the files.
HasRead(d) == main[d] \in {"naming", "named", "spawned", "cleared", "serving"}

ServiceInv ==
  /\ services \in Catalog /\ advertised \in Catalog
  /\ behind \in BOOLEAN
  /\ behind \/ \A d \in Pids : HasRead(d) /\ ~LifeP!Told(d) => advertised = services

NodeInv ==
  /\ LifeP!TypeOK /\ LifeP!CarefulInv
  /\ PeerP!TypeOK /\ PeerP!OneBusy /\ PeerP!SerialInv
  /\ ServiceInv

\* LifecycleProofs and PeerConfigProofs, of the parts of a node.
LEMMA LifeInductive ==
  /\ Life!Init => LifeP!TypeOK /\ LifeP!CarefulInv
  /\ LifeP!TypeOK /\ LifeP!CarefulInv /\ [Life!CarefulNext]_life
     => LifeP!TypeOK' /\ LifeP!CarefulInv'
<1>1. LifeP!Init => LifeP!TypeOK
  BY LifeP!TypeInductive, PidAssumption, CmdAssumption, SwitchAssumption
<1>2. /\ LifeP!Init => LifeP!CarefulInv
      /\ LifeP!TypeOK /\ LifeP!CarefulInv /\ [LifeP!CarefulNext]_LifeP!vars
         => LifeP!TypeOK' /\ LifeP!CarefulInv'
  BY LifeP!CarefulInductive, PidAssumption, CmdAssumption, SwitchAssumption
<1> QED BY <1>1, <1>2, SameLife

LEMMA PeerAssumptions ==
  /\ Absent \notin PeerP!Entry
  /\ NoClient \notin Ops
  /\ Kinds \subseteq {"add", "remove", "enable", "disable"}
  /\ FALSE \in BOOLEAN
  /\ Empty \notin PeerP!Registry /\ Corrupt \notin PeerP!Registry /\ Empty # Corrupt
BY AbsentAssumption, OpAssumption, KindAssumption, FileAssumption
   DEF Entry, Registry, PeerP!Entry, PeerP!Registry

LEMMA PeerInductive ==
  /\ Peer!Init => PeerP!TypeOK /\ PeerP!SerialInv
  /\ PeerP!TypeOK /\ [Peer!Next]_<<config, Status>> => PeerP!TypeOK'
  /\ /\ PeerP!TypeOK /\ PeerP!SerialInv /\ PeerP!OneBusy /\ PeerP!OneBusy'
     /\ [Peer!Next]_<<config, Status>>
     => PeerP!SerialInv'
<1>1. /\ PeerP!Init => PeerP!TypeOK
      /\ PeerP!TypeOK /\ [PeerP!Next]_PeerP!vars => PeerP!TypeOK'
  BY PeerP!TypeInductive, PeerAssumptions
<1>2. /\ PeerP!Init => PeerP!SerialInv
      /\ /\ PeerP!TypeOK /\ PeerP!SerialInv /\ PeerP!OneBusy /\ PeerP!OneBusy'
         /\ [PeerP!Next]_PeerP!vars
         => PeerP!SerialInv'
  BY PeerP!SerialInductive, PeerAssumptions
<1> QED BY <1>1, <1>2, SamePeer

(***************************************************************************)
(* One command edits the peers at a time.                                  *)
(***************************************************************************)
\* A request or an edit moves the command it belongs to, and starts none.
LEMMA PeerStepMovesOne ==
  ASSUME PeerP!TypeOK, NEW c \in Ops, Peer!Ask(c) \/ Peer!Proceed(c)
  PROVE  client[c].at # "idle" /\ \A b \in Ops : b # c => client'[b] = client[b]
<1>1. \/ \E s \in PeerP!Steps : Peer!Go(c, s)
      \/ Peer!End(c)
      \/ Peer!Load(c)
  BY DEF Peer!Ask, Peer!NotRunning, Peer!BadRequest, Peer!Adopt, Peer!RemoveUnknown,
         Peer!Proceed, Peer!SaveOpens, Peer!SaveWrites, Peer!Reply, Peer!LoadRefused,
         Peer!Open, Peer!Write, PeerP!Steps
<1>2. \A b \in Ops : b # c => client'[b] = client[b]
  BY <1>1 DEF Peer!Go, Peer!End, Peer!Load, PeerP!TypeOK
<1>3. client[c].at # "idle"
  BY DEF Peer!Ask, Peer!NotRunning, Peer!BadRequest, Peer!Adopt, Peer!RemoveUnknown,
         Peer!Proceed, Peer!SaveOpens, Peer!SaveWrites, Peer!Reply, Peer!Load,
         Peer!LoadRefused, Peer!Open, Peer!Write, Peer!At
<1> QED BY <1>2, <1>3

\* What the daemon goes through leaves the commands as they are: when it exits,
\* none is under way.
LEMMA FollowKeepsClients ==
  ASSUME PeerP!TypeOK, Follow
  PROVE  client' = client
<1>1. CASE Peer!Exit
  <2>1. \A c \in Ops : client[c].at = "idle"
    BY <1>1 DEF Peer!Exit, Peer!Interruptible, Peer!At
  <2>2. PICK lost \in SUBSET {c \in Ops : client[c].at = "answered"} :
          client' = [c \in Ops |->
                      IF client[c].at \in Peer!Waiting \/ c \in lost
                      THEN [client[c] EXCEPT !.at = "loading"] ELSE client[c]]
    BY <1>1 DEF Peer!Exit, Peer!At
  <2>3. \A c \in Ops : client'[c] = client[c]
    BY <2>1, <2>2 DEF Peer!Waiting
  <2> QED BY <2>2, <2>3 DEF PeerP!TypeOK
<1> QED BY <1>1 DEF Follow, config, Peer!Boot, Peer!Listen

LEMMA OneBusyKept ==
  ASSUME PeerP!TypeOK, PeerP!OneBusy, [Next]_vars
  PROVE  PeerP!OneBusy'
<1> USE DEF PeerP!OneBusy, PeerP!At
<1>1. CASE client' = client
  BY <1>1
<1>2. ASSUME NEW o \in Ops, PeerStep(o) PROVE PeerP!OneBusy'
  BY <1>2, PeerStepMovesOne DEF PeerStep
<1>3. ASSUME NEW o \in Ops, EditPeer(o) PROVE PeerP!OneBusy'
  BY <1>3 DEF EditPeer, Ready, Peer!Issue, PeerP!TypeOK
<1>4. CASE \E d \in Pids : MainStep(d) \/ HandlerStep(d) \/ Fault(d)
  BY <1>1, <1>4, FollowKeepsClients DEF MainStep, HandlerStep, Fault
<1>5. CASE \E o \in Ops : OpStep(o) \/ StartDaemon(o) \/ ReplaceDaemon(o)
  BY <1>1, <1>5, FollowKeepsClients DEF OpStep, StartDaemon, ReplaceDaemon
<1>6. CASE AddService \/ RemoveService \/ UNCHANGED vars
  BY <1>1, <1>6 DEF AddService, RemoveService, vars, config
<1> QED BY <1>2, <1>3, <1>4, <1>5, <1>6 DEF Next

(***************************************************************************)
(* The services of the daemon and those of the file.                       *)
(***************************************************************************)
LEMMA NodeQuiet ==
  ASSUME LifeP!TypeOK, LifeP!CarefulInv, Ready, NEW d \in Pids, HasRead(d)
  PROVE  main[d] = "serving" /\ sock = d /\ pidfile = d /\ ~LifeP!Told(d)
<1>1. LifeP!NoOrphan
  BY LifeP!CarefulImplies, PidAssumption, CmdAssumption, SwitchAssumption
<1>2. d \in LifeP!Daemons
  BY DEF HasRead, LifeP!Daemons, LifeP!Daemon
<1>3. LifeP!Quiet /\ ~LifeP!Told(d)
  BY <1>2 DEF Ready, Life!Ready, Life!Quiet, LifeP!Quiet, Life!Told, LifeP!Told, Life!Daemons,
         LifeP!Daemons, Life!Daemon, LifeP!Daemon
<1> QED BY <1>1, <1>2, <1>3 DEF LifeP!NoOrphan

\* stop and restart leave no daemon that was not told to exit.
LEMMA ReplaceTells ==
  ASSUME LifeP!TypeOK, LifeP!CarefulInv, NEW o \in Ops, ReplaceDaemon(o), NEW d \in Pids
  PROVE  HasRead(d)' => LifeP!Told(d)'
<1>1. Ready /\ LifeP!Ready /\ (LifeP!Stop(o) \/ LifeP!Restart(o))
  BY DEF ReplaceDaemon, Ready, Life!Replace, Life!Ready, LifeP!Ready, Life!Quiet, LifeP!Quiet,
         Life!Daemons, LifeP!Daemons, Life!Daemon, LifeP!Daemon, Life!Told, LifeP!Told,
         Life!Stop, LifeP!Stop, Life!Restart, LifeP!Restart, Life!Return, LifeP!Return,
         Life!Terminate, LifeP!Terminate, Life!Gone, LifeP!Gone
<1>2. CASE pidfile \in Pids
  <2>1. LifeP!Terminate(pidfile)
    BY <1>1, <1>2, PidAssumption DEF LifeP!Stop, LifeP!Restart
  <2>2. /\ \A e \in Pids : e # pidfile => main'[e] = "free" /\ sig'[e] = "default"
        /\ \/ main'[pidfile] = "free" /\ sig'[pidfile] = "default"
           \/ main'[pidfile] = "serving" /\ sig'[pidfile] = "caught" /\ sock = pidfile
    BY <1>1, <1>2, <2>1, LifeP!TerminateWhenReady, PidAssumption, CmdAssumption, SwitchAssumption
  <2> QED BY <2>2 DEF HasRead, LifeP!Told
<1>3. CASE pidfile \notin Pids
  <2>1. main' = main
    BY <1>1, <1>3 DEF LifeP!Stop, LifeP!Restart
  <2> QED BY <1>1, <1>3, <2>1, NodeQuiet DEF HasRead
<1> QED BY <1>2, <1>3

\* A process that has read the files, and was not told to exit, was in that state
\* already, or boots now.
LEMMA ReadsOnce ==
  ASSUME LifeP!TypeOK, [LifeP!CarefulNext]_LifeP!vars, NEW d \in Pids, HasRead(d)',
         ~LifeP!Told(d)'
  PROVE  main[d] = "booting" \/ (HasRead(d) /\ ~LifeP!Told(d))
<1> USE DEF LifeP!TypeOK, HasRead, LifeP!Told
<1>1. CASE UNCHANGED LifeP!vars
  BY <1>1 DEF LifeP!vars
<1>2. ASSUME NEW e \in Pids, LifeP!MainStep(e)
      PROVE  main[d] = "booting" \/ (HasRead(d) /\ ~LifeP!Told(d))
  BY <1>2 DEF LifeP!MainStep, LifeP!TruncatePid, LifeP!WritePid, LifeP!SpawnHandler,
         LifeP!ClearSocket, LifeP!Bind, LifeP!BindFails, LifeP!Advance, LifeP!Gone
<1>3. ASSUME NEW e \in Pids, LifeP!HandlerStep(e)
      PROVE  main[d] = "booting" \/ (HasRead(d) /\ ~LifeP!Told(d))
  BY <1>3 DEF LifeP!HandlerStep, LifeP!Arm, LifeP!RemovePid, LifeP!RemoveSocket,
         LifeP!ExitProcess, LifeP!Gone
<1>4. ASSUME NEW e \in Pids, LifeP!TimelyFault(e)
      PROVE  main[d] = "booting" \/ (HasRead(d) /\ ~LifeP!Told(d))
  BY <1>4 DEF LifeP!TimelyFault, LifeP!BootError, LifeP!Crash, LifeP!Gone
<1>5. ASSUME NEW o \in Ops, LifeP!OpStep(o)
      PROVE  main[d] = "booting" \/ (HasRead(d) /\ ~LifeP!Told(d))
  BY <1>5 DEF LifeP!OpStep, LifeP!CheckPid, LifeP!UnlinkStalePid, LifeP!SpawnChild,
         LifeP!SpawnFails, LifeP!Started, LifeP!StopUnlinksPid, LifeP!WaitForExit,
         LifeP!ClearPid, LifeP!ClearSock, LifeP!Advance
<1>6. ASSUME NEW p, LifeP!Terminate(p)
      PROVE  main[d] = "booting" \/ (HasRead(d) /\ ~LifeP!Told(d))
  BY <1>6 DEF LifeP!Terminate, LifeP!Gone
<1>7. ASSUME NEW o \in Ops, LifeP!CarefulCommand(o)
      PROVE  main[d] = "booting" \/ (HasRead(d) /\ ~LifeP!Told(d))
  <2>1. LifeP!Terminate(pidfile) \/ UNCHANGED <<main, sig>>
    BY <1>7 DEF LifeP!CarefulCommand, LifeP!Launch, LifeP!Replace, LifeP!Start, LifeP!Stop,
           LifeP!Restart
  <2> QED BY <1>6, <2>1
<1> QED BY <1>1, <1>2, <1>3, <1>4, <1>5, <1>7 DEF LifeP!CarefulNext

\* It boots when no other daemon is there, and so with the services of the file.
LEMMA FollowKeepsServices ==
  ASSUME LifeP!TypeOK, LifeP!CarefulInv, ServiceInv, [Next]_vars, Follow, behind' = behind
  PROVE  ServiceInv'
<1>1. services' = services /\ advertised' \in Catalog
  BY DEF Follow, ServiceInv, ReadServices, NoServices, Catalog
<1>2. ASSUME ~behind, NEW d \in Pids, HasRead(d)', ~LifeP!Told(d)'
      PROVE  advertised' = services
  <2>1. Status' # "down"
    BY <1>2 DEF HasRead, Status
  <2>2. main[d] = "booting" \/ (HasRead(d) /\ ~LifeP!Told(d))
    BY <1>2, StepIsLifeStep, SameLife, ReadsOnce
  <2>3. CASE main[d] = "booting"
    <3>1. \A e \in Pids : e # d => main[e] = "free"
      BY <2>3, LifeP!Alone, PidAssumption, CmdAssumption, SwitchAssumption DEF LifeP!Daemon
    <3>2. Status = "down"
      BY <2>3, <3>1 DEF Status
    <3> QED BY <2>1, <3>2 DEF Follow, ReadServices, Peer!Listen, Peer!Exit
  <2>4. CASE HasRead(d) /\ ~LifeP!Told(d)
    <3>1. Status # "down" /\ advertised = services
      BY <1>2, <2>4 DEF HasRead, Status, ServiceInv
    <3> QED BY <2>1, <3>1 DEF Follow, Peer!Boot, Peer!Exit
  <2> QED BY <2>2, <2>3, <2>4
<1> QED BY <1>1, <1>2 DEF ServiceInv

LEMMA ServiceInvKept ==
  ASSUME LifeP!TypeOK, LifeP!CarefulInv, ServiceInv, [Next]_vars
  PROVE  ServiceInv'
<1>1. CASE UNCHANGED <<life, service>>
  BY <1>1 DEF life, service, ServiceInv, HasRead, LifeP!Told
<1>2. CASE AddService \/ RemoveService
  <2>1. services' \in Catalog /\ advertised' = advertised /\ UNCHANGED life
    BY <1>2 DEF AddService, RemoveService, WithService, WithoutService, ServiceInv, Catalog
  <2>2. Ready /\ behind' = (behind \/ Answers)
    BY <1>2 DEF AddService, RemoveService
  <2>3. \A d \in Pids : HasRead(d) => Answers
    BY <2>2, NodeQuiet DEF Answers
  <2> QED BY <2>1, <2>2, <2>3 DEF ServiceInv, life, HasRead, LifeP!Told, Answers
<1>3. ASSUME NEW o \in Ops, ReplaceDaemon(o) PROVE ServiceInv'
  <2>1. behind' = FALSE /\ services' = services /\ advertised' \in Catalog
    BY <1>3 DEF ReplaceDaemon, Follow, ServiceInv, ReadServices, NoServices, Catalog
  <2>2. \A d \in Pids : HasRead(d)' => LifeP!Told(d)'
    BY <1>3, ReplaceTells
  <2> QED BY <2>1, <2>2 DEF ServiceInv
<1>4. CASE \E d \in Pids : MainStep(d) \/ HandlerStep(d) \/ Fault(d)
  BY <1>4, FollowKeepsServices DEF MainStep, HandlerStep, Fault
<1>5. CASE \E o \in Ops : OpStep(o) \/ StartDaemon(o)
  BY <1>5, FollowKeepsServices DEF OpStep, StartDaemon
<1>6. CASE \E o \in Ops : PeerStep(o) \/ EditPeer(o)
  BY <1>1, <1>6 DEF PeerStep, EditPeer
<1> QED BY <1>1, <1>2, <1>3, <1>4, <1>5, <1>6 DEF Next, vars

LEMMA NodeInductive ==
  /\ Init => NodeInv
  /\ NodeInv /\ [Next]_vars => NodeInv'
<1>1. ASSUME Init PROVE NodeInv
  <2>1. PeerP!OneBusy
    BY <1>1 DEF Init, Peer!Init, Peer!Idle, PeerP!OneBusy, PeerP!At
  <2>2. ServiceInv
    BY <1>1 DEF Init, Life!Init, HasRead, NoServices, Catalog, ServiceInv
  <2> QED BY <1>1, <2>1, <2>2, LifeInductive, PeerInductive DEF Init, NodeInv
<1>2. ASSUME NodeInv, [Next]_vars PROVE NodeInv'
  <2>1. LifeP!TypeOK' /\ LifeP!CarefulInv'
    BY <1>2, StepIsLifeStep, LifeInductive DEF NodeInv
  <2>2. PeerP!OneBusy'
    BY <1>2, OneBusyKept DEF NodeInv
  <2>3. PeerP!TypeOK' /\ PeerP!SerialInv'
    BY <1>2, <2>2, StepIsPeerStep, PeerInductive DEF NodeInv
  <2>4. ServiceInv'
    BY <1>2, ServiceInvKept DEF NodeInv
  <2> QED BY <2>1, <2>2, <2>3, <2>4 DEF NodeInv
<1> QED BY <1>1, <1>2

LEMMA NodeImplies ==
  ASSUME NodeInv
  PROVE  TypeOK /\ AtMostOneDaemon /\ NoOrphan /\ EditsStick /\ OnlyConfiguredConnect
<1>1. TypeOK
  BY SameLife, SamePeer DEF NodeInv, TypeOK, ServiceInv
<1>2. LifeP!AtMostOneDaemon /\ LifeP!NoOrphan
  BY LifeP!CarefulImplies, PidAssumption, CmdAssumption, SwitchAssumption DEF NodeInv
<1>3. PeerP!EditsStick /\ PeerP!OnlyConfiguredConnect
  BY PeerP!SerialImplies, PeerAssumptions DEF NodeInv
<1> QED BY <1>1, <1>2, <1>3, SameLife, SamePeer
        DEF AtMostOneDaemon, NoOrphan, EditsStick, OnlyConfiguredConnect

\* Between two commands, file and memory have what was asked for, where nothing
\* was bypassed.
LEMMA ListIsWanted ==
  ASSUME NodeInv
  PROVE  ListShowsWanted
<1> SUFFICES ASSUME Ready, NEW p \in Peers \ bypassed
             PROVE  PeerList[p] = wanted[p] /\ PeerShow(p) = wanted[p]
  BY DEF ListShowsWanted
<1>1. file[p] = wanted[p] /\ (Status # "down" => mem[p] = wanted[p])
  BY DEF Ready, NodeInv, PeerP!SerialInv, PeerP!Settled, PeerP!AsWanted, PeerP!At
<1>2. Answers => Status = "serving"
  BY DEF Answers, Status
<1> QED BY <1>1, <1>2 DEF PeerList, PeerShow

LEMMA ServicesMeet ==
  ASSUME NodeInv
  PROVE  RestartShowsServices
<1> SUFFICES ASSUME Ready, ~behind, Answers PROVE advertised = services
  BY DEF RestartShowsServices, ServiceList
<1>1. PICK d \in Pids : HasRead(d)
  BY DEF Answers, HasRead
<1>2. ~LifeP!Told(d)
  BY <1>1, NodeQuiet DEF NodeInv
<1> QED BY <1>1, <1>2 DEF NodeInv, ServiceInv

\* Type correctness; in particular what a daemon reads of either file is a
\* registry.
THEOREM TypeCorrect == Spec => []TypeOK
BY NodeInductive, NodeImplies, PTL DEF Spec

\* One node, one daemon, whatever else the operator does with the node.
THEOREM OneDaemon == Spec => []AtMostOneDaemon
BY NodeInductive, NodeImplies, PTL DEF Spec

\* Between two commands the daemon answers and can be stopped, unless it was told
\* to exit.
THEOREM NoneOrphaned == Spec => []NoOrphan
BY NodeInductive, NodeImplies, PTL DEF Spec

\* Of all peers, but those edited behind the back of a daemon that was not started
\* again since, peers.toml has what the commands asked for, over every start, stop,
\* restart and crash.
THEOREM Sticks == Spec => []EditsStick
BY NodeInductive, NodeImplies, PTL DEF Spec

\* The daemon lets nobody connect that peers.toml does not have, or has disabled
\* otherwise than behind its back.
THEOREM ConfiguredOnly == Spec => []OnlyConfiguredConnect
BY NodeInductive, NodeImplies, PTL DEF Spec

\* And of these peers, peer list and peer show print what was asked for, from the
\* daemon or the file.
THEOREM ListsWanted == Spec => []ListShowsWanted
BY NodeInductive, ListIsWanted, PTL DEF Spec

\* After a stop or a restart, whatever came in between, service list prints
\* services.toml, until it is edited under a daemon again.
THEOREM ServicesAfterRestart == Spec => []RestartShowsServices
BY NodeInductive, ServicesMeet, PTL DEF Spec

=============================================================================
