-------------------------------- MODULE Node --------------------------------
(***************************************************************************)
(* A node and its operator: the commands that start and stop the daemon    *)
(* (module Lifecycle), the ones that edit the peers (module PeerConfig),   *)
(* the ones that edit the services, and what the reading commands would    *)
(* print in between.                                                       *)
(*                                                                         *)
(* A daemon reads peers.toml and services.toml before it writes its pid    *)
(* file, answers the other commands from what it read as soon as it        *)
(* listens, and loses it when it dies; so each step of Lifecycle that      *)
(* brings a daemon to these points is also the step of PeerConfig that     *)
(* depends on it.  One registry in memory is enough as long as there is    *)
(* one daemon, which is what AtMostOneDaemon says.                         *)
(*                                                                         *)
(* The operator does one thing at a time, and is careful: modules          *)
(* Lifecycle and PeerConfig say what happens otherwise.                    *)
(***************************************************************************)
EXTENDS PeerRegistry

CONSTANTS
  Pids, NoPid, NoFile, Blank, Ops, Cmds,    \* as in module Lifecycle
  Crashes, BootFails,
  NoClient, Kinds, Empty, Corrupt,          \* as in module PeerConfig
  Services, Ports, NoPort                   \* names of services, and their ports

ASSUME PidAssumption ==
  /\ NoPid \notin Pids /\ NoFile \notin Pids /\ Blank \notin Pids
  /\ NoFile # Blank
ASSUME CmdAssumption == Cmds \subseteq {"start", "stop", "restart"}
ASSUME SwitchAssumption == {Crashes, BootFails} \subseteq BOOLEAN
ASSUME OpAssumption == NoClient \notin Ops
ASSUME KindAssumption == Kinds \subseteq {"add", "remove", "enable", "disable"}
ASSUME FileAssumption == Empty \notin Registry /\ Corrupt \notin Registry /\ Empty # Corrupt
ASSUME PortAssumption == NoPort \notin Ports

VARIABLES
  main, sig, pidfile, sock, op,             \* as in module Lifecycle
  file, mem, lock, client,                  \* as in module PeerConfig
  clean, wanted, bypassed,
  services,     \* services.toml
  advertised,   \* the services the daemon read
  behind        \* history: was services.toml edited under a daemon that no stop
                \* or restart was typed for since?

life == <<main, sig, pidfile, sock, op>>
config == <<file, mem, lock, client, clean, wanted, bypassed>>
service == <<services, advertised, behind>>
vars == <<life, config, service>>

Life == INSTANCE Lifecycle WITH Patient <- TRUE, Foreign <- FALSE

\* Has a daemon read the files, and does it listen?
Status ==
  IF \E d \in Pids : main[d] = "serving" THEN "serving"
  ELSE IF \E d \in Pids : main[d] \in {"naming", "named", "spawned", "cleared"}
  THEN "loaded" ELSE "down"

Peer == INSTANCE PeerConfig WITH Clients <- Ops, Faults <- FALSE, daemon <- Status

\* A service registry: what services.toml holds, and a daemon in memory.
Catalog == [Services -> Ports \cup {NoPort}]

NoServices == [s \in Services |-> NoPort]

\* Adding a service replaces the one of that name.
WithService(c, s, p) == [c EXCEPT ![s] = p]
WithoutService(c, s) == [c EXCEPT ![s] = NoPort]

TypeOK ==
  /\ Life!TypeOK
  /\ Peer!TypeOK
  /\ services \in Catalog /\ advertised \in Catalog
  /\ behind \in BOOLEAN

Init ==
  /\ Life!Init
  /\ Peer!Init
  /\ services \in Catalog
  /\ advertised = NoServices
  /\ behind = FALSE

-----------------------------------------------------------------------------
\* Daemon::new reads both files.
ReadServices == advertised' = services

\* What a step of Lifecycle means to the rest.
Follow ==
  /\ \/ UNCHANGED <<Status, config, advertised>>
     \/ Peer!Boot /\ ReadServices
     \/ Peer!Listen /\ UNCHANGED advertised
     \/ Peer!Exit /\ advertised' = NoServices
  /\ UNCHANGED services

MainStep(d)    == Life!MainStep(d) /\ Follow /\ UNCHANGED behind
HandlerStep(d) == Life!HandlerStep(d) /\ Follow /\ UNCHANGED behind
OpStep(o)      == Life!OpStep(o) /\ Follow /\ UNCHANGED behind

\* Nor does the daemon that listens crash under a peer command (in Peer!Exit).
Fault(d) == Life!TimelyFault(d) /\ Follow /\ UNCHANGED behind

PeerStep(o) ==
  /\ UNCHANGED <<life, service>>
  /\ Peer!Ask(o) \/ Peer!Proceed(o)

(***************************************************************************)
(* The operator of Lifecycle, who is as careful with the other commands.   *)
(***************************************************************************)
Ready == Life!Ready /\ \A o \in Ops : client[o].at = "idle"

StartDaemon(o) == Ready /\ Life!Launch(o) /\ Follow /\ UNCHANGED behind

\* stop and restart make an end of the daemon that has the services of before.
ReplaceDaemon(o) == Ready /\ Life!Replace(o) /\ Follow /\ behind' = FALSE

EditPeer(o) ==
  /\ Ready
  /\ UNCHANGED <<life, service>>
  /\ \E kind \in Kinds, p \in Peers, tok \in Tokens : Peer!Issue(o, kind, p, tok)

\* A request is answered.
Answers == \E d \in Pids : main[d] = "serving" /\ sock = d

\* service add and service remove: load, change and save the file, without a
\* word to the daemon.  With one operator nobody sees the file in between.
AddService ==
  /\ Ready
  /\ \E s \in Services, p \in Ports : services' = WithService(services, s, p)
  /\ behind' = (behind \/ Answers)
  /\ UNCHANGED <<life, config, advertised>>

RemoveService ==
  /\ Ready
  /\ \E s \in Services :
       /\ services[s] # NoPort
       /\ services' = WithoutService(services, s)
  /\ behind' = (behind \/ Answers)
  /\ UNCHANGED <<life, config, advertised>>

Next ==
  \/ \E d \in Pids : MainStep(d) \/ HandlerStep(d) \/ Fault(d)
  \/ \E o \in Ops : OpStep(o) \/ PeerStep(o) \/ EditPeer(o)
                      \/ StartDaemon(o) \/ ReplaceDaemon(o)
  \/ AddService
  \/ RemoveService

\* As in the modules composed: processes run; nobody has to type a command.
Spec ==
  /\ Init /\ [][Next]_vars
  /\ \A d \in Pids : WF_vars(MainStep(d)) /\ WF_vars(HandlerStep(d))
  /\ \A o \in Ops : WF_vars(OpStep(o)) /\ WF_vars(PeerStep(o))

-----------------------------------------------------------------------------
(***************************************************************************)
(* What the reading commands find.                                         *)
(***************************************************************************)
\* peer list: the daemon's registry, or else the file.
PeerList == IF Answers THEN mem ELSE file

\* peer show: the file also when the daemon does not know the peer.
PeerShow(p) == IF Answers /\ mem[p] # Absent THEN mem[p] ELSE file[p]

\* service list.
ServiceList == IF Answers THEN advertised ELSE services

(***************************************************************************)
(* Properties                                                              *)
(***************************************************************************)

\* One node, one daemon, through starts, stops, restarts, crashes and boots that
\* fail.
AtMostOneDaemon == Life!AtMostOneDaemon

\* Between two commands a daemon that was not told to exit answers, and can be
\* stopped; so no command ever meets a daemon that has read its files and does
\* not listen yet.
NoOrphan == Life!NoOrphan

\* What a daemon did, and what was done while none ran, is in peers.toml, over
\* every start, stop, restart and crash in between; an edit behind a daemon's back
\* is so from the next start on, if the daemon saved nothing over it.
EditsStick == Peer!EditsStick

\* The daemon lets nobody connect that peers.toml does not have, or has disabled
\* otherwise than behind its back.
OnlyConfiguredConnect == Peer!OnlyConfiguredConnect

\* And what peer list and peer show print of these peers is what was asked for,
\* whether the daemon answers or the file does.
ListShowsWanted ==
  Ready => \A p \in Peers \ bypassed : PeerList[p] = wanted[p] /\ PeerShow(p) = wanted[p]

\* The daemon is told of no edit of services.toml.  But a restart, or a stop and a
\* start, is enough for service list to show it, from whichever daemon or file
\* answers after that, crashes and failed boots included.
RestartShowsServices == Ready => behind \/ ServiceList = services

\* Whatever the operator types ends.
EveryCommandReturns ==
  \A o \in Ops : op[o].at # "idle" \/ client[o].at # "idle"
                   ~> op[o].at = "idle" /\ client[o].at = "idle"

=============================================================================
