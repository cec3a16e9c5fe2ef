----------------------------- MODULE PeerConfig -----------------------------
(***************************************************************************)
(* peers.toml and everyone who writes it.                                  *)
(*                                                                         *)
(* A daemon reads the file once, when it starts, and rewrites all of it    *)
(* from memory for every peer it adds or removes.  `tailcat-node peer add` *)
(* and `peer remove` ask the daemon, and edit the file themselves when the *)
(* request fails for any reason; `peer enable` and `peer disable` always   *)
(* edit the file.  Every writer calls PeerRegistry::save                   *)
(* (src/peer/registry.rs): fs::write truncates the file and then writes    *)
(* the new text at its start, and no lock keeps two processes apart.       *)
(*                                                                         *)
(* The daemon's handlers are those of module Daemon, reduced to the two    *)
(* that change the registry, with their save in full.                      *)
(*                                                                         *)
(* Peer ids are those that a request carries as they are: module IpcWire   *)
(* has the others.                                                         *)
(***************************************************************************)
EXTENDS PeerRegistry

CONSTANTS Clients,    \* CLI processes that run at the same time
          NoClient,   \* the daemon's registry is not locked
          Kinds,      \* the peer subcommands in use
          Faults,     \* may saves fail, writers die, and the daemon start and
                      \* stop under a command?
          Empty,      \* peers.toml is there and holds nothing
          Corrupt     \* peers.toml holds text that is not a registry

ASSUME ClientAssumption == NoClient \notin Clients
ASSUME KindAssumption == Kinds \subseteq {"add", "remove", "enable", "disable"}
ASSUME FaultAssumption == Faults \in BOOLEAN
ASSUME FileAssumption == Empty \notin Registry /\ Corrupt \notin Registry /\ Empty # Corrupt

VARIABLES
  file,     \* peers.toml
  daemon,   \* has it read peers.toml, and does it listen on the socket?
  mem,      \* its registry
  lock,     \* the client whose request holds the registry for writing
  client,   \* the command each CLI process is running, if any, and how far it is
  clean,    \* history: since the daemon started, only it wrote peers.toml
  wanted,   \* history: the entry that the commands reported as done ask for
  bypassed  \* history: peers last edited in the file, behind a daemon that runs

vars == <<file, daemon, mem, lock, client, clean, wanted, bypassed>>

Files == Registry \cup {Empty, Corrupt}

\* A file that is missing reads as no peers; Init may as well have it there.
Loadable == file \in Registry

\* Process c of the CLI: asking the daemon, waiting while the daemon has the
\* request, with the answer on its way, or editing the file.
Steps == {"asking", "adopted", "truncated", "answered", "loading", "opening", "writing"}
Waiting == {"adopted", "truncated"}

Command == [at: Steps, kind: {"add", "remove", "enable", "disable"},
            peer: Peers, tok: Tokens, local: Registry]

Idle == [at |-> "idle"]

At(c) == client[c].at
Go(c, s) == client' = [client EXCEPT ![c].at = s]
End(c) == client' = [client EXCEPT ![c] = Idle]

\* The bytes of m written at offset 0 of a file that holds f.  A longer f
\* keeps its tail: text that does not parse, or peers that m does not have.
Overlay(m, f) ==
  IF f = Empty THEN {m}
  ELSE {m, Corrupt} \cup
       (IF f = Corrupt THEN {}
        ELSE {g \in Registry : \A p \in Peers :
                IF Known(m, p) THEN g[p] = m[p] ELSE g[p] \in {Absent, f[p]}})

\* A write of m that stops short: nothing, text cut where it does not parse,
\* cut between two entries, or within one before its `enabled`, which is true
\* when it is missing.
Cut(m, f) ==
  {f, Corrupt} \cup
  {g \in Registry : \A p \in Peers :
     g[p] \in {Absent, m[p]} \cup (IF Known(m, p) THEN {NewEntry(m[p].token)} ELSE {})}

\* What command k makes of the entry e of its peer.
Outcome(k, e) ==
  CASE k.kind = "add"    -> NewEntry(k.tok)
    [] k.kind = "remove" -> Absent
    [] OTHER             -> IF e = Absent THEN Absent
                            ELSE [token |-> e.token, enabled |-> k.kind = "enable"]

Report(c) ==
  wanted' = [wanted EXCEPT ![client[c].peer] = Outcome(client[c], wanted[client[c].peer])]

TypeOK ==
  /\ file \in Files
  /\ daemon \in {"down", "loaded", "serving"}
  /\ mem \in Registry
  /\ lock \in Clients \cup {NoClient}
  /\ client \in [Clients -> Command \cup {Idle}]
  /\ clean \in BOOLEAN
  /\ wanted \in Registry
  /\ bypassed \in SUBSET Peers

Init ==
  /\ file \in Registry
  /\ daemon = "down"
  /\ mem = NoPeers
  /\ lock = NoClient
  /\ client = [c \in Clients |-> Idle]
  /\ clean = FALSE
  /\ wanted = file
  /\ bypassed = {}

(***************************************************************************)
(* The daemon starts and dies.  `tailcat-node stop` is no gentler than a   *)
(* crash: the signal handler exits the process whatever its tasks are      *)
(* doing.  A client whose request dies with it gets an error and goes on   *)
(* to the file, also when only the answer is lost.  Without faults there   *)
(* is one operator, who waits for a command to end before starting or      *)
(* stopping the daemon, and for a start to end before the next command.    *)
(***************************************************************************)
Interruptible == Faults \/ \A c \in Clients : At(c) = "idle"

\* An edit that the file still has when a daemon starts is safe from then on.
NoteSurvivors == bypassed' = {p \in bypassed : Loadable => file[p] # wanted[p]}

\* A file that does not parse is no reason not to start.
BootUnparsed ==
  /\ daemon = "down"
  /\ Interruptible
  /\ daemon' = "loaded"
  /\ mem' = file
  /\ clean' = TRUE
  /\ NoteSurvivors
  /\ UNCHANGED <<file, lock, client, wanted>>

Boot ==
  /\ daemon = "down"
  /\ Interruptible
  /\ Loadable
  /\ daemon' = "loaded"
  /\ mem' = file
  /\ clean' = TRUE
  /\ NoteSurvivors
  /\ UNCHANGED <<file, lock, client, wanted>>

\* The socket is bound, some time after the file was read.
Listen ==
  /\ daemon = "loaded"
  /\ daemon' = "serving"
  /\ UNCHANGED <<file, mem, lock, client, clean, wanted, bypassed>>

\* What the death of the daemon makes of the file, if it was saving.
DaemonCut ==
  IF \E c \in Clients : At(c) = "truncated" THEN Cut(mem, file) ELSE {file}

\* The client's read loop does not take the end of the stream for an answer.
ExitUnnoticed ==
  /\ daemon # "down"
  /\ Interruptible
  /\ daemon' = "down"
  /\ lock' = NoClient
  /\ file' \in DaemonCut
  /\ client' = client
  /\ mem' = NoPeers
  /\ clean' = FALSE
  /\ UNCHANGED <<wanted, bypassed>>

\* An answer that is not in the socket yet is lost, although the work is done.
Exit ==
  /\ daemon # "down"
  /\ Interruptible
  /\ daemon' = "down"
  /\ lock' = NoClient
  /\ file' \in DaemonCut
  /\ \E lost \in SUBSET {c \in Clients : At(c) = "answered"} :
       client' = [c \in Clients |->
                   IF At(c) \in Waiting \/ c \in lost
                   THEN [client[c] EXCEPT !.at = "loading"] ELSE client[c]]
  /\ mem' = NoPeers
  /\ clean' = FALSE
  /\ UNCHANGED <<wanted, bypassed>>

(***************************************************************************)
(* `peer add` and `peer remove` try the daemon first.                      *)
(***************************************************************************)
Issue(c, kind, p, tok) ==
  /\ At(c) = "idle"
  /\ Faults \/ daemon # "loaded"
  /\ client' = [client EXCEPT ![c] =
                  [at    |-> IF kind \in {"add", "remove"} THEN "asking" ELSE "loading",
                   kind  |-> kind, peer |-> p, tok |-> tok, local |-> NoPeers]]
  /\ UNCHANGED <<file, daemon, mem, lock, clean, wanted, bypassed>>

\* The file is edited behind the back of a daemon that runs.
NotAsked(c) ==
  /\ At(c) = "asking"
  /\ Go(c, "loading")
  /\ UNCHANGED <<file, daemon, mem, lock, clean, wanted, bypassed>>

\* No socket, or nobody behind it.
NotRunning(c) ==
  /\ At(c) = "asking"
  /\ daemon # "serving"
  /\ Go(c, "loading")
  /\ UNCHANGED <<file, daemon, mem, lock, clean, wanted, bypassed>>

\* The client writes head and body apart, and the server stops reading at the
\* end of the head: when the body is not there yet, it is not seen, and the
\* answer is 400.  That is no fault, only the order in which the two run.
BadRequest(c) ==
  /\ At(c) = "asking"
  /\ daemon = "serving"
  /\ client[c].kind = "add"
  /\ Go(c, "loading")
  /\ UNCHANGED <<file, daemon, mem, lock, clean, wanted, bypassed>>

\* The write guard is dropped before the file is saved.
AdoptUnlocked(c) ==
  /\ At(c) = "asking"
  /\ daemon = "serving"
  /\ lock = NoClient
  /\ \/ /\ client[c].kind = "add"
        /\ mem' = Add(mem, client[c].peer, client[c].tok)
     \/ /\ client[c].kind = "remove"
        /\ Known(mem, client[c].peer)
        /\ mem' = Remove(mem, client[c].peer)
  /\ lock' = lock
  /\ Go(c, "adopted")
  /\ UNCHANGED <<file, daemon, clean, wanted, bypassed>>

Adopt(c) ==
  /\ At(c) = "asking"
  /\ daemon = "serving"
  /\ lock = NoClient
  /\ \/ /\ client[c].kind = "add"
        /\ mem' = Add(mem, client[c].peer, client[c].tok)
     \/ /\ client[c].kind = "remove"
        /\ Known(mem, client[c].peer)
        /\ mem' = Remove(mem, client[c].peer)
  /\ lock' = c
  /\ Go(c, "adopted")
  /\ UNCHANGED <<file, daemon, clean, wanted, bypassed>>

\* 404 is as good as done.
RemoveUnknownIsDone(c) ==
  /\ At(c) = "asking"
  /\ client[c].kind = "remove"
  /\ daemon = "serving"
  /\ lock = NoClient
  /\ ~Known(mem, client[c].peer)
  /\ End(c)
  /\ Report(c)
  /\ bypassed' = bypassed \ {client[c].peer}
  /\ UNCHANGED <<file, daemon, mem, lock, clean>>

\* 404: the client looks for the peer in the file.
RemoveUnknown(c) ==
  /\ At(c) = "asking"
  /\ client[c].kind = "remove"
  /\ daemon = "serving"
  /\ lock = NoClient
  /\ ~Known(mem, client[c].peer)
  /\ Go(c, "loading")
  /\ UNCHANGED <<file, daemon, mem, lock, clean, wanted, bypassed>>

\* registry.save(), with the write guard held.
SaveOpens(c) ==
  /\ daemon = "serving"
  /\ At(c) = "adopted"
  /\ file' = Empty
  /\ Go(c, "truncated")
  /\ UNCHANGED <<daemon, mem, lock, clean, wanted, bypassed>>

SaveWrites(c) ==
  /\ daemon = "serving"
  /\ At(c) = "truncated"
  /\ file' \in Overlay(mem, file)
  /\ lock' = NoClient
  /\ Go(c, "answered")
  /\ UNCHANGED <<daemon, mem, clean, wanted, bypassed>>

\* The client reads the answer, 201 or 200.
Reply(c) ==
  /\ At(c) = "answered"
  /\ End(c)
  /\ Report(c)
  /\ bypassed' = bypassed \ {client[c].peer}
  /\ UNCHANGED <<file, daemon, mem, lock, clean>>

\* 500, before or after the file was truncated.  The change stays in memory.
SaveFails(c) ==
  /\ Faults
  /\ daemon = "serving"
  /\ At(c) \in Waiting
  /\ file' \in IF At(c) = "truncated" THEN Cut(mem, file) ELSE {file}
  /\ lock' = NoClient
  /\ clean' = FALSE
  /\ Go(c, "loading")
  /\ UNCHANGED <<daemon, mem, wanted, bypassed>>

(***************************************************************************)
(* A CLI process edits the file: load, change, save.                       *)
(***************************************************************************)
Load(c) ==
  /\ At(c) = "loading"
  /\ Loadable
  /\ client[c].kind = "add" \/ Known(file, client[c].peer)
  /\ client' = [client EXCEPT ![c].at = "opening",
                              ![c].local =
                  CASE client[c].kind = "add"    -> Add(file, client[c].peer, client[c].tok)
                    [] client[c].kind = "remove" -> Remove(file, client[c].peer)
                    [] OTHER -> SetEnabled(file, client[c].peer, client[c].kind = "enable")]
  /\ UNCHANGED <<file, daemon, mem, lock, clean, wanted, bypassed>>

\* PeerNotFound, or a file that does not parse: an error, and nothing is done.
LoadRefused(c) ==
  /\ At(c) = "loading"
  /\ ~(Loadable /\ (client[c].kind = "add" \/ Known(file, client[c].peer)))
  /\ End(c)
  /\ UNCHANGED <<file, daemon, mem, lock, clean, wanted, bypassed>>

Open(c) ==
  /\ At(c) = "opening"
  /\ file' = Empty
  /\ clean' = FALSE
  /\ Go(c, "writing")
  /\ UNCHANGED <<daemon, mem, lock, wanted, bypassed>>

Write(c) ==
  /\ At(c) = "writing"
  /\ file' \in Overlay(client[c].local, file)
  /\ clean' = FALSE
  /\ End(c)
  /\ Report(c)
  /\ bypassed' = IF daemon # "down" THEN bypassed \cup {client[c].peer}
                 ELSE IF client[c].kind \in {"add", "remove"} THEN bypassed \ {client[c].peer}
                 ELSE bypassed
  /\ UNCHANGED <<daemon, mem, lock>>

\* The process dies, or the disk is full, before or after the truncation.
Kill(c) ==
  /\ Faults
  /\ At(c) \in {"opening", "writing"}
  /\ file' \in IF At(c) = "writing" THEN Cut(client[c].local, file) ELSE {file}
  /\ clean' = (clean /\ file' = file)
  /\ End(c)
  /\ UNCHANGED <<daemon, mem, lock, wanted, bypassed>>

Ask(c) == NotRunning(c) \/ BadRequest(c) \/ Adopt(c) \/ RemoveUnknown(c)

Proceed(c) == SaveOpens(c) \/ SaveWrites(c) \/ Reply(c)
                \/ Load(c) \/ LoadRefused(c) \/ Open(c) \/ Write(c)

Next ==
  \/ \E c \in Clients :
       \/ \E kind \in Kinds, p \in Peers, tok \in Tokens : Issue(c, kind, p, tok)
       \/ Ask(c)
       \/ Proceed(c)
       \/ SaveFails(c)
       \/ Kill(c)
  \/ Boot
  \/ Listen
  \/ Exit

Spec == Init /\ [][Next]_vars

\* Processes and handlers run, and the daemon's lock is granted in turn.
\* Nothing obliges an operator to type a command or to start the daemon.
FairSpec == Spec /\ \A c \in Clients : SF_vars(Ask(c)) /\ WF_vars(Proceed(c))

-----------------------------------------------------------------------------
(***************************************************************************)
(* Properties                                                              *)
(***************************************************************************)

\* While the daemon is the only one to write peers.toml, and no save of it was
\* cut short, the file is what it has in memory: a crash loses nothing that it
\* acknowledged, and the next daemon starts where the last one ended.
InSync == clean /\ lock = NoClient /\ daemon # "down" => file = mem

\* A request holds the registry from the change in memory to the end of the
\* save, so no two saves of the daemon ever write the file at the same time.
OneSaveAtATime ==
  \A c \in Clients : At(c) \in Waiting => daemon = "serving" /\ lock = c

\* Commands given one at a time, each reported as done, add up: peers.toml holds
\* what they asked for (README.md:34, "TOML-based peer management with
\* enable/disable").  Stated for a single client.  The code does not keep it.
CommandsStick == (\A c \in Clients : At(c) = "idle") => file = wanted

\* What it does keep: whatever a daemon has done, or was done while none ran, is
\* in the file, whichever other peers were edited behind the daemon's back, and
\* an edit made there that lasts until the next start is as good as the others.
EditsStick ==
  (\A c \in Clients : At(c) = "idle") =>
    Loadable /\ \A p \in Peers \ bypassed : file[p] = wanted[p]

\* README.md:329: peers.toml decides who may connect.  connect_peer lets a peer
\* through when its registry has it enabled; so does the file, when no command
\* is under way, unless the peer was disabled there behind the daemon's back;
\* and even then the file has the peer.
OnlyConfiguredConnect ==
  daemon = "serving" /\ (\A c \in Clients : At(c) = "idle") =>
    \A p \in Peers : Enabled(mem, p) =>
      Loadable /\ Known(file, p) /\ (Enabled(file, p) \/ p \in bypassed)

\* No command hangs: not when the daemon dies under it, not when it finds the
\* file torn by another writer.
CommandsReturn == \A c \in Clients : At(c) # "idle" ~> At(c) = "idle"

=============================================================================
