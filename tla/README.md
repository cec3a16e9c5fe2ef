# Verification of tailcat-node

TLA+ models of `tailcat-node`, the TLC runs that check them and the TLAPS proofs
of what they show. Paths below (`src/daemon/manager.rs:160`) are paths of the
repository; `cli` stands for `src/cli/commands.rs`. `PROJECT.json` maps every
definition to the lines it models, and lists runs, mutants, findings, hazards and
theorems; its paths have one more `src/` in front.

## 1. The system

One binary. Run as `tailcat-node start --foreground` it is the **daemon**; every
other command is a short-lived **CLI process**. They share a configuration
directory and a Unix socket in it:

```
 CLI process ──── tailcat-node.sock (one HTTP-like request per connection) ──── daemon
    │  │                                                                       │   │
    │  └── state/daemon.pid, SIGTERM ──────────────────────────────────────────┘   │
    └───── config.toml, identity.key, peers.toml, services.toml ───────────────────┤
                                                                 `tailcat ping` ───┘
```

| Component | State | Operations | Talks to |
|---|---|---|---|
| IPC handlers (`ipc/server.rs`, `daemon/manager.rs`) | `peer_registry` behind an `RwLock`, `connection_table` behind another, `backend` | connect, disconnect, add, remove; read-only routes | clients, tailcat, peers.toml |
| Tailcat backend (`network/tailcat.rs`) | none | `start` (genkey), `connect` = `ping`, `disconnect` (no-op) | one process per call |
| Peer registry (`peer/registry.rs`) | `Vec<Peer>` | load, save, get, add, remove, enable, disable | peers.toml |
| peers.toml and its writers (`peer/registry.rs`, `ipc/*`, `cli`) | the file, the daemon's copy | `peer add/remove` through the daemon or on the file, `peer enable/disable` on the file | daemon |
| Lifecycle (`cli`: start, stop, restart; `ipc/server.rs`: serve) | pid file, socket, processes | start, stop, restart, boot, SIGTERM handler | signals, files |
| Initialization (`cli`: init; `identity/store.rs`, `config.rs`) | config.toml, identity.key, empty registries | init, load | start |
| IPC wire format (`ipc/server.rs`, `ipc/client.rs`) | a buffer per connection | chunked read, parse, reply | socket |
| Service registry (`service/registry.rs`) | `Vec<Service>`, services.toml | add, remove (file only), list (daemon) | daemon |
| Installer (`cli`: install…) | a temporary directory | a chain of methods | package managers, the network |
| The rest: config schema, errors, logging, output, lifecycle events | – | – | – |

### What is hard, and what must hold

* **Interleaved handlers.** A handler is suspended at every lock and while
  tailcat runs. Connects and disconnects of one peer overlap; the table must never
  show a connection nobody measured, nor an attempt nobody makes, nor may the registry
  be locked during a dial.
* **Two kinds of writers of one file.** The daemon rewrites peers.toml from memory,
  CLI processes edit it in place, `fs::write` truncates first, and nothing excludes
  two of them. What was acknowledged should be in the file, and survive a crash.
* **Retries.** A client falls back to the file on *any* error, also when the daemon
  did the work and the answer got lost.
* **Processes that find each other by two files** they create and delete without
  locks, with crashes, pid reuse, signals that come early, and waits of 5 s.
* **Partial initialization.** Four files, one after the other.
* **A hand-made protocol.** The server looks for the end of the headers and never at
  the content length; both sides cut off at 64 KiB; neither has a timeout; ids go into the
  path as they are, and come out of it up to the first blank.
* **An installer** that falls from one method to the next, works in a directory with a
  fixed name, installs the first `tailcat` it finds there, and overwrites the binary it
  replaces.

`PROJECT.json` "hazards" has these at their lines with the properties that watch
them, and says of the ones no property watches why.

## 2. Modules

| Module | Models | Extends |
|---|---|---|
| `PeerRegistry` | a registry as a map from id to entry or `Absent` (pure operators) | |
| `PeerVec` | `struct PeerRegistry` as the vector it is, next to that map | `PeerRegistry` |
| `ConnectionBook` | abstract: what `/v1/status` promises | |
| `Daemon` | one daemon: the handlers that change state, its locks and table | `PeerRegistry`, instantiates `ConnectionBook` |
| `PeerConfig` | peers.toml, a daemon that comes and goes, CLI processes | `PeerRegistry` |
| `Lifecycle` | daemon processes, pid file, socket, start/stop/restart | |
| `NodeInit` | init and what start loads | |
| `Node` | the composition: lifecycle, peers, services, and what the reading commands find | `PeerRegistry`, instantiates `Lifecycle` and `PeerConfig` |
| `Rpc` | abstract: what a caller may rely on | |
| `IpcWire` | one request over the socket, client and server | instantiates `Rpc` |
| `Install` | the installer | |
| `MC…` | definitions for TLC, symmetries | its module |
| `PeerVecProofs`, `DaemonProofs`, `PeerConfigProofs`, `LifecycleProofs`, `NodeInitProofs`, `NodeProofs`, `IpcWireProofs`, `InstallProofs` | theorems | its module, `TLAPS`; `NodeProofs` instantiates `LifecycleProofs` and `PeerConfigProofs` |

**Daemon.** A task is `[at, peer, got]`: where its handler is suspended, on which
peer, and the value it carries over the suspension (the outcome of a ping, or the
`last_connected` that disconnect read). `connect_peer` is `ConnectPeer` (read guard,
lookup, clone) → `SetConnecting` (drop, table write) → `BackendConnect` → `SetResult`
(both arms of the match, the reply). `disconnect_peer` is `DisconnectPeer` (the read)
→ `SetAvailable` (the write). Adds and removes wait for the write guard and keep it
until `SavePeers`. A `PeerStatus` keeps its state and whether `last_connected` is set;
path, latency and error text go with the outcome. `Restart` is a death at any point
followed by a new daemon on whatever the file holds. Handlers outlive their clients,
as in the code, so clients need no state. `ponged` is a history variable.

**PeerConfig.** `Adopt` → `SaveOpens` → `SaveWrites` → `Reply` is an add or remove in the
daemon, `Load` → `Open` → `Write` one on the file. Two writers that overlap leave what
`Overlay` allows (the tail of a longer text); a writer that dies, or a daemon that dies while
it saves (`DaemonCut`), leaves what `Cut` allows (nothing, unparsable text, fewer entries, or an
entry cut before its `enabled` flag, which then reads as true). Any failure of a request leads
to `Load`: nobody listens, the daemon answers 400 because the body had not come with the head
(`BadRequest`), 404, 500, it dies, or it dies after the save and before its answer is read
(`Exit` loses it or not). `clean`, `wanted` and `bypassed` are history variables: whether only the
daemon wrote the file, the entries that the commands reported as done ask for, and the peers
that were last edited in the file while a daemon ran. In `Daemon` the save is a single step;
this module has it in full. Ids are those that survive the path of a request.

**Lifecycle.** A pid is the process that has it now. `main[d]` is how far the boot of a
daemon is, `sig[d]` how far its SIGTERM handler; both advance independently, because
the handler is a spawned task. The constants switch features on: which commands are
used, whether waits outlast what they wait for (`Patient`), whether daemons crash,
whether a boot fails, whether other programs get freed pids. `CarefulSpec` is the same
with a careful operator (`Ready`, `NoStaleSocket`): one command at a time, none while a
daemon that was told to exit is still there, and no start over the socket of a daemon that
crashed. `AtMostOneDaemon` and `NoOrphan` are promises to that operator; section 3 has what
happens to others.

**Node.** `Life!` and `Peer!` are the two modules over the same files. A step of
`Lifecycle` is joined (`Follow`) with what it means to the others: when a daemon has read
its files (`TruncatePid`, the first visible thing it does after that) that is `Boot` of
`PeerConfig`; `Bind` is its `Listen`; whatever ends a daemon that had read them is its
`Exit`. So the registry of the daemon lives and dies with the process, and the commands
meet it in the state that start, stop and restart really leave. services.toml and the
daemon's copy of it are added here. `PeerList`, `PeerShow` and `ServiceList` are what the
commands that only read would find, with their fallbacks to the files. The operator of this
module is the careful one of `Lifecycle`, who waits for the peer commands to end as well; no
care helps against a split add, which is ordinary scheduling, so the module has it.

**IpcWire.** `request` is `Request` → `Connect` → `WriteRequest`… → `ReadReply`… → `ReplyEnds`;
`handle_connection` is `Accept` → `ReadRequest`… → `Route` → `WriteReply`…. A message is a
length: how much of it is written, and how much is read. What matters of its text is
where the head ends, whether head and body are whole when they are parsed, and whether the
id that `route` finds in the path is the one that was meant (`plain`): the CLI writes ids as
they are (`cli:569`), `parse_request` takes the path up to the first blank
(`src/ipc/server.rs:102`), and `trim_start_matches` strips a prefix as often as it is there. What
the handlers do is `Route`'s choice of an outcome (modules `Daemon` and `PeerConfig` have
them). This justifies what `PeerConfig` assumes of a request: that it may be refused with
its body unread (`BadRequest`), that its answer may be lost, that it is never carried out
twice, and, for an id that survives the path and a head that fits in the kernel's buffer
(`Exact`), never as something else.

**Install.** `todo` is the rest of the chain; each step of the download works, or fails and
leaves things as far as they got. A release is the set of paths at which its archive has a file
called tailcat (`layout`: none, one, or more), and the directory of extracted files is a
function of paths: tar writes those of its archive, and the others keep what earlier installs
left. `Found` is what `find_binary` may come upon, in whatever order the directories are read.
`refused` and `left` are history variables: the methods that something outside let fail, and
the paths that held something before the archive was extracted.

**NodeInit.** A node is what one init generates; a file holds a node, or is missing or
torn. `LoadReport` is what start would make of the files; `ready` is a history variable.

**PeerVec** shows that `get` finds the same in a vector, with the duplicates a hand-edited
file may have, as in the map, after any `add`, `remove`, `enable` and `disable`. That is what
entitles the other modules to the map. `list` shows the duplicates; what they print of a
list speaks of files without.

## 3. Runs

`tlc -config X.cfg M` in this directory. All passing runs explore everything within
their constants; no module has a state constraint.

| Run | Instance | Shows |
|---|---|---|
| `MCDaemon_all` (module `Daemon`) | 2 peers, 2 tasks, 1 token | `ConnectingHasOwner`, `NeverFabricated`; `BookSpec`: the daemon refines the connection book; `WritersNotStarved`, `AttemptsSettle`, with no assumption on tailcat |
| `MCPeerVec` (module `PeerVec`) | 2 ids, 2 tokens, up to 3 entries | `ViewIsMap`, `NoNewDuplicate` |
| `MCPeerConfig_faults` | 1 peer, 2 CLI processes, all faults | `InSync`, `OneSaveAtATime`, `CommandsReturn` |
| `MCLifecycle_all` | 2 pids, 1 terminal, everything on | `SignalledExits` |
| `MCNodeInit_serial` | 3 nodes, 1 terminal, kills | `ReadyNodeStarts`, `KeySurvives` |
| `MCNode` | 2 pids, 2 peers, every kind of peer command, 1 service, 1 careful operator, crashes, boots that fail | `AtMostOneDaemon`, `NoOrphan`, `EditsStick`, `OnlyConfiguredConnect`, `ListShowsWanted`, `RestartShowsServices`, `EveryCommandReturns` |
| `MCIpcWire` (module `IpcWire`) | chunks of 3, limit 6, buffer 5; heads of 2 to 8, bodies of 0 to 13, replies of 2 to 13; ids that survive the path or not | `BufferBounded`, `CallReturns`, `RpcSpec`: a call refines `Rpc` |
| `MCInstall_chain` | 2 releases, 2 paths in an archive; Linux and Windows; no, one and all package managers, any PATH | `InstalledIsWhole`, `EveryMethodTried`, `InstallReturns` |

Each module's `TypeOK` is checked by one of its runs.

Why these bounds are enough to be interesting: every property of `Daemon` speaks of
one peer, whose entry in the table two handlers can race for; the second peer is there
to be confused with the first. Tokens are stored and never compared. In `PeerConfig`
two processes overlap in every way a pair can, and one peer suffices for a torn or
stale entry; where lost entries matter (`CommandsStick`, `EditsStick`) there are two. Two pids hold
a daemon and one too many, and the pid of a daemon that is gone goes to the next at once. A key needs one init to write it and
another to replace it, and a third to follow one that was cut short. The lengths of `IpcWire` are such that a
head fits in a chunk, ends between two, ends in the chunk that passes the limit, and
is too long; that it fits in the kernel's buffer and not; that a body comes with the head,
is cut, and fills the buffer; and that a reply is read and is too long. `Install` needs a
second release for leftovers to be of another one than what is installed, and two paths for
the search to find both; archives of release 1 that differ in the name of a path only are
looked at once (`SomeInit`). One service shows whether the daemon's copy is the file.

Each property of a passing run has a mutant in `PROJECT.json`: an operator next to the
mapped definition, with the comment that says what it gets wrong, under which TLC
finds the property violated.

### Disagreements between the code and what it says

Four runs state what the repository says of itself, and TLC finds a behaviour of the
code that violates it.

| Run | Said | Done |
|---|---|---|
| `MCDaemon_overlap` | `src/peer/connection.rs:5`: CONNECTED and FAILED come after CONNECTING | a late answer is written over a disconnect or a newer attempt |
| `MCPeerConfig_stick` | `README.md:34`, `src/peer/registry.rs:3`: enable/disable, desired configuration | enable and disable never reach the daemon, whose next save undoes them |
| `MCInstall_mac` | `cli:1014`: "Always offer binary download as a fallback."; `README.md:39`: "Linux, macOS" | the download knows the system as "darwin" (`cli:1145`), Rust calls it "macos": it fails on every Mac at once. The BSDs, which `cli:1034` offers it too, have no asset at all |
| `MCLifecycle_stop_start` | `cli:159`: "Check if already running." | stop does not wait, and removes the pid file: start runs a second daemon, whose files the first then deletes |

The same modules, with other constants, have more behaviours that a maintainer should
know of and that these instances leave out. They can be seen by changing the .cfg named:

* two terminals that `start` together run two daemons, both past the check
  (`MCLifecycle_stop_start`, `Cmds = {"start"}`, `Ops = {o1, o2}`: `AtMostOneDaemon`);
* after a crash, `start` takes the socket that was left for the child's, and returns
  before the child listens (`MCNode` without `NoStaleSocket`: `NoOrphan`), against `cli:203`,
  "Wait briefly for the child to write its PID file and bind the socket". `restart`
  removes the socket, but only if there is a pid file: crash, `stop`, `restart` has the
  same end. What is edited in that time goes to the file, and the daemon, which has
  read it by then, undoes it with its next save;
* two plain `init`s of one directory both pass the check, and the key of one replaces the
  other's (`MCNodeInit_serial`, `Ops = {o1, o2}`: `ReadyNodeStarts` and `KeySurvives`);
* while the daemon runs, a peer that was disabled is still connected (`MCNode` with
  `OnlyConfiguredConnect` stated without `bypassed`), against `README.md:329`;
* also one operator who types one command at a time edits the file behind a daemon's back:
  the head and the body of an add are two writes (`src/ipc/client.rs:65`), and a daemon that has
  read the first before the second is there answers 400; the add goes to the file
  (`cli:554`), is reported as done, is not in the `peer list` of that daemon, and is gone after
  its next save (`MCPeerConfig_stick` with `Kinds = {"add"}`: `CommandsStick`). `EditsStick` and
  `ListShowsWanted` say what is left: no other peer is touched, and what lasts until the next
  start is safe;
* a daemon that dies after a save and before its answer is read has done the work; the command
  does it again on the file, and a remove then fails with "not found";
* `peer remove "a b"` removes peer `a` and reports success for `a b` (`MCIpcWire`: an outcome
  `misread` with `Ok`): ids with a blank can be added, since an add has its id in the body;
* an install killed while it copies leaves a part of a binary, executable, which the next
  install reports as "already installed" (`Already` asks only `which`); two installs at
  once share one temporary directory, and each removes the other's files;
* what a killed or failed install left in the temporary directory is searched together with
  the next archive: if the layout of the archive has changed, or it has no binary, the
  leftover may be installed and reported as a success (`MCInstall_chain` with
  `InstalledIsWhole` stated without its exception);
* a client killed within a head that is longer than the kernel's buffer (208 KiB on
  Linux, 8 KiB on macOS) leaves a request that is routed as it stands (`cli` ids have no
  limit): `Exact` of `IpcWire` is where it is told apart.

Plain from the code, and not given a property: `ping` prints "reachable" for a 200 whose
status says failed (`cli:696`); `start` prints "started" for a child that has exited
(`cli:212`); `kill(pid, 0)` takes any program that got the pid for the daemon (`cli:165`);
after an `init` cut short `start` says to run `init`, which refuses (`src/error.rs:23`,
`cli:71`); there is no mock backend (`README.md:65`, `src/network/tailcat.rs:222`).

### Fairness

* `Daemon!HandlerSpec`: weak fairness of the steps of an accepted request (tokio
  polls a task that is ready), strong fairness of taking the write guard (tokio's
  `RwLock` queues its waiters, so a waiter is not passed over for ever). Nothing is
  assumed of the tailcat process, nor that any request is made.
  `AttemptsSettle` excuses a peer whose `tailcat ping` never exits; the code passes
  `--timeout=10s` (`src/network/tailcat.rs:145`) and sets no timeout of its own.
* `PeerConfig!FairSpec`: CLI processes and handlers run; strong fairness of a
  request's being taken up, since the daemon may be started and stopped in between.
  Nobody has to type a command or start a daemon.
* `Node!Spec`: the same as the modules it composes; no command is ever obliged to be typed.
* `IpcWire!FairSpec`: both processes run, and the handler of the request returns (what
  `AttemptsSettle` says when).
* `Install!FairSpec`: the process runs, and the programs it runs end, with success or not.
* `Lifecycle!FairSpec`: processes run, and both tasks of a daemon do, because
  `#[tokio::main]` has a runtime with several threads (`src/main.rs`). No command has to be
  typed; crashes, failures and other programs are never obliged to happen.

### Assumptions worth knowing

* `Patient = TRUE` (in `Node` and `MCLifecycle_stop_start`) means the
  5 s of start and restart are enough. With `FALSE` a slow exit gives two daemons; the
  code accepts that by its timeout, so no property is claimed there except
  `SignalledExits`.
* `Faults = FALSE` in `Node` and `MCPeerConfig_stick` means one operator, who waits for a
  command to end before the next and for a start to end before a peer command, a disk that
  works, and a daemon that does not die under a peer command. It excludes no order in which
  the two processes may run: a split add is there in every run.
* The peers of `PeerConfig` and `Node` are ids that survive the path of a request, and heads
  fit in the kernel's buffer; `IpcWire` has the others. Their registries are short enough for
  a reply (64 KiB).
* In `Node` the daemon that listens does not crash under a peer command (`PeerConfig` has
  that), nor between a `start` that finds it running and the end of that `start`.
* In `Install` every file called tailcat in an archive counts as its binary.
* A process that received SIGTERM with a handler installed is dead only when the
  handler says so; without it, at once.

## 4. Proofs

`tlapm M.tla` for each of `PeerVecProofs`, `DaemonProofs`, `PeerConfigProofs`,
`LifecycleProofs`, `NodeInitProofs`, `NodeProofs`, `IpcWireProofs` and `InstallProofs`.
Every safety property of a passing run is a theorem. The theorems hold for every set of
peers, tokens, tasks, clients, processes and terminals, finite or not, from the
assumptions the modules name (the special values differ from the real ones; switches are
Booleans; commands are commands) and from hypotheses of a theorem where they are listed
below.

**PeerVecProofs**, for vectors of any length with any duplicates

* `MapIsEnough`: `Spec => []ViewIsMap`, and `NoDuplicateMade`: `Spec => NoNewDuplicate`.
  Both invariants rest on what `retain` returns (`RetainWithout`), and that on an induction
  over the prefixes of the vector. The induction rules of the library cannot be used
  here, so `LeastNat` and `SetInduction` derive one from the well-foundedness of the
  naturals, for a set instead of a predicate; `KeepsExists` uses it once more to show that
  the recursion has a solution. `FirstIs` and `FirstFound` say what `find` returns.

**DaemonProofs**

* `TypeCorrect`: `Spec => []TypeOK`.
* `ConnectingOwned`, `NothingFabricated`: each property is made
  inductive with what its tasks carry. `NeverFabricated` alone is not inductive: a
  handler may hold a pong that is not in the table yet, or the `last_connected` of a
  disconnect; the invariant says that both imply a pong of this daemon, and that
  without a backend nobody holds either.
  `ConnectingHasOwner` needs that a handler writes "connecting" in the very step in
  which it becomes an attempt.
* `ImplementsBook`: `Spec => BookSpec`. Initial states map to the empty book; each
  action maps to `Begin`, `Settle`, `Release`, `Reboot` or a stutter, one step of the
  proof per action.

**PeerConfigProofs**

* `TypeCorrect`: in particular the daemon's memory is always a registry that parsed.
* `SavesExclude`: a handler that has changed memory holds the lock; with one lock there
  is one of them.
* `FileIsMemory`: `InSync` speaks of an unlocked registry only; its strengthening says
  what the file may be while a save is open (the old text, or empty) and that a clean
  daemon that has stopped left no save open.

* `Sticks` and `ConfiguredOnly`: `EditsStick` and `OnlyConfiguredConnect`, for one client,
  without faults, with every kind of command and split requests. Both hypotheses are needed:
  two clients overlap in the file, and a save that fails leaves a change in memory that no one
  was told of. The invariant `SerialInv` follows one value, what the command asks for
  (`Wish`), from the daemon's memory or the command's own copy to the file and to
  `wanted`, and keeps two facts about the rest: every peer that is not in `bypassed` is in the
  file, and in the memory of a daemon, as it was asked for (`AsWanted`), and every peer the
  daemon has enabled is covered by the file (`Covered`). What is
  done behind the daemon's back is confined to the peer of the command, because a command
  edits a copy of the file, and the daemon's next save writes what it has, which for all other
  peers is the file.

**LifecycleProofs**

* `TypeCorrect`, with every race, crash, failure and foreign program.
* `OneDaemon` and `NoneOrphaned`: `CarefulSpec => []AtMostOneDaemon` and `[]NoOrphan`, if
  `Patient`. Neither is inductive: they do not say what the two files hold while a daemon
  boots, exits or was signalled. `CarefulInv` does, for every stage of a daemon (`DaemonInv`:
  from `spawned` on the pid file is its own; the socket is its own when it serves; one that
  boots has a start that waits for it) and for every step of a command (`CommandInv`: a
  start that got past the check is alone; what a stop or restart has signalled is the only
  daemon).

**NodeInitProofs**

* `TypeCorrect`, for any number of terminals: an init under way has generated its node.
* `ReadyStarts`, `KeyIsKept`, for one terminal (an assumption of the theorems, which two
  terminals refute). The invariant `Files` says that config.toml is never missing while
  identity.key is there, so that an init that was not forced and got past the check finds
  no key, and that what an init has passed is its own.

**NodeProofs**

* `ImplementsLifecycle`: `Spec => Life!CarefulSpec`, and `ImplementsPeerConfig`:
  `Spec => Peer!Spec`. A node is both at once, with the `daemon` of `PeerConfig` read off the
  processes of `Lifecycle` by `Status`: each action of a node is a step or a stutter of
  either.
* `TypeCorrect`, `OneDaemon`, `NoneOrphaned`, `Sticks`, `ConfiguredOnly`, `ListsWanted`,
  `ServicesAfterRestart`: every safety property of the run, with no hypothesis but the
  assumptions on constants. `NodeInv` is the invariants of `LifecycleProofs` and of
  `PeerConfigProofs` and what is known of the services; the facts about the
  parts are cited as lemmas through instances of their proof modules (`SameLife` and
  `SamePeer` identify these with the instances of `Node`). That one command edits the peers
  at a time, which `PeerConfigProofs` supposes, is proved here of the operator (`OneBusyKept`).
* `ServicesAfterRestart` is not about the edit of a file that nobody reads (`behind` says that
  it was made) but about what is enough to be done with it. It needs that a daemon that was
  told to exit no longer counts, that the one that answers later is another one, and that it
  read the file after the restart was typed: `ServiceInv` says that every daemon that has read
  its files and was not told to exit has the services of the file, unless one was edited since.

**IpcWireProofs**, for messages, chunks, limits and buffers of any size, from
`SizeAssumption`

* `TypeCorrect`: no one reads more than was written. Inductive with what holds before a
  request is routed: nothing was sent, and there is no outcome.
* `Bounded`: whoever reads on is below the limit; one more chunk is the bound.
* `ImplementsRpc`: `Spec => RpcSpec`. A head that fits in the buffer is written in one piece,
  so a request that is routed without all of it is empty; the server's task sets an outcome
  once; the client says Ok only to a whole reply with a good status. Whether a request may be
  taken for another one (`Exact`) is a parameter of `Rpc`. One step of `RpcStep` per action.

**InstallProofs**, for any platforms and package managers

* `TypeCorrect`, inductive with what a download knows: the method it belongs to and its
  release.
* `WholeBinary`: `InstalledIsWhole`, for archives of any layout. It speaks of the end only; the
  invariant (`OnItsWay`) adds what the search may find at each step of a download on its way
  there: files of the release, and what was left at paths of its own.
* `GivesUpLast`: an automatic install that gives up was let down by every method it detected,
  or has no download for the platform. The invariant says that what is left to try is the end
  of what was detected, and that what is before it was refused.
* `TriesEveryMethod`: `EveryMethodTried`, if every platform has an asset. Without that it is
  false, which is the run `MCInstall_mac`.

### Only model-checked

Liveness (`WritersNotStarved`, `AttemptsSettle`, `CommandsReturn`, `SignalledExits`,
`EveryCommandReturns`, `CallReturns`, `InstallReturns`), which needs fairness and
`ENABLED`: out of the prover's reach. The state of `Node` is finite in each of its parts
when the constants are, and its liveness does not depend on how many peers or services there
are: the instance has every command and every way for one to end. Nothing is proved of the
four disagreements: they are counterexamples.

## 5. Not modelled

* `tailcat` itself: `list` and `genkey` at start (`src/network/tailcat.rs:112`), and the text of
  a pong, whose parse decides a latency and a path that nothing acts on. `BackendConnect` has
  the outcomes that matter.
* `identity`, `token`, `logs`, `version`, tables, config defaults, error texts, argument
  parsing: they change no state and decide nothing. An error's kind is modelled where a
  caller tells it apart.
* `LifecycleEvent`, `ConnectionTable::remove`, `Daemon::ping_peer`, `backend_stop`: nothing
  calls them.
* Names and metadata of peers, protocols of services, latency, path: written, printed,
  never decided on.
* Windows: `stop` sends no signal there (`cli:327`).

## 6. Plan

Done: every module of section 2, its runs, and the proofs of its safety properties.

Next, proofs:

1. `Daemon` against `PeerConfig`: the handlers that change the registry, as steps of a
   `PeerConfig` whose saves are atomic, so that what is proved of either holds of one daemon.
2. `NodeInit` and `Node`: a node that init reported as ready boots, so that the `BootFails` of
   a `Node` has no cause in its own files.
3. `Lifecycle` for a less careful operator: what is left of `NoOrphan` when a daemon crashes
   at any time (`restart` with a pid file finds its way back).
