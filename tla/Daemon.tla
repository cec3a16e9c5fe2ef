------------------------------- MODULE Daemon -------------------------------
(***************************************************************************)
(* One running daemon: the handlers of its IPC server (src/ipc/server.rs)  *)
(* over the state of struct Daemon (src/daemon/manager.rs).                *)
(*                                                                         *)
(* Every accepted connection is a tokio task that runs one handler to its  *)
(* end, whether or not its client is still there.  A task is suspended at  *)
(* an .await, so a handler is split at its awaits: the two RwLocks, and    *)
(* the tailcat process that connect_peer waits for.  The connection        *)
(* table's own RwLock is held for one operation at a time and each such    *)
(* operation is one step; the lock of the peer registry is held across     *)
(* steps and is modelled (readers, writer).                                *)
(*                                                                         *)
(* The read-only routes change nothing and have no action.  Ids are read   *)
(* from the path or the body; the wire format belongs to other modules.    *)
(***************************************************************************)
EXTENDS PeerRegistry

CONSTANTS Tasks,    \* IPC connections served at the same time
          NoTask,   \* the registry lock is not held for writing
          NoPeer    \* an idle task works on no peer

ASSUME TaskAssumption == NoTask \notin Tasks
ASSUME PeerAssumption == NoPeer \notin Peers

VARIABLES
  backend,    \* Daemon.backend is Some: tailcat was on PATH at start
  registry,   \* Daemon.peer_registry
  readers,    \* tasks that hold its read guard
  writer,     \* the task that holds its write guard
  table,      \* Daemon.connection_table
  task,       \* the handler each task is running, and how far it is
  reply,      \* the last response each task wrote to its client
  ponged      \* history: peers that answered a ping of this daemon

vars == <<backend, registry, readers, writer, table, task, reply, ponged>>

(***************************************************************************)
(* PeerStatus: state and last_connected (is it Some).  path, latency_ms    *)
(* and last_error are functions of the result that is written with them.   *)
(***************************************************************************)
Status(s, l) == [state |-> s, last |-> l]
NoStatus == Status("none", FALSE)
Statuses == [state: {"none", "available", "connecting", "connected", "failed"},
             last: BOOLEAN]

\* What a backend call came back with: exit 0 with a pong line, exit 0
\* without one, a failed process, or no backend to call.
Results == {"pong", "silent", "error", "degraded"}

\* The status written for a result: ping_result_to_status for the first two,
\* the failed_status of connect_peer for the errors.
StatusFabricated(r) ==
  IF r \in {"pong", "silent"} THEN Status("connected", TRUE) ELSE Status("failed", FALSE)
StatusOf(r) ==
  IF r = "pong" THEN Status("connected", TRUE) ELSE Status("failed", FALSE)

At(s, p, g) == [at |-> s, peer |-> p, got |-> g]
Idle == At("idle", NoPeer, "nothing")
Steps == {"idle", "found", "dialing", "dialed", "resetting",
          "adding", "removing", "saving"}
Gots == Results \cup {"nothing", "last", "never"}

\* Responses: 200 with a status ("connected", "failed"), 200/201 {"ok"},
\* 404, 500, and the 500 that says the daemon runs in degraded mode.
Replies == {"none", "connected", "failed", "ok", "not_found", "error", "degraded"}

ReplyTo(r) ==
  CASE r = "pong"     -> "connected"
    [] r = "silent"   -> "failed"
    [] r = "error"    -> "error"
    [] r = "degraded" -> "degraded"

TypeOK ==
  /\ backend \in BOOLEAN
  /\ registry \in Registry
  /\ readers \subseteq Tasks
  /\ writer \in Tasks \cup {NoTask}
  /\ table \in [Peers -> Statuses]
  /\ task \in [Tasks -> [at: Steps, peer: Peers \cup {NoPeer}, got: Gots]]
  /\ reply \in [Tasks -> Replies]
  /\ ponged \subseteq Peers

Finish(t, r) ==
  /\ task'  = [task EXCEPT ![t] = Idle]
  /\ reply' = [reply EXCEPT ![t] = r]

(***************************************************************************)
(* Start: Daemon::new loads whatever peers.toml holds; the connection      *)
(* table is runtime state and starts empty.                                *)
(***************************************************************************)
Init ==
  /\ backend \in BOOLEAN
  /\ registry \in Registry
  /\ readers = {}
  /\ writer = NoTask
  /\ table = [p \in Peers |-> NoStatus]
  /\ task = [t \in Tasks |-> Idle]
  /\ reply = [t \in Tasks |-> "none"]
  /\ ponged = {}

\* The process dies, at any point, and a new one is started.
Restart ==
  /\ backend' \in BOOLEAN
  /\ registry' \in Registry
  /\ readers' = {}
  /\ writer' = NoTask
  /\ table' = [p \in Peers |-> NoStatus]
  /\ task' = [t \in Tasks |-> Idle]
  /\ reply' = [t \in Tasks |-> "none"]
  /\ ponged' = {}

(***************************************************************************)
(* POST /v1/connect/:id.  connect_peer takes the read guard, looks the     *)
(* peer up and clones its token; drops the guard and writes "connecting";  *)
(* waits for tailcat; writes the outcome and answers.                      *)
(***************************************************************************)
ConnectPeer(t, p) ==
  /\ task[t] = Idle
  /\ writer = NoTask
  /\ Enabled(registry, p)
  /\ readers' = readers \cup {t}
  /\ task' = [task EXCEPT ![t] = At("found", p, "nothing")]
  /\ reply' = [reply EXCEPT ![t] = "none"]
  /\ UNCHANGED <<backend, registry, writer, table, ponged>>

\* Not configured, or configured and disabled: an error, and no trace of it.
RefuseConnect(t, p) ==
  /\ task[t] = Idle
  /\ writer = NoTask
  /\ ~Enabled(registry, p)
  /\ Finish(t, "error")
  /\ UNCHANGED <<backend, registry, readers, writer, table, ponged>>

\* Without the drop(registry), the guard lives to the end of the function.
SetConnectingKeepGuard(t) ==
  /\ task[t].at = "found"
  /\ readers' = readers
  /\ table' = [table EXCEPT ![task[t].peer] = Status("connecting", FALSE)]
  /\ task' = [task EXCEPT ![t] = At("dialing", task[t].peer, "nothing")]
  /\ UNCHANGED <<backend, registry, writer, reply, ponged>>

\* The state is only written once the outcome is known.
SetConnectingSkipped(t) ==
  /\ task[t].at = "found"
  /\ readers' = readers \ {t}
  /\ table' = table
  /\ task' = [task EXCEPT ![t] = At("dialing", task[t].peer, "nothing")]
  /\ UNCHANGED <<backend, registry, writer, reply, ponged>>

SetConnecting(t) ==
  /\ task[t].at = "found"
  /\ readers' = readers \ {t}
  /\ table' = [table EXCEPT ![task[t].peer] = Status("connecting", FALSE)]
  /\ task' = [task EXCEPT ![t] = At("dialing", task[t].peer, "nothing")]
  /\ UNCHANGED <<backend, registry, writer, reply, ponged>>

\* Backend::connect: one `tailcat ping --timeout=10s <token>`.
BackendConnect(t) ==
  /\ task[t].at = "dialing"
  /\ \E r \in IF backend THEN {"pong", "silent", "error"} ELSE {"degraded"} :
       /\ task' = [task EXCEPT ![t] = At("dialed", task[t].peer, r)]
       /\ ponged' = IF r = "pong" THEN ponged \cup {task[t].peer} ELSE ponged
  /\ UNCHANGED <<backend, registry, readers, writer, table, reply>>

\* The error arm returns without writing failed_status.
SetResultOnSuccessOnly(t) ==
  /\ task[t].at = "dialed"
  /\ table' = IF task[t].got \in {"pong", "silent"}
              THEN [table EXCEPT ![task[t].peer] = StatusOf(task[t].got)]
              ELSE table
  /\ readers' = readers \ {t}
  /\ Finish(t, ReplyTo(task[t].got))
  /\ UNCHANGED <<backend, registry, writer, ponged>>

\* Both arms of `match result`.  A guard that is still held ends here.
SetResult(t) ==
  /\ task[t].at = "dialed"
  /\ table' = [table EXCEPT ![task[t].peer] = StatusOf(task[t].got)]
  /\ readers' = readers \ {t}
  /\ Finish(t, ReplyTo(task[t].got))
  /\ UNCHANGED <<backend, registry, writer, ponged>>

(***************************************************************************)
(* POST /v1/disconnect/:id.  disconnect_peer asks nothing of the registry. *)
(* The backend's disconnect is a no-op; the entry's last_connected is read *)
(* first, and a new entry that carries it is written in a later step.      *)
(***************************************************************************)
DisconnectPeer(t, p) ==
  /\ task[t] = Idle
  /\ backend
  /\ task' = [task EXCEPT ![t] =
                At("resetting", p, IF table[p].last THEN "last" ELSE "never")]
  /\ reply' = [reply EXCEPT ![t] = "none"]
  /\ UNCHANGED <<backend, registry, readers, writer, table, ponged>>

RefuseDisconnect(t) ==
  /\ task[t] = Idle
  /\ ~backend
  /\ Finish(t, "degraded")
  /\ UNCHANGED <<backend, registry, readers, writer, table, ponged>>

\* The other state that keeps a peer from being connected, which is never written.
SetAvailableDisabled(t) ==
  /\ task[t].at = "resetting"
  /\ table' = [table EXCEPT ![task[t].peer] = Status("disabled", task[t].got = "last")]
  /\ Finish(t, "ok")
  /\ UNCHANGED <<backend, registry, readers, writer, ponged>>

SetAvailable(t) ==
  /\ task[t].at = "resetting"
  /\ table' = [table EXCEPT ![task[t].peer] = Status("available", task[t].got = "last")]
  /\ Finish(t, "ok")
  /\ UNCHANGED <<backend, registry, readers, writer, ponged>>

(***************************************************************************)
(* POST /v1/peers and DELETE /v1/peers/:id wait for the write guard and    *)
(* keep it until peers.toml is saved.  A save that fails is answered with  *)
(* 500 and leaves the change in memory.                                    *)
(***************************************************************************)
RequestWrite(t, p, kind) ==
  /\ task[t] = Idle
  /\ task' = [task EXCEPT ![t] = At(kind, p, "nothing")]
  /\ reply' = [reply EXCEPT ![t] = "none"]
  /\ UNCHANGED <<backend, registry, readers, writer, table, ponged>>

WriteLockFree == writer = NoTask /\ readers = {}

AddPeer(t, tok) ==
  /\ task[t].at = "adding"
  /\ WriteLockFree
  /\ writer' = t
  /\ registry' = Add(registry, task[t].peer, tok)
  /\ task' = [task EXCEPT ![t] = At("saving", task[t].peer, "nothing")]
  /\ UNCHANGED <<backend, readers, table, reply, ponged>>

RemovePeer(t) ==
  /\ task[t].at = "removing"
  /\ WriteLockFree
  /\ Known(registry, task[t].peer)
  /\ writer' = t
  /\ registry' = Remove(registry, task[t].peer)
  /\ task' = [task EXCEPT ![t] = At("saving", task[t].peer, "nothing")]
  /\ UNCHANGED <<backend, readers, table, reply, ponged>>

RemoveUnknown(t) ==
  /\ task[t].at = "removing"
  /\ WriteLockFree
  /\ ~Known(registry, task[t].peer)
  /\ Finish(t, "not_found")
  /\ UNCHANGED <<backend, registry, readers, writer, table, ponged>>

SavePeers(t) ==
  /\ task[t].at = "saving"
  /\ writer' = NoTask
  /\ \E r \in {"ok", "error"} : Finish(t, r)
  /\ UNCHANGED <<backend, registry, readers, table, ponged>>

TakeWriteLock(t) ==
  \/ \E tok \in Tokens : AddPeer(t, tok)
  \/ RemovePeer(t)
  \/ RemoveUnknown(t)

\* A step of a request that has been accepted and needs no answer from
\* tailcat.
HandlerStep(t) == SetConnecting(t) \/ SetResult(t) \/ SetAvailable(t) \/ SavePeers(t)

Accept(t, p) ==
  \/ ConnectPeer(t, p)
  \/ RefuseConnect(t, p)
  \/ DisconnectPeer(t, p)
  \/ RefuseDisconnect(t)
  \/ \E kind \in {"adding", "removing"} : RequestWrite(t, p, kind)

Next ==
  \/ \E t \in Tasks :
       \/ \E p \in Peers : Accept(t, p)
       \/ HandlerStep(t)
       \/ BackendConnect(t)
       \/ TakeWriteLock(t)
  \/ Restart

Spec == Init /\ [][Next]_vars

(***************************************************************************)
(* The runtime polls every task that is ready, and tokio's RwLock serves   *)
(* its waiters in the order they came, so one that is granted again and    *)
(* again to others is granted to each in turn.  Nothing is assumed here of *)
(* the tailcat process.                                                    *)
(***************************************************************************)
HandlerFairness ==
  \A t \in Tasks : WF_vars(HandlerStep(t)) /\ SF_vars(TakeWriteLock(t))

HandlerSpec == Spec /\ HandlerFairness

-----------------------------------------------------------------------------
(***************************************************************************)
(* Properties                                                              *)
(***************************************************************************)

\* The tasks that wait for tailcat to reach p, or hold its answer.
Attempts(p) == {t \in Tasks : task[t].at \in {"dialing", "dialed"} /\ task[t].peer = p}

\* A peer is shown as connecting only while some handler is still going to
\* write its outcome: whichever way connects and disconnects of the same peer
\* overlap, the last one to write "connecting" has not finished.
ConnectingHasOwner ==
  \A p \in Peers : table[p].state = "connecting" => Attempts(p) # {}

\* "We never fabricate connection state" (src/network/tailcat.rs:14): a peer
\* is shown as connected, or as connected at some time in the past, only if
\* it answered a ping of this daemon.  None is when there is no backend.
NeverFabricated ==
  /\ \A p \in Peers : table[p].state = "connected" \/ table[p].last => p \in ponged
  /\ ~backend => ponged = {}

\* A request to add or remove a peer gets the registry even if tailcat never
\* returns: no handler keeps the registry locked while it waits for the
\* network.
WritersNotStarved ==
  \A t \in Tasks : task[t].at \in {"adding", "removing"} ~>
                     task[t].at \notin {"adding", "removing"}

\* No peer is shown as connecting for ever, unless a tailcat process that was
\* asked to ping it never exits: whatever overlaps, fails or has no backend.
AttemptsSettle ==
  \A p \in Peers :
    \/ []<>(table[p].state # "connecting")
    \/ \E t \in Tasks : <>[](task[t] = At("dialing", p, "nothing"))

\* The daemon implements the connection book: with all its interleavings, an
\* outcome in the table is written by an attempt that is still open.
Book == INSTANCE ConnectionBook WITH
          status   <- [p \in Peers |-> table[p].state],
          attempts <- [p \in Peers |-> Attempts(p)]
BookSpec == Book!Spec

\* The lifecycle drawn in src/peer/connection.rs:5 and src/daemon/lifecycle.rs:5:
\* a peer becomes CONNECTED or FAILED out of CONNECTING.
Lifecycle ==
  [][\A p \in Peers :
       table'[p].state \in {"connected", "failed"} /\ table'[p] # table[p]
         => table[p].state = "connecting"]_vars

=============================================================================
