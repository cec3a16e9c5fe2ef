------------------------------ MODULE NodeInit ------------------------------
(***************************************************************************)
(* The files that make a node, and the commands that write and read them:  *)
(* `tailcat-node init` (init_inner in src/cli/commands.rs) generates a     *)
(* node and writes config.toml, identity.key, peers.toml and services.toml *)
(* one after the other; `tailcat-node start` loads the first two.  Module  *)
(* PeerConfig has what becomes of peers.toml afterwards.                   *)
(*                                                                         *)
(* A node is what one run of init generates: the id in config.toml and the *)
(* key in identity.key.  Nodes also bounds the runs of init that get past  *)
(* the first check.                                                        *)
(***************************************************************************)
CONSTANTS
  Nodes,     \* what runs of init generate
  Ops,       \* terminals
  Kills,     \* may init be cut short?
  NoNode,    \* init has generated nothing yet
  Missing,   \* no such file
  Torn,      \* a file that is empty, or that ends before what matters in it
  Short      \* an identity.key that ends within the private key

ASSUME NodeAssumption ==
  /\ {NoNode, Missing, Torn, Short} \cap Nodes = {}
  /\ Missing # Torn /\ Missing # Short /\ Torn # Short
ASSUME KillAssumption == Kills \in BOOLEAN

VARIABLES
  config,      \* config.toml: the node whose id it holds
  identity,    \* identity.key: the node whose key it holds
  registry,    \* peers.toml and services.toml
  used,        \* nodes generated so far
  op,          \* the init each terminal runs, or ran last
  ready        \* history: an init succeeded, and none was forced since

vars == <<config, identity, registry, used, op, ready>>

Registries == {"peers", "services"}
Steps == {"idle", "config", "config_open", "identity", "identity_open"} \cup Registries

TypeOK ==
  /\ config \in Nodes \cup {Missing, Torn}
  /\ identity \in Nodes \cup {Missing, Torn, Short}
  /\ registry \in [Registries -> {"missing", "empty", "edited"}]
  /\ used \subseteq Nodes
  /\ op \in [Ops -> [at: Steps, node: Nodes \cup {NoNode}, force: BOOLEAN,
                     result: {"none", "done", "already", "killed"}]]
  /\ ready \in BOOLEAN

Init ==
  /\ config = Missing
  /\ identity = Missing
  /\ registry = [f \in Registries |-> "missing"]
  /\ used = {}
  /\ op = [o \in Ops |-> [at |-> "idle", node |-> NoNode, force |-> FALSE, result |-> "none"]]
  /\ ready = FALSE

At(o) == op[o].at
Go(o, s) == op' = [op EXCEPT ![o].at = s]

(***************************************************************************)
(* init.  Only config.toml is asked whether the node is initialized, and   *)
(* it is the first to be written.                                          *)
(***************************************************************************)
\* RefuseGoesOn would complain but not return, nothing generated.
RefuseGoesOn(o) ==
  /\ At(o) = "idle"
  /\ config # Missing
  /\ op' = [op EXCEPT ![o] = [at |-> "config", node |-> NoNode, force |-> FALSE,
                              result |-> "already"]]
  /\ UNCHANGED <<config, identity, registry, used, ready>>

Refuse(o) ==
  /\ At(o) = "idle"
  /\ config # Missing
  /\ op' = [op EXCEPT ![o] = [at |-> "idle", node |-> NoNode, force |-> FALSE,
                              result |-> "already"]]
  /\ UNCHANGED <<config, identity, registry, used, ready>>

\* GenerateAlways would overwrite without being asked to.
GenerateAlways(o, force) ==
  /\ At(o) = "idle"
  /\ \E n \in Nodes \ used :
       /\ used' = used \cup {n}
       /\ op' = [op EXCEPT ![o] = [at |-> "config", node |-> n, force |-> force,
                                   result |-> "none"]]
  /\ ready' = (ready /\ ~force)
  /\ UNCHANGED <<config, identity, registry>>

Generate(o, force) ==
  /\ At(o) = "idle"
  /\ config = Missing \/ force
  /\ \E n \in Nodes \ used :
       /\ used' = used \cup {n}
       /\ op' = [op EXCEPT ![o] = [at |-> "config", node |-> n, force |-> force,
                                   result |-> "none"]]
  /\ ready' = (ready /\ ~force)
  /\ UNCHANGED <<config, identity, registry>>

\* Config::save and IdentityStore::save: fs::write truncates, then writes.
OpenConfig(o) ==
  /\ At(o) = "config"
  /\ config' = Torn
  /\ Go(o, "config_open")
  /\ UNCHANGED <<identity, registry, used, ready>>

WriteConfig(o) ==
  /\ At(o) = "config_open"
  /\ config' = op[o].node
  /\ Go(o, "identity")
  /\ UNCHANGED <<identity, registry, used, ready>>

\* OpenIdentityOnce would keep a key that is there already.
OpenIdentityOnce(o) ==
  /\ At(o) = "identity"
  /\ identity' = IF identity = Missing THEN Torn ELSE identity
  /\ Go(o, IF identity = Missing THEN "identity_open" ELSE "peers")
  /\ UNCHANGED <<config, registry, used, ready>>

OpenIdentity(o) ==
  /\ At(o) = "identity"
  /\ identity' = Torn
  /\ Go(o, "identity_open")
  /\ UNCHANGED <<config, registry, used, ready>>

WriteIdentity(o) ==
  /\ At(o) = "identity_open"
  /\ identity' = op[o].node
  /\ Go(o, "peers")
  /\ UNCHANGED <<config, registry, used, ready>>

\* Both registries are replaced by empty ones.
WritePeers(o) ==
  /\ At(o) = "peers"
  /\ registry' = [registry EXCEPT !["peers"] = "empty"]
  /\ Go(o, "services")
  /\ UNCHANGED <<config, identity, used, ready>>

WriteServices(o) ==
  /\ At(o) = "services"
  /\ registry' = [registry EXCEPT !["services"] = "empty"]
  /\ op' = [op EXCEPT ![o].at = "idle", ![o].result = "done"]
  /\ ready' = TRUE
  /\ UNCHANGED <<config, identity, used>>

\* Ctrl-C, a full disk, the machine: between two steps or within a write.
Kill(o) ==
  /\ Kills
  /\ At(o) # "idle"
  /\ op' = [op EXCEPT ![o].at = "idle", ![o].result = "killed"]
  /\ identity' \in IF At(o) = "identity_open" THEN {identity, Short} ELSE {identity}
  /\ UNCHANGED <<config, registry, used, ready>>

(***************************************************************************)
(* Everyone else.                                                          *)
(***************************************************************************)
\* peer add or service add, which do not ask whether there is a node.
EditRegistry(f) ==
  /\ registry' = [registry EXCEPT ![f] = "edited"]
  /\ UNCHANGED <<config, identity, used, op, ready>>

InitStep(o) ==
  \/ OpenConfig(o) \/ WriteConfig(o)
  \/ OpenIdentity(o) \/ WriteIdentity(o)
  \/ WritePeers(o) \/ WriteServices(o)

Next ==
  \/ \E o \in Ops :
       \/ Refuse(o)
       \/ \E force \in BOOLEAN : Generate(o, force)
       \/ InitStep(o)
       \/ Kill(o)
  \/ \E f \in Registries : EditRegistry(f)

Spec == Init /\ [][Next]_vars

-----------------------------------------------------------------------------
\* What `start` makes of the files: Config::load, then IdentityStore::load.  A
\* key that is too short is as good as any other, and so is another node's.
LoadReport ==
  CASE config = Missing                                  -> "io_error"
    [] config = Torn                                     -> "parse_error"
    [] config \in Nodes /\ identity = Missing            -> "not_initialized"
    [] config \in Nodes /\ identity = Torn               -> "missing_key"
    [] config \in Nodes /\ identity \notin {Missing, Torn} -> "started"

\* Once init has reported success the node starts, and has the id and the key of
\* one and the same init, whatever an earlier init that was cut short had left
\* and whatever is tried afterwards without --force.  One terminal.
ReadyNodeStarts == ready => LoadReport = "started" /\ config = identity

\* src/identity/store.rs:3, the identity "must survive daemon restart, machine
\* reboot, and tailcat-node upgrade", and src/cli/commands.rs:73, "Use --force
\* to overwrite": a key that was generated is only ever replaced by init --force.
\* One terminal.
KeySurvives ==
  [][ (identity \in Nodes /\ identity' # identity) =>
        \E o \in Ops : At(o) # "idle" /\ op[o].force ]_vars

=============================================================================
