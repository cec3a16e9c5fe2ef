---------------------------- MODULE PeerRegistry ----------------------------
(***************************************************************************)
(* The peer registry as a value: what peers.toml holds and what a          *)
(* PeerRegistry struct keeps in memory.  A registry maps every peer id to  *)
(* its entry, or to Absent; a name or a piece of metadata is never read    *)
(* back by the program and is left out of the entry.                       *)
(*                                                                         *)
(* src/peer/registry.rs keeps a Vec<Peer>.  Module PeerVec models that     *)
(* vector and shows that the map below is what its callers see, with or    *)
(* without duplicate ids in a file that was edited by hand.                *)
(***************************************************************************)

CONSTANTS Peers,    \* peer ids
          Tokens,   \* join tokens (the address that is dialled)
          Absent    \* "no such peer"

Entry == [token: Tokens, enabled: BOOLEAN]

ASSUME AbsentAssumption == Absent \notin Entry

Registry == [Peers -> Entry \cup {Absent}]

NoPeers == [p \in Peers |-> Absent]

\* Peer::new: a new entry is enabled, whatever it replaces.
NewEntry(tok) == [token |-> tok, enabled |-> TRUE]

Known(r, p) == r[p] # Absent
Enabled(r, p) == Known(r, p) /\ r[p].enabled

\* The entry that is there already wins, as with a push without the retain.
AddKeepsOld(r, p, tok) == IF Known(r, p) THEN r ELSE [r EXCEPT ![p] = NewEntry(tok)]

Add(r, p, tok) == [r EXCEPT ![p] = NewEntry(tok)]
Remove(r, p)   == [r EXCEPT ![p] = Absent]

\* enable() and disable(); their callers have looked the peer up.
SetEnabled(r, p, b) == [r EXCEPT ![p] = [token |-> r[p].token, enabled |-> b]]

=============================================================================
