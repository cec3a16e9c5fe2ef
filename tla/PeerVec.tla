------------------------------- MODULE PeerVec -------------------------------
(***************************************************************************)
(* struct PeerRegistry (src/peer/registry.rs) as it is: a vector of peers, *)
(* in the order of peers.toml.  Nothing in load() rejects an id that a     *)
(* file edited by hand holds twice; get, enable and disable take the first *)
(* entry, add and remove touch them all.                                   *)
(*                                                                         *)
(* Every call is made on the vector and on the map of module PeerRegistry  *)
(* side by side: the map is what the callers can tell of the vector, which *)
(* is why the other modules keep only the map.                             *)
(***************************************************************************)
EXTENDS PeerRegistry, Sequences, FiniteSetsExt

Seqs == INSTANCE SequencesExt

CONSTANT MaxLen    \* entries in the file that is loaded

ASSUME MaxLenAssumption == MaxLen \in Nat

VARIABLES vec,      \* PeerRegistry.peers
          map       \* the same registry as a map

vars == <<vec, map>>

PeerRec == [id: Peers, token: Tokens, enabled: BOOLEAN]

Has(v, p) == \E i \in DOMAIN v : v[i].id = p

\* iter().find(|p| p.id == id): the first entry with that id.
First(v, p) == Min({i \in DOMAIN v : v[i].id = p})

Get(v, p) ==
  IF Has(v, p) THEN [token |-> v[First(v, p)].token, enabled |-> v[First(v, p)].enabled]
  ELSE Absent

\* Vec::retain: kept[n] is the first n entries without those of p.  It is
\* SelectSeq, written as a function to be proved about.
Retain(v, p) ==
  LET kept[n \in 0..Len(v)] ==
        IF n = 0 THEN <<>>
        ELSE IF v[n].id = p THEN kept[n - 1] ELSE Append(kept[n - 1], v[n])
  IN kept[Len(v)]

\* get() for every id: the map a caller sees.
View(v) == [p \in Peers |-> Get(v, p)]

NewPeer(p, tok) == [id |-> p, token |-> tok, enabled |-> TRUE]

Init ==
  /\ vec \in Seqs!SeqOf(PeerRec, MaxLen)
  /\ map = View(vec)

\* Without the retain: the old entry stays in front of the new one.
PushPeer(p, tok) ==
  /\ vec' = Append(vec, NewPeer(p, tok))
  /\ Len(vec) <= MaxLen
  /\ map' = Add(map, p, tok)

AddPeer(p, tok) ==
  /\ vec' = Append(Retain(vec, p), NewPeer(p, tok))
  /\ map' = Add(map, p, tok)

\* Only the entry that get() finds is taken out.
RemoveFound(p) ==
  /\ vec' = IF Has(vec, p) THEN Seqs!RemoveAt(vec, First(vec, p)) ELSE vec
  /\ map' = Remove(map, p)

RemovePeer(p) ==
  /\ vec' = Retain(vec, p)
  /\ map' = Remove(map, p)

\* enable and disable, of a peer that is there; of another they do nothing.
SwitchPeer(p, b) ==
  /\ Has(vec, p)
  /\ vec' = [vec EXCEPT ![First(vec, p)].enabled = b]
  /\ map' = SetEnabled(map, p, b)

Next ==
  \E p \in Peers :
    \/ \E tok \in Tokens : AddPeer(p, tok)
    \/ RemovePeer(p)
    \/ \E b \in BOOLEAN : SwitchPeer(p, b)

Spec == Init /\ [][Next]_vars

-----------------------------------------------------------------------------
\* The vector and the map never disagree, with duplicates in the file or not.
ViewIsMap == View(vec) = map

Copies(v, p) == Cardinality({i \in DOMAIN v : v[i].id = p})

\* No call makes a duplicate: an id has as many entries as it had before, or one
\* that an add put there, or none.
NoNewDuplicate == [][\A p \in Peers : Copies(vec', p) \in {0, 1, Copies(vec, p)}]_vars

=============================================================================
