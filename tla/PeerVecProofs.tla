--------------------------- MODULE PeerVecProofs ---------------------------
(***************************************************************************)
(* Theorems of module PeerVec, for any peers and tokens, and vectors of    *)
(* any length, with any duplicates in the file that was loaded.            *)
(*                                                                         *)
(* What retain makes of a vector is proved by induction over its prefixes. *)
(* The induction principle is stated here for a set of naturals, from the  *)
(* well-foundedness of their order.                                        *)
(***************************************************************************)
EXTENDS PeerVec, FiniteSetTheorems, WellFoundedInduction, TLAPS

LEMMA LeastNat ==
  ASSUME NEW S, S \subseteq Nat, S # {}
  PROVE  \E n \in S : \A m \in S : n <= m
<1> DEFINE R == {ss \in Nat \X Nat : ss[1] < ss[2]}
<1>1. IsWellFoundedOn(R, Nat)
  BY NatLessThanWellFounded DEF OpToRel
<1>2. \A m, n \in S : m < n => <<m, n>> \in R
  OBVIOUS
<1> HIDE DEF R
<1>3. PICK n \in S : \A m \in S : <<m, n>> \notin R
  BY <1>1, WFMin
<1>4. \A m \in S : ~(m < n)
  BY <1>2, <1>3
<1>5. n \in Nat /\ \A m \in S : m \in Nat
  OBVIOUS
<1> QED BY <1>4, <1>5

LEMMA SetInduction ==
  ASSUME NEW S, 0 \in S, \A n \in Nat : n \in S => n + 1 \in S
  PROVE  Nat \subseteq S
<1> SUFFICES ASSUME Nat \ S # {} PROVE FALSE
  OBVIOUS
<1>1. PICK n \in Nat \ S : \A m \in Nat \ S : n <= m
  BY LeastNat
<1>2. n # 0
  OBVIOUS
<1>3. n - 1 \in Nat
  BY <1>2
<1>4. n - 1 \in S
  BY <1>1, <1>3
<1>5. (n - 1) + 1 \in S
  BY <1>3, <1>4
<1> QED BY <1>5

(***************************************************************************)
(* The first entry with an id.                                             *)
(***************************************************************************)
LEMMA FirstIs ==
  ASSUME NEW v \in Seq(PeerRec), NEW p, NEW n \in DOMAIN v, v[n].id = p,
         \A i \in DOMAIN v : v[i].id = p => n <= i
  PROVE  First(v, p) = n
<1> DEFINE S == {i \in DOMAIN v : v[i].id = p}
<1>1. n \in S /\ S \subseteq Nat /\ \A i \in S : n <= i
  OBVIOUS
<1>2. \A m \in S : (\A i \in S : m <= i) => m = n
  BY <1>1
<1>3. Min(S) = n
  <2> HIDE DEF S
  <2> QED BY <1>1, <1>2 DEF Min
<1> QED BY <1>3 DEF First

LEMMA FirstFound ==
  ASSUME NEW v \in Seq(PeerRec), NEW p, Has(v, p)
  PROVE  /\ First(v, p) \in DOMAIN v /\ v[First(v, p)].id = p
         /\ \A i \in DOMAIN v : v[i].id = p => First(v, p) <= i
<1> DEFINE S == {i \in DOMAIN v : v[i].id = p}
<1>1. S \subseteq Nat /\ S # {}
  BY DEF Has
<1>2. PICK n \in S : \A i \in S : n <= i
  <2> HIDE DEF S
  <2> QED BY <1>1, LeastNat
<1>3. First(v, p) = n
  BY <1>2, FirstIs
<1> QED BY <1>2, <1>3

\* A vector with an entry more at its end.
LEMMA GetAppend ==
  ASSUME NEW v \in Seq(PeerRec), NEW e \in PeerRec, NEW p
  PROVE  /\ Has(Append(v, e), p) <=> Has(v, p) \/ e.id = p
         /\ Get(Append(v, e), p) = IF Has(v, p) \/ e.id # p THEN Get(v, p)
                                   ELSE [token |-> e.token, enabled |-> e.enabled]
<1> DEFINE w == Append(v, e)
<1>1. /\ w \in Seq(PeerRec) /\ DOMAIN w = 1..Len(v) + 1 /\ DOMAIN v = 1..Len(v)
      /\ Len(v) \in Nat /\ Len(v) + 1 \in DOMAIN w
      /\ w[Len(v) + 1] = e /\ \A i \in DOMAIN v : i \in DOMAIN w /\ w[i] = v[i] /\ i < Len(v) + 1
      /\ \A i \in DOMAIN w : i \in DOMAIN v \/ i = Len(v) + 1
  OBVIOUS
<1> HIDE DEF w
<1>2. Has(w, p) <=> Has(v, p) \/ e.id = p
  BY <1>1 DEF Has
<1>3. CASE Has(v, p)
  <2>1. First(v, p) \in DOMAIN v /\ v[First(v, p)].id = p
        /\ \A i \in DOMAIN v : v[i].id = p => First(v, p) <= i
    BY <1>3, FirstFound
  <2>2. First(v, p) \in DOMAIN w /\ w[First(v, p)].id = p
        /\ \A i \in DOMAIN w : w[i].id = p => First(v, p) <= i
    BY <1>1, <2>1
  <2>3. First(w, p) = First(v, p)
    BY <1>1, <2>2, FirstIs
  <2> QED BY <1>1, <1>2, <1>3, <2>1, <2>3 DEF Get, w
<1>4. CASE ~Has(v, p) /\ e.id = p
  <2>1. \A i \in DOMAIN w : w[i].id = p => Len(v) + 1 <= i
    BY <1>1, <1>4 DEF Has
  <2>2. First(w, p) = Len(v) + 1
    BY <1>1, <1>4, <2>1, FirstIs
  <2> QED BY <1>1, <1>2, <1>4, <2>2 DEF Get, w
<1>5. CASE ~Has(v, p) /\ e.id # p
  BY <1>2, <1>5 DEF Get, w
<1> QED BY <1>3, <1>4, <1>5

LEMMA CopiesAppend ==
  ASSUME NEW v \in Seq(PeerRec), NEW e \in PeerRec, NEW p
  PROVE  /\ Copies(v, p) \in Nat
         /\ Copies(Append(v, e), p) = IF e.id = p THEN Copies(v, p) + 1 ELSE Copies(v, p)
<1> DEFINE S == {i \in DOMAIN v : v[i].id = p}
           T == {i \in DOMAIN Append(v, e) : Append(v, e)[i].id = p}
<1>1. IsFiniteSet(S)
  <2>1. IsFiniteSet(1..Len(v))
    BY FS_Interval
  <2> QED BY <2>1, FS_Subset
<1>2. T = IF e.id = p THEN S \cup {Len(v) + 1} ELSE S
  OBVIOUS
<1>3. Len(v) + 1 \notin S
  OBVIOUS
<1>4. Cardinality(S) \in Nat
  BY <1>1, FS_CardinalityType
<1>5. Cardinality(T) = IF e.id = p THEN Cardinality(S) + 1 ELSE Cardinality(S)
  <2> HIDE DEF S, T
  <2> QED BY <1>1, <1>2, <1>3, FS_AddElement
<1> QED BY <1>4, <1>5 DEF Copies

(***************************************************************************)
(* retain.                                                                 *)
(***************************************************************************)
Prefix(v, n) == [i \in 1..n |-> v[i]]

\* g takes the steps of retain over the first n entries.
Keeps(v, p, n, g) ==
  g = [m \in 0..n |-> IF m = 0 THEN <<>>
                      ELSE IF v[m].id = p THEN g[m - 1] ELSE Append(g[m - 1], v[m])]

\* The recursion of retain has a solution.
LEMMA KeepsExists ==
  ASSUME NEW v, NEW p
  PROVE  \A n \in Nat : \E g : Keeps(v, p, n, g)
<1> DEFINE S == {n \in Nat : \E g : Keeps(v, p, n, g)}
<1>1. 0 \in S
  <2>1. Keeps(v, p, 0, [m \in 0..0 |-> <<>>])
    BY DEF Keeps
  <2> QED BY <2>1
<1>2. ASSUME NEW n \in Nat, n \in S PROVE n + 1 \in S
  <2>1. PICK g : Keeps(v, p, n, g)
    BY <1>2
  <2> DEFINE last == IF v[n + 1].id = p THEN g[n] ELSE Append(g[n], v[n + 1])
             h == [m \in 0..n + 1 |-> IF m = n + 1 THEN last ELSE g[m]]
  <2>2. \A m \in 0..n : g[m] = IF m = 0 THEN <<>>
                               ELSE IF v[m].id = p THEN g[m - 1] ELSE Append(g[m - 1], v[m])
    BY <2>1 DEF Keeps
  <2> HIDE DEF last
  <2>3. h[n + 1] = last /\ \A m \in 0..n : h[m] = g[m]
    OBVIOUS
  <2>4. \A m \in 0..n + 1 :
          h[m] = IF m = 0 THEN <<>>
                 ELSE IF v[m].id = p THEN h[m - 1] ELSE Append(h[m - 1], v[m])
    <3> TAKE m \in 0..n + 1
    <3>1. CASE m = n + 1
      BY <2>3, <3>1 DEF last
    <3>2. CASE m = 0
      BY <2>2, <2>3, <3>2
    <3>3. CASE m # n + 1 /\ m # 0
      <4>1. m \in 0..n /\ m - 1 \in 0..n
        BY <3>3
      <4>2. h[m] = g[m] /\ h[m - 1] = g[m - 1]
        BY <2>3, <4>1
      <4> HIDE DEF h
      <4> QED BY <2>2, <3>3, <4>1, <4>2
    <3> QED BY <3>1, <3>2, <3>3
  <2>5. h = [m \in 0..n + 1 |-> h[m]]
    OBVIOUS
  <2>6. Keeps(v, p, n + 1, h)
    <3> HIDE DEF h
    <3> QED BY <2>4, <2>5 DEF Keeps
  <2> QED BY <2>6
<1> HIDE DEF S
<1>3. Nat \subseteq S
  BY <1>1, <1>2, SetInduction
<1> QED BY <1>3 DEF S

\* Of w, k has every entry but those of p.
Without(p, w, k) ==
  /\ k \in Seq(PeerRec)
  /\ ~Has(k, p) /\ Copies(k, p) = 0
  /\ \A q \in Peers : q # p => Get(k, q) = Get(w, q) /\ (Has(k, q) <=> Has(w, q))
                                /\ Copies(k, q) = Copies(w, q)

\* A step of retain.
LEMMA WithoutStep ==
  ASSUME NEW w \in Seq(PeerRec), NEW k, NEW p, NEW e \in PeerRec, Without(p, w, k)
  PROVE  Without(p, Append(w, e), IF e.id = p THEN k ELSE Append(k, e))
<1>1. k \in Seq(PeerRec) /\ Append(k, e) \in Seq(PeerRec)
  BY DEF Without
<1>2. ASSUME NEW q \in Peers
      PROVE  /\ Has(Append(w, e), q) <=> Has(w, q) \/ e.id = q
             /\ Get(Append(w, e), q) = IF Has(w, q) \/ e.id # q THEN Get(w, q)
                                       ELSE [token |-> e.token, enabled |-> e.enabled]
             /\ Copies(Append(w, e), q) = IF e.id = q THEN Copies(w, q) + 1 ELSE Copies(w, q)
  BY GetAppend, CopiesAppend
<1>3. CASE e.id = p
  BY <1>1, <1>2, <1>3 DEF Without
<1>4. CASE e.id # p
  <2>1. \A q : /\ Has(Append(k, e), q) <=> Has(k, q) \/ e.id = q
               /\ Get(Append(k, e), q) = IF Has(k, q) \/ e.id # q THEN Get(k, q)
                                         ELSE [token |-> e.token, enabled |-> e.enabled]
               /\ Copies(Append(k, e), q) = IF e.id = q THEN Copies(k, q) + 1 ELSE Copies(k, q)
    BY <1>1, GetAppend, CopiesAppend
  <2>2. Without(p, Append(w, e), Append(k, e))
    BY <1>1, <1>2, <1>4, <2>1 DEF Without
  <2> QED BY <1>4, <2>2
<1> QED BY <1>3, <1>4

LEMMA RetainWithout ==
  ASSUME NEW v \in Seq(PeerRec), NEW p
  PROVE  Without(p, v, Retain(v, p))
<1>1. PICK g : Keeps(v, p, Len(v), g) /\ Retain(v, p) = g[Len(v)]
  <2>1. Len(v) \in Nat
    OBVIOUS
  <2>2. \E g : Keeps(v, p, Len(v), g)
    BY <2>1, KeepsExists
  <2> QED BY <2>2 DEF Retain, Keeps
<1> DEFINE S == {n \in Nat : n <= Len(v) => Without(p, Prefix(v, n), g[n])}
<1>2. \A m \in 0..Len(v) : g[m] = IF m = 0 THEN <<>>
                                  ELSE IF v[m].id = p THEN g[m - 1] ELSE Append(g[m - 1], v[m])
  BY <1>1 DEF Keeps
<1>3. 0 \in S
  <2>1. g[0] = <<>> /\ Prefix(v, 0) = <<>>
    BY <1>2 DEF Prefix
  <2>2. \A q : ~Has(<<>>, q) /\ Get(<<>>, q) = Absent
    BY DEF Has, Get
  <2>3. \A q : {i \in DOMAIN <<>> : <<>>[i].id = q} = {}
    OBVIOUS
  <2>4. \A q : Copies(<<>>, q) = 0
    BY <2>3, FS_EmptySet DEF Copies
  <2>5. Without(p, <<>>, <<>>)
    BY <2>2, <2>4 DEF Without
  <2> QED BY <2>1, <2>5
<1>4. ASSUME NEW n \in Nat, n \in S PROVE n + 1 \in S
  <2> SUFFICES ASSUME n + 1 <= Len(v) PROVE Without(p, Prefix(v, n + 1), g[n + 1])
    OBVIOUS
  <2>1. Without(p, Prefix(v, n), g[n])
    BY <1>4
  <2>2. Prefix(v, n) \in Seq(PeerRec) /\ v[n + 1] \in PeerRec
    BY DEF Prefix
  <2>3. Prefix(v, n + 1) = Append(Prefix(v, n), v[n + 1])
    BY DEF Prefix
  <2>4. g[n + 1] = IF v[n + 1].id = p THEN g[n] ELSE Append(g[n], v[n + 1])
    BY <1>2
  <2>5. Without(p, Append(Prefix(v, n), v[n + 1]),
                IF v[n + 1].id = p THEN g[n] ELSE Append(g[n], v[n + 1]))
    BY <2>1, <2>2, WithoutStep
  <2> QED BY <2>3, <2>4, <2>5
<1> HIDE DEF S
<1>5. Len(v) \in S
  BY <1>3, <1>4, SetInduction
<1>6. Prefix(v, Len(v)) = v
  BY DEF Prefix
<1> QED BY <1>1, <1>5, <1>6 DEF S

(***************************************************************************)
(* enable and disable.                                                     *)
(***************************************************************************)
\* w is v with the flag of entry n set to b.
Switched(v, w, n, b) ==
  /\ w \in Seq(PeerRec) /\ DOMAIN w = DOMAIN v
  /\ \A i \in DOMAIN v : w[i].id = v[i].id /\ w[i].token = v[i].token
  /\ \A i \in DOMAIN v : i # n => w[i] = v[i]
  /\ w[n].enabled = b

LEMMA SwitchGet ==
  ASSUME NEW v \in Seq(PeerRec), NEW w, NEW p, NEW b, Has(v, p), Switched(v, w, First(v, p), b)
  PROVE  /\ \A q : Copies(w, q) = Copies(v, q)
         /\ Get(w, p) = [token |-> Get(v, p).token, enabled |-> b]
         /\ \A q : q # p => Get(w, q) = Get(v, q)
<1>1. First(v, p) \in DOMAIN v /\ v[First(v, p)].id = p
  BY FirstFound
<1>2. /\ w \in Seq(PeerRec) /\ DOMAIN w = DOMAIN v
      /\ \A i \in DOMAIN v : w[i].id = v[i].id /\ w[i].token = v[i].token
      /\ \A i \in DOMAIN v : i # First(v, p) => w[i] = v[i]
      /\ w[First(v, p)].enabled = b
  BY DEF Switched
<1>3. \A q : {i \in DOMAIN w : w[i].id = q} = {i \in DOMAIN v : v[i].id = q}
  BY <1>2
<1>4. \A q : Has(w, q) <=> Has(v, q)
  BY <1>2 DEF Has
<1>5. \A q : First(w, q) = First(v, q) /\ Copies(w, q) = Copies(v, q)
  BY <1>3 DEF First, Copies
<1>6. Get(w, p) = [token |-> Get(v, p).token, enabled |-> b]
  BY <1>1, <1>2, <1>4, <1>5 DEF Get
<1>7. ASSUME NEW q, q # p PROVE Get(w, q) = Get(v, q)
  <2>1. CASE Has(v, q)
    <3>1. First(v, q) \in DOMAIN v /\ First(v, q) # First(v, p)
      BY <1>1, <1>7, <2>1, FirstFound
    <3> QED BY <1>2, <1>4, <1>5, <2>1, <3>1 DEF Get
  <2>2. CASE ~Has(v, q)
    BY <1>4, <2>2 DEF Get
  <2> QED BY <2>1, <2>2
<1> QED BY <1>2, <1>5, <1>6, <1>7

(***************************************************************************)
(* The vector and the map.                                                 *)
(***************************************************************************)
VecInv == vec \in Seq(PeerRec) /\ View(vec) = map

LEMMA NewPeerType ==
  ASSUME NEW p \in Peers, NEW tok \in Tokens
  PROVE  NewPeer(p, tok) \in PeerRec
BY DEF NewPeer, PeerRec

LEMMA AddIsAdd ==
  ASSUME VecInv, NEW p \in Peers, NEW tok \in Tokens, AddPeer(p, tok)
  PROVE  VecInv' /\ \A q \in Peers : Copies(vec', q) \in {0, 1, Copies(vec, q)}
<1> DEFINE k == Retain(vec, p)
           e == NewPeer(p, tok)
<1>1. Without(p, vec, k) /\ k \in Seq(PeerRec) /\ e \in PeerRec
  BY RetainWithout, NewPeerType DEF VecInv, Without
<1>2. vec' = Append(k, e) /\ map' = Add(map, p, tok)
  BY DEF AddPeer
<1> HIDE DEF k
<1>3. \A q : Get(vec', q) = (IF Has(k, q) \/ e.id # q THEN Get(k, q)
                            ELSE [token |-> e.token, enabled |-> e.enabled])
            /\ Copies(vec', q) = IF e.id = q THEN Copies(k, q) + 1 ELSE Copies(k, q)
  BY <1>1, <1>2, GetAppend, CopiesAppend
<1>4. \A q \in Peers : Get(vec', q) = IF q = p THEN NewEntry(tok) ELSE Get(vec, q)
  BY <1>1, <1>3 DEF Without, NewPeer, NewEntry
<1>5. \A q \in Peers : Copies(vec', q) \in {0, 1, Copies(vec, q)}
  BY <1>1, <1>3 DEF Without, NewPeer
<1>6. View(vec') = map'
  BY <1>2, <1>4 DEF VecInv, View, Add
<1> QED BY <1>1, <1>2, <1>5, <1>6 DEF VecInv

LEMMA RemoveIsRemove ==
  ASSUME VecInv, NEW p \in Peers, RemovePeer(p)
  PROVE  VecInv' /\ \A q \in Peers : Copies(vec', q) \in {0, 1, Copies(vec, q)}
<1>1. Without(p, vec, vec') /\ map' = Remove(map, p)
  BY RetainWithout DEF RemovePeer, VecInv
<1>2. \A q \in Peers : Get(vec', q) = IF q = p THEN Absent ELSE Get(vec, q)
  BY <1>1 DEF Without, Get
<1>3. View(vec') = map'
  BY <1>1, <1>2 DEF VecInv, View, Remove
<1> QED BY <1>1, <1>3 DEF VecInv, Without

LEMMA SwitchIsSwitch ==
  ASSUME VecInv, NEW p \in Peers, NEW b \in BOOLEAN, SwitchPeer(p, b)
  PROVE  VecInv' /\ \A q \in Peers : Copies(vec', q) \in {0, 1, Copies(vec, q)}
<1> DEFINE n == First(vec, p)
           e == [vec[n] EXCEPT !.enabled = b]
<1>1. Switched(vec, vec', n, b)
  <2>1. vec[n] \in PeerRec /\ n \in DOMAIN vec
    BY FirstFound DEF SwitchPeer, VecInv
  <2>2. e \in PeerRec /\ e.id = vec[n].id /\ e.token = vec[n].token /\ e.enabled = b
    BY <2>1 DEF PeerRec
  <2>3. vec' = [vec EXCEPT ![n] = e]
    BY DEF SwitchPeer
  <2> HIDE DEF e, n
  <2> QED BY <2>1, <2>2, <2>3 DEF VecInv, Switched
<1>2. /\ \A q : Copies(vec', q) = Copies(vec, q)
      /\ Get(vec', p) = [token |-> Get(vec, p).token, enabled |-> b]
      /\ \A q : q # p => Get(vec', q) = Get(vec, q)
  <2>1. vec \in Seq(PeerRec) /\ Has(vec, p)
    BY DEF SwitchPeer, VecInv
  <2> QED BY <1>1, <2>1, SwitchGet
<1>3. View(vec') = map'
  BY <1>2 DEF SwitchPeer, VecInv, View, SetEnabled
<1> QED BY <1>1, <1>2, <1>3 DEF VecInv, Switched

LEMMA VecStep ==
  ASSUME VecInv, [Next]_vars
  PROVE  VecInv' /\ [\A p \in Peers : Copies(vec', p) \in {0, 1, Copies(vec, p)}]_vars
<1>1. CASE UNCHANGED vars
  BY <1>1 DEF vars, VecInv
<1> QED BY <1>1, AddIsAdd, RemoveIsRemove, SwitchIsSwitch DEF Next

LEMMA VecInit ==
  ASSUME Init
  PROVE  VecInv
BY MaxLenAssumption DEF Init, VecInv, Seqs!SeqOf

\* What get finds in the vector is what the map holds, however long the vector is
\* and whatever duplicates it was loaded with: the map of PeerRegistry stands for
\* the struct in every other module.
THEOREM MapIsEnough == Spec => []ViewIsMap
<1>1. VecInv => ViewIsMap
  BY DEF VecInv, ViewIsMap
<1> QED BY <1>1, VecInit, VecStep, PTL DEF Spec

\* No call adds an entry to those an id has, unless it is the only one.
THEOREM NoDuplicateMade == Spec => NoNewDuplicate
BY VecInit, VecStep, PTL DEF Spec, NoNewDuplicate

=============================================================================
