--------------------------- MODULE NodeInitProofs ---------------------------
(***************************************************************************)
(* Proofs about NodeInit, for any number of inits, cut short anywhere.     *)
(* Type correctness holds for any number of terminals; the properties of   *)
(* the files need that there is one, since nothing keeps two inits apart.  *)
(***************************************************************************)
EXTENDS NodeInit, TLAPS

OneTerminal == \A a, b \in Ops : a = b

-----------------------------------------------------------------------------
\* Type correctness.  An init that is under way has generated its node, which is
\* what makes the files it writes well-typed.
Typed ==
  /\ TypeOK
  /\ \A o \in Ops : At(o) # "idle" => op[o].node \in Nodes

OpRec == [at: Steps, node: Nodes \cup {NoNode}, force: BOOLEAN,
          result: {"none", "done", "already", "killed"}]

\* An init that ends keeps its node and its force.
LEMMA Ending ==
  ASSUME NEW o \in Ops, NEW r \in {"done", "killed"}, op \in [Ops -> OpRec],
         op' = [op EXCEPT ![o].at = "idle", ![o].result = r]
  PROVE  /\ op' \in [Ops -> OpRec]
         /\ op'[o].at = "idle"
         /\ \A p \in Ops \ {o} : op'[p] = op[p]
<1> DEFINE stopped == [op[o] EXCEPT !.at = "idle"]
           ended   == [stopped EXCEPT !.result = r]
<1>1. op' = [op EXCEPT ![o] = ended]
  OBVIOUS
<1>2. stopped \in OpRec /\ stopped.at = "idle"
  BY DEF OpRec, Steps
<1> HIDE DEF stopped
<1>3. ended \in OpRec /\ ended.at = "idle"
  BY <1>2 DEF OpRec
<1> HIDE DEF ended
<1> QED
  BY <1>1, <1>3

LEMMA TypedInit == Init => Typed
<1> SUFFICES ASSUME Init PROVE Typed
  OBVIOUS
<1>1. op \in [Ops -> OpRec]
  <2> DEFINE never == [at |-> "idle", node |-> NoNode, force |-> FALSE, result |-> "none"]
  <2>1. never \in OpRec
    BY DEF Steps, OpRec
  <2>2. op = [o \in Ops |-> never]
    BY DEF Init
  <2> HIDE DEF never
  <2> QED
    BY <2>1, <2>2
<1>2. \A o \in Ops : At(o) = "idle"
  BY DEF Init, At
<1> QED
  BY <1>1, <1>2 DEF Init, Typed, TypeOK, OpRec

LEMMA TypedStep == Typed /\ [Next]_vars => Typed'
<1> SUFFICES ASSUME Typed, [Next]_vars PROVE Typed'
  OBVIOUS
<1> USE DEF Typed, TypeOK, At, Go, Steps, Registries
<1>1. ASSUME NEW o \in Ops, Refuse(o) PROVE Typed'
  BY <1>1 DEF Refuse
<1>2. ASSUME NEW o \in Ops, NEW force \in BOOLEAN, Generate(o, force) PROVE Typed'
  BY <1>2 DEF Generate
<1>3. ASSUME NEW o \in Ops, OpenConfig(o) PROVE Typed'
  BY <1>3 DEF OpenConfig
<1>4. ASSUME NEW o \in Ops, WriteConfig(o) PROVE Typed'
  BY <1>4 DEF WriteConfig
<1>5. ASSUME NEW o \in Ops, OpenIdentity(o) PROVE Typed'
  BY <1>5 DEF OpenIdentity
<1>6. ASSUME NEW o \in Ops, WriteIdentity(o) PROVE Typed'
  BY <1>6 DEF WriteIdentity
<1>7. ASSUME NEW o \in Ops, WritePeers(o) PROVE Typed'
  BY <1>7 DEF WritePeers
<1>8. ASSUME NEW o \in Ops, WriteServices(o) PROVE Typed'
  <2>1. op' \in [Ops -> OpRec] /\ op'[o].at = "idle" /\ \A p \in Ops \ {o} : op'[p] = op[p]
    BY <1>8, Ending DEF WriteServices, OpRec
  <2> QED
    BY <1>8, <2>1 DEF WriteServices, OpRec
<1>9. ASSUME NEW o \in Ops, Kill(o) PROVE Typed'
  <2>1. op' \in [Ops -> OpRec] /\ op'[o].at = "idle" /\ \A p \in Ops \ {o} : op'[p] = op[p]
    BY <1>9, Ending DEF Kill, OpRec
  <2> QED
    BY <1>9, <2>1 DEF Kill, OpRec
<1>10. ASSUME NEW f \in Registries, EditRegistry(f) PROVE Typed'
  BY <1>10 DEF EditRegistry
<1>11. CASE UNCHANGED vars
  BY <1>11 DEF vars
<1> QED
  BY <1>1, <1>2, <1>3, <1>4, <1>5, <1>6, <1>7, <1>8, <1>9, <1>10, <1>11 DEF Next, InitStep

\* Every state of the files and of the inits has its type, with any number of
\* terminals.
THEOREM TypeCorrect == Spec => []TypeOK
<1>1. Typed => TypeOK
  BY DEF Typed
<1> QED
  BY TypedInit, TypedStep, <1>1, PTL DEF Spec

-----------------------------------------------------------------------------
(***************************************************************************)
(* The files, with one terminal.  Config.toml is written first and never   *)
(* goes away, so an init that was not forced finds neither file; what it   *)
(* has passed is its own.                                                  *)
(***************************************************************************)
Files ==
  /\ config = Missing => identity = Missing
  /\ ready => config \in Nodes /\ config = identity /\ \A o \in Ops : At(o) = "idle"
  /\ \A o \in Ops : At(o) \in {"identity", "identity_open"} => config = op[o].node
  /\ \A o \in Ops : At(o) \in Registries => config = op[o].node /\ identity = op[o].node
  /\ \A o \in Ops : ~op[o].force /\ At(o) \in {"config", "config_open", "identity", "identity_open"}
                      => identity \in {Missing, Torn}

IInv == Typed /\ Files

LEMMA FilesInit == Init => Files
  BY DEF Init, Files, At, Registries

LEMMA FilesStep ==
  ASSUME OneTerminal, Typed, Files, [Next]_vars
  PROVE  Files'
<1> USE NodeAssumption DEF OneTerminal, Typed, TypeOK, Files, At, Go, Steps, Registries
<1>1. ASSUME NEW o \in Ops, Refuse(o) PROVE Files'
  BY <1>1 DEF Refuse
<1>2. ASSUME NEW o \in Ops, NEW force \in BOOLEAN, Generate(o, force) PROVE Files'
  <2>1. PICK n \in Nodes : op' = [op EXCEPT ![o] = [at |-> "config", node |-> n, force |-> force,
                                                   result |-> "none"]]
    BY <1>2 DEF Generate
  <2>2. \A p \in Ops : p = o /\ op'[p].at = "config" /\ op'[p].force = force
    BY <2>1
  <2>3. ready' => FALSE
    BY <1>2 DEF Generate
  <2>4. ~force => identity' = Missing
    BY <1>2 DEF Generate
  <2> QED
    BY <1>2, <2>2, <2>3, <2>4 DEF Generate
<1>3. ASSUME NEW o \in Ops, OpenConfig(o) PROVE Files'
  BY <1>3 DEF OpenConfig
<1>4. ASSUME NEW o \in Ops, WriteConfig(o) PROVE Files'
  BY <1>4 DEF WriteConfig
<1>5. ASSUME NEW o \in Ops, OpenIdentity(o) PROVE Files'
  BY <1>5 DEF OpenIdentity
<1>6. ASSUME NEW o \in Ops, WriteIdentity(o) PROVE Files'
  BY <1>6 DEF WriteIdentity
<1>7. ASSUME NEW o \in Ops, WritePeers(o) PROVE Files'
  BY <1>7 DEF WritePeers
<1>8. ASSUME NEW o \in Ops, WriteServices(o) PROVE Files'
  BY <1>8 DEF WriteServices
<1>9. ASSUME NEW o \in Ops, Kill(o) PROVE Files'
  BY <1>9 DEF Kill
<1>10. ASSUME NEW f \in Registries, EditRegistry(f) PROVE Files'
  BY <1>10 DEF EditRegistry
<1>11. CASE UNCHANGED vars
  BY <1>11 DEF vars
<1> QED
  BY <1>1, <1>2, <1>3, <1>4, <1>5, <1>6, <1>7, <1>8, <1>9, <1>10, <1>11 DEF Next, InitStep

LEMMA Inductive ==
  ASSUME OneTerminal
  PROVE  Spec => []IInv
<1>1. Init => IInv
  BY TypedInit, FilesInit DEF IInv
<1>2. IInv /\ [Next]_vars => IInv'
  BY TypedStep, FilesStep DEF IInv
<1> QED
  BY <1>1, <1>2, PTL DEF Spec

\* Once init has succeeded the node starts, with the id and the key of one init.
THEOREM ReadyStarts ==
  ASSUME OneTerminal
  PROVE  Spec => []ReadyNodeStarts
<1>1. IInv => ReadyNodeStarts
  BY NodeAssumption DEF IInv, Files, ReadyNodeStarts, LoadReport
<1> QED
  BY Inductive, <1>1, PTL

\* A key that was generated is only ever replaced by init --force.
KeyKept ==
  (identity \in Nodes /\ identity' # identity) => \E o \in Ops : At(o) # "idle" /\ op[o].force

LEMMA StepKeepsKey ==
  ASSUME IInv, [Next]_vars
  PROVE  KeyKept
<1> USE NodeAssumption DEF IInv, Typed, TypeOK, Files, KeyKept, At, Steps, Registries
<1>1. ASSUME NEW o \in Ops, OpenIdentity(o) PROVE KeyKept
  BY <1>1 DEF OpenIdentity
<1>2. ASSUME NEW o \in Ops, WriteIdentity(o) PROVE KeyKept
  BY <1>2 DEF WriteIdentity
<1>3. ASSUME NEW o \in Ops, Kill(o) PROVE KeyKept
  BY <1>3 DEF Kill
<1>4. CASE identity' = identity
  BY <1>4
<1> QED
  BY <1>1, <1>2, <1>3, <1>4 DEF Next, InitStep, Refuse, Generate, OpenConfig, WriteConfig,
     WritePeers, WriteServices, EditRegistry, vars

THEOREM KeyIsKept ==
  ASSUME OneTerminal
  PROVE  Spec => KeySurvives
<1>1. IInv /\ [Next]_vars => [KeyKept]_vars
  BY StepKeepsKey
<1>2. Spec => [][KeyKept]_vars
  BY Inductive, <1>1, PTL DEF Spec
<1> QED
  BY <1>2 DEF KeySurvives, KeyKept
=============================================================================
