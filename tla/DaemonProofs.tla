---------------------------- MODULE DaemonProofs ----------------------------
(***************************************************************************)
(* Theorems of module Daemon, for any peers, tokens and number of tasks.   *)
(*                                                                         *)
(* ConnectingHasOwner is inductive once the types are known, because only  *)
(* SetConnecting writes "connecting" and the task that writes it is an     *)
(* attempt until SetResult overwrites the entry.  NeverFabricated is       *)
(* strengthened by what a task remembers between its steps.                *)
(***************************************************************************)
EXTENDS Daemon, TLAPS

\* The disjuncts of Next, as the case analysis of every proof below.
AnyStep(t) ==
  \/ \E p \in Peers : ConnectPeer(t, p)
  \/ \E p \in Peers : RefuseConnect(t, p)
  \/ SetConnecting(t)
  \/ BackendConnect(t)
  \/ SetResult(t)
  \/ \E p \in Peers : DisconnectPeer(t, p)
  \/ RefuseDisconnect(t)
  \/ SetAvailable(t)
  \/ \E p \in Peers : \E kind \in {"adding", "removing"} : RequestWrite(t, p, kind)
  \/ \E tok \in Tokens : AddPeer(t, tok)
  \/ RemovePeer(t)
  \/ RemoveUnknown(t)
  \/ SavePeers(t)

LEMMA NextCases ==
  ASSUME Next
  PROVE  Restart \/ \E t \in Tasks : AnyStep(t)
BY DEF Next, Accept, HandlerStep, TakeWriteLock, AnyStep

\* An entry that is written is an entry.
LEMMA RegistryTypes ==
  ASSUME NEW r \in Registry, NEW p \in Peers, NEW tok \in Tokens
  PROVE  Add(r, p, tok) \in Registry /\ Remove(r, p) \in Registry
BY DEF Registry, Entry, Add, Remove, NewEntry

LEMMA StatusTypes ==
  /\ \A r \in Gots : StatusOf(r) \in Statuses
  /\ \A l \in BOOLEAN : Status("available", l) \in Statuses
  /\ Status("connecting", FALSE) \in Statuses
  /\ NoStatus \in Statuses
BY DEF Gots, Results, StatusOf, Status, Statuses, NoStatus

(***************************************************************************)
(* A task that is past its first step works on a peer, and one that has an *)
(* answer from the backend has one of its results.                         *)
(***************************************************************************)
TaskShape ==
  \A t \in Tasks :
    /\ task[t].at # "idle" => task[t].peer \in Peers
    /\ task[t].at = "dialed" => task[t].got \in Results

TypeInv == TypeOK /\ TaskShape

LEMMA TypeInvInductive ==
  /\ Init => TypeInv
  /\ TypeInv /\ [Next]_vars => TypeInv'
<1> USE DEF TypeInv, TypeOK, TaskShape
<1>1. Init => TypeInv
  BY StatusTypes DEF Init, Idle, At, Steps, Gots, Replies
<1>2. ASSUME TypeInv, [Next]_vars PROVE TypeInv'
  <2>1. CASE UNCHANGED vars
    BY <1>2, <2>1 DEF vars
  <2>2. CASE Restart
    BY <2>2, StatusTypes DEF Restart, Idle, At, Steps, Gots, Replies
  <2>3. ASSUME NEW t \in Tasks, AnyStep(t) PROVE TypeInv'
    <3>1. CASE \E p \in Peers : ConnectPeer(t, p)
      BY <1>2, <3>1 DEF ConnectPeer, At, Steps, Gots, Replies
    <3>2. CASE \E p \in Peers : RefuseConnect(t, p)
      BY <1>2, <3>2 DEF RefuseConnect, Finish, Idle, At, Steps, Gots, Replies
    <3>3. CASE SetConnecting(t)
      BY <1>2, <3>3, StatusTypes DEF SetConnecting, At, Steps, Gots, Replies
    <3>4. CASE BackendConnect(t)
      BY <1>2, <3>4 DEF BackendConnect, At, Steps, Gots, Results, Replies
    <3>5. CASE SetResult(t)
      <4>1. task[t].got \in Results /\ task[t].peer \in Peers
        BY <1>2, <3>5 DEF SetResult
      <4>2. StatusOf(task[t].got) \in Statuses /\ ReplyTo(task[t].got) \in Replies
        BY <4>1, StatusTypes DEF Gots, ReplyTo, Replies, Results
      <4> QED BY <1>2, <3>5, <4>1, <4>2 DEF SetResult, Finish, Idle, At, Steps, Gots
    <3>6. CASE \E p \in Peers : DisconnectPeer(t, p)
      BY <1>2, <3>6 DEF DisconnectPeer, At, Steps, Gots, Replies
    <3>7. CASE RefuseDisconnect(t)
      BY <1>2, <3>7 DEF RefuseDisconnect, Finish, Idle, At, Steps, Gots, Replies
    <3>8. CASE SetAvailable(t)
      BY <1>2, <3>8, StatusTypes DEF SetAvailable, Finish, Idle, At, Steps, Gots, Replies
    <3>9. CASE \E p \in Peers : \E kind \in {"adding", "removing"} : RequestWrite(t, p, kind)
      BY <1>2, <3>9 DEF RequestWrite, At, Steps, Gots, Replies
    <3>10. CASE \E tok \in Tokens : AddPeer(t, tok)
      BY <1>2, <3>10, RegistryTypes DEF AddPeer, At, Steps, Gots
    <3>11. CASE RemovePeer(t)
      <4>1. Remove(registry, task[t].peer) \in Registry
        BY <1>2, <3>11 DEF RemovePeer, Registry, Remove
      <4> QED BY <1>2, <3>11, <4>1 DEF RemovePeer, At, Steps, Gots
    <3>12. CASE RemoveUnknown(t)
      BY <1>2, <3>12 DEF RemoveUnknown, Finish, Idle, At, Steps, Gots, Replies
    <3>13. CASE SavePeers(t)
      BY <1>2, <3>13 DEF SavePeers, Finish, Idle, At, Steps, Gots, Replies
    <3> QED BY <2>3, <3>1, <3>2, <3>3, <3>4, <3>5, <3>6, <3>7, <3>8, <3>9, <3>10,
               <3>11, <3>12, <3>13 DEF AnyStep
  <2> QED BY <1>2, <2>1, <2>2, <2>3, NextCases
<1> QED BY <1>1, <1>2

\* Type correctness of the daemon: no interleaving of its handlers, and no
\* restart, leads to a table, a registry or a reply that the code cannot hold.
THEOREM TypeCorrect == Spec => []TypeOK
<1>1. TypeInv => TypeOK
  BY DEF TypeInv
<1> QED BY <1>1, TypeInvInductive, PTL DEF Spec

(***************************************************************************)
(* Connecting.                                                             *)
(***************************************************************************)
LEMMA OwnerInductive ==
  /\ Init => ConnectingHasOwner
  /\ TypeInv /\ ConnectingHasOwner /\ [Next]_vars => ConnectingHasOwner'
<1> USE DEF ConnectingHasOwner, Attempts, TypeInv, TypeOK
<1>1. Init => ConnectingHasOwner
  BY DEF Init, NoStatus, Status
<1>2. ASSUME TypeInv, ConnectingHasOwner, [Next]_vars PROVE ConnectingHasOwner'
  <2>1. CASE UNCHANGED vars
    BY <1>2, <2>1 DEF vars
  <2>2. CASE Restart
    BY <2>2 DEF Restart, NoStatus, Status
  <2>3. ASSUME NEW t \in Tasks, AnyStep(t) PROVE ConnectingHasOwner'
    <3>1. CASE \E p \in Peers : ConnectPeer(t, p)
      BY <1>2, <3>1 DEF ConnectPeer, At, Idle
    <3>2. CASE \E p \in Peers : RefuseConnect(t, p)
      BY <1>2, <3>2 DEF RefuseConnect, At, Idle, Finish
    <3>3. CASE SetConnecting(t)
      BY <1>2, <3>3 DEF SetConnecting, At, Status, Statuses, TaskShape
    <3>4. CASE BackendConnect(t)
      BY <1>2, <3>4 DEF BackendConnect, At, Idle
    <3>5. CASE SetResult(t)
      <4>1. task[t].peer \in Peers /\ StatusOf(task[t].got).state # "connecting"
        BY <1>2, <3>5 DEF SetResult, TaskShape, StatusOf, Status
      <4> QED BY <1>2, <3>5, <4>1 DEF SetResult, Finish, Idle, At
    <3>6. CASE \E p \in Peers : DisconnectPeer(t, p)
      BY <1>2, <3>6 DEF DisconnectPeer, At, Idle
    <3>7. CASE RefuseDisconnect(t)
      BY <1>2, <3>7 DEF RefuseDisconnect, At, Idle, Finish
    <3>8. CASE SetAvailable(t)
      BY <1>2, <3>8 DEF SetAvailable, Finish, Idle, At, Status
    <3>9. CASE \E p \in Peers : \E kind \in {"adding", "removing"} : RequestWrite(t, p, kind)
      BY <1>2, <3>9 DEF RequestWrite, At, Idle
    <3>10. CASE \E tok \in Tokens : AddPeer(t, tok)
      BY <1>2, <3>10 DEF AddPeer, At, Idle
    <3>11. CASE RemovePeer(t)
      BY <1>2, <3>11 DEF RemovePeer, At, Idle
    <3>12. CASE RemoveUnknown(t)
      BY <1>2, <3>12 DEF RemoveUnknown, At, Idle, Finish
    <3>13. CASE SavePeers(t)
      BY <1>2, <3>13 DEF SavePeers, At, Idle, Finish
    <3> QED BY <2>3, <3>1, <3>2, <3>3, <3>4, <3>5, <3>6, <3>7, <3>8, <3>9, <3>10, <3>11, <3>12, <3>13 DEF AnyStep
  <2> QED BY <1>2, <2>1, <2>2, <2>3, NextCases
<1> QED BY <1>1, <1>2

\* A peer shown as connecting always has a handler that is going to write its
\* outcome, however many handlers connect and disconnect it at once.
THEOREM ConnectingOwned == Spec => []ConnectingHasOwner
BY TypeInvInductive, OwnerInductive, PTL DEF Spec

(***************************************************************************)
(* Fabrication.  Between its steps a handler carries the answer of the     *)
(* backend, or the last_connected it read; both must be backed by a pong   *)
(* for the entry it is going to write to be.                               *)
(***************************************************************************)
CarriedIsTrue ==
  \A t \in Tasks :
    /\ task[t].at = "dialed" /\ task[t].got = "pong" => task[t].peer \in ponged
    /\ task[t].at = "resetting" /\ task[t].got = "last" => task[t].peer \in ponged

LEMMA PongInductive ==
  /\ Init => NeverFabricated /\ CarriedIsTrue
  /\ TypeInv /\ NeverFabricated /\ CarriedIsTrue /\ [Next]_vars
       => NeverFabricated' /\ CarriedIsTrue'
<1> USE DEF NeverFabricated, CarriedIsTrue, TypeInv, TypeOK
<1>1. Init => NeverFabricated /\ CarriedIsTrue
  BY DEF Init, NoStatus, Status, Idle, At
<1>2. ASSUME TypeInv, NeverFabricated, CarriedIsTrue, [Next]_vars
      PROVE  NeverFabricated' /\ CarriedIsTrue'
  <2>1. CASE UNCHANGED vars
    BY <1>2, <2>1 DEF vars
  <2>2. CASE Restart
    BY <2>2 DEF Restart, NoStatus, Status, Idle, At
  <2>3. ASSUME NEW t \in Tasks, AnyStep(t) PROVE NeverFabricated' /\ CarriedIsTrue'
    <3>1. CASE \E p \in Peers : ConnectPeer(t, p)
      BY <1>2, <3>1 DEF ConnectPeer, At, Idle
    <3>2. CASE \E p \in Peers : RefuseConnect(t, p)
      BY <1>2, <3>2 DEF RefuseConnect, At, Idle, Finish
    <3>3. CASE SetConnecting(t)
      BY <1>2, <3>3 DEF SetConnecting, At, Status, Statuses, TaskShape
    <3>4. CASE BackendConnect(t)
      BY <1>2, <3>4 DEF BackendConnect, At, Results, TaskShape
    <3>5. CASE SetResult(t)
      <4>1. /\ task[t].peer \in Peers
            /\ \/ StatusOf(task[t].got).state = "connected"
               \/ StatusOf(task[t].got).last
               => task[t].peer \in ponged
        BY <1>2, <3>5 DEF SetResult, TaskShape, StatusOf, Status
      <4> QED BY <1>2, <3>5, <4>1 DEF SetResult, Finish, Idle, At
    <3>6. CASE \E p \in Peers : DisconnectPeer(t, p)
      BY <1>2, <3>6 DEF DisconnectPeer, At, Idle
    <3>7. CASE RefuseDisconnect(t)
      BY <1>2, <3>7 DEF RefuseDisconnect, At, Idle, Finish
    <3>8. CASE SetAvailable(t)
      BY <1>2, <3>8 DEF SetAvailable, Finish, Idle, At, Status, TaskShape
    <3>9. CASE \E p \in Peers : \E kind \in {"adding", "removing"} : RequestWrite(t, p, kind)
      BY <1>2, <3>9 DEF RequestWrite, At, Idle
    <3>10. CASE \E tok \in Tokens : AddPeer(t, tok)
      BY <1>2, <3>10 DEF AddPeer, At, Idle
    <3>11. CASE RemovePeer(t)
      BY <1>2, <3>11 DEF RemovePeer, At, Idle
    <3>12. CASE RemoveUnknown(t)
      BY <1>2, <3>12 DEF RemoveUnknown, At, Idle, Finish
    <3>13. CASE SavePeers(t)
      BY <1>2, <3>13 DEF SavePeers, At, Idle, Finish
    <3> QED BY <2>3, <3>1, <3>2, <3>3, <3>4, <3>5, <3>6, <3>7, <3>8, <3>9, <3>10, <3>11, <3>12, <3>13 DEF AnyStep
  <2> QED BY <1>2, <2>1, <2>2, <2>3, NextCases
<1> QED BY <1>1, <1>2

\* "We never fabricate connection state": whatever the handlers overlap, the
\* table shows no connection, present or past, that no pong stands for.
THEOREM NothingFabricated == Spec => []NeverFabricated
BY TypeInvInductive, PongInductive, PTL DEF Spec

(***************************************************************************)
(* Refinement.  SetConnecting begins an attempt, SetResult settles it,     *)
(* SetAvailable releases, Restart reboots; every other step of the daemon  *)
(* leaves the book alone.                                                  *)
(***************************************************************************)
LEMMA BookStep ==
  /\ Init => Book!Init
  /\ TypeInv /\ [Next]_vars => [Book!Next]_Book!bookVars
<1>1. Init => Book!Init
  BY DEF Init, Book!Init, Attempts, NoStatus, Status, Idle, At
<1>2. ASSUME TypeInv, [Next]_vars PROVE [Book!Next]_Book!bookVars
  <2>1. CASE UNCHANGED vars
    BY <2>1 DEF vars, Attempts, Book!bookVars
  <2>2. CASE Restart
    <3>1. Book!Reboot
      BY <2>2 DEF Restart, Book!Reboot, Attempts, NoStatus, Status, Idle, At
    <3> QED BY <3>1 DEF Book!Next
  <2>3. ASSUME NEW t \in Tasks, AnyStep(t) PROVE [Book!Next]_Book!bookVars
    <3>1. CASE \E p \in Peers : ConnectPeer(t, p)
      BY <1>2, <3>1 DEF ConnectPeer, Idle, At, TypeInv, TypeOK, Attempts, Book!bookVars
    <3>2. CASE \E p \in Peers : RefuseConnect(t, p)
      BY <1>2, <3>2 DEF RefuseConnect, Finish, Idle, At, TypeInv, TypeOK, Attempts, Book!bookVars
    <3>3. CASE SetConnecting(t)
      <4>1. PICK p \in Peers : p = task[t].peer
        BY <1>2, <3>3 DEF SetConnecting, TypeInv, TaskShape
      <4>2. \A q \in Peers : t \notin Attempts(q)
        BY <3>3 DEF SetConnecting, Attempts
      <4>3. table' = [table EXCEPT ![p] = Status("connecting", FALSE)]
        BY <3>3, <4>1 DEF SetConnecting
      <4>4. \A q \in Peers : Attempts(q)' = IF q = p THEN Attempts(q) \cup {t} ELSE Attempts(q)
        BY <1>2, <3>3, <4>1 DEF SetConnecting, At, TypeInv, TypeOK, Attempts
      <4>5. Book!Begin(p, t)
        BY <1>2, <4>2, <4>3, <4>4 DEF Book!Begin, TypeInv, TypeOK, Statuses, Status
      <4> QED BY <4>5 DEF Book!Next
    <3>4. CASE BackendConnect(t)
      BY <1>2, <3>4 DEF BackendConnect, Idle, At, TypeInv, TypeOK, Attempts, Book!bookVars
    <3>5. CASE SetResult(t)
      <4>1. PICK p \in Peers : p = task[t].peer
        BY <1>2, <3>5 DEF SetResult, TypeInv, TaskShape
      <4>2. PICK s \in Book!Outcomes : s = StatusOf(task[t].got).state
        BY <1>2, <3>5 DEF SetResult, TypeInv, TaskShape, StatusOf, Status, Book!Outcomes
      <4>3. t \in Attempts(p)
        BY <3>5, <4>1 DEF SetResult, Attempts
      <4>4. table' = [table EXCEPT ![p] = StatusOf(task[t].got)]
        BY <3>5, <4>1 DEF SetResult
      <4>5. \A q \in Peers : Attempts(q)' = IF q = p THEN Attempts(q) \ {t} ELSE Attempts(q)
        BY <1>2, <3>5, <4>1 DEF SetResult, Finish, Idle, At, TypeInv, TypeOK, Attempts
      <4>6. Book!Settle(p, t, s)
        BY <1>2, <4>2, <4>3, <4>4, <4>5 DEF Book!Settle, TypeInv, TypeOK
      <4> QED BY <4>6 DEF Book!Next
    <3>6. CASE \E p \in Peers : DisconnectPeer(t, p)
      BY <1>2, <3>6 DEF DisconnectPeer, Idle, At, TypeInv, TypeOK, Attempts, Book!bookVars
    <3>7. CASE RefuseDisconnect(t)
      BY <1>2, <3>7 DEF RefuseDisconnect, Finish, Idle, At, TypeInv, TypeOK, Attempts, Book!bookVars
    <3>8. CASE SetAvailable(t)
      <4>1. PICK p \in Peers : p = task[t].peer
        BY <1>2, <3>8 DEF SetAvailable, TypeInv, TaskShape
      <4>2. \A q \in Peers : Attempts(q)' = Attempts(q)
        BY <1>2, <3>8 DEF SetAvailable, Finish, Idle, At, TypeInv, TypeOK, Attempts
      <4>3. Book!Release(p)
        BY <1>2, <3>8, <4>1, <4>2 DEF SetAvailable, Book!Release, Status, TypeInv, TypeOK
      <4> QED BY <4>3 DEF Book!Next
    <3>9. CASE \E p \in Peers : \E kind \in {"adding", "removing"} : RequestWrite(t, p, kind)
      BY <1>2, <3>9 DEF RequestWrite, Idle, At, TypeInv, TypeOK, Attempts, Book!bookVars
    <3>10. CASE \E tok \in Tokens : AddPeer(t, tok)
      BY <1>2, <3>10 DEF AddPeer, Idle, At, TypeInv, TypeOK, Attempts, Book!bookVars
    <3>11. CASE RemovePeer(t)
      BY <1>2, <3>11 DEF RemovePeer, Idle, At, TypeInv, TypeOK, Attempts, Book!bookVars
    <3>12. CASE RemoveUnknown(t)
      BY <1>2, <3>12 DEF RemoveUnknown, Finish, Idle, At, TypeInv, TypeOK, Attempts, Book!bookVars
    <3>13. CASE SavePeers(t)
      BY <1>2, <3>13 DEF SavePeers, Finish, Idle, At, TypeInv, TypeOK, Attempts, Book!bookVars
    <3> QED BY <2>3, <3>1, <3>2, <3>3, <3>4, <3>5, <3>6, <3>7, <3>8, <3>9, <3>10, <3>11, <3>12, <3>13 DEF AnyStep
  <2> QED BY <1>2, <2>1, <2>2, <2>3, NextCases
<1> QED BY <1>1, <1>2

\* The daemon implements the connection book: an outcome is only ever written
\* by an attempt that is still open.
THEOREM ImplementsBook == Spec => BookSpec
BY TypeInvInductive, BookStep, PTL DEF Spec, BookSpec, Book!Spec

=============================================================================
