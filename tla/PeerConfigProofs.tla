-------------------------- MODULE PeerConfigProofs --------------------------
(***************************************************************************)
(* Theorems of module PeerConfig, for any peers, tokens, CLI processes and *)
(* subcommands, with faults or without.                                    *)
(*                                                                         *)
(* InSync is not inductive.  The save of the daemon truncates the file and *)
(* writes it in a later step, and what that write leaves depends on what   *)
(* the file holds by then.  The invariant that is says so: the lock        *)
(* belongs to the one request that is being saved, and while no other      *)
(* writer has touched the file, it is empty from the truncation on.        *)
(***************************************************************************)
EXTENDS PeerConfig, TLAPS

ClientStep(c) ==
  \/ \E kind \in Kinds, p \in Peers, tok \in Tokens : Issue(c, kind, p, tok)
  \/ NotRunning(c) \/ BadRequest(c) \/ Adopt(c) \/ RemoveUnknown(c)
  \/ SaveOpens(c) \/ SaveWrites(c) \/ Reply(c) \/ SaveFails(c)
  \/ Load(c) \/ LoadRefused(c) \/ Open(c) \/ Write(c) \/ Kill(c)

LEMMA NextCases ==
  ASSUME Next
  PROVE  Boot \/ Listen \/ Exit \/ \E c \in Clients : ClientStep(c)
BY DEF Next, Ask, Proceed, ClientStep

(***************************************************************************)
(* What the registry operators return.                                     *)
(***************************************************************************)
LEMMA AddType ==
  ASSUME NEW r \in Registry, NEW p \in Peers, NEW tok \in Tokens
  PROVE  Add(r, p, tok) \in Registry
BY DEF Registry, Entry, Add, NewEntry

LEMMA RemoveType ==
  ASSUME NEW r \in Registry, NEW p \in Peers
  PROVE  Remove(r, p) \in Registry
BY DEF Registry, Remove

LEMMA SetEnabledType ==
  ASSUME NEW r \in Registry, NEW p \in Peers, NEW b \in BOOLEAN, Known(r, p)
  PROVE  SetEnabled(r, p, b) \in Registry
<1>1. r[p] \in Entry
  BY DEF Registry, Known
<1>2. [token |-> r[p].token, enabled |-> b] \in Entry
  BY <1>1 DEF Entry
<1> QED BY <1>2 DEF Registry, SetEnabled

LEMMA NoPeersType == NoPeers \in Registry
BY DEF NoPeers, Registry

LEMMA OverlayType ==
  ASSUME NEW m \in Registry, NEW f \in Files
  PROVE  Overlay(m, f) \subseteq Files
BY DEF Overlay, Files

LEMMA CutType ==
  ASSUME NEW m \in Registry, NEW f \in Files
  PROVE  Cut(m, f) \subseteq Files
BY DEF Cut, Files

\* A complete write of an empty file leaves exactly what was written.
LEMMA OverlayOfEmpty ==
  ASSUME NEW m
  PROVE  Overlay(m, Empty) = {m}
BY DEF Overlay

(***************************************************************************)
(* What the steps of a command do to the commands.                         *)
(***************************************************************************)
LEMMA Busy ==
  ASSUME TypeOK, NEW c \in Clients, At(c) # "idle"
  PROVE  client[c] \in Command
BY DEF TypeOK, At, Idle

LEMMA Goes ==
  ASSUME TypeOK, NEW c \in Clients, At(c) # "idle", NEW s \in Steps, Go(c, s)
  PROVE  /\ client' \in [Clients -> Command \cup {Idle}]
         /\ client'[c].at = s
         /\ client'[c].kind = client[c].kind /\ client'[c].peer = client[c].peer
         /\ client'[c].tok = client[c].tok /\ client'[c].local = client[c].local
         /\ \A b \in Clients : b # c => client'[b] = client[b]
<1>1. client[c] \in Command
  BY Busy
<1>2. client' = [client EXCEPT ![c] = [client[c] EXCEPT !.at = s]]
  BY DEF Go
<1>3. [client[c] EXCEPT !.at = s] \in Command
  BY <1>1 DEF Command
<1> QED BY <1>1, <1>2, <1>3 DEF TypeOK, Command

LEMMA Ends ==
  ASSUME TypeOK, NEW c \in Clients, End(c)
  PROVE  /\ client' \in [Clients -> Command \cup {Idle}]
         /\ client'[c].at = "idle"
         /\ \A b \in Clients : b # c => client'[b] = client[b]
BY DEF TypeOK, End, Idle

LEMMA Issued ==
  ASSUME TypeOK, NEW c \in Clients, NEW kind \in Kinds, NEW p \in Peers, NEW tok \in Tokens,
         Issue(c, kind, p, tok)
  PROVE  /\ client' \in [Clients -> Command \cup {Idle}]
         /\ client'[c].at = IF kind \in {"add", "remove"} THEN "asking" ELSE "loading"
         /\ client'[c].kind = kind /\ client'[c].peer = p /\ client'[c].tok = tok
         /\ \A b \in Clients : b # c => client'[b] = client[b]
BY KindAssumption, NoPeersType DEF TypeOK, Issue, Command, Steps

\* What a command that edits the file makes of the registry it has loaded.
Edited(c, r) ==
  CASE client[c].kind = "add"    -> Add(r, client[c].peer, client[c].tok)
    [] client[c].kind = "remove" -> Remove(r, client[c].peer)
    [] OTHER -> SetEnabled(r, client[c].peer, client[c].kind = "enable")

LEMMA EditedType ==
  ASSUME TypeOK, NEW c \in Clients, At(c) # "idle", NEW r \in Registry,
         client[c].kind = "add" \/ Known(r, client[c].peer)
  PROVE  Edited(c, r) \in Registry
<1>1. client[c] \in Command
  BY Busy
<1>2. Add(r, client[c].peer, client[c].tok) \in Registry /\ Remove(r, client[c].peer) \in Registry
  BY <1>1, AddType, RemoveType DEF Command
<1>3. client[c].kind \notin {"add", "remove"} =>
        SetEnabled(r, client[c].peer, client[c].kind = "enable") \in Registry
  BY <1>1, SetEnabledType DEF Command
<1> QED BY <1>2, <1>3 DEF Edited

LEMMA Loads ==
  ASSUME TypeOK, NEW c \in Clients, Load(c)
  PROVE  /\ client' \in [Clients -> Command \cup {Idle}]
         /\ client'[c].at = "opening" /\ client'[c].local = Edited(c, file)
         /\ client'[c].kind = client[c].kind /\ client'[c].peer = client[c].peer
         /\ client'[c].tok = client[c].tok
         /\ \A b \in Clients : b # c => client'[b] = client[b]
<1>1. client[c] \in Command /\ Edited(c, file) \in Registry
  BY Busy, EditedType DEF Load, At, Loadable
<1>2. client' = [client EXCEPT ![c] = [client[c] EXCEPT !.at = "opening", !.local = Edited(c, file)]]
  BY DEF Load, Edited
<1>3. [client[c] EXCEPT !.at = "opening", !.local = Edited(c, file)] \in Command
  BY <1>1 DEF Command, Steps
<1> QED BY <1>1, <1>2, <1>3 DEF TypeOK, Command

\* A client that waits when the daemon exits goes to the file, or has its answer.
LEMMA Exits ==
  ASSUME TypeOK, Exit
  PROVE  /\ client' \in [Clients -> Command \cup {Idle}]
         /\ \A c \in Clients :
              \/ client'[c] = client[c] /\ At(c) \notin Waiting
              \/ client'[c].at = "loading" /\ At(c) \in Waiting \cup {"answered"}
<1>1. PICK lost \in SUBSET {c \in Clients : At(c) = "answered"} :
        client' = [c \in Clients |->
                    IF At(c) \in Waiting \/ c \in lost
                    THEN [client[c] EXCEPT !.at = "loading"] ELSE client[c]]
  BY DEF Exit
<1>2. \A c \in Clients : At(c) # "idle" =>
        [client[c] EXCEPT !.at = "loading"] \in Command /\ [client[c] EXCEPT !.at = "loading"].at = "loading"
  BY Busy DEF Command, Steps
<1>3. \A c \in Clients : At(c) \in Waiting \/ c \in lost => At(c) # "idle" /\ At(c) \in Waiting \cup {"answered"}
  BY DEF Waiting
<1> QED BY <1>1, <1>2, <1>3 DEF TypeOK

LEMMA ReportType ==
  ASSUME NEW c \in Clients, TypeOK, At(c) # "idle", Report(c)
  PROVE  wanted' \in Registry
<1> DEFINE p == client[c].peer
           e == wanted[p]
<1>1. p \in Peers /\ client[c] \in Command /\ e \in Entry \cup {Absent}
  BY Busy DEF TypeOK, Command, Registry
<1>2. NewEntry(client[c].tok) \in Entry
  BY <1>1 DEF NewEntry, Entry, Command
<1>3. e \in Entry => [token |-> e.token, enabled |-> client[c].kind = "enable"] \in Entry
  BY DEF Entry
<1>4. Outcome(client[c], e) \in Entry \cup {Absent}
  BY <1>1, <1>2, <1>3 DEF Outcome, Command
<1> QED BY <1>1, <1>4 DEF Report, TypeOK, Registry

LEMMA TypeInductive ==
  /\ Init => TypeOK
  /\ TypeOK /\ [Next]_vars => TypeOK'
<1>1. Init => TypeOK
  BY NoPeersType DEF Init, Files, TypeOK
<1>2. ASSUME TypeOK, [Next]_vars PROVE TypeOK'
  <2>1. CASE UNCHANGED vars
    BY <1>2, <2>1 DEF vars, TypeOK
  <2>2. CASE Boot
    BY <1>2, <2>2 DEF Boot, Loadable, NoteSurvivors, TypeOK
  <2>5. CASE Listen
    BY <1>2, <2>5 DEF Listen, TypeOK
  <2>3. CASE Exit
    <3>1. file' \in Files
      BY <1>2, <2>3, CutType DEF Exit, DaemonCut, TypeOK
    <3> QED BY <1>2, <2>3, <3>1, Exits, NoPeersType DEF Exit, TypeOK
  <2>4. ASSUME NEW c \in Clients, ClientStep(c) PROVE TypeOK'
    <3>1. CASE \E kind \in Kinds, p \in Peers, tok \in Tokens : Issue(c, kind, p, tok)
      <4>1. PICK kind \in Kinds, p \in Peers, tok \in Tokens : Issue(c, kind, p, tok)
        BY <3>1
      <4>2. client' \in [Clients -> Command \cup {Idle}]
        BY <1>2, <4>1, Issued
      <4> QED BY <1>2, <4>1, <4>2 DEF Issue, TypeOK
    <3>2. CASE NotRunning(c) \/ BadRequest(c) \/ RemoveUnknown(c)
      BY <1>2, <3>2, Goes DEF NotRunning, BadRequest, RemoveUnknown, Steps, TypeOK
    <3>4. CASE Adopt(c)
      <4>1. client[c] \in Command
        BY <1>2, <3>4, Busy DEF Adopt
      <4>2. mem' \in Registry
        BY <1>2, <3>4, <4>1, AddType, RemoveType DEF Adopt, Command, TypeOK
      <4> QED BY <1>2, <3>4, <4>2, Goes DEF Adopt, Steps, TypeOK
    <3>6. CASE SaveOpens(c) \/ Open(c)
      BY <1>2, <3>6, Goes DEF SaveOpens, Open, Steps, Files, TypeOK
    <3>7. CASE SaveWrites(c)
      <4>1. file' \in Files
        BY <1>2, <3>7, OverlayType DEF SaveWrites, TypeOK
      <4> QED BY <1>2, <3>7, <4>1, Goes DEF SaveWrites, Steps, TypeOK
    <3>5. CASE Reply(c)
      <4>1. wanted' \in Registry
        BY <1>2, <3>5, ReportType DEF Reply
      <4> QED BY <1>2, <3>5, <4>1, Ends DEF Reply, TypeOK
    <3>8. CASE SaveFails(c)
      <4>1. file' \in Files
        BY <1>2, <3>8, CutType DEF SaveFails, TypeOK
      <4> QED BY <1>2, <3>8, <4>1, Goes DEF SaveFails, Waiting, Steps, TypeOK
    <3>9. CASE Load(c)
      BY <1>2, <3>9, Loads DEF Load, TypeOK
    <3>10. CASE LoadRefused(c)
      BY <1>2, <3>10, Ends DEF LoadRefused, TypeOK
    <3>12. CASE Write(c)
      <4>1. client[c] \in Command
        BY <1>2, <3>12, Busy DEF Write
      <4>2. wanted' \in Registry /\ file' \in Files
        BY <1>2, <3>12, <4>1, ReportType, OverlayType DEF Write, Command, TypeOK
      <4>3. bypassed' \in SUBSET Peers
        BY <1>2, <3>12, <4>1 DEF Write, Command, TypeOK
      <4> QED BY <1>2, <3>12, <4>2, <4>3, Ends DEF Write, TypeOK
    <3>13. CASE Kill(c)
      <4>1. client[c] \in Command
        BY <1>2, <3>13, Busy DEF Kill
      <4>2. file' \in Files
        BY <1>2, <3>13, <4>1, CutType DEF Kill, Command, TypeOK
      <4> QED BY <1>2, <3>13, <4>2, Ends DEF Kill, TypeOK
    <3> QED BY <2>4, <3>1, <3>2, <3>4, <3>5, <3>6, <3>7, <3>8, <3>9, <3>10, <3>12, <3>13 DEF ClientStep
  <2> QED BY <1>2, <2>1, <2>2, <2>3, <2>4, <2>5, NextCases
<1> QED BY <1>1, <1>2

\* Type correctness: in particular what is read from peers.toml into a daemon or
\* a command is always a registry.
THEOREM TypeCorrect == Spec => []TypeOK
BY TypeInductive, PTL DEF Spec

(***************************************************************************)
(* Saves of the daemon, one at a time.                                     *)
(***************************************************************************)
TruncatedIsEmpty ==
  \A c \in Clients : clean /\ At(c) = "truncated" => file = Empty

SyncInv == OneSaveAtATime /\ TruncatedIsEmpty /\ InSync

LEMMA SyncInductive ==
  /\ Init => SyncInv
  /\ TypeOK /\ SyncInv /\ [Next]_vars => SyncInv'
<1> USE DEF SyncInv, OneSaveAtATime, TruncatedIsEmpty, InSync, Waiting
<1>1. Init => SyncInv
  BY DEF Init, At, Idle
<1>2. ASSUME TypeOK, SyncInv, [Next]_vars PROVE SyncInv'
  <2>1. CASE UNCHANGED vars
    BY <1>2, <2>1 DEF vars, At
  <2>2. CASE Boot
    BY <1>2, <2>2 DEF Boot, At
  <2>5. CASE Listen
    BY <1>2, <2>5 DEF Listen, At
  <2>3. CASE Exit
    <3>1. \A c \in Clients : At(c)' \notin Waiting
      BY <1>2, <2>3, Exits DEF At
    <3> QED BY <1>2, <2>3, <3>1 DEF Exit
  <2>4. ASSUME NEW c \in Clients, ClientStep(c) PROVE SyncInv'
    <3> USE <1>2 DEF At
    <3>1. CASE \E kind \in Kinds, p \in Peers, tok \in Tokens : Issue(c, kind, p, tok)
      BY <3>1, Issued DEF Issue
    <3>2. CASE NotRunning(c) \/ BadRequest(c) \/ RemoveUnknown(c)
      BY <3>2, Goes DEF NotRunning, BadRequest, RemoveUnknown, Steps
    <3>4. CASE Adopt(c)
      BY <3>4, Goes, ClientAssumption DEF Adopt, Steps
    <3>6. CASE SaveOpens(c)
      BY <3>6, Goes, ClientAssumption DEF SaveOpens, Steps
    <3>7. CASE SaveWrites(c)
      <4>1. clean => file' = mem
        BY <3>7, OverlayOfEmpty DEF SaveWrites
      <4> QED BY <3>7, <4>1, Goes, ClientAssumption DEF SaveWrites, Steps
    <3>5. CASE Reply(c)
      BY <3>5, Ends DEF Reply
    <3>8. CASE SaveFails(c)
      BY <3>8, Goes DEF SaveFails, Steps
    <3>9. CASE Load(c)
      BY <3>9, Loads DEF Load
    <3>10. CASE LoadRefused(c)
      BY <3>10, Ends DEF LoadRefused
    <3>11. CASE Open(c)
      BY <3>11, Goes DEF Open, Steps
    <3>12. CASE Write(c)
      BY <3>12, Ends DEF Write
    <3>13. CASE Kill(c)
      BY <3>13, Ends DEF Kill, TypeOK
    <3> QED BY <2>4, <3>1, <3>2, <3>4, <3>5, <3>6, <3>7, <3>8, <3>9, <3>10, <3>11, <3>12, <3>13 DEF ClientStep
  <2> QED BY <1>2, <2>1, <2>2, <2>3, <2>4, <2>5, NextCases
<1> QED BY <1>1, <1>2

\* As long as only the daemon writes peers.toml, no crash changes what it has
\* acknowledged: the file is its memory whenever it is not saving.
THEOREM FileIsMemory == Spec => []InSync
<1>1. SyncInv => InSync
  BY DEF SyncInv
<1> QED BY <1>1, TypeInductive, SyncInductive, PTL DEF Spec

\* The write guard, held over the save, keeps the saves of one daemon apart.
THEOREM SavesExclude == Spec => []OneSaveAtATime
<1>1. SyncInv => OneSaveAtATime
  BY DEF SyncInv
<1> QED BY <1>1, TypeInductive, SyncInductive, PTL DEF Spec

(***************************************************************************)
(* One operator, without faults: EditsStick and OnlyConfiguredConnect, for *)
(* all kinds of commands.                                                  *)
(*                                                                         *)
(* What a command makes of its peer is Outcome, whether the daemon does it *)
(* in memory or the command does it in its own copy; the invariant follows *)
(* that entry to the file, and says that every other peer, unless it was   *)
(* edited behind the daemon's back, stays as it was asked for, in the file *)
(* and in the daemon's memory.                                             *)
(***************************************************************************)
OneBusy == \A b, c \in Clients : At(b) # "idle" /\ At(c) # "idle" => b = c

\* The registry r has what was asked for, where nothing was bypassed.
AsWanted(r) == \A p \in Peers \ bypassed : r[p] = wanted[p]

\* As OnlyConfiguredConnect has it, of the registries m and f.
Covered(m, f) ==
  \A p \in Peers : Enabled(m, p) => Known(f, p) /\ (Enabled(f, p) \/ p \in bypassed)

Settled ==
  /\ file \in Registry
  /\ AsWanted(file)
  /\ daemon # "down" => AsWanted(mem) /\ Covered(mem, file)

\* The same, while the peer p is being edited.
AsWantedBut(r, p) == \A q \in Peers \ bypassed : q # p => r[q] = wanted[q]

CoveredBut(m, f, p) ==
  \A q \in Peers : Enabled(m, q) => Known(f, q) /\ (Enabled(f, q) \/ q \in bypassed \/ q = p)

Wish(c) == Outcome(client[c], wanted[client[c].peer])

AtDaemon(c) ==
  /\ daemon = "serving"
  /\ client[c].kind \in {"add", "remove"}
  /\ AsWantedBut(mem, client[c].peer) /\ mem[client[c].peer] = Wish(c)

InCopy(c) ==
  /\ AsWantedBut(client[c].local, client[c].peer)
  /\ client[c].kind \in {"add", "remove"} \/ client[c].peer \notin bypassed
     => client[c].local[client[c].peer] = Wish(c)
  /\ daemon # "down" => /\ AsWantedBut(mem, client[c].peer)
                        /\ CoveredBut(mem, client[c].local, client[c].peer)

SerialStep(c) ==
  /\ daemon # "loaded"
  /\ At(c) = "asking" => Settled /\ client[c].kind \in {"add", "remove"}
  /\ At(c) \in {"adopted", "truncated", "answered"} => AtDaemon(c)
  /\ At(c) = "loading" =>
       Settled /\ (daemon # "down" /\ client[c].kind = "remove" => ~Known(mem, client[c].peer))
  /\ At(c) \in {"opening", "writing"} => InCopy(c)
  /\ At(c) \in {"truncated", "writing"} => file = Empty
  /\ At(c) = "answered" => file = mem

SerialInv ==
  /\ (\A c \in Clients : At(c) = "idle") => Settled
  /\ \A c \in Clients : At(c) # "idle" => SerialStep(c)

\* Of an add or a remove the outcome does not depend on the entry that was there.
LEMMA WishOfAdd ==
  ASSUME NEW c, NEW r \in Registry, client[c].peer \in Peers, client[c].kind = "add"
  PROVE  LET m == Add(r, client[c].peer, client[c].tok)
         IN  m[client[c].peer] = Wish(c) /\ \A q \in Peers : q # client[c].peer => m[q] = r[q]
BY DEF Wish, Outcome, Add, Registry

LEMMA WishOfRemove ==
  ASSUME NEW c, NEW r \in Registry, client[c].peer \in Peers, client[c].kind = "remove"
  PROVE  LET m == Remove(r, client[c].peer)
         IN  m[client[c].peer] = Wish(c) /\ \A q \in Peers : q # client[c].peer => m[q] = r[q]
BY DEF Wish, Outcome, Remove, Registry

\* The copy that a command edits has its wish, and every other entry of the file.
LEMMA WishOfCopy ==
  ASSUME TypeOK, NEW c \in Clients, At(c) # "idle", file \in Registry,
         client[c].kind = "add" \/ Known(file, client[c].peer)
  PROVE  /\ \A q \in Peers : q # client[c].peer => Edited(c, file)[q] = file[q]
         /\ client[c].kind # "remove" => Known(Edited(c, file), client[c].peer)
         /\ client[c].kind \in {"add", "remove"} \/ file[client[c].peer] = wanted[client[c].peer]
            => Edited(c, file)[client[c].peer] = Wish(c)
<1> DEFINE k == client[c]
           p == client[c].peer
<1>1. k \in Command /\ p \in Peers
  BY Busy DEF Command
<1>2. CASE k.kind \in {"add", "remove"}
  <2>1. NewEntry(k.tok) # Absent
    <3>1. k.tok \in Tokens
      BY <1>1 DEF Command
    <3>2. NewEntry(k.tok) \in Entry
      BY <3>1 DEF NewEntry, Entry
    <3> QED BY <3>2, AbsentAssumption
  <2>2. k.kind = "add" => Edited(c, file) = Add(file, p, k.tok)
    BY DEF Edited
  <2>3. k.kind = "remove" => Edited(c, file) = Remove(file, p)
    BY DEF Edited
  <2>4. Edited(c, file)[p] = Wish(c) /\ \A q \in Peers : q # p => Edited(c, file)[q] = file[q]
    <3>1. CASE k.kind = "add"
      BY <1>1, <2>2, <3>1, WishOfAdd
    <3>2. CASE k.kind = "remove"
      BY <1>1, <2>3, <3>2, WishOfRemove
    <3> QED BY <1>2, <3>1, <3>2
  <2>5. k.kind = "add" => Known(Edited(c, file), p)
    BY <2>1, <2>4 DEF Wish, Outcome, Known
  <2> QED BY <1>2, <2>4, <2>5
<1>3. CASE k.kind \notin {"add", "remove"}
  <2> DEFINE b == k.kind = "enable"
             e == [token |-> file[p].token, enabled |-> b]
  <2>1. Edited(c, file) = [file EXCEPT ![p] = e]
    BY <1>3 DEF Edited, SetEnabled
  <2>2. file[p] \in Entry /\ file[p] # Absent
    BY <1>1, <1>3 DEF Known, Registry
  <2>3. e \in Entry
    BY <2>2 DEF Entry
  <2>4. e # Absent
    BY <2>3, AbsentAssumption
  <2>5. Edited(c, file)[p] = e /\ \A q \in Peers : q # p => Edited(c, file)[q] = file[q]
    BY <1>1, <2>1 DEF Registry
  <2>6. file[p] = wanted[p] => Wish(c) = e
    BY <1>3, <2>2 DEF Wish, Outcome
  <2> HIDE DEF e, b
  <2> QED BY <1>3, <2>4, <2>5, <2>6 DEF Known
<1> QED BY <1>2, <1>3

\* What holds of the client c that takes a step.
Stepped(c) ==
  /\ At(c) = "idle" => Settled
  /\ At(c) # "idle" => SerialStep(c)

LEMMA AskStep ==
  ASSUME TypeOK, TypeOK', NEW c \in Clients, SerialStep(c),
         NotRunning(c) \/ BadRequest(c) \/ Adopt(c) \/ RemoveUnknown(c)
  PROVE  Stepped(c)'
<1>1. At(c) = "asking" /\ Settled /\ client[c].kind \in {"add", "remove"} /\ client[c] \in Command
  BY Busy DEF NotRunning, BadRequest, Adopt, RemoveUnknown, SerialStep
<1> USE DEF At
<1>2. CASE NotRunning(c) \/ BadRequest(c) \/ RemoveUnknown(c)
  <2>1. UNCHANGED <<file, daemon, mem, wanted, bypassed>> /\ Go(c, "loading")
    BY <1>2 DEF NotRunning, BadRequest, RemoveUnknown
  <2>2. client'[c].at = "loading" /\ client'[c].kind = client[c].kind
        /\ client'[c].peer = client[c].peer
    BY <1>1, <2>1, Goes DEF Steps
  <2>3. Settled'
    BY <1>1, <2>1 DEF Settled, AsWanted, Covered
  <2>4. daemon # "down" /\ client[c].kind = "remove" => ~Known(mem, client[c].peer)
    BY <1>1, <1>2 DEF NotRunning, BadRequest, RemoveUnknown, SerialStep, TypeOK
  <2> QED BY <2>1, <2>2, <2>3, <2>4 DEF Stepped, SerialStep, Known
<1>3. CASE Adopt(c)
  <2>1. /\ UNCHANGED <<file, daemon, wanted, bypassed>> /\ Go(c, "adopted") /\ daemon = "serving"
        /\ \/ client[c].kind = "add" /\ mem' = Add(mem, client[c].peer, client[c].tok)
           \/ client[c].kind = "remove" /\ mem' = Remove(mem, client[c].peer)
    BY <1>3 DEF Adopt
  <2>2. /\ client'[c].at = "adopted" /\ client'[c].kind = client[c].kind
        /\ client'[c].peer = client[c].peer /\ client'[c].tok = client[c].tok
    BY <1>1, <2>1, Goes DEF Steps
  <2>3. client[c].peer \in Peers /\ mem \in Registry
    BY <1>1 DEF Command, TypeOK
  <2>4. mem'[client[c].peer] = Wish(c) /\ \A q \in Peers : q # client[c].peer => mem'[q] = mem[q]
    <3>1. CASE client[c].kind = "add" /\ mem' = Add(mem, client[c].peer, client[c].tok)
      BY <2>3, <3>1, WishOfAdd
    <3>2. CASE client[c].kind = "remove" /\ mem' = Remove(mem, client[c].peer)
      BY <2>3, <3>2, WishOfRemove
    <3> QED BY <2>1, <3>1, <3>2
  <2>5. Wish(c)' = Wish(c)
    BY <1>1, <2>1, <2>2 DEF Wish, Outcome
  <2>6. AsWantedBut(mem, client[c].peer)'
    BY <1>1, <2>1, <2>2, <2>4 DEF Settled, AsWanted, AsWantedBut
  <2>7. AtDaemon(c)'
    BY <1>1, <2>1, <2>2, <2>4, <2>5, <2>6 DEF AtDaemon
  <2> QED BY <2>1, <2>2, <2>7 DEF Stepped, SerialStep
<1> QED BY <1>2, <1>3, Zenon

LEMMA SaveStep ==
  ASSUME TypeOK, TypeOK', NEW c \in Clients, SerialStep(c),
         SaveOpens(c) \/ SaveWrites(c) \/ Reply(c)
  PROVE  Stepped(c)'
<1> USE DEF At
<1>1. AtDaemon(c) /\ client[c] \in Command /\ client[c].peer \in Peers
  BY Busy DEF SaveOpens, SaveWrites, Reply, SerialStep, Command
<1>2. CASE SaveOpens(c) \/ SaveWrites(c)
  <2>1. UNCHANGED <<daemon, mem, wanted, bypassed>>
    BY <1>2 DEF SaveOpens, SaveWrites
  <2>2. \/ client'[c].at = "truncated" /\ file' = Empty
        \/ client'[c].at = "answered" /\ file' = mem
    BY <1>2, Goes, OverlayOfEmpty DEF SaveOpens, SaveWrites, SerialStep, Steps
  <2>3. /\ client'[c].kind = client[c].kind /\ client'[c].peer = client[c].peer
        /\ client'[c].tok = client[c].tok
    BY <1>2, Goes DEF SaveOpens, SaveWrites, Steps
  <2>4. Wish(c)' = Wish(c)
    BY <1>1, <2>1, <2>3 DEF AtDaemon, Wish, Outcome
  <2>5. AtDaemon(c)'
    BY <1>1, <2>1, <2>3, <2>4 DEF AtDaemon, AsWantedBut
  <2> QED BY <2>1, <2>2, <2>5 DEF Stepped, SerialStep, AtDaemon
<1>3. CASE Reply(c)
  <2> DEFINE p == client[c].peer
  <2>1. /\ UNCHANGED <<file, daemon, mem>> /\ file = mem /\ bypassed' = bypassed \ {p}
        /\ wanted' = [wanted EXCEPT ![p] = Wish(c)]
    BY <1>3 DEF Reply, Report, Wish, SerialStep
  <2>2. client'[c].at = "idle"
    BY <1>3, Ends DEF Reply
  <2>3. AsWanted(mem)'
    BY <1>1, <2>1 DEF AtDaemon, AsWanted, AsWantedBut, TypeOK, Registry
  <2>4. Covered(mem, file)'
    BY <2>1 DEF Covered, Enabled
  <2> QED BY <2>1, <2>2, <2>3, <2>4 DEF Stepped, Settled, AsWanted, TypeOK
<1> QED BY <1>2, <1>3

LEMMA EditStep ==
  ASSUME TypeOK, TypeOK', NEW c \in Clients, SerialStep(c),
         Load(c) \/ LoadRefused(c) \/ Open(c) \/ Write(c)
  PROVE  Stepped(c)'
<1> DEFINE k == client[c]
           p == client[c].peer
<1> USE DEF At
<1>0. k \in Command /\ p \in Peers
  BY Busy DEF Load, LoadRefused, Open, Write, Command
<1>1. CASE Load(c)
  <2> DEFINE copy == Edited(c, file)
  <2>1. Settled /\ UNCHANGED <<file, daemon, mem, wanted, bypassed>>
        /\ (daemon # "down" /\ k.kind = "remove" => ~Known(mem, p)) /\ daemon # "loaded"
    BY <1>1 DEF Load, SerialStep
  <2>2. /\ client'[c].at = "opening" /\ client'[c].local = copy
        /\ client'[c].kind = k.kind /\ client'[c].peer = p /\ client'[c].tok = k.tok
    BY <1>1, Loads
  <2>3. /\ \A q \in Peers : q # p => copy[q] = file[q]
        /\ k.kind # "remove" => Known(copy, p)
        /\ k.kind \in {"add", "remove"} \/ file[p] = wanted[p] => copy[p] = Wish(c)
    BY <1>1, <2>1, WishOfCopy DEF Load, Settled
  <2> HIDE DEF copy
  <2>4. Wish(c)' = Wish(c)
    BY <2>1, <2>2 DEF Wish, Outcome
  <2>5. AsWantedBut(copy, p) /\ (p \notin bypassed => file[p] = wanted[p])
    BY <1>0, <2>1, <2>3 DEF Settled, AsWanted, AsWantedBut
  <2>6. daemon # "down" => AsWantedBut(mem, p) /\ CoveredBut(mem, copy, p)
    BY <1>0, <2>1, <2>3 DEF Settled, AsWanted, AsWantedBut, Covered, CoveredBut, Enabled, Known
  <2>7. InCopy(c)'
    BY <2>1, <2>2, <2>3, <2>4, <2>5, <2>6 DEF InCopy, AsWantedBut, CoveredBut
  <2> QED BY <2>1, <2>2, <2>7 DEF Stepped, SerialStep
<1>2. CASE LoadRefused(c)
  <2>1. client'[c].at = "idle"
    BY <1>2, Ends DEF LoadRefused
  <2>2. Settled'
    BY <1>2 DEF LoadRefused, SerialStep, Settled, AsWanted, Covered
  <2> QED BY <2>1, <2>2 DEF Stepped
<1>3. CASE Open(c)
  <2>1. /\ client'[c].at = "writing" /\ client'[c].local = k.local
        /\ client'[c].kind = k.kind /\ client'[c].peer = p /\ client'[c].tok = k.tok
    BY <1>3, Goes DEF Open, Steps
  <2>2. UNCHANGED <<daemon, mem, wanted, bypassed>> /\ file' = Empty /\ InCopy(c)
        /\ daemon # "loaded"
    BY <1>3 DEF Open, SerialStep
  <2>3. Wish(c)' = Wish(c)
    BY <2>1, <2>2 DEF Wish, Outcome
  <2>4. InCopy(c)'
    BY <2>1, <2>2, <2>3 DEF InCopy, AsWantedBut, CoveredBut
  <2> QED BY <2>1, <2>2, <2>4 DEF Stepped, SerialStep
<1>4. CASE Write(c)
  <2>1. /\ UNCHANGED <<daemon, mem>> /\ wanted' = [wanted EXCEPT ![p] = Wish(c)]
        /\ file' = k.local /\ InCopy(c)
        /\ bypassed' = IF daemon # "down" THEN bypassed \cup {p}
                       ELSE IF k.kind \in {"add", "remove"} THEN bypassed \ {p} ELSE bypassed
    BY <1>4, OverlayOfEmpty DEF Write, SerialStep, Report, Wish
  <2>2. client'[c].at = "idle"
    BY <1>4, Ends DEF Write
  <2>3. k.local \in Registry /\ wanted \in Registry /\ mem \in Registry
    BY <1>0 DEF Command, TypeOK
  <2>4. /\ wanted'[p] = Wish(c) /\ \A q \in Peers : q # p => wanted'[q] = wanted[q]
    BY <1>0, <2>1, <2>3 DEF Registry
  <2>5. AsWanted(file)'
    <3>1. ASSUME NEW q \in Peers \ bypassed' PROVE file'[q] = wanted'[q]
      BY <1>0, <2>1, <2>4, <3>1 DEF InCopy, AsWantedBut
    <3> QED BY <3>1 DEF AsWanted
  <2>6. daemon # "down" => AsWanted(mem)' /\ Covered(mem, file)'
    BY <1>0, <2>1, <2>4 DEF InCopy, AsWanted, AsWantedBut, Covered, CoveredBut, Enabled, Known
  <2> QED BY <2>1, <2>2, <2>3, <2>5, <2>6 DEF Stepped, Settled
<1> QED BY <1>1, <1>2, <1>3, <1>4

\* A command that starts when nothing is under way; without faults the daemon
\* that is there listens.
LEMMA IssueStep ==
  ASSUME TypeOK, ~Faults, Settled, NEW c \in Clients, NEW kind \in Kinds, NEW p \in Peers,
         NEW tok \in Tokens, Issue(c, kind, p, tok)
  PROVE  At(c)' # "idle" /\ Stepped(c)'
<1>1. /\ client'[c].at = IF kind \in {"add", "remove"} THEN "asking" ELSE "loading"
      /\ client'[c].kind = kind
  BY Issued
<1>2. UNCHANGED <<file, daemon, mem, wanted, bypassed>> /\ daemon # "loaded"
  BY DEF Issue
<1>3. Settled'
  BY <1>2 DEF Settled, AsWanted, Covered
<1> QED BY <1>1, <1>2, <1>3 DEF Stepped, SerialStep, At

LEMMA SerialInductive ==
  /\ Init => SerialInv
  /\ ~Faults /\ TypeOK /\ SerialInv /\ OneBusy /\ OneBusy' /\ [Next]_vars => SerialInv'
<1>1. Init => SerialInv
  BY DEF Init, SerialInv, Settled, AsWanted, At, Idle
<1>2. ASSUME ~Faults, TypeOK, SerialInv, OneBusy, OneBusy', [Next]_vars
      PROVE  SerialInv'
  <2> USE <1>2
  <2>0. TypeOK'
    BY TypeInductive
  <2>1. CASE UNCHANGED vars
    BY <2>1 DEF vars, SerialInv, SerialStep, Settled, AsWanted, Covered, AtDaemon, InCopy,
                AsWantedBut, CoveredBut, Wish, Outcome, At
  <2>2. CASE Boot \/ Exit
    <3>1. \A c \in Clients : At(c) = "idle"
      BY <2>2 DEF Boot, Exit, Interruptible
    <3>2. \A c \in Clients : client'[c].at = "idle"
      <4>1. CASE Boot
        BY <3>1, <4>1 DEF Boot, At
      <4>2. CASE Exit
        BY <3>1, <4>2, Exits DEF Waiting, At
      <4> QED BY <2>2, <4>1, <4>2
    <3>3. Settled
      BY <3>1 DEF SerialInv
    <3>4. Settled'
      <4>1. CASE Boot
        <5>1. mem' = file /\ UNCHANGED <<file, wanted>>
              /\ bypassed' = {p \in bypassed : file[p] # wanted[p]}
          BY <4>1 DEF Boot, NoteSurvivors
        <5>2. AsWanted(file)'
          BY <3>3, <5>1 DEF Settled, AsWanted
        <5> QED BY <3>3, <5>1, <5>2 DEF Settled, AsWanted, Covered, Enabled
      <4>2. CASE Exit
        <5>1. UNCHANGED <<file, wanted, bypassed>> /\ daemon' = "down"
          BY <3>1, <4>2 DEF Exit, DaemonCut
        <5> QED BY <3>3, <5>1 DEF Settled, AsWanted
      <4> QED BY <2>2, <4>1, <4>2
    <3> QED BY <3>2, <3>4 DEF SerialInv, At
  <2>3. CASE Listen
    <3>1. \A c \in Clients : At(c) = "idle"
      BY <2>3 DEF Listen, SerialInv, SerialStep
    <3> QED BY <2>3, <3>1 DEF Listen, SerialInv, Settled, AsWanted, Covered, At
  <2>4. ASSUME NEW c \in Clients, ClientStep(c) PROVE SerialInv'
    <3>1. /\ At(c) # "idle" \/ At(c)' # "idle"
          /\ \A b \in Clients : b # c => client'[b] = client[b]
          /\ Stepped(c)'
      <4>1. CASE \E kind \in Kinds, p \in Peers, tok \in Tokens : Issue(c, kind, p, tok)
        <5>1. PICK kind \in Kinds, p \in Peers, tok \in Tokens : Issue(c, kind, p, tok)
          BY <4>1
        <5>2. client'[c].at # "idle" /\ \A b \in Clients : b # c => client'[b] = client[b]
          BY <5>1, Issued
        <5>3. \A b \in Clients : At(b) = "idle"
          BY <5>1, <5>2 DEF OneBusy, At, Issue
        <5>4. Settled
          BY <5>3 DEF SerialInv
        <5> QED BY <5>1, <5>2, <5>4, IssueStep
      <4>2. CASE NotRunning(c) \/ BadRequest(c) \/ Adopt(c) \/ RemoveUnknown(c)
        <5>1. At(c) = "asking" /\ (Go(c, "loading") \/ Go(c, "adopted"))
          BY <4>2 DEF NotRunning, BadRequest, Adopt, RemoveUnknown
        <5>2. \A b \in Clients : b # c => client'[b] = client[b]
          BY <5>1, Goes DEF Steps
        <5>3. Stepped(c)'
          BY <2>0, <4>2, <5>1, AskStep DEF SerialInv
        <5> QED BY <5>1, <5>2, <5>3
      <4>3. CASE SaveOpens(c) \/ SaveWrites(c) \/ Reply(c)
        <5>1. At(c) # "idle" /\ (Go(c, "truncated") \/ Go(c, "answered") \/ End(c))
          BY <4>3 DEF SaveOpens, SaveWrites, Reply
        <5>2. \A b \in Clients : b # c => client'[b] = client[b]
          BY <5>1, Goes, Ends DEF Steps
        <5>3. Stepped(c)'
          BY <2>0, <4>3, <5>1, SaveStep DEF SerialInv
        <5> QED BY <5>1, <5>2, <5>3
      <4>4. CASE Load(c) \/ LoadRefused(c) \/ Open(c) \/ Write(c)
        <5>1. At(c) # "idle" /\ (Load(c) \/ Go(c, "writing") \/ End(c))
          BY <4>4 DEF Load, LoadRefused, Open, Write
        <5>2. \A b \in Clients : b # c => client'[b] = client[b]
          BY <5>1, Loads, Goes, Ends DEF Steps
        <5>3. Stepped(c)'
          BY <2>0, <4>4, <5>1, EditStep DEF SerialInv
        <5> QED BY <5>1, <5>2, <5>3
      <4>5. ~SaveFails(c) /\ ~Kill(c)
        BY DEF SaveFails, Kill
      <4> QED BY <2>4, <4>1, <4>2, <4>3, <4>4, <4>5 DEF ClientStep
    <3>2. \A b \in Clients : b # c => At(b)' = "idle"
      BY <3>1 DEF OneBusy, At
    <3> QED BY <3>1, <3>2 DEF SerialInv, Stepped
  <2> QED BY <2>1, <2>2, <2>3, <2>4, NextCases
<1> QED BY <1>1, <1>2

LEMMA SerialImplies ==
  ASSUME TypeOK, SerialInv
  PROVE  EditsStick /\ OnlyConfiguredConnect
BY DEF SerialInv, Settled, AsWanted, Covered, EditsStick, OnlyConfiguredConnect, Loadable

\* One operator's commands, each reported as done, add up in peers.toml, whether a
\* daemon took them or not, over every start and exit of it, except for what was
\* edited behind the back of a daemon that has not been started again since.
THEOREM Sticks ==
  ASSUME ~Faults, NEW c, Clients = {c}
  PROVE  Spec => []EditsStick
<1>1. OneBusy
  BY DEF OneBusy
<1>2. OneBusy'
  BY DEF OneBusy
<1> QED BY <1>1, <1>2, TypeInductive, SerialInductive, SerialImplies, PTL DEF Spec

\* With that operator the daemon never lets a peer connect that the file does not
\* have, or has disabled otherwise than behind its back.
THEOREM ConfiguredOnly ==
  ASSUME ~Faults, NEW c, Clients = {c}
  PROVE  Spec => []OnlyConfiguredConnect
<1>1. OneBusy
  BY DEF OneBusy
<1>2. OneBusy'
  BY DEF OneBusy
<1> QED BY <1>1, <1>2, TypeInductive, SerialInductive, SerialImplies, PTL DEF Spec

=============================================================================
