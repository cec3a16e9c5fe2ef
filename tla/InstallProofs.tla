--------------------------- MODULE InstallProofs ---------------------------
(***************************************************************************)
(* Theorems of module Install, for any platforms and any number of         *)
(* releases.                                                               *)
(*                                                                         *)
(* InstalledIsWhole says what is true when an install has ended.  Its      *)
(* invariant follows the binary on its way: once tar has ended, each file  *)
(* that the search may find is of the release that was asked for, or was   *)
(* left by an earlier install at a path of its own; and so is the one that *)
(* is copied.  That of EveryMethodTried says how far along the chain an    *)
(* install is: what is left to try is the end of what was detected, and    *)
(* everything before it has failed.                                        *)
(***************************************************************************)
EXTENDS Install, SequenceTheorems, TLAPS

Chosen == Methods \cup {"unknown"}

\* Every call of `install`.
Call(force) ==
  Already(force) \/ InstallAuto(force) \/ \E m \in Chosen : InstallWith(m, force)

LEMMA NextCases ==
  ASSUME Next
  PROVE  (\E force \in BOOLEAN : Call(force)) \/ Step \/ Kill \/ Publish
BY DEF Next, Call, Chosen

(***************************************************************************)
(* What the operators on chains return.                                    *)
(***************************************************************************)
LEMMA ConcatType ==
  ASSUME NEW S, NEW s \in Seq(S), NEW t \in Seq(S)
  PROVE  s \o t \in Seq(S) /\ Len(s \o t) = Len(s) + Len(t)
OBVIOUS

LEMMA IfType ==
  ASSUME NEW m \in Managers
  PROVE  If(m) \in Seq(Methods) /\ Len(If(m)) \in 0 .. 1
<1>1. m \in Methods
  BY DEF Methods
<1>2. <<m>> \in Seq(Methods) /\ Len(<<m>>) = 1
  BY <1>1
<1>3. <<>> \in Seq(Methods) /\ Len(<<>>) = 0
  OBVIOUS
<1>4. CASE m \in host.tools
  BY <1>2, <1>4 DEF If
<1>5. CASE m \notin host.tools
  BY <1>3, <1>5 DEF If
<1> QED BY <1>4, <1>5

\* Whatever is installed, one to four methods are offered.
LEMMA DetectedType ==
  /\ detect_methods \in Seq(Methods)
  /\ Len(detect_methods) \in 1 .. 4
<1> DEFINE download == <<"binary">>
<1>1. download \in Seq(Methods) /\ Len(download) = 1
  BY DEF Methods
<1> HIDE DEF download
<1>2. If("go") \o download \in Seq(Methods) /\ Len(If("go") \o download) \in 1 .. 2
  <2>1. If("go") \in Seq(Methods) /\ Len(If("go")) \in 0 .. 1
    BY IfType DEF Managers
  <2>2. /\ If("go") \o download \in Seq(Methods)
        /\ Len(If("go") \o download) = Len(If("go")) + Len(download)
    BY <1>1, <2>1, ConcatType, Zenon
  <2> QED BY <1>1, <2>1, <2>2
<1>3. ASSUME NEW m \in Managers
      PROVE  LET s == If(m) \o If("go") \o If("nix") \o download
             IN  s \in Seq(Methods) /\ Len(s) \in 1 .. 4
  <2> DEFINE s2 == If(m) \o If("go")
             s3 == s2 \o If("nix")
             s4 == s3 \o download
  <2>1. /\ If(m) \in Seq(Methods) /\ Len(If(m)) \in 0 .. 1
        /\ If("go") \in Seq(Methods) /\ Len(If("go")) \in 0 .. 1
        /\ If("nix") \in Seq(Methods) /\ Len(If("nix")) \in 0 .. 1
    BY IfType DEF Managers
  <2>2. s2 \in Seq(Methods) /\ Len(s2) = Len(If(m)) + Len(If("go"))
    BY <2>1, ConcatType, Zenon
  <2> HIDE DEF s2
  <2>3. s3 \in Seq(Methods) /\ Len(s3) = Len(s2) + Len(If("nix"))
    BY <2>1, <2>2, ConcatType, Zenon
  <2> HIDE DEF s3
  <2>4. s4 \in Seq(Methods) /\ Len(s4) = Len(s3) + Len(download)
    BY <1>1, <2>3, ConcatType, Zenon
  <2> HIDE DEF s4
  <2>5. PICK i \in 0 .. 1, j \in 0 .. 1, k \in 0 .. 1 :
          Len(If(m)) = i /\ Len(If("go")) = j /\ Len(If("nix")) = k
    BY <2>1
  <2>6. Len(s4) = i + j + k + 1
    BY <1>1, <2>2, <2>3, <2>4, <2>5
  <2>7. s4 \in Seq(Methods) /\ Len(s4) \in 1 .. 4
    BY <2>4, <2>6
  <2> QED BY <2>7 DEF s4, s3, s2
<1>4. "brew" \in Managers /\ "aur" \in Managers
  BY DEF Managers
<1>5. CASE host.platform[1] \in {"macos", "linux"}
  BY <1>3, <1>4, <1>5 DEF detect_methods, download
<1>6. CASE host.platform[1] = "windows"
  BY <1>1, <1>6 DEF detect_methods, download
<1>7. CASE host.platform[1] \notin {"macos", "linux", "windows"}
  BY <1>2, <1>7 DEF detect_methods, download
<1> QED BY <1>5, <1>6, <1>7

LEMMA TailOfChain ==
  ASSUME NEW S, NEW s \in Seq(S), Len(s) > 1
  PROVE  /\ Tail(s) \in Seq(S) /\ Tail(s) # <<>>
         /\ Len(Tail(s)) = Len(s) - 1
         /\ \A i \in 1 .. Len(s) - 1 : Tail(s)[i] = s[i + 1]
         /\ Head(s) = s[1]
<1>1. Len(s) \in Nat /\ s # <<>> /\ Head(s) = s[1]
  OBVIOUS
<1>2. /\ Tail(s) \in Seq(S) /\ Len(Tail(s)) = Len(s) - 1
      /\ \A i \in 1 .. Len(Tail(s)) : Tail(s)[i] = s[i + 1]
  BY <1>1, HeadTailProperties
<1>3. Tail(s) # <<>>
  <2>1. Len(Tail(s)) # 0
    BY <1>1, <1>2
  <2> QED BY <1>2, <2>1, EmptySeq, Zenon
<1> QED BY <1>1, <1>2, <1>3

\* The current method has failed: there is one left to try, or none.
LEMMA FailType ==
  ASSUME TypeOK, at # "idle", Fail
  PROVE  /\ todo' \in Seq(Chosen) /\ Len(todo') <= 4 /\ (at' # "idle" => todo' # <<>>)
         /\ at' \in {"idle", "running"} /\ result' \in Results
         /\ at' # "idle" => result' = result
<1>1. todo \in Seq(Chosen) /\ Len(todo) <= 4 /\ todo # <<>> /\ result \in Results
  BY DEF TypeOK, Chosen
<1>2. CASE Len(todo) > 1
  <2>1. Tail(todo) \in Seq(Chosen) /\ Tail(todo) # <<>> /\ Len(Tail(todo)) = Len(todo) - 1
    BY <1>1, <1>2, TailOfChain
  <2>2. todo' = Tail(todo) /\ at' = "running" /\ result' = result
    BY <1>2 DEF Fail
  <2>3. Len(todo) \in Nat
    BY <1>1
  <2>4. Len(todo') <= 4
    BY <1>1, <2>1, <2>2, <2>3
  <2> QED BY <1>1, <2>1, <2>2, <2>4
<1>3. CASE ~(Len(todo) > 1)
  BY <1>1, <1>3 DEF Fail, Results
<1> QED BY <1>2, <1>3

\* Only the method "binary" downloads, and knows the release it is after; and an
\* install that runs has printed no result yet.
Tagged ==
  /\ at \notin {"idle", "running"} => Head(todo) = "binary" /\ tag \in Release
  /\ at # "idle" => result = "none"

TypeInv == TypeOK /\ Tagged

LEMMA RemovedType ==
  ASSUME TypeOK
  PROVE  Removed \subseteq [Paths -> Binary]
BY DEF Removed, TypeOK, Binary

LEMMA TypeInductive ==
  /\ Init => TypeInv
  /\ TypeInv /\ [Next]_vars => TypeInv'
<1> USE DEF TypeInv, Tagged
<1>1. Init => TypeInv
  <2>1. <<>> \in Seq(Chosen) /\ Len(<<>>) = 0 /\ 1 \in Release
    BY ReleaseAssumption DEF Release
  <2>2. ASSUME Init PROVE todo \in Seq(Chosen) /\ Len(todo) <= 4
    BY <2>1, <2>2 DEF Init
  <2> QED BY <2>1, <2>2 DEF Init, TypeOK, Binary, Steps, Results, Chosen
<1>2. ASSUME TypeInv, [Next]_vars PROVE TypeInv'
  <2> USE <1>2
  <2>1. CASE UNCHANGED vars
    BY <2>1 DEF vars, TypeOK
  <2>2. ASSUME NEW force \in BOOLEAN, Call(force) PROVE TypeInv'
    <3>1. CASE Already(force)
      BY <3>1 DEF Already, TypeOK, Results
    <3>2. CASE InstallAuto(force)
      <4>1. detect_methods \in Seq(Chosen) /\ Len(detect_methods) <= 4 /\ detect_methods # <<>>
        <5>1. detect_methods \in Seq(Chosen)
          BY DetectedType DEF Chosen
        <5>2. PICK n \in 1 .. 4 : Len(detect_methods) = n
          BY DetectedType
        <5>3. detect_methods # <<>>
          BY <5>2
        <5> QED BY <5>1, <5>2, <5>3
      <4>2. /\ todo' = detect_methods /\ at' = "running" /\ auto' = TRUE /\ tag' = 0
            /\ result' = "none" /\ refused' = {}
            /\ left' = {} /\ UNCHANGED <<host, latest, bin, layout, extracted>>
        BY <3>2 DEF InstallAuto, Begin
      <4> QED BY <4>1, <4>2 DEF TypeOK, Steps, Results, Chosen
    <3>3. ASSUME NEW m \in Chosen, InstallWith(m, force) PROVE TypeInv'
      <4>1. <<m>> \in Seq(Chosen) /\ Len(<<m>>) <= 4 /\ <<m>> # <<>>
        OBVIOUS
      <4>2. /\ todo' = <<m>> /\ at' = "running" /\ auto' = FALSE /\ tag' = 0
            /\ result' = "none" /\ refused' = {}
            /\ left' = {} /\ UNCHANGED <<host, latest, bin, layout, extracted>>
        BY <3>3 DEF InstallWith, Begin
      <4> QED BY <4>1, <4>2 DEF TypeOK, Steps, Results, Chosen
    <3> QED BY <2>2, <3>1, <3>2, <3>3 DEF Call
  <2>3. CASE Step
    <3>1. todo \in Seq(Chosen) /\ (at # "idle" => todo # <<>>) /\ latest \in Release
      BY DEF TypeOK, Chosen
    <3>2. at # "idle" => Head(todo) \in Chosen
      BY <3>1
    <3>3. CASE RunManager
      BY <3>1, <3>3 DEF RunManager, Succeed, TypeOK, Binary, Places, Steps, Results
    <3>4. CASE ManagerFails
      <4>1. Fail /\ at # "idle" /\ refused' = refused \cup {Head(todo)}
            /\ Head(todo) \in Methods
        BY <3>4 DEF ManagerFails, Refuse, Methods
      <4> QED BY <3>4, <4>1, FailType DEF ManagerFails, TypeOK, Chosen, Steps
    <3>5. CASE Unsupported
      <4>1. Fail /\ at # "idle"
        BY <3>5 DEF Unsupported
      <4> QED BY <3>5, <4>1, FailType DEF Unsupported, TypeOK, Chosen, Steps
    <3>6. CASE Query
      BY <3>1, <3>6 DEF Query, TypeOK, Steps
    <3>7. CASE Download
      BY <3>7 DEF Download, Found, TypeOK, Steps
    <3>8. CASE Extract
      BY <3>8 DEF Extract, TypeOK, Steps, Binary
    <3>9. CASE OpenCopy
      BY <3>9 DEF OpenCopy, TypeOK, Steps, Binary
    <3>10. CASE Copy
      <4>1. PICK p \in Found : bin' = [bin EXCEPT !["local"] = extracted[p]]
        BY <3>10 DEF Copy
      <4>2. extracted[p] \in Binary
        BY <4>1 DEF Found, TypeOK
      <4> QED BY <3>10, <4>1, <4>2 DEF Copy, TypeOK, Steps
    <3>11. CASE Clean
      BY <3>11, RemovedType DEF Clean, Succeed, TypeOK, Steps, Results
    <3>12. CASE DownloadFails
      <4>1. Fail /\ at # "idle" /\ refused' = refused \cup {Head(todo)}
            /\ UNCHANGED <<host, latest, bin, layout, auto, tag, left>>
        BY <3>12 DEF DownloadFails, Refuse
      <4>2. extracted' \in [Paths -> Binary]
        BY <3>12 DEF DownloadFails, Unfinished, TypeOK
      <4>3. Head(todo) \in Methods
        BY <3>12 DEF DownloadFails, Methods
      <4> QED BY <4>1, <4>2, <4>3, FailType DEF TypeOK, Chosen, Steps
    <3> QED BY <2>3, <3>3, <3>4, <3>5, <3>6, <3>7, <3>8, <3>9, <3>10, <3>11, <3>12 DEF Step
  <2>4. CASE Kill
    <3>1. extracted' \in [Paths -> Binary]
      BY <2>4, RemovedType DEF Kill, Unfinished, TypeOK
    <3> QED BY <2>4, <3>1 DEF Kill, TypeOK, Steps, Results
  <2>5. CASE Publish
    BY <2>5, ReleaseAssumption DEF Publish, TypeOK, Release
  <2> QED BY <2>1, <2>2, <2>3, <2>4, <2>5, NextCases
<1> QED BY <1>1, <1>2

\* Type correctness: there is a method to try as long as an install runs.
THEOREM TypeCorrect == Spec => []TypeOK
<1>1. TypeInv => TypeOK
  BY DEF TypeInv
<1> QED BY <1>1, TypeInductive, PTL DEF Spec

(***************************************************************************)
(* The binary on its way.                                                  *)
(***************************************************************************)
\* Something is left at a path that the archive does not write.
Stray == left \ layout[tag] # {}

OnItsWay ==
  /\ at = "extracting" => Found \subseteq left
  /\ at \in {"finding", "copying"} =>
       \A p \in Found : IF p \in layout[tag] THEN extracted[p] = tag ELSE p \in left
  /\ at = "cleaning" => bin["local"] = tag \/ Stray

WholeInv == OnItsWay /\ InstalledIsWhole

LEMMA WholeInductive ==
  /\ Init => WholeInv
  /\ TypeInv /\ WholeInv /\ [Next]_vars => WholeInv'
<1> USE DEF WholeInv, OnItsWay, InstalledIsWhole, Stray
<1>1. Init => WholeInv
  BY DEF Init
<1>2. ASSUME TypeInv, WholeInv, [Next]_vars PROVE WholeInv'
  <2> USE <1>2
  <2>1. CASE UNCHANGED vars
    BY <2>1 DEF vars, Place, Found
  <2>2. ASSUME NEW force \in BOOLEAN, Call(force) PROVE WholeInv'
    BY <2>2 DEF Call, Already, InstallAuto, InstallWith, Begin
  <2>3. CASE Step
    <3>1. bin \in [Places -> Binary] /\ "managed" \in Places /\ "local" \in Places
      BY DEF TypeInv, TypeOK, Places
    <3>2. CASE RunManager
      <4>1. Head(todo) \in Managers
        BY <3>2 DEF RunManager, TypeInv, TypeOK
      <4>2. Place(Head(todo)) = "managed" /\ todo' = todo
        BY <3>2, <4>1 DEF Place, Managers, RunManager, Succeed
      <4>3. at' = "idle" /\ tag' = latest /\ bin'["managed"] = latest
        BY <3>1, <3>2 DEF RunManager, Succeed
      <4> QED BY <4>2, <4>3 DEF Place
    <3>3. ASSUME Fail, at # "idle" PROVE WholeInv'
      <4>1. result = "none"
        BY <3>3 DEF TypeInv, Tagged
      <4> QED BY <3>3, <4>1 DEF Fail
    <3>4. CASE ManagerFails \/ Unsupported \/ DownloadFails
      BY <3>3, <3>4 DEF ManagerFails, Unsupported, DownloadFails, Refuse
    <3>5. CASE Query
      BY <3>5 DEF Query, TypeInv, Tagged
    <3>6. CASE Download
      BY <3>6 DEF Download, Found, TypeInv, Tagged
    <3>7. CASE Extract
      <4>1. /\ at' = "finding" /\ tag' = tag /\ layout' = layout /\ left' = left
            /\ result' = "none"
            /\ extracted' = [p \in Paths |-> IF p \in layout[tag] THEN tag ELSE extracted[p]]
        BY <3>7 DEF Extract, TypeInv, Tagged
      <4>2. ASSUME NEW p \in Found'
            PROVE  IF p \in layout[tag] THEN extracted'[p] = tag ELSE p \in left
        <5>1. p \in Paths /\ extracted'[p] # Missing
          BY <4>2 DEF Found
        <5>2. CASE p \in layout[tag]
          BY <4>1, <5>1, <5>2
        <5>3. CASE p \notin layout[tag]
          BY <3>7, <4>1, <5>1, <5>3 DEF Extract, Found
        <5> QED BY <5>2, <5>3
      <4> QED BY <4>1, <4>2
    <3>8. CASE OpenCopy
      BY <3>8 DEF OpenCopy, Found, TypeInv, Tagged
    <3>9. CASE Copy
      <4>1. PICK p \in Found : bin' = [bin EXCEPT !["local"] = extracted[p]]
        BY <3>9 DEF Copy
      <4>2. bin'["local"] = extracted[p]
        BY <3>1, <4>1
      <4>3. extracted[p] = tag \/ Stray
        BY <3>9 DEF Copy
      <4> QED BY <3>9, <4>2, <4>3 DEF Copy, TypeInv, Tagged
    <3>10. CASE Clean
      <4>1. Head(todo) = "binary" /\ Place(Head(todo)) = "local" /\ todo' = todo
        BY <3>10 DEF Clean, Succeed, Place, TypeInv, Tagged
      <4> QED BY <3>10, <4>1 DEF Clean, Succeed, Place
    <3> QED BY <2>3, <3>2, <3>4, <3>5, <3>6, <3>7, <3>8, <3>9, <3>10 DEF Step
  <2>4. CASE Kill
    BY <2>4 DEF Kill
  <2>5. CASE Publish
    BY <2>5 DEF Publish, Place, Found
  <2> QED BY <2>1, <2>2, <2>3, <2>4, <2>5, NextCases
<1> QED BY <1>1, <1>2

\* What is reported as installed is all of the release that was asked for,
\* whatever was killed or failed before, unless find_binary
\* (src/cli/commands.rs:1362) took a file that an earlier install had left at a
\* path that the archive does not have.
THEOREM WholeBinary == Spec => []InstalledIsWhole
<1>1. WholeInv => InstalledIsWhole
  BY DEF WholeInv
<1> QED BY <1>1, TypeInductive, WholeInductive, PTL DEF Spec

(***************************************************************************)
(* The chain of an automatic install.                                      *)
(***************************************************************************)
\* Method m is of no use: something let it fail, or it has nothing to download
\* for this platform.
Down(m) == m \in refused \/ (m = "binary" /\ host.platform \notin Assets)

\* What is left to try is the end of the chain, and what is before it is down.
OnChain ==
  auto /\ at # "idle" =>
    \E k \in 0 .. Len(detect_methods) :
      /\ Len(todo) = Len(detect_methods) - k
      /\ \A i \in 1 .. Len(todo) : todo[i] = detect_methods[k + i]
      /\ \A i \in 1 .. k : Down(detect_methods[i])

AllDown ==
  result = "error" /\ auto => \A i \in 1 .. Len(detect_methods) : Down(detect_methods[i])

ChainInv == OnChain /\ AllDown

LEMMA SameHost ==
  ASSUME host' = host
  PROVE  detect_methods' = detect_methods
BY DEF detect_methods, If

\* The method at the head of the chain has turned out to be down.
LEMMA ChainFails ==
  ASSUME TypeInv, ChainInv, at # "idle", Fail, UNCHANGED <<host, auto>>,
         refused \subseteq refused',
         NEW m, m = Head(todo), m \in refused' \/ (m = "binary" /\ host.platform \notin Assets)
  PROVE  ChainInv'
<1> DEFINE dm == detect_methods
<1>1. dm' = dm
  BY SameHost
<1>2. \A x : Down(x) => Down(x)'
  BY DEF Down
<1>3. Down(m)'
  BY DEF Down
<1>4. CASE ~auto
  BY <1>4 DEF ChainInv, OnChain, AllDown
<1>5. CASE auto
  <2>1. Len(dm) \in 1 .. 4 /\ todo \in Seq(Chosen) /\ todo # <<>>
    BY DetectedType DEF TypeInv, TypeOK, Chosen
  <2>2. PICK k \in 0 .. Len(dm) :
          /\ Len(todo) = Len(dm) - k
          /\ \A i \in 1 .. Len(todo) : todo[i] = dm[k + i]
          /\ \A i \in 1 .. k : Down(dm[i])
    BY <1>5 DEF ChainInv, OnChain
  <2> HIDE DEF dm
  <2>3. PICK n \in 1 .. 4 : Len(dm) = n
    BY <2>1
  <2>4. k \in 0 .. n /\ Len(todo) = n - k /\ Len(todo) > 0 /\ k + 1 \in 1 .. n
    BY <2>1, <2>2, <2>3
  <2>5. m = dm[k + 1]
    BY <2>1, <2>2, <2>4
  <2>6. \A i \in 1 .. k + 1 : Down(dm[i])'
    <3> TAKE i \in 1 .. k + 1
    <3>1. CASE i \in 1 .. k
      BY <1>1, <1>2, <2>2, <3>1
    <3>2. CASE i = k + 1
      BY <1>1, <1>3, <2>5, <3>2
    <3> QED BY <2>4, <3>1, <3>2
  <2>7. result = "none"
    BY DEF TypeInv, Tagged
  <2>8. CASE Len(todo) > 1
    <3>1. at' = "running" /\ todo' = Tail(todo) /\ result' = "none"
      BY <2>7, <2>8 DEF Fail
    <3>2. /\ Len(todo') = Len(todo) - 1
          /\ \A i \in 1 .. Len(todo) - 1 : todo'[i] = todo[i + 1]
      BY <2>1, <2>8, <3>1, TailOfChain
    <3>3. Len(todo') = n - (k + 1)
      BY <2>4, <3>2
    <3>4. ASSUME NEW i \in 1 .. n - (k + 1) PROVE todo'[i] = dm[(k + 1) + i]
      <4>1. i \in 1 .. Len(todo) - 1 /\ i + 1 \in 1 .. Len(todo) /\ k + (i + 1) = (k + 1) + i
        BY <2>4
      <4> QED BY <2>2, <3>2, <4>1
    <3>5. OnChain'
      BY <1>1, <2>3, <2>4, <2>6, <3>3, <3>4 DEF OnChain, dm
    <3> QED BY <3>1, <3>5 DEF ChainInv, AllDown
  <2>9. CASE ~(Len(todo) > 1)
    <3>1. at' = "idle" /\ k + 1 = n
      BY <2>4, <2>9 DEF Fail
    <3>2. \A i \in 1 .. Len(dm) : Down(dm[i])'
      BY <2>3, <2>6, <3>1
    <3> QED BY <1>1, <3>1, <3>2 DEF ChainInv, OnChain, AllDown, dm
  <2> QED BY <2>8, <2>9
<1> QED BY <1>4, <1>5

LEMMA ChainInductive ==
  /\ Init => ChainInv
  /\ TypeInv /\ ChainInv /\ [Next]_vars => ChainInv'
<1>1. Init => ChainInv
  BY DEF Init, ChainInv, OnChain, AllDown
<1>2. ASSUME TypeInv, ChainInv, [Next]_vars PROVE ChainInv'
  <2> USE <1>2
  <2>1. ASSUME UNCHANGED <<host, auto, todo, refused>>,
               at' # "idle" => at # "idle",
               result' = "error" => result = "error"
        PROVE  ChainInv'
    <3>1. detect_methods' = detect_methods
      BY <2>1, SameHost
    <3>2. \A x : Down(x)' <=> Down(x)
      BY <2>1 DEF Down
    <3> QED BY <2>1, <3>1, <3>2 DEF ChainInv, OnChain, AllDown
  <2>2. ASSUME NEW force \in BOOLEAN, Call(force) PROVE ChainInv'
    <3>1. CASE Already(force)
      BY <3>1 DEF Already, ChainInv, OnChain, AllDown
    <3>2. CASE InstallAuto(force)
      <4>1. todo' = detect_methods /\ result' = "none" /\ host' = host
        BY <3>2 DEF InstallAuto, Begin
      <4>2. detect_methods' = detect_methods
        BY <4>1, SameHost
      <4>3. Len(detect_methods) \in 1 .. 4
        BY DetectedType
      <4>4. OnChain'
        <5>1. /\ 0 \in 0 .. Len(detect_methods)
              /\ Len(todo') = Len(detect_methods) - 0
              /\ \A i \in 1 .. Len(todo') : todo'[i] = detect_methods[0 + i]
              /\ \A i \in 1 .. 0 : Down(detect_methods[i])'
          BY <4>1, <4>3
        <5> QED BY <4>2, <5>1 DEF OnChain
      <4> QED BY <4>1, <4>4 DEF ChainInv, AllDown
    <3>3. ASSUME NEW m \in Chosen, InstallWith(m, force) PROVE ChainInv'
      BY <3>3 DEF InstallWith, Begin, ChainInv, OnChain, AllDown
    <3> QED BY <2>2, <3>1, <3>2, <3>3 DEF Call
  <2>3. CASE Step
    <3>1. CASE ManagerFails \/ DownloadFails
      <4>1. Fail /\ at # "idle" /\ refused' = refused \cup {Head(todo)} /\ UNCHANGED <<host, auto>>
        BY <3>1 DEF ManagerFails, DownloadFails, Refuse
      <4> QED BY <4>1, ChainFails
    <3>2. CASE Unsupported
      <4>1. Fail /\ at # "idle" /\ UNCHANGED <<host, auto, refused>>
        BY <3>2 DEF Unsupported
      <4>2. CASE Head(todo) = "binary" /\ host.platform \notin Assets
        BY <4>1, <4>2, ChainFails
      <4>3. CASE Head(todo) = "unknown"
        <5>1. ~auto
          <6> SUFFICES ASSUME auto PROVE FALSE
            OBVIOUS
          <6>1. PICK n \in 1 .. 4 : Len(detect_methods) = n
            BY DetectedType
          <6>2. PICK k \in 0 .. n : Len(todo) = n - k
                                    /\ \A i \in 1 .. Len(todo) : todo[i] = detect_methods[k + i]
            BY <4>1, <6>1 DEF ChainInv, OnChain
          <6>3. todo \in Seq(Chosen) /\ todo # <<>>
            BY <4>1 DEF TypeInv, TypeOK, Chosen
          <6>4. Len(todo) > 0 /\ Head(todo) = todo[1] /\ k + 1 \in 1 .. n
            BY <6>2, <6>3
          <6>5. Head(todo) = detect_methods[k + 1]
            BY <6>2, <6>4
          <6>6. detect_methods[k + 1] \in Methods
            BY <6>1, <6>4, DetectedType
          <6> QED BY <4>3, <6>5, <6>6 DEF Methods, Managers
        <5> QED BY <4>1, <5>1 DEF ChainInv, OnChain, AllDown
      <4> QED BY <3>2, <4>2, <4>3 DEF Unsupported
    <3>3. CASE RunManager
      BY <2>1, <3>3 DEF RunManager, Succeed
    <3>4. CASE Query \/ Download \/ Extract \/ OpenCopy \/ Copy
      BY <2>1, <3>4 DEF Query, Download, Extract, OpenCopy, Copy
    <3>5. CASE Clean
      BY <2>1, <3>5 DEF Clean, Succeed
    <3> QED BY <2>3, <3>1, <3>2, <3>3, <3>4, <3>5 DEF Step
  <2>4. CASE Kill
    BY <2>1, <2>4 DEF Kill
  <2>5. CASE Publish
    BY <2>1, <2>5 DEF Publish
  <2>6. CASE UNCHANGED vars
    BY <2>1, <2>6 DEF vars
  <2> QED BY <2>2, <2>3, <2>4, <2>5, <2>6, NextCases
<1> QED BY <1>1, <1>2

\* On any platform, an automatic install that gives up was let down by every
\* method it offers, or has no download for the platform.
THEOREM GivesUpLast == Spec => []AllDown
<1>1. ChainInv => AllDown
  BY DEF ChainInv
<1> QED BY <1>1, TypeInductive, ChainInductive, PTL DEF Spec

\* On the platforms that the download has an asset for, only something outside
\* of the program makes an automatic install give up.
THEOREM TriesEveryMethod ==
  ASSUME Platforms \subseteq Assets
  PROVE  Spec => []EveryMethodTried
<1>1. TypeInv /\ ChainInv => EveryMethodTried
  BY DEF TypeInv, TypeOK, ChainInv, AllDown, Down, EveryMethodTried
<1> QED BY <1>1, TypeInductive, ChainInductive, PTL DEF Spec

=============================================================================
