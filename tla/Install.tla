------------------------------ MODULE Install ------------------------------
(***************************************************************************)
(* `tailcat-node install` (src/cli/commands.rs): the chain of methods that *)
(* may bring the tailcat binary, and the download, which works in a fixed  *)
(* directory under the temporary one and copies the first file called      *)
(* tailcat that it finds there over whatever is installed.  Package        *)
(* managers, curl, tar and GitHub are external: each of them works or      *)
(* fails.  A binary is the release it is of, and an archive is the paths   *)
(* at which it has a file of that name.                                    *)
(*                                                                         *)
(* One install at a time; any of them may be killed.                       *)
(***************************************************************************)
EXTENDS Sequences, Naturals

CONSTANTS
  Platforms,  \* the platforms to look at: <<os, arch>> as Rust names them
  Releases,   \* how many releases of tailcat there are
  Paths,      \* paths, in an archive, of files called tailcat
  Missing,    \* no file
  Partial     \* a file that is not all there

ASSUME ReleaseAssumption ==
  /\ Releases \in Nat \ {0}
  /\ Missing \notin Nat /\ Partial \notin Nat /\ Missing # Partial

VARIABLES
  host,       \* platform, package managers found, and places on the PATH
  latest,     \* the latest release
  bin,        \* bin[p]: the tailcat binary at place p
  layout,     \* layout[r]: where the archive of release r has such a file
  extracted,  \* extracted[p]: the file at p in tailcat-node-install/extracted
  at,         \* how far the install is
  auto,       \* was no method asked for?
  todo,       \* the methods to try, the current one first
  tag,        \* the release that is being installed
  result,     \* what the last install printed
  refused,    \* history: the methods that something external let fail
  left        \* history: the paths that held a file before the archive came

vars == <<host, latest, bin, layout, extracted, at, auto, todo, tag, result, refused, left>>

Managers == {"brew", "go", "nix", "aur"}
Methods == Managers \cup {"binary"}

\* The managers install where they please, the download where it may write.
Places == {"managed", "local"}
Place(m) == IF m = "binary" THEN "local" ELSE "managed"

Release == 1 .. Releases
Binary == Release \cup {Missing, Partial}

Steps == {"idle", "running", "downloading", "extracting", "finding", "copying", "cleaning"}
Results == {"none", "already", "installed", "off_path", "done", "error"}

TypeOK ==
  /\ host \in [platform : Platforms, tools : SUBSET Managers, path : SUBSET Places]
  /\ latest \in Release
  /\ bin \in [Places -> Binary]
  /\ layout \in [Release -> SUBSET Paths]
  /\ extracted \in [Paths -> Binary]
  /\ at \in Steps
  /\ auto \in BOOLEAN
  /\ todo \in Seq(Methods \cup {"unknown"}) /\ Len(todo) <= 4
  /\ at # "idle" => todo # <<>>
  /\ tag \in Release \cup {0}
  /\ result \in Results
  /\ refused \subseteq Methods
  /\ left \subseteq Paths

Init ==
  /\ host \in [platform : Platforms, tools : SUBSET Managers, path : SUBSET Places]
  /\ latest = 1
  /\ bin = [p \in Places |-> Missing]
  /\ layout \in [Release -> SUBSET Paths]
  /\ extracted = [p \in Paths |-> Missing]
  /\ at = "idle" /\ auto = FALSE /\ todo = <<>> /\ tag = 0
  /\ result = "none" /\ refused = {} /\ left = {}

\* which::which asks for a file that may be executed, not for one that works.
OnPath(b) == \E p \in host.path : b[p] # Missing

\* The methods that are there, in the order in which the system prefers them;
\* the download is always one.
If(m) == IF m \in host.tools THEN <<m>> ELSE <<>>

detect_methods ==
  CASE host.platform[1] = "macos"   -> If("brew") \o If("go") \o If("nix") \o <<"binary">>
    [] host.platform[1] = "linux"   -> If("aur") \o If("go") \o If("nix") \o <<"binary">>
    [] host.platform[1] = "windows" -> <<"binary">>
    [] OTHER                        -> If("go") \o <<"binary">>

\* The platforms that the download knows an asset for.
Assets == ({"linux", "darwin", "windows"} \X {"x86_64", "aarch64"}) \cup {<<"linux", "arm">>}

(***************************************************************************)
(* install.                                                                *)
(***************************************************************************)
Already(force) ==
  /\ at = "idle"
  /\ ~force /\ OnPath(bin)
  /\ result' = "already"
  /\ refused' = {}
  /\ left' = {}
  /\ UNCHANGED <<host, latest, bin, layout, extracted, at, auto, todo, tag>>

Begin(methods, chosen) ==
  /\ at = "idle"
  /\ at' = "running" /\ todo' = methods /\ auto' = chosen
  /\ tag' = 0 /\ result' = "none" /\ refused' = {} /\ left' = {}
  /\ UNCHANGED <<host, latest, bin, layout, extracted>>

InstallWith(m, force) == (force \/ ~OnPath(bin)) /\ Begin(<<m>>, FALSE)

InstallAuto(force) == (force \/ ~OnPath(bin)) /\ Begin(detect_methods, TRUE)

\* The method has worked: look for what it installed, unless it was asked for.
Succeed ==
  /\ at' = "idle"
  /\ result' = IF ~auto THEN "done" ELSE IF OnPath(bin') THEN "installed" ELSE "off_path"
  /\ UNCHANGED todo

\* The first failure ends the chain.
FailAtOnce ==
  /\ at' = "idle"
  /\ result' = "error"
  /\ UNCHANGED todo

\* The method that failed is tried again.
FailAndRetry ==
  /\ at' = "running"
  /\ UNCHANGED <<todo, result>>

\* The chain is walked past its end.
FailPastEnd ==
  /\ at' = "running"
  /\ todo' = Tail(todo)
  /\ UNCHANGED result

\* The method has failed: the next one, or the end of the chain.
Fail ==
  IF Len(todo) > 1
  THEN /\ at' = "running" /\ todo' = Tail(todo) /\ UNCHANGED result
  ELSE /\ at' = "idle" /\ result' = "error" /\ UNCHANGED todo

\* Something external fails the current method.
Refuse ==
  /\ refused' = refused \cup {Head(todo)}
  /\ Fail

(***************************************************************************)
(* install_by_method.                                                      *)
(***************************************************************************)
RunManager ==
  /\ at = "running"
  /\ Head(todo) \in host.tools
  /\ bin' = [bin EXCEPT !["managed"] = latest]
  /\ tag' = latest
  /\ UNCHANGED <<host, latest, layout, extracted, auto, refused, left>>
  /\ Succeed

\* It is not there, or exits with an error, whatever it has done by then.
ManagerFails ==
  /\ at = "running"
  /\ Head(todo) \in Managers
  /\ Refuse
  /\ UNCHANGED <<host, latest, bin, layout, extracted, auto, tag, left>>

\* An unknown method, or no asset for the platform.
Unsupported ==
  /\ at = "running"
  /\ \/ Head(todo) = "unknown"
     \/ Head(todo) = "binary" /\ host.platform \notin Assets
  /\ Fail
  /\ UNCHANGED <<host, latest, bin, layout, extracted, auto, tag, refused, left>>

(***************************************************************************)
(* install_from_binary: GitHub is asked for the latest release, and curl,  *)
(* tar, the search of the extracted files and the copy follow one another. *)
(* The archive is named after its release, and a download replaces it.     *)
(* What an earlier install left in the directory stays, but for the paths  *)
(* that tar writes.                                                        *)
(***************************************************************************)
Query ==
  /\ at = "running"
  /\ Head(todo) = "binary" /\ host.platform \in Assets
  /\ at' = "downloading"
  /\ tag' = latest
  /\ UNCHANGED <<host, latest, bin, layout, extracted, auto, todo, result, refused, left>>

\* walk_dir visits them in no order the program knows.
Found == {p \in Paths : extracted[p] # Missing}

Download ==
  /\ at = "downloading"
  /\ at' = "extracting"
  /\ left' = Found
  /\ UNCHANGED <<host, latest, bin, layout, extracted, auto, todo, tag, result, refused>>

\* What tar may have done by the time it ends or is stopped.
Unfinished ==
  {f \in [Paths -> Binary] :
     \A p \in Paths : f[p] = extracted[p] \/ (p \in layout[tag] /\ f[p] \in {tag, Partial})}

\* tar is not asked how it ended.
ExtractUnchecked ==
  /\ at = "extracting"
  /\ extracted' \in Unfinished
  /\ at' = "finding"
  /\ UNCHANGED <<host, latest, bin, layout, auto, todo, tag, result, refused, left>>

Extract ==
  /\ at = "extracting"
  /\ extracted' = [p \in Paths |-> IF p \in layout[tag] THEN tag ELSE extracted[p]]
  /\ at' = "finding"
  /\ UNCHANGED <<host, latest, bin, layout, auto, todo, tag, result, refused, left>>

\* fs::copy truncates the binary it replaces, and makes it executable...
OpenCopy ==
  /\ at = "finding"
  /\ Found # {}
  /\ bin' = [bin EXCEPT !["local"] = Partial]
  /\ at' = "copying"
  /\ UNCHANGED <<host, latest, layout, extracted, auto, todo, tag, result, refused, left>>

\* ... and copies the file that was found first, whichever that is.
Copy ==
  /\ at = "copying"
  /\ \E p \in Found : bin' = [bin EXCEPT !["local"] = extracted[p]]
  /\ at' = "cleaning"
  /\ UNCHANGED <<host, latest, layout, extracted, auto, todo, tag, result, refused, left>>

\* What is left when files are removed from the directory.
Removed == {[p \in Paths |-> IF p \in gone THEN Missing ELSE extracted[p]] : gone \in SUBSET Paths}

\* Nobody asks whether the directory could be removed.
Clean ==
  /\ at = "cleaning"
  /\ extracted' \in Removed
  /\ UNCHANGED <<host, latest, bin, layout, auto, tag, refused, left>>
  /\ Succeed

\* No network, no such asset, a bad archive, no binary in it, a disk that is
\* full, a binary in use.  Everything stays as far as it got, the temporary
\* directory too.
DownloadFails ==
  /\ \/ at = "running" /\ Head(todo) = "binary" /\ host.platform \in Assets
     \/ at \in {"downloading", "extracting", "finding", "copying"}
  /\ extracted' \in {extracted} \cup (IF at = "extracting" THEN Unfinished ELSE {})
  /\ Refuse
  /\ UNCHANGED <<host, latest, bin, layout, auto, tag, left>>

-----------------------------------------------------------------------------
\* The process is killed.
Kill ==
  /\ at # "idle"
  /\ at' = "idle" /\ result' = "none"
  /\ extracted' \in {extracted} \cup (IF at = "extracting" THEN Unfinished ELSE {})
                               \cup (IF at = "cleaning" THEN Removed ELSE {})
  /\ UNCHANGED <<host, latest, bin, layout, auto, todo, tag, refused, left>>

\* tailcat is released again.
Publish ==
  /\ latest < Releases
  /\ latest' = latest + 1
  /\ UNCHANGED <<host, bin, layout, extracted, at, auto, todo, tag, result, refused, left>>

Step == RunManager \/ ManagerFails \/ Unsupported \/ Query \/ Download \/ Extract
          \/ OpenCopy \/ Copy \/ Clean \/ DownloadFails

Next ==
  \/ \E force \in BOOLEAN :
       Already(force) \/ InstallAuto(force)
         \/ \E m \in Methods \cup {"unknown"} : InstallWith(m, force)
  \/ Step
  \/ Kill
  \/ Publish

Spec == Init /\ [][Next]_vars

\* The process runs, and the programs it runs end.
FairSpec == Spec /\ WF_vars(Step)

-----------------------------------------------------------------------------
(***************************************************************************)
(* Properties                                                              *)
(***************************************************************************)

\* An install that reports success has left, where its method installs, all of
\* the release it set out to install: not a part, and nothing that an earlier
\* install, killed or failed on the way, left at the same path of the temporary
\* directory.  The exception is the code's: find_binary takes the first tailcat
\* it meets (src/cli/commands.rs:1362), so that what was left at a path that the
\* new archive does not have may be installed instead.
InstalledIsWhole ==
  result \in {"installed", "off_path", "done"} =>
    \/ bin[Place(Head(todo))] = tag
    \/ Head(todo) = "binary" /\ left \ layout[tag] # {}

\* "Try each method until one succeeds" (src/cli/commands.rs:966): an automatic
\* install gives up only when every method it offers was let down by something
\* outside of it: a package manager, the network, the archive, the disk.
EveryMethodTried ==
  result = "error" /\ auto => \A i \in 1 .. Len(detect_methods) : detect_methods[i] \in refused

\* The chain ends.
InstallReturns == at # "idle" ~> at = "idle"

=============================================================================
