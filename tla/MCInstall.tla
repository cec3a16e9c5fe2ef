----------------------------- MODULE MCInstall -----------------------------
(* Platforms for TLC: one of each kind that has an asset; and one with none. *)
(* The instance of two paths looks at three sets of package managers, and at *)
(* one archive of release 1 for each number of files called tailcat.         *)
EXTENDS Install

CONSTANTS x1, x2

Supported == {<<"linux", "x86_64">>, <<"windows", "x86_64">>}
Mac == {<<"macos", "aarch64">>}

SomeInit ==
  /\ Init
  /\ host.tools \in {{}, {"go"}, Managers}
  /\ layout[1] \in {{}, {x1}, {x1, x2}}

\* FairSpec from there.
SomeSpec == SomeInit /\ [][Next]_vars /\ WF_vars(Step)

=============================================================================
