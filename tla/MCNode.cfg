\* One terminal, every command; crashes between peer commands, and boots that
\* fail.
SPECIFICATION Spec
CONSTANTS
  Peers = {p1, p2}
  Tokens = {k1}
  Pids = {d1, d2}
  Ops = {o1}
  Cmds <- AllCmds
  Kinds <- AllKinds
  Crashes = TRUE
  BootFails = TRUE
  Services = {s1}
  Ports = {w1}
  NoPort = NoPort
  NoPid = NoPid
  NoFile = NoFile
  Blank = Blank
  Absent = Absent
  NoClient = NoClient
  Empty = Empty
  Corrupt = Corrupt
INVARIANTS TypeOK AtMostOneDaemon NoOrphan EditsStick OnlyConfiguredConnect
  ListShowsWanted RestartShowsServices
PROPERTY EveryCommandReturns
