\* Two CLI processes, crashes, failed saves, split requests. No symmetry.
SPECIFICATION FairSpec
CONSTANTS
  Peers = {p1}
  Tokens = {k1}
  Clients = {c1, c2}
  Kinds <- AllKinds
  Faults = TRUE
  Absent = Absent
  NoClient = NoClient
  Empty = Empty
  Corrupt = Corrupt
INVARIANTS TypeOK InSync OneSaveAtATime
PROPERTY CommandsReturn
