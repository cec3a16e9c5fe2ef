\* One command at a time, enable and disable included.
SPECIFICATION Spec
CONSTANTS
  Peers = {p1, p2}
  Tokens = {k1}
  Clients = {c1}
  Kinds <- AllKinds
  Faults = FALSE
  Absent = Absent
  NoClient = NoClient
  Empty = Empty
  Corrupt = Corrupt
INVARIANT CommandsStick
