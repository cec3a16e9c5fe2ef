\* Two handlers: the documented lifecycle does not hold.
SPECIFICATION Spec
CONSTANTS
  Peers = {p1}
  Tokens = {k1}
  Tasks = {t1, t2}
  Absent = Absent
  NoTask = NoTask
  NoPeer = NoPeer
PROPERTY Lifecycle
