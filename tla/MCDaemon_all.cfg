\* Two handlers that overlap, two peers; nothing is assumed of tailcat.
\* No symmetry.
SPECIFICATION HandlerSpec
CONSTANTS
  Peers = {p1, p2}
  Tokens = {k1}
  Tasks = {t1, t2}
  Absent = Absent
  NoTask = NoTask
  NoPeer = NoPeer
INVARIANTS TypeOK ConnectingHasOwner NeverFabricated
PROPERTIES BookSpec WritersNotStarved AttemptsSettle
