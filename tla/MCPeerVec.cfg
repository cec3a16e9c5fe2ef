\* Files of up to three entries over two ids: every way to have duplicates.
SPECIFICATION Spec
CONSTANTS
  Peers = {p1, p2}
  Tokens = {k1, k2}
  Absent = Absent
  MaxLen = 3
PROPERTY NoNewDuplicate
INVARIANT ViewIsMap
