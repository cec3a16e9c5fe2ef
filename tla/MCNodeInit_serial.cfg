\* One terminal, init cut short anywhere, with and without --force.
SPECIFICATION Spec
CONSTANTS
  Nodes = {n1, n2, n3}
  Ops = {o1}
  Kills = TRUE
  NoNode = NoNode
  Missing = Missing
  Torn = Torn
  Short = Short
SYMMETRY Symmetry
INVARIANTS TypeOK ReadyNodeStarts
PROPERTY KeySurvives
