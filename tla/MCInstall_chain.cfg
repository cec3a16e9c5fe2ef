\* Two releases; steps that fail, and kills, anywhere.
SPECIFICATION SomeSpec
CONSTANTS
  x1 = x1
  x2 = x2
  Platforms <- Supported
  Releases = 2
  Paths = {x1, x2}
  Missing = Missing
  Partial = Partial
INVARIANTS TypeOK InstalledIsWhole EveryMethodTried
PROPERTY InstallReturns
