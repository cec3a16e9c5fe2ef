\* macOS: the download that is offered as a fallback never works.
SPECIFICATION Spec
CONSTANTS
  x1 = x1
  x2 = x2
  Platforms <- Mac
  Releases = 1
  Paths = {x1}
  Missing = Missing
  Partial = Partial
INVARIANT EveryMethodTried
