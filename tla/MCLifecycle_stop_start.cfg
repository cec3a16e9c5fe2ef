\* One terminal: stop, then start.
SPECIFICATION Spec
CONSTANTS
  Pids = {d1, d2}
  Ops = {o1}
  Cmds <- StartStop
  Patient = TRUE
  Crashes = FALSE
  BootFails = FALSE
  Foreign = FALSE
  NoPid = NoPid
  NoFile = NoFile
  Blank = Blank
INVARIANT AtMostOneDaemon
