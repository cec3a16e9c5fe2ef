\* All commands, impatient, crashes, failures, pids reused.
SPECIFICATION FairSpec
CONSTANTS
  Pids = {d1, d2}
  Ops = {o1}
  Cmds <- AllCmds
  Patient = FALSE
  Crashes = TRUE
  BootFails = TRUE
  Foreign = TRUE
  NoPid = NoPid
  NoFile = NoFile
  Blank = Blank
INVARIANT TypeOK
PROPERTY SignalledExits
