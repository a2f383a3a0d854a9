SPECIFICATION FairSpec
CONSTANTS
  TicksPerUsec = 2
  UsecPerSec = 4
  MaxSecs = 100000
  Argvs <- KillAfterArgvs
  Commands <- GoodCommands
  ExitCodes = {0, 3}
  ExtSignals = {"INT"}
  MaxExt = 2
CHECK_DEADLOCK FALSE
PROPERTY KillAfter
