SPECIFICATION FairSpec
CONSTANTS
  TicksPerUsec = 2
  UsecPerSec = 4
  MaxSecs = 100000
  Argvs <- NoLimitArgvs
  Commands <- GoodCommands
  ExitCodes = {0, 3}
  ExtSignals = {}
  MaxExt = 0
CHECK_DEADLOCK FALSE
PROPERTY ExitNoticed
