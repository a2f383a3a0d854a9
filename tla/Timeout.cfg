SPECIFICATION FairSpec
CONSTANTS
  TicksPerUsec = 2
  UsecPerSec = 4
  MaxSecs = 100000
  Argvs <- AllArgvs
  Commands <- AllCommands
  ExitCodes = {0, 3}
  ExtSignals = {"TERM", "INT", "USR1", "ALRM"}
  MaxExt = 2
CHECK_DEADLOCK FALSE
INVARIANT TypeOK
INVARIANT StatusIsTheCommands
INVARIANT SignalHasCause
PROPERTY NeverSignalsReaped
PROPERTY GracePeriod
PROPERTY EscalationEnds
PROPERTY ExitNoticedByTimer
