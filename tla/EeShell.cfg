SPECIFICATION FairSpec
CONSTANTS
  Bytes = {"a", "nl"}
  Texts <- SmallTexts
  InStrings <- Leftovers
  PipeSize = 1
  ChunkSize = 2
  MaxSaid = 3
  MaxCommands = 2
INVARIANT TypeOK
PROPERTIES Filters Returns
CHECK_DEADLOCK FALSE
