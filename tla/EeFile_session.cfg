SPECIFICATION FSpec
CONSTANTS
  TabWidth = 3
  LineChunk = 3
  LineSlack = 2
  Texts <- Empty
  Typed = {"x"}
  DeletedChars <- NewLines
  Patterns = {}
  LineNumbers = {}
  LastLine = 5
  RightMargin = 100
  ExpandTabs = TRUE
  LookAhead = 5
  Far = 30
  MaxKeys = 4
  ChunkSize = 2
  Disks <- AllDisks
  Arguments <- AllArgs
  Answers = {"", "a", "n"}
INVARIANT FTypeOK
PROPERTIES Opens ReadInserts NoSilentLoss NoClobber RoundTrip
CHECK_DEADLOCK FALSE
