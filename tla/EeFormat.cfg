SPECIFICATION FSpec
CONSTANTS
  TabWidth = 3
  LineChunk = 3
  LineSlack = 2
  Texts <- Paragraphs
  Typed = {"x", "sp"}
  DeletedChars <- NewLines
  Patterns <- NoPatterns
  LineNumbers = {}
  LastLine = 5
  RightMargin = 4
  ExpandTabs = FALSE
  LookAhead = 5
  Far = 30
  MaxKeys = 2
INVARIANT WordsKept
PROPERTIES ParagraphFits FormatEnds
CHECK_DEADLOCK FALSE
