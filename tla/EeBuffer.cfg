SPECIFICATION Spec
CONSTANTS
  TabWidth = 3
  LineChunk = 3
  LineSlack = 2
  Texts <- SomeTexts
  Typed = {"x", "sp", "tab", "ctl"}
  DeletedChars <- Garbage
  Patterns <- Pats
  LineNumbers = {0, 2, 8}
  LastLine = 5
  RightMargin = 3
  ExpandTabs = TRUE
  LookAhead = 2
  Far = 4
  MaxKeys = 4
INVARIANTS BufferFits PointAtPosition CursorColumn
  ChangesNoticed RowOnScreen AbsoluteLine
PROPERTIES EditsDocument GotoNumbered
CHECK_DEADLOCK FALSE
