SPECIFICATION FairSpec
CONSTANTS
  Bytes = {"esc", "a", "b"}
  Esc = "esc"
  Sequences <- TwoKeys
  Low = "low"
  Junk = {"b", "esc"}
  BuffSize = 3
  MaxTyped = 2
  MaxDepth = 2
PROPERTY HangupEnds
CHECK_DEADLOCK FALSE
