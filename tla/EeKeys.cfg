SPECIFICATION Spec
CONSTANTS
  Bytes = {"esc", "a", "b"}
  Esc = "esc"
  Sequences <- TwoKeys
  Low = "low"
  Junk = {"b", "esc"}
  BuffSize = 3
  MaxTyped = 3
  MaxDepth = 3
INVARIANTS TypeOK KeysInOrder
CHECK_DEADLOCK FALSE
