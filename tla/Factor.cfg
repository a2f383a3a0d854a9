SPECIFICATION Spec
CONSTANTS
  Width = 600
  prime <- Table
  Beyond = {0, 1, 7, 599}
  Inputs <- Lists
CHECK_DEADLOCK FALSE
INVARIANT ProductKept
INVARIANT PrimesAscending
INVARIANT ReadsBehind
INVARIANT ReadBack
PROPERTY Ends
