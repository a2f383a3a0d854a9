SPECIFICATION PSpec
CONSTANTS
  StackSize = 40
  IfdefDepth = 0
  CaseIndent = 1
  ElseIf = TRUE
  LjustDecl = FALSE
  Constructs = {"decl", "ifstmt", "dolit", "forstmt", "lbrace", "whilestmt", "elselit", "rbrace", "swstmt", "semicolon"}
  MaxStmts = 6
INVARIANTS CaseLabels Accepted LineLevel
CHECK_DEADLOCK FALSE
