SPECIFICATION Spec
CONSTANTS
  StackSize = 4
  IfdefDepth = 1
  CaseIndent = 0
  ElseIf = TRUE
  LjustDecl = TRUE
  Constructs = {"decl", "ifstmt", "dolit", "forstmt", "lbrace", "whilestmt", "elselit", "rbrace", "swstmt", "semicolon"}
  MaxLevel = 1
CONSTRAINT Bounded
INVARIANTS TypeOK NoUnderflow WritesBounded
CHECK_DEADLOCK FALSE
