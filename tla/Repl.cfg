SPECIFICATION Spec
CONSTANTS
  Main = "main"
  Builtins = {"len"}
  Names = {"main", "len", "v", "x", "y", "B", "C"}
  Param = "v"
  None = "none"
  Lines <- LinesDef
  MaxLines = 3
INVARIANT BrokenHasCause
PROPERTY PromptReturns
CHECK_DEADLOCK FALSE
