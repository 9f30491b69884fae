SPECIFICATION EditorSpec
CONSTANTS
  A = A
  B = B
  Docs = {A, B}
  Reads <- ReadsDef
  CheckOnSave = TRUE
  CheckOnType = TRUE
  NoDocument = NoDocument
  MaxVersion = 2
  MaxChecks = 2
INVARIANT StaleHasCause
PROPERTY Answers
