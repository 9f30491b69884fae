SPECIFICATION Spec
CONSTANTS
  Root = root
  Bare = bare
  Paths = {root, bare, a, b, c}
  MayBreak = {c}
  MaxDepth = 2
  MaxUses = 2
  MaxImports = 5
  Selective = {a}
INVARIANTS LoadedOnce LoadsReachable FailureHasCause
PROPERTY LoadEnds
