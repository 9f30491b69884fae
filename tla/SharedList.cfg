SPECIFICATION Spec
CONSTANTS
  t1 = t1
  t2 = t2
  t3 = t3
  Nobody = Nobody
  Threads <- Three
  Ops = {"push", "pop", "len", "get", "add", "scan"}
  MaxCalls = 2
SYMMETRY Symmetry
INVARIANTS OwnerIsInside NothingLost
