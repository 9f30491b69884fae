SPECIFICATION BuildSpec
CONSTANTS
  MaxCallDepth = 4
  MaxSteps = 12
  ScratchSlot = 9
  FrameSlots = 12
  ArgRegs = 2
  Stale = {0, 7}
  MaxCells = 4
  Programs <- AllPrograms
INVARIANTS
  NamesResolve
  AssignmentsAgree
  MembersExist
  
  JustRejections
  Agrees
  RegionsFree
CHECK_DEADLOCK FALSE
