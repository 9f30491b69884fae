SPECIFICATION Spec
CONSTANTS
  Null = Null
  Vars = {a, b}
  Kinds = {"move", "use", "fresh", "alias"}
  MaxText = 4
  MaxSteps = 8
INVARIANTS UnwarnedIsSafe RejectedIsMisuse UseAfterMoveDetected
