SPECIFICATION ChainSpec
CONSTANTS
  Max = 31
  Ops = {"+", "-", "+=", "-=", "*", "/", "/=", "%", "%="}
INVARIANTS NoWrap PanicJustified SameOutcome
CHECK_DEADLOCK FALSE
