SPECIFICATION Spec
CONSTANTS
  InitialCap = 2
  Values = {1, 2}
  Zero = 0
  Garbage = Garbage
  MaxTail = 9
PROPERTY QueueSpec
