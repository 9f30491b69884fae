SPECIFICATION Spec
CONSTANTS
  t1 = t1
  t2 = t2
  t3 = t3
  NoThread = NoThread
  MaxSends = 2
  Threads <- MCThreads
INVARIANTS SenderOrder NoLostWakeup
PROPERTIES AbsSafeSpec AbsSpec
CHECK_DEADLOCK FALSE
