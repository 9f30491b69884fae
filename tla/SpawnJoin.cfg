SPECIFICATION Spec
CONSTANTS
  main = main
  t1 = t1
  t2 = t2
  None = None
  Main = main
  Procs <- Three
  Styles = {{}, {"throw"}, {"leave", "overwrite", "throw"}, {"leave", "shareName", "throw"}, {"leave", "overwrite", "shareJoin", "throw"}}
INVARIANTS FramesOutliveThreads JoinedMeansEnded HandleNeverLost AbortHasCause
PROPERTIES JoinReturns LookupReturns ProgramEnds
CHECK_DEADLOCK FALSE
