SPECIFICATION Spec
CONSTANTS
  main = main
  w1 = w1
  w2 = w2
  none = none
  Main <- main
  NoThread <- none
  Workers <- MCWorkers
  Threads <- MCThreads
  MaxNest <- MCMaxNest
INVARIANTS
  NeverRunsCollected
  OnlyMainRunsUnderGC
  ExitFreesOnlyTheKilled
  OneExitTearsDown
CHECK_DEADLOCK FALSE
PROPERTIES
  CallerIsReleased
  ExitEndsProcess
  HandsOver
