SPECIFICATION Spec
CONSTANTS
  a = a
  b = b
  text = text
  Scripts <- MCScripts
  Names = {"m", "n"}
  Strings <- MCStrings
  Scalars = {0, 1}
  MaxThreads = 2
  MaxShows = 2
  MaxPuts = 3
INVARIANTS
  AnswerIsOwn
  RunningIsServed
  StoreKeepsValues
PROPERTIES
  NativesReturn
CHECK_DEADLOCK FALSE
