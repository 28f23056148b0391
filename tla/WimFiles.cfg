SPECIFICATION Spec
CONSTANTS
  a = a
  b = b
  Scripts <- MCScripts
  Files = {1, 2}
  MaxThreads = 2
  MaxCalls = 4
  MaxRecords = 2
INVARIANTS
  CountsWindows
  ListIsOwners
PROPERTIES
  PostsEnd
CHECK_DEADLOCK FALSE
