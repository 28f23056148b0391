SPECIFICATION Spec
CONSTANTS
  main = main
  thread = thread
  Scripts <- MCScripts
  InRequest <- MCInRequest
  Libs = {"gecko", "hotkey"}
  Chunk = 2
  MaxLoads = 3
  BufferSize = 3
  MaxText = 5
INVARIANTS
  NativesKeepRequests
  NativesFreeOnce
  SignedScriptsLoad
  TableIsExact
  RequestsBalanced
CHECK_DEADLOCK FALSE
