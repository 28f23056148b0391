SPECIFICATION Spec
CONSTANTS
  Calls = {c1, c2}
  Streams <- MCStreams
  Capacity = 2
  Initial = 2
  Slack = 1
  MaxWritten <- MCMaxWritten
  AllocFails = TRUE
INVARIANTS
  ReaderHasRoom
  OutputComplete
  ReadersOutliveOnlyFailure
  CallReleases
PROPERTIES
  ExecReturns
  ServesExecutions
CHECK_DEADLOCK FALSE
