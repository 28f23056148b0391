SPECIFICATION Spec
CONSTANTS
  s1 = s1
  s2 = s2
  h1 = h1
  h2 = h2
  none = none
  Scripts <- MCScripts
  HkThreads <- MCHkThreads
  Callbacks <- MCCallbacks
  NoThread <- none
  Modifiers = {1}
  VKeys = {1, 2}
  MaxRegs = 2
  MaxQueue <- MCMaxQueue
INVARIANTS
  RecordsInOnePlace
  SystemMatchesList
  LateStartMeansRace
PROPERTIES
  RegistrationAnswered
  ServesRegistrations
CHECK_DEADLOCK FALSE
