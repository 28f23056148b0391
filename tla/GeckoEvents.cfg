SPECIFICATION Spec
CONSTANTS
  ui = ui
  s1 = s1
  s2 = s2
  l1 = l1
  l2 = l2
  none = none
  Ui = ui
  User = s1
  Others <- MCOthers
  Threads <- MCThreads
  Listeners <- MCListeners
  NoThread <- none
  MaxDepth <- MCMaxDepth
INVARIANTS
  
  EventNotForgotten
PROPERTIES
  LockIsHandedOn
CHECK_DEADLOCK FALSE
