SPECIFICATION Spec
CONSTANTS
  s1 = s1
  s2 = s2
  u1 = u1
  u2 = u2
  v1 = v1
  none = none
  Scripts <- MCScripts
  Drivers <- MCDrivers
  UIs <- MCUIs
  Threads <- MCThreads
  Views <- MCViews
  NoThread <- none
INVARIANTS
  SessionIsServed
  OneWindowPerView
PROPERTIES
  ServesSessions
  CreateViewHeldUp
  TermHeldUp
CHECK_DEADLOCK FALSE
