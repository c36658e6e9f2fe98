SPECIFICATION Spec
CONSTANTS
  h = h
  u = u
  c = c
  main = main
  None = None
  Loop = {h, u}
  Maintenance = h
  Main = main
  Token <- MCToken
  Session <- MCSession
  MaxFaults = 1
  MaxEnds = 1
CHECK_DEADLOCK FALSE
INVARIANTS TypeOK RefreshKeepsSession QuietStopFreesLease
PROPERTIES SessionComesBack StopIsPrompt
