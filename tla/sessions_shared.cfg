SPECIFICATION Spec
CONSTANTS
  p1 = p1
  p2 = p2
  Users = {1}
  Procs = {p1, p2}
  TokenDuration = 2
  MaxTime = 1
  MaxFaults = 1
PROPERTIES LogOutEndsOneLogin
