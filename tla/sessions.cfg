SPECIFICATION Spec
CONSTANTS
  p1 = p1
  p2 = p2
  Users = {1}
  Procs = {p1, p2}
  TokenDuration = 1
  MaxTime = 2
  MaxFaults = 1
SYMMETRY Symmetric
INVARIANTS TypeOK LoggedOutIsRefused ExpiredIsRefused LoginLasts
