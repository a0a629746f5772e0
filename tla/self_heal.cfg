SPECIFICATION Spec
CONSTANTS
  p1 = p1
  p2 = p2
  p3 = p3
  Emails = {"a"}
  Procs = {p1, p2}
  MaxFaults = 1
INVARIANTS AccessHeals
