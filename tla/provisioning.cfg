SPECIFICATION Spec
CONSTANTS
  p1 = p1
  p2 = p2
  p3 = p3
  Emails = {"a", "b"}
  Procs = {p1, p2}
  MaxFaults = 2
SYMMETRY Symmetric
INVARIANTS TypeOK OneEach AnswersAreTrue
