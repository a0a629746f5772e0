SPECIFICATION Spec
CONSTANTS
  k1 = k1
  k2 = k2
  none = none
  Procs = {a1, a2}
  Wallets = {1, 2}
  Keys = {k1, k2}
  NoKey = none
  MaxInt = 2
  Requests <- Calls
SYMMETRY Goroutines
INVARIANTS TypeOK ReceiptIsTrue RefusalIsFinal DetailIsTrue AnswersAreDocumented
CHECK_DEADLOCK FALSE
