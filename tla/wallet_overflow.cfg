SPECIFICATION Spec
CONSTANTS
  k1 = k1
  k2 = k2
  k3 = k3
  none = none
  Procs = {p1}
  Wallets = {1, 2}
  Keys = {k1, k2, k3}
  NoKey = none
  MaxInt = 3
  Requests <- BigCalls
  Crashes = FALSE
  LostReplies = FALSE
INVARIANTS BalanceNeverNegative
