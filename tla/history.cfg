SPECIFICATION HistorySpec
CONSTANTS
  k1 = k1
  k2 = k2
  k3 = k3
  none = none
  Wallets = {1, 2}
  Keys = {k1, k2, k3}
  NoKey = none
  MaxInt = 1
  DefaultLimit = 2
  DayLength = 2
  MaxTime = 2
  Requests <- AllRequests
SYMMETRY Symmetric
INVARIANTS PageAgreesWithTotal ScanIsComplete PageIsChain
