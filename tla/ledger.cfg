SPECIFICATION Spec
CONSTANTS
  k1 = k1
  k2 = k2
  k3 = k3
  none = none
  Wallets = {1, 2}
  Keys = {k1, k2, k3}
  NoKey = none
  MaxInt = 3
INVARIANTS TypeOK LedgerChain AtMostOncePerKey RefundsMatchFailures
PROPERTIES RowsOnlySettle
CHECK_DEADLOCK FALSE
