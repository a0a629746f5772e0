SPECIFICATION Spec
CONSTANTS
  k1 = k1
  k2 = k2
  k3 = k3
  none = none
  Procs = {p1, p2}
  Wallets = {1, 2}
  Keys = {k1, k2, k3}
  NoKey = none
  MaxInt = 2
  Requests <- MoneyCalls
  Crashes = TRUE
  LostReplies = TRUE
SYMMETRY Goroutines
INVARIANTS TypeOK LockedReadIsCurrent KeyTellsTruth AnswersNameTheirRow NoDeadlock
  OnlyOverflowOwes FailedMovedNothing
PROPERTIES RefinesLedger
