SPECIFICATION FairSpec
CONSTANTS
  k1 = k1
  k2 = k2
  k3 = k3
  none = none
  Procs = {p1, p2}
  Wallets = {1, 2}
  Keys = {k1, k2, k3}
  NoKey = none
  MaxInt = 7
  Requests <- LockCalls
  Crashes = FALSE
  LostReplies = TRUE
PROPERTIES EveryCallEnds EveryClaimSettles
