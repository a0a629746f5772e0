SPECIFICATION FairSpec
CONSTANTS
  k1 = k1
  k2 = k2
  none = none
  Apis = {a1}
  Wallets = {1, 2}
  Keys = {k1}
  NoKey = none
  MaxInt = 7
  OwnerOf <- Owners
  AmountOf <- Sums
  Ends = {"capture", "settlement", "challenge"}
  PaidLater = TRUE
  MaxFaults = 0
  Events <- AllEvents
  DeliveryLimit = 1
  MaxSends = 2
PROPERTIES PaidIsCreditedOrDead
CHECK_DEADLOCK FALSE
