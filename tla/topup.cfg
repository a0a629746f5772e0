SPECIFICATION FairSpec
CONSTANTS
  k1 = k1
  k2 = k2
  none = none
  Apis = {a1}
  Wallets = {1, 2}
  Keys = {k1}
  NoKey = none
  MaxInt = 7
  OwnerOf <- Owners
  AmountOf <- Sums
  Ends = {"capture", "settlement", "challenge", "expire", "refund"}
  PaidLater = FALSE
  MaxFaults = 2
  Events <- AllEvents
  DeliveryLimit = 2
  MaxSends = 1
INVARIANTS TypeOK CreditedOnlyIfPaid SettledIsCredited
PROPERTIES PaidIsCreditedOrDead RefinesOrder
CHECK_DEADLOCK FALSE
