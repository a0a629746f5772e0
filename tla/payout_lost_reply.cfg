SPECIFICATION Spec
CONSTANTS
  k1 = k1
  k2 = k2
  k3 = k3
  none = none
  Apis = {a1}
  Wallets = {1}
  Keys = {k1, k2, k3}
  NoKey = none
  MaxInt = 7
  Requests <- OneWithdrawal
  Resend = FALSE
  GatewayErrors = {"lost"}
  EarlyWebhooks = FALSE
  Ends = {"SUCCEEDED", "FAILED"}
  MaxPayout = 7
  MaxRows = 3
  MaxFaults = 0
  Events <- AllEvents
  DeliveryLimit = 2
  MaxSends = 1
INVARIANTS PaidIsNotRefunded
CHECK_DEADLOCK FALSE
