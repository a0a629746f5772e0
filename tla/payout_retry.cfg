SPECIFICATION Spec
CONSTANTS
  k1 = k1
  k2 = k2
  k3 = k3
  none = none
  Apis = {a1, a2}
  Wallets = {1}
  Keys = {k1, k2, k3}
  NoKey = none
  MaxInt = 7
  Requests <- TwoWithdrawals
  Resend = TRUE
  GatewayErrors = {"refused", "lost"}
  EarlyWebhooks = TRUE
  Ends = {"SUCCEEDED", "FAILED", "REVERSED"}
  MaxPayout = 1
  MaxRows = 5
  MaxFaults = 1
  Events <- FinalEvents
  DeliveryLimit = 1
  MaxSends = 1
INVARIANTS OnlyErrorsPayTwice RecordAgreesWithRow
PROPERTIES RefinesWithdrawal
CHECK_DEADLOCK FALSE
