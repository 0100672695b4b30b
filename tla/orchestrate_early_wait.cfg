SPECIFICATION DeliverySpec
CONSTANTS
  Steps = 3
  Required = 2
  Threads = {1, 2, 3}
  Values = {v1, v2}
  Items <- ServerItems
  NoValue = NoValue
  Unset = Unset
  MaxHeld = 2
  Orders = {"early_wait"}
  Lag = 3
INVARIANT
  RejectedOnlyForCause
CHECK_DEADLOCK FALSE
