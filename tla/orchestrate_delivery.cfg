SPECIFICATION DeliverySpec
CONSTANTS
  Steps = 3
  Required = 2
  Threads = {1, 2, 3}
  Values = {v1, v2}
  Items <- ServerItems
  NoValue = NoValue
  Unset = Unset
  MaxHeld = 2
  Orders = {"timely", "direct", "late"}
  Lag = 3
INVARIANTS
    OutcomeIsEarned
PROPERTIES
    TurnRunsItsCourse
CHECK_DEADLOCK FALSE
