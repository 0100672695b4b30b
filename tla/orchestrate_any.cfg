SPECIFICATION Spec
CONSTANTS
  Steps = 3
  Required = 2
  Threads = {c1, c2, c3}
  Values = {v1}
  Items = {i1}
  NoValue = NoValue
  Unset = Unset
  MaxHeld = 0
  Receipts = {3}
SYMMETRY Interchangeable
INVARIANTS
    AnswersFindTheirSteps
    ResultIsAnExecution
CHECK_DEADLOCK FALSE
