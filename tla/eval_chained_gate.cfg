SPECIFICATION EvalSpec
CONSTANTS
  Grids <- MCGrids
  Finest = 10
  Largest = 3
  CompareAsked = {}
  ReportAsked = {}
  GateAsked = {}
  SelectAsked = {}
  AblateAsked = {}
  MonitorAsked = {}
  BindingAsked = {}
  TraceEvents <- MCTraceEvents
  Components <- MCComponents
  MaxEvents = 2
  Files = {}
  MaxWrites = 0
  MaxCaptures = 0
  Configs = {}
  Workers = {w1}
  Cases = 1
  Tables = {t1}
  Verdicts = {v}
  MaxRuns = 0
  MaxEdits = 0
  MaxKills = 0
CHECK_DEADLOCK FALSE
INVARIANT ChainedWritesAreCaught
