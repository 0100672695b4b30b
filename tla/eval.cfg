SPECIFICATION EvalSpec
CONSTANTS
  Grids <- MCGrids
  Finest = 10
  Largest = 3
  CompareAsked <- MCCompareAsked
  ReportAsked <- MCReportAsked
  GateAsked <- MCGateAsked
  SelectAsked <- MCSelectAsked
  AblateAsked <- MCAblateAsked
  MonitorAsked <- MCMonitorAsked
  BindingAsked <- MCBindingAsked
  TraceEvents <- MCTraceEvents
  Components <- MCComponents
  MaxEvents = 4
  Files <- MCFiles
  MaxWrites = 2
  MaxCaptures = 1
  Configs <- MCConfigs
  Workers = {w1, w2}
  Cases = 1
  Tables = {t1, t2}
  Verdicts = {v}
  MaxRuns = 2
  MaxEdits = 1
  MaxKills = 1
SYMMETRY EvalSymmetry
CHECK_DEADLOCK FALSE
INVARIANTS
  PassIsWithinTolerance
  ReportTellsTheTruth
  VerdictsAreEarned
  BindingIsHonoured
  CompliantMeansCleared
  ReplayIsItsOwn
  RunIsItsOwn
PROPERTIES
  StaleMeansMoved
