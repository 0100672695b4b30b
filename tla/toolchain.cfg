SPECIFICATION ToolSpec
CONSTANTS
  c1 = c1
  c2 = c2
  c3 = c3
  stranger = stranger
  Mounted <- ThreeMounts
  Ids <- FourIds
  MaxCalls = 3
  WellNamed <- MCWellNamed
  ProjectsCompiled <- MCProjectsCompiled
  Layers <- MCLayers
  Processes = {p1, p2}
  Files = {f1, f2}
  MaxStarts = 3
  MaxOutages = 2
  Components = {"a"}
  Projects <- MCProjects
  MaxCompiles = 2
  MaxDispatches = 2
  MaxMishaps = 1
  Builders = {b1, b2, b3}
  MaxFiles = 2
  MaxSwaps = 2
  SourcesAsked <- MCSourcesAsked
  GateAsked <- MCGateAsked
  ServeAsked <- MCServeAsked
  SlotsAsked <- MCSlotsAsked
  LinkAsked <- MCLinkAsked
  PlansAsked <- MCPlansAsked
SYMMETRY MountSymmetry
CHECK_DEADLOCK FALSE
INVARIANTS
  SourcesAreHonoured
  CompiledStandsAtRuntime
  CompiledIsAuthorized
  SlotsResolve
  CallGraphsAreKnown
  HubIsWhole
  DispatchesKeepTheirWord
  PlansAreHonoured
  DeliveredIsWhole
  ServicesAnswerTruly
PROPERTY
  OthersWorkSurvives
