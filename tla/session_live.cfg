CONSTANTS
    NoTurn = NoTurn
    Turns = {t1}
    Waiters = {w1}
    RequireTool = FALSE
    Overlap = TRUE
    Items = {"answer"}
    Mishaps = {"request timer", "file error"}
    MaxRestarts = 1
SPECIFICATION FairSessionSpec
PROPERTIES
    EverySessionCallEnds
CHECK_DEADLOCK FALSE
