CONSTANTS
    NoTurn = NoTurn
    Turns = {t1}
    Waiters = {w1}
    RequireTool = FALSE
    Overlap = FALSE
    Items = {"answer"}
    Mishaps = {}
    MaxRestarts = 0
SPECIFICATION SessionSpec
INVARIANT
    TimedOutSessionIsResumable
CHECK_DEADLOCK FALSE
