CONSTANTS
    NoTurn = NoTurn
    Turns = {t1, t2}
    Waiters = {w1}
    RequireTool = TRUE
    Overlap = FALSE
    Items = {"answer", "tool started", "tool completed", "tool failed"}
    Mishaps = {"bad line", "bad answer", "other request", "stdin lost"}
    MaxRestarts = 1
SYMMETRY TurnSymmetry
SPECIFICATION SessionSpec
CONSTRAINT OneTroubleAtATime
INVARIANTS
    NoUnearnedCompletion
    NoWaitLeftBehind
    NoTurnResurrected
PROPERTIES
    LateWaitIsAnswered
CHECK_DEADLOCK FALSE
