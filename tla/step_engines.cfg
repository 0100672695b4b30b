CONSTANTS
    Names = {x, n1, n2}
    Artifacts = {x, a1, a2}
    Nothing = Nothing
    MaxSteps = 3
    MaxRepairAttempts = 1
SPECIFICATION EnginesSpec
INVARIANTS
    PlanIsWellFormed
    NoFailureSwallowed
    RunIsWhatItTells
    CodexRunIsSound
CHECK_DEADLOCK FALSE
