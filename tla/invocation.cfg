CONSTANTS
    caller = caller
    middle = middle
    leaf = leaf
    i1 = i1
    i2 = i2
    Components <- Three
    Root = caller
    StepCount <- Steps
    Edges <- Diamond
    Tolerant <- Repaired
    Conditional <- Repair
    MaxDepth = 2
    MaxAttempts = 2
    MaxTurns = 3
    MaxTurnsPerChild = 2
    Calls <- TwoCalls
    Overrun = TRUE
    Detach = TRUE
SPECIFICATION FairInvocationSpec
INVARIANTS
    SerialSiblings
    FirstChainIsFunded
PROPERTIES
    ImplementsTurnLedger
    CancellationWins
    EverythingIsAnswered
CHECK_DEADLOCK FALSE
