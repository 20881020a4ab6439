SPECIFICATION FairSpec
CONSTANTS
    c1 = c1
    c2 = c2
    c3 = c3
    Convs <- Three
    NumBatches = 2
    BatchOf <- OneThenTwo
    NumServers = 2
    MaxCache = 1
    MaxTurns = 0
    MaxCalls = 2
    MaxContext = 4
CHECK_DEADLOCK FALSE
INVARIANTS
    ToolsAwaited
PROPERTIES
    EndsUnlessForgotten
