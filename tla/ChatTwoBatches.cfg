SPECIFICATION FairSpec
CONSTANTS
    c1 = c1
    c2 = c2
    c3 = c3
    Convs <- Three
    NumBatches = 2
    BatchOf <- OneThenTwo
    NumServers = 2
    MaxCache = 2
    MaxTurns = 5
    MaxCalls = 2
    MaxContext = 7
CHECK_DEADLOCK FALSE
INVARIANTS
    RequestKnown
    BatchBalanced
    TurnLimit
PROPERTIES
    ImplementsBatchRollout
