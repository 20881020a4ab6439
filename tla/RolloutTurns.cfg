SPECIFICATION Spec
CONSTANTS
    r1 = r1
    r2 = r2
    Requests <- Two
    NumCalls = 2
    Modes <- AllModes
    PromptLens <- ShortLong
    AnswerLens <- OneOrTwo
    ToolLens <- OneOrFour
    CloseLen = 1
    ConfiguredN = 2
    MaxTurns = 2
    MaxModelLen = 8
    PromptLength = 3
    ResponseLength = 3
SYMMETRY Either
CHECK_DEADLOCK FALSE
INVARIANTS
    EngineFits
    TrainsAsConfigured
    TurnByTurn
