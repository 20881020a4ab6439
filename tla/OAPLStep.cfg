SPECIFICATION FairSpec
CONSTANTS
    Configs <- SomeConfigs
CHECK_DEADLOCK FALSE
INVARIANTS
    RowsAligned
    GroupsAgree
    TrainedOnce
    MiniBatchMeans
    OnlyTheseRaise
PROPERTIES
    StepEnds
