SPECIFICATION FairSpec
CONSTANTS
    Jobs <- AllJobs
CHECK_DEADLOCK FALSE
INVARIANTS
    ScoresExplained
    FailuresExplained
PROPERTIES
    EveryBatchScored
