SPECIFICATION Spec
CONSTANTS
    Jobs <- AllJobs
CHECK_DEADLOCK FALSE
INVARIANTS
    LoadedInPlace
    EngineGetsModel
    MergedIsModel
PROPERTIES
    CallsReturn
