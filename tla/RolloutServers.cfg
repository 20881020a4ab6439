SPECIFICATION Spec
CONSTANTS
    Jobs <- MCJobs
    Steps = 2
    MaxClashes = 2
CHECK_DEADLOCK FALSE
INVARIANTS
    GeneratesCurrent
    RandomnessKept
    DevicesShared
PROPERTIES
    JobsEnd
