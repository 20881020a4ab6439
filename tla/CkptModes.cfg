SPECIFICATION Spec
CONSTANTS
    Ranks = {r0, r1}
    Rank0 = r0
    UseCritic = TRUE
    TotalSteps = 5
    SaveFreq = 1
    EpochLen = 2
    TotalEpochs = 2
    MaxActorKeep = 1
    MaxCriticKeep = 1
    Modes = {"auto", "disable", "resume_path"}
    CrashAt <- CrashAnywhere
    MaxRuns = 3
    Absent = Absent
    Torn = Torn
CHECK_DEADLOCK FALSE
INVARIANTS
    CoherentUnlessDoubtful
    RetainedByRun
