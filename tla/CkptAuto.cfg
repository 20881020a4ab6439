SPECIFICATION FairSpec
CONSTANTS
    Ranks = {r0, r1}
    Rank0 = r0
    UseCritic = TRUE
    TotalSteps = 5
    SaveFreq = 2
    EpochLen = 2
    TotalEpochs = 3
    MaxActorKeep = 2
    MaxCriticKeep = 2
    Modes = {"auto"}
    CrashAt <- CrashButNotInTracker
    MaxRuns = 3
    Absent = Absent
    Torn = Torn
CHECK_DEADLOCK FALSE
INVARIANTS
    TrackerSound
    CoherentResume
    LossBounded
PROPERTIES
    ImplementsDurableTraining
    EventuallyFinishes
