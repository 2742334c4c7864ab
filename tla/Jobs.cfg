SPECIFICATION MCSpec
CONSTANTS
    s1 = s1
    s2 = s2
    SearchKeys = {s1}
    MaxJobs = 3
    StaleRunning = 2
    StaleQueued = 3
    RequeueAge = 4
    Slots = {1, 2}
    MaxCrashes = 1
    FaultPoints <- FaultAtStartup
    MaxFaults = 1
    Subs = {1, 2, 3}
    Capacity = 2
    Moving = {1}
    MaxBreaks = 1
    MaxUserActs = 1
INVARIANTS TypeOK ExecutingOwnsRow OnlyLatestActive SameKeyExclusive SearchPermitsKept
PROPERTIES LifecycleKept MarkedWasAttempted AllEachIsSearched
