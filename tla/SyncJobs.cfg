SPECIFICATION MCSpec
CONSTANTS
    s1 = s1
    s2 = s2
    SearchKeys = {s1, s2}
    MaxJobs = 2
    StaleRunning = 2
    StaleQueued = 3
    RequeueAge = 4
    Slots = {1, 2}
    MaxCrashes = 2
    FaultPoints <- FaultsWhileRunning
    MaxFaults = 1
    RowId = {1, 2}
    Pass = {"job", "create"}
    MaxEpisodes = 2
    MaxOutages = 1
    MaxRequests = 1
INVARIANTS TgExclusive NoDoubleExecution
PROPERTIES EveryJobSettles ToldByWhoEndsIt CompleteShowsEnd
CHECK_DEADLOCK FALSE
