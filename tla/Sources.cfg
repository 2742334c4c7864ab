SPECIFICATION MCSpec
CONSTANTS
    MaxRangeSpan <- SpanLimit
    Case <- Cases
    SourceId = {"x", "y"}
    UserPriority <- Preference
    FailMargin = 1
    MaxLead = 1
    MaxSourceFaults = 1
    MaxEdits = 1
    TimedSource = {"y"}
    Searcher = {1, 2}
    PaidQuery = {"p", "q"}
    MaxPerWindow = 3
    MaxPages = 2
    MaxWindows = 1
    MaxUpdates = 3
    UpdateKind <- Script
    Candidates = 2
    MaxPicks = 1
    MaxBotFaults = 1
    MaxBotStops = 1
INVARIANTS
    CompletionConsistent AcceptedIsNeeded SkipLosesNoEpisode GuardFollowsLibrary SeasonReading
    RefreshKeepsEdits BudgetKept
PROPERTIES SourcesComeBack BotSettlesUpdates
CHECK_DEADLOCK FALSE
