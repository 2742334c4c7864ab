SPECIFICATION MCSpec
CONSTANTS
    Title = {"a", "b"}
    Wanted = {"a"}
    Message <- Chat
    Around = 1
    ScanLimit = 2
    QueryLimit = 2
    DeepBudget = 1
    MaxScanFaults = 1
    MaxSearches = 1
    Source = {"s"}
    ConnectRetries = 2
    MaxSessionFaults = 1
    MaxBorrows = 1
PROPERTIES IndexHasWanted SessionListensAgain
