SPECIFICATION FairSpec
CONSTANTS
    fast = fast
    full = full
    other = other
    Search = {fast, full}
    Dialog = {d1, d2}
    d1 = d1
    d2 = d2
    Kind <- Kinds
    Timed = {full}
    MaxPermits = 1
    EmptyStreak = 1
    MaxLocks = 2
    MaxTakeovers = 1
    DialogsOf <- AllWide
PROPERTIES SearchesReturn
