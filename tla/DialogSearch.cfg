SPECIFICATION Spec
CONSTANTS
    fast = fast
    full = full
    other = other
    Search = {fast, full}
    Dialog = {d1, d2}
    d1 = d1
    d2 = d2
    Kind <- Kinds
    Timed = {full}
    MaxPermits = 2
    EmptyStreak = 1
    MaxLocks = 1
    MaxTakeovers = 0
    DialogsOf <- FullWide
INVARIANTS TypeOK PermitsKept SourceSerialized
PROPERTIES AllDialogsOrNone
