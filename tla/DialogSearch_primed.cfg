SPECIFICATION Spec
CONSTANTS
    fast = fast
    full = full
    other = other
    Search = {full, other}
    Dialog = {d1, d2}
    d1 = d1
    d2 = d2
    Kind <- Histories
    Timed = {full}
    MaxPermits = 2
    EmptyStreak = 1
    MaxLocks = 1
    MaxTakeovers = 0
    DialogsOf <- Both
PROPERTIES EveryDialogSearched
