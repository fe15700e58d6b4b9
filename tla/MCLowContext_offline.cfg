CONSTANTS
    Files = {f1}
    None = None
    Threshold = 2
    DebounceD = 2
    MaxTime = 5
    MaxWrites = 3
    MaxNotes = 1
    MaxRestarts = 0
    MayFail = FALSE
SPECIFICATION Spec
INVARIANTS OfflineListHonoursNotes
CHECK_DEADLOCK FALSE
