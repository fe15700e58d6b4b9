CONSTANTS
    Files = {f1, f2}
    None = None
    Threshold = 2
    DebounceD = 2
    MaxTime = 3
    MaxWrites = 3
    MaxNotes = 1
    MaxRestarts = 1
    MayFail = TRUE
SPECIFICATION FairSpec
INVARIANTS TypeOK CacheIsGrounded BurstsAreDebounced
PROPERTIES CountsFollowSavesAndNotes CacheConverges
CHECK_DEADLOCK FALSE
