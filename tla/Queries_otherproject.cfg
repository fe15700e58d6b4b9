SPECIFICATION QueriesSpec
CONSTANTS
    Projects = {here, elsewhere}
    Paths = {f}
    None = None
    DefaultLimit = 2
    MsPerSecond = 2
    MaxLimit = 1
    MaxNotes = 2
INVARIANTS
    StatusOfThisRepository
CHECK_DEADLOCK FALSE
