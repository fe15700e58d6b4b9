SPECIFICATION Spec
CONSTANTS
    Procs = {p1, p2, p3}
    Nobody = Nobody
    Notes = {n1, n2}
    Upgraded = TRUE
    UserLines = {u1, u2}
    NoFile = NoFile
    MaxInits = 3
    MaxCrashes = 1
    MaxUserActs = 3
    Downloaders = {l1, l2}
    FileCount = 2
    ChunkCount = 2
    MaxDownloads = 3
    Daemons = {d1, d2}
    MaxBytes = 2
    MaxEntries = 6
    MaxFailures = 1
    Projects = {here, elsewhere}
    Paths = {f, g}
    None = None
    DefaultLimit = 2
    MsPerSecond = 2
    MaxLimit = 1
    MaxNotes = 3
SYMMETRY Symmetry
INVARIANTS
    OpenIsMigrated
    VersionTruthful
    NotesStaySearchable
    InitIsAllOrNothing
    UserLinesSurvive
    OneWholeBlock
    QuietModelIsWhole
    RecentEntriesKept
    LogBounded
    StatusAddsUp
    SearchLosesOnlyToTheLimit
CHECK_DEADLOCK FALSE
