SPECIFICATION ServerSpec
CONSTANTS
    Threads = {t1, t2, t3}
    ReportIds = {r1}
    Devices = {d1, d2}
    Notes = {n1}
    MaxSends = 2
    NoReport = NoReport
    Nobody = Nobody

    SessionThreads = {c1, c2}
    Life = 3
    Window = 3
    MaxTokens = 3
    SessionMaxTime = 6
    NoToken = NoToken

    Items = {i1, i2}
    MaxVersion = 2
    MaxFailures = 2
    NoItem = NoItem
    NoArchive = NoArchive
CONSTRAINT ServerBounded
SYMMETRY ItemSymmetry
CHECK_DEADLOCK FALSE
INVARIANTS
    ServerInv
    ListedIsLoadable
    NotesPersist
    RevocationIsFinal
    LoginEnds
    ArchiveIsLoadable
    QuietBackupIsExact
    RestoredOrRolledBack
