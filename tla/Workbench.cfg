CONSTANTS
    a1 = a1
    c1 = c1
    c2 = c2
    OT = OT
    FieldDevice = FieldDevice

    Requests = {r1, r2}
    MaxIssued = 2
    MaxMistyped = 1

    ReportIds = {a1}
    CaptureIds = {c1, c2}
    NoId = NoId
    SourceOf <- MCSourceOf
    MaxCalls = 2
    MaxTitle = 1

    SavedReports = {s1, s2, s3}
    FindingIds = {f1}
    NoKey = NoKey
    MaxFindings = 2

    ReportSections = {"overview", "findings"}
    Summary = "overview"
    NoSection = "none"

    NoteSections = {n1, n2}
    Entities = {e1, e2}
    NoEntity = NoEntity
    MaxNoteText = 1
    MaxNoteSaves = 2

    Flows <- MCFlows
    Assets <- MCAssets
    Findings <- MCFindings

    DrillKeys = {k1, k2}
    NoDrill = NoDrill
    MaxOpens = 3

    FileSections = {"devices", "services"}
    FileIds = {"r", "q"}
    SourceFiles <- MCSourceFiles
    TemporaryId <- MCTemporaryId
    MaxFileOpens = 2
    MaxFileNotes = 1

    Devices = {1, 2, 3}
    Graphs <- MCGraphs
    ClassOf <- MCClassOf
    RoleOf <- MCRoleOf
    Classes = {OT}
    NoClass = NoClass
    Roles = {FieldDevice}
    Anything = Anything
    PageSize = 1
    MaxHops = 3

    MaxSearches = 2
    MaxListings = 2

    Hosts = {1, 2, 3, 4}
    Links <- MCLinks
    Services = {"m", "d"}
    AllServices = "all"
    Offers <- MCOffers
    EdgeLimit <- MCLimit
    NodeLimit <- MCLimit

    ClusteredAssets = {1, 2, 3, 4}
    Relations <- MCRelations
    GroupingKinds = {"class", "subnet"}
    KeyOf <- MCKeyOf
    ClusterBatch = 1
    InspectorSize = 1

    KeyedReports = {"r1", "r2", "r3"}
    NoReport = "none"
    MaxView = 1

    Browsers = {b1, b2}
    MaxEdits = 1
    MaxWrites = 3

    k1 = k1
    Keys = {k1}
    Blank = Blank
    NoRows = NoRows
    MaxRows = 2
    Sections = {"captureScope", "segments", "advanced"}
    AccountTables <- MCAccountTables

    Shapes <- MCShapes
    Servers = {srv}
    MaxPairs = 2
    MaxScan = 1

    Ids = {p1, p2}
    p1 = p1
    p2 = p2
    NoProfile = NoProfile
    Leftovers <- MCLeftovers
    Brought <- MCBrought
    MaxSaves = 3

    MaxKinds = 3
    MaxText = 2

SPECIFICATION WorkSpec
CONSTRAINT WorkBounded
CHECK_DEADLOCK FALSE
INVARIANTS
    SessionInv
    LibraryInv
    ComparisonInv
    ReportInv
    NotesInv
    PivotsInv
    TopologyInv
    SyncInv
    EditorInv
    ScanKeepsRows
    ProfilesInv
    ReadinessAgrees
    CsvInv
PROPERTY
    StepsKeepWork
