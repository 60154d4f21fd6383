SPECIFICATION RecordsSpec
CONSTANTS
    j1 = j1
    j2 = j2
    b1 = b1
    b2 = b2
    w1 = w1
    w2 = w2
    NoStage = NoStage
    NoClass = NoClass
    NoBatch = NoBatch
    NoAdmission = NoAdmission
    NoLease = NoLease
    publication = publication
    Publication = publication
    Stage = {publication}
    FailureClass = {}
    AuthorityClass = {}
    Job = {j1}
    Batch = {b1}
    Worker = {w1, w2}
    BatchOf <- MCBatchOf
    AuthorityOf <- MCAuthorityOf
    Position <- MCPosition
    Planned = {j1}
    Configs <- MCConfigs
    Pools <- MCPools
    Admission = {nightly}
    nightly = nightly
    MinimumIdleSlots = 1
    MaxGeneration = 3
    MaxSpans = 2
    MaxAttempts = 3
    MaxFaults = 2
    Timed = {w1, w2}
    ScheduleRows <- MCScheduleRows
    NoClock = NoClock
    Inherit = Inherit
    DayLength = 3
    FirstHour = 5
    LastHour = 7
    Shortage = {"memory"}
    MaxWindowFaults = 1
    Campaign = {"A", "B"}
    DefaultCampaign = "A"
    NoSelection = "none"
    Client = {q1, q2}
    q1 = q1
    q2 = q2
    MaxCommits = 2
    MaxSwitches = 1
    EcoCase = {e1, e2}
    e1 = e1
    e2 = e2
    Starter = {h1, h2}
    h1 = h1
    h2 = h2
    Analyst = {a1, a2}
    a1 = a1
    a2 = a2
    MaxGenerations = 1
    MaxEcoStarts = 2
    MaxEcoKills = 1
    QueryFunctions = 2
    Candidates = 2
    Indexes = 2
    Populations <- MCPopulations
    NoRow = NoRow
    ScoreThreshold = 2
    ChunkRows = {1, 3}
    MediumUnits = 1
    WidthCell = {x1, x2}
    x1 = x1
    x2 = x2
    PoolWorkers = 2
    WidthReplays = 2
    Measurable = {"first", "second"}
    MaxWidthFaults = 1
    c1 = c1
    c2 = c2
    c3 = c3
    p1 = p1
    p2 = p2
    p3 = p3
    LaneCells <- MCLaneCells
    CellsOf <- MCCellsOf
    LedgerOf <- MCLedgerOf
    OtherSignature = "u"
    Compiler = {p1, p2}
    Compactor = {p3}
    MaxRegistry = 2
    MaxLedgerFaults = 1
    MaxRemovals = 1
    MaxLaneKills = 1
SYMMETRY MCSymmetry
INVARIANTS
    RecordsTypeOK
    AttemptsSound
    WindowHolds
    PanelTrue
    EcologicalHolds
    ScoringHolds
    WidthHolds
    LanesHold
CONSTRAINT MCRecordsBound
CHECK_DEADLOCK FALSE
