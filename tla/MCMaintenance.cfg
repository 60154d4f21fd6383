SPECIFICATION MaintenanceSpec
CONSTANTS
    a1 = a1
    a2 = a2
    x1 = x1
    b1 = b1
    b2 = b2
    NoStage = NoStage
    NoClass = NoClass
    NoBatch = NoBatch
    NoAdmission = NoAdmission
    Stage = {}
    FailureClass = {}
    AuthorityClass = {}
    Job <- MCJob
    Batch = {b1, b2}
    BatchOf <- MCBatchOf
    AuthorityOf <- MCAuthorityOf
    Position <- MCPosition
    Planned <- MCJob
    Configs <- MCConfigs
    Pools <- MCPools
    Admission = {nightly}
    nightly = nightly
    MinimumIdleSlots = 1
    MaxGeneration = 1
    MaxSpans = 0
    QueueJob = {q1}
    q1 = q1
    Run = {r1}
    r1 = r1
    Error = {e1}
    e1 = e1
    Oversized = {e1}
    Hold <- MCHold
    Collector = {c1, c2}
    c1 = c1
    c2 = c2
    TriggerOf <- MCTriggerOf
    NoPlan = NoPlan
    MaxAttempt = 2
    MaxAccidents = 1
    MaxPopulation = 2
    MaxKills = 1
    MaxPackages = 1
    NoFileYet = NoFileYet
    Operator = {o1, o2}
    o1 = o1
    o2 = o2
    Pack = {pack1}
    pack1 = pack1
    Input = {i1, i2}
    i1 = i1
    i2 = i2
    Revisions <- MCRevisions
    FetchAttempts = 2
    MaxToolFaults = 1
    Unset = Unset
    k1 = k1
    k2 = k2
    Candidate = {k1, k2}
    PinOf <- MCPinOf
    Unresolved = 0
    Puller = {p1, p2}
    p1 = p1
    p2 = p2
    MaxFetches = 2
    MaxLosses = 1
INVARIANTS
    MaintenanceTypeOK
    OneJobPerAuthority
    BlocksListed
    CollectionSafe
    StoresSound
PROPERTIES
    RefreshKeepsOutcome
    HoldsWin
    RecordsKept
CHECK_DEADLOCK FALSE
