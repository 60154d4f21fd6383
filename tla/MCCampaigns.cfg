SPECIFICATION CampaignsSpec
CONSTANTS
    j1 = j1
    j2 = j2
    j3 = j3
    j4 = j4
    b1 = b1
    b2 = b2
    b3 = b3
    NoStage = NoStage
    NoClass = NoClass
    NoBatch = NoBatch
    NoAdmission = NoAdmission
    Stage = {}
    FailureClass = {"authority-resolution:KeyError"}
    AuthorityClass = {"authority-resolution:KeyError"}
    Job = {j1, j2, j3, j4}
    Batch = {b1, b2, b3}
    BatchOf <- MCBatchOf
    AuthorityOf <- MCAuthorityOf
    Position <- MCPosition
    Planned <- MCPlanned
    Configs <- MCConfigs
    Pools <- MCPools
    Admission = {nightly}
    nightly = nightly
    MinimumIdleSlots = 1
    MaxGeneration = 3
    MaxSpans = 0
    MaxWorkers = 2
    Threshold = 2
    Queue <- MCQueue
    None = None
    Slots = {s1, s2}
    s1 = s1
    s2 = s2
    TimeoutAttempts = 2
    MaxRestarts = 1
    MaxAttempts = 2
    MaxFaults = 1
    Task = {t1, t2}
    t1 = t1
    t2 = t2
    Slot = {u1, u2}
    u1 = u1
    u2 = u2
    Chunks <- MCChunks
    Canary = {t1}
    TimeoutRetries = 1
    FailureLimit = 2
    MaxPid = 3
    MaxStops = 1
    Nothing = Nothing
    Cases = {1, 2}
    CanaryCases = {1}
    WeightOf <- MCWeightOf
    PopulationOf <- MCPopulationOf
    MatchWorkers = 2
    CanaryWorkers = 1
    Runner = {r1, r2}
    Scheduled = {r1}
    r1 = r1
    r2 = r2
    TextOf <- MCTextOf
    MethodOf <- MCMethodOf
    Legacy = {1, 2}
    MaxAuthority = 3
    EditOf <- MCEditOf
    MaxPublishes = 2
    MaxKilled = 1
    Absent = Absent
    Libraries = 2
    Groups = 2
    MaxRuns = 3
    MaxPipelineKills = 1
    QueuedCell = {"native", "archive-library", "source-library", "runtime-library", "malware"}
    KindOf <- MCKindOf
    CellProcess = {local, remote}
    local = local
    remote = remote
    Keeping = {local}
    MaxReviews = 2
    MaxExecutions = 2
    MaxProcessKills = 1
    LinkQueue <- MCLinkQueue
    BatchSize = 1
    IdenticalFailureLimit = 1
    Fingerprint = {"failure"}
    Qualifier = {q1, q2}
    q1 = q1
    q2 = q2
    Validator = validator
    validator = validator
    MaxLinks = 4
    MaxLinkKills = 1
    MaxPowerLosses = 1
    MaxAdmissions = 2
    RecipeCell = {k1, k2}
    k1 = k1
    k2 = k2
    RecipeRunner = {q1, q2}
    RecipeWorkers = 1
    MaxInputs = 2
    MaxRecipeEdits = 2
    MaxRecipeStarts = 2
    MaxRecipeKills = 1
    HashRun = {z0, z1, z2}
    Earlier = {z0}
    FailedBefore = {z2}
    z0 = z0
    z1 = z1
    z2 = z2
    Owner = {o1, o2, o3, o4, o5}
    o1 = o1
    o2 = o2
    o3 = o3
    o4 = o4
    o5 = o5
    Signature = {g1, g2}
    g1 = g1
    g2 = g2
    Exact <- MCExact
    FoldsOf <- MCFoldsOf
    HashJob = {analyst1, analyst2, analyst3}
    RoleOf <- MCRoleOf
    analyst1 = analyst1
    analyst2 = analyst2
    analyst3 = analyst3
    MaxRevisions = 1
    MaxAnalyses = 2
    MaxHashKills = 1
INVARIANTS
    CampaignsTypeOK
    ServiceLimits
    BlocksInOrder
    RunControlled
    SealsHold
    MatchingHolds
    OutputsTrue
    QualificationsTrue
    HashesTrue
PROPERTIES
    CompleteKept
CONSTRAINT MCBound
CHECK_DEADLOCK FALSE
