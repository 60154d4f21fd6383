SPECIFICATION LiveSpec
CONSTANTS
    j1 = j1
    j2 = j2
    b1 = b1
    b2 = b2
    w1 = w1
    w2 = w2
    NoStage = NoStage
    NoClass = NoClass
    NoBatch = NoBatch
    NoAdmission = NoAdmission
    NoLease = NoLease
    publication = publication
    Publication = publication
    Stage = {publication}
    FailureClass = {}
    AuthorityClass = {}
    Job = {j1, j2}
    Batch = {b1, b2}
    Worker = {w1, w2}
    BatchOf <- MCBatchOf
    AuthorityOf <- MCAuthorityOf
    Position <- MCPosition
    Planned = {j1, j2}
    Configs <- MCConfigs
    Pools <- MCPools
    Admission = {nightly}
    nightly = nightly
    MinimumIdleSlots = 1
    MaxGeneration = 1
    MaxSpans = 1
    MaxAttempts = 1
    MaxFaults = 1
    Bytes = 5
    ChunkBytes = 2
    NoFile = NoFile
    MaxCrashes = 3
INVARIANTS
    UploadExact
PROPERTIES
    UploadEnds
    WorkSettles
CHECK_DEADLOCK FALSE
