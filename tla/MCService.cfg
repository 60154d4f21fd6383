SPECIFICATION FairServiceSpec
CONSTANTS
    j1 = j1
    j2 = j2
    j3 = j3
    j4 = j4
    b1 = b1
    b2 = b2
    b3 = b3
    NoStage = NoStage
    NoClass = NoClass
    NoBatch = NoBatch
    NoAdmission = NoAdmission
    Stage = {}
    FailureClass = {"authority-resolution:KeyError"}
    AuthorityClass = {"authority-resolution:KeyError"}
    Job = {j1, j4}
    Batch = {b1, b3}
    BatchOf <- MCBatchOf
    AuthorityOf <- MCAuthorityOf
    Position <- MCPosition
    Planned <- MCPlanned
    Configs <- MCConfigs
    Pools <- MCPools
    Admission = {nightly}
    nightly = nightly
    MinimumIdleSlots = 1
    MaxGeneration = 3
    MaxSpans = 0
    MaxWorkers = 1
    Threshold = 2
PROPERTIES
    JobsSettle
    BlocksClose
CHECK_DEADLOCK FALSE
