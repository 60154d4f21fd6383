SPECIFICATION Spec
CONSTANTS
    a1 = a1
    a2 = a2
    x1 = x1
    b1 = b1
    b2 = b2
    NoStage = NoStage
    NoClass = NoClass
    NoBatch = NoBatch
    NoAdmission = NoAdmission
    Stage = {}
    FailureClass = {}
    AuthorityClass = {}
    Job <- MCJob
    Batch = {b1, b2}
    BatchOf <- MCBatchOf
    AuthorityOf <- MCAuthorityOf
    Position <- MCPosition
    Planned <- MCJob
    Configs <- MCConfigs
    Pools <- MCPools
    Admission = {nightly}
    nightly = nightly
    MinimumIdleSlots = 1
    MaxGeneration = 1
    MaxSpans = 0
INVARIANT LookaheadHasPrimary
