SPECIFICATION FairRemoteSpec
CONSTANTS
    j1 = j1
    b1 = b1
    w1 = w1
    w2 = w2
    NoStage = NoStage
    NoClass = NoClass
    NoBatch = NoBatch
    NoAdmission = NoAdmission
    NoLease = NoLease
    publication = publication
    Publication = publication
    Stage = {publication}
    FailureClass = {}
    AuthorityClass = {}
    Job = {j1}
    Batch = {b1}
    Worker = {w1, w2}
    BatchOf <- MCBatchOf
    AuthorityOf <- MCAuthorityOf
    Position <- MCPosition
    Planned = {j1}
    Configs <- MCConfigs
    Pools <- MCPools
    Admission = {nightly}
    nightly = nightly
    MinimumIdleSlots = 1
    MaxGeneration = 2
    MaxSpans = 2
    MaxFaults = 1
INVARIANTS
    RemoteTypeOK
    RemoteResultDurable
    NoStagingLeft
PROPERTIES RemoteSettles
CHECK_DEADLOCK FALSE
