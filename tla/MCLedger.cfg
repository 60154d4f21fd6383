SPECIFICATION Spec
CONSTANTS
    j1 = j1
    b1 = b1
    NoStage = NoStage
    NoClass = NoClass
    NoBatch = NoBatch
    NoAdmission = NoAdmission
    Stage = {compile, publish}
    compile = compile
    publish = publish
    FailureClass = {"authority-resolution:KeyError"}
    AuthorityClass = {"authority-resolution:KeyError"}
    Job <- MCJob
    Batch = {b1}
    BatchOf <- MCBatchOf
    AuthorityOf <- MCAuthorityOf
    Position <- MCPosition
    Planned <- MCJob
    Configs <- MCConfigs
    Pools <- MCPools
    Admission = {nightly}
    nightly = nightly
    MinimumIdleSlots = 1
    MaxGeneration = 3
    MaxSpans = 2
INVARIANTS
    TypeOK
    LedgerConsistent
PROPERTIES
    EvidencePreserved
    CompleteIsFinal
    ImplementsJobLease
