SPECIFICATION CampaignSpec
CONSTANTS
    Cases = {1, 2}
    CanaryCases = {1}
    WeightOf <- MCWeightOf
    PopulationOf <- MCPopulationOf
    TextOf <- MCDigestOf
    MethodOf <- MCDigestOf
    Legacy = {1}
    EditOf <- MCEditOf
    MatchWorkers = 1
    CanaryWorkers = 1
    Runner = {"schedule"}
    Scheduled = {"schedule"}
    MaxAuthority = 1
    MaxPublishes = 2
    MaxKilled = 1
    Absent = Absent
INVARIANTS NothingPendingPublished
CHECK_DEADLOCK FALSE
