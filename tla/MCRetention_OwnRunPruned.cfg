SPECIFICATION RetentionSpec
CONSTANTS
    QueueJob = {}
    Run = {r1}
    r1 = r1
    Error = {e1}
    e1 = e1
    Oversized = {}
    Hold = {}
    Collector = {c1}
    c1 = c1
    TriggerOf <- MCTriggerOf
    NoPlan = NoPlan
    MaxAttempt = 1
    MaxAccidents = 1
INVARIANTS
    OwnRunPruned
CHECK_DEADLOCK FALSE
