SPECIFICATION ValidationSpec
CONSTANTS
    Queue <- MCQueue
    None = None
    Slots = {s1, s2}
    s1 = s1
    s2 = s2
    TimeoutAttempts = 1
    MaxRestarts = 1
    MaxAttempts = 1
    MaxFaults = 1
INVARIANTS
    InterruptedResumable
CHECK_DEADLOCK FALSE
