SPECIFICATION Spec
CONSTANTS
    Deliveries = {d1, d2}
    Workers = {w1}
    Kinds = {"Accept", "Create"}
    MaxAttempts = 2
    RetryIntervals <- MCIntervals
    BatchSize = 2
    OverdueCap = 0
    MaxCrashes = 0
CHECK_DEADLOCK FALSE
INVARIANTS
    PollNeverErrors
