SPECIFICATION FairSpec
CONSTANTS
    Deliveries = {d1, d2}
    Workers = {w1, w2}
    Kinds = {"Accept", "Create"}
    MaxAttempts = 2
    RetryIntervals <- MCIntervals
    BatchSize = 1
    OverdueCap = 0
    MaxCrashes = 1
CHECK_DEADLOCK FALSE
INVARIANTS
    TypeOK
    PendingHasBudget
    DeliveredWasReceived
    AttemptsWereMade
PROPERTIES
    EverySettles
