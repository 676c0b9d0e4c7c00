SPECIFICATION Spec
CONSTANTS
    Deliveries = {d1}
    Workers = {w1}
    Kinds = {"Accept"}
    MaxAttempts = 8
    RetryIntervals <- MCEightIntervals
    BatchSize = 1
    OverdueCap = 0
    MaxCrashes = 0
CHECK_DEADLOCK FALSE
PROPERTIES
    DocumentedSchedule
