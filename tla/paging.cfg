SPECIFICATION Spec
CONSTANTS
    N = 5
    PageSize = 2
    MaxChanges = 2
CHECK_DEADLOCK FALSE
INVARIANTS
    TypeOK
    SlipsAreAccounted
    NextEndsAtLast
    OnlyLateOnesAreMissed
    OnlyLateOnesRepeat
PROPERTIES
    WalkEnds
