SPECIFICATION FSpec
CONSTANTS
    alice = alice
    bob = bob
    carol = carol
    x = x
    f1 = f1
    f2 = f2
    u1 = u1
    n1 = n1
    NoUri = NoUri
    Nobody = Nobody
    NoContent = NoContent
    Actors = {alice, bob, carol}
    LocalActors = {alice}
    Handle <- MCHandle
    Domain <- MCDomain
    Messages <- MCMessages
    AppUris = {}
    MaxAnonymous = 0
    Objects = {n1}
    Notes <- MCNotes
    Inbox <- MCInbox
    Contents = {"hello"}
    Workers = {w1}
    MaxAttempts = 2
    RetryIntervals <- MCIntervals
    BatchSize = 1
    OverdueCap = 0
    MaxCrashes = 1
CHECK_DEADLOCK FALSE
INVARIANTS
    HeldRowsArePending
    PostsBounded
PROPERTIES
    NotesGoToFollowers
    SettledStays
    KeepsPromise
    FollowersHear
