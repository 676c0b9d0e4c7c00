SPECIFICATION MCSpec
CONSTANTS
    alice = alice
    bob = bob
    carol = carol
    rob = rob
    x = x
    f1 = f1
    f2 = f2
    f3 = f3
    u1 = u1
    r1 = r1
    k1 = k1
    a1 = a1
    l1 = l1
    c1 = c1
    c2 = c2
    p1 = p1
    d1 = d1
    d2 = d2
    y1 = y1
    b1 = b1
    u2 = u2
    u3 = u3
    n1 = n1
    o1 = o1
    NoUri = NoUri
    Nobody = Nobody
    NoContent = NoContent
    Actors = {alice, bob, carol, rob}
    LocalActors = {alice}
    Handle <- MCHandle
    Domain <- MCDomain
    Messages <- MCMessages
    AppUris = {l1}
    MaxAnonymous = 1
    Objects = {n1, o1}
    Notes <- MCNotes
    Inbox <- MCInbox
    Contents = {"hello", "edited"}
INVARIANTS
    CTypeOK
    StatsMatchGraph
    UriNamesItsFollow
    AnsweredOnce
    FollowersWereTold
    StatusesCounted
PROPERTIES
    GoneStaysGone
    TombstonesStay
    OnlyOwnersChange
    ReactionsComeAnew
