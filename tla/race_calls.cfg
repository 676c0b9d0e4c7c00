SPECIFICATION FairSpec
CONSTANTS
    bob = bob
    carol = carol
    f1 = f1
    f2 = f2
    u1 = u1
    a1 = a1
    Calls = {c1, c2}
    Senders = {bob, carol}
    Follows = {f1, f2}
    Undos = {u1}
    Answers = {a1}
    Sender <- MCSender
    Local = alice
    Refresher = refresher
    NoMessage = NoMessage
    MaxCalls = 3
    MaxAdmin = 1
CHECK_DEADLOCK FALSE
INVARIANTS
    TypeOK
    CountMatchesRows
    BlockLetsFewThrough
    AnswersAreBounded
    OnlyCrossingsDeadlock
PROPERTIES
    CallsReturn
