SPECIFICATION HSpec
CONSTANTS
    alice = alice
    amy = amy
    bob = bob
    carol = carol
    dave = dave
    Locals = {alice, amy}
    Remotes = {bob, carol, dave}
    Documents <- MCDocuments
    LocalKey <- MCLocalKey
    StubHandle <- MCStubHandle
    NoHandle = NoHandle
    NoKey = NoKey
    NoDocument = NoDocument
    Urls <- MCUrls
    Inbox <- MCInbox
    Bodies = {note}
    Shapes <- MCShapes
    Missing = Missing
    Changed = Changed
    NoRequest = NoRequest
INVARIANTS
    TypeOK
    KeysAreOwn
    ProfileMatchesKey
    LocalsCanSign
    OwnDeliveriesVerify
    AcceptedWhenIntact
