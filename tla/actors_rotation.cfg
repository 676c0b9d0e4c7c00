SPECIFICATION Spec
CONSTANTS
    alice = alice
    amy = amy
    bob = bob
    carol = carol
    dave = dave
    Locals = {alice, amy}
    Remotes = {bob, carol, dave}
    Documents <- MCDocuments
    LocalKey <- MCLocalKey
    StubHandle <- MCStubHandle
    NoHandle = NoHandle
    NoKey = NoKey
    NoDocument = NoDocument
INVARIANTS
    UpsertStoresKey
