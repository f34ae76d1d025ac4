SPECIFICATION Spec
CONSTANTS
    keys = keys
    weights = weights
    c1 = c1
    c2 = c2
    a1 = a1
    a2 = a2
    ab = ab
    Clients = {c1, c2}
    Names = {keys}
    Ids = {a1, a2}
    Directories = {ab}
    DirectoryOf <- TwoInOne
    None = None
    SyncedCommit = FALSE
INVARIANT CommittedPayloadPresent
