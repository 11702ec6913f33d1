\* Two claims share a pool whose ownership tag is edited while NetBox, the API server and
\* the manager fail; caches are up to date whenever a reconcile starts.
SPECIFICATION Spec
CONSTANTS
    c1 = c1
    c2 = c2
    c3 = c3
    a1 = a1
    a2 = a2
    NoClaim = NoClaim
    NoAddress = NoAddress
    Claims = {c1, c2}
    Names = {c1, c2}
    NameOf <- OwnNames
    Addresses = {a1, a2}
    Tags = {"owned", "renamed"}
    Fields = {"uid"}
    Pools <- Retagged
    Faults = {"lateApply", "crash", "callError", "replyLost", "pollTimeout"}
    MaxFaults = 2
    MaxLag = 0
    ClusterStates = {"running"}
\* Claims are interchangeable; invariants and a property of single steps are checked.
SYMMETRY MCSymmetry
INVARIANTS
    TypeOK
    AddressImpliesFinalizer
    PublishedAddressIsReserved
    ReadyIsTrue
    PublishedAddressesDiffer
PROPERTIES
    OnlyOwnRecordsDeleted
\* With no claim left to serve and every fault spent, the controller waits for users.
CHECK_DEADLOCK FALSE
