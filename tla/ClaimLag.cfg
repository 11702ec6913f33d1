\* Reconciles start on caches that lag behind the API, and a claim follows another under
\* its name.
SPECIFICATION Spec
CONSTANTS
    c1 = c1
    c2 = c2
    c3 = c3
    a1 = a1
    a2 = a2
    NoClaim = NoClaim
    NoAddress = NoAddress
    Claims = {c1, c2, c3}
    Names = {c1, c2}
    NameOf <- NextName
    Addresses = {a1, a2}
    Tags = {"owned"}
    Fields = {"uid"}
    Pools <- Steady
    Faults = {"crash"}
    MaxFaults = 1
    MaxLag = 2
    ClusterStates = {"running"}
INVARIANTS
    OneRecordPerClaim
    RecordImpliesFinalizer
    OwnerInvariant
    AddressImpliesFinalizer
    ReadyIsTrue
PROPERTIES
    ImplementsLedger
\* With no claim left to serve and every fault spent, the controller waits for users.
CHECK_DEADLOCK FALSE
