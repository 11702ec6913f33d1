\* A restart strikes after the NetBox record is deleted and before the IPAddress is.
SPECIFICATION Spec
CONSTANTS
    c1 = c1
    c2 = c2
    c3 = c3
    a1 = a1
    a2 = a2
    NoClaim = NoClaim
    NoAddress = NoAddress
    Claims = {c1, c2}
    Names = {c1, c2}
    NameOf <- OwnNames
    Addresses = {a1, a2}
    Tags = {"owned"}
    Fields = {"uid"}
    Pools <- Steady
    Faults = {"crash", "releaseInterrupted"}
    MaxFaults = 1
    MaxLag = 0
    ClusterStates = {"running"}
PROPERTIES
    OnlyOwnRecordsDeleted
\* With no claim left to serve and every fault spent, the controller waits for users.
CHECK_DEADLOCK FALSE
