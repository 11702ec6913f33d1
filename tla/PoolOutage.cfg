\* NetBox, its prefixes and the connection Secret change at any moment of a resolution.
SPECIFICATION FairSpec
CONSTANTS
    u1 = u1
    Users = {u1}
    Specs <- ThreeSpecs
    FirstSpec <- Two
    MayLag = TRUE
    NetBoxes <- Outages
    StampsConditions = FALSE
    MaxChanges = 1
    MaxFaults = 1
    Faults = {"patchError", "crash"}
INVARIANTS
    TypeOK
    StatusInvariant
    ReadyMeansResolved
    GatewayIsRecovered
PROPERTIES
    DeletedPoolGoes
\* A pool that is gone, or that nobody edits, leaves the controller waiting.
CHECK_DEADLOCK FALSE
