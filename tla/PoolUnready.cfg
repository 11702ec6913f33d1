\* NetBox answers and nothing changes: no status is ever stored.
SPECIFICATION FairSpec
CONSTANTS
    u1 = u1
    Users = {u1}
    Specs <- ThreeSpecs
    FirstSpec <- Two
    MayLag = TRUE
    NetBoxes <- Outages
    StampsConditions = FALSE
    MaxChanges = 1
    MaxFaults = 1
    Faults = {"patchError", "crash"}
PROPERTIES
    PoolBecomesReady
\* A pool that is gone, or that nobody edits, leaves the controller waiting.
CHECK_DEADLOCK FALSE
