\* The same, with a lastTransitionTime in every condition.
SPECIFICATION FairSpec
CONSTANTS
    u1 = u1
    Users = {u1}
    Specs <- ThreeSpecs
    FirstSpec <- Two
    MayLag = TRUE
    NetBoxes <- Outages
    StampsConditions = TRUE
    MaxChanges = 1
    MaxFaults = 1
    Faults = {"patchError", "crash"}
INVARIANTS
    StatusInvariant
    ReadyHasPrefixes
PROPERTIES
    PoolBecomesReady
    AllocatedCatchesUp
\* A pool that is gone, or that nobody edits, leaves the controller waiting.
CHECK_DEADLOCK FALSE
