\* One claim, whose pool and Cluster come and go.
SPECIFICATION FairSpec
CONSTANTS
    c1 = c1
    c2 = c2
    c3 = c3
    a1 = a1
    a2 = a2
    NoClaim = NoClaim
    NoAddress = NoAddress
    Claims = {c1}
    Names = {c1}
    NameOf <- OwnNames
    Addresses = {a1, a2}
    Tags = {"owned"}
    Fields = {"uid"}
    Pools <- Changing
    Faults = {"crash", "callError", "replyLost", "pollTimeout"}
    MaxFaults = 2
    MaxLag = 0
    ClusterStates = {"running", "paused", "missing"}
PROPERTIES
    ImplementsLedger
    ClaimIsServed
    DeletedClaimGoes
\* With no claim left to serve and every fault spent, the controller waits for users.
CHECK_DEADLOCK FALSE
