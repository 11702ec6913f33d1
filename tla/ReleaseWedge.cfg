\* The reply of the DELETE is lost, or a reply in the rest of the release.
SPECIFICATION FairSpec
CONSTANTS
    c1 = c1
    c2 = c2
    c3 = c3
    a1 = a1
    a2 = a2
    NoClaim = NoClaim
    NoAddress = NoAddress
    Claims = {c1, c2}
    Names = {c1, c2}
    NameOf <- OwnNames
    Addresses = {a1}
    Tags = {"owned"}
    Fields = {"uid"}
    Pools <- OnePrefix
    Faults = {"replyLost", "releaseInterrupted"}
    MaxFaults = 1
    MaxLag = 0
    ClusterStates = {"running"}
PROPERTIES
    DeletedClaimGoes
\* With no claim left to serve and every fault spent, the controller waits for users.
CHECK_DEADLOCK FALSE
