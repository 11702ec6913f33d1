\* Two clients of one NetBox, pages of one row, and rows of another cluster.
SPECIFICATION FairSpec
CONSTANTS
    c1 = c1
    c2 = c2
    Clients = {c1, c2}
    Positions = {1, 2, 3}
    Tags = {"owned", "default", "extra"}
    SlugOf <- SameSlug
    OwnershipTag = "owned"
    Fields = {"uid", "site"}
    ClaimUIDField = "uid"
    Defaults <- PoolDefaults
    Annotations <- ClaimAnnotations
    PageSize = 1
    MaxForeign = 1
    MaxFaults = 2
INVARIANTS
    TypeOK
    LookupIsExact
    ClientInvariant
PROPERTIES
    OnlyOwnRowsDeleted
    ClientsFinish
\* Clients that have released their address have nothing left to do.
CHECK_DEADLOCK FALSE
