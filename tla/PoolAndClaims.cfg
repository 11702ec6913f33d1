\* A claim, and a pool that is edited, paused and deleted; nothing fails.
SPECIFICATION FairSpec
CONSTANTS
    c1 = c1
    NoClaim = NoClaim
    NoAddress = NoAddress
    Claims = {c1}
    Names = {c1}
    NameOf <- OwnNames
    Specs <- TwoSpecs
    FirstSpec <- Both
    Inventory <- Prefixes
    StampsConditions = FALSE
    MaxLag = 0
    MaxChanges = 1
INVARIANTS
    NoLeakWhilePoolExists
    PublishedStaysTrue
    TogetherInvariant
PROPERTIES
    LedgerIsKept
    DeletionCompletes
\* With no claim and no pool left, the controllers wait for users.
CHECK_DEADLOCK FALSE
