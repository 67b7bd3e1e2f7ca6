\* Two updates that overlap each other, interrupts, releases and the service.
CONSTANTS
    u1 = u1
    u2 = u2
    v1 = v1
    v2 = v2
    Latest = Latest
    None = None
    Damaged = Damaged
    Revisions = 2
    Updaters <- TwoUpdaters
    Tags <- TwoTags
    Unusable <- BadPackage
    Allowance <- OverlapAllowance
SPECIFICATION FairSpec
CHECK_DEADLOCK FALSE
INVARIANTS
    TypeOK
    InstalledIsListed
    NoOldServiceAfterUpdate
PROPERTIES
    StopsWhenCancelled
