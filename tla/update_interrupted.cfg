\* update.go:324: an interrupted update takes an active service for inactive.
CONSTANTS
    u1 = u1
    u2 = u2
    v1 = v1
    v2 = v2
    Latest = Latest
    None = None
    Damaged = Damaged
    Revisions = 2
    Updaters <- OneUpdater
    Tags <- OneTag
    Unusable <- BadPackage
    Allowance <- InterruptAllowance
SPECIFICATION Spec
CHECK_DEADLOCK FALSE
INVARIANTS
    SkippedServiceIsNotOld
