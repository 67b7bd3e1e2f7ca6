\* The daemon and one `once` that never overlap, under every fault that loses an outcome.
CONSTANTS
    h1 = h1
    h2 = h2
    daemon = daemon
    once1 = once1
    nofile = nofile
    NoHash = NoHash
    Hashes <- TwoHashes
    Statuses = {200, 400, 500}
    Daemon <- daemon
    OnceUsers = {once1}
    OnceUids = {"ip-notify"}
    Configs <- BothConfigs
    Overlap = FALSE
    NoFile <- nofile
    Allowance <- SingleAllowance
SPECIFICATION Spec
SYMMETRY HashSymmetry
INVARIANTS
    NoNeedlessSend
    RepeatsArePaidFor
    RecordMatchesInbox
PROPERTIES
    PreviousFollowsCurrent
