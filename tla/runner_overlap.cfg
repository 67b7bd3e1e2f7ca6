\* The daemon and one `once` of either user that may overlap, under everything.
CONSTANTS
    h1 = h1
    h2 = h2
    daemon = daemon
    once1 = once1
    nofile = nofile
    NoHash = NoHash
    Hashes <- TwoHashes
    Statuses = {200, 400, 500}
    Daemon <- daemon
    OnceUsers = {once1}
    OnceUids = {"root", "ip-notify"}
    Configs <- MixedConfigs
    Overlap = TRUE
    NoFile <- nofile
    Allowance <- OverlapAllowance
SPECIFICATION Spec
SYMMETRY HashSymmetry
INVARIANTS
    TypeOK
    Truthful
PROPERTIES
    KeepsPromise
