\* Liveness of the daemon, with one overlapping `once`, bounded faults and signals.
CONSTANTS
    h1 = h1
    h2 = h2
    daemon = daemon
    once1 = once1
    nofile = nofile
    NoHash = NoHash
    Hashes <- TwoHashes
    Statuses = {200, 400, 500}
    Daemon <- daemon
    OnceUsers = {once1}
    OnceUids = {"ip-notify"}
    Configs <- MixedConfigs
    Overlap = TRUE
    NoFile <- nofile
    Allowance <- LiveAllowance
SPECIFICATION FairSpec
PROPERTIES
    Converges
    StopsWhenSignalled
