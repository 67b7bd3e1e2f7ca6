\* scripts/install.sh:381-383: `once` as root, then the service.
CONSTANTS
    h1 = h1
    h2 = h2
    daemon = daemon
    once1 = once1
    nofile = nofile
    NoHash = NoHash
    Hashes <- TwoHashes
    Statuses = {200, 400, 500}
    Daemon <- daemon
    OnceUsers = {once1}
    OnceUids = {"root"}
    Configs <- NotifyInitially
    Overlap = FALSE
    NoFile <- nofile
    Allowance <- OnceAllowance
SPECIFICATION Spec
INVARIANTS
    DaemonCanReadState
