\* README.md:290: the initial snapshot is skipped after a change, too.
CONSTANTS
    h1 = h1
    h2 = h2
    daemon = daemon
    once1 = once1
    nofile = nofile
    NoHash = NoHash
    Hashes <- TwoHashes
    Statuses = {200, 400, 500}
    Daemon <- daemon
    OnceUsers = {}
    OnceUids = {"ip-notify"}
    Configs <- SkipInitially
    Overlap = FALSE
    NoFile <- nofile
    Allowance <- ChangesAllowance
SPECIFICATION Spec
INVARIANTS
    InitialSkipEndsOnChange
