\* README.md:285: a change that no notifier sends and the user does not know.
CONSTANTS
    h1 = h1
    h2 = h2
    daemon = daemon
    once1 = once1
    nofile = nofile
    NoHash = NoHash
    Hashes <- TwoHashes
    Statuses = {200, 400, 500}
    Daemon <- daemon
    OnceUsers = {}
    OnceUids = {"ip-notify"}
    Configs <- NotifyInitially
    Overlap = FALSE
    NoFile <- nofile
    Allowance <- LostAnswerAllowance
SPECIFICATION Spec
INVARIANTS
    ChangedSnapshotIsKnown
