\* Detections on every small host, which changes once at any moment.
CONSTANTS
    Names <- ThreeNames
    IPs = {1, 2, 3}
    Global <- GlobalIPs
    Sources = {1, 2}
    Statuses = {200, 299, 300}
    LinkStates <- TellingLinks
    Views <- TwoViews
    Configs <- ThreeConfigs
    None = None
    Absent = Absent
    Unsupported = Unsupported
    Garbage = Garbage
    MaxChanges = 1
SPECIFICATION Spec
INVARIANTS
    TypeOK
    NothingInvented
    NothingSteadyIsMissed
    SnapshotIsCanonical
    FirstAnswerWins
    FailsForAReason
    CancelledDetectionFails
