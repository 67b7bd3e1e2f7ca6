\* Every archive of up to three entries under every SHA256SUMS of up to two lines.
CONSTANTS
    d1 = d1
    d2 = d2
    h1 = h1
    h2 = h2
    Data <- TwoData
    Empty = Empty
    Hashes <- TwoHashes
    Invalid = Invalid
    None = None
    LineSeqs <- ShortSums
    EntrySeqs <- ShortArchives
SPECIFICATION Spec
CHECK_DEADLOCK FALSE
INVARIANTS
    TypeOK
    AcceptsExactly
