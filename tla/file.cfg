\* install-daemon and update on one binary: errors, killed processes, power losses.
CONSTANTS
    w1 = w1
    w2 = w2
    c1 = c1
    c2 = c2
    Writers <- TwoWriters
    Contents <- TwoContents
    None = None
    Protocol <- CopyAndReplace
    PowerFails = TRUE
SPECIFICATION Spec
SYMMETRY ContentSymmetry
INVARIANTS
    TypeOK
    AlwaysWhole
    NoLitter
PROPERTIES
    ReplacesAtomically
