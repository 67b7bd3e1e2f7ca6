\* Runs of install-daemon and of install.sh, one after the other, with everything that
\* can fail; a second is 5 nanoseconds, and a 64-bit integer has 6 bits.
CONSTANTS
    Second = 5
    Half = 32
    Garbage = Garbage
    None = None
    AdminDocs <- MCAdminDocs
    Answers <- MCAnswers
SPECIFICATION Spec
INVARIANTS
    TypeOK
    SuccessMeansInstalled
    ErrorLeavesNoHalfConfig
    StartedServiceWorks
    RunsOnUsableConfig
PROPERTIES
    KeepsConfig
