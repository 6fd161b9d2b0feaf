\* Two issuances and two revocations on a directory of two entries.
SPECIFICATION DirSpec
CONSTANTS
    Issuers = {i1, i2}
    Advancers = {a1, a2}
    MaxEpoch = 2
    Empty = Empty
    TornWrite = FALSE
    Keys <- TwoKeys
    MinId = 1
    KindOf <- KindOfKey
    MaxTokens = 2
    NoFile = NoFile
    Torn = Torn
SYMMETRY Symmetry
INVARIANTS
    DirectoryInv
    OnlyWholeEntries
    CleanRevocationIsDurable
    StatusIdSelects
PROPERTIES
    ImplementsEpochFile
    ImplementsIssuanceEpoch
    SuccessIsDurable
    InvalidFilesRetained
