\* The epoch file when a revocation dies between its truncation and its write.
SPECIFICATION Spec
CONSTANTS
    Issuers = {i1, i2}
    Advancers = {a1, a2}
    MaxEpoch = 3
    Empty = Empty
    TornWrite = TRUE
PROPERTY
    StaleGuardNeverCommits
