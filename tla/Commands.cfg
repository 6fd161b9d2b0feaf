\* One run under all three commands at once.
SPECIFICATION Spec
CONSTANTS
    Runs = {r1}
    Pruners = {p1}
    Revokers = {v1}
    Margin = 1
    Lifetimes = {2}
    MaxClock = 1
    MaxEpoch = 1
    MaxGen = 1
    PidReuse = FALSE
INVARIANTS
    TypeOK
    ExposedTokensRecoverable
    LeaseInv
    RevokeCoversEarlierIssuance
    CleanRevokeEndsExposure
PROPERTIES
    ImplementsRunToken
