\* A revoke that falls between any two steps of an issuance, renewal or login,
\* and a login that falls between the steps of an issuance.
SPECIFICATION MCSpec
CONSTANTS
    Acquirers = {t1}
    Logins = {l1}
    Revokers = {v1}
    Authorities = {"app"}
    Policies = {"read"}
    Margin = 1
    Window = 2
    Lifetimes = {2}
    MaxTokens = 3
    MaxClock = 1
    MaxEpoch = 1
    Meetings = {{t1, v1}, {l1, v1}, {t1, l1}}
CHECK_DEADLOCK FALSE
INVARIANTS
    CacheInv
    RevokeCoversEarlierIssuance
    CleanRevokeEndsTokens
PROPERTIES
    OnlyInspectedRemoved
