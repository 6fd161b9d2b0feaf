\* Two commands that reuse, mint and renew one scoped token.
SPECIFICATION MCSpec
CONSTANTS
    Acquirers = {t1, t2}
    Logins = {}
    Revokers = {}
    Authorities = {"app"}
    Policies = {"read"}
    Margin = 0
    Window = 1
    Lifetimes = {2}
    MaxTokens = 4
    MaxClock = 2
    MaxEpoch = 0
    Meetings = {{t1, t2}}
CHECK_DEADLOCK FALSE
SYMMETRY IssuerSymmetry
INVARIANTS
    WorkingTokensAccounted
    CachedTokensWork
PROPERTIES
    OnlyRenewalDisplaces
